CONSTANTS
  Users = {u1, u2}
  Admins = {u2}
  Convs = {c1}
  Sockets = {s1}
  Requests = {r1, r2}
  MaxMessages = 3
  MaxCrashes = 1
  None = None
SPECIFICATION Spec
SYMMETRY Symmetry
CHECK_DEADLOCK FALSE
INVARIANTS TypeOK MembershipFollowsAccount ReadMarkerSound MarkerNeverFallsBack AckedDurable CausalOrder
PROPERTY LogRefinement
