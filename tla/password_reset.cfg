CONSTANTS
  Users = {u1, u2}
  Emails = {e1, e2, e3}
  Requests = {r1, r2}
  MaxCodes = 2
  MaxFaults = 1
  MaxEdits = 2
  None = None
SPECIFICATION Spec
CONSTRAINT Bounded
SYMMETRY Symmetry
CHECK_DEADLOCK FALSE
INVARIANTS TypeOK UsedOnce LaterRetiresEarlier CodeIsPersonal OneLinkPerUser
PROPERTY VerifiedStays CodesRefinement
