CONSTANTS
  Users = {u1}
  Passwords = {p1, p2, p3}
  Requests = {r1, r2}
  AccessTTL = 2
  RefreshTTL = 1
  HashSeconds = 1
  MaxTime = 1
  MaxCrashes = 1
  None = None
SPECIFICATION Spec
SYMMETRY Symmetry
CHECK_DEADLOCK FALSE
PROPERTY ChangeChecksCurrent
