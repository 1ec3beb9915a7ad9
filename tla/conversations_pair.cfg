CONSTANTS
  Users = {u1, u2}
  Requests = {r1, r2}
  MaxConvs = 2
  MaxCrashes = 0
  None = None
SPECIFICATION Spec
SYMMETRY Symmetry
CHECK_DEADLOCK FALSE
INVARIANT OnePerPair
