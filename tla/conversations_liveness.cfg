CONSTANTS
  Users = {u1, u2, u3}
  Requests = {r1}
  MaxConvs = 1
  MaxCrashes = 0
  None = None
SPECIFICATION FairSpec

CHECK_DEADLOCK FALSE
PROPERTY EverybodyJoins
