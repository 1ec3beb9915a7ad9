CONSTANTS
  Users = {u1}
  Passwords = {p1, p2}
  Requests = {r1, r2}
  AccessTTL = 2
  RefreshTTL = 1
  HashSeconds = 1
  MaxTime = 2
  MaxCrashes = 0
  None = None
SPECIFICATION FairSpec
CHECK_DEADLOCK FALSE
PROPERTY RequestsSettle ChangeEndsSession
