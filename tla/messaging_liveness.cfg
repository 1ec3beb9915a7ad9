CONSTANTS
  Users = {u1, u2}
  Admins = {u2}
  Convs = {c1}
  Sockets = {s1}
  Requests = {r1, r2}
  MaxMessages = 2
  MaxCrashes = 0
  None = None
SPECIFICATION FairSpec
CHECK_DEADLOCK FALSE
PROPERTY StoredIsAnnounced
