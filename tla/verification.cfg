CONSTANTS
  Users = {u1, u2}
  Requests = {r1, r2}
  Workers = 2
  MaxJobs = 2
  MaxCodes = 4
  MaxFaults = 2
SPECIFICATION FairSpec
CONSTRAINT Bounded
CHECK_DEADLOCK FALSE
INVARIANTS TypeOK NothingHalfDone LinksWork StoredIsReachable MailsPerJob
PROPERTY CodesRefinement AskedIsMailed
