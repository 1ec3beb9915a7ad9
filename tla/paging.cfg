CONSTANTS
  PageSize = 2
  MaxId = 4
  None = None
SPECIFICATION FairSpec
CHECK_DEADLOCK FALSE
INVARIANTS TypeOK NothingSkipped NothingTwice
PROPERTY WalkEnds
