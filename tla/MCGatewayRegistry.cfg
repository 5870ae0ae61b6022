SPECIFICATION FairSpec
CONSTANTS
  None = None
  OldFile = OldFile
  NumCalls = 3
  NumSessions = 4
CHECK_DEADLOCK FALSE
INVARIANTS
  NeverDead
  LossNeedsOverlap
PROPERTIES
  UnusedIsReleased
