SPECIFICATION GrindSpec
CONSTANTS
  MaxRuns = 2
  MaxPrompts = 1
  MaxQueue = 1
  MaxLate = 1
  MaxRestarts = 1
  MaxSessions = 2
  MaxFailures = 2
INVARIANTS
  EndedStaysEnded
PROPERTIES
  ActiveIsDriven
  DeadlineIsKept
CHECK_DEADLOCK FALSE
