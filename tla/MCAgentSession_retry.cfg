SPECIFICATION FairSpec
CONSTANTS
  p1 = p1
  p2 = p2
  Prompts = {p1, p2}
  Shared = {"ok", "transient", "fatal"}
  Waiting = {"ok", "transient", "fatal"}
  MaxRetries = 1
  MaxTurns = 0
  Aborts = FALSE
CHECK_DEADLOCK FALSE
PROPERTIES
  RetryCompletes
