SPECIFICATION FairSpec
CONSTANTS
  p1 = p1
  p2 = p2
  Prompts = {p1, p2}
  Shared = {"ok", "transient", "overflow"}
  Waiting = {"ok", "transient", "fatal", "aborted"}
  MaxRetries = 1
  MaxTurns = 1
  Aborts = TRUE
CHECK_DEADLOCK FALSE
INVARIANTS
  WaitersHeld
  RetryNotMissed
  TranscriptKept
  DoneIsWritten
PROPERTIES
  EveryPromptReturns
  ComesToRest
