SPECIFICATION TreeSpec
CONSTANTS
  None = None
  NoFile = NoFile
  Torn = Torn
  Garbage = Garbage
  MaxEntries = 6
  MaxMoves = 0
  MaxKills = 0
  MaxLabels = 0
  Keep = 1
CHECK_DEADLOCK FALSE
INVARIANTS
  SummariesAccumulate
