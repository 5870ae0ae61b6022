SPECIFICATION TreeSpec
CONSTANTS
  None = None
  NoFile = NoFile
  Torn = Torn
  Garbage = Garbage
  MaxEntries = 6
  MaxMoves = 1
  MaxKills = 1
  MaxLabels = 2
  Keep = 2
CHECK_DEADLOCK FALSE
INVARIANTS
  ReloadAgrees
  NoOrphanResult
  FirstCompactionComplete
