SPECIFICATION FairSpec
CONSTANTS
  a1 = a1
  a2 = a2
  a3 = a3
  u1 = u1
  Adapters = {a1, a2, a3}
  Users = {u1}
  MaxConcurrent = 2
  MaxQueue = 2
  MaxMessages = 2
  MaxNews = 1
  MaxStops = 1
CHECK_DEADLOCK FALSE
INVARIANTS
  OnePlace
  SlotsKept
  SerialPerSession
PROPERTIES
  AnsweredInOrder
  EveryMessageLeaves
