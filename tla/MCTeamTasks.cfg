SPECIFICATION FairSpec
CONSTANTS
  p1 = p1
  p2 = p2
  o1 = o1
  None = None
  Processes = {p1, p2}
  Owners = {o1}
  Statuses = {"completed"}
  MaxId = 2
  MaxCalls = 5
CHECK_DEADLOCK FALSE
INVARIANTS
  OneWriter
  HookSeesStored
PROPERTIES
  IsTaskBoard
