SPECIFICATION Spec
CONSTANT MaxEvents = 4
CHECK_DEADLOCK FALSE
PROPERTIES
  ReportsToRelay
  StopsAfterFailure
  FinalizeReturns
