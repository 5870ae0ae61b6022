SPECIFICATION FairSpec
CONSTANTS
  r1 = r1
  r2 = r2
  r3 = r3
  c1 = c1
  c2 = c2
  Requests = {r1, r2, r3}
  Durable = {r1}
  Callers = {c1, c2}
  Resetters = {c1}
  MaxQueue = 1
  MaxRetries = 1
  None = None
  Unasked = Unasked
CHECK_DEADLOCK FALSE
INVARIANTS
  OnePlace
  NoStrandedRequest
  SingleFlight
PROPERTIES
  SettledOnce
  EveryRequestAnswered
  DiscardCompletes
