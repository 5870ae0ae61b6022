SPECIFICATION FairSpec
CONSTANTS
  s1 = s1
  s2 = s2
  r1 = r1
  None = None
  Senders = {s1, s2}
  Readers = {r1}
  Attempts = 3
  MaxCrashes = 1
CHECK_DEADLOCK FALSE
INVARIANTS
  OneInsideUntilKilled
PROPERTIES
  IsMailbox
  LockRecovered
