SPECIFICATION FairSpec
CONSTANTS
  MaxCalls = 2
  MaxRounds = 1
  MaxPrompts = 1
  MaxSteers = 2
  MaxFollowUps = 1
CHECK_DEADLOCK FALSE
INVARIANTS
  QueuesConserved
  TranscriptsAgree
  CallsAnswered
PROPERTIES
  FollowUpsWait
  RunCompletes
