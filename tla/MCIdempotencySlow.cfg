SPECIFICATION FairSpec
CONSTANTS
  a1 = a1
  a2 = a2
  a3 = a3
  p1 = p1
  p2 = p2
  none = none
  None <- none
  Attempt <- TwoAttempts
  Payload <- TwoPayloads
  LockTime = 1
  RunTime = 2
  TTL = 3
  MaxRetries = 2
  MaxClock = 3
CHECK_DEADLOCK FALSE
INVARIANTS ReplayIsAuthentic
PROPERTIES CompletedIsFinal OnlyOwnerFinalizes EveryAttemptEnds
