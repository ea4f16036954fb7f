SPECIFICATION Spec
CONSTANTS
  a1 = a1
  a2 = a2
  a3 = a3
  p1 = p1
  p2 = p2
  none = none
  None <- none
  Attempt <- ThreeAttempts
  Payload <- OnePayload
  LockTime = 2
  RunTime = 1
  TTL = 3
  MaxRetries = 1
  MaxClock = 5
CHECK_DEADLOCK FALSE
SYMMETRY Symmetry
INVARIANTS TypeOK OneHolder ExecutedApart
PROPERTY ImplementsSingleFlight
