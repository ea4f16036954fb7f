SPECIFICATION FairSpec
CONSTANTS
  m1 = m1
  m2 = m2
  i1 = i1
  i2 = i2
  k1 = k1
  k2 = k2
  s1 = s1
  none = none
  None <- none
  Message <- TwoMessages
  Invocation <- TwoInvocations
  Key <- TwoKeys
  Source <- OneSource
  Traffic <- LittleTraffic
  BatchSize = 2
  MaxReceives = 2
  Visibility = 1
  Patience = 0
  RunTime = 1
  LockTime = 3
  MaxVersion = 1
  MaxFaults = 1
CHECK_DEADLOCK FALSE
PROPERTY EveryMessageSettles
