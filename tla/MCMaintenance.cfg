SPECIFICATION Spec
CONSTANTS
  i1 = i1
  i2 = i2
  y1 = y1
  y2 = y2
  q1 = q1
  e1 = e1
  u1 = u1
  o1 = o1
  o2 = o2
  none = none
  None <- none
  Incident <- TwoIncidents
  Sync <- TwoSyncs
  Feed <- Feeds
  Letters = 2
  MaxSequence = 3
  Request <- OneRequest
  Event <- OneEvent
  Update <- OneUpdate
  Operation <- TwoOperations
CONSTRAINT Scope
CHECK_DEADLOCK FALSE
INVARIANTS TypeOK NamesDistinct SparesKnown NothingLeftBehind
PROPERTIES NamesStable NothingReturns
