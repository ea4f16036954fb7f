SPECIFICATION Spec
CONSTANTS
  w1 = w1
  w2 = w2
  w3 = w3
  u1 = u1
  s1 = s1
  s2 = s2
  m1 = m1
  m2 = m2
  none = none
  None <- none
  Writer <- TwoWriters
  Unit <- OneUnit
  Score <- OneScore
  Source <- OneSource
  MaxVersion = 4
  KeyTypeErrors = FALSE
SYMMETRY Symmetry
CHECK_DEADLOCK FALSE
INVARIANTS TypeOK HistoryAgrees ReportsHistory AssignedHasUnit
PROPERTIES TerminalFreezes EventsAppendOnly ImplementsRequestHistory
