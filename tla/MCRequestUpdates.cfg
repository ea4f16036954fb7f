SPECIFICATION Spec
CONSTANTS
  c1 = c1
  c2 = c2
  c3 = c3
  k1 = k1
  touch = touch
  notes = notes
  none = none
  None <- none
  Command <- Commands
  Key <- OneKey
  Field <- Fields
  Touch <- touch
  StaleReads = FALSE
SYMMETRY Symmetry
CHECK_DEADLOCK FALSE
INVARIANTS AnsweredIsWritten RewrittenOnlyAfterFailure OneEventPerKey SourceIsFinal ClosedIsLeftAlone
PROPERTY KeysAreSingleFlight
