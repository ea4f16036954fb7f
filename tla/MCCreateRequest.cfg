SPECIFICATION Spec
CONSTANTS
  c1 = c1
  c2 = c2
  c3 = c3
  h1 = h1
  h2 = h2
  k1 = k1
  b1 = b1
  b2 = b2
  none = none
  None <- none
  Creator <- TwoCreators
  Phone <- TwoPhones
  Key <- OneKey
  Bucket <- TwoBuckets
  KeyTypeErrors = TRUE
  StaleReads = FALSE
SYMMETRY Symmetry
CHECK_DEADLOCK FALSE
INVARIANTS AnsweredIsWhole KeyCreatesOnce LaterIsRefused
PROPERTY KeysAreSingleFlight
