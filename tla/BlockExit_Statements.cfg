SPECIFICATION Spec
CONSTANTS
  Sorts <- MCSorts
INVARIANTS
  Covered
  NothrowHonoured
  Justified
CHECK_DEADLOCK FALSE
