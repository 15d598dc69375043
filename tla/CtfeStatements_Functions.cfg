SPECIFICATION Spec
CONSTANTS
  Sorts <- MCSorts
  MaxChoices = 3
  MaxSteps = 8
INVARIANTS
  Interpreted
  Arrives
CHECK_DEADLOCK FALSE
