SPECIFICATION Spec
CONSTANTS
  Machines <- MCMachines
  CountType <- tint
INVARIANTS
  TypeOK
  Sound
  Exact
CHECK_DEADLOCK FALSE
