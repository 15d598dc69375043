SPECIFICATION Spec
CONSTANTS
  ref = ref
  const = const
  Fields = {ref, const}
  HasBase = TRUE
  EmptyConditions = TRUE
  ExitsInLoops = FALSE
  DeadCode = FALSE
  MaxDepth = 3
  Sorts <- MCSorts
INVARIANTS
  TypeOK
  ConstructedOnce
  InitializedOnce
  CallRejectionsJustified
  FieldRejectionsJustified
CHECK_DEADLOCK FALSE
