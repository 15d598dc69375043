SPECIFICATION Spec
CONSTANTS
  Obj = Obj
  A = A
  B = B
  C = C
  Null = Null
  Object <- Obj
  NoDecl <- Null
  Decls <- MCDecls
  Programs <- MCPrograms
INVARIANTS
  TypeOK
  Acyclic
  NoNullDereference
  LaidOutOverBases
  DeferredOnce
  NothingForgotten
  OrderIrrelevant
PROPERTIES
  LayoutOrderSpec
  Termination
