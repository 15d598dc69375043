CONSTANTS
  A = A
  B = B
  C = C
  D = D
  X = X
  Y = Y
  NoName = NoName
  Families = {"once", "acyclic", "cycles", "changes"}
  MaxQuestions = 3
  MaxChanges = 2
  Modules <- MCModules
  Names <- MCNames
  Worlds <- MCWorlds
  Questions <- MCQuestions
  Insertions <- MCInsertions
SPECIFICATION MCSpec
INVARIANTS AnswersExact AnswersSound PrivateStaysPrivate PrivateImportsStayPrivate MarkedIffActive
PROPERTY EverySearchEnds
CHECK_DEADLOCK FALSE
