CONSTANTS
  A = A
  B = B
  C = C
  NoModule = NoModule
  MaxQuestions = 2
  Modules <- MCModules
  Graphs <- MCGraphs
SPECIFICATION Spec
INVARIANTS
  MarksDelimitSearch
  SelfAnswerExact
  RootAnswerNear
PROPERTY EveryQuestionAnswered
\* Nobody has to ask another question.
CHECK_DEADLOCK FALSE
