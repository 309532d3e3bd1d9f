SPECIFICATION Spec
CONSTANTS
  MaxQueries = 2
  Window = 2
  Timeouts = FALSE
  OldSocketSurvives = TRUE
  ReapplyDatabase = TRUE
  Methods <- AllMethods
INVARIANTS
  AnswersAreOwn
