SPECIFICATION Spec
CONSTANTS
  MaxQueries = 3
  Window = 2
  Timeouts = FALSE
  OldSocketSurvives = FALSE
  ReapplyDatabase = TRUE
  Methods <- AllMethods
INVARIANTS
  AnswersAreOwn
  NothingLeftBehind
  OneShotSuccessIsCommitted
  SessionOrReset
PROPERTY
  ImplementsLedger
