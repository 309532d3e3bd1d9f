SPECIFICATION Spec
CONSTANTS
  MaxQueries = 3
  Window = 2
  Timeouts = TRUE
  OldSocketSurvives = FALSE
  ReapplyDatabase = FALSE
  Methods <- RecoveringMethods
INVARIANTS
  AnswersAreOwn
  NothingLeftBehind
  StreamIsServersInsert
  OneShotSuccessIsCommitted
  SessionOrReset
