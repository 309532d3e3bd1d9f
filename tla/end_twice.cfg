SPECIFICATION Spec
CONSTANTS
  MaxQueries = 2
  Window = 2
  Timeouts = TRUE
  OldSocketSurvives = FALSE
  ReapplyDatabase = FALSE
  Methods <- AllMethods
INVARIANTS
  NothingLeftBehind
