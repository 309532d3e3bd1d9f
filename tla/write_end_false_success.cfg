SPECIFICATION Spec
CONSTANTS
  MaxQueries = 2
  Window = 2
  Timeouts = FALSE
  OldSocketSurvives = FALSE
  ReapplyDatabase = TRUE
  Methods <- AllMethods
INVARIANTS
  WriteEndSuccessIsCommitted
