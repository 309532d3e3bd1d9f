SPECIFICATION FairSpec
CONSTANTS
  MaxQueries = 2
  Window = 2
  Timeouts = FALSE
  OldSocketSurvives = FALSE
  ReapplyDatabase = TRUE
  Methods <- AllMethods
PROPERTIES
  EveryCallReturns
