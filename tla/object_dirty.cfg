SPECIFICATION Spec
CONSTANTS
  MaxQueries = 2
  Window = 2
  Timeouts = TRUE
  OldSocketSurvives = TRUE
  ReapplyDatabase = TRUE
  Methods <- AllMethods
INVARIANTS
  TypeOK
  RestIsTracked
  AbandonedNeverCommitted
  IInv
PROPERTY
  ImplementsLedger
