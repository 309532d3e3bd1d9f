CONSTANTS
  Jobs <- MCJobs
  BatchRows = 2
  MaxText = 6
  MaxChunk = 2
  Alphabet <- MCAlphabet
  Source <- MCSource
  WritesOf <- MCWrites
SPECIFICATION Spec
CHECK_DEADLOCK FALSE
INVARIANTS TypeOK EndedIsWhole RejectedOnlyIfMalformed RoundTrip ExportIsWhole
PROPERTY ImplementsLoad
