CONSTANTS
  Bytes <- MCBytes
  Zero = "0"
  LogMax = 2
  Types <- MCTypes
  RowsFor <- MCRows
  MaxRows = 2
  MaxCalls = 3
SPECIFICATION Spec
INVARIANTS ColumnsAgree StoredIsGiven IteratorShowsResult LogKeepsLatest
CHECK_DEADLOCK FALSE
