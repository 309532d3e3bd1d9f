CONSTANTS
  Bytes <- MCBytes
  Zero = "0"
  LogMax = 2
  Types <- MCNullableArrays
  RowsFor <- MCAllRows
  MaxRows = 2
  MaxCalls = 3
SPECIFICATION Spec
INVARIANT IteratorShowsResult
CHECK_DEADLOCK FALSE
