------------------------------ MODULE ArrayColumn ------------------------------
(***************************************************************************)
(* ColumnArray (columns/array.cpp) over a LowCardinality column, and what  *)
(* the extension builds and reads of them (typesToPhp.cpp).  A column of   *)
(* the insert or of a result is a record: whether it is an array, the data *)
(* and the offsets, which for an array say where each row ends.            *)
(***************************************************************************)
EXTENDS LowCardinality

ColumnTypes == [array : BOOLEAN, element : ElementTypes]

createColumn(t) == [array |-> t.array, data |-> Fresh(t.element), offsets |-> << >>]

Rows(col) == IF col.array THEN Len(col.offsets) ELSE Size(col.data)

\* GetOffset: where row n, counted from 0, begins.
GetOffset(offsets, n) == IF n = 0 THEN 0 ELSE offsets[n]

GetSize(offsets, n) == offsets[n + 1] - GetOffset(offsets, n)

\* Mutant of AddOffset: the size of the row is taken for its end.
AddOffsetOfRow(offsets, n) == Append(offsets, n)

AddOffset(offsets, n) == Append(offsets, GetOffset(offsets, Len(offsets)) + n)

AppendAsColumn(col, row) ==
  [col EXCEPT !.data = AppendColumn(@, row), !.offsets = AddOffset(@, Size(row))]

GetAsColumn(col, n) == Slice(col.data, GetOffset(col.offsets, n), GetSize(col.offsets, n))

\* An array column without elements saves no data.
NoData == [keys |-> << >>, index |-> << >>]

SaveColumn(col) ==
  [offsets |-> col.offsets,
   data |-> IF col.array /\ Size(col.data) = 0 THEN NoData ELSE SaveBody(col.data)]

\* ... and loads none.
LoadColumn(wire, t) ==
  [array |-> t.array, offsets |-> wire.offsets,
   data |-> IF t.array /\ GetOffset(wire.offsets, Len(wire.offsets)) = 0
            THEN Fresh(t.element) ELSE LoadBody(wire.data, t.element)]

\* convertToZval: the value of a row, counted from 0.
ShownItem(v, t) == IF v = NullItem THEN NullItem ELSE Shown(v, t.element)

convertToZval(col, n, t) ==
  IF col.array
  THEN LET part == Content(GetAsColumn(col, n))
       IN  [i \in DOMAIN part |-> ShownItem(part[i], t)]
  ELSE ShownItem(GetItem(col.data, n + 1), t)

\* The offsets are ends of rows, and the last of them is the end of the data.
OffsetsAgree(col) ==
  col.array =>
    /\ \A i, j \in DOMAIN col.offsets : i <= j => col.offsets[i] <= col.offsets[j]
    /\ GetOffset(col.offsets, Len(col.offsets)) = Size(col.data)

=============================================================================
