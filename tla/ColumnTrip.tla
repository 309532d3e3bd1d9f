------------------------------ MODULE ColumnTrip ------------------------------
(***************************************************************************)
(* Values on their way from a script into a table and back: insert()       *)
(* converts the rows into a column and saves it, selectStream() loads the  *)
(* blocks of the answer into a ClickHouseRowIterator, and the script walks *)
(* over it while further calls come in between.  Each call is recorded in  *)
(* the query log.  How the calls speak with the server is the subject of   *)
(* ClickHouseObject; here a call completes or fails.                       *)
(***************************************************************************)
EXTENDS ArrayColumn, QueryLog

CONSTANTS
  Types,       \* the types of the table's column
  RowsFor(_),  \* the rows a script may give for one of a type
  MaxRows,     \* bound: rows of the table
  MaxCalls     \* bound: inserts and selects of the script

\* NULL is for a Nullable column only.  A FixedString is given without the zeros
\* at its end: they cannot be told from the padding that is cut off.
IsItem(v, e) ==
  /\ v \in Items
  /\ v = NullItem => e.nullable
  /\ e.width > 0 /\ v \notin {NullItem, << >>} => v[Len(v)] # Zero

IsRow(row, t) ==
  IF t.array THEN row \in Seq(Items) /\ \A i \in DOMAIN row : IsItem(row[i], t.element)
             ELSE IsItem(row, t.element)

ASSUME TypesAreTypes == Types \subseteq ColumnTypes
ASSUME RowsAreRows == \A t \in Types : \A row \in RowsFor(t) : IsRow(row, t)
ASSUME MaxRowsIsNat == MaxRows \in Nat

VARIABLES
  type,     \* the type of the column
  call,     \* the method that is running
  calls,    \* how many were called
  rows,     \* the argument of insert()
  value,    \* the column that insert() builds
  child,    \* the array child it uses again for each row
  given,    \* the rows of the inserts that were kept
  table,    \* the rows of the table
  incoming, \* the rows of the result that the server has still to send
  result,   \* the rows of the result that the iterator is over
  iter      \* the ClickHouseRowIterator

insertVars == <<rows, value, child, given, table>>
selectVars == <<incoming, result, iter>>
vars == <<type, call, calls, insertVars, selectVars, logVars>>

NoIterator == [alive |-> FALSE, blocks |-> << >>, total |-> 0, block |-> 0, row |-> 0, key |-> 0]

Init ==
  /\ type \in Types
  /\ call = "none" /\ calls = 0
  /\ rows = << >> /\ value = createColumn(type) /\ child = Fresh(type.element)
  /\ given = << >> /\ table = << >>
  /\ incoming = << >> /\ result = << >> /\ iter = NoIterator
  /\ LogInit

Call(method) ==
  /\ call = "none" /\ calls < MaxCalls
  /\ call' = method /\ calls' = calls + 1
  /\ UNCHANGED <<type, logVars>>

\* The call ends, with the entry of recordQuerySuccess or recordQueryError.
Return(outcome) ==
  /\ call' = "none"
  /\ recordQuery([call |-> calls, outcome |-> outcome])
  /\ UNCHANGED <<type, calls>>

Fail == call' = "failed" /\ UNCHANGED <<type, calls, logVars>>

\* tryResetConnectionReapplyDatabase records a recovery that fails on its own.
RecoveryFails ==
  /\ call = "failed" /\ call' = "unrecovered"
  /\ recordQuery([call |-> calls, outcome |-> "unrecovered"])
  /\ UNCHANGED <<type, calls, insertVars, selectVars>>

Throws ==
  /\ call \in {"failed", "unrecovered"}
  /\ Return("error")
  /\ UNCHANGED <<insertVars, selectVars>>

------------------------------------------------------------------------------
(* insert(). *)

Insert ==
  /\ Call("insert")
  /\ \E n \in 1 .. MaxRows - Len(table) : rows' \in [1 .. n -> RowsFor(type)]
  /\ value' = createColumn(type) /\ child' = Fresh(type.element)
  /\ UNCHANGED <<given, table, selectVars>>

Converting == call = "insert" /\ Rows(value) < Len(rows)

Row == rows[Rows(value) + 1]

\* The column that insertColumn makes of the elements of one row.
Part == AppendAll(IF type.array THEN Fresh(type.element) ELSE value.data,
                  IF type.array THEN Row ELSE <<Row>>)

ConvertCell ==
  /\ Converting /\ ~type.array /\ ~Part.threw
  /\ value' = [value EXCEPT !.data = Part.col]
  /\ UNCHANGED <<type, call, calls, rows, child, given, table, selectVars, logVars>>

ConvertArray ==
  /\ Converting /\ type.array /\ ~Part.threw
  /\ LET filled == AppendColumn(child, Part.col)
     IN value' = AppendAsColumn(value, filled) /\ child' = Clear(filled)
  /\ UNCHANGED <<type, call, calls, rows, given, table, selectVars, logVars>>

\* A text is too long: the column is as it was before it, and nothing is sent.
ConvertThrows ==
  /\ Converting /\ Part.threw
  /\ value' = IF type.array THEN value ELSE [value EXCEPT !.data = Part.col]
  /\ Fail
  /\ UNCHANGED <<rows, child, given, table, selectVars>>

(* The server reads a column (external): an index of 0 is NULL in a        *)
(* Nullable dictionary, whose keys begin with the null item.               *)
ServerItem(wire, n) ==
  IF type.element.nullable /\ wire.index[n] = 0 THEN NullItem
  ELSE Shown(wire.keys[wire.index[n] + 1], type.element)

ServerReads(wire) ==
  IF type.array
  THEN [r \in DOMAIN wire.offsets |->
         [i \in 1 .. GetSize(wire.offsets, r - 1) |->
           ServerItem(wire.data, GetOffset(wire.offsets, r - 1) + i)]]
  ELSE [r \in DOMAIN wire.data.index |-> ServerItem(wire.data, r)]

Sending == call = "insert" /\ Rows(value) = Len(rows)

Kept ==
  /\ table' = table \o ServerReads(SaveColumn(value))
  /\ given' = given \o rows

InsertReturns ==
  /\ Sending /\ Kept
  /\ Return("ok")
  /\ UNCHANGED <<rows, value, child, selectVars>>

\* SendInsertBlock or EndInsert throws, before or after the server has the rows.
InsertThrows ==
  /\ Sending
  /\ Kept \/ UNCHANGED <<given, table>>
  /\ Fail
  /\ UNCHANGED <<rows, value, child, selectVars>>

------------------------------------------------------------------------------
(* selectStream(). *)

Select ==
  /\ Call("select")
  /\ incoming' = table /\ result' = table /\ iter' = NoIterator
  /\ UNCHANGED insertVars

Elements(part) == IF type.array THEN FlattenSeq(part) ELSE part

(* The server writes a block (external): the dictionary begins with its    *)
(* null and default items (columns/lowcardinality.h:36-40), the rest is in *)
(* any order.                                                              *)
ServerWrites(part, order) ==
  LET items == Elements(part)
      default == Stored(<< >>, type.element)
      first == IF type.element.nullable THEN <<default, default>> ELSE <<default>>
      keys == first \o order
      place(v) == IF v = NullItem THEN 0
                  ELSE Max({i \in DOMAIN keys : keys[i] = Stored(v, type.element)}) - 1
  IN [data |-> [keys |-> keys, index |-> [i \in DOMAIN items |-> place(items[i])]],
      offsets |-> IF type.array
                  THEN [r \in DOMAIN part |-> Len(FlattenSeq(SubSeq(part, 1, r)))]
                  ELSE << >>]

Orders(part) ==
  SetToSeqs({Stored(v, type.element) : v \in ToSet(Elements(part)) \ {NullItem, << >>}})

\* Mutant of IsKept: the callback keeps the blocks without rows, too.
IsKeptAny(n) == TRUE

\* The OnData callback passes over blocks without rows.
IsKept(n) == n > 0

\* ReadBlock and the OnData callback; the result's first block often has no rows.
ReceiveBlock ==
  /\ call = "select" /\ Len(iter.blocks) <= MaxRows
  /\ \E n \in 0 .. Len(incoming) :
       /\ \E order \in Orders(SubSeq(incoming, 1, n)) :
            LET column == LoadColumn(ServerWrites(SubSeq(incoming, 1, n), order), type)
            IN iter' = IF IsKept(n)
                       THEN [iter EXCEPT !.blocks = Append(@, column), !.total = @ + n]
                       ELSE iter
       /\ incoming' = SubSeq(incoming, n + 1, Len(incoming))
  /\ UNCHANGED <<type, call, calls, result, insertVars, logVars>>

SelectReturns ==
  /\ call = "select" /\ incoming = << >>
  /\ iter' = [iter EXCEPT !.alive = TRUE]
  /\ Return("ok")
  /\ UNCHANGED <<insertVars, incoming, result>>

\* The iterator is destroyed and the method throws.
SelectThrows ==
  /\ call = "select"
  /\ iter' = NoIterator /\ incoming' = << >> /\ result' = << >>
  /\ Fail
  /\ UNCHANGED insertVars

------------------------------------------------------------------------------
(* ClickHouseRowIterator; blocks and rows are counted from 0. *)

BlockRows(b) == Rows(iter.blocks[b + 1])

IterValid == iter.block < Len(iter.blocks) /\ iter.row < BlockRows(iter.block)

IterCurrent == convertToZval(iter.blocks[iter.block + 1], iter.row, type)

Walk(to) == iter' = to /\ UNCHANGED <<type, call, calls, incoming, result, insertVars, logVars>>

IterRewind == iter.alive /\ Walk([iter EXCEPT !.block = 0, !.row = 0, !.key = 0])

\* next() leaves a block behind whose rows are used up, and any without rows after it.
IterNext ==
  /\ iter.alive /\ iter.block < Len(iter.blocks)
  /\ LET stays == iter.row + 1 < BlockRows(iter.block)
         later == {b \in iter.block + 1 .. Len(iter.blocks) : b < Len(iter.blocks) => BlockRows(b) > 0}
     IN Walk([iter EXCEPT !.key = @ + 1,
                          !.row = IF stays THEN @ + 1 ELSE 0,
                          !.block = IF stays THEN @ ELSE Min(later)])

------------------------------------------------------------------------------

LogCalls ==
  /\ call = "none" /\ calls < MaxCalls
  /\ enableLogQueries \/ getLogQueries
  /\ UNCHANGED <<type, call, calls, insertVars, selectVars>>

Next ==
  \/ Insert \/ ConvertCell \/ ConvertArray \/ ConvertThrows \/ InsertReturns \/ InsertThrows
  \/ Select \/ ReceiveBlock \/ SelectReturns \/ SelectThrows
  \/ RecoveryFails \/ Throws
  \/ IterRewind \/ IterNext
  \/ LogCalls

Spec == Init /\ [][Next]_vars

------------------------------------------------------------------------------
(* Properties. *)

\* Every column that is built or loaded has its map, its index and its offsets
\* agree with its dictionary and data, also after an append that threw.
ColumnsAgree ==
  /\ PlacesAgree(value.data) /\ OffsetsAgree(value) /\ PlacesAgree(child)
  /\ \A b \in DOMAIN iter.blocks : PlacesAgree(iter.blocks[b].data) /\ OffsetsAgree(iter.blocks[b])

\* The table holds the rows of the inserts that were kept, NULL and the empty
\* string apart (columns/lowcardinality.cpp:98-99).
StoredIsGiven == table = given

\* The iterator walks over the rows of the result, each once and in order, under
\* its number, however the rows came in blocks and dictionaries.
IteratorShowsResult ==
  iter.alive =>
    /\ iter.total = Len(result)
    /\ IterValid <=> iter.key < Len(result)
    /\ IterValid => IterCurrent = result[iter.key + 1]

=============================================================================
