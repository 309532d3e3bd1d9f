---------------------------- MODULE LowCardinality ----------------------------
(***************************************************************************)
(* ColumnLowCardinality (columns/lowcardinality.cpp): a column that keeps  *)
(* every value once in a dictionary, an index into it per row, and a map   *)
(* from the values to their places for appending.  A place is counted from *)
(* 0, as in the code.                                                      *)
(*                                                                         *)
(* A column is a record: its element type, the dictionary, the index and   *)
(* the map.  An item is a text, which is a sequence of bytes, or NULL; the *)
(* dictionary of a Nullable type holds a text and a null flag per entry.   *)
(* The two hashes of a key are taken for the key itself.                   *)
(***************************************************************************)
EXTENDS Integers, Sequences, SequencesExt

CONSTANTS
  Bytes,  \* the bytes of a text
  Zero    \* the one that pads a FixedString

ASSUME ZeroIsByte == Zero \in Bytes
ASSUME NullIsNoByte == "NULL" \notin Bytes

\* ItemView{} of type Void: not a text.
NullItem == <<"NULL">>
Texts == Seq(Bytes)
Items == Texts \cup {NullItem}

\* The element types: String has width 0, FixedString(n) has width n.
ElementTypes == [nullable : BOOLEAN, width : Nat]

\* FixedString pads a text to its width, and the extension cuts the padding off.
Stored(s, type) ==
  IF Len(s) >= type.width THEN s
  ELSE [i \in 1 .. type.width |-> IF i <= Len(s) THEN s[i] ELSE Zero]

Shown(s, type) ==
  IF type.width = 0 THEN s
  ELSE SubSeq(s, 1, Max({0} \cup {i \in DOMAIN s : s[i] # Zero}))

IsTooLong(v, type) == v # NullItem /\ type.width > 0 /\ Len(v) > type.width

------------------------------------------------------------------------------
(* The dictionary and the map. *)

Entry(v, type) ==
  IF v = NullItem THEN [text |-> Stored(<< >>, type), null |-> TRUE]
                  ELSE [text |-> Stored(v, type), null |-> FALSE]

AppendToDictionary(col, v) == [col EXCEPT !.dict = Append(@, Entry(v, col.type))]

\* emplace keeps the place that a key has.
Emplace(f, k, n) == [key \in DOMAIN f \cup {k} |-> IF key \in DOMAIN f THEN f[key] ELSE n]

Forget(f, k) == [key \in DOMAIN f \ {k} |-> f[key]]

\* The item at a place of the dictionary.
DictionaryItem(col, n) == IF col.dict[n + 1].null THEN NullItem ELSE col.dict[n + 1].text

Bare(type) == [type |-> type, dict |-> << >>, index |-> << >>, unique |-> [k \in {} |-> 0]]

AppendNullItem(col) ==
  [AppendToDictionary(col, NullItem) EXCEPT !.unique = Emplace(@, NullItem, 0)]

AppendDefaultItem(col) ==
  [AppendToDictionary(col, << >>) EXCEPT !.unique = Emplace(@, << >>, Len(col.dict))]

\* The constructor for a dictionary whose class says it is Nullable, and Clear().
Fresh(type) ==
  AppendDefaultItem(IF type.nullable THEN AppendNullItem(Bare(type)) ELSE Bare(type))

\* The constructor for any dictionary column: there is no null item.
FreshOver(type) == AppendDefaultItem(Bare(type))

CloneEmpty(col) == FreshOver(col.type)

Clear(col) == Fresh(col.type)

------------------------------------------------------------------------------
(* Rows. *)

Size(col) == Len(col.index)

\* Place 0 of a Nullable dictionary reads as NULL whatever it holds.
GetItem(col, row) ==
  IF col.type.nullable /\ col.index[row] = 0 THEN NullItem
  ELSE DictionaryItem(col, col.index[row])

Content(col) == [row \in DOMAIN col.index |-> GetItem(col, row)]

AppendUnsafe(col, v) ==
  LET new == v \notin DOMAIN col.unique
      n == IF new THEN Len(col.dict) ELSE col.unique[v]
  IN  [col EXCEPT !.unique = Emplace(@, v, n), !.index = Append(@, n),
                  !.dict = IF new THEN Append(@, Entry(v, col.type)) ELSE @]

\* Mutant of AppendUnsafeThrows: the key of the item stays in the map.
AppendUnsafeThrowsKeepsKey(col, v) ==
  [col EXCEPT !.unique = Emplace(@, v, Len(col.dict))]

\* The dictionary refuses the text: the index and the key that were added first
\* are taken back.
AppendUnsafeThrows(col, v) ==
  LET begun == [col EXCEPT !.unique = Emplace(@, v, Len(col.dict)),
                           !.index = Append(@, Len(col.dict))]
  IN  [begun EXCEPT !.index = SubSeq(@, 1, Len(@) - 1), !.unique = Forget(@, v)]

\* Rows one after the other.
AppendItems(col, items) == FoldLeft(AppendUnsafe, col, items)

\* ... up to the first that throws.
AppendAll(col, items) ==
  LET bad == {i \in DOMAIN items : IsTooLong(items[i], col.type)}
      first == Min(bad)
  IN  IF bad = {} THEN [col |-> AppendItems(col, items), threw |-> FALSE]
      ELSE [col |-> AppendUnsafeThrows(AppendItems(col, SubSeq(items, 1, first - 1)), items[first]),
            threw |-> TRUE]

\* Append(ColumnRef) of another column of the same type.
AppendColumn(col, other) == AppendItems(col, Content(other))

Slice(col, begin, len) ==
  AppendItems(CloneEmpty(col), SubSeq(Content(col), begin + 1, begin + len))

------------------------------------------------------------------------------
(* The native format. *)

\* The null flags are not sent.
SaveBody(col) ==
  [keys |-> [i \in DOMAIN col.dict |-> col.dict[i].text], index |-> col.index]

\* The first entry of a Nullable dictionary is the null item.
LoadBody(wire, type) ==
  LET dict == [i \in DOMAIN wire.keys |->
                 [text |-> wire.keys[i], null |-> type.nullable /\ i = 1]]
      key(i) == IF dict[i].null THEN NullItem ELSE dict[i].text
      places(k) == {i \in DOMAIN dict : key(i) = k}
  IN  [type |-> type, dict |-> dict, index |-> wire.index,
       unique |-> [k \in {key(i) : i \in DOMAIN dict} |-> Min(places(k)) - 1]]

------------------------------------------------------------------------------
(* What makes a column one. *)

Columns ==
  [type : ElementTypes, dict : Seq([text : Texts, null : BOOLEAN]), index : Seq(Nat),
   unique : UNION {[S -> Nat] : S \in SUBSET Items}]

\* Index and map point into the dictionary, and at the items they stand for: a
\* Nullable dictionary has its null item at place 0, where it is the only one
\* (columns/lowcardinality.h:36-40), and the map knows it.
PlacesAgree(col) ==
  /\ \A row \in DOMAIN col.index : col.index[row] < Len(col.dict)
  /\ \A v \in DOMAIN col.unique :
       /\ col.unique[v] < Len(col.dict)
       /\ col.dict[col.unique[v] + 1] = Entry(v, col.type)
       /\ v = NullItem \/ ~IsTooLong(v, col.type)
  /\ \A i \in DOMAIN col.dict : col.dict[i].null <=> col.type.nullable /\ i = 1
  /\ col.type.nullable => NullItem \in DOMAIN col.unique

=============================================================================
