-------------------------- MODULE ColumnTrip_proofs --------------------------
(***************************************************************************)
(* For every set of types and of rows: the columns that inserts build and  *)
(* that selects receive agree, the table has the rows that were given, and *)
(* an iterator shows the result.  What the operations of a LowCardinality  *)
(* column do comes first: appending, slicing, saving and loading; then the *)
(* query log of the object.                                                *)
(***************************************************************************)
EXTENDS ColumnTrip, DataInduction

------------------------------------------------------------------------------
(* A LowCardinality column. *)

\* A padded text is a text of at least the width.
LEMMA StoredIsText ==
  ASSUME NEW elem \in ElementTypes, NEW s \in Texts
  PROVE  Stored(s, elem) \in Texts
<1>1. CASE Len(s) >= elem.width
  BY <1>1 DEF Stored
<1>2. CASE ~(Len(s) >= elem.width)
  <2>1. elem.width \in Nat /\ Len(s) \in Nat
    BY DEF ElementTypes, Texts
  <2>2. \A i \in 1 .. elem.width : (IF i <= Len(s) THEN s[i] ELSE Zero) \in Bytes
    BY <2>1, ZeroIsByte DEF Texts
  <2>3. Stored(s, elem) = [i \in 1 .. elem.width |-> IF i <= Len(s) THEN s[i] ELSE Zero]
    BY <1>2 DEF Stored
  <2>4. Stored(s, elem) \in [1 .. elem.width -> Bytes]
    BY <2>2, <2>3
  <2> QED BY <2>1, <2>4 DEF Texts
<1> QED BY <1>1, <1>2

\* The empty text is one.
LEMMA EmptyIsText == << >> \in Texts
BY DEF Texts

\* NULL is not a text.
LEMMA NullIsNoText == NullItem \notin Texts
<1>1. SUFFICES ASSUME NullItem \in Texts PROVE FALSE
  OBVIOUS
<1>2. NullItem[1] \in Bytes
  BY <1>1 DEF NullItem, Texts
<1> QED BY <1>2, NullIsNoByte DEF NullItem

\* The entries of a dictionary.
Entries == [text : Texts, null : BOOLEAN]

\* The entry of an item is its text and whether it is NULL.
LEMMA EntryType ==
  ASSUME NEW elem \in ElementTypes, NEW v \in Items
  PROVE  /\ Entry(v, elem) \in [text : Texts, null : BOOLEAN]
         /\ Entry(v, elem).null <=> v = NullItem
         /\ v # NullItem => Entry(v, elem).text = Stored(v, elem)
<1>1. CASE v = NullItem
  BY <1>1, EmptyIsText, StoredIsText DEF Entry
<1>2. CASE v # NullItem
  <2>1. v \in Texts
    BY <1>2 DEF Items
  <2> QED BY <1>2, <2>1, StoredIsText DEF Entry
<1> QED BY <1>1, <1>2

\* A record of the four fields that every column has.
IsColumn(col) ==
  col = [type |-> col.type, dict |-> col.dict, index |-> col.index, unique |-> col.unique]

\* An append to the dictionary changes that field.
LEMMA RecordAppend ==
  ASSUME NEW col, NEW v, IsColumn(col)
  PROVE  AppendToDictionary(col, v) =
           [type |-> col.type, dict |-> Append(col.dict, Entry(v, col.type)),
            index |-> col.index, unique |-> col.unique]
<1> DEFINE a == Append(col.dict, Entry(v, col.type))
<1>1. AppendToDictionary(col, v) = [col EXCEPT !.dict = a]
  BY DEF AppendToDictionary
<1> HIDE DEF a
<1>2. [col EXCEPT !.dict = a] =
        [type |-> col.type, dict |-> a, index |-> col.index, unique |-> col.unique]
  BY DEF IsColumn
<1> QED BY <1>1, <1>2 DEF a

\* Append to nothing and to one element.
LEMMA AppendToShort ==
  ASSUME NEW a, NEW b
  PROVE  /\ Append(<< >>, a) = <<a>> /\ Len(<< >>) = 0 /\ Len(<<a>>) = 1
         /\ Append(<<a>>, b) = <<a, b>>
<1> DEFINE S == {a, b}
<1>1. /\ << >> \in Seq(S) /\ <<a>> \in Seq(S) /\ <<a, b>> \in Seq(S)
      /\ Append(<< >>, a) \in Seq(S) /\ Append(<<a>>, b) \in Seq(S)
  OBVIOUS
<1>2. /\ Len(<< >>) = 0 /\ Len(<<a>>) = 1 /\ Len(<<a, b>>) = 2
      /\ Len(Append(<< >>, a)) = 1 /\ Len(Append(<<a>>, b)) = 2
  OBVIOUS
<1>3. Append(<< >>, a)[1] = a /\ Append(<<a>>, b)[1] = a /\ Append(<<a>>, b)[2] = b
  OBVIOUS
<1>4. <<a>>[1] = a /\ <<a, b>>[1] = a /\ <<a, b>>[2] = b
  OBVIOUS
<1> HIDE DEF S
<1>5. Append(<< >>, a) = <<a>>
  <2>1. \A i \in 1 .. 1 : Append(<< >>, a)[i] = <<a>>[i]
    BY <1>3, <1>4
  <2> QED BY <1>1, <1>2, <2>1, SeqEqual
<1>6. Append(<<a>>, b) = <<a, b>>
  <2>1. \A i \in 1 .. 2 : Append(<<a>>, b)[i] = <<a, b>>[i]
    BY <1>3, <1>4
  <2> QED BY <1>1, <1>2, <2>1, SeqEqual
<1> QED BY <1>2, <1>5, <1>6

\* Changing the map changes that field.
LEMMA RecordUnique ==
  ASSUME NEW t, NEW d, NEW i, NEW u, NEW w
  PROVE  [[type |-> t, dict |-> d, index |-> i, unique |-> u] EXCEPT !.unique = w] =
           [type |-> t, dict |-> d, index |-> i, unique |-> w]
OBVIOUS

\* The constructor for any dictionary: one entry, the default item.
LEMMA FreshOverIs ==
  ASSUME NEW elem \in ElementTypes
  PROVE  FreshOver(elem) = [type |-> elem, dict |-> <<Entry(<< >>, elem)>>, index |-> << >>,
                            unique |-> [k \in {<< >>} |-> 0]]
<1> DEFINE d == Entry(<< >>, elem)
<1> DEFINE none == [k \in {} |-> 0]
<1> DEFINE one == [k \in {<< >>} |-> 0]
<1>1. Emplace(none, << >>, 0) = one
  BY DEF Emplace
<1>2. Append(<< >>, d) = <<d>> /\ Len(<< >>) = 0
  BY AppendToShort
<1>3. AppendToDictionary(Bare(elem), << >>) =
        [type |-> elem, dict |-> <<d>>, index |-> << >>, unique |-> none]
  <2>1. Bare(elem) = [type |-> elem, dict |-> << >>, index |-> << >>, unique |-> none]
    BY DEF Bare
  <2> HIDE DEF none
  <2>2. /\ IsColumn(Bare(elem)) /\ Bare(elem).type = elem /\ Bare(elem).dict = << >>
        /\ Bare(elem).index = << >> /\ Bare(elem).unique = none
    BY <2>1 DEF IsColumn
  <2>3. AppendToDictionary(Bare(elem), << >>) =
          [type |-> elem, dict |-> Append(<< >>, d), index |-> << >>, unique |-> none]
    BY <2>2, RecordAppend
  <2> QED BY <1>2, <2>3
<1>4. FreshOver(elem) = AppendDefaultItem(Bare(elem)) /\ Len(Bare(elem).dict) = 0
  BY <1>2 DEF FreshOver, Bare
<1> HIDE DEF d, none, one
<1>5. FreshOver(elem) = [AppendToDictionary(Bare(elem), << >>) EXCEPT !.unique = one]
  BY <1>1, <1>3, <1>4 DEF AppendDefaultItem
<1>6. FreshOver(elem) = [type |-> elem, dict |-> <<d>>, index |-> << >>, unique |-> one]
  BY <1>3, <1>5, RecordUnique
<1> QED BY <1>6 DEF d, one

\* A record of columns' fields is a column.
LEMMA RecordIsColumn ==
  ASSUME NEW elem \in ElementTypes, NEW d \in Seq([text : Texts, null : BOOLEAN]),
         NEW keys \in SUBSET Items, NEW u \in [keys -> Nat], NEW x \in Seq(Nat)
  PROVE  [type |-> elem, dict |-> d, index |-> x, unique |-> u] \in Columns
<1>1. u \in UNION {[S -> Nat] : S \in SUBSET Items}
  OBVIOUS
<1> QED BY <1>1 DEF Columns

\* An empty column is one, with no rows: the constructor for a Nullable
\* dictionary and for any other leave the null and the default item where the
\* map says they are (lowcardinality.cpp:155-172, :184-200).
THEOREM FreshAgrees ==
  ASSUME NEW elem \in ElementTypes
  PROVE  /\ Fresh(elem) \in Columns /\ Fresh(elem).type = elem
         /\ PlacesAgree(Fresh(elem)) /\ Content(Fresh(elem)) = << >>
<1> DEFINE e == Entry(NullItem, elem)
<1> DEFINE d == Entry(<< >>, elem)
<1> DEFINE none == [k \in {} |-> 0]
<1>0. /\ e \in [text : Texts, null : BOOLEAN] /\ d \in [text : Texts, null : BOOLEAN]
      /\ e.null /\ ~d.null
  BY EntryType, EmptyIsText, NullIsNoText DEF Items
<1>1. << >> # NullItem
  BY EmptyIsText, NullIsNoText
<1>2. CASE elem.nullable
  <2> DEFINE null == AppendNullItem(Bare(elem))
  <2> DEFINE one == [k \in {NullItem} |-> 0]
  <2> DEFINE two == [k \in {NullItem, << >>} |-> IF k = NullItem THEN 0 ELSE 1]
  <2>1. null = [type |-> elem, dict |-> <<e>>, index |-> << >>, unique |-> one]
    <3>1. Emplace(none, NullItem, 0) = one
      BY DEF Emplace
    <3>2. Append(<< >>, e) = <<e>>
      BY AppendToShort
    <3>3. AppendToDictionary(Bare(elem), NullItem) =
            [type |-> elem, dict |-> <<e>>, index |-> << >>, unique |-> none]
      <4>1. Bare(elem) = [type |-> elem, dict |-> << >>, index |-> << >>, unique |-> none]
        BY DEF Bare
      <4> HIDE DEF none
      <4>2. /\ IsColumn(Bare(elem)) /\ Bare(elem).type = elem /\ Bare(elem).dict = << >>
            /\ Bare(elem).index = << >> /\ Bare(elem).unique = none
        BY <4>1 DEF IsColumn
      <4>3. AppendToDictionary(Bare(elem), NullItem) =
              [type |-> elem, dict |-> Append(<< >>, e), index |-> << >>, unique |-> none]
        BY <4>2, RecordAppend
      <4> QED BY <3>2, <4>3
    <3> HIDE DEF e, none, one
    <3>4. null = [AppendToDictionary(Bare(elem), NullItem) EXCEPT !.unique = one]
      BY <3>1, <3>3 DEF AppendNullItem
    <3> QED BY <3>3, <3>4, RecordUnique
  <2>2. Fresh(elem) = [type |-> elem, dict |-> <<e, d>>, index |-> << >>, unique |-> two]
    <3>1. Append(<<e>>, d) = <<e, d>> /\ Len(<<e>>) = 1
      BY AppendToShort
    <3>2. Emplace(one, << >>, 1) = two
      BY <1>1 DEF Emplace
    <3> HIDE DEF e, none, one, two, null
    <3>3. AppendToDictionary(null, << >>) =
            [type |-> elem, dict |-> <<e, d>>, index |-> << >>, unique |-> one]
      <4>1. /\ IsColumn(null) /\ null.type = elem /\ null.dict = <<e>>
            /\ null.index = << >> /\ null.unique = one
        BY <2>1 DEF IsColumn
      <4>2. AppendToDictionary(null, << >>) =
              [type |-> elem, dict |-> Append(<<e>>, Entry(<< >>, elem)), index |-> << >>,
               unique |-> one]
        BY <4>1, RecordAppend
      <4> QED BY <3>1, <4>2 DEF d
    <3>4. Fresh(elem) = AppendDefaultItem(null)
      BY <1>2 DEF Fresh, null
    <3>5. Len(null.dict) = 1
      BY <2>1, <3>1
    <3>6. Fresh(elem) = [AppendToDictionary(null, << >>) EXCEPT !.unique = two]
      BY <3>2, <3>3, <3>4, <3>5 DEF AppendDefaultItem
    <3> QED BY <3>3, <3>6, RecordUnique
  <2>7. Fresh(elem) \in Columns
    <3>1. /\ <<e, d>> \in Seq([text : Texts, null : BOOLEAN]) /\ << >> \in Seq(Nat)
          /\ {NullItem, << >>} \in SUBSET Items /\ two \in [{NullItem, << >>} -> Nat]
      BY <1>0, EmptyIsText DEF Items
    <3> HIDE DEF e, d, two
    <3> QED BY <2>2, <3>1, RecordIsColumn
  <2> DEFINE c == Fresh(elem)
  <2> HIDE DEF e, d
  <2>3. /\ c.type = elem /\ c.dict = <<e, d>> /\ c.index = << >>
        /\ DOMAIN c.unique = {NullItem, << >>}
        /\ c.unique[NullItem] = 0 /\ c.unique[<< >>] = 1
    BY <1>1, <2>2
  <2> HIDE DEF c
  <2>4. \A v \in DOMAIN c.unique : v = NullItem \/ ~IsTooLong(v, c.type)
    BY <2>3 DEF IsTooLong, ElementTypes
  <2>5. \A v \in DOMAIN c.unique : c.dict[c.unique[v] + 1] = Entry(v, c.type)
    BY <2>3 DEF e, d
  <2>6. PlacesAgree(c)
    BY <1>0, <1>2, <2>3, <2>4, <2>5 DEF PlacesAgree
  <2> QED BY <2>3, <2>6, <2>7 DEF Content, c
<1>3. CASE ~elem.nullable
  <2> DEFINE one == [k \in {<< >>} |-> 0]
  <2>1. Fresh(elem) = [type |-> elem, dict |-> <<d>>, index |-> << >>, unique |-> one]
    BY <1>3, FreshOverIs DEF Fresh, FreshOver
  <2>2. Fresh(elem) \in Columns
    <3>1. /\ <<d>> \in Seq([text : Texts, null : BOOLEAN]) /\ << >> \in Seq(Nat)
          /\ {<< >>} \in SUBSET Items /\ one \in [{<< >>} -> Nat]
      BY <1>0, EmptyIsText DEF Items
    <3> HIDE DEF d, one
    <3> QED BY <2>1, <3>1, RecordIsColumn
  <2> DEFINE c == Fresh(elem)
  <2> HIDE DEF d
  <2>3. /\ c.type = elem /\ c.dict = <<d>> /\ c.index = << >>
        /\ DOMAIN c.unique = {<< >>} /\ c.unique[<< >>] = 0
    BY <2>1
  <2> HIDE DEF c
  <2>4. \A v \in DOMAIN c.unique : v = NullItem \/ ~IsTooLong(v, c.type)
    BY <2>3 DEF IsTooLong, ElementTypes
  <2>5. \A v \in DOMAIN c.unique : c.dict[c.unique[v] + 1] = Entry(v, c.type)
    BY <2>3 DEF d
  <2>6. PlacesAgree(c)
    BY <1>0, <1>3, <2>3, <2>4, <2>5 DEF PlacesAgree
  <2> QED BY <2>2, <2>3, <2>6 DEF Content, c
<1> QED BY <1>2, <1>3

------------------------------------------------------------------------------
(* Appending. *)

\* The place that an item has or gets.
Place(col, v) == IF v \notin DOMAIN col.unique THEN Len(col.dict) ELSE col.unique[v]

\* The fields of a column.
LEMMA ColumnFields ==
  ASSUME NEW col \in Columns
  PROVE  /\ IsColumn(col) /\ col.type \in ElementTypes
         /\ col.dict \in Seq([text : Texts, null : BOOLEAN]) /\ col.index \in Seq(Nat)
         /\ \E S \in SUBSET Items : col.unique \in [S -> Nat]
BY DEF Columns, IsColumn

\* The fields of a column that an item was appended to.
LEMMA AppendUnsafeFields ==
  ASSUME NEW col, NEW v, IsColumn(col)
  PROVE  /\ IsColumn(AppendUnsafe(col, v))
         /\ AppendUnsafe(col, v).type = col.type
         /\ AppendUnsafe(col, v).index = Append(col.index, Place(col, v))
         /\ AppendUnsafe(col, v).unique = Emplace(col.unique, v, Place(col, v))
         /\ AppendUnsafe(col, v).dict = IF v \notin DOMAIN col.unique
                                        THEN Append(col.dict, Entry(v, col.type)) ELSE col.dict
<1> DEFINE n == Place(col, v)
<1> DEFINE u == Emplace(col.unique, v, n)
<1> DEFINE x == Append(col.index, n)
<1> DEFINE d == IF v \notin DOMAIN col.unique THEN Append(col.dict, Entry(v, col.type)) ELSE col.dict
<1>1. AppendUnsafe(col, v) = [col EXCEPT !.unique = u, !.index = x, !.dict = d]
  BY DEF AppendUnsafe, Place
<1> HIDE DEF n, u, x, d
<1>2. AppendUnsafe(col, v) = [type |-> col.type, dict |-> d, index |-> x, unique |-> u]
  BY <1>1 DEF IsColumn
<1>3. IsColumn(AppendUnsafe(col, v))
  BY <1>2 DEF IsColumn
<1> QED BY <1>2, <1>3 DEF n, u, x, d

\* emplace adds a key that the map has not, and no other.
LEMMA EmplaceIs ==
  ASSUME NEW f, NEW k, NEW n
  PROVE  /\ DOMAIN Emplace(f, k, n) = DOMAIN f \cup {k}
         /\ \A key \in DOMAIN f : Emplace(f, k, n)[key] = f[key]
         /\ k \notin DOMAIN f => Emplace(f, k, n)[k] = n
BY DEF Emplace

\* The map points at the items it has.
MapAgrees(col) ==
  \A v \in DOMAIN col.unique :
    col.unique[v] < Len(col.dict) /\ col.dict[col.unique[v] + 1] = Entry(v, col.type)

\* The rows point into the dictionary.
IndexAgrees(col) == \A row \in DOMAIN col.index : col.index[row] < Len(col.dict)

\* The place is within the new dictionary, and the item's entry is there.
LEMMA PlaceHoldsItem ==
  ASSUME NEW col \in Columns, MapAgrees(col), NEW v \in Items
  PROVE  /\ Place(col, v) \in Nat
         /\ Place(col, v) < Len(AppendUnsafe(col, v).dict)
         /\ AppendUnsafe(col, v).dict[Place(col, v) + 1] = Entry(v, col.type)
         /\ AppendUnsafe(col, v).dict \in Seq(Entries)
         /\ Len(AppendUnsafe(col, v).dict) = IF v \notin DOMAIN col.unique THEN Len(col.dict) + 1
                                             ELSE Len(col.dict)
         /\ \A i \in 1 .. Len(col.dict) : AppendUnsafe(col, v).dict[i] = col.dict[i]
<1> DEFINE e == Entry(v, col.type)
<1> DEFINE after == AppendUnsafe(col, v).dict
<1>1. after = IF v \notin DOMAIN col.unique THEN Append(col.dict, e) ELSE col.dict
  BY ColumnFields, AppendUnsafeFields
<1>2. col.dict \in Seq(Entries)
  BY ColumnFields DEF Entries
<1>3. e \in Entries
  BY ColumnFields, EntryType DEF Entries
<1>4. Len(col.dict) \in Nat
  BY <1>2, LenProperties
<1> HIDE DEF e, after
<1>5. CASE v \notin DOMAIN col.unique
  <2>1. Place(col, v) = Len(col.dict)
    BY <1>5 DEF Place
  <2>2. after = Append(col.dict, e)
    BY <1>1, <1>5
  <2>3. /\ Append(col.dict, e) \in Seq(Entries)
        /\ Len(Append(col.dict, e)) = Len(col.dict) + 1
        /\ \A i \in 1 .. Len(col.dict) : Append(col.dict, e)[i] = col.dict[i]
        /\ Append(col.dict, e)[Len(col.dict) + 1] = e
    BY <1>2, <1>3, AppendProperties
  <2>4. /\ Place(col, v) \in Nat /\ Place(col, v) < Len(after) /\ after[Place(col, v) + 1] = e
        /\ after \in Seq(Entries) /\ Len(after) = Len(col.dict) + 1
        /\ \A i \in 1 .. Len(col.dict) : after[i] = col.dict[i]
    BY <1>4, <2>1, <2>2, <2>3
  <2> QED BY <1>5, <2>4 DEF e, after
<1>6. CASE v \in DOMAIN col.unique
  <2>1. Place(col, v) = col.unique[v]
    BY <1>6 DEF Place
  <2>2. after = col.dict
    BY <1>1, <1>6
  <2>3. col.unique[v] \in Nat
    BY <1>6, ColumnFields
  <2>4. col.unique[v] < Len(col.dict) /\ col.dict[col.unique[v] + 1] = Entry(v, col.type)
    BY <1>6 DEF MapAgrees
  <2> QED BY <1>2, <1>4, <1>6, <2>1, <2>2, <2>3, <2>4 DEF after
<1> QED BY <1>5, <1>6

\* What PlacesAgree says of the map and of the index.
LEMMA PlacesAreAgreed ==
  ASSUME NEW col \in Columns, PlacesAgree(col)
  PROVE  MapAgrees(col) /\ IndexAgrees(col)
BY DEF PlacesAgree, MapAgrees, IndexAgrees

\* After an append the column is one still: the places of the index and of the
\* map are within the dictionary and stand for their items, and a Nullable
\* dictionary keeps its one null item at place 0 (AppendUnsafe,
\* lowcardinality.cpp:478-505).
THEOREM AppendKeepsPlaces ==
  ASSUME NEW col \in Columns, PlacesAgree(col), NEW v \in Items,
         ~IsTooLong(v, col.type), v = NullItem => col.type.nullable
  PROVE  PlacesAgree(AppendUnsafe(col, v))
<1> DEFINE after == AppendUnsafe(col, v)
<1> DEFINE n == Place(col, v)
<1>1. /\ after.type = col.type /\ after.index = Append(col.index, n)
      /\ after.unique = Emplace(col.unique, v, n)
      /\ after.dict = IF v \notin DOMAIN col.unique
                      THEN Append(col.dict, Entry(v, col.type)) ELSE col.dict
  BY ColumnFields, AppendUnsafeFields
<1>2. /\ n \in Nat /\ n < Len(after.dict) /\ after.dict[n + 1] = Entry(v, col.type)
      /\ after.dict \in Seq(Entries)
      /\ Len(after.dict) = IF v \notin DOMAIN col.unique THEN Len(col.dict) + 1 ELSE Len(col.dict)
      /\ \A i \in 1 .. Len(col.dict) : after.dict[i] = col.dict[i]
  BY PlaceHoldsItem, PlacesAreAgreed
<1>3. Len(col.dict) \in Nat /\ DOMAIN col.dict = 1 .. Len(col.dict)
      /\ DOMAIN after.dict = 1 .. Len(after.dict)
  <2>1. col.dict \in Seq(Entries)
    BY ColumnFields DEF Entries
  <2> QED BY <1>2, <2>1, LenProperties
<1>4. /\ DOMAIN after.unique = DOMAIN col.unique \cup {v}
      /\ \A key \in DOMAIN col.unique : after.unique[key] = col.unique[key]
      /\ after.unique[v] = n
  <2>1. v \in DOMAIN col.unique => n = col.unique[v]
    BY DEF Place
  <2> HIDE DEF n, after
  <2>2. /\ DOMAIN after.unique = DOMAIN col.unique \cup {v}
        /\ \A key \in DOMAIN col.unique : after.unique[key] = col.unique[key]
        /\ v \notin DOMAIN col.unique => after.unique[v] = n
    <3> DEFINE u == Emplace(col.unique, v, n)
    <3>1. /\ DOMAIN u = DOMAIN col.unique \cup {v}
          /\ \A key \in DOMAIN col.unique : u[key] = col.unique[key]
          /\ v \notin DOMAIN col.unique => u[v] = n
      BY EmplaceIs
    <3>2. after.unique = u
      BY <1>1
    <3> HIDE DEF u
    <3> QED BY <3>1, <3>2
  <2> QED BY <2>1, <2>2
<1>5. \A key \in DOMAIN col.unique : col.unique[key] \in Nat
  BY ColumnFields
<1> HIDE DEF after, n
<1>6. \A row \in DOMAIN after.index : after.index[row] < Len(after.dict)
  <2>1. /\ col.index \in Seq(Nat) /\ Append(col.index, n) \in Seq(Nat)
        /\ Len(Append(col.index, n)) = Len(col.index) + 1
        /\ \A i \in 1 .. Len(col.index) : Append(col.index, n)[i] = col.index[i]
        /\ Append(col.index, n)[Len(col.index) + 1] = n
    BY <1>2, ColumnFields, AppendProperties
  <2>2. /\ Len(col.index) \in Nat /\ DOMAIN col.index = 1 .. Len(col.index)
        /\ DOMAIN after.index = 1 .. Len(col.index) + 1
    BY <1>1, <2>1, LenProperties
  <2>3. TAKE row \in DOMAIN after.index
  <2>4. CASE row \in 1 .. Len(col.index)
    <3>1. col.index[row] \in Nat /\ col.index[row] < Len(col.dict)
      BY <2>1, <2>2, <2>4 DEF PlacesAgree
    <3>2. after.index[row] = col.index[row]
      BY <1>1, <2>1, <2>4
    <3>3. Len(after.dict) \in Nat /\ Len(after.dict) >= Len(col.dict)
      BY <1>2, <1>3, LenProperties
    <3> QED BY <1>3, <3>1, <3>2, <3>3
  <2>5. CASE row = Len(col.index) + 1
    BY <1>1, <1>2, <2>1, <2>5
  <2> QED BY <2>2, <2>3, <2>4, <2>5
<1>7. ASSUME NEW key \in DOMAIN after.unique
      PROVE  /\ after.unique[key] < Len(after.dict)
             /\ after.dict[after.unique[key] + 1] = Entry(key, after.type)
             /\ key = NullItem \/ ~IsTooLong(key, after.type)
  <2>1. CASE key = v
    BY <1>1, <1>2, <1>4, <2>1
  <2>2. CASE key \in DOMAIN col.unique
    <3>1. /\ col.unique[key] < Len(col.dict)
          /\ col.dict[col.unique[key] + 1] = Entry(key, col.type)
          /\ key = NullItem \/ ~IsTooLong(key, col.type)
      BY <2>2 DEF PlacesAgree
    <3>2. col.unique[key] \in Nat /\ after.unique[key] = col.unique[key]
      BY <1>4, <1>5, <2>2
    <3> QED BY <1>1, <1>2, <1>3, <3>1, <3>2
  <2> QED BY <1>4, <1>7, <2>1, <2>2
<1>8. \A i \in DOMAIN after.dict : after.dict[i].null <=> after.type.nullable /\ i = 1
  <2>1. \A i \in DOMAIN col.dict : col.dict[i].null <=> col.type.nullable /\ i = 1
    BY DEF PlacesAgree
  <2>2. CASE v \in DOMAIN col.unique
    BY <1>1, <2>1, <2>2
  <2>3. CASE v \notin DOMAIN col.unique
    <3>1. n = Len(col.dict) /\ Len(after.dict) = Len(col.dict) + 1
      BY <1>2, <2>3 DEF n, Place
    <3>2. Entry(v, col.type).null <=> v = NullItem
      BY ColumnFields, EntryType
    <3>3. v # NullItem
      <4>1. col.type.nullable => NullItem \in DOMAIN col.unique
        BY DEF PlacesAgree
      <4> QED BY <2>3, <4>1
    <3>4. col.type.nullable => Len(col.dict) > 0
      <4>1. col.type.nullable => NullItem \in DOMAIN col.unique /\ col.unique[NullItem] < Len(col.dict)
        BY DEF PlacesAgree
      <4> QED BY <1>3, <1>5, <4>1
    <3>5. TAKE i \in DOMAIN after.dict
    <3>6. CASE i \in 1 .. Len(col.dict)
      BY <1>1, <1>2, <1>3, <2>1, <3>6
    <3>7. CASE i = Len(col.dict) + 1
      BY <1>1, <1>2, <1>3, <3>1, <3>2, <3>3, <3>4, <3>7
    <3> QED BY <1>3, <3>1, <3>5, <3>6, <3>7
  <2> QED BY <2>2, <2>3
<1>9. after.type.nullable => NullItem \in DOMAIN after.unique
  BY <1>1, <1>4 DEF PlacesAgree
<1> QED BY <1>6, <1>7, <1>8, <1>9 DEF PlacesAgree, after

\* What an item reads as once it is in a column.
Padded(v, elem) == IF v = NullItem THEN NullItem ELSE Stored(v, elem)

\* What is stored of an item is one.
LEMMA PaddedIsItem ==
  ASSUME NEW elem \in ElementTypes, NEW v \in Items
  PROVE  Padded(v, elem) \in Items
BY StoredIsText DEF Padded, Items

\* An append adds one row that reads as the item and changes no other row, when
\* the place of the item does not read as NULL instead.
LEMMA AppendReads ==
  ASSUME NEW col \in Columns, MapAgrees(col), IndexAgrees(col), NEW v \in Items,
         col.type.nullable /\ Place(col, v) = 0 => v = NullItem
  PROVE  /\ Content(col) \in Seq(Items) /\ Content(AppendUnsafe(col, v)) \in Seq(Items)
         /\ Len(Content(col)) = Len(col.index) /\ IndexAgrees(AppendUnsafe(col, v))
         /\ Content(AppendUnsafe(col, v)) = Append(Content(col), Padded(v, col.type))
<1> DEFINE after == AppendUnsafe(col, v)
<1> DEFINE n == Place(col, v)
<1> DEFINE x == Padded(v, col.type)
<1>1. after.type = col.type /\ after.index = Append(col.index, n)
  BY ColumnFields, AppendUnsafeFields
<1>2. /\ n \in Nat /\ n < Len(after.dict) /\ after.dict[n + 1] = Entry(v, col.type)
      /\ \A i \in 1 .. Len(col.dict) : after.dict[i] = col.dict[i]
  BY PlaceHoldsItem
<1>3. /\ col.index \in Seq(Nat) /\ Append(col.index, n) \in Seq(Nat)
      /\ Len(Append(col.index, n)) = Len(col.index) + 1
      /\ \A i \in 1 .. Len(col.index) : Append(col.index, n)[i] = col.index[i]
      /\ Append(col.index, n)[Len(col.index) + 1] = n
  <2> HIDE DEF n
  <2> QED BY <1>2, ColumnFields, AppendProperties
<1>4. /\ Len(col.index) \in Nat /\ DOMAIN col.index = 1 .. Len(col.index)
      /\ DOMAIN after.index = 1 .. Len(col.index) + 1
  <2> HIDE DEF n, after
  <2> QED BY <1>1, <1>3, LenProperties
<1>5. Len(col.dict) \in Nat /\ DOMAIN col.dict = 1 .. Len(col.dict) /\ col.dict \in Seq(Entries)
  <2>1. col.dict \in Seq(Entries)
    BY ColumnFields DEF Entries
  <2> QED BY <2>1, LenProperties
<1>6. x \in Items
  BY ColumnFields, PaddedIsItem
<1> HIDE DEF after, n
<1>7. GetItem(after, Len(col.index) + 1) = x
  <2>1. after.index[Len(col.index) + 1] = n
    BY <1>1, <1>3
  <2>2. /\ Entry(v, col.type).null <=> v = NullItem
        /\ v # NullItem => Entry(v, col.type).text = Stored(v, col.type)
    BY ColumnFields, EntryType
  <2> QED BY <1>1, <1>2, <2>1, <2>2 DEF GetItem, DictionaryItem, Padded, n
<1>8. ASSUME NEW row \in 1 .. Len(col.index)
      PROVE  GetItem(after, row) = GetItem(col, row) /\ GetItem(col, row) \in Items
  <2>1. /\ col.index[row] \in Nat /\ col.index[row] < Len(col.dict)
        /\ after.index[row] = col.index[row]
    BY <1>1, <1>3, <1>4 DEF IndexAgrees
  <2>2. /\ col.index[row] + 1 \in 1 .. Len(col.dict)
        /\ after.dict[col.index[row] + 1] = col.dict[col.index[row] + 1]
    <3> DEFINE k == col.index[row]
    <3>1. k \in Nat /\ k < Len(col.dict) /\ Len(col.dict) \in Nat
      BY <1>5, <2>1
    <3> HIDE DEF k
    <3>2. k + 1 \in 1 .. Len(col.dict)
      BY <3>1
    <3>3. after.dict[k + 1] = col.dict[k + 1]
      BY <1>2, <3>2
    <3> QED BY <3>2, <3>3 DEF k
  <2>3. col.dict[col.index[row] + 1] \in Entries
    BY <1>5, <2>2
  <2>4. col.dict[col.index[row] + 1].text \in Items /\ NullItem \in Items
    BY <2>3 DEF Entries, Items
  <2> QED BY <1>1, <2>1, <2>2, <2>4 DEF GetItem, DictionaryItem
<1>9. Content(col) \in Seq(Items) /\ Len(Content(col)) = Len(col.index)
  <2>1. Content(col) \in [1 .. Len(col.index) -> Items]
    BY <1>4, <1>8 DEF Content
  <2> QED BY <1>4, <2>1
<1>10. Content(after) \in Seq(Items) /\ Len(Content(after)) = Len(col.index) + 1
  <2>1. \A row \in DOMAIN after.index : GetItem(after, row) \in Items
    BY <1>4, <1>6, <1>7, <1>8
  <2>2. Content(after) \in [1 .. Len(col.index) + 1 -> Items]
    BY <1>4, <2>1 DEF Content
  <2> QED BY <1>4, <2>2
<1> HIDE DEF x
<1>11. /\ Append(Content(col), x) \in Seq(Items)
       /\ Len(Append(Content(col), x)) = Len(col.index) + 1
       /\ \A i \in 1 .. Len(col.index) : Append(Content(col), x)[i] = Content(col)[i]
       /\ Append(Content(col), x)[Len(col.index) + 1] = x
  BY <1>6, <1>9, AppendProperties
<1>12. ASSUME NEW i \in 1 .. Len(col.index) + 1
       PROVE  Content(after)[i] = Append(Content(col), x)[i]
  <2>1. Content(after)[i] = GetItem(after, i)
    BY <1>4 DEF Content
  <2>2. CASE i \in 1 .. Len(col.index)
    BY <1>4, <1>8, <1>11, <2>1, <2>2 DEF Content
  <2>3. CASE i = Len(col.index) + 1
    BY <1>7, <1>11, <2>1, <2>3
  <2>4. i \in 1 .. Len(col.index) \/ i = Len(col.index) + 1
    BY <1>4
  <2> QED BY <2>2, <2>3, <2>4
<1>13. Content(after) = Append(Content(col), x)
  BY <1>10, <1>11, <1>12, SeqEqual
<1>14. IndexAgrees(after)
  <2> SUFFICES \A row \in DOMAIN after.index : after.index[row] < Len(after.dict)
    BY DEF IndexAgrees
  <2>1. Len(after.dict) \in Nat /\ Len(after.dict) >= Len(col.dict)
    <3>1. Len(after.dict) = Len(col.dict) + 1 \/ Len(after.dict) = Len(col.dict)
      BY PlaceHoldsItem DEF after
    <3> QED BY <1>5, <3>1
  <2>2. TAKE row \in DOMAIN after.index
  <2>3. CASE row \in 1 .. Len(col.index)
    <3>1. col.index[row] \in Nat /\ col.index[row] < Len(col.dict)
      BY <1>3, <1>4, <2>3 DEF IndexAgrees
    <3>2. after.index[row] = col.index[row]
      BY <1>1, <1>3, <2>3
    <3> QED BY <1>5, <2>1, <3>1, <3>2
  <2>4. CASE row = Len(col.index) + 1
    BY <1>1, <1>2, <1>3, <2>4
  <2> QED BY <1>4, <2>2, <2>3, <2>4
<1> QED BY <1>9, <1>10, <1>13, <1>14 DEF after, x

\* A place that does not read as NULL is no place of NULL in a column that agrees.
LEMMA TextHasItsPlace ==
  ASSUME NEW col \in Columns, PlacesAgree(col), NEW v \in Items,
         v = NullItem => col.type.nullable
  PROVE  col.type.nullable /\ Place(col, v) = 0 => v = NullItem
<1> SUFFICES ASSUME col.type.nullable, Place(col, v) = 0, v # NullItem PROVE FALSE
  OBVIOUS
<1>1. /\ NullItem \in DOMAIN col.unique /\ col.unique[NullItem] \in Nat
      /\ col.unique[NullItem] < Len(col.dict) /\ Len(col.dict) \in Nat
      /\ DOMAIN col.dict = 1 .. Len(col.dict)
  BY ColumnFields, LenProperties DEF PlacesAgree
<1>2. v \in DOMAIN col.unique /\ col.unique[v] = 0
  BY <1>1 DEF Place
<1>3. col.dict[1] = Entry(v, col.type) /\ col.dict[1].null
  BY <1>1, <1>2 DEF PlacesAgree
<1> QED BY <1>3, ColumnFields, EntryType

\* An append adds one row that reads as the item, padded to the width of a
\* FixedString, and changes no other row: NULL reads as NULL and an empty
\* string as one, whether the dictionary had them or not.
THEOREM AppendAddsItem ==
  ASSUME NEW col \in Columns, PlacesAgree(col), NEW v \in Items,
         ~IsTooLong(v, col.type), v = NullItem => col.type.nullable
  PROVE  Content(AppendUnsafe(col, v)) =
           Append(Content(col), IF v = NullItem THEN NullItem ELSE Stored(v, col.type))
<1>1. MapAgrees(col) /\ IndexAgrees(col) /\ (col.type.nullable /\ Place(col, v) = 0 => v = NullItem)
  BY PlacesAreAgreed, TextHasItsPlace
<1>2. Content(AppendUnsafe(col, v)) = Append(Content(col), Padded(v, col.type))
  BY <1>1, AppendReads
<1> QED BY <1>2 DEF Padded

\* Changing the index and the map changes these fields.
LEMMA RecordIndexUnique ==
  ASSUME NEW col, NEW u, NEW x, NEW after, IsColumn(col),
         after = [col EXCEPT !.unique = u, !.index = x]
  PROVE  after = [type |-> col.type, dict |-> col.dict, index |-> x, unique |-> u]
BY DEF IsColumn

\* An append that the dictionary refuses leaves the column as it was: the row
\* and the key that AppendUnsafe adds before it knows are taken back
\* (lowcardinality.cpp:491-503).
THEOREM AppendThrowsKeepsColumn ==
  ASSUME NEW col \in Columns, PlacesAgree(col), NEW v \in Texts, IsTooLong(v, col.type)
  PROVE  AppendUnsafeThrows(col, v) = col
<1> DEFINE n == Len(col.dict)
<1>1. v \notin DOMAIN col.unique
  BY DEF PlacesAgree, IsTooLong
<1>2. n \in Nat
  BY ColumnFields, LenProperties
<1>3. IsColumn(col) /\ col.index \in Seq(Nat)
  BY ColumnFields
<1>4. Forget(Emplace(col.unique, v, n), v) = col.unique
  <2>1. PICK S : col.unique \in [S -> Nat]
    BY ColumnFields
  <2> HIDE DEF n
  <2>2. col.unique = [key \in DOMAIN col.unique |-> col.unique[key]]
    BY <2>1
  <2>3. (DOMAIN col.unique \cup {v}) \ {v} = DOMAIN col.unique
    BY <1>1
  <2> QED BY <2>2, <2>3, Zenon DEF Forget, Emplace
<1> DEFINE x == Append(col.index, n)
<1>5. SubSeq(x, 1, Len(x) - 1) = col.index
  <2> HIDE DEF n
  <2>1. /\ x \in Seq(Nat) /\ Len(x) = Len(col.index) + 1
        /\ \A i \in 1 .. Len(col.index) : x[i] = col.index[i]
    BY <1>2, <1>3, AppendProperties
  <2>2. Len(col.index) \in Nat
    BY <1>3, LenProperties
  <2> HIDE DEF x
  <2>3. /\ SubSeq(x, 1, Len(col.index)) \in Seq(Nat)
        /\ Len(SubSeq(x, 1, Len(col.index))) = Len(col.index)
        /\ \A i \in 1 .. Len(col.index) : SubSeq(x, 1, Len(col.index))[i] = col.index[i]
    <3>1. \A i \in 1 .. Len(col.index) : x[i] \in Nat
      <4>1. \A i \in 1 .. Len(col.index) : col.index[i] \in Nat
        BY <1>3, LenProperties
      <4> QED BY <2>1, <4>1
    <3> QED BY <2>1, <2>2, <3>1, SubSeqProperties
  <2> QED BY <1>3, <2>1, <2>2, <2>3, SeqEqual
<1> DEFINE u == Emplace(col.unique, v, n)
<1>6. AppendUnsafeThrows(col, v) =
        [[col EXCEPT !.unique = u, !.index = x] EXCEPT !.index = SubSeq(@, 1, Len(@) - 1),
                                                       !.unique = Forget(@, v)]
  BY DEF AppendUnsafeThrows
<1> DEFINE begun == [type |-> col.type, dict |-> col.dict, index |-> x, unique |-> u]
<1>7. [col EXCEPT !.unique = u, !.index = x] = begun
  <2> HIDE DEF u, x
  <2> QED BY <1>3, RecordIndexUnique
<1>8. AppendUnsafeThrows(col, v) =
        [begun EXCEPT !.index = SubSeq(x, 1, Len(x) - 1), !.unique = Forget(u, v)]
  <2> HIDE DEF u, x
  <2> QED BY <1>6, <1>7
<1>9. AppendUnsafeThrows(col, v) = [begun EXCEPT !.index = col.index, !.unique = col.unique]
  BY <1>4, <1>5, <1>8
<1> QED
  <2> HIDE DEF u, x
  <2> QED BY <1>3, <1>9 DEF IsColumn

\* A column that was sent and is loaded again has the rows it had: the null
\* flags, which are not sent, are where a reader puts them.
THEOREM LoadedIsSaved ==
  ASSUME NEW col \in Columns, PlacesAgree(col)
  PROVE  Content(LoadBody(SaveBody(col), col.type)) = Content(col)
<1> DEFINE loaded == LoadBody(SaveBody(col), col.type)
<1> DEFINE d == [i \in DOMAIN col.dict |->
                  [text |-> col.dict[i].text, null |-> col.type.nullable /\ i = 1]]
<1>1. loaded.type = col.type /\ loaded.index = col.index /\ loaded.dict = d
  BY DEF LoadBody, SaveBody
<1>2. /\ col.dict \in Seq(Entries) /\ DOMAIN col.dict = 1 .. Len(col.dict) /\ Len(col.dict) \in Nat
      /\ col.index \in Seq(Nat) /\ DOMAIN col.index = 1 .. Len(col.index)
  <2>1. col.dict \in Seq(Entries) /\ col.index \in Seq(Nat)
    BY ColumnFields DEF Entries
  <2> QED BY <2>1, LenProperties
<1> HIDE DEF loaded
<1>3. ASSUME NEW row \in DOMAIN col.index
      PROVE  GetItem(loaded, row) = GetItem(col, row)
  <2> DEFINE i == col.index[row] + 1
  <2>1. col.index[row] \in Nat /\ col.index[row] < Len(col.dict)
    BY <1>2 DEF PlacesAgree
  <2>2. i \in DOMAIN col.dict
    BY <1>2, <2>1
  <2>3. col.dict[i].null <=> col.type.nullable /\ i = 1
    BY <2>2 DEF PlacesAgree
  <2>4. d[i].text = col.dict[i].text /\ (d[i].null <=> col.dict[i].null)
    BY <2>2, <2>3
  <2> HIDE DEF d
  <2> QED BY <1>1, <2>4 DEF GetItem, DictionaryItem
<1>4. Content(loaded) = Content(col)
  BY <1>1, <1>3 DEF Content
<1> QED BY <1>4 DEF loaded

------------------------------------------------------------------------------
(* Appending many items. *)

\* The function that FoldLeft takes from the empty set of places to all of them.
IsFold(h, col, s, n) ==
  \A r \in SUBSET (1 .. n) :
    h[r] = IF r = {} THEN col ELSE AppendUnsafe(h[r \ {Max(r)}], s[Max(r)])

\* Appending items is the value of such a function at all the places.
LEMMA FoldIs ==
  ASSUME NEW col, NEW s, NEW n \in Nat, DOMAIN s = 1 .. n
  PROVE  \E h : IsFold(h, col, s, n) /\ AppendItems(col, s) = h[1 .. n]
<1> DEFINE Good(m, h) == h = [r \in SUBSET (1 .. m) |->
             IF r = {} THEN col ELSE AppendUnsafe(h[r \ {Max(r)}], s[Max(r)])]
<1> DEFINE S == {m \in Nat : \E h : Good(m, h)}
<1>1. 0 \in S
  <2> DEFINE h == [r \in SUBSET (1 .. 0) |-> col]
  <2>1. 1 .. 0 = {}
    OBVIOUS
  <2>2. Good(0, h)
    BY <2>1
  <2> QED BY <2>2
<1>2. ASSUME NEW m \in Nat, m \in S PROVE m + 1 \in S
  <2>1. PICK h : Good(m, h)
    BY <1>2
  <2> DEFINE g == [r \in SUBSET (1 .. m + 1) |->
        IF m + 1 \in r THEN AppendUnsafe(h[r \ {m + 1}], s[m + 1]) ELSE h[r]]
  <2>2. ASSUME NEW r \in SUBSET (1 .. m + 1)
        PROVE  g[r] = IF r = {} THEN col ELSE AppendUnsafe(g[r \ {Max(r)}], s[Max(r)])
    <3>1. CASE m + 1 \in r
      <4>1. Max(r) = m + 1
        BY <3>1, MaxIs
      <4>2. r \ {m + 1} \in SUBSET (1 .. m + 1) /\ m + 1 \notin r \ {m + 1} /\ r # {}
        BY <3>1
      <4>3. g[r \ {m + 1}] = h[r \ {m + 1}]
        BY <4>2
      <4> HIDE DEF Good
      <4>4. g[r] = AppendUnsafe(h[r \ {m + 1}], s[m + 1])
        BY <3>1
      <4> HIDE DEF g
      <4> QED BY <4>1, <4>2, <4>3, <4>4
    <3>2. CASE m + 1 \notin r
      <4>1. r \in SUBSET (1 .. m) /\ g[r] = h[r]
        BY <3>2
      <4>2. h[r] = IF r = {} THEN col ELSE AppendUnsafe(h[r \ {Max(r)}], s[Max(r)])
        BY <2>1, <4>1
      <4>3. r # {} => /\ r \ {Max(r)} \in SUBSET (1 .. m + 1)
                      /\ m + 1 \notin r \ {Max(r)}
        BY <3>2
      <4>4. r # {} => g[r \ {Max(r)}] = h[r \ {Max(r)}]
        BY <4>3
      <4> HIDE DEF g, Good
      <4> QED BY <4>1, <4>2, <4>4
    <3> QED BY <3>1, <3>2
  <2> HIDE DEF g
  <2>3. \A r \in SUBSET (1 .. m + 1) :
          g[r] = IF r = {} THEN col ELSE AppendUnsafe(g[r \ {Max(r)}], s[Max(r)])
    BY <2>2
  <2>4. Good(m + 1, g)
    BY <2>3 DEF g
  <2> HIDE DEF Good
  <2> QED BY <2>4
<1>3. n \in S
  <2> HIDE DEF S
  <2> QED BY <1>1, <1>2, NatSetInduction
<1> DEFINE F == CHOOSE h : Good(n, h)
<1>4. Good(n, F)
  BY <1>3
<1>5. AppendItems(col, s) = F[1 .. n]
  BY DEF AppendItems, FoldLeft, MapThenFoldSet
<1> HIDE DEF F
<1>6. IsFold(F, col, s, n)
  BY <1>4 DEF IsFold
<1> QED BY <1>5, <1>6

\* The numbers up to one more, without that one.
LEMMA UpToWithoutLast ==
  ASSUME NEW n \in Nat
  PROVE  (1 .. n + 1) \ {n + 1} = 1 .. n /\ 1 .. n + 1 # {}
OBVIOUS

\* Appending no item changes nothing, and appending one more is an append to what
\* the others made.
LEMMA FoldOfAppend ==
  ASSUME NEW col, NEW A, NEW s \in Seq(A), NEW x \in A
  PROVE  /\ AppendItems(col, << >>) = col
         /\ AppendItems(col, Append(s, x)) = AppendUnsafe(AppendItems(col, s), x)
<1> DEFINE n == Len(s)
<1> DEFINE t == Append(s, x)
<1>1. /\ n \in Nat /\ DOMAIN s = 1 .. n /\ DOMAIN t = 1 .. n + 1
      /\ \A i \in 1 .. n : t[i] = s[i]
      /\ t[n + 1] = x
  BY AppendProperties, LenProperties
<1> HIDE DEF t, n
<1>2. AppendItems(col, << >>) = col
  <2>1. DOMAIN << >> = 1 .. 0 /\ 1 .. 0 = {}
    BY EmptySeq, LenProperties
  <2>2. PICK h : IsFold(h, col, << >>, 0) /\ AppendItems(col, << >>) = h[1 .. 0]
    BY <2>1, FoldIs
  <2>3. h[{}] = col
    BY <2>1, <2>2 DEF IsFold
  <2> QED BY <2>1, <2>2, <2>3
<1>3. PICK h : IsFold(h, col, s, n) /\ AppendItems(col, s) = h[1 .. n]
  <2>1. n \in Nat /\ DOMAIN s = 1 .. n
    BY <1>1
  <2> QED BY <2>1, FoldIs
<1>4. PICK g : IsFold(g, col, t, n + 1) /\ AppendItems(col, t) = g[1 .. n + 1]
  <2>1. n + 1 \in Nat
    BY <1>1
  <2> QED BY <1>1, <2>1, FoldIs
<1> DEFINE S == {m \in Nat : m <= n => \A r \in SUBSET (1 .. m) : g[r] = h[r]}
<1>5. 0 \in S
  <2>1. 1 .. 0 = {} /\ {} \in SUBSET (1 .. n) /\ {} \in SUBSET (1 .. n + 1)
    OBVIOUS
  <2>2. g[{}] = col /\ h[{}] = col
    BY <1>3, <1>4, <2>1 DEF IsFold
  <2> QED BY <2>1, <2>2
<1>6. ASSUME NEW m \in Nat, m \in S PROVE m + 1 \in S
  <2> SUFFICES ASSUME m + 1 <= n, NEW r \in SUBSET (1 .. m + 1) PROVE g[r] = h[r]
    OBVIOUS
  <2>0. \A q \in SUBSET (1 .. m) : g[q] = h[q]
    BY <1>1, <1>6
  <2>1. CASE m + 1 \in r
    <3>1. Max(r) = m + 1 /\ r # {}
      BY <2>1, MaxIs
    <3>2. r \in SUBSET (1 .. n) /\ r \in SUBSET (1 .. n + 1) /\ r \ {m + 1} \in SUBSET (1 .. m)
      BY <1>1
    <3>3. t[m + 1] = s[m + 1]
      BY <1>1
    <3>4. g[r] = AppendUnsafe(g[r \ {m + 1}], t[m + 1])
      BY <1>4, <3>1, <3>2 DEF IsFold
    <3>5. h[r] = AppendUnsafe(h[r \ {m + 1}], s[m + 1])
      BY <1>3, <3>1, <3>2 DEF IsFold
    <3> QED BY <2>0, <3>2, <3>3, <3>4, <3>5
  <2>2. CASE m + 1 \notin r
    <3>1. r \in SUBSET (1 .. m)
      BY <2>2
    <3> QED BY <2>0, <3>1
  <2> QED BY <2>1, <2>2
<1>7. n \in S
  <2> HIDE DEF S
  <2> QED BY <1>1, <1>5, <1>6, NatSetInduction
<1>8. g[1 .. n] = h[1 .. n]
  BY <1>1, <1>7
<1>9. g[1 .. n + 1] = AppendUnsafe(g[1 .. n], x)
  <2>1. Max(1 .. n + 1) = n + 1
    BY <1>1, MaxIs
  <2>2. (1 .. n + 1) \ {n + 1} = 1 .. n /\ 1 .. n + 1 # {}
    BY <1>1, UpToWithoutLast
  <2>3. g[1 .. n + 1] = AppendUnsafe(g[(1 .. n + 1) \ {Max(1 .. n + 1)}], t[Max(1 .. n + 1)])
    BY <1>4, <2>2 DEF IsFold
  <2> QED BY <1>1, <2>1, <2>2, <2>3
<1>10. AppendItems(col, t) = AppendUnsafe(AppendItems(col, s), x)
  BY <1>3, <1>4, <1>8, <1>9
<1> QED BY <1>2, <1>10 DEF t

\* An append makes a column of a column.
LEMMA AppendIsColumn ==
  ASSUME NEW col \in Columns, MapAgrees(col), NEW v \in Items
  PROVE  AppendUnsafe(col, v) \in Columns /\ AppendUnsafe(col, v).type = col.type
<1> DEFINE after == AppendUnsafe(col, v)
<1> DEFINE n == Place(col, v)
<1>1. /\ IsColumn(after) /\ after.type = col.type /\ after.index = Append(col.index, n)
      /\ after.unique = Emplace(col.unique, v, n)
  BY ColumnFields, AppendUnsafeFields
<1>2. n \in Nat /\ after.dict \in Seq([text : Texts, null : BOOLEAN])
  BY PlaceHoldsItem DEF Entries
<1>3. col.type \in ElementTypes /\ col.index \in Seq(Nat)
  BY ColumnFields
<1>4. PICK S \in SUBSET Items : col.unique \in [S -> Nat]
  BY ColumnFields
<1> HIDE DEF after, n
<1>5. after.index \in Seq(Nat)
  BY <1>1, <1>2, <1>3, AppendProperties
<1>6. after.unique \in [S \cup {v} -> Nat]
  BY <1>1, <1>2, <1>4 DEF Emplace
<1>7. S \cup {v} \in SUBSET Items
  BY <1>4
<1>8. after.unique \in UNION {[R -> Nat] : R \in SUBSET Items}
  BY <1>6, <1>7
<1>9. after \in Columns
  BY <1>1, <1>2, <1>3, <1>5, <1>8 DEF IsColumn, Columns
<1> QED BY <1>1, <1>9 DEF after

\* What a row of a column of the type may hold.
ItemsFor(elem) == {v \in Items : (v = NullItem => elem.nullable) /\ ~IsTooLong(v, elem)}

\* The items as a column of the type stores them.
PaddedAll(items, elem) == [i \in DOMAIN items |-> Padded(items[i], elem)]

\* What is padded is as long, item by item.
LEMMA PaddedAllIs ==
  ASSUME NEW elem \in ElementTypes, NEW items \in Seq(Items)
  PROVE  /\ PaddedAll(items, elem) \in Seq(Items)
         /\ Len(PaddedAll(items, elem)) = Len(items)
         /\ \A i \in 1 .. Len(items) : PaddedAll(items, elem)[i] = Padded(items[i], elem)
<1>1. /\ Len(items) \in Nat /\ DOMAIN items = 1 .. Len(items)
      /\ \A i \in 1 .. Len(items) : items[i] \in Items
  BY LenProperties
<1>2. \A i \in 1 .. Len(items) : Padded(items[i], elem) \in Items
  BY <1>1, PaddedIsItem
<1>3. PaddedAll(items, elem) \in [1 .. Len(items) -> Items]
  BY <1>1, <1>2 DEF PaddedAll
<1> QED BY <1>1, <1>3 DEF PaddedAll

\* One more item is padded behind the others.
LEMMA PaddedAllAppend ==
  ASSUME NEW elem \in ElementTypes, NEW items \in Seq(Items), NEW v \in Items
  PROVE  PaddedAll(Append(items, v), elem) = Append(PaddedAll(items, elem), Padded(v, elem))
<1> DEFINE t == Append(items, v)
<1> DEFINE p == PaddedAll(items, elem)
<1>1. /\ t \in Seq(Items) /\ Len(t) = Len(items) + 1 /\ t[Len(items) + 1] = v
      /\ \A i \in 1 .. Len(items) : t[i] = items[i]
  BY AppendProperties
<1>2. /\ p \in Seq(Items) /\ Len(p) = Len(items)
      /\ \A i \in 1 .. Len(items) : p[i] = Padded(items[i], elem)
  BY PaddedAllIs
<1> HIDE DEF t, p
<1>3. /\ PaddedAll(t, elem) \in Seq(Items) /\ Len(PaddedAll(t, elem)) = Len(items) + 1
      /\ \A i \in 1 .. Len(items) + 1 : PaddedAll(t, elem)[i] = Padded(t[i], elem)
  BY <1>1, PaddedAllIs
<1>4. /\ Append(p, Padded(v, elem)) \in Seq(Items)
      /\ Len(Append(p, Padded(v, elem))) = Len(items) + 1
      /\ \A i \in 1 .. Len(items) : Append(p, Padded(v, elem))[i] = p[i]
      /\ Append(p, Padded(v, elem))[Len(items) + 1] = Padded(v, elem)
  BY <1>2, PaddedIsItem, AppendProperties
<1>5. \A i \in 1 .. Len(items) + 1 : PaddedAll(t, elem)[i] = Append(p, Padded(v, elem))[i]
  <2>1. Len(items) \in Nat
    BY LenProperties
  <2>2. \A i \in 1 .. Len(items) + 1 : i \in 1 .. Len(items) \/ i = Len(items) + 1
    BY <2>1
  <2> QED BY <1>1, <1>2, <1>3, <1>4, <2>2
<1>6. PaddedAll(t, elem) = Append(p, Padded(v, elem))
  BY <1>3, <1>4, <1>5, SeqEqual
<1> QED BY <1>6 DEF t, p

\* Appending items one after the other, as an INSERT does (typesToPhp.cpp) and as
\* Append(Column) does (lowcardinality.cpp:255), keeps the index, the dictionary and
\* the map in agreement, and the rows are those that were there with the items, padded
\* to the width, behind them.
THEOREM AppendsAddItems ==
  ASSUME NEW col \in Columns, PlacesAgree(col), NEW items \in Seq(ItemsFor(col.type))
  PROVE  /\ AppendItems(col, items) \in Columns /\ PlacesAgree(AppendItems(col, items))
         /\ AppendItems(col, items).type = col.type
         /\ Content(col) \in Seq(Items)
         /\ Content(AppendItems(col, items)) = Content(col) \o PaddedAll(items, col.type)
<1> DEFINE A == ItemsFor(col.type)
<1> DEFINE Good(r) ==
      LET after == AppendItems(col, r)
      IN  /\ after \in Columns /\ PlacesAgree(after) /\ after.type = col.type
          /\ Content(after) = Content(col) \o PaddedAll(r, col.type)
<1> DEFINE S == {r \in Seq(A) : Good(r)}
<1>1. col.type \in ElementTypes /\ A \subseteq Items
  BY ColumnFields DEF ItemsFor
<1>2. Content(col) \in Seq(Items)
  <2>1. << >> \in Items /\ << >> # NullItem
    BY EmptyIsText, NullIsNoText DEF Items
  <2> QED BY <2>1, AppendReads, PlacesAreAgreed, TextHasItsPlace
<1> HIDE DEF A
<1>3. << >> \in S
  <2>1. AppendItems(col, << >>) = col
    BY EmptySeq, FoldOfAppend, <1>1
  <2>2. PaddedAll(<< >>, col.type) = << >>
    BY DEF PaddedAll
  <2>3. Content(col) \o << >> = Content(col)
    BY <1>2, ConcatEmptySeq
  <2> QED BY <2>1, <2>2, <2>3, EmptySeq
<1>4. ASSUME NEW r \in Seq(A), NEW v \in A, r \in S PROVE Append(r, v) \in S
  <2> DEFINE before == AppendItems(col, r)
  <2> DEFINE after == AppendUnsafe(before, v)
  <2> DEFINE p == PaddedAll(r, col.type)
  <2>1. AppendItems(col, Append(r, v)) = after
    BY FoldOfAppend
  <2>2. /\ before \in Columns /\ PlacesAgree(before) /\ before.type = col.type
        /\ Content(before) = Content(col) \o p
    BY <1>4
  <2>3. /\ v \in Items /\ r \in Seq(Items) /\ (v = NullItem => col.type.nullable)
        /\ ~IsTooLong(v, col.type)
    BY <1>1, SeqMonotonic DEF A, ItemsFor
  <2> HIDE DEF before
  <2>4. after \in Columns /\ after.type = col.type
    BY <2>2, <2>3, AppendIsColumn, PlacesAreAgreed
  <2>5. PlacesAgree(after)
    BY <2>2, <2>3, AppendKeepsPlaces
  <2>6. Content(after) = Append(Content(before), Padded(v, col.type))
    BY <2>2, <2>3, AppendAddsItem DEF Padded
  <2>7. Append(Content(before), Padded(v, col.type)) = Content(col) \o PaddedAll(Append(r, v), col.type)
    <3>1. PaddedAll(Append(r, v), col.type) = Append(p, Padded(v, col.type))
      BY <1>1, <2>3, PaddedAllAppend
    <3>2. p \in Seq(Items) /\ Padded(v, col.type) \in Items
      BY <1>1, <2>3, PaddedAllIs, PaddedIsItem
    <3> DEFINE x == Padded(v, col.type)
    <3> DEFINE c == Content(col)
    <3> HIDE DEF p, x, c
    <3>3. Append(c \o p, x) = c \o Append(p, x)
      <4>1. c \in Seq(Items) /\ p \in Seq(Items) /\ x \in Items
        BY <1>2, <3>2 DEF x, c
      <4>2. Append(p, x) = p \o <<x>> /\ Append(c \o p, x) = (c \o p) \o <<x>>
        BY <4>1, AppendIsConcat, ConcatProperties
      <4>3. <<x>> \in Seq(Items)
        BY <4>1
      <4>4. (c \o p) \o <<x>> = c \o (p \o <<x>>)
        BY <4>1, <4>3, ConcatAssociative
      <4> QED BY <4>2, <4>4
    <3> QED BY <2>2, <3>1, <3>3 DEF x, c
  <2> HIDE DEF after
  <2>8. Append(r, v) \in Seq(A)
    BY AppendProperties
  <2> QED BY <2>1, <2>4, <2>5, <2>6, <2>7, <2>8
<1> HIDE DEF S
<1>5. items \in S
  BY <1>3, <1>4, SeqSetInduction DEF A
<1> QED BY <1>2, <1>5 DEF S

------------------------------------------------------------------------------
(* Padding. *)

\* A stored text is the text with zeros behind it, up to the width.
LEMMA StoredIs ==
  ASSUME NEW e \in ElementTypes, NEW v \in Texts, ~IsTooLong(v, e)
  PROVE  /\ Stored(v, e) \in Texts /\ Len(v) \in Nat
         /\ Len(Stored(v, e)) = IF e.width = 0 THEN Len(v) ELSE e.width
         /\ Len(Stored(v, e)) >= Len(v)
         /\ \A i \in 1 .. Len(Stored(v, e)) : Stored(v, e)[i] = IF i <= Len(v) THEN v[i] ELSE Zero
<1>1. /\ Len(v) \in Nat /\ e.width \in Nat /\ v # NullItem
      /\ Stored(v, e) \in Texts
  BY StoredIsText, NullIsNoText, LenProperties DEF Texts, ElementTypes
<1>2. e.width > 0 => Len(v) <= e.width
  BY <1>1 DEF IsTooLong
<1>3. CASE Len(v) >= e.width
  <2>1. Stored(v, e) = v
    BY <1>3 DEF Stored
  <2> QED BY <1>1, <1>2, <1>3, <2>1
<1>4. CASE ~(Len(v) >= e.width)
  <2>1. Stored(v, e) = [i \in 1 .. e.width |-> IF i <= Len(v) THEN v[i] ELSE Zero]
    BY <1>4 DEF Stored
  <2>2. Len(Stored(v, e)) = e.width
    BY <1>1, <2>1
  <2>3. \A i \in 1 .. e.width : Stored(v, e)[i] = IF i <= Len(v) THEN v[i] ELSE Zero
    BY <2>1
  <2> QED BY <1>1, <1>4, <2>2, <2>3
<1> QED BY <1>3, <1>4

\* What is padded fits the width and stays as it is.
LEMMA PaddedIsStored ==
  ASSUME NEW e \in ElementTypes, NEW v \in Items, ~IsTooLong(v, e)
  PROVE  /\ Padded(v, e) \in Items /\ ~IsTooLong(Padded(v, e), e)
         /\ Padded(Padded(v, e), e) = Padded(v, e)
         /\ Padded(v, e) = NullItem <=> v = NullItem
         /\ Padded(v, e) = << >> => v = << >>
<1>1. CASE v = NullItem
  BY <1>1, EmptyIsText, NullIsNoText DEF Padded, IsTooLong, Items
<1>2. CASE v # NullItem
  <2>1. v \in Texts /\ e.width \in Nat
    BY <1>2 DEF Items, ElementTypes
  <2> DEFINE s == Stored(v, e)
  <2>2. /\ s \in Texts /\ Len(v) \in Nat /\ Len(s) = IF e.width = 0 THEN Len(v) ELSE e.width
        /\ Len(s) >= Len(v)
    BY <2>1, StoredIs
  <2>3. Padded(v, e) = s
    BY <1>2 DEF Padded
  <2> HIDE DEF s
  <2>4. s # NullItem /\ s \in Items
    BY <2>2, NullIsNoText DEF Items
  <2>5. Len(s) >= e.width
    BY <2>1, <2>2
  <2>6. Padded(s, e) = s
    BY <2>4, <2>5 DEF Padded, Stored
  <2>7. ~IsTooLong(s, e)
    BY <2>1, <2>2 DEF IsTooLong
  <2>8. s = << >> => v = << >>
    <3> SUFFICES ASSUME s = << >> PROVE v = << >>
      OBVIOUS
    <3>1. Len(s) = 0 /\ Len(v) = 0
      BY <2>2, EmptySeq
    <3> QED BY <2>1, <3>1, EmptySeq DEF Texts
  <2> QED BY <1>2, <2>3, <2>4, <2>6, <2>7, <2>8
<1> QED BY <1>1, <1>2

\* A text that is stored is stored as it is.
LEMMA StoredIsStored ==
  ASSUME NEW e \in ElementTypes, NEW v \in Items, v # NullItem, ~IsTooLong(v, e)
  PROVE  /\ Stored(v, e) \in Texts /\ Stored(v, e) = Padded(v, e)
         /\ Stored(Stored(v, e), e) = Stored(v, e) /\ ~IsTooLong(Stored(v, e), e)
<1>1. v \in Texts
  BY DEF Items
<1>2. Stored(v, e) \in Texts /\ Padded(v, e) = Stored(v, e)
  BY <1>1, StoredIsText DEF Padded
<1>3. Padded(Padded(v, e), e) = Padded(v, e) /\ ~IsTooLong(Padded(v, e), e)
  BY PaddedIsStored
<1>4. Stored(v, e) # NullItem
  BY <1>2, NullIsNoText
<1> QED BY <1>2, <1>3, <1>4 DEF Padded

\* What is padded fits the type, and is not padded again.
LEMMA PaddedAllFits ==
  ASSUME NEW e \in ElementTypes, NEW items \in Seq(ItemsFor(e))
  PROVE  /\ PaddedAll(items, e) \in Seq(ItemsFor(e))
         /\ PaddedAll(PaddedAll(items, e), e) = PaddedAll(items, e)
<1> DEFINE p == PaddedAll(items, e)
<1>1. items \in Seq(Items) /\ Len(items) \in Nat /\ \A i \in 1 .. Len(items) : items[i] \in ItemsFor(e)
  <2>1. ItemsFor(e) \subseteq Items
    BY DEF ItemsFor
  <2> QED BY <2>1, SeqMonotonic, LenProperties
<1>2. /\ p \in Seq(Items) /\ Len(p) = Len(items) /\ DOMAIN p = 1 .. Len(p)
      /\ \A i \in 1 .. Len(items) : p[i] = Padded(items[i], e)
  BY <1>1, PaddedAllIs, LenProperties
<1> HIDE DEF p
<1>3. ASSUME NEW i \in 1 .. Len(items)
      PROVE  p[i] \in ItemsFor(e) /\ Padded(p[i], e) = p[i]
  <2>1. /\ items[i] \in Items /\ (items[i] = NullItem => e.nullable) /\ ~IsTooLong(items[i], e)
    BY <1>1 DEF ItemsFor
  <2>2. p[i] = Padded(items[i], e)
    BY <1>2
  <2> QED BY <2>1, <2>2, PaddedIsStored DEF ItemsFor
<1>4. p \in Seq(ItemsFor(e))
  <2>1. p \in [1 .. Len(items) -> ItemsFor(e)]
    BY <1>2, <1>3, LenProperties
  <2> QED BY <1>1, <2>1
<1>5. PaddedAll(p, e) = p
  <2>1. /\ PaddedAll(p, e) \in Seq(Items) /\ Len(PaddedAll(p, e)) = Len(p)
        /\ \A i \in 1 .. Len(p) : PaddedAll(p, e)[i] = Padded(p[i], e)
    BY <1>2, PaddedAllIs
  <2>2. \A i \in 1 .. Len(p) : PaddedAll(p, e)[i] = p[i]
    BY <1>2, <1>3, <2>1
  <2> QED BY <1>2, <2>1, <2>2, SeqEqual
<1> QED BY <1>4, <1>5 DEF p

\* Two halves are padded each on its own.
LEMMA PaddedAllConcat ==
  ASSUME NEW e \in ElementTypes, NEW s \in Seq(Items), NEW t \in Seq(Items)
  PROVE  PaddedAll(s \o t, e) = PaddedAll(s, e) \o PaddedAll(t, e)
<1> DEFINE c == s \o t
<1> DEFINE p == PaddedAll(s, e)
<1> DEFINE q == PaddedAll(t, e)
<1> DEFINE r == p \o q
<1>1. /\ c \in Seq(Items) /\ Len(c) = Len(s) + Len(t)
      /\ \A i \in 1 .. Len(s) + Len(t) : c[i] = IF i <= Len(s) THEN s[i] ELSE t[i - Len(s)]
  BY ConcatProperties
<1>2. /\ p \in Seq(Items) /\ Len(p) = Len(s) /\ \A i \in 1 .. Len(s) : p[i] = Padded(s[i], e)
      /\ q \in Seq(Items) /\ Len(q) = Len(t) /\ \A i \in 1 .. Len(t) : q[i] = Padded(t[i], e)
      /\ Len(s) \in Nat /\ Len(t) \in Nat
  BY PaddedAllIs, LenProperties
<1> HIDE DEF c, p, q
<1>3. /\ r \in Seq(Items) /\ Len(r) = Len(p) + Len(q)
      /\ \A i \in 1 .. Len(p) + Len(q) : r[i] = IF i <= Len(p) THEN p[i] ELSE q[i - Len(p)]
  <2>1. p \in Seq(Items) /\ q \in Seq(Items)
    BY <1>2
  <2> QED BY <2>1, ConcatProperties
<1>4. /\ PaddedAll(c, e) \in Seq(Items) /\ Len(PaddedAll(c, e)) = Len(c)
      /\ \A i \in 1 .. Len(c) : PaddedAll(c, e)[i] = Padded(c[i], e)
  BY <1>1, PaddedAllIs
<1> HIDE DEF r
<1>5. ASSUME NEW i \in 1 .. Len(c) PROVE PaddedAll(c, e)[i] = r[i]
  <2>1. PaddedAll(c, e)[i] = Padded(c[i], e)
    BY <1>4
  <2>2. CASE i <= Len(s)
    <3>1. i \in 1 .. Len(s) /\ i \in 1 .. Len(p) + Len(q)
      BY <1>1, <1>2, <2>2
    <3> QED BY <1>1, <1>2, <1>3, <2>1, <2>2, <3>1
  <2>3. CASE ~(i <= Len(s))
    <3>1. i - Len(s) \in 1 .. Len(t) /\ i \in 1 .. Len(p) + Len(q)
      BY <1>1, <1>2, <2>3
    <3>2. c[i] = t[i - Len(s)] /\ r[i] = q[i - Len(s)]
      BY <1>1, <1>2, <1>3, <2>3, <3>1
    <3> QED BY <1>2, <2>1, <3>1, <3>2
  <2> QED BY <2>2, <2>3
<1>6. PaddedAll(c, e) = r
  BY <1>1, <1>2, <1>3, <1>4, <1>5, SeqEqual
<1> QED BY <1>6 DEF c, p, q, r

\* A column reads as as many items as it has rows.
LEMMA ContentSize ==
  ASSUME NEW col \in Columns, PlacesAgree(col)
  PROVE  Content(col) \in Seq(Items) /\ Len(Content(col)) = Size(col) /\ Size(col) \in Nat
         /\ DOMAIN col.index = 1 .. Size(col) /\ DOMAIN Content(col) = 1 .. Size(col)
<1>1. << >> \in Items /\ << >> # NullItem
  BY EmptyIsText, NullIsNoText DEF Items
<1>2. Content(col) \in Seq(Items) /\ Len(Content(col)) = Len(col.index)
  BY <1>1, AppendReads, PlacesAreAgreed, TextHasItsPlace
<1> QED BY <1>2, ColumnFields, LenProperties DEF Size, Content

------------------------------------------------------------------------------
(* Appending items of which one may be refused, and a column behind another. *)

\* The items that the dictionary refuses.
TooLong(items, e) == {i \in DOMAIN items : IsTooLong(items[i], e)}

\* Rows of which none is refused.
LEMMA AllIsAppended ==
  ASSUME NEW col, NEW items, TooLong(items, col.type) = {}
  PROVE  ~AppendAll(col, items).threw /\ AppendAll(col, items).col = AppendItems(col, items)
BY DEF AppendAll, TooLong

\* An append of items of which one is refused throws.
LEMMA SomeIsRefused ==
  ASSUME NEW col, NEW items, TooLong(items, col.type) # {}
  PROVE  AppendAll(col, items).threw
BY DEF AppendAll, TooLong

\* One row that is refused.
LEMMA RefusedKeepsColumn ==
  ASSUME NEW col \in Columns, PlacesAgree(col), NEW v \in Items, IsTooLong(v, col.type)
  PROVE  AppendAll(col, <<v>>).threw /\ AppendAll(col, <<v>>).col = col
<1> DEFINE s == <<v>>
<1> DEFINE bad == {i \in DOMAIN s : IsTooLong(s[i], col.type)}
<1>1. s \in Seq(Items) /\ Len(s) = 1 /\ DOMAIN s = {1} /\ s[1] = v
  OBVIOUS
<1> HIDE DEF s
<1>2. bad = {1}
  BY <1>1
<1>3. Min({1}) = 1
  <2>1. 1 \in {1} /\ {1} \in SUBSET Int /\ \A x \in {1} : 1 <= x
    OBVIOUS
  <2> QED BY <2>1, MinIsLeast
<1>4. SubSeq(s, 1, 1 - 1) = << >>
  <2>1. 1 - 1 = 0
    OBVIOUS
  <2> QED BY <1>1, <2>1, SubSeqEmpty
<1>5. AppendItems(col, << >>) = col
  BY <1>1, FoldOfAppend
<1>6. AppendUnsafeThrows(col, v) = col
  <2>1. v \in Texts
    BY DEF IsTooLong, Items
  <2> QED BY <2>1, AppendThrowsKeepsColumn
<1> HIDE DEF bad
<1>7. AppendAll(col, s) =
        [col |-> AppendUnsafeThrows(AppendItems(col, SubSeq(s, 1, Min(bad) - 1)), s[Min(bad)]),
         threw |-> TRUE]
  BY <1>2 DEF AppendAll, bad
<1>8. AppendAll(col, s).threw
      /\ AppendAll(col, s).col =
           AppendUnsafeThrows(AppendItems(col, SubSeq(s, 1, Min(bad) - 1)), s[Min(bad)])
  BY <1>7
<1>9. AppendUnsafeThrows(AppendItems(col, SubSeq(s, 1, Min(bad) - 1)), s[Min(bad)]) = col
  BY <1>1, <1>2, <1>3, <1>4, <1>5, <1>6
<1> QED BY <1>8, <1>9 DEF s

\* What was built of a row is the row.
LEMMA NewOfRow ==
  ASSUME NEW e \in ElementTypes, NEW row \in Seq(ItemsFor(e))
  PROVE  LET part == AppendItems(Fresh(e), row)
             filled == AppendColumn(Fresh(e), part)
         IN  /\ part \in Columns /\ PlacesAgree(part)
             /\ filled \in Columns /\ PlacesAgree(filled) /\ filled.type = e
             /\ Content(filled) = PaddedAll(row, e)
<1> DEFINE f == Fresh(e)
<1> DEFINE part == AppendItems(f, row)
<1> DEFINE p == PaddedAll(row, e)
<1>1. f \in Columns /\ f.type = e /\ PlacesAgree(f) /\ Content(f) = << >>
  BY FreshAgrees
<1> HIDE DEF f
<1>2. p \in Seq(ItemsFor(e)) /\ PaddedAll(p, e) = p
  BY PaddedAllFits
<1> HIDE DEF p
<1>3. \A items \in Seq(ItemsFor(e)) :
        /\ AppendItems(f, items) \in Columns /\ PlacesAgree(AppendItems(f, items))
        /\ AppendItems(f, items).type = e
        /\ Content(AppendItems(f, items)) = PaddedAll(items, e)
  <2> SUFFICES ASSUME NEW items \in Seq(ItemsFor(e))
               PROVE  /\ AppendItems(f, items) \in Columns /\ PlacesAgree(AppendItems(f, items))
                      /\ AppendItems(f, items).type = e
                      /\ Content(AppendItems(f, items)) = PaddedAll(items, e)
    OBVIOUS
  <2> DEFINE q == PaddedAll(items, e)
  <2>1. q \in Seq(ItemsFor(e))
    BY PaddedAllFits
  <2>2. /\ AppendItems(f, items) \in Columns /\ PlacesAgree(AppendItems(f, items))
        /\ AppendItems(f, items).type = f.type
        /\ Content(AppendItems(f, items)) = Content(f) \o PaddedAll(items, f.type)
    BY <1>1, AppendsAddItems
  <2> HIDE DEF q
  <2>3. << >> \o q = q
    BY <2>1, ConcatEmptySeq
  <2> QED BY <1>1, <2>2, <2>3 DEF q
<1>4. part \in Columns /\ PlacesAgree(part) /\ Content(part) = p
  BY <1>3 DEF p
<1> HIDE DEF part
<1>5. AppendColumn(f, part) = AppendItems(f, p)
  BY <1>4 DEF AppendColumn
<1> QED BY <1>2, <1>3, <1>4, <1>5 DEF part, f, p

------------------------------------------------------------------------------
(* Slicing. *)

\* An append keeps the map, and puts one item more into it at most.
LEMMA AppendKeepsMap ==
  ASSUME NEW col \in Columns, MapAgrees(col), NEW v \in Items
  PROVE  /\ MapAgrees(AppendUnsafe(col, v))
         /\ DOMAIN AppendUnsafe(col, v).unique = DOMAIN col.unique \cup {v}
         /\ \A key \in DOMAIN col.unique : AppendUnsafe(col, v).unique[key] = col.unique[key]
         /\ AppendUnsafe(col, v).unique[v] = Place(col, v)
         /\ Len(AppendUnsafe(col, v).dict) \in Nat /\ Len(col.dict) \in Nat
         /\ Len(AppendUnsafe(col, v).dict) >= Len(col.dict)
<1> DEFINE after == AppendUnsafe(col, v)
<1> DEFINE n == Place(col, v)
<1>1. after.type = col.type /\ after.unique = Emplace(col.unique, v, n)
  BY ColumnFields, AppendUnsafeFields
<1>2. /\ n \in Nat /\ n < Len(after.dict) /\ after.dict[n + 1] = Entry(v, col.type)
      /\ after.dict \in Seq(Entries)
      /\ Len(after.dict) = Len(col.dict) + 1 \/ Len(after.dict) = Len(col.dict)
      /\ \A i \in 1 .. Len(col.dict) : after.dict[i] = col.dict[i]
  BY PlaceHoldsItem
<1>3. Len(col.dict) \in Nat /\ \A key \in DOMAIN col.unique : col.unique[key] \in Nat
  BY ColumnFields, LenProperties
<1>4. v \in DOMAIN col.unique => n = col.unique[v]
  BY DEF Place
<1> HIDE DEF n, after
<1>5. Len(after.dict) \in Nat /\ Len(after.dict) >= Len(col.dict)
  BY <1>2, <1>3
<1>6. /\ DOMAIN after.unique = DOMAIN col.unique \cup {v}
      /\ \A key \in DOMAIN col.unique : after.unique[key] = col.unique[key]
      /\ after.unique[v] = n
  <2> DEFINE u == Emplace(col.unique, v, n)
  <2>1. /\ DOMAIN u = DOMAIN col.unique \cup {v}
        /\ \A key \in DOMAIN col.unique : u[key] = col.unique[key]
        /\ v \notin DOMAIN col.unique => u[v] = n
    BY EmplaceIs
  <2>2. after.unique = u
    BY <1>1
  <2> HIDE DEF u
  <2> QED BY <1>4, <2>1, <2>2
<1>7. ASSUME NEW key \in DOMAIN after.unique
      PROVE  /\ after.unique[key] < Len(after.dict)
             /\ after.dict[after.unique[key] + 1] = Entry(key, after.type)
  <2>1. CASE key = v
    BY <1>1, <1>2, <1>6, <2>1
  <2>2. CASE key \in DOMAIN col.unique
    <3>1. /\ col.unique[key] < Len(col.dict)
          /\ col.dict[col.unique[key] + 1] = Entry(key, col.type)
      BY <2>2 DEF MapAgrees
    <3>2. col.unique[key] \in Nat /\ after.unique[key] = col.unique[key]
      BY <1>3, <1>6, <2>2
    <3>3. col.unique[key] + 1 \in 1 .. Len(col.dict)
      BY <1>3, <3>1, <3>2
    <3> QED BY <1>1, <1>2, <1>3, <1>5, <3>1, <3>2, <3>3
  <2> QED BY <1>6, <1>7, <2>1, <2>2
<1>8. MapAgrees(after)
  BY <1>7 DEF MapAgrees
<1> QED BY <1>3, <1>5, <1>6, <1>8 DEF after, n

\* What a slice can be given: items as they read, and for a Nullable dictionary no
\* empty text, whose place in a new column is that of NULL.
SliceItems(elem) ==
  {v \in Items : Padded(v, elem) = v /\ (elem.nullable => v # << >>)}

\* A slice is a new column of the constructor without a null item to which the rows are
\* appended one by one (lowcardinality.cpp:292): it reads as the rows, if a Nullable one
\* has no empty text, whose place would be that of NULL.
THEOREM SliceReads ==
  ASSUME NEW elem \in ElementTypes, NEW items \in Seq(SliceItems(elem))
  PROVE  Content(AppendItems(FreshOver(elem), items)) = items
<1> DEFINE A == SliceItems(elem)
<1> DEFINE c == FreshOver(elem)
<1> DEFINE Good(r) ==
      LET after == AppendItems(c, r)
      IN  /\ after \in Columns /\ MapAgrees(after) /\ IndexAgrees(after)
          /\ after.type = elem /\ Len(after.dict) > 0
          /\ \A v \in DOMAIN after.unique : after.unique[v] = 0 => v = << >>
          /\ Content(after) = r
<1> DEFINE S == {r \in Seq(A) : Good(r)}
<1>1. A \subseteq Items
  BY DEF SliceItems
<1>2. /\ c \in Columns /\ c.type = elem /\ c.dict = <<Entry(<< >>, elem)>> /\ c.index = << >>
      /\ DOMAIN c.unique = {<< >>} /\ c.unique[<< >>] = 0
  <2> DEFINE d == Entry(<< >>, elem)
  <2> DEFINE one == [k \in {<< >>} |-> 0]
  <2>1. c = [type |-> elem, dict |-> <<d>>, index |-> << >>, unique |-> one]
    BY FreshOverIs
  <2>2. /\ <<d>> \in Seq([text : Texts, null : BOOLEAN]) /\ << >> \in Seq(Nat)
        /\ {<< >>} \in SUBSET Items /\ one \in [{<< >>} -> Nat]
    BY EntryType, EmptyIsText DEF Items
  <2> HIDE DEF d, c
  <2>3. DOMAIN one = {<< >>} /\ one[<< >>] = 0
    OBVIOUS
  <2> HIDE DEF one
  <2>4. c \in Columns
    BY <2>1, <2>2, RecordIsColumn
  <2> QED BY <2>1, <2>3, <2>4 DEF d
<1> HIDE DEF A, c
<1>3. << >> \in S
  <2>1. AppendItems(c, << >>) = c
    BY EmptySeq, FoldOfAppend
  <2>2. Len(c.dict) = 1
    BY <1>2
  <2>3. MapAgrees(c)
    BY <1>2, <2>2 DEF MapAgrees
  <2>4. IndexAgrees(c) /\ Content(c) = << >>
    BY <1>2 DEF IndexAgrees, Content
  <2>5. \A v \in DOMAIN c.unique : c.unique[v] = 0 => v = << >>
    BY <1>2
  <2>6. c \in Columns /\ c.type = elem /\ Len(c.dict) > 0
    BY <1>2, <2>2
  <2>7. Good(<< >>)
    BY <2>1, <2>3, <2>4, <2>5, <2>6
  <2> HIDE DEF Good
  <2> QED BY <2>7, EmptySeq
<1>4. ASSUME NEW r \in Seq(A), NEW v \in A, r \in S PROVE Append(r, v) \in S
  <2> DEFINE before == AppendItems(c, r)
  <2> DEFINE after == AppendUnsafe(before, v)
  <2>1. AppendItems(c, Append(r, v)) = after
    BY FoldOfAppend
  <2>2. /\ before \in Columns /\ MapAgrees(before) /\ IndexAgrees(before)
        /\ before.type = elem /\ Len(before.dict) > 0
        /\ \A k \in DOMAIN before.unique : before.unique[k] = 0 => k = << >>
        /\ Content(before) = r
    BY <1>4
  <2>3. v \in Items /\ (elem.nullable => v # << >>) /\ Padded(v, elem) = v
    BY DEF A, SliceItems
  <2> HIDE DEF before
  <2>4. Len(before.dict) \in Nat
    BY <2>2, ColumnFields, LenProperties
  <2>5. Place(before, v) = 0 => v = << >>
    BY <2>2, <2>4 DEF Place
  <2>6. /\ IndexAgrees(after) /\ Content(after) = Append(r, v)
    BY <2>2, <2>3, <2>5, AppendReads
  <2>7. after \in Columns /\ after.type = elem
    BY <2>2, <2>3, AppendIsColumn
  <2>8. /\ MapAgrees(after) /\ Len(after.dict) > 0
        /\ \A k \in DOMAIN after.unique : after.unique[k] = 0 => k = << >>
    <3>1. /\ MapAgrees(after)
          /\ DOMAIN after.unique = DOMAIN before.unique \cup {v}
          /\ \A key \in DOMAIN before.unique : after.unique[key] = before.unique[key]
          /\ after.unique[v] = Place(before, v)
          /\ Len(after.dict) \in Nat /\ Len(before.dict) \in Nat
          /\ Len(after.dict) >= Len(before.dict)
      BY <2>2, <2>3, AppendKeepsMap
    <3> HIDE DEF after
    <3>2. Len(after.dict) > 0
      BY <2>2, <3>1
    <3> QED BY <2>2, <2>5, <3>1, <3>2
  <2> HIDE DEF after
  <2>9. Append(r, v) \in Seq(A)
    BY AppendProperties
  <2> QED BY <2>1, <2>6, <2>7, <2>8, <2>9
<1> HIDE DEF S
<1>5. items \in S
  BY <1>3, <1>4, SeqSetInduction DEF A
<1> QED BY <1>5 DEF S, c

------------------------------------------------------------------------------
(* Loading a dictionary that a server sends. *)

\* A dictionary that a server may send: stored texts, the first in a Nullable one
\* stands for NULL.
GoodKeys(e) ==
  {keys \in Seq(Texts) :
     /\ Len(keys) > 0
     /\ e.nullable => keys[1] = Stored(<< >>, e)
     /\ \A i \in DOMAIN keys : Stored(keys[i], e) = keys[i] /\ ~IsTooLong(keys[i], e)}

\* The fields of a record of a column's fields.
LEMMA RecordFields ==
  ASSUME NEW t, NEW d, NEW i, NEW u, NEW c,
         c = [type |-> t, dict |-> d, index |-> i, unique |-> u]
  PROVE  c.type = t /\ c.dict = d /\ c.index = i /\ c.unique = u
OBVIOUS

\* What is loaded of it is a column.
LEMMA LoadedIsColumn ==
  ASSUME NEW e \in ElementTypes, NEW keys \in GoodKeys(e), NEW index \in Seq(Nat),
         \A n \in DOMAIN index : index[n] < Len(keys),
         NEW c, c = LoadBody([keys |-> keys, index |-> index], e)
  PROVE  /\ c \in Columns /\ PlacesAgree(c) /\ c.type = e /\ c.index = index
         /\ \A i \in 1 .. Len(keys) :
              c.dict[i] = [text |-> keys[i], null |-> e.nullable /\ i = 1]
<1> DEFINE d == [i \in 1 .. Len(keys) |-> [text |-> keys[i], null |-> e.nullable /\ i = 1]]
<1> DEFINE key(i) == IF d[i].null THEN NullItem ELSE d[i].text
<1> DEFINE places(k) == {i \in 1 .. Len(keys) : key(i) = k}
<1> DEFINE S == {key(i) : i \in 1 .. Len(keys)}
<1> DEFINE u == [k \in S |-> Min(places(k)) - 1]
<1>1. /\ DOMAIN keys = 1 .. Len(keys) /\ Len(keys) \in Nat /\ Len(keys) > 0
      /\ e.nullable => keys[1] = Stored(<< >>, e)
      /\ \A i \in 1 .. Len(keys) :
           keys[i] \in Texts /\ Stored(keys[i], e) = keys[i] /\ ~IsTooLong(keys[i], e)
  BY LenProperties DEF GoodKeys
<1>2. c = [type |-> e, dict |-> d, index |-> index, unique |-> u]
  BY <1>1 DEF LoadBody
<1>3. c.type = e /\ c.dict = d /\ c.index = index /\ c.unique = u
  <2> HIDE DEF d, u
  <2> QED BY <1>2, RecordFields
<1>4. \A i \in 1 .. Len(keys) : d[i] \in [text : Texts, null : BOOLEAN]
                               /\ (d[i].null <=> e.nullable /\ i = 1) /\ d[i].text = keys[i]
  BY <1>1 DEF ElementTypes
<1>5. /\ d \in Seq([text : Texts, null : BOOLEAN]) /\ Len(d) = Len(keys) /\ DOMAIN d = 1 .. Len(keys)
  <2>1. d \in [1 .. Len(keys) -> [text : Texts, null : BOOLEAN]]
    BY <1>4
  <2>2. Len(keys) \in Nat
    BY <1>1
  <2> HIDE DEF d
  <2> QED BY <2>1, <2>2, FunctionIsSeq
<1> HIDE DEF d
<1>6. \A i \in 1 .. Len(keys) : key(i) \in Items
                               /\ (key(i) = NullItem <=> e.nullable /\ i = 1)
  BY <1>1, <1>4, NullIsNoText DEF Items
<1>7. \A v \in S : /\ u[v] \in Nat /\ u[v] + 1 \in 1 .. Len(keys) /\ u[v] < Len(keys)
                   /\ key(u[v] + 1) = v
  <2> TAKE v \in S
  <2>1. places(v) \in SUBSET Nat /\ places(v) # {} /\ places(v) \in SUBSET (1 .. Len(keys))
    BY <1>1
  <2>2. Min(places(v)) \in places(v)
    <3> DEFINE Q == places(v)
    <3> HIDE DEF Q
    <3> QED BY <2>1, MinIn DEF Q
  <2>3. u[v] = Min(places(v)) - 1
    OBVIOUS
  <2> HIDE DEF u
  <2> DEFINE m == Min(places(v))
  <2>4. m \in 1 .. Len(keys) /\ key(m) = v
    BY <2>2
  <2>5. u[v] = m - 1
    BY <2>3
  <2> HIDE DEF m
  <2>6. u[v] + 1 = m /\ u[v] \in Nat /\ u[v] < Len(keys)
    BY <1>1, <2>4, <2>5
  <2> QED BY <2>4, <2>6
<1>8. S \in SUBSET Items /\ DOMAIN u = S
  BY <1>6
<1>9. u \in [S -> Nat]
  BY <1>7
<1>10. e.nullable => NullItem \in S
  <2>1. 1 \in 1 .. Len(keys)
    BY <1>1
  <2> QED BY <1>6, <2>1
<1> HIDE DEF u
<1>11. \A v \in S : d[u[v] + 1] = Entry(v, e) /\ (v = NullItem \/ ~IsTooLong(v, e))
  <2> TAKE v \in S
  <2> DEFINE m == u[v] + 1
  <2>1. m \in 1 .. Len(keys) /\ key(m) = v
    BY <1>7
  <2> HIDE DEF m
  <2>2. d[m] = [text |-> keys[m], null |-> e.nullable /\ m = 1]
    BY <2>1 DEF d
  <2>3. CASE v = NullItem
    <3>1. e.nullable /\ m = 1
      BY <1>6, <2>1, <2>3
    <3> QED BY <1>1, <2>2, <2>3, <3>1 DEF Entry, m
  <2>4. CASE v # NullItem
    <3>1. ~(e.nullable /\ m = 1)
      BY <1>6, <2>1, <2>4
    <3>2. v = keys[m]
      BY <1>4, <2>1, <3>1
    <3>3. Stored(v, e) = v /\ ~IsTooLong(v, e)
      BY <1>1, <2>1, <3>2
    <3>4. Entry(v, e) = [text |-> v, null |-> FALSE]
      BY <2>4, <3>3 DEF Entry
    <3>5. d[m] = [text |-> v, null |-> FALSE]
      BY <2>2, <3>1, <3>2
    <3> QED BY <3>3, <3>4, <3>5 DEF m
  <2> QED BY <2>3, <2>4
<1> HIDE DEF S, key, places
<1>12. c \in Columns
  <2>1. /\ d \in Seq([text : Texts, null : BOOLEAN]) /\ S \in SUBSET Items
        /\ u \in [S -> Nat] /\ index \in Seq(Nat) /\ e \in ElementTypes
    BY <1>5, <1>8, <1>9
  <2>2. [type |-> e, dict |-> d, index |-> index, unique |-> u] \in Columns
    BY <2>1, RecordIsColumn
  <2> QED BY <1>2, <2>2
<1>13. PlacesAgree(c)
  <2>1. \A i \in DOMAIN d : d[i].null <=> e.nullable /\ i = 1
    BY <1>4, <1>5
  <2>2. \A row \in DOMAIN c.index : c.index[row] < Len(c.dict)
    BY <1>3, <1>5
  <2>3. \A v \in DOMAIN c.unique : /\ c.unique[v] < Len(c.dict)
                                   /\ c.dict[c.unique[v] + 1] = Entry(v, c.type)
                                   /\ v = NullItem \/ ~IsTooLong(v, c.type)
    <3>1. DOMAIN c.unique = S /\ Len(c.dict) = Len(keys)
      BY <1>3, <1>5, <1>8
    <3> TAKE v \in DOMAIN c.unique
    <3>2. u[v] < Len(keys) /\ d[u[v] + 1] = Entry(v, e) /\ (v = NullItem \/ ~IsTooLong(v, e))
      BY <1>7, <1>11, <3>1
    <3> QED BY <1>3, <3>1, <3>2
  <2>4. \A i \in DOMAIN c.dict : c.dict[i].null <=> c.type.nullable /\ i = 1
    BY <1>3, <2>1
  <2>5. c.type.nullable => NullItem \in DOMAIN c.unique
    BY <1>3, <1>8, <1>10
  <2> QED BY <2>2, <2>3, <2>4, <2>5 DEF PlacesAgree
<1> QED BY <1>3, <1>12, <1>13 DEF d

------------------------------------------------------------------------------
(* The query log. *)

LogEntries == [call : Nat, outcome : {"ok", "error", "unrecovered"}]

LogInv ==
  /\ calls \in Nat
  /\ recorded \in Seq(LogEntries)
  /\ LogKeepsLatest

\* The last entries of a log, up to a limit.
LEMMA LatestIs ==
  ASSUME NEW s \in Seq(LogEntries)
  PROVE  /\ Latest(s) \in Seq(LogEntries) /\ Len(s) \in Nat
         /\ Len(Latest(s)) = IF Len(s) <= LogMax THEN Len(s) ELSE LogMax
         /\ \A i \in 1 .. Len(Latest(s)) : Latest(s)[i] = s[Len(s) - Len(Latest(s)) + i]
<1>1. Len(s) \in Nat /\ LogMax \in Nat /\ LogMax > 0
  BY LogMaxIsPositive, LenProperties
<1>2. CASE Len(s) <= LogMax
  BY <1>1, <1>2 DEF Latest
<1>3. CASE Len(s) > LogMax
  <2> DEFINE m == Len(s) - LogMax + 1
  <2>1. Latest(s) = SubSeq(s, m, Len(s))
    BY <1>1, <1>3 DEF Latest
  <2>2. m \in Int /\ Len(s) \in Int /\ m <= Len(s) /\ \A i \in m .. Len(s) : s[i] \in LogEntries
    BY <1>1, <1>3, LenProperties
  <2>3. /\ SubSeq(s, m, Len(s)) \in Seq(LogEntries)
        /\ Len(SubSeq(s, m, Len(s))) = IF m <= Len(s) THEN Len(s) - m + 1 ELSE 0
        /\ \A i \in 1 .. Len(s) - m + 1 : SubSeq(s, m, Len(s))[i] = s[m + i - 1]
    <3> HIDE DEF m
    <3> QED BY <2>2, SubSeqProperties
  <2>4. Len(s) - m + 1 = LogMax
    BY <1>1
  <2> QED BY <1>1, <1>3, <2>1, <2>2, <2>3, <2>4
<1> QED BY <1>1, <1>2, <1>3

\* The oldest entry makes room for a new one when the log is full.
LEMMA LatestOfAppend ==
  ASSUME NEW s \in Seq(LogEntries), NEW entry \in LogEntries
  PROVE  Latest(Append(s, entry)) =
           Append(IF Len(Latest(s)) >= LogMax THEN Tail(Latest(s)) ELSE Latest(s), entry)
<1> DEFINE l == Latest(s)
<1> DEFINE t == Append(s, entry)
<1> DEFINE n == Latest(t)
<1> DEFINE kept == IF Len(l) >= LogMax THEN Tail(l) ELSE l
<1>0. LogMax \in Nat /\ LogMax > 0
  BY LogMaxIsPositive
<1>1. /\ l \in Seq(LogEntries) /\ Len(s) \in Nat
      /\ Len(l) = IF Len(s) <= LogMax THEN Len(s) ELSE LogMax
      /\ \A i \in 1 .. Len(l) : l[i] = s[Len(s) - Len(l) + i]
  BY LatestIs
<1>2. /\ t \in Seq(LogEntries) /\ Len(t) = Len(s) + 1
      /\ \A i \in 1 .. Len(s) : t[i] = s[i]
      /\ t[Len(s) + 1] = entry
  BY AppendProperties
<1> HIDE DEF t
<1>3. /\ n \in Seq(LogEntries)
      /\ Len(n) = IF Len(s) + 1 <= LogMax THEN Len(s) + 1 ELSE LogMax
      /\ \A i \in 1 .. Len(n) : n[i] = t[Len(s) + 1 - Len(n) + i]
  <2>1. /\ Latest(t) \in Seq(LogEntries)
        /\ Len(Latest(t)) = IF Len(t) <= LogMax THEN Len(t) ELSE LogMax
        /\ \A i \in 1 .. Len(Latest(t)) : Latest(t)[i] = t[Len(t) - Len(Latest(t)) + i]
    BY <1>2, LatestIs
  <2> HIDE DEF n
  <2>2. n = Latest(t)
    BY DEF n
  <2>3. Len(t) = Len(s) + 1
    BY <1>2
  <2>4. n \in Seq(LogEntries) /\ Len(n) = IF Len(s) + 1 <= LogMax THEN Len(s) + 1 ELSE LogMax
    BY <2>1, <2>2, <2>3
  <2>5. \A i \in 1 .. Len(n) : n[i] = t[Len(s) + 1 - Len(n) + i]
    <3>1. TAKE i \in 1 .. Len(n)
    <3>2. n[i] = t[Len(t) - Len(n) + i]
      BY <2>1, <2>2, <3>1
    <3> QED BY <2>3, <3>2
  <2> QED BY <2>4, <2>5
<1> HIDE DEF l, n
<1>4. /\ kept \in Seq(LogEntries) /\ Len(kept) \in Nat
      /\ Len(kept) = IF Len(l) >= LogMax THEN Len(l) - 1 ELSE Len(l)
      /\ \A i \in 1 .. Len(kept) : kept[i] = s[Len(s) - Len(kept) + i]
  <2>1. CASE Len(l) >= LogMax
    <3>1. l # << >>
      BY <1>0, <2>1
    <3>2. /\ Tail(l) \in Seq(LogEntries) /\ Len(Tail(l)) = Len(l) - 1
          /\ \A i \in 1 .. Len(Tail(l)) : Tail(l)[i] = l[i + 1]
      BY <1>1, <3>1, HeadTailProperties
    <3>3. kept = Tail(l) /\ Len(l) \in Nat
      BY <1>1, <2>1, LenProperties
    <3>4. /\ kept \in Seq(LogEntries) /\ Len(kept) = Len(l) - 1 /\ Len(l) \in Nat
          /\ \A i \in 1 .. Len(kept) : kept[i] = l[i + 1]
      BY <3>2, <3>3
    <3> HIDE DEF kept
    <3>5. Len(kept) \in Nat
      BY <3>4, LenProperties
    <3>6. ASSUME NEW i \in 1 .. Len(kept)
          PROVE  kept[i] = s[Len(s) - Len(kept) + i]
      <4>1. i + 1 \in 1 .. Len(l) /\ Len(s) - Len(l) + (i + 1) = Len(s) - Len(kept) + i
        BY <1>1, <3>4, <3>5
      <4> QED BY <1>1, <3>4, <4>1
    <3> QED BY <2>1, <3>4, <3>5, <3>6
  <2>2. CASE ~(Len(l) >= LogMax)
    BY <1>1, <2>2, LenProperties
  <2> QED BY <2>1, <2>2
<1> HIDE DEF kept
<1>5. /\ Append(kept, entry) \in Seq(LogEntries) /\ Len(Append(kept, entry)) = Len(kept) + 1
      /\ \A i \in 1 .. Len(kept) : Append(kept, entry)[i] = kept[i]
      /\ Append(kept, entry)[Len(kept) + 1] = entry
  BY <1>4, AppendProperties
<1>6. Len(n) = Len(kept) + 1
  BY <1>0, <1>1, <1>3, <1>4
<1>7. ASSUME NEW i \in 1 .. Len(n)
      PROVE  n[i] = Append(kept, entry)[i]
  <2>1. n[i] = t[Len(s) - Len(kept) + i]
    <3>1. Len(s) + 1 - Len(n) + i = Len(s) - Len(kept) + i
      BY <1>1, <1>4, <1>6
    <3> QED BY <1>3, <3>1
  <2>2. Len(kept) <= Len(s)
    BY <1>0, <1>1, <1>4
  <2>3. CASE i = Len(kept) + 1
    <3>1. Len(s) - Len(kept) + i = Len(s) + 1
      BY <1>1, <1>4, <2>3
    <3> QED BY <1>2, <1>5, <2>1, <2>3, <3>1
  <2>4. CASE i \in 1 .. Len(kept)
    <3>1. Len(s) - Len(kept) + i \in 1 .. Len(s)
      BY <1>1, <1>4, <2>2, <2>4
    <3> QED BY <1>2, <1>4, <1>5, <2>1, <2>4, <3>1
  <2>5. i = Len(kept) + 1 \/ i \in 1 .. Len(kept)
    BY <1>4, <1>6
  <2> QED BY <2>3, <2>4, <2>5
<1>8. n = Append(kept, entry)
  BY <1>3, <1>5, <1>6, <1>7, SeqEqual
<1> QED BY <1>8 DEF l, n, kept, t

\* A call that is recorded keeps it.
LEMMA RecordKeepsLog ==
  ASSUME LogInv, NEW entry \in LogEntries, recordQuery(entry)
  PROVE  recorded' \in Seq(LogEntries) /\ LogKeepsLatest'
<1>1. CASE log_enabled
  <2>1. /\ query_log' = Append(IF Len(query_log) >= LogMax THEN Tail(query_log) ELSE query_log, entry)
        /\ recorded' = Append(recorded, entry)
    BY <1>1 DEF recordQuery, appendQueryLogCapped
  <2>2. recorded \in Seq(LogEntries) /\ query_log = Latest(recorded)
    BY DEF LogInv, LogKeepsLatest
  <2>3. recorded' \in Seq(LogEntries)
    BY <2>1, <2>2, AppendProperties
  <2>4. query_log' = Latest(recorded')
    BY <2>1, <2>2, LatestOfAppend
  <2> QED BY <2>3, <2>4 DEF LogKeepsLatest, Latest
<1>2. CASE ~log_enabled
  BY <1>2 DEF recordQuery, logVars, LogInv, LogKeepsLatest, Latest
<1> QED BY <1>1, <1>2

\* So does one that returns.
LEMMA ReturnKeepsLog ==
  ASSUME LogInv, NEW outcome \in {"ok", "error"}, Return(outcome)
  PROVE  LogInv'
<1>1. [call |-> calls, outcome |-> outcome] \in LogEntries
  BY DEF LogInv, LogEntries
<1>2. recorded' \in Seq(LogEntries) /\ LogKeepsLatest'
  BY <1>1, RecordKeepsLog DEF Return
<1> QED BY <1>2 DEF LogInv, Return

\* So does a step that leaves the log alone.
LEMMA UnchangedKeepsLog ==
  ASSUME LogInv, calls' \in Nat, UNCHANGED logVars
  PROVE  LogInv'
BY DEF LogInv, LogKeepsLatest, logVars, Latest

\* Whatever the calls do, getLogQueries() returns the latest entries since it was
\* last called, each once, in order and up to the limit (query_log.cpp:88-176).
THEOREM QueryLogIsLatest == Spec => []LogKeepsLatest
<1>1. Init => LogInv
  <2>1. SUFFICES ASSUME Init PROVE LogInv
    OBVIOUS
  <2>2. calls = 0 /\ query_log = << >> /\ recorded = << >>
    BY <2>1 DEF Init, LogInit
  <2>3. Latest(<< >>) = << >>
    BY LogMaxIsPositive DEF Latest
  <2> QED BY <2>2, <2>3 DEF LogInv, LogKeepsLatest
<1>2. LogInv /\ [Next]_vars => LogInv'
  <2> SUFFICES ASSUME LogInv, [Next]_vars PROVE LogInv'
    OBVIOUS
  <2>0. calls \in Nat /\ calls + 1 \in Nat
    BY DEF LogInv
  <2>1. CASE Insert
    BY <2>0, <2>1, UnchangedKeepsLog DEF Insert, Call
  <2>2. CASE ConvertCell
    BY <2>0, <2>2, UnchangedKeepsLog DEF ConvertCell
  <2>3. CASE ConvertArray
    <3>1. UNCHANGED <<calls, logVars>>
      BY <2>3 DEF ConvertArray
    <3> QED BY <2>0, <3>1, UnchangedKeepsLog
  <2>4. CASE ConvertThrows
    <3>1. UNCHANGED <<calls, logVars>>
      BY <2>4 DEF ConvertThrows, Fail
    <3> QED BY <2>0, <3>1, UnchangedKeepsLog
  <2>5. CASE InsertReturns
    BY <2>5, ReturnKeepsLog DEF InsertReturns
  <2>6. CASE InsertThrows
    <3>1. UNCHANGED <<calls, logVars>>
      BY <2>6 DEF InsertThrows, Fail
    <3> QED BY <2>0, <3>1, UnchangedKeepsLog
  <2>7. CASE Select
    BY <2>0, <2>7, UnchangedKeepsLog DEF Select, Call
  <2>8. CASE ReceiveBlock
    <3>1. UNCHANGED <<calls, logVars>>
      BY <2>8 DEF ReceiveBlock
    <3> QED BY <2>0, <3>1, UnchangedKeepsLog
  <2>9. CASE SelectReturns
    BY <2>9, ReturnKeepsLog DEF SelectReturns
  <2>10. CASE SelectThrows
    <3>1. UNCHANGED <<calls, logVars>>
      BY <2>10 DEF SelectThrows, Fail
    <3> QED BY <2>0, <3>1, UnchangedKeepsLog
  <2>11. CASE IterRewind
    BY <2>0, <2>11, UnchangedKeepsLog DEF IterRewind, Walk
  <2>12. CASE IterNext
    <3>1. UNCHANGED <<calls, logVars>>
      BY <2>12 DEF IterNext, Walk
    <3> QED BY <2>0, <3>1, UnchangedKeepsLog
  <2>13. CASE LogCalls
    <3>1. calls' = calls
      BY <2>13 DEF LogCalls
    <3>2. CASE enableLogQueries
      BY <3>1, <3>2 DEF enableLogQueries, LogInv, LogKeepsLatest, Latest
    <3>3. CASE getLogQueries
      <4>1. query_log' = << >> /\ recorded' = << >>
        BY <3>3 DEF getLogQueries
      <4>2. Latest(<< >>) = << >>
        BY LogMaxIsPositive DEF Latest
      <4>3. LogKeepsLatest'
        BY <4>1, <4>2 DEF LogKeepsLatest, Latest
      <4> QED BY <2>0, <3>1, <4>1, <4>3 DEF LogInv
    <3> QED BY <2>13, <3>2, <3>3 DEF LogCalls
  <2>14. CASE RecoveryFails
    <3>1. [call |-> calls, outcome |-> "unrecovered"] \in LogEntries
      BY <2>0 DEF LogEntries
    <3>2. recorded' \in Seq(LogEntries) /\ LogKeepsLatest'
      BY <2>14, <3>1, RecordKeepsLog DEF RecoveryFails
    <3> QED BY <2>0, <2>14, <3>2 DEF LogInv, RecoveryFails
  <2>15. CASE Throws
    BY <2>15, ReturnKeepsLog DEF Throws
  <2>16. CASE UNCHANGED vars
    BY <2>0, <2>16, UnchangedKeepsLog DEF vars
  <2> QED BY <2>1, <2>2, <2>3, <2>4, <2>5, <2>6, <2>7, <2>8, <2>9, <2>10, <2>11, <2>12,
             <2>13, <2>14, <2>15, <2>16 DEF Next
<1>3. LogInv => LogKeepsLatest
  BY DEF LogInv
<1> QED BY <1>1, <1>2, <1>3, PTL DEF Spec

------------------------------------------------------------------------------
(* Items and padding. *)

\* The items of a row that is not refused.
GoodItems(e) == {v \in Items : IsItem(v, e) /\ ~IsTooLong(v, e)}

\* Such items fit the type.
LEMMA GoodItemsFit ==
  ASSUME NEW e \in ElementTypes
  PROVE  GoodItems(e) \subseteq Items /\ GoodItems(e) \subseteq ItemsFor(e)
BY DEF GoodItems, ItemsFor, IsItem

\* An item reads as what it was once the padding is cut off.
LEMMA PaddingIsCutOff ==
  ASSUME NEW t \in ColumnTypes, NEW v \in GoodItems(t.element)
  PROVE  ShownItem(Padded(v, t.element), t) = v
<1> DEFINE e == t.element
<1>0. e \in ElementTypes /\ v \in Items /\ IsItem(v, e) /\ ~IsTooLong(v, e) /\ e.width \in Nat
  BY DEF ColumnTypes, GoodItems, ElementTypes
<1>1. CASE v = NullItem
  BY <1>1 DEF ShownItem, Padded
<1>2. CASE v # NullItem
  <2>1. v \in Texts
    BY <1>0, <1>2 DEF Items
  <2> DEFINE s == Stored(v, e)
  <2>2. /\ s \in Texts /\ Len(v) \in Nat
        /\ Len(s) = IF e.width = 0 THEN Len(v) ELSE e.width
        /\ Len(s) >= Len(v)
        /\ \A i \in 1 .. Len(s) : s[i] = IF i <= Len(v) THEN v[i] ELSE Zero
    BY <1>0, <2>1, StoredIs
  <2>3. ShownItem(Padded(v, e), t) = Shown(s, e)
    BY <1>2, <2>2, NullIsNoText DEF ShownItem, Padded
  <2> HIDE DEF s
  <2>4. v \in Seq(Bytes) /\ s \in Seq(Bytes) /\ DOMAIN s = 1 .. Len(s) /\ Len(s) \in Nat
    BY <2>1, <2>2, LenProperties DEF Texts
  <2>5. CASE e.width = 0
    <3>1. \A i \in 1 .. Len(s) : s[i] = v[i]
      BY <2>2, <2>5
    <3>2. s = v
      BY <2>2, <2>4, <2>5, <3>1, SeqEqual
    <3> QED BY <2>3, <2>5, <3>2 DEF Shown
  <2>6. CASE e.width # 0
    <3> DEFINE Z == {0} \cup {i \in DOMAIN s : s[i] # Zero}
    <3>1. Max(Z) = Len(v)
      <4>1. Z \in SUBSET Int
        BY <2>4
      <4>2. Len(v) \in Z
        <5>1. CASE v = << >>
          BY <5>1
        <5>2. CASE v # << >>
          <6>1. v[Len(v)] # Zero
            BY <1>0, <1>2, <2>6, <5>2 DEF IsItem
          <6>2. Len(v) # 0
            BY <2>4, <5>2, EmptySeq
          <6>3. Len(v) \in 1 .. Len(s)
            BY <2>2, <2>4, <6>2
          <6> QED BY <2>2, <2>4, <6>1, <6>3
        <5> QED BY <5>1, <5>2
      <4>3. \A i \in Z : i <= Len(v)
        BY <2>2, <2>4
      <4> HIDE DEF Z
      <4> QED BY <4>1, <4>2, <4>3, MaxIsGreatest
    <3>2. Shown(s, e) = SubSeq(s, 1, Len(v))
      BY <2>6, <3>1 DEF Shown
    <3> HIDE DEF Z
    <3> DEFINE k == Len(v)
    <3>3. k \in 0 .. Len(s)
      BY <2>2, <2>4
    <3>4. /\ SubSeq(s, 1, Len(v)) \in Seq(Bytes) /\ Len(SubSeq(s, 1, Len(v))) = Len(v)
          /\ \A i \in 1 .. Len(v) : SubSeq(s, 1, Len(v))[i] = s[i]
      <4> HIDE DEF k
      <4>1. /\ SubSeq(s, 1, k) \in Seq(Bytes) /\ Len(SubSeq(s, 1, k)) = k
            /\ \A i \in 1 .. k : SubSeq(s, 1, k)[i] = s[i]
        BY <2>4, <3>3, PrefixIs
      <4> QED BY <4>1 DEF k
    <3>5. \A i \in 1 .. Len(v) : s[i] = v[i]
      BY <2>2, <2>4
    <3>6. SubSeq(s, 1, Len(v)) = v
      BY <2>4, <3>4, <3>5, SeqEqual
    <3> QED BY <2>3, <3>2, <3>6
  <2> QED BY <2>5, <2>6
<1> QED BY <1>1, <1>2

------------------------------------------------------------------------------
(* A column of a type that holds some rows. *)

\* The rows of a type that is an array, or none, of such items.
GoodRows(t) == IF t.array THEN Seq(GoodItems(t.element)) ELSE GoodItems(t.element)

\* The elements of some rows: those of arrays are one behind the other.
ElementsOf(part, t) == IF t.array THEN FlattenSeq(part) ELSE part

\* Where the rows of an array column end among its elements.
EndsOf(part) == [r \in DOMAIN part |-> EndOf(part, r)]

\* A column of a type holds some rows: its data reads as their elements, in a column
\* that agrees, and its offsets are where the rows end.
Holds(col, part, t) ==
  /\ col = [array |-> t.array, data |-> col.data, offsets |-> col.offsets]
  /\ col.data \in Columns /\ col.data.type = t.element /\ PlacesAgree(col.data)
  /\ Content(col.data) = PaddedAll(ElementsOf(part, t), t.element)
  /\ col.offsets = IF t.array THEN EndsOf(part) ELSE << >>

\* The elements of rows that no column refuses are items of the type.
LEMMA ElementsAreItems ==
  ASSUME NEW t \in ColumnTypes, NEW part \in Seq(GoodRows(t))
  PROVE  /\ t.element \in ElementTypes
         /\ ElementsOf(part, t) \in Seq(GoodItems(t.element))
         /\ ElementsOf(part, t) \in Seq(Items)
         /\ ElementsOf(part, t) \in Seq(ItemsFor(t.element))
<1>1. t.element \in ElementTypes
  BY DEF ColumnTypes
<1>2. ElementsOf(part, t) \in Seq(GoodItems(t.element))
  BY FlattenType DEF ElementsOf, GoodRows
<1> QED BY <1>1, <1>2, GoodItemsFit, SeqMonotonic

\* The ends are a sequence as long as the rows, and the server and the client
\* read them as such.
LEMMA EndsAre ==
  ASSUME NEW A, NEW part \in Seq(Seq(A))
  PROVE  /\ EndsOf(part) \in Seq(Nat) /\ Len(EndsOf(part)) = Len(part)
         /\ DOMAIN EndsOf(part) = 1 .. Len(part)
         /\ \A r \in 1 .. Len(part) : EndsOf(part)[r] = EndOf(part, r)
         /\ \A r \in 0 .. Len(part) : GetOffset(EndsOf(part), r) = EndOf(part, r)
<1>1. Len(part) \in Nat /\ DOMAIN part = 1 .. Len(part)
  BY LenProperties
<1>2. \A r \in 0 .. Len(part) : EndOf(part, r) \in Nat
  <2>1. TAKE r \in 0 .. Len(part)
  <2>2. Len(part) \in r .. Len(part)
    BY <1>1
  <2> QED BY <2>2, EndsInOrder
<1>3. EndOf(part, 0) = 0
  <2>1. 0 \in 0 .. Len(part) /\ Len(part) \in 0 .. Len(part)
    BY <1>1
  <2> QED BY <2>1, EndsInOrder
<1>4. EndsOf(part) \in [1 .. Len(part) -> Nat]
  BY <1>1, <1>2 DEF EndsOf
<1>5. EndsOf(part) \in Seq(Nat) /\ Len(EndsOf(part)) = Len(part) /\ DOMAIN EndsOf(part) = 1 .. Len(part)
  <2> DEFINE f == EndsOf(part)
  <2> DEFINE n == Len(part)
  <2>1. n \in Nat /\ f \in [1 .. n -> Nat]
    BY <1>1, <1>4
  <2> HIDE DEF f, n
  <2>2. f \in Seq(Nat) /\ Len(f) = n /\ DOMAIN f = 1 .. n
    BY <2>1, FunctionIsSeq
  <2> QED BY <2>2 DEF f, n
<1>6. \A r \in 1 .. Len(part) : EndsOf(part)[r] = EndOf(part, r)
  BY <1>1 DEF EndsOf
<1>7. \A r \in 0 .. Len(part) : GetOffset(EndsOf(part), r) = EndOf(part, r)
  BY <1>1, <1>3, <1>6 DEF GetOffset
<1> QED BY <1>5, <1>6, <1>7

\* What a column that holds some rows is.
LEMMA HoldingColumn ==
  ASSUME NEW t \in ColumnTypes, NEW part \in Seq(GoodRows(t)), NEW col, Holds(col, part, t)
  PROVE  /\ Rows(col) = Len(part) /\ OffsetsAgree(col) /\ PlacesAgree(col.data)
         /\ col.array = t.array
         /\ Size(col.data) = Len(ElementsOf(part, t))
         /\ Len(Content(col.data)) = Len(ElementsOf(part, t))
<1> DEFINE els == ElementsOf(part, t)
<1>1. /\ t.element \in ElementTypes /\ els \in Seq(Items) /\ Len(els) \in Nat
  BY ElementsAreItems, LenProperties
<1>2. Size(col.data) = Len(els) /\ Len(Content(col.data)) = Len(els)
  BY <1>1, ContentSize, PaddedAllIs DEF Holds
<1>3. col.array = t.array /\ PlacesAgree(col.data)
  BY DEF Holds
<1>4. CASE ~t.array
  <2>1. els = part
    BY <1>4 DEF ElementsOf
  <2> QED BY <1>2, <1>3, <1>4, <2>1 DEF Rows, OffsetsAgree
<1>5. CASE t.array
  <2> DEFINE A == GoodItems(t.element)
  <2>1. part \in Seq(Seq(A)) /\ els = FlattenSeq(part) /\ col.offsets = EndsOf(part)
    BY <1>5 DEF GoodRows, ElementsOf, Holds
  <2>2. Len(part) \in Nat
    BY LenProperties
  <2> HIDE DEF A, els
  <2>3. /\ Len(col.offsets) = Len(part) /\ DOMAIN col.offsets = 1 .. Len(part)
        /\ \A r \in 1 .. Len(part) : col.offsets[r] = EndOf(part, r)
        /\ \A r \in 0 .. Len(part) : GetOffset(col.offsets, r) = EndOf(part, r)
    BY <2>1, EndsAre
  <2>4. \A i, j \in DOMAIN col.offsets : i <= j => col.offsets[i] <= col.offsets[j]
    <3> SUFFICES ASSUME NEW i \in 1 .. Len(part), NEW j \in 1 .. Len(part), i <= j
                 PROVE  EndOf(part, i) <= EndOf(part, j)
      BY <2>3
    <3>1. i \in 0 .. Len(part) /\ j \in i .. Len(part)
      BY <2>2
    <3> QED BY <2>1, <3>1, EndsInOrder
  <2>5. GetOffset(col.offsets, Len(col.offsets)) = Len(els)
    <3>1. Len(part) \in 0 .. Len(part) /\ Len(part) \in Len(part) .. Len(part)
      BY <2>2
    <3> QED BY <2>1, <2>3, <3>1, EndsInOrder
  <2>6. Rows(col) = Len(part)
    BY <1>3, <1>5, <2>3 DEF Rows
  <2>7. OffsetsAgree(col)
    BY <1>2, <2>4, <2>5 DEF OffsetsAgree
  <2> QED BY <1>2, <1>3, <2>6, <2>7 DEF els
<1> QED BY <1>4, <1>5

\* A new column holds no row.
LEMMA NewHoldsNothing ==
  ASSUME NEW t \in ColumnTypes
  PROVE  Holds(createColumn(t), << >>, t)
<1>1. t.element \in ElementTypes
  BY DEF ColumnTypes
<1> DEFINE f == Fresh(t.element)
<1>2. f \in Columns /\ f.type = t.element /\ PlacesAgree(f) /\ Content(f) = << >>
  BY <1>1, FreshAgrees
<1> HIDE DEF f
<1>3. createColumn(t) = [array |-> t.array, data |-> f, offsets |-> << >>]
  BY DEF createColumn, f
<1>4. ElementsOf(<< >>, t) = << >>
  BY FlattenEmpty DEF ElementsOf
<1>5. EndsOf(<< >>) = << >> /\ PaddedAll(<< >>, t.element) = << >>
  BY DEF EndsOf, PaddedAll
<1>6. /\ createColumn(t).array = t.array /\ createColumn(t).data = f
      /\ createColumn(t).offsets = << >>
  BY <1>3
<1> QED BY <1>2, <1>3, <1>4, <1>5, <1>6 DEF Holds

\* A row behind the others.
LEMMA RowBehind ==
  ASSUME NEW t \in ColumnTypes, NEW part \in Seq(GoodRows(t)), NEW row \in GoodRows(t)
  PROVE  /\ Append(part, row) \in Seq(GoodRows(t)) /\ Len(Append(part, row)) = Len(part) + 1
         /\ ~t.array => ElementsOf(Append(part, row), t) = Append(ElementsOf(part, t), row)
         /\ t.array => ElementsOf(Append(part, row), t) = ElementsOf(part, t) \o row
<1>1. Append(part, row) \in Seq(GoodRows(t)) /\ Len(Append(part, row)) = Len(part) + 1
  BY AppendProperties
<1>2. t.array => ElementsOf(Append(part, row), t) = ElementsOf(part, t) \o row
  <2>1. SUFFICES ASSUME t.array PROVE FlattenSeq(Append(part, row)) = FlattenSeq(part) \o row
    BY DEF ElementsOf
  <2> DEFINE A == GoodItems(t.element)
  <2>2. part \in Seq(Seq(A)) /\ row \in Seq(A)
    BY <2>1 DEF GoodRows
  <2> HIDE DEF A
  <2> QED BY <2>2, FlattenAppend
<1> QED BY <1>1, <1>2 DEF ElementsOf

\* The fields of a column that a row is added to.
IsArrayColumn(col) == col = [array |-> col.array, data |-> col.data, offsets |-> col.offsets]

\* A column whose data and offsets change.
LEMMA ColumnWith ==
  ASSUME NEW col, NEW d, NEW o, NEW after, IsArrayColumn(col),
         after = [col EXCEPT !.data = d, !.offsets = o]
  PROVE  after = [array |-> col.array, data |-> d, offsets |-> o]
BY DEF IsArrayColumn

\* A cell of a column that is no array.
LEMMA CellIsAdded ==
  ASSUME NEW t \in ColumnTypes, ~t.array, NEW part \in Seq(GoodRows(t)),
         NEW row \in GoodRows(t), NEW col, Holds(col, part, t)
  PROVE  Holds([col EXCEPT !.data = AppendItems(col.data, <<row>>)], Append(part, row), t)
<1> DEFINE e == t.element
<1> DEFINE d == AppendItems(col.data, <<row>>)
<1> DEFINE after == [col EXCEPT !.data = d]
<1> DEFINE els == ElementsOf(part, t)
<1> DEFINE p == PaddedAll(els, e)
<1>1. /\ e \in ElementTypes /\ els \in Seq(Items) /\ p \in Seq(Items)
      /\ row \in Items /\ <<row>> \in Seq(ItemsFor(e)) /\ <<row>> \in Seq(Items)
  <2>1. e \in ElementTypes /\ els \in Seq(Items)
    BY ElementsAreItems
  <2>2. row \in GoodItems(e)
    BY DEF GoodRows
  <2>3. p \in Seq(Items)
    BY <2>1, PaddedAllIs
  <2>4. row \in Items /\ row \in ItemsFor(e)
    BY <2>1, <2>2, GoodItemsFit
  <2> QED BY <2>1, <2>3, <2>4
<1>2. /\ col.data \in Columns /\ PlacesAgree(col.data) /\ col.data.type = e
      /\ Content(col.data) = p /\ col.offsets = << >>
      /\ col = [array |-> t.array, data |-> col.data, offsets |-> col.offsets]
  BY DEF Holds
<1> HIDE DEF e, els, p
<1>3. /\ d \in Columns /\ PlacesAgree(d) /\ d.type = e
      /\ Content(d) = p \o PaddedAll(<<row>>, e)
  <2>1. /\ d \in Columns /\ PlacesAgree(d) /\ d.type = col.data.type
        /\ Content(d) = Content(col.data) \o PaddedAll(<<row>>, col.data.type)
    BY <1>1, <1>2, AppendsAddItems
  <2> HIDE DEF d
  <2> QED BY <1>2, <2>1
<1>4. Content(d) = PaddedAll(ElementsOf(Append(part, row), t), e)
  <2>1. ElementsOf(Append(part, row), t) = Append(els, row)
    BY RowBehind DEF els
  <2>2. PaddedAll(Append(els, row), e) = Append(p, Padded(row, e))
    BY <1>1, PaddedAllAppend DEF p
  <2>3. PaddedAll(<<row>>, e) = <<Padded(row, e)>>
    BY DEF PaddedAll
  <2>4. Padded(row, e) \in Items
    BY <1>1, PaddedIsItem
  <2>5. Append(p, Padded(row, e)) = p \o <<Padded(row, e)>>
    BY <1>1, <2>4, AppendIsConcat
  <2> HIDE DEF d
  <2> QED BY <1>3, <2>1, <2>2, <2>3, <2>5
<1> HIDE DEF d
<1>5. /\ after = [array |-> t.array, data |-> d, offsets |-> << >>]
  BY <1>2
<1> HIDE DEF after
<1>6. after.data = d /\ after.offsets = << >>
  BY <1>5
<1> QED BY <1>3, <1>4, <1>5, <1>6 DEF Holds, e, d, after

\* A row of an array column: its elements behind the others, and where they end.
LEMMA ArrayIsAdded ==
  ASSUME NEW t \in ColumnTypes, t.array, NEW part \in Seq(GoodRows(t)),
         NEW row \in GoodRows(t), NEW col, Holds(col, part, t),
         NEW filled \in Columns, PlacesAgree(filled),
         Content(filled) = PaddedAll(row, t.element)
  PROVE  Holds(AppendAsColumn(col, filled), Append(part, row), t)
<1> DEFINE e == t.element
<1> DEFINE A == GoodItems(e)
<1> DEFINE c == PaddedAll(row, e)
<1> DEFINE d == AppendItems(col.data, c)
<1> DEFINE o == AddOffset(col.offsets, Size(filled))
<1> DEFINE after == [col EXCEPT !.data = d, !.offsets = o]
<1> DEFINE els == ElementsOf(part, t)
<1> DEFINE p == PaddedAll(els, e)
<1> DEFINE more == Append(part, row)
<1>1. /\ e \in ElementTypes /\ els \in Seq(Items) /\ p \in Seq(Items) /\ els = FlattenSeq(part)
      /\ row \in Seq(A) /\ row \in Seq(ItemsFor(e)) /\ row \in Seq(Items)
      /\ part \in Seq(Seq(A))
  <2>1. e \in ElementTypes /\ els \in Seq(Items)
    BY ElementsAreItems
  <2>2. row \in Seq(A) /\ part \in Seq(Seq(A)) /\ els = FlattenSeq(part)
    BY DEF GoodRows, ElementsOf
  <2>3. p \in Seq(Items)
    BY <2>1, PaddedAllIs
  <2>4. row \in Seq(Items) /\ row \in Seq(ItemsFor(e))
    BY <2>1, <2>2, GoodItemsFit, SeqMonotonic
  <2> QED BY <2>1, <2>2, <2>3, <2>4
<1>2. /\ col.data \in Columns /\ PlacesAgree(col.data) /\ col.data.type = e
      /\ Content(col.data) = p /\ col.offsets = EndsOf(part)
      /\ col = [array |-> t.array, data |-> col.data, offsets |-> col.offsets]
  BY DEF Holds
<1>3. AppendAsColumn(col, filled) = after
  BY DEF AppendAsColumn, AppendColumn
<1> HIDE DEF e, els, p, A
<1>4. c \in Seq(ItemsFor(e)) /\ PaddedAll(c, e) = c /\ Len(c) = Len(row)
  BY <1>1, PaddedAllFits, PaddedAllIs
<1> HIDE DEF c
<1>5. /\ d \in Columns /\ PlacesAgree(d) /\ d.type = e
      /\ Content(d) = p \o c
  <2>1. /\ d \in Columns /\ PlacesAgree(d) /\ d.type = col.data.type
        /\ Content(d) = Content(col.data) \o PaddedAll(c, col.data.type)
    BY <1>2, <1>4, AppendsAddItems
  <2> HIDE DEF d
  <2> QED BY <1>2, <1>4, <2>1
<1>6. Content(d) = PaddedAll(ElementsOf(more, t), e)
  <2>1. ElementsOf(more, t) = els \o row
    BY RowBehind DEF els
  <2>2. PaddedAll(els \o row, e) = p \o c
    BY <1>1, PaddedAllConcat DEF p, c
  <2> HIDE DEF d, more
  <2> QED BY <1>5, <2>1, <2>2
<1> HIDE DEF d
<1>7. /\ more \in Seq(Seq(A)) /\ Len(more) = Len(part) + 1 /\ more[Len(part) + 1] = row
      /\ Len(part) \in Nat
  BY <1>1, AppendProperties, LenProperties
<1>8. \A r \in 0 .. Len(part) : EndOf(more, r) = EndOf(part, r)
  BY <1>1, EndOfAppended
<1> HIDE DEF more
<1>9. EndOf(more, Len(part) + 1) = EndOf(part, Len(part)) + Len(row)
  <2> DEFINE r == Len(part) + 1
  <2>1. r \in 1 .. Len(more) /\ r - 1 = Len(part) /\ Len(part) \in 0 .. Len(part) /\ more[r] = row
    BY <1>7
  <2> HIDE DEF r
  <2>2. EndOf(more, r) = EndOf(more, r - 1) + Len(more[r])
    BY <1>7, <2>1, EndsCutParts
  <2> QED BY <1>8, <2>1, <2>2 DEF r
<1>10. Size(filled) = Len(row)
  BY <1>4, ContentSize DEF c, e
<1>11. o = EndsOf(more)
  <2>1. /\ EndsOf(part) \in Seq(Nat) /\ Len(EndsOf(part)) = Len(part)
        /\ \A r \in 1 .. Len(part) : EndsOf(part)[r] = EndOf(part, r)
        /\ \A r \in 0 .. Len(part) : GetOffset(EndsOf(part), r) = EndOf(part, r)
    BY <1>1, EndsAre
  <2>2. /\ EndsOf(more) \in Seq(Nat) /\ Len(EndsOf(more)) = Len(part) + 1
        /\ \A r \in 1 .. Len(part) + 1 : EndsOf(more)[r] = EndOf(more, r)
    BY <1>7, EndsAre
  <2> DEFINE f == EndsOf(part)
  <2> DEFINE g == EndsOf(more)
  <2> DEFINE end == EndOf(more, Len(part) + 1)
  <2> DEFINE h == Append(f, end)
  <2>3. o = h
    <3>1. Len(part) \in 0 .. Len(part)
      BY <1>7
    <3>2. GetOffset(f, Len(f)) = EndOf(part, Len(part))
      BY <2>1, <3>1
    <3> HIDE DEF f
    <3> QED BY <1>2, <1>9, <1>10, <3>2 DEF AddOffset, f
  <2>4. end \in Nat
    <3>1. Len(part) + 1 \in 1 .. Len(part) + 1
      BY <1>7
    <3>2. EndsOf(more)[Len(part) + 1] \in Nat
      BY <1>7, <2>2, <3>1, ElementOfSeq
    <3> QED BY <2>2, <3>1, <3>2
  <2> HIDE DEF f, g, end
  <2>5. /\ h \in Seq(Nat) /\ Len(h) = Len(f) + 1
        /\ \A r \in 1 .. Len(f) : h[r] = f[r]
        /\ h[Len(f) + 1] = end
    <3>1. f \in Seq(Nat)
      BY <2>1 DEF f
    <3> QED BY <2>4, <3>1, AppendProperties
  <2>6. ASSUME NEW r \in 1 .. Len(part) + 1 PROVE h[r] = g[r]
    <3>1. g[r] = EndOf(more, r)
      BY <2>2 DEF g
    <3>2. CASE r = Len(part) + 1
      BY <2>1, <2>5, <3>1, <3>2 DEF end, f
    <3>3. CASE r \in 1 .. Len(part)
      <4>1. r \in 0 .. Len(part)
        BY <3>3
      <4>2. h[r] = EndOf(part, r)
        BY <2>1, <2>5, <3>3 DEF f
      <4> QED BY <1>8, <3>1, <4>1, <4>2
    <3>4. r = Len(part) + 1 \/ r \in 1 .. Len(part)
      BY <1>7
    <3> QED BY <3>2, <3>3, <3>4
  <2>7. Len(h) = Len(part) + 1 /\ g \in Seq(Nat) /\ Len(g) = Len(part) + 1
    BY <2>1, <2>2, <2>5 DEF f, g
  <2> HIDE DEF h
  <2>8. h = g
    BY <2>5, <2>6, <2>7, SeqEqual
  <2> QED BY <2>3, <2>8 DEF g
<1> HIDE DEF o
<1>12. after = [array |-> t.array, data |-> d, offsets |-> o]
  <2>1. IsArrayColumn(col) /\ col.array = t.array
    <3> DEFINE x == col.data
    <3> DEFINE y == col.offsets
    <3>1. col = [array |-> t.array, data |-> x, offsets |-> y]
      BY <1>2
    <3> HIDE DEF x, y
    <3>2. col.array = t.array
      BY <3>1
    <3> QED BY <3>1, <3>2 DEF IsArrayColumn, x, y
  <2>2. after = [col EXCEPT !.data = d, !.offsets = o]
    OBVIOUS
  <2> HIDE DEF after
  <2> QED BY <2>1, <2>2, ColumnWith
<1> HIDE DEF after
<1>13. after.data = d /\ after.offsets = o
  BY <1>12
<1>14. Holds(after, more, t)
  BY <1>5, <1>6, <1>11, <1>12, <1>13 DEF Holds, e
<1> QED BY <1>3, <1>14 DEF more

\* A row of the script of which nothing is refused.
LEMMA RowIsGood ==
  ASSUME NEW t \in Types, NEW row \in RowsFor(t)
  PROVE  /\ t \in ColumnTypes
         /\ t.array => row \in Seq(Items) /\ (TooLong(row, t.element) = {} => row \in GoodRows(t))
         /\ ~t.array => row \in Items /\ (~IsTooLong(row, t.element) => row \in GoodRows(t))
<1>1. t \in ColumnTypes /\ IsRow(row, t)
  BY TypesAreTypes, RowsAreRows
<1>2. CASE t.array
  <2>1. row \in Seq(Items) /\ \A i \in DOMAIN row : IsItem(row[i], t.element)
    BY <1>1, <1>2 DEF IsRow
  <2>2. ASSUME TooLong(row, t.element) = {} PROVE row \in Seq(GoodItems(t.element))
    <3>1. DOMAIN row = 1 .. Len(row) /\ Len(row) \in Nat /\ \A i \in DOMAIN row : row[i] \in Items
      BY <2>1, LenProperties
    <3>2. \A i \in 1 .. Len(row) : row[i] \in GoodItems(t.element)
      BY <2>1, <2>2, <3>1 DEF TooLong, GoodItems
    <3>3. row \in [1 .. Len(row) -> GoodItems(t.element)]
      BY <2>1, <3>1, <3>2
    <3> QED BY <3>1, <3>3
  <2> QED BY <1>1, <1>2, <2>1, <2>2 DEF GoodRows
<1>3. CASE ~t.array
  BY <1>1, <1>3 DEF IsRow, IsItem, GoodRows, GoodItems
<1> QED BY <1>1, <1>2, <1>3

------------------------------------------------------------------------------
(* What the server reads of a column. *)

\* What the server makes of a row of a saved column.
LEMMA SavedItem ==
  ASSUME type \in ColumnTypes, NEW c \in Columns, c.type = type.element, PlacesAgree(c),
         NEW n \in 1 .. Size(c)
  PROVE  ServerItem(SaveBody(c), n) = ShownItem(Content(c)[n], type)
<1> DEFINE e == type.element
<1> DEFINE m == c.index[n] + 1
<1>1. /\ c.dict \in Seq(Entries) /\ DOMAIN c.dict = 1 .. Len(c.dict) /\ Len(c.dict) \in Nat
      /\ DOMAIN c.index = 1 .. Size(c) /\ DOMAIN Content(c) = 1 .. Size(c)
      /\ c.index[n] \in Nat /\ c.index[n] < Len(c.dict)
  <2>1. c.dict \in Seq(Entries) /\ c.index \in Seq(Nat)
    BY ColumnFields DEF Entries
  <2>2. DOMAIN c.index = 1 .. Size(c) /\ DOMAIN Content(c) = 1 .. Size(c)
    BY ContentSize
  <2>3. c.index[n] \in Nat
    BY <2>1, ElementOfSeq DEF Size
  <2> QED BY <2>1, <2>2, <2>3, LenProperties DEF PlacesAgree
<1>2. m \in 1 .. Len(c.dict) /\ (m = 1 <=> c.index[n] = 0)
  BY <1>1
<1>3. c.dict[m] \in Entries /\ c.dict[m].text \in Texts /\ (c.dict[m].null <=> e.nullable /\ m = 1)
  <2>1. c.dict[m] \in Entries
    BY <1>1, <1>2, ElementOfSeq
  <2>2. c.dict[m].null <=> e.nullable /\ m = 1
    BY <1>1, <1>2 DEF PlacesAgree
  <2> QED BY <2>1, <2>2 DEF Entries
<1>4. SaveBody(c).index = c.index /\ SaveBody(c).keys[m] = c.dict[m].text
  BY <1>1, <1>2 DEF SaveBody
<1>5. ServerItem(SaveBody(c), n) = IF e.nullable /\ m = 1 THEN NullItem ELSE Shown(c.dict[m].text, e)
  BY <1>2, <1>4 DEF ServerItem
<1>6. Content(c)[n] = IF e.nullable /\ m = 1 THEN NullItem ELSE c.dict[m].text
  <2>1. Content(c)[n] = GetItem(c, n)
    BY <1>1 DEF Content
  <2>2. CASE e.nullable /\ m = 1
    BY <1>2, <2>1, <2>2 DEF GetItem
  <2>3. CASE ~(e.nullable /\ m = 1)
    <3>1. GetItem(c, n) = DictionaryItem(c, c.index[n])
      BY <1>2, <2>3 DEF GetItem
    <3>2. ~c.dict[m].null
      BY <1>3, <2>3
    <3> QED BY <2>1, <2>3, <3>1, <3>2 DEF DictionaryItem
  <2> QED BY <2>2, <2>3
<1> HIDE DEF m
<1> QED BY <1>3, <1>5, <1>6, NullIsNoText DEF ShownItem

\* The rows of a column that holds some elements read as the elements.
LEMMA HeldItem ==
  ASSUME NEW t \in ColumnTypes, NEW part \in Seq(GoodRows(t)), NEW col, Holds(col, part, t),
         NEW n \in 1 .. Len(ElementsOf(part, t))
  PROVE  /\ Content(col.data)[n] = Padded(ElementsOf(part, t)[n], t.element)
         /\ ShownItem(Content(col.data)[n], t) = ElementsOf(part, t)[n]
         /\ n \in 1 .. Size(col.data) /\ ElementsOf(part, t)[n] \in GoodItems(t.element)
<1> DEFINE els == ElementsOf(part, t)
<1>1. els \in Seq(GoodItems(t.element)) /\ els \in Seq(Items) /\ t.element \in ElementTypes
  BY ElementsAreItems
<1>2. els[n] \in GoodItems(t.element)
  BY <1>1, ElementOfSeq
<1>3. Content(col.data) = PaddedAll(els, t.element)
  BY DEF Holds
<1>4. Size(col.data) = Len(els)
  BY HoldingColumn
<1> HIDE DEF els
<1>5. Content(col.data)[n] = Padded(els[n], t.element)
  BY <1>1, <1>3, PaddedAllIs DEF els
<1> QED BY <1>2, <1>4, <1>5, PaddingIsCutOff DEF els

\* So does the server read each of them.
LEMMA ServerItems ==
  ASSUME type \in ColumnTypes, NEW part \in Seq(GoodRows(type)), NEW col, Holds(col, part, type),
         NEW n \in 1 .. Len(ElementsOf(part, type))
  PROVE  ServerItem(SaveBody(col.data), n) = ElementsOf(part, type)[n]
<1>1. n \in 1 .. Size(col.data) /\ ShownItem(Content(col.data)[n], type) = ElementsOf(part, type)[n]
  BY HeldItem
<1>2. col.data \in Columns /\ col.data.type = type.element /\ PlacesAgree(col.data)
  BY DEF Holds
<1> QED BY <1>1, <1>2, SavedItem

\* Where a row of an array column begins, and how long it is.
LEMMA RowOfEnds ==
  ASSUME NEW A, NEW part \in Seq(Seq(A)), NEW r \in 1 .. Len(part)
  PROVE  /\ GetOffset(EndsOf(part), r - 1) = EndOf(part, r - 1) /\ EndOf(part, r - 1) \in Nat
         /\ GetSize(EndsOf(part), r - 1) = Len(part[r]) /\ Len(part[r]) \in Nat
         /\ part[r] \in Seq(A) /\ EndOf(part, r - 1) + Len(part[r]) <= Len(FlattenSeq(part))
         /\ \A i \in 1 .. Len(part[r]) :
              /\ FlattenSeq(part)[EndOf(part, r - 1) + i] = part[r][i]
              /\ EndOf(part, r - 1) + i \in 1 .. Len(FlattenSeq(part))
<1>1. /\ EndOf(part, r - 1) \in Nat /\ part[r] \in Seq(A) /\ Len(part[r]) \in Nat
      /\ EndOf(part, r) = EndOf(part, r - 1) + Len(part[r])
      /\ EndOf(part, r) <= Len(FlattenSeq(part))
      /\ \A i \in 1 .. Len(part[r]) : FlattenSeq(part)[EndOf(part, r - 1) + i] = part[r][i]
  BY EndsCutParts
<1>2. r - 1 \in 0 .. Len(part) /\ r - 1 + 1 = r /\ Len(part) \in Nat
  BY LenProperties
<1>3. GetOffset(EndsOf(part), r - 1) = EndOf(part, r - 1) /\ EndsOf(part)[r] = EndOf(part, r)
  BY <1>2, EndsAre
<1>4. GetSize(EndsOf(part), r - 1) = Len(part[r])
  BY <1>1, <1>2, <1>3 DEF GetSize
<1>5. Len(FlattenSeq(part)) \in Nat
  BY FlattenType, LenProperties
<1> DEFINE N == Len(FlattenSeq(part))
<1> DEFINE b == EndOf(part, r - 1)
<1> DEFINE l == Len(part[r])
<1>6. b \in Nat /\ l \in Nat /\ N \in Nat /\ b + l <= N
  BY <1>1, <1>5
<1> HIDE DEF N, b, l
<1>7. \A i \in 1 .. l : b + i \in 1 .. N
  BY <1>6
<1> QED BY <1>1, <1>3, <1>4, <1>6, <1>7 DEF N, b, l

\* The server reads the rows that the column was built of.
LEMMA ServerReadsRows ==
  ASSUME type \in ColumnTypes, NEW part \in Seq(GoodRows(type)), NEW col, Holds(col, part, type)
  PROVE  ServerReads(SaveColumn(col)) = part
<1> DEFINE els == ElementsOf(part, type)
<1> DEFINE wire == SaveColumn(col)
<1>1. /\ col.array = type.array /\ Size(col.data) = Len(els) /\ Len(els) \in Nat
      /\ DOMAIN part = 1 .. Len(part) /\ Len(part) \in Nat
      /\ col.offsets = IF type.array THEN EndsOf(part) ELSE << >>
  <2>1. els \in Seq(Items)
    BY ElementsAreItems
  <2>2. Len(els) \in Nat
    BY <2>1, LenProperties
  <2>3. DOMAIN part = 1 .. Len(part) /\ Len(part) \in Nat
    BY LenProperties
  <2> QED BY <2>2, <2>3, HoldingColumn DEF Holds
<1>2. /\ wire.offsets = col.offsets
      /\ wire.data = IF type.array /\ Size(col.data) = 0 THEN NoData ELSE SaveBody(col.data)
  BY <1>1 DEF SaveColumn
<1>3. \A n \in 1 .. Len(els) : ServerItem(wire.data, n) = els[n]
  <2>1. TAKE n \in 1 .. Len(els)
  <2>2. wire.data = SaveBody(col.data)
    BY <1>1, <1>2
  <2> QED BY <2>2, ServerItems
<1> HIDE DEF wire, els
<1>4. CASE ~type.array
  <2>1. els = part
    BY <1>4 DEF els, ElementsOf
  <2>2. wire.data.index = col.data.index
    BY <1>2, <1>4 DEF SaveBody
  <2>3. DOMAIN col.data.index = 1 .. Size(col.data)
    <3>1. col.data \in Columns /\ PlacesAgree(col.data)
      BY DEF Holds
    <3> QED BY <3>1, ContentSize
  <2>4. ServerReads(wire) = [r \in 1 .. Len(part) |-> ServerItem(wire.data, r)]
    BY <1>1, <1>4, <2>1, <2>2, <2>3 DEF ServerReads
  <2>5. ServerReads(wire) = [r \in 1 .. Len(part) |-> part[r]]
    BY <1>3, <2>1, <2>4
  <2>6. part = [r \in 1 .. Len(part) |-> part[r]]
    BY <1>1
  <2> QED BY <2>5, <2>6 DEF wire
<1>5. CASE type.array
  <2> DEFINE A == GoodItems(type.element)
  <2>1. part \in Seq(Seq(A)) /\ els = FlattenSeq(part) /\ wire.offsets = EndsOf(part)
    BY <1>1, <1>2, <1>5 DEF els, ElementsOf, GoodRows
  <2> HIDE DEF A
  <2>2. DOMAIN EndsOf(part) = 1 .. Len(part)
    BY <2>1, EndsAre
  <2>3. ServerReads(wire) =
          [r \in 1 .. Len(part) |->
             [i \in 1 .. GetSize(EndsOf(part), r - 1) |->
                ServerItem(wire.data, GetOffset(EndsOf(part), r - 1) + i)]]
    BY <1>5, <2>1, <2>2 DEF ServerReads
  <2>4. ASSUME NEW r \in 1 .. Len(part)
        PROVE  [i \in 1 .. GetSize(EndsOf(part), r - 1) |->
                  ServerItem(wire.data, GetOffset(EndsOf(part), r - 1) + i)] = part[r]
    <3> DEFINE b == GetOffset(EndsOf(part), r - 1)
    <3> DEFINE l == GetSize(EndsOf(part), r - 1)
    <3>1. /\ b = EndOf(part, r - 1) /\ l = Len(part[r]) /\ part[r] \in Seq(A)
          /\ \A i \in 1 .. Len(part[r]) :
               /\ FlattenSeq(part)[EndOf(part, r - 1) + i] = part[r][i]
               /\ EndOf(part, r - 1) + i \in 1 .. Len(FlattenSeq(part))
      BY <2>1, RowOfEnds
    <3> HIDE DEF b, l
    <3>2. \A i \in 1 .. l : els[b + i] = part[r][i] /\ b + i \in 1 .. Len(els)
      BY <2>1, <3>1
    <3>3. \A i \in 1 .. l : ServerItem(wire.data, b + i) = part[r][i]
      BY <1>3, <3>2
    <3>4. part[r] = [i \in 1 .. l |-> part[r][i]]
      BY <3>1, LenProperties
    <3>5. [i \in 1 .. l |-> ServerItem(wire.data, b + i)] = [i \in 1 .. l |-> part[r][i]]
      BY <3>3
    <3> QED BY <3>4, <3>5 DEF b, l
  <2>5. ServerReads(wire) = [r \in 1 .. Len(part) |-> part[r]]
    BY <2>3, <2>4
  <2>6. part = [r \in 1 .. Len(part) |-> part[r]]
    BY <1>1
  <2> QED BY <2>5, <2>6 DEF wire
<1> QED BY <1>4, <1>5

------------------------------------------------------------------------------
(* What the client loads of what the server writes. *)

\* The place that the server gives an item.
PlaceOf(keys, v, e) ==
  IF v = NullItem THEN 0 ELSE Max({i \in DOMAIN keys : keys[i] = Stored(v, e)}) - 1

\* The dictionary that the server writes for an order of the texts.
KeysOf(order, e) ==
  (IF e.nullable THEN <<Stored(<< >>, e), Stored(<< >>, e)>> ELSE <<Stored(<< >>, e)>>) \o order

\* The server's dictionary is one, and has every item.
LEMMA ServerKeys ==
  ASSUME NEW e \in ElementTypes, NEW els \in Seq(GoodItems(e)),
         NEW order \in SetToSeqs({Stored(v, e) : v \in ToSet(els) \ {NullItem, << >>}})
  PROVE  /\ KeysOf(order, e) \in GoodKeys(e)
         /\ e.nullable => 2 \in DOMAIN KeysOf(order, e) /\ KeysOf(order, e)[2] = Stored(<< >>, e)
         /\ \A n \in 1 .. Len(els) : els[n] # NullItem =>
              \E i \in DOMAIN KeysOf(order, e) : KeysOf(order, e)[i] = Stored(els[n], e)
<1> DEFINE S == {Stored(v, e) : v \in ToSet(els) \ {NullItem, << >>}}
<1> DEFINE D == {k \in Texts : Stored(k, e) = k /\ ~IsTooLong(k, e)}
<1> DEFINE x == Stored(<< >>, e)
<1> DEFINE first == IF e.nullable THEN <<x, x>> ELSE <<x>>
<1> DEFINE keys == KeysOf(order, e)
<1>1. Len(els) \in Nat /\ DOMAIN els = 1 .. Len(els) /\ \A n \in 1 .. Len(els) : els[n] \in GoodItems(e)
  BY LenProperties
<1>2. \A n \in 1 .. Len(els) : els[n] # NullItem => Stored(els[n], e) \in D
  <2> SUFFICES ASSUME NEW n \in 1 .. Len(els), els[n] # NullItem PROVE Stored(els[n], e) \in D
    OBVIOUS
  <2>1. els[n] \in Items /\ ~IsTooLong(els[n], e)
    BY <1>1 DEF GoodItems
  <2> QED BY <2>1, StoredIsStored
<1>3. x \in D
  <2>1. << >> \in Items /\ << >> # NullItem /\ ~IsTooLong(<< >>, e)
    BY EmptyIsText, NullIsNoText DEF Items, IsTooLong, ElementTypes
  <2> QED BY <2>1, StoredIsStored
<1>4. S \in SUBSET D
  BY <1>1, <1>2 DEF ToSet
<1>5. IsFiniteSet(S)
  <2> DEFINE f == [n \in 1 .. Len(els) |-> Stored(els[n], e)]
  <2>1. DOMAIN f = 1 .. Len(els) /\ Len(els) \in Nat
    BY <1>1
  <2>2. \A k \in S : \E n \in 1 .. Len(els) : f[n] = k
    BY <1>1 DEF ToSet
  <2> HIDE DEF f, S
  <2> QED BY <2>1, <2>2, ValuesAreFinite
<1>6. /\ order \in Seq(S) /\ Len(order) \in Nat /\ DOMAIN order = 1 .. Len(order)
      /\ \A k \in S : \E i \in 1 .. Len(order) : order[i] = k
  <2> HIDE DEF S
  <2>1. order \in SetToSeqs(S)
    BY DEF S
  <2> QED BY <1>5, <2>1, OrderHasAll
<1>7. order \in Seq(D)
  <2> HIDE DEF S, D
  <2> QED BY <1>4, <1>6, SeqMonotonic
<1> HIDE DEF D
<1>8. first \in Seq(D) /\ Len(first) \in {1, 2} /\ first[1] = x
      /\ (e.nullable => Len(first) = 2 /\ first[2] = x)
  <2>1. CASE e.nullable
    BY <1>3, <2>1
  <2>2. CASE ~e.nullable
    BY <1>3, <2>2
  <2> QED BY <2>1, <2>2
<1>9. keys = first \o order
  BY DEF KeysOf
<1> HIDE DEF first, x
<1>10. /\ keys \in Seq(D) /\ Len(keys) = Len(first) + Len(order)
       /\ \A i \in 1 .. Len(first) + Len(order) :
            keys[i] = IF i <= Len(first) THEN first[i] ELSE order[i - Len(first)]
  BY <1>7, <1>8, <1>9, ConcatProperties
<1> HIDE DEF keys
<1>11. /\ Len(keys) \in Nat /\ Len(keys) > 0 /\ DOMAIN keys = 1 .. Len(keys)
       /\ \A i \in 1 .. Len(keys) : keys[i] \in D
       /\ keys[1] = x /\ (e.nullable => 2 \in 1 .. Len(keys) /\ keys[2] = x)
       /\ \A i \in 1 .. Len(order) :
             Len(first) + i \in 1 .. Len(keys) /\ keys[Len(first) + i] = order[i]
  <2>1. DOMAIN keys = 1 .. Len(keys) /\ \A i \in 1 .. Len(keys) : keys[i] \in D
    BY <1>10, LenProperties
  <2>2. Len(keys) \in Nat /\ Len(keys) > 0 /\ 1 \in 1 .. Len(keys)
        /\ (e.nullable => 2 \in 1 .. Len(keys)) /\ 1 <= Len(first) /\ (e.nullable => 2 <= Len(first))
    BY <1>6, <1>8, <1>10
  <2>3. keys[1] = x /\ (e.nullable => keys[2] = x)
    BY <1>8, <1>10, <2>2
  <2>4. ASSUME NEW i \in 1 .. Len(order)
        PROVE  Len(first) + i \in 1 .. Len(keys) /\ keys[Len(first) + i] = order[i]
    <3>1. /\ Len(first) + i \in 1 .. Len(first) + Len(order) /\ ~(Len(first) + i <= Len(first))
          /\ Len(first) + i - Len(first) = i
      BY <1>6, <1>8
    <3> QED BY <1>10, <3>1
  <2> QED BY <2>1, <2>2, <2>3, <2>4
<1>12. keys \in GoodKeys(e)
  <2>1. keys \in Seq(Texts)
    <3>1. D \subseteq Texts
      BY DEF D
    <3> QED BY <1>10, <3>1, SeqMonotonic
  <2>2. \A i \in DOMAIN keys : Stored(keys[i], e) = keys[i] /\ ~IsTooLong(keys[i], e)
    BY <1>11 DEF D
  <2> QED BY <1>11, <2>1, <2>2 DEF GoodKeys, x
<1>13. \A n \in 1 .. Len(els) : els[n] # NullItem => \E i \in DOMAIN keys : keys[i] = Stored(els[n], e)
  <2> SUFFICES ASSUME NEW n \in 1 .. Len(els), els[n] # NullItem
               PROVE  \E i \in DOMAIN keys : keys[i] = Stored(els[n], e)
    OBVIOUS
  <2>1. CASE els[n] = << >>
    <3>1. 1 \in DOMAIN keys /\ keys[1] = Stored(els[n], e)
      BY <1>11, <2>1 DEF x
    <3> QED BY <3>1
  <2>2. CASE els[n] # << >>
    <3>1. Stored(els[n], e) \in S
      BY <1>1, <2>2 DEF ToSet
    <3>2. PICK i \in 1 .. Len(order) : order[i] = Stored(els[n], e)
      <4> HIDE DEF S
      <4> QED BY <1>6, <3>1
    <3>3. Len(first) + i \in DOMAIN keys /\ keys[Len(first) + i] = Stored(els[n], e)
      BY <1>11, <3>2
    <3> QED BY <3>3
  <2> QED BY <2>1, <2>2
<1> QED BY <1>11, <1>12, <1>13 DEF keys, x

\* The places of the items are within a dictionary that has them, and stand for them.
LEMMA PlaceOfIs ==
  ASSUME NEW e \in ElementTypes, NEW keys \in GoodKeys(e), NEW v \in GoodItems(e),
         e.nullable => 2 \in DOMAIN keys /\ keys[2] = Stored(<< >>, e),
         v # NullItem => \E i \in DOMAIN keys : keys[i] = Stored(v, e)
  PROVE  /\ PlaceOf(keys, v, e) \in Nat /\ PlaceOf(keys, v, e) < Len(keys)
         /\ v = NullItem => e.nullable /\ PlaceOf(keys, v, e) = 0
         /\ v # NullItem => /\ keys[PlaceOf(keys, v, e) + 1] = Stored(v, e)
                            /\ e.nullable => PlaceOf(keys, v, e) # 0
<1>1. /\ DOMAIN keys = 1 .. Len(keys) /\ Len(keys) \in Nat /\ Len(keys) > 0
      /\ e.nullable => keys[1] = Stored(<< >>, e)
  BY LenProperties DEF GoodKeys
<1>2. CASE v = NullItem
  BY <1>1, <1>2 DEF PlaceOf, GoodItems, IsItem
<1>3. CASE v # NullItem
  <2> DEFINE T == {i \in DOMAIN keys : keys[i] = Stored(v, e)}
  <2> DEFINE m == Max(T)
  <2>1. T \in SUBSET (1 .. Len(keys)) /\ T # {}
    BY <1>1, <1>3
  <2>2. m \in T /\ \A y \in T : m >= y
    <3> HIDE DEF T
    <3> QED BY <1>1, <2>1, MaxIn
  <2>3. PlaceOf(keys, v, e) = m - 1
    BY <1>3 DEF PlaceOf
  <2>4. m \in 1 .. Len(keys) /\ keys[m] = Stored(v, e)
    BY <2>1, <2>2
  <2>5. e.nullable => m # 1
    <3> SUFFICES ASSUME e.nullable, m = 1 PROVE FALSE
      OBVIOUS
    <3>1. keys[2] = Stored(v, e) /\ 2 \in DOMAIN keys
      BY <1>1, <2>4
    <3>2. 2 \in T
      BY <3>1
    <3> HIDE DEF T, m
    <3> QED BY <2>2, <3>2
  <2> HIDE DEF T, m
  <2>6. PlaceOf(keys, v, e) + 1 = m
    BY <2>3, <2>4
  <2> QED BY <1>1, <1>3, <2>3, <2>4, <2>5, <2>6
<1> QED BY <1>2, <1>3

\* A loaded dictionary with an index reads as the items whose places the index has.
LEMMA LoadedReads ==
  ASSUME NEW e \in ElementTypes, NEW keys \in GoodKeys(e), NEW els \in Seq(GoodItems(e)),
         e.nullable => 2 \in DOMAIN keys /\ keys[2] = Stored(<< >>, e),
         \A n \in 1 .. Len(els) :
           els[n] # NullItem => \E i \in DOMAIN keys : keys[i] = Stored(els[n], e)
  PROVE  LET index == [n \in DOMAIN els |-> PlaceOf(keys, els[n], e)]
             c == LoadBody([keys |-> keys, index |-> index], e)
         IN  /\ c \in Columns /\ PlacesAgree(c) /\ c.type = e
             /\ Content(c) = PaddedAll(els, e)
<1> DEFINE index == [n \in DOMAIN els |-> PlaceOf(keys, els[n], e)]
<1> DEFINE c == LoadBody([keys |-> keys, index |-> index], e)
<1> DEFINE p == PaddedAll(els, e)
<1>1. /\ Len(els) \in Nat /\ DOMAIN els = 1 .. Len(els) /\ els \in Seq(Items)
      /\ \A n \in 1 .. Len(els) : els[n] \in GoodItems(e) /\ els[n] \in Items /\ ~IsTooLong(els[n], e)
  <2>1. els \in Seq(Items)
    BY GoodItemsFit, SeqMonotonic
  <2>2. /\ Len(els) \in Nat /\ DOMAIN els = 1 .. Len(els)
        /\ \A n \in 1 .. Len(els) : els[n] \in GoodItems(e)
    BY LenProperties
  <2> QED BY <2>1, <2>2 DEF GoodItems
<1>2. \A n \in 1 .. Len(els) :
        /\ PlaceOf(keys, els[n], e) \in Nat /\ PlaceOf(keys, els[n], e) < Len(keys)
        /\ els[n] = NullItem => e.nullable /\ PlaceOf(keys, els[n], e) = 0
        /\ els[n] # NullItem => /\ keys[PlaceOf(keys, els[n], e) + 1] = Stored(els[n], e)
                                /\ e.nullable => PlaceOf(keys, els[n], e) # 0
  <2> TAKE n \in 1 .. Len(els)
  <2>1. els[n] \in GoodItems(e)
    BY <1>1
  <2> QED BY <2>1, PlaceOfIs
<1>3. /\ index \in Seq(Nat) /\ Len(index) = Len(els) /\ DOMAIN index = 1 .. Len(els)
      /\ \A n \in 1 .. Len(els) : index[n] = PlaceOf(keys, els[n], e)
  <2>1. index \in [1 .. Len(els) -> Nat]
    BY <1>1, <1>2
  <2>2. \A n \in 1 .. Len(els) : index[n] = PlaceOf(keys, els[n], e)
    BY <1>1
  <2> HIDE DEF index
  <2>3. index \in Seq(Nat) /\ Len(index) = Len(els) /\ DOMAIN index = 1 .. Len(els)
    <3>1. Len(els) \in Nat
      BY <1>1
    <3> QED BY <2>1, <3>1, FunctionIsSeq
  <2> QED BY <2>2, <2>3
<1> HIDE DEF index
<1>4. /\ c \in Columns /\ PlacesAgree(c) /\ c.type = e /\ c.index = index
      /\ \A i \in 1 .. Len(keys) :
           c.dict[i] = [text |-> keys[i], null |-> e.nullable /\ i = 1]
  <2>1. \A n \in DOMAIN index : index[n] < Len(keys)
    BY <1>2, <1>3
  <2>2. index \in Seq(Nat)
    BY <1>3
  <2>3. c = LoadBody([keys |-> keys, index |-> index], e)
    OBVIOUS
  <2> HIDE DEF c
  <2> QED BY <2>1, <2>2, <2>3, LoadedIsColumn
<1> HIDE DEF c
<1>5. p \in Seq(Items) /\ Len(p) = Len(els) /\ \A n \in 1 .. Len(els) : p[n] = Padded(els[n], e)
  BY <1>1, PaddedAllIs
<1> HIDE DEF p
<1>6. Content(c) \in Seq(Items) /\ Len(Content(c)) = Len(els) /\ DOMAIN Content(c) = 1 .. Len(els)
  <2>1. Size(c) = Len(els)
    BY <1>3, <1>4 DEF Size
  <2> QED BY <1>4, <2>1, ContentSize
<1>7. ASSUME NEW n \in 1 .. Len(els) PROVE Content(c)[n] = p[n]
  <2> DEFINE k == PlaceOf(keys, els[n], e)
  <2>1. /\ k \in Nat /\ k < Len(keys) /\ Len(keys) \in Nat
        /\ els[n] = NullItem => e.nullable /\ k = 0
        /\ els[n] # NullItem => keys[k + 1] = Stored(els[n], e) /\ (e.nullable => k # 0)
    BY <1>2, LenProperties DEF GoodKeys
  <2>2. c.index[n] = k
    BY <1>3, <1>4
  <2> HIDE DEF k
  <2>3. Content(c)[n] = IF e.nullable /\ k = 0 THEN NullItem ELSE DictionaryItem(c, k)
    BY <1>3, <1>4, <2>2 DEF Content, GetItem
  <2>4. CASE els[n] = NullItem
    BY <1>5, <2>1, <2>3, <2>4 DEF Padded
  <2>5. CASE els[n] # NullItem
    <3>1. k + 1 \in 1 .. Len(keys) /\ ~(e.nullable /\ k + 1 = 1)
      BY <2>1, <2>5
    <3> DEFINE m == k + 1
    <3>2. m \in 1 .. Len(keys) /\ ~(e.nullable /\ m = 1) /\ keys[m] = Stored(els[n], e)
      BY <2>1, <2>5, <3>1
    <3>3. DictionaryItem(c, k) = IF c.dict[m].null THEN NullItem ELSE c.dict[m].text
      BY DEF DictionaryItem
    <3> HIDE DEF m
    <3>4. c.dict[m] = [text |-> keys[m], null |-> FALSE]
      BY <1>4, <3>2
    <3>5. DictionaryItem(c, k) = keys[m]
      BY <3>2, <3>3, <3>4
    <3> QED BY <1>5, <2>1, <2>3, <2>5, <3>2, <3>5 DEF Padded
  <2> QED BY <2>4, <2>5
<1>8. Content(c) = p
  BY <1>5, <1>6, <1>7, SeqEqual
<1> QED BY <1>4, <1>8 DEF c, index, p

\* What is loaded of a block that the server writes holds the rows of the block.
LEMMA LoadedHolds ==
  ASSUME type \in ColumnTypes, NEW part \in Seq(GoodRows(type)), NEW order \in Orders(part)
  PROVE  Holds(LoadColumn(ServerWrites(part, order), type), part, type)
<1> DEFINE e == type.element
<1> DEFINE els == ElementsOf(part, type)
<1> DEFINE keys == KeysOf(order, e)
<1> DEFINE body == [keys |-> keys, index |-> [n \in DOMAIN els |-> PlaceOf(keys, els[n], e)]]
<1> DEFINE wire == ServerWrites(part, order)
<1> DEFINE offsets == IF type.array THEN EndsOf(part) ELSE << >>
<1>1. /\ e \in ElementTypes /\ els \in Seq(GoodItems(e)) /\ els \in Seq(Items)
      /\ Elements(part) = els
      /\ order \in SetToSeqs({Stored(v, e) : v \in ToSet(els) \ {NullItem, << >>}})
  <2>1. Elements(part) = els
    BY DEF Elements, ElementsOf
  <2>2. order \in SetToSeqs({Stored(v, e) : v \in ToSet(els) \ {NullItem, << >>}})
    <3> HIDE DEF els
    <3> QED BY <2>1 DEF Orders
  <2> QED BY <2>1, <2>2, ElementsAreItems
<1>2. wire.data = body
  <2> DEFINE first == IF e.nullable THEN <<Stored(<< >>, e), Stored(<< >>, e)>>
                    ELSE <<Stored(<< >>, e)>>
  <2>1. keys = first \o order
    BY DEF KeysOf
  <2> HIDE DEF keys, els
  <2>2. wire.data = [keys |-> first \o order,
                     index |-> [i \in DOMAIN els |->
                       IF els[i] = NullItem THEN 0
                       ELSE Max({k \in DOMAIN (first \o order) :
                                    (first \o order)[k] = Stored(els[i], e)}) - 1]]
    BY <1>1 DEF ServerWrites
  <2> QED BY <2>1, <2>2 DEF PlaceOf
<1>3. wire.offsets = offsets
  BY DEF ServerWrites, EndsOf, EndOf
<1> HIDE DEF wire, els, keys
<1>4. LoadColumn(wire, type) =
        [array |-> type.array, offsets |-> offsets,
         data |-> IF type.array /\ GetOffset(offsets, Len(offsets)) = 0
                  THEN Fresh(e) ELSE LoadBody(body, e)]
  <2> HIDE DEF offsets, body
  <2> QED BY <1>2, <1>3 DEF LoadColumn
<1>5. /\ LoadBody(body, e) \in Columns /\ PlacesAgree(LoadBody(body, e)) /\ LoadBody(body, e).type = e
      /\ Content(LoadBody(body, e)) = PaddedAll(els, e)
  <2>1. /\ keys \in GoodKeys(e)
        /\ e.nullable => 2 \in DOMAIN keys /\ keys[2] = Stored(<< >>, e)
        /\ \A n \in 1 .. Len(els) :
             els[n] # NullItem => \E i \in DOMAIN keys : keys[i] = Stored(els[n], e)
    <3> HIDE DEF e
    <3> QED BY <1>1, ServerKeys DEF keys
  <2> HIDE DEF e
  <2> QED BY <1>1, <2>1, LoadedReads
<1>6. type.array /\ GetOffset(offsets, Len(offsets)) = 0 => els = << >>
  <2> SUFFICES ASSUME type.array, GetOffset(offsets, Len(offsets)) = 0 PROVE els = << >>
    OBVIOUS
  <2> DEFINE A == GoodItems(e)
  <2>1. part \in Seq(Seq(A)) /\ els = FlattenSeq(part) /\ offsets = EndsOf(part) /\ els \in Seq(A)
    BY <1>1 DEF els, ElementsOf, GoodRows
  <2> HIDE DEF A, offsets
  <2>2. Len(part) \in 0 .. Len(part) /\ Len(part) \in Len(part) .. Len(part)
    BY LenProperties
  <2>3. Len(offsets) = Len(part) /\ GetOffset(offsets, Len(part)) = EndOf(part, Len(part))
    BY <2>1, <2>2, EndsAre
  <2>4. EndOf(part, Len(part)) = Len(els)
    BY <2>1, <2>2, EndsInOrder
  <2> QED BY <2>1, <2>3, <2>4, EmptySeq
<1>7. /\ Fresh(e) \in Columns /\ Fresh(e).type = e /\ PlacesAgree(Fresh(e))
      /\ els = << >> => Content(Fresh(e)) = PaddedAll(els, e)
  <2>1. PaddedAll(<< >>, e) = << >>
    BY DEF PaddedAll
  <2> QED BY <1>1, <2>1, FreshAgrees
<1> DEFINE data == IF type.array /\ GetOffset(offsets, Len(offsets)) = 0
                   THEN Fresh(e) ELSE LoadBody(body, e)
<1>8. data \in Columns /\ data.type = e /\ PlacesAgree(data) /\ Content(data) = PaddedAll(els, e)
  <2> HIDE DEF body, offsets
  <2> QED BY <1>5, <1>6, <1>7
<1> DEFINE col == LoadColumn(wire, type)
<1>9. col = [array |-> type.array, data |-> data, offsets |-> offsets]
  <2> HIDE DEF data, offsets, col
  <2>1. col = [array |-> type.array, offsets |-> offsets, data |-> data]
    BY <1>4 DEF col, data
  <2> QED BY <2>1
<1> HIDE DEF data, col
<1>10. col.data = data /\ col.offsets = offsets
  <2> HIDE DEF offsets
  <2> QED BY <1>9
<1>11. Holds(col, part, type)
  BY <1>8, <1>9, <1>10 DEF Holds, els
<1> QED BY <1>11 DEF col, wire

------------------------------------------------------------------------------
(* What the extension reads of a column. *)

\* The columns of the blocks that an iterator keeps.
BlockColumns == [array : BOOLEAN, data : Columns, offsets : Seq(Nat)]

\* A column that holds rows is one of them.
LEMMA HoldingIsBlock ==
  ASSUME NEW t \in ColumnTypes, NEW part \in Seq(GoodRows(t)), NEW col, Holds(col, part, t)
  PROVE  col \in BlockColumns
<1> DEFINE d == col.data
<1> DEFINE o == col.offsets
<1>1. col = [array |-> t.array, data |-> d, offsets |-> o] /\ d \in Columns /\ t.array \in BOOLEAN
  BY DEF Holds, ColumnTypes
<1>2. o \in Seq(Nat)
  <2>1. CASE ~t.array
    BY <2>1 DEF Holds
  <2>2. CASE t.array
    <3> DEFINE A == GoodItems(t.element)
    <3>1. part \in Seq(Seq(A)) /\ o = EndsOf(part)
      BY <2>2 DEF Holds, GoodRows
    <3> HIDE DEF A
    <3> QED BY <3>1, EndsAre
  <2> QED BY <2>1, <2>2
<1> HIDE DEF d, o
<1> QED BY <1>1, <1>2 DEF BlockColumns

\* A slice of an array of a Nullable(String) without empty texts reads right.
SlicesRight(row, t) ==
  t.array /\ t.element.nullable /\ t.element.width = 0 => \A i \in DOMAIN row : row[i] # << >>

\* What is padded stays in a slice.
LEMMA PaddedStaysInSlice ==
  ASSUME NEW e \in ElementTypes, NEW v \in GoodItems(e),
         e.nullable /\ e.width = 0 => v # << >>
  PROVE  Padded(v, e) \in SliceItems(e)
<1>1. v \in Items /\ ~IsTooLong(v, e)
  BY DEF GoodItems
<1>2. /\ Padded(v, e) \in Items /\ Padded(Padded(v, e), e) = Padded(v, e)
      /\ Padded(v, e) = << >> => v = << >>
  BY <1>1, PaddedIsStored
<1>3. e.nullable => Padded(v, e) # << >>
  <2> SUFFICES ASSUME e.nullable, Padded(v, e) = << >> PROVE FALSE
    OBVIOUS
  <2>1. v = << >> /\ e.width # 0 /\ e.width \in Nat
    BY <1>2 DEF ElementTypes
  <2>2. v \in Texts /\ v # NullItem
    BY <2>1, EmptyIsText, NullIsNoText
  <2>3. Len(Stored(v, e)) = e.width
    BY <1>1, <2>1, <2>2, StoredIs
  <2>4. Padded(v, e) = Stored(v, e)
    BY <2>2 DEF Padded
  <2> QED BY <2>1, <2>3, <2>4, EmptySeq
<1> QED BY <1>2, <1>3 DEF SliceItems

\* The extension reads the rows that a column holds.
LEMMA ConvertsRow ==
  ASSUME NEW t \in ColumnTypes, NEW part \in Seq(GoodRows(t)), NEW col, Holds(col, part, t),
         NEW r \in 1 .. Len(part), SlicesRight(part[r], t)
  PROVE  convertToZval(col, r - 1, t) = part[r]
<1> DEFINE e == t.element
<1> DEFINE els == ElementsOf(part, t)
<1> DEFINE s == Content(col.data)
<1>0. r - 1 + 1 = r /\ Len(part) \in Nat
  BY LenProperties
<1>1. /\ e \in ElementTypes /\ col.array = t.array /\ col.data.type = e
      /\ col.data \in Columns /\ PlacesAgree(col.data) /\ Len(els) \in Nat
  <2>1. els \in Seq(Items) /\ e \in ElementTypes
    BY ElementsAreItems
  <2>2. Len(els) \in Nat
    BY <2>1, LenProperties
  <2> QED BY <2>1, <2>2, HoldingColumn DEF Holds
<1>2. \A n \in 1 .. Len(els) :
        /\ s[n] = Padded(els[n], e) /\ ShownItem(s[n], t) = els[n] /\ n \in 1 .. Size(col.data)
        /\ els[n] \in GoodItems(e)
  BY HeldItem
<1>3. DOMAIN s = 1 .. Size(col.data)
  BY <1>1, ContentSize
<1>4. CASE ~t.array
  <2>1. els = part
    BY <1>4 DEF ElementsOf
  <2>2. s[r] = GetItem(col.data, r)
    BY <1>2, <1>3, <2>1 DEF Content
  <2>3. convertToZval(col, r - 1, t) = ShownItem(GetItem(col.data, r), t)
    BY <1>0, <1>1, <1>4 DEF convertToZval
  <2> QED BY <1>2, <2>1, <2>2, <2>3
<1>5. CASE t.array
  <2> DEFINE A == GoodItems(e)
  <2> DEFINE b == GetOffset(col.offsets, r - 1)
  <2> DEFINE l == GetSize(col.offsets, r - 1)
  <2> DEFINE row == part[r]
  <2> DEFINE B == SliceItems(e)
  <2>1. part \in Seq(Seq(A)) /\ els = FlattenSeq(part) /\ col.offsets = EndsOf(part)
    BY <1>5 DEF ElementsOf, GoodRows, Holds
  <2> HIDE DEF A
  <2>2. /\ b \in Nat /\ l = Len(row) /\ l \in Nat /\ row \in Seq(A)
        /\ \A i \in 1 .. l : els[b + i] = row[i] /\ b + i \in 1 .. Len(els)
    <3> HIDE DEF els, s, e
    <3>1. /\ GetOffset(EndsOf(part), r - 1) = EndOf(part, r - 1) /\ EndOf(part, r - 1) \in Nat
          /\ GetSize(EndsOf(part), r - 1) = Len(part[r]) /\ Len(part[r]) \in Nat
          /\ part[r] \in Seq(A)
          /\ \A i \in 1 .. Len(part[r]) :
               /\ FlattenSeq(part)[EndOf(part, r - 1) + i] = part[r][i]
               /\ EndOf(part, r - 1) + i \in 1 .. Len(FlattenSeq(part))
      BY <2>1, RowOfEnds
    <3> QED BY <2>1, <3>1
  <2>3. \A i \in 1 .. l : row[i] \in A /\ (e.nullable /\ e.width = 0 => row[i] # << >>)
    BY <1>5, <2>2, LenProperties DEF SlicesRight
  <2> DEFINE items == SubSeq(s, b + 1, b + l)
  <2> HIDE DEF b, l, row, els, s, B
  <2>4. \A i \in 1 .. l : /\ s[b + i] = Padded(row[i], e) /\ ShownItem(s[b + i], t) = row[i]
                          /\ s[b + i] \in B
    <3> TAKE i \in 1 .. l
    <3>1. s[b + i] = Padded(row[i], e) /\ ShownItem(s[b + i], t) = row[i]
      BY <1>2, <2>2
    <3>2. row[i] \in GoodItems(e) /\ (e.nullable /\ e.width = 0 => row[i] # << >>)
      BY <2>3 DEF A
    <3>3. Padded(row[i], e) \in B
      BY <1>1, <3>2, PaddedStaysInSlice DEF B
    <3> QED BY <3>1, <3>3
  <2>5. /\ items \in Seq(B) /\ Len(items) = l /\ DOMAIN items = 1 .. l
        /\ \A i \in 1 .. l : items[i] = s[b + i]
    <3> DEFINE m == b + 1
    <3> DEFINE n == b + l
    <3>1. m \in Int /\ n \in Int /\ \A i \in m .. n : s[i] \in B
      <4>1. m \in Int /\ n \in Int
        BY <2>2
      <4>2. ASSUME NEW i \in m .. n PROVE s[i] \in B
        <5>1. i - b \in 1 .. l /\ b + (i - b) = i
          BY <2>2
        <5> QED BY <2>4, <5>1
      <4> QED BY <4>1, <4>2
    <3>2. (IF m <= n THEN n - m + 1 ELSE 0) = l
      BY <2>2
    <3>3. \A i \in 1 .. l : i \in 1 .. n - m + 1 /\ m + i - 1 = b + i
      BY <2>2
    <3>4. items = SubSeq(s, m, n)
      OBVIOUS
    <3> HIDE DEF m, n, items
    <3>5. /\ SubSeq(s, m, n) \in Seq(B)
          /\ Len(SubSeq(s, m, n)) = IF m <= n THEN n - m + 1 ELSE 0
          /\ \A i \in 1 .. n - m + 1 : SubSeq(s, m, n)[i] = s[m + i - 1]
      BY <3>1, SubSeqProperties
    <3>6. items \in Seq(B) /\ Len(items) = l /\ \A i \in 1 .. l : items[i] = s[b + i]
      BY <3>2, <3>3, <3>4, <3>5
    <3> QED BY <3>6, LenProperties
  <2>6. GetAsColumn(col, r - 1) = AppendItems(FreshOver(e), items)
    BY <1>1 DEF GetAsColumn, Slice, CloneEmpty, s, b, l
  <2> HIDE DEF items
  <2>7. Content(GetAsColumn(col, r - 1)) = items
    BY <1>1, <2>5, <2>6, SliceReads DEF B
  <2>8. convertToZval(col, r - 1, t) = [i \in 1 .. l |-> ShownItem(items[i], t)]
    BY <1>1, <1>5, <2>5, <2>7 DEF convertToZval
  <2>9. \A i \in 1 .. l : ShownItem(items[i], t) = row[i]
    BY <2>4, <2>5
  <2>10. row = [i \in 1 .. l |-> row[i]]
    BY <2>2, LenProperties
  <2> QED BY <2>8, <2>9, <2>10 DEF row
<1> QED BY <1>4, <1>5

------------------------------------------------------------------------------
(* An insert. *)

\* The rows of a type that no column refuses.
TableRows == {row \in RowsFor(type) : row \in GoodRows(type)}

\* The rows of the call that the column has so far.
Built == SubSeq(rows, 1, Rows(value))

\* The insert's half of the invariant: the column under construction holds the rows
\* before the one that is next, and what the server has is what the calls gave it.
InsertInv ==
  /\ type \in Types
  /\ rows \in Seq(RowsFor(type)) /\ Rows(value) \in 0 .. Len(rows)
  /\ Built \in Seq(TableRows) /\ Holds(value, Built, type)
  /\ child = Fresh(type.element)
  /\ table \in Seq(TableRows) /\ given = table

\* The rows of the table are rows that no column refuses.
LEMMA TableRowsAreGood ==
  /\ Seq(TableRows) \subseteq Seq(GoodRows(type))
  /\ type \in Types => type \in ColumnTypes
<1>1. TableRows \subseteq GoodRows(type)
  BY DEF TableRows
<1> QED BY <1>1, SeqMonotonic, TypesAreTypes

\* A new column for new rows.
LEMMA InsertBegins ==
  ASSUME type \in Types, rows' \in Seq(RowsFor(type)), value' = createColumn(type),
         child' = Fresh(type.element), type' = type,
         table' \in Seq(TableRows), given' = table'
  PROVE  InsertInv'
<1>1. type \in ColumnTypes
  BY TypesAreTypes
<1>2. Holds(value', << >>, type)
  BY <1>1, NewHoldsNothing
<1>3. << >> \in Seq(GoodRows(type)) /\ Len(<< >>) = 0 /\ << >> \in Seq(TableRows')
  OBVIOUS
<1>4. Rows(value') = 0
  BY <1>1, <1>2, <1>3, HoldingColumn
<1>5. Len(rows') \in Nat
  BY LenProperties
<1>6. SubSeq(rows', 1, 0) = << >>
  BY SubSeqEmpty
<1>7. Built' = << >>
  BY <1>4, <1>6 DEF Built
<1>8. TableRows' = TableRows
  BY DEF TableRows
<1> QED BY <1>2, <1>3, <1>4, <1>5, <1>7, <1>8 DEF InsertInv

\* What the column holds after one more row.
LEMMA RowIsBuilt ==
  ASSUME InsertInv, Rows(value) < Len(rows), Row \in GoodRows(type),
         Holds(value', Append(Built, Row), type), child' = child,
         UNCHANGED <<type, rows, table, given>>
  PROVE  InsertInv'
<1> DEFINE R == TableRows
<1>0. type \in ColumnTypes /\ Seq(TableRows) \subseteq Seq(GoodRows(type))
  BY TableRowsAreGood DEF InsertInv
<1>1. /\ Rows(value) \in 0 .. Len(rows) /\ Len(rows) \in Nat /\ rows \in Seq(RowsFor(type))
      /\ Built \in Seq(TableRows)
  BY LenProperties DEF InsertInv
<1>2. Row \in TableRows
  <2>1. Rows(value) + 1 \in 1 .. Len(rows)
    BY <1>1
  <2>2. Row \in RowsFor(type)
    BY <1>1, <2>1, ElementOfSeq DEF Row
  <2> QED BY <2>2 DEF TableRows
<1>3. SubSeq(rows, 1, Rows(value) + 1) = Append(Built, Row)
  BY <1>1, PrefixGrows DEF Built, Row
<1>4. Len(Built) = Rows(value)
  BY <1>1, PrefixIs DEF Built
<1> DEFINE more == Append(Built, Row)
<1>5. more \in Seq(TableRows) /\ Len(more) = Rows(value) + 1
  <2>1. more \in Seq(TableRows) /\ Len(more) = Len(Built) + 1
    BY <1>1, <1>2, AppendProperties
  <2> QED BY <1>4, <2>1
<1>6. Holds(value', more, type)
  OBVIOUS
<1> HIDE DEF more
<1>7. Rows(value') = Rows(value) + 1
  <2>1. more \in Seq(GoodRows(type))
    BY <1>0, <1>5
  <2>2. Rows(value') = Len(more)
    BY <1>0, <1>6, <2>1, HoldingColumn
  <2> QED BY <1>5, <2>2
<1>8. Built' = more
  BY <1>3, <1>7 DEF Built, more
<1>9. TableRows' = TableRows
  BY DEF TableRows
<1>10. Rows(value') \in 0 .. Len(rows)
  BY <1>1, <1>7
<1> QED BY <1>5, <1>6, <1>8, <1>9, <1>10 DEF InsertInv

\* A cell that is converted is one more row.
LEMMA CellKeepsInsertInv ==
  ASSUME InsertInv, ConvertCell
  PROVE  InsertInv'
<1>0. type \in ColumnTypes /\ Seq(TableRows) \subseteq Seq(GoodRows(type)) /\ type \in Types
  BY TableRowsAreGood DEF InsertInv
<1>1. /\ Rows(value) < Len(rows) /\ ~type.array /\ ~Part.threw
      /\ value' = [value EXCEPT !.data = Part.col]
      /\ UNCHANGED <<type, rows, child, table, given>>
  BY DEF ConvertCell, Converting
<1>2. /\ Rows(value) \in 0 .. Len(rows) /\ Len(rows) \in Nat /\ rows \in Seq(RowsFor(type))
      /\ Built \in Seq(GoodRows(type)) /\ Holds(value, Built, type) /\ value.data.type = type.element
  BY <1>0, LenProperties DEF InsertInv, Holds
<1>3. Row \in RowsFor(type)
  <2>1. Rows(value) + 1 \in 1 .. Len(rows)
    BY <1>1, <1>2
  <2> QED BY <1>2, <2>1, ElementOfSeq DEF Row
<1>4. Part = AppendAll(value.data, <<Row>>)
  BY <1>1 DEF Part
<1>5. TooLong(<<Row>>, value.data.type) = {}
  BY <1>1, <1>4, SomeIsRefused
<1>6. Part.col = AppendItems(value.data, <<Row>>)
  BY <1>4, <1>5, AllIsAppended
<1>7. Row \in GoodRows(type)
  <2>1. ~IsTooLong(Row, type.element)
    <3> SUFFICES ASSUME IsTooLong(Row, type.element) PROVE FALSE
      OBVIOUS
    <3>1. 1 \in DOMAIN <<Row>> /\ <<Row>>[1] = Row
      OBVIOUS
    <3>2. 1 \in TooLong(<<Row>>, value.data.type)
      BY <1>2, <3>1 DEF TooLong
    <3> QED BY <1>5, <3>2
  <2> QED BY <1>0, <1>1, <1>3, <2>1, RowIsGood
<1>8. Holds(value', Append(Built, Row), type)
  <2>1. value' = [value EXCEPT !.data = AppendItems(value.data, <<Row>>)]
    BY <1>1, <1>6
  <2> QED BY <1>0, <1>1, <1>2, <1>7, <2>1, CellIsAdded
<1> QED BY <1>1, <1>7, <1>8, RowIsBuilt

\* So is an array that is converted.
LEMMA ArrayKeepsInsertInv ==
  ASSUME InsertInv, ConvertArray
  PROVE  InsertInv'
<1> DEFINE e == type.element
<1> DEFINE filled == AppendColumn(child, Part.col)
<1>0. type \in ColumnTypes /\ Seq(TableRows) \subseteq Seq(GoodRows(type)) /\ type \in Types
      /\ e \in ElementTypes
  BY TableRowsAreGood DEF InsertInv, ColumnTypes
<1>1. /\ Rows(value) < Len(rows) /\ type.array /\ ~Part.threw
      /\ value' = AppendAsColumn(value, filled) /\ child' = Clear(filled)
      /\ UNCHANGED <<type, rows, table, given>>
  BY DEF ConvertArray, Converting
<1>2. /\ Rows(value) \in 0 .. Len(rows) /\ Len(rows) \in Nat /\ rows \in Seq(RowsFor(type))
      /\ Built \in Seq(GoodRows(type)) /\ Holds(value, Built, type) /\ child = Fresh(e)
  BY <1>0, LenProperties DEF InsertInv
<1>3. Row \in RowsFor(type)
  <2>1. Rows(value) + 1 \in 1 .. Len(rows)
    BY <1>1, <1>2
  <2> QED BY <1>2, <2>1, ElementOfSeq DEF Row
<1>4. Part = AppendAll(Fresh(e), Row)
  BY <1>1 DEF Part
<1>5. Fresh(e).type = e
  BY <1>0, FreshAgrees
<1>6. TooLong(Row, e) = {} /\ Part.col = AppendItems(Fresh(e), Row)
  <2>1. TooLong(Row, Fresh(e).type) = {}
    BY <1>1, <1>4, SomeIsRefused
  <2> QED BY <1>4, <1>5, <2>1, AllIsAppended
<1>7. Row \in GoodRows(type)
  BY <1>0, <1>1, <1>3, <1>6, RowIsGood
<1>8. Row \in Seq(ItemsFor(e))
  BY <1>0, <1>1, <1>7, GoodItemsFit, SeqMonotonic DEF GoodRows
<1>9. /\ filled \in Columns /\ PlacesAgree(filled) /\ filled.type = e
      /\ Content(filled) = PaddedAll(Row, e)
  BY <1>0, <1>2, <1>6, <1>8, NewOfRow
<1> HIDE DEF filled
<1>10. Holds(value', Append(Built, Row), type)
  BY <1>0, <1>1, <1>2, <1>7, <1>9, ArrayIsAdded
<1>11. child' = child
  BY <1>1, <1>2, <1>9 DEF Clear
<1> QED BY <1>1, <1>7, <1>10, <1>11, RowIsBuilt

\* A row that is refused ends the call, and leaves the table as it was.
LEMMA RefusalKeepsInsertInv ==
  ASSUME InsertInv, ConvertThrows
  PROVE  InsertInv'
<1>0. type \in ColumnTypes /\ Seq(TableRows) \subseteq Seq(GoodRows(type)) /\ type \in Types
  BY TableRowsAreGood DEF InsertInv
<1>1. /\ Rows(value) < Len(rows) /\ Part.threw
      /\ value' = IF type.array THEN value ELSE [value EXCEPT !.data = Part.col]
      /\ UNCHANGED <<type, rows, child, table, given>>
  BY DEF ConvertThrows, Converting, Fail
<1>2. value' = value
  <2>1. CASE type.array
    BY <1>1, <2>1
  <2>2. CASE ~type.array
    <3> DEFINE d == value.data
    <3>1. /\ Rows(value) \in 0 .. Len(rows) /\ Len(rows) \in Nat /\ rows \in Seq(RowsFor(type))
          /\ Holds(value, Built, type) /\ d.type = type.element
          /\ d \in Columns /\ PlacesAgree(d)
      BY <1>0, LenProperties DEF InsertInv, Holds
    <3>2. Row \in Items
      <4>1. Rows(value) + 1 \in 1 .. Len(rows)
        BY <1>1, <3>1
      <4>2. Row \in RowsFor(type)
        BY <3>1, <4>1, ElementOfSeq DEF Row
      <4> QED BY <1>0, <2>2, <4>2, RowIsGood
    <3>3. Part = AppendAll(d, <<Row>>)
      BY <2>2 DEF Part
    <3>4. IsTooLong(Row, d.type)
      <4> SUFFICES ASSUME ~IsTooLong(Row, d.type) PROVE FALSE
        OBVIOUS
      <4>1. \A i \in DOMAIN <<Row>> : <<Row>>[i] = Row
        OBVIOUS
      <4>2. TooLong(<<Row>>, d.type) = {}
        BY <4>1 DEF TooLong
      <4> QED BY <1>1, <3>3, <4>2, AllIsAppended
    <3>5. Part.col = d
      BY <3>1, <3>2, <3>3, <3>4, RefusedKeepsColumn
    <3>6. value = [array |-> type.array, data |-> d, offsets |-> value.offsets]
      BY <3>1 DEF Holds
    <3>7. value' = [value EXCEPT !.data = d]
      BY <1>1, <2>2, <3>5
    <3> QED BY <3>6, <3>7
  <2> QED BY <2>1, <2>2
<1> QED BY <1>1, <1>2 DEF InsertInv, Built, TableRows

\* The rows that the server reads are those of the call.
LEMMA KeptIsGiven ==
  ASSUME InsertInv, Rows(value) = Len(rows), Kept
  PROVE  table' \in Seq(TableRows) /\ given' = table'
<1>0. type \in ColumnTypes /\ Seq(TableRows) \subseteq Seq(GoodRows(type))
  BY TableRowsAreGood DEF InsertInv
<1>1. Built = rows
  BY SubSeqFull DEF InsertInv, Built
<1>2. rows \in Seq(TableRows) /\ Holds(value, rows, type)
  BY <1>1 DEF InsertInv
<1>3. ServerReads(SaveColumn(value)) = rows
  BY <1>0, <1>2, ServerReadsRows
<1>4. table' = table \o rows /\ given' = given \o rows
  BY <1>3 DEF Kept
<1>5. table \in Seq(TableRows) /\ given = table
  BY DEF InsertInv
<1>6. table \o rows \in Seq(TableRows)
  BY <1>2, <1>5, ConcatProperties
<1> QED BY <1>4, <1>5, <1>6

\* What leaves the insert's column alone keeps its half.
LEMMA SameKeepsInsertInv ==
  ASSUME InsertInv, UNCHANGED <<type, rows, value, child>>,
         table' \in Seq(TableRows), given' = table'
  PROVE  InsertInv'
BY DEF InsertInv, Built, TableRows

------------------------------------------------------------------------------
(* A select. *)

\* The iterators of a SELECT's result.
Iterators ==
  [alive : BOOLEAN, blocks : Seq(BlockColumns), total : Nat, block : Nat, row : Nat, key : Nat]

\* The blocks of an iterator hold some parts, and it stands in one of them or
\* behind them, at the row of its number.
Walks(it, parts) ==
  /\ Len(parts) = Len(it.blocks)
  /\ \A b \in 1 .. Len(parts) : parts[b] # << >> /\ Holds(it.blocks[b], parts[b], type)
  /\ it.total = Len(FlattenSeq(parts))
  /\ it.block \in 0 .. Len(parts)
  /\ IF it.block < Len(parts) THEN it.row < Len(parts[it.block + 1]) ELSE it.row = 0
  /\ it.key = EndOf(parts, it.block) + it.row
  /\ ~it.alive => it.block = 0 /\ it.row = 0

\* The parts and what is still to come are the result.
Received(parts) == Joins(FlattenSeq(parts), incoming, result)

\* The iterator's half of the invariant: its blocks and what is still to come are
\* the result.
IterInv ==
  /\ iter \in Iterators
  /\ incoming \in Seq(TableRows) /\ result \in Seq(TableRows)
  /\ call = "select" => ~iter.alive
  /\ iter.alive => incoming = << >>
  /\ \E parts \in Seq(Seq(TableRows)) : Walks(iter, parts) /\ Received(parts)

\* An iterator without blocks.
LEMMA EmptyWalks ==
  ASSUME incoming \in Seq(TableRows), result = incoming, iter = NoIterator
  PROVE  IterInv
<1>1. << >> \in Seq(Seq(TableRows)) /\ Len(<< >>) = 0 /\ FlattenSeq(<< >>) = << >>
      /\ SubSeq(<< >>, 1, 0) = << >>
  BY FlattenEmpty, SubSeqEmpty
<1>2. EndOf(<< >>, 0) = 0
  BY <1>1 DEF EndOf
<1>3. Walks(NoIterator, << >>)
  BY <1>1, <1>2 DEF Walks, NoIterator
<1>4. Received(<< >>)
  BY <1>1, ConcatEmptySeq DEF Received, Joins
<1>5. NoIterator \in Iterators
  BY DEF Iterators, NoIterator
<1>6. ~iter.alive
  BY DEF NoIterator
<1> QED BY <1>1, <1>3, <1>4, <1>5, <1>6 DEF IterInv

\* What leaves the iterator and the result alone keeps the half.
LEMMA SameKeepsIterInv ==
  ASSUME IterInv, UNCHANGED <<type, incoming, result, iter>>,
         call' = "select" => ~iter.alive
  PROVE  IterInv'
<1>1. PICK parts \in Seq(Seq(TableRows)) : Walks(iter, parts) /\ Received(parts)
  BY DEF IterInv
<1>2. TableRows' = TableRows
  BY DEF TableRows
<1>3. Walks(iter, parts)' /\ Received(parts)'
  BY <1>1 DEF Walks, Received, Joins
<1> QED BY <1>1, <1>2, <1>3 DEF IterInv

\* The fields of an iterator.
LEMMA IterFields ==
  ASSUME NEW it \in Iterators
  PROVE  /\ it.alive \in BOOLEAN /\ it.blocks \in Seq(BlockColumns) /\ it.total \in Nat
         /\ it.block \in Nat /\ it.row \in Nat /\ it.key \in Nat
         /\ it = [alive |-> it.alive, blocks |-> it.blocks, total |-> it.total,
                  block |-> it.block, row |-> it.row, key |-> it.key]
BY DEF Iterators

\* An iterator of these fields.
IsIterator(it, alive, blocks, total, block, row, key) ==
  it = [alive |-> alive, blocks |-> blocks, total |-> total, block |-> block, row |-> row, key |-> key]

\* An iterator of these fields has them.
LEMMA IteratorFields ==
  ASSUME NEW it, NEW a, NEW b, NEW t, NEW l, NEW r, NEW k, IsIterator(it, a, b, t, l, r, k)
  PROVE  /\ it.alive = a /\ it.blocks = b /\ it.total = t
         /\ it.block = l /\ it.row = r /\ it.key = k
BY DEF IsIterator

\* An iterator whose blocks change.
LEMMA IteratorWithBlocks ==
  ASSUME NEW it \in Iterators, NEW b, NEW t, NEW after, after = [it EXCEPT !.blocks = b, !.total = t]
  PROVE  IsIterator(after, it.alive, b, t, it.block, it.row, it.key)
<1>1. it = [alive |-> it.alive, blocks |-> it.blocks, total |-> it.total,
            block |-> it.block, row |-> it.row, key |-> it.key]
  BY IterFields
<1> QED BY <1>1 DEF IsIterator

\* A part behind the others.
LEMMA BlockIsReceived ==
  ASSUME type \in Types, NEW it \in Iterators, NEW parts \in Seq(Seq(TableRows)), Walks(it, parts),
         ~it.alive, NEW part \in Seq(TableRows), part # << >>, NEW column, Holds(column, part, type),
         NEW after, IsIterator(after, it.alive, Append(it.blocks, column), it.total + Len(part),
                               it.block, it.row, it.key)
  PROVE  /\ after \in Iterators /\ Append(parts, part) \in Seq(Seq(TableRows)) /\ ~after.alive
         /\ Walks(after, Append(parts, part))
         /\ FlattenSeq(Append(parts, part)) = FlattenSeq(parts) \o part
<1> DEFINE more == Append(parts, part)
<1> DEFINE blocks == Append(it.blocks, column)
<1> DEFINE n == Len(part)
<1>0. column \in BlockColumns
  BY TableRowsAreGood, HoldingIsBlock
<1>1. /\ it.alive \in BOOLEAN /\ it.blocks \in Seq(BlockColumns) /\ it.total \in Nat
      /\ it.block \in Nat /\ it.row \in Nat /\ it.key \in Nat
      /\ it = [alive |-> it.alive, blocks |-> it.blocks, total |-> it.total,
               block |-> it.block, row |-> it.row, key |-> it.key]
  BY IterFields
<1>2. n \in Nat /\ n > 0
  BY EmptySeq, LenProperties
<1>3. /\ more \in Seq(Seq(TableRows)) /\ Len(more) = Len(parts) + 1 /\ more[Len(parts) + 1] = part
      /\ \A b \in 1 .. Len(parts) : more[b] = parts[b]
      /\ Len(parts) \in Nat
  BY AppendProperties, LenProperties
<1>4. /\ blocks \in Seq(BlockColumns) /\ Len(blocks) = Len(it.blocks) + 1
      /\ blocks[Len(it.blocks) + 1] = column
      /\ \A b \in 1 .. Len(it.blocks) : blocks[b] = it.blocks[b]
  BY <1>0, <1>1, AppendProperties
<1>5. FlattenSeq(more) = FlattenSeq(parts) \o part
  BY FlattenAppend
<1>6. Len(FlattenSeq(more)) = Len(FlattenSeq(parts)) + n
  <2>1. FlattenSeq(parts) \in Seq(TableRows)
    BY FlattenType
  <2> QED BY <1>5, <2>1, ConcatProperties
<1>7. after = [alive |-> it.alive, blocks |-> blocks, total |-> it.total + n,
               block |-> it.block, row |-> it.row, key |-> it.key]
  BY DEF IsIterator
<1> HIDE DEF more, blocks, n
<1>8. /\ after.alive = it.alive /\ after.blocks = blocks /\ after.total = it.total + n
      /\ after.block = it.block /\ after.row = it.row /\ after.key = it.key
  BY <1>7, IteratorFields DEF IsIterator
<1>9. after \in Iterators
  BY <1>1, <1>2, <1>4, <1>7 DEF Iterators
<1>10. /\ Len(parts) = Len(it.blocks)
       /\ \A b \in 1 .. Len(parts) : parts[b] # << >> /\ Holds(it.blocks[b], parts[b], type)
       /\ it.total = Len(FlattenSeq(parts))
       /\ it.key = EndOf(parts, it.block) + it.row
       /\ it.block = 0 /\ it.row = 0
  BY DEF Walks
<1>11. \A b \in 1 .. Len(more) : more[b] # << >> /\ Holds(blocks[b], more[b], type)
  <2> TAKE b \in 1 .. Len(more)
  <2>1. CASE b = Len(parts) + 1
    BY <1>3, <1>4, <1>10, <2>1
  <2>2. CASE b \in 1 .. Len(parts)
    BY <1>3, <1>4, <1>10, <2>2
  <2>3. b = Len(parts) + 1 \/ b \in 1 .. Len(parts)
    BY <1>3
  <2> QED BY <2>1, <2>2, <2>3
<1>12. EndOf(more, 0) = EndOf(parts, 0) /\ EndOf(parts, 0) \in Nat
  <2>1. 0 \in 0 .. Len(parts) /\ 0 \in 0 .. 0
    BY <1>3
  <2>2. EndOf(more, 0) = EndOf(parts, 0)
    BY <2>1, EndOfAppended DEF more
  <2>3. Len(parts) \in 0 .. Len(parts)
    BY <1>3
  <2> QED BY <2>1, <2>2, <2>3, EndsInOrder
<1>13. 0 < Len(more) /\ 0 \in 0 .. Len(more) /\ 0 < Len(more[0 + 1])
  <2>1. 1 \in 1 .. Len(more)
    BY <1>3
  <2>2. more[1] \in Seq(TableRows) /\ more[1] # << >>
    BY <1>3, <1>11, <2>1, ElementOfSeq
  <2>3. Len(more[1]) \in Nat /\ Len(more[1]) # 0
    BY <2>2, EmptySeq, LenProperties
  <2> QED BY <1>3, <2>3
<1>14. Walks(after, more)
  <2>1. Len(more) = Len(after.blocks)
    BY <1>3, <1>4, <1>8, <1>10
  <2>2. after.total = Len(FlattenSeq(more))
    BY <1>6, <1>8, <1>10
  <2>3. after.key = EndOf(more, after.block) + after.row
    BY <1>8, <1>10, <1>12
  <2> QED BY <1>8, <1>10, <1>11, <1>13, <2>1, <2>2, <2>3 DEF Walks
<1> QED BY <1>3, <1>5, <1>8, <1>9, <1>14 DEF more

\* A block that arrives is a part behind the others, or is empty and left out.
LEMMA ReceiveKeepsIterInv ==
  ASSUME type \in Types, IterInv, ReceiveBlock
  PROVE  IterInv'
<1>1. PICK n \in 0 .. Len(incoming) :
        /\ \E order \in Orders(SubSeq(incoming, 1, n)) :
             iter' = IF IsKept(n)
                     THEN [iter EXCEPT !.blocks = Append(@, LoadColumn(
                                               ServerWrites(SubSeq(incoming, 1, n), order), type)),
                                       !.total = @ + n]
                     ELSE iter
        /\ incoming' = SubSeq(incoming, n + 1, Len(incoming))
  BY DEF ReceiveBlock
<1>2. call = "select" /\ UNCHANGED <<type, call, result>>
  BY DEF ReceiveBlock
<1> DEFINE part == SubSeq(incoming, 1, n)
<1> DEFINE rest == Rest(incoming, n)
<1>3. incoming' = rest
  BY <1>1 DEF Rest
<1>4. incoming \in Seq(TableRows) /\ iter \in Iterators /\ ~iter.alive /\ result \in Seq(TableRows)
      /\ Len(incoming) \in Nat
  BY <1>2, LenProperties DEF IterInv
<1>5. /\ part \in Seq(TableRows) /\ Len(part) = n /\ rest \in Seq(TableRows)
      /\ Joins(part, rest, incoming)
  BY <1>4, PrefixIs
<1>6. PICK parts \in Seq(Seq(TableRows)) : Walks(iter, parts) /\ Received(parts)
  BY DEF IterInv
<1>7. TableRows' = TableRows
  BY <1>2 DEF TableRows
<1>8. CASE ~IsKept(n)
  <2>1. iter' = iter /\ n = 0
    BY <1>1, <1>8 DEF IsKept
  <2>2. rest = incoming
    <3> HIDE DEF part, rest
    <3>1. part = << >>
      BY <1>5, <2>1, EmptySeq
    <3>2. incoming = << >> \o rest
      BY <1>5, <3>1 DEF Joins
    <3> QED BY <1>5, <3>2, ConcatEmptySeq
  <2> QED BY <1>2, <1>3, <1>4, <2>1, <2>2, SameKeepsIterInv
<1>9. CASE IsKept(n)
  <2>1. PICK order \in Orders(part) :
          iter' = [iter EXCEPT !.blocks = Append(@, LoadColumn(ServerWrites(part, order), type)),
                               !.total = @ + n]
    BY <1>1, <1>9
  <2>2. n > 0 /\ part # << >>
    <3>1. n > 0
      BY <1>9 DEF IsKept
    <3> HIDE DEF part
    <3> QED BY <1>5, <3>1, EmptySeq
  <2> DEFINE column == LoadColumn(ServerWrites(part, order), type)
  <2>3. Holds(column, part, type)
    <3>1. part \in Seq(GoodRows(type)) /\ type \in ColumnTypes
      BY <1>5, TableRowsAreGood
    <3> HIDE DEF part
    <3> QED BY <3>1, LoadedHolds
  <2>4. iter' = [iter EXCEPT !.blocks = Append(@, column), !.total = @ + n]
    BY <2>1
  <2> HIDE DEF column, part, rest
  <2>5. PICK more : more = Append(parts, part)
    OBVIOUS
  <2>6. IsIterator(iter', iter.alive, Append(iter.blocks, column), iter.total + Len(part),
                   iter.block, iter.row, iter.key)
    <3> DEFINE b == Append(iter.blocks, column)
    <3> DEFINE t == iter.total + Len(part)
    <3>1. iter' = [iter EXCEPT !.blocks = b, !.total = t]
      BY <1>5, <2>4
    <3> HIDE DEF b, t
    <3>2. IsIterator(iter', iter.alive, b, t, iter.block, iter.row, iter.key)
      BY <1>4, <3>1, IteratorWithBlocks
    <3> QED BY <3>2 DEF b, t
  <2>7. /\ iter' \in Iterators /\ more \in Seq(Seq(TableRows)) /\ ~iter'.alive
        /\ Walks(iter', more) /\ FlattenSeq(more) = FlattenSeq(parts) \o part
    BY <1>4, <1>5, <1>6, <2>2, <2>3, <2>5, <2>6, BlockIsReceived
  <2> DEFINE f == FlattenSeq(parts)
  <2> DEFINE g == FlattenSeq(more)
  <2>8. f \in Seq(TableRows)
    BY FlattenType
  <2>9. result = f \o incoming /\ incoming = part \o rest /\ g = f \o part
    BY <1>5, <1>6, <2>7 DEF Received, Joins
  <2> HIDE DEF f, g
  <2>10. (f \o part) \o rest = f \o (part \o rest)
    BY <1>5, <2>8, ConcatAssociative
  <2>11. result = g \o rest
    BY <2>9, <2>10
  <2>12. Received(more)'
    BY <1>2, <1>3, <2>11 DEF Received, Joins, g
  <2>13. Walks(iter, more)'
    BY <1>2, <2>7 DEF Walks
  <2> QED BY <1>2, <1>3, <1>4, <1>5, <1>7, <2>7, <2>12, <2>13 DEF IterInv
<1> QED BY <1>8, <1>9

\* An iterator over the same blocks that stands elsewhere.
LEMMA WalksElsewhere ==
  ASSUME NEW it \in Iterators, NEW parts \in Seq(Seq(TableRows)), Walks(it, parts),
         NEW a \in BOOLEAN, NEW l \in 0 .. Len(parts), NEW r \in Nat, NEW k,
         IF l < Len(parts) THEN r < Len(parts[l + 1]) ELSE r = 0,
         k = EndOf(parts, l) + r, ~a => l = 0 /\ r = 0,
         NEW after, IsIterator(after, a, it.blocks, it.total, l, r, k)
  PROVE  after \in Iterators /\ Walks(after, parts) /\ after.alive = a
<1>1. /\ after.alive = a /\ after.blocks = it.blocks /\ after.total = it.total
      /\ after.block = l /\ after.row = r /\ after.key = k
  BY IteratorFields
<1>2. EndOf(parts, l) \in Nat /\ l \in Nat
  <2>1. Len(parts) \in Nat
    BY LenProperties
  <2>2. Len(parts) \in l .. Len(parts)
    BY <2>1
  <2> QED BY <2>1, <2>2, EndsInOrder
<1>3. k \in Nat
  BY <1>2
<1>4. it.blocks \in Seq(BlockColumns) /\ it.total \in Nat
  BY IterFields
<1>5. after \in Iterators
  BY <1>2, <1>3, <1>4 DEF IsIterator, Iterators
<1>6. Walks(after, parts)
  <2>1. /\ Len(parts) = Len(it.blocks)
        /\ \A b \in 1 .. Len(parts) : parts[b] # << >> /\ Holds(it.blocks[b], parts[b], type)
        /\ it.total = Len(FlattenSeq(parts))
    BY DEF Walks
  <2> QED BY <1>1, <2>1 DEF Walks
<1> QED BY <1>1, <1>5, <1>6

\* What it takes for the invariant when only the iterator changes.
LEMMA MovedKeepsIterInv ==
  ASSUME IterInv, UNCHANGED <<type, incoming, result>>, iter' \in Iterators,
         call' = "select" => ~iter'.alive, iter'.alive => incoming = << >>,
         NEW parts \in Seq(Seq(TableRows)), Received(parts), Walks(iter', parts)
  PROVE  IterInv'
<1>1. TableRows' = TableRows
  BY DEF TableRows
<1>2. Walks(iter, parts)' /\ Received(parts)'
  BY DEF Walks, Received, Joins
<1> QED BY <1>1, <1>2 DEF IterInv

\* The iterator changes where it stands.
LEMMA IteratorElsewhere ==
  ASSUME NEW it \in Iterators, NEW l, NEW r, NEW k, NEW after,
         after = [it EXCEPT !.block = l, !.row = r, !.key = k]
  PROVE  IsIterator(after, it.alive, it.blocks, it.total, l, r, k)
<1>1. it = [alive |-> it.alive, blocks |-> it.blocks, total |-> it.total,
            block |-> it.block, row |-> it.row, key |-> it.key]
  BY IterFields
<1> QED BY <1>1 DEF IsIterator

\* The iterator is there when all has arrived: it stands at the first row.
LEMMA SelectReturnsKeepsIterInv ==
  ASSUME IterInv, SelectReturns
  PROVE  IterInv'
<1>1. /\ incoming = << >> /\ iter' = [iter EXCEPT !.alive = TRUE] /\ call' = "none"
      /\ UNCHANGED <<type, incoming, result>> /\ ~iter.alive
  BY DEF SelectReturns, Return, IterInv
<1>2. iter \in Iterators
  BY DEF IterInv
<1>3. PICK parts \in Seq(Seq(TableRows)) : Walks(iter, parts) /\ Received(parts)
  BY DEF IterInv
<1>4. /\ iter = [alive |-> iter.alive, blocks |-> iter.blocks, total |-> iter.total,
                 block |-> iter.block, row |-> iter.row, key |-> iter.key]
      /\ iter.row \in Nat
  BY <1>2, IterFields
<1>5. IsIterator(iter', TRUE, iter.blocks, iter.total, iter.block, iter.row, iter.key)
  BY <1>1, <1>4 DEF IsIterator
<1>6. /\ iter.block \in 0 .. Len(parts)
      /\ IF iter.block < Len(parts) THEN iter.row < Len(parts[iter.block + 1]) ELSE iter.row = 0
      /\ iter.key = EndOf(parts, iter.block) + iter.row
  BY <1>3 DEF Walks
<1>7. iter' \in Iterators /\ Walks(iter', parts)
  BY <1>2, <1>3, <1>4, <1>5, <1>6, WalksElsewhere
<1> QED BY <1>1, <1>3, <1>7, MovedKeepsIterInv

\* Rewinding puts it at the first row again.
LEMMA RewindKeepsIterInv ==
  ASSUME IterInv, IterRewind
  PROVE  IterInv'
<1>1. /\ iter' = [iter EXCEPT !.block = 0, !.row = 0, !.key = 0] /\ iter.alive
      /\ UNCHANGED <<type, call, incoming, result>>
  BY DEF IterRewind, Walk
<1>2. iter \in Iterators /\ incoming = << >> /\ call # "select"
  BY <1>1 DEF IterInv
<1>3. PICK parts \in Seq(Seq(TableRows)) : Walks(iter, parts) /\ Received(parts)
  BY DEF IterInv
<1>4. IsIterator(iter', iter.alive, iter.blocks, iter.total, 0, 0, 0)
  BY <1>1, <1>2, IteratorElsewhere
<1>5. Len(parts) \in Nat /\ 0 \in 0 .. Len(parts) /\ Len(parts) \in 0 .. Len(parts)
  BY LenProperties
<1>6. 0 = EndOf(parts, 0) + 0
  BY <1>5, EndsInOrder
<1>7. IF 0 < Len(parts) THEN 0 < Len(parts[0 + 1]) ELSE 0 = 0
  <2> SUFFICES ASSUME 0 < Len(parts) PROVE 0 < Len(parts[0 + 1])
    OBVIOUS
  <2>1. 1 \in 1 .. Len(parts) /\ 0 + 1 = 1
    BY <1>5
  <2>2. parts[1] \in Seq(TableRows) /\ parts[1] # << >>
    BY <1>3, <2>1, ElementOfSeq DEF Walks
  <2>3. Len(parts[1]) \in Nat /\ Len(parts[1]) # 0
    BY <2>2, EmptySeq, LenProperties
  <2> QED BY <2>1, <2>3
<1>8. iter' \in Iterators /\ Walks(iter', parts) /\ iter'.alive = iter.alive
  <2>1. iter.alive \in BOOLEAN /\ (~iter.alive => 0 = 0 /\ 0 = 0) /\ 0 \in Nat
    BY <1>2, IterFields
  <2> QED BY <1>2, <1>3, <1>4, <1>5, <1>6, <1>7, <2>1, WalksElsewhere
<1> QED BY <1>1, <1>2, <1>3, <1>8, MovedKeepsIterInv

\* The rows of a block.
LEMMA BlockRowsAre ==
  ASSUME type \in Types, NEW parts \in Seq(Seq(TableRows)), Walks(iter, parts),
         NEW b \in 0 .. Len(parts), b < Len(parts)
  PROVE  /\ BlockRows(b) = Len(parts[b + 1]) /\ Len(parts[b + 1]) \in Nat /\ Len(parts[b + 1]) > 0
         /\ b + 1 \in 1 .. Len(parts) /\ parts[b + 1] \in Seq(TableRows)
         /\ Holds(iter.blocks[b + 1], parts[b + 1], type)
<1>1. b + 1 \in 1 .. Len(parts)
  BY LenProperties
<1>2. parts[b + 1] \in Seq(TableRows)
  BY <1>1, ElementOfSeq
<1>3. parts[b + 1] # << >> /\ Holds(iter.blocks[b + 1], parts[b + 1], type)
  BY <1>1 DEF Walks
<1> DEFINE part == parts[b + 1]
<1>4. part \in Seq(TableRows) /\ part # << >> /\ Holds(iter.blocks[b + 1], part, type)
  BY <1>2, <1>3
<1> HIDE DEF part
<1>5. Rows(iter.blocks[b + 1]) = Len(part)
  BY <1>4, TableRowsAreGood, HoldingColumn
<1>6. Len(part) \in Nat /\ Len(part) # 0
  BY <1>4, EmptySeq, LenProperties
<1> QED BY <1>1, <1>2, <1>3, <1>5, <1>6 DEF part, BlockRows

\* Advancing puts it at the next row, of this block or of the next one.
LEMMA NextKeepsIterInv ==
  ASSUME type \in Types, IterInv, IterNext
  PROVE  IterInv'
<1> DEFINE stays == iter.row + 1 < BlockRows(iter.block)
<1> DEFINE later == {b \in iter.block + 1 .. Len(iter.blocks) :
                    b < Len(iter.blocks) => BlockRows(b) > 0}
<1>1. /\ iter.alive /\ iter.block < Len(iter.blocks)
      /\ iter' = [iter EXCEPT !.key = @ + 1, !.row = IF stays THEN @ + 1 ELSE 0,
                              !.block = IF stays THEN @ ELSE Min(later)]
      /\ UNCHANGED <<type, call, incoming, result>>
  BY DEF IterNext, Walk
<1>2. iter \in Iterators /\ incoming = << >> /\ call # "select"
  BY <1>1 DEF IterInv
<1>3. PICK parts \in Seq(Seq(TableRows)) : Walks(iter, parts) /\ Received(parts)
  BY DEF IterInv
<1> DEFINE l == IF stays THEN iter.block ELSE Min(later)
<1> DEFINE r == IF stays THEN iter.row + 1 ELSE 0
<1> DEFINE k == iter.key + 1
<1>4. IsIterator(iter', iter.alive, iter.blocks, iter.total, l, r, k)
  <2>1. /\ iter = [alive |-> iter.alive, blocks |-> iter.blocks, total |-> iter.total,
                   block |-> iter.block, row |-> iter.row, key |-> iter.key]
    BY <1>2, IterFields
  <2>2. iter' = [iter EXCEPT !.key = k, !.row = r, !.block = l]
    BY <1>1
  <2> HIDE DEF k, r, l
  <2> QED BY <2>1, <2>2 DEF IsIterator
<1>5. /\ Len(parts) = Len(iter.blocks) /\ Len(parts) \in Nat /\ iter.block \in 0 .. Len(parts)
      /\ iter.block < Len(parts) /\ iter.row < Len(parts[iter.block + 1])
      /\ iter.key = EndOf(parts, iter.block) + iter.row
      /\ iter.row \in Nat /\ iter.block \in Nat /\ iter.key \in Nat
  BY <1>1, <1>2, <1>3, IterFields, LenProperties DEF Walks
<1>6. BlockRows(iter.block) = Len(parts[iter.block + 1]) /\ Len(parts[iter.block + 1]) \in Nat
  BY <1>3, <1>5, BlockRowsAre
<1> DEFINE m == iter.block + 1
<1>7. Min(later) = m
  <2>1. later \in SUBSET Int
    BY <1>5
  <2>2. m \in later
    <3>1. m \in iter.block + 1 .. Len(iter.blocks) /\ m \in 0 .. Len(parts)
      BY <1>5
    <3>2. m < Len(iter.blocks) => BlockRows(m) > 0
      <4> SUFFICES ASSUME m < Len(parts) PROVE BlockRows(m) > 0
        BY <1>5
      <4> HIDE DEF m
      <4> QED BY <1>3, <3>1, BlockRowsAre
    <3> QED BY <3>1, <3>2
  <2>3. \A x \in later : m <= x
    BY <1>5
  <2> HIDE DEF later, m
  <2> QED BY <2>1, <2>2, <2>3, MinIsLeast
<1>8. /\ EndOf(parts, m) = EndOf(parts, iter.block) + Len(parts[m])
      /\ EndOf(parts, iter.block) \in Nat /\ m \in 1 .. Len(parts)
  <2>1. m \in 1 .. Len(parts) /\ m - 1 = iter.block
    BY <1>5
  <2> HIDE DEF m
  <2>2. EndOf(parts, m) = EndOf(parts, m - 1) + Len(parts[m]) /\ EndOf(parts, m - 1) \in Nat
    BY <2>1, EndsCutParts
  <2> QED BY <2>1, <2>2
<1>9. CASE stays
  <2>1. l = iter.block /\ r = iter.row + 1
    BY <1>9
  <2>2. l \in 0 .. Len(parts) /\ r \in Nat /\ (IF l < Len(parts) THEN r < Len(parts[l + 1]) ELSE r = 0)
    BY <1>5, <1>6, <1>9, <2>1
  <2>3. k = EndOf(parts, l) + r
    BY <1>5, <1>8, <2>1
  <2> HIDE DEF l, r, k, stays
  <2>4. iter' \in Iterators /\ Walks(iter', parts) /\ iter'.alive = iter.alive
    <3>1. iter.alive \in BOOLEAN /\ (~iter.alive => l = 0 /\ r = 0)
      BY <1>1, <1>2, IterFields
    <3> QED BY <1>2, <1>3, <1>4, <2>2, <2>3, <3>1, WalksElsewhere
  <2> QED BY <1>1, <1>2, <1>3, <2>4, MovedKeepsIterInv
<1>10. CASE ~stays
  <2>1. l = m /\ r = 0
    BY <1>7, <1>10
  <2>2. l \in 0 .. Len(parts) /\ r \in Nat /\ (IF l < Len(parts) THEN r < Len(parts[l + 1]) ELSE r = 0)
    <3>1. m \in 0 .. Len(parts)
      BY <1>5
    <3>2. m < Len(parts) => 0 < Len(parts[m + 1])
      <4> HIDE DEF m
      <4> QED BY <1>3, <3>1, BlockRowsAre
    <3> HIDE DEF m, l, r
    <3> QED BY <2>1, <3>1, <3>2
  <2>3. iter.row + 1 = Len(parts[m])
    <3> DEFINE n == Len(parts[m])
    <3>1. iter.row \in Nat /\ n \in Nat /\ iter.row < n /\ ~(iter.row + 1 < n)
      BY <1>5, <1>6, <1>10
    <3> HIDE DEF n
    <3>2. iter.row + 1 = n
      BY <3>1
    <3> QED BY <3>2 DEF n
  <2>4. k = EndOf(parts, l) + r
    <3>1. EndOf(parts, m) = EndOf(parts, iter.block) + (iter.row + 1)
      BY <1>8, <2>3
    <3> DEFINE x == EndOf(parts, iter.block)
    <3>2. /\ x \in Nat /\ iter.row \in Nat /\ iter.key = x + iter.row
          /\ EndOf(parts, m) = x + (iter.row + 1)
      BY <1>5, <1>8, <3>1
    <3> HIDE DEF x, m
    <3>3. iter.key + 1 = EndOf(parts, m) + 0
      BY <3>2
    <3> QED BY <2>1, <3>3
  <2> HIDE DEF l, r, k, stays, m
  <2>5. iter' \in Iterators /\ Walks(iter', parts) /\ iter'.alive = iter.alive
    <3>1. iter.alive \in BOOLEAN /\ (~iter.alive => l = 0 /\ r = 0)
      BY <1>1, <1>2, IterFields
    <3> QED BY <1>2, <1>3, <1>4, <2>2, <2>4, <3>1, WalksElsewhere
  <2> QED BY <1>1, <1>2, <1>3, <2>5, MovedKeepsIterInv
<1> QED BY <1>9, <1>10

------------------------------------------------------------------------------
(* Both. *)

\* The inductive invariant of the two halves.
ColumnInv == InsertInv /\ IterInv

\* No array of Nullable(String) has an empty text.
SlicesAreRight == \A t \in Types : \A row \in RowsFor(t) : SlicesRight(row, t)

\* It holds initially.
LEMMA InitColumnInv ==
  ASSUME Init
  PROVE  ColumnInv
<1>1. /\ type \in Types /\ rows = << >> /\ value = createColumn(type) /\ child = Fresh(type.element)
      /\ given = << >> /\ table = << >> /\ incoming = << >> /\ result = << >> /\ iter = NoIterator
  BY DEF Init
<1>2. type \in ColumnTypes
  BY <1>1, TypesAreTypes
<1>3. Holds(value, << >>, type)
  BY <1>1, <1>2, NewHoldsNothing
<1>4. << >> \in Seq(GoodRows(type)) /\ Len(<< >>) = 0 /\ << >> \in Seq(TableRows)
      /\ << >> \in Seq(RowsFor(type))
  OBVIOUS
<1>5. Rows(value) = 0
  BY <1>2, <1>3, <1>4, HoldingColumn
<1>6. Built = << >>
  BY <1>5, SubSeqEmpty DEF Built
<1>7. InsertInv
  BY <1>1, <1>3, <1>4, <1>5, <1>6 DEF InsertInv
<1>8. IterInv
  BY <1>1, <1>4, EmptyWalks
<1> QED BY <1>7, <1>8 DEF ColumnInv

\* Every step keeps it: one step of the proof per action.
LEMMA NextColumnInv ==
  ASSUME ColumnInv, [Next]_vars
  PROVE  ColumnInv'
<1>0. InsertInv /\ IterInv /\ type \in Types
  BY DEF ColumnInv, InsertInv
<1>1. given = table /\ table \in Seq(TableRows)
  BY <1>0 DEF InsertInv
<1>2. CASE Insert
  <2>1. /\ call' = "insert" /\ type' = type /\ value' = createColumn(type)
        /\ child' = Fresh(type.element) /\ UNCHANGED <<given, table, incoming, result, iter>>
        /\ \E n \in 1 .. MaxRows - Len(table) : rows' \in [1 .. n -> RowsFor(type)]
    BY <1>2 DEF Insert, Call, selectVars
  <2>2. rows' \in Seq(RowsFor(type))
    <3>1. PICK n \in 1 .. MaxRows - Len(table) : rows' \in [1 .. n -> RowsFor(type)]
      BY <2>1
    <3>2. MaxRows - Len(table) \in Int
      BY <1>1, MaxRowsIsNat, LenProperties
    <3>3. n \in Nat
      BY <3>2
    <3> QED BY <3>1, <3>3
  <2>3. InsertInv'
    BY <1>0, <1>1, <2>1, <2>2, InsertBegins
  <2>4. IterInv'
    BY <1>0, <2>1, SameKeepsIterInv
  <2> QED BY <2>3, <2>4 DEF ColumnInv
<1>3. CASE ConvertCell
  <2>1. UNCHANGED <<type, call, incoming, result, iter>>
    BY <1>3 DEF ConvertCell, selectVars
  <2>2. call = "insert"
    BY <1>3 DEF ConvertCell, Converting
  <2> QED BY <1>0, <1>3, <2>1, <2>2, CellKeepsInsertInv, SameKeepsIterInv DEF ColumnInv
<1>4. CASE ConvertArray
  <2>1. UNCHANGED <<type, call, incoming, result, iter>>
    BY <1>4 DEF ConvertArray, selectVars
  <2>2. call = "insert"
    BY <1>4 DEF ConvertArray, Converting
  <2> QED BY <1>0, <1>4, <2>1, <2>2, ArrayKeepsInsertInv, SameKeepsIterInv DEF ColumnInv
<1>5. CASE ConvertThrows
  <2>1. UNCHANGED <<type, incoming, result, iter>> /\ call' = "failed"
    BY <1>5 DEF ConvertThrows, Fail, selectVars
  <2> QED BY <1>0, <1>5, <2>1, RefusalKeepsInsertInv, SameKeepsIterInv DEF ColumnInv
<1>6. CASE InsertReturns
  <2>1. /\ Rows(value) = Len(rows) /\ Kept /\ UNCHANGED <<type, rows, value, child>>
        /\ UNCHANGED <<incoming, result, iter>> /\ call' = "none"
    BY <1>6 DEF InsertReturns, Sending, Return, selectVars
  <2>2. table' \in Seq(TableRows) /\ given' = table'
    BY <1>0, <2>1, KeptIsGiven
  <2> QED BY <1>0, <2>1, <2>2, SameKeepsInsertInv, SameKeepsIterInv DEF ColumnInv
<1>7. CASE InsertThrows
  <2>1. /\ Rows(value) = Len(rows) /\ UNCHANGED <<type, rows, value, child>>
        /\ UNCHANGED <<incoming, result, iter>> /\ call' = "failed"
        /\ Kept \/ UNCHANGED <<given, table>>
    BY <1>7 DEF InsertThrows, Sending, Fail, selectVars
  <2>2. table' \in Seq(TableRows) /\ given' = table'
    <3>1. CASE Kept
      BY <1>0, <2>1, <3>1, KeptIsGiven
    <3>2. CASE UNCHANGED <<given, table>>
      BY <1>1, <3>2
    <3> QED BY <2>1, <3>1, <3>2
  <2> QED BY <1>0, <2>1, <2>2, SameKeepsInsertInv, SameKeepsIterInv DEF ColumnInv
<1>8. CASE Select
  <2>1. /\ incoming' = table /\ result' = table /\ iter' = NoIterator
        /\ UNCHANGED <<type, rows, value, child, given, table>>
    BY <1>8 DEF Select, Call, insertVars
  <2>2. InsertInv'
    BY <1>0, <1>1, <2>1, SameKeepsInsertInv
  <2>3. IterInv'
    <3>1. TableRows' = TableRows
      BY <2>1 DEF TableRows
    <3>2. (incoming \in Seq(TableRows))' /\ (result = incoming)' /\ (iter = NoIterator)'
      BY <1>1, <2>1, <3>1 DEF NoIterator
    <3>3. ASSUME incoming \in Seq(TableRows), result = incoming, iter = NoIterator PROVE IterInv
      BY <3>3, EmptyWalks
    <3> QED BY <3>2, EmptyWalks, PTL
  <2> QED BY <2>2, <2>3 DEF ColumnInv
<1>9. CASE ReceiveBlock
  <2>1. UNCHANGED <<type, rows, value, child, given, table>>
    BY <1>9 DEF ReceiveBlock, insertVars
  <2> QED BY <1>0, <1>1, <1>9, <2>1, SameKeepsInsertInv, ReceiveKeepsIterInv DEF ColumnInv
<1>10. CASE SelectReturns
  <2>1. UNCHANGED <<type, rows, value, child, given, table>>
    BY <1>10 DEF SelectReturns, Return, insertVars
  <2> QED BY <1>0, <1>1, <1>10, <2>1, SameKeepsInsertInv, SelectReturnsKeepsIterInv DEF ColumnInv
<1>11. CASE SelectThrows
  <2>1. /\ iter' = NoIterator /\ incoming' = << >> /\ result' = << >>
        /\ UNCHANGED <<type, rows, value, child, given, table>>
    BY <1>11 DEF SelectThrows, Fail, insertVars
  <2>2. InsertInv'
    BY <1>0, <1>1, <2>1, SameKeepsInsertInv
  <2>3. IterInv'
    <3>2. (incoming \in Seq(TableRows))' /\ (result = incoming)' /\ (iter = NoIterator)'
      BY <2>1 DEF NoIterator
    <3> QED BY <3>2, EmptyWalks, PTL
  <2> QED BY <2>2, <2>3 DEF ColumnInv
<1>12. CASE RecoveryFails
  <2>1. /\ UNCHANGED <<type, rows, value, child, given, table, incoming, result, iter>>
        /\ call' = "unrecovered"
    BY <1>12 DEF RecoveryFails, insertVars, selectVars
  <2> QED BY <1>0, <1>1, <2>1, SameKeepsInsertInv, SameKeepsIterInv DEF ColumnInv
<1>13. CASE Throws
  <2>1. /\ UNCHANGED <<type, rows, value, child, given, table, incoming, result, iter>>
        /\ call' = "none"
    BY <1>13 DEF Throws, Return, insertVars, selectVars
  <2> QED BY <1>0, <1>1, <2>1, SameKeepsInsertInv, SameKeepsIterInv DEF ColumnInv
<1>14. CASE IterRewind
  <2>1. UNCHANGED <<type, rows, value, child, given, table>>
    BY <1>14 DEF IterRewind, Walk, insertVars
  <2> QED BY <1>0, <1>1, <1>14, <2>1, SameKeepsInsertInv, RewindKeepsIterInv DEF ColumnInv
<1>15. CASE IterNext
  <2>1. UNCHANGED <<type, rows, value, child, given, table>>
    BY <1>15 DEF IterNext, Walk, insertVars
  <2> QED BY <1>0, <1>1, <1>15, <2>1, SameKeepsInsertInv, NextKeepsIterInv DEF ColumnInv
<1>16. CASE LogCalls \/ UNCHANGED vars
  <2>1. UNCHANGED <<type, call, rows, value, child, given, table, incoming, result, iter>>
    BY <1>16 DEF LogCalls, vars, insertVars, selectVars
  <2>2. call' = "select" => ~iter.alive
    BY <1>0, <2>1 DEF IterInv
  <2> QED BY <1>0, <1>1, <2>1, <2>2, SameKeepsInsertInv, SameKeepsIterInv DEF ColumnInv
<1> QED BY <1>2, <1>3, <1>4, <1>5, <1>6, <1>7, <1>8, <1>9, <1>10, <1>11, <1>12, <1>13, <1>14,
           <1>15, <1>16 DEF Next

\* What it says of the columns and of the table.
LEMMA ColumnInvAgrees ==
  ASSUME ColumnInv
  PROVE  ColumnsAgree /\ StoredIsGiven
<1>0. InsertInv /\ IterInv /\ type \in ColumnTypes /\ Seq(TableRows) \subseteq Seq(GoodRows(type))
  BY TableRowsAreGood DEF ColumnInv, InsertInv
<1>1. PlacesAgree(value.data) /\ OffsetsAgree(value)
  BY <1>0, HoldingColumn DEF InsertInv
<1>2. PlacesAgree(child)
  <2>1. type.element \in ElementTypes
    BY <1>0 DEF ColumnTypes
  <2> QED BY <1>0, <2>1, FreshAgrees DEF InsertInv
<1>3. \A b \in DOMAIN iter.blocks : PlacesAgree(iter.blocks[b].data) /\ OffsetsAgree(iter.blocks[b])
  <2> TAKE b \in DOMAIN iter.blocks
  <2>1. PICK parts \in Seq(Seq(TableRows)) : Walks(iter, parts)
    BY <1>0 DEF IterInv
  <2>2. b \in 1 .. Len(parts)
    BY <1>0, <2>1, IterFields, LenProperties DEF Walks, IterInv
  <2>3. Holds(iter.blocks[b], parts[b], type) /\ parts[b] \in Seq(GoodRows(type))
    BY <1>0, <2>1, <2>2, ElementOfSeq DEF Walks
  <2> QED BY <1>0, <2>3, HoldingColumn
<1> QED BY <1>0, <1>1, <1>2, <1>3 DEF ColumnsAgree, StoredIsGiven, InsertInv

\* What it says of the iterator, where slices are right.
LEMMA IterInvShows ==
  ASSUME ColumnInv, SlicesAreRight
  PROVE  IteratorShowsResult
<1> SUFFICES ASSUME iter.alive
             PROVE  /\ iter.total = Len(result)
                    /\ IterValid <=> iter.key < Len(result)
                    /\ IterValid => IterCurrent = result[iter.key + 1]
  BY DEF IteratorShowsResult
<1>0. IterInv /\ type \in Types /\ type \in ColumnTypes /\ Seq(TableRows) \subseteq Seq(GoodRows(type))
  BY TableRowsAreGood DEF ColumnInv, InsertInv
<1>1. iter \in Iterators /\ incoming = << >>
  BY <1>0 DEF IterInv
<1>2. PICK parts \in Seq(Seq(TableRows)) : Walks(iter, parts) /\ Received(parts)
  BY <1>0 DEF IterInv
<1>3. result = FlattenSeq(parts) /\ result \in Seq(TableRows)
  <2>1. FlattenSeq(parts) \in Seq(TableRows)
    BY FlattenType
  <2> QED BY <1>1, <1>2, <2>1, ConcatEmptySeq DEF Received, Joins
<1>4. /\ Len(parts) = Len(iter.blocks) /\ iter.total = Len(FlattenSeq(parts))
      /\ iter.block \in 0 .. Len(parts) /\ Len(parts) \in Nat
      /\ IF iter.block < Len(parts) THEN iter.row < Len(parts[iter.block + 1]) ELSE iter.row = 0
      /\ iter.key = EndOf(parts, iter.block) + iter.row
      /\ iter.row \in Nat /\ iter.block \in Nat
  BY <1>1, <1>2, IterFields, LenProperties DEF Walks
<1>5. CASE iter.block = Len(parts)
  <2>1. Len(parts) \in 0 .. Len(parts) /\ Len(parts) \in Len(parts) .. Len(parts)
    BY <1>4
  <2>2. EndOf(parts, Len(parts)) = Len(FlattenSeq(parts)) /\ EndOf(parts, Len(parts)) \in Nat
    BY <2>1, EndsInOrder
  <2>3. ~IterValid /\ ~(iter.key < Len(result))
    BY <1>3, <1>4, <1>5, <2>2 DEF IterValid
  <2> QED BY <1>3, <1>4, <2>3
<1>6. CASE iter.block < Len(parts)
  <2> DEFINE m == iter.block + 1
  <2> DEFINE part == parts[m]
  <2> DEFINE col == iter.blocks[m]
  <2>1. /\ BlockRows(iter.block) = Len(part) /\ Len(part) \in Nat /\ m \in 1 .. Len(parts)
        /\ part \in Seq(TableRows) /\ Holds(col, part, type) /\ m - 1 = iter.block
    BY <1>0, <1>2, <1>4, <1>6, BlockRowsAre
  <2>2. IterValid
    BY <1>4, <1>6, <2>1 DEF IterValid
  <2>3. /\ EndOf(parts, m - 1) \in Nat /\ EndOf(parts, m) = EndOf(parts, m - 1) + Len(part)
        /\ EndOf(parts, m) <= Len(FlattenSeq(parts))
        /\ \A i \in 1 .. Len(part) : FlattenSeq(parts)[EndOf(parts, m - 1) + i] = part[i]
    <3> HIDE DEF m
    <3> QED BY <2>1, EndsCutParts
  <2> DEFINE x == EndOf(parts, m - 1)
  <2> DEFINE r == iter.row + 1
  <2>4. r \in 1 .. Len(part) /\ iter.key = x + iter.row /\ iter.key + 1 = x + r /\ r - 1 = iter.row
        /\ iter.key \in Nat
    <3> DEFINE l == Len(part)
    <3>1. /\ x \in Nat /\ iter.row \in Nat /\ iter.key = x + iter.row
          /\ l \in Nat /\ iter.row < l /\ l = Len(part)
      BY <1>4, <1>6, <2>1, <2>3
    <3> HIDE DEF x, l
    <3>2. /\ iter.row + 1 \in 1 .. l /\ iter.key = x + iter.row /\ iter.key + 1 = x + (iter.row + 1)
          /\ iter.row + 1 - 1 = iter.row /\ iter.key \in Nat
      BY <3>1
    <3>3. r = iter.row + 1
      OBVIOUS
    <3> HIDE DEF part, r
    <3>4. r \in 1 .. l /\ iter.key + 1 = x + r /\ r - 1 = iter.row
      BY <3>1, <3>2, <3>3
    <3> QED BY <3>1, <3>2, <3>4
  <2>5. iter.key < Len(result)
    <3> DEFINE l == Len(part)
    <3> DEFINE n == Len(result)
    <3>1. n \in Nat /\ x \in Nat /\ l \in Nat /\ x + l <= n
      BY <1>3, <2>1, <2>3, LenProperties
    <3>2. iter.row \in Nat /\ iter.row < l /\ iter.key = x + iter.row
      BY <1>4, <1>6, <2>1, <2>4
    <3> HIDE DEF m, part, x, l, n
    <3>3. iter.key < n
      BY <3>1, <3>2
    <3> QED BY <3>3 DEF n
  <2>6. result[iter.key + 1] = part[r]
    BY <1>3, <2>3, <2>4
  <2>7. convertToZval(col, r - 1, type) = part[r]
    <3> HIDE DEF r, part, col
    <3>1. part \in Seq(GoodRows(type)) /\ part[r] \in TableRows
      BY <1>0, <2>1, <2>4, ElementOfSeq
    <3>2. SlicesRight(part[r], type)
      BY <1>0, <3>1 DEF TableRows, SlicesAreRight
    <3> QED BY <1>0, <2>1, <2>4, <3>1, <3>2, ConvertsRow
  <2>8. IterCurrent = part[r]
    BY <2>4, <2>7 DEF IterCurrent
  <2> QED BY <1>3, <1>4, <2>2, <2>5, <2>6, <2>8
<1> QED BY <1>4, <1>5, <1>6

\* For every set of types and rows: the column that an insert builds, the column of the
\* parts, and every block that an iterator keeps have an index, a dictionary and a map
\* that agree, and offsets that end at the data (typesToPhp.cpp, lowcardinality.cpp,
\* array.cpp), whatever inserts were refused half way.
THEOREM ColumnsAlwaysAgree == Spec => []ColumnsAgree
<1>1. ColumnInv /\ [Next]_vars => ColumnInv'
  BY NextColumnInv
<1>2. Init => ColumnInv
  BY InitColumnInv
<1>3. ColumnInv => ColumnsAgree
  BY ColumnInvAgrees
<1> QED BY <1>1, <1>2, <1>3, PTL DEF Spec

\* The table has exactly the rows that successful inserts gave it, padded texts read
\* without their padding and NULL as NULL: nothing of a refused insert reaches it.
THEOREM TableIsGiven == Spec => []StoredIsGiven
<1>1. ColumnInv /\ [Next]_vars => ColumnInv'
  BY NextColumnInv
<1>2. Init => ColumnInv
  BY InitColumnInv
<1>3. ColumnInv => StoredIsGiven
  BY ColumnInvAgrees
<1> QED BY <1>1, <1>2, <1>3, PTL DEF Spec

\* An iterator is valid for as many rows as the result has, and shows each row of the
\* result at its number, over the blocks' boundaries and after a rewind
\* (clickhouse.cpp's ClickHouseRowIterator), where no array of Nullable(String) has an
\* empty text: with one, the run lc_slice shows that it does not.
THEOREM IteratorIsRight == ASSUME SlicesAreRight PROVE Spec => []IteratorShowsResult
<1>1. ColumnInv /\ [Next]_vars => ColumnInv'
  BY NextColumnInv
<1>2. Init => ColumnInv
  BY InitColumnInv
<1>3. ColumnInv => IteratorShowsResult
  BY IterInvShows
<1> QED BY <1>1, <1>2, <1>3, PTL DEF Spec

==============================================================================
