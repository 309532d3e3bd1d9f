----------------------------- MODULE MCColumnTrip -----------------------------
(* Column types and rows for TLC. *)
EXTENDS ColumnTrip

Type(array, nullable, width) ==
  [array |-> array, element |-> [nullable |-> nullable, width |-> width]]

MCBytes == {"a", "b", "0"}

\* Texts of an element: the empty one, two others, and one that no FixedString(1) holds.
Some(t) ==
  (IF t.nullable THEN {NullItem} ELSE {}) \cup
  (IF t.width = 0 THEN {<< >>, <<"a">>, <<"b">>} ELSE {<< >>, <<"a">>, <<"a", "b">>})

Arrays(items) == UNION {[1 .. n -> items] : n \in 0 .. 2}

\* All types but the one whose slices are wrong, and that one without empty texts.
MCTypes == {Type(a, n, w) : a, n \in BOOLEAN, w \in {0, 1}}

MCRows(t) ==
  IF t.array
  THEN Arrays(IF t = Type(TRUE, TRUE, 0) THEN {NullItem, <<"a">>} ELSE Some(t.element))
  ELSE Some(t.element)

MCNullableArrays == {Type(TRUE, TRUE, 0)}

MCAllRows(t) == Arrays(Some(t.element))

=============================================================================
