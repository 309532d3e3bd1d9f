--------------------------- MODULE StreamLoad_proofs ---------------------------
(***************************************************************************)
(* insertFromStream() loads what its text means, for every text and every  *)
(* split of it into chunks: it refuses a text only where it is malformed   *)
(* as far as it was parsed, and it is an all-or-nothing load of the rows   *)
(* of the text.  The grammar is by positions and the parser by states: the *)
(* proof says for each state of the parser which cell of which row of the  *)
(* text it is in, and that what it has of the cell is the value up to the  *)
(* byte at hand.                                                           *)
(***************************************************************************)
EXTENDS StreamTransfer_proofs

------------------------------------------------------------------------------
(* Cells as positions of the text. *)

\* The texts, and what the grammar says of a cell and of a row of one.
Texts == Seq(Bytes)
CellRecs == [end : Nat, value : Cells, ok : BOOLEAN]
RowRecs == [end : Nat, cells : Seq(Cells), ok : BOOLEAN]

\* What ends a cell.
Terminators == LineEnds \cup {"sep"}

\* A part of a text, by its positions.
LEMMA CutIs ==
  ASSUME NEW t \in Texts, NEW i \in 1 .. Len(t) + 1, NEW e \in i .. Len(t) + 1
  PROVE  /\ SubSeq(t, i, e - 1) \in Seq(Bytes) /\ Len(SubSeq(t, i, e - 1)) = e - i
         /\ \A n \in 1 .. e - i : SubSeq(t, i, e - 1)[n] = t[i + n - 1]
<1>1. Len(t) \in Nat /\ \A n \in 1 .. Len(t) : t[n] \in Bytes
  BY ElementOfSeq, LenProperties DEF Texts
<1> DEFINE m == e - 1
<1>2. i \in Int /\ m \in Int /\ \A n \in i .. m : t[n] \in Bytes
  BY <1>1
<1>3. /\ (IF i <= m THEN m - i + 1 ELSE 0) = e - i
      /\ \A n \in 1 .. e - i : n \in 1 .. m - i + 1
  BY <1>1
<1>4. /\ SubSeq(t, i, m) \in Seq(Bytes) /\ Len(SubSeq(t, i, m)) = (IF i <= m THEN m - i + 1 ELSE 0)
      /\ \A n \in 1 .. m - i + 1 : SubSeq(t, i, m)[n] = t[i + n - 1]
  <2> HIDE DEF m
  <2> QED BY <1>2, SubSeqProperties
<1> QED BY <1>3, <1>4

\* One byte more of a text.
LEMMA CutGrows ==
  ASSUME NEW t \in Texts, NEW i \in 1 .. Len(t), NEW e \in i .. Len(t)
  PROVE  SubSeq(t, i, e) = Append(SubSeq(t, i, e - 1), t[e]) /\ SubSeq(t, i, i - 1) = << >>
<1>1. Len(t) \in Nat /\ t[e] \in Bytes /\ e \in 1 .. Len(t)
  BY ElementOfSeq, LenProperties DEF Texts
<1> DEFINE a == SubSeq(t, i, e)
<1> DEFINE b == SubSeq(t, i, e - 1)
<1> DEFINE k == e + 1
<1>2. k \in i .. Len(t) + 1 /\ e \in i .. Len(t) + 1 /\ k - 1 = e /\ i \in 1 .. Len(t) + 1
  BY <1>1
<1>3. a \in Seq(Bytes) /\ Len(a) = e + 1 - i /\ \A n \in 1 .. e + 1 - i : a[n] = t[i + n - 1]
  <2>1. /\ SubSeq(t, i, k - 1) \in Seq(Bytes) /\ Len(SubSeq(t, i, k - 1)) = k - i
        /\ \A n \in 1 .. k - i : SubSeq(t, i, k - 1)[n] = t[i + n - 1]
    <3> HIDE DEF k
    <3> QED BY <1>2, CutIs
  <2> QED BY <1>2, <2>1
<1>4. b \in Seq(Bytes) /\ Len(b) = e - i /\ \A n \in 1 .. e - i : b[n] = t[i + n - 1]
  BY <1>2, CutIs
<1> HIDE DEF a, b
<1> DEFINE x == t[e]
<1> DEFINE c == Append(b, x)
<1>5. c \in Seq(Bytes) /\ Len(c) = e - i + 1 /\ c[e - i + 1] = t[e] /\ \A n \in 1 .. e - i : c[n] = b[n]
  <2>0. x \in Bytes /\ b \in Seq(Bytes)
    BY <1>1, <1>4
  <2> HIDE DEF x
  <2>1. /\ c \in Seq(Bytes) /\ Len(c) = Len(b) + 1 /\ c[Len(b) + 1] = x
        /\ \A n \in 1 .. Len(b) : c[n] = b[n]
    BY <2>0, AppendProperties
  <2> HIDE DEF c
  <2>2. x = t[e]
    BY DEF x
  <2> QED BY <1>4, <2>1, <2>2
<1> HIDE DEF c
<1>6. ASSUME NEW n \in 1 .. Len(a) PROVE a[n] = c[n]
  <2>1. CASE n = e - i + 1
    <3>1. i + n - 1 = e /\ n \in 1 .. e + 1 - i
      BY <1>1, <1>3, <2>1
    <3> QED BY <1>3, <1>5, <2>1, <3>1
  <2>2. CASE n # e - i + 1
    <3>1. n \in 1 .. e - i /\ n \in 1 .. e + 1 - i
      BY <1>1, <1>3, <2>2
    <3> QED BY <1>3, <1>4, <1>5, <3>1
  <2> QED BY <2>1, <2>2
<1>7. Len(a) = Len(c)
  BY <1>1, <1>3, <1>5
<1>8. a = c
  BY <1>3, <1>5, <1>6, <1>7, SeqEqual
<1>9. SubSeq(t, i, i - 1) = << >>
  <2>1. i \in Int /\ i - 1 \in Int /\ i - 1 < i
    OBVIOUS
  <2> QED BY <2>1, SubSeqEmpty
<1> QED BY <1>8, <1>9 DEF a, b, c, x

\* Pieces, one after the other.
LEMMA PiecesType ==
  ASSUME NEW A, NEW n \in Nat, NEW f \in [1 .. n -> Seq(A)]
  PROVE  f \in Seq(Seq(A)) /\ Len(f) = n /\ FlattenSeq(f) \in Seq(A)
<1>1. f \in Seq(Seq(A)) /\ Len(f) = n
  BY FunctionIsSeq
<1> QED BY <1>1, FlattenType

\* One piece more.
LEMMA PiecesGrow ==
  ASSUME NEW A, NEW n \in Nat, NEW f \in [1 .. n -> Seq(A)], NEW g \in [1 .. n + 1 -> Seq(A)],
         \A m \in 1 .. n : f[m] = g[m]
  PROVE  FlattenSeq(g) = FlattenSeq(f) \o g[n + 1]
<1>1. n + 1 \in Nat /\ n + 1 \in 1 .. n + 1 /\ \A m \in 1 .. n : m \in 1 .. n + 1 /\ m # n + 1
  OBVIOUS
<1>2. g[n + 1] \in Seq(A)
  BY <1>1
<1>3. f \in Seq(Seq(A)) /\ Len(f) = n /\ g \in Seq(Seq(A)) /\ Len(g) = n + 1
  BY <1>1, FunctionIsSeq
<1> DEFINE h == Append(f, g[n + 1])
<1>4. /\ h \in Seq(Seq(A)) /\ Len(h) = n + 1 /\ h[n + 1] = g[n + 1]
      /\ \A m \in 1 .. n : h[m] = f[m]
  BY <1>2, <1>3, AppendProperties
<1>5. FlattenSeq(h) = FlattenSeq(f) \o g[n + 1]
  BY <1>2, <1>3, FlattenAppend
<1> HIDE DEF h
<1>6. ASSUME NEW m \in 1 .. n + 1 PROVE g[m] = h[m]
  <2>1. m \in 1 .. n \/ m = n + 1
    OBVIOUS
  <2> QED BY <1>4, <2>1
<1>7. g = h
  <2> DEFINE B == Seq(A)
  <2>1. g \in Seq(B) /\ h \in Seq(B) /\ Len(g) = Len(h) /\ \A m \in 1 .. Len(g) : g[m] = h[m]
    BY <1>3, <1>4, <1>6
  <2> HIDE DEF B
  <2> QED BY <2>1, SeqEqual
<1> QED BY <1>5, <1>7

\* What a letter stands for is the same to the reader and to the reference.
LEMMA UnescapeIs ==
  ASSUME NEW c \in Bytes
  PROVE  Unescape(c) = Unescaped(c) /\ Unescape(c) \in Bytes
<1>1. DOMAIN TsvEscapes = {"bs", "sep", "lf", "cr"}
  BY DEF TsvEscapes
<1>2. DOMAIN EscapeLetters = {"bs", "t", "n", "r"}
  BY DEF EscapeLetters
<1>3. /\ TsvEscapes["bs"] = "bs" /\ TsvEscapes["sep"] = "t" /\ TsvEscapes["lf"] = "n" /\ TsvEscapes["cr"] = "r"
      /\ EscapeLetters["bs"] = "bs" /\ EscapeLetters["t"] = "sep" /\ EscapeLetters["n"] = "lf"
      /\ EscapeLetters["r"] = "cr"
  BY DEF TsvEscapes, EscapeLetters
<1>4. CASE c \notin {"bs", "t", "n", "r"}
  <2>1. ~\E b \in DOMAIN TsvEscapes : TsvEscapes[b] = c
    BY <1>1, <1>3, <1>4
  <2> QED BY <1>2, <1>4, <2>1 DEF Unescape, Unescaped
<1>5. CASE c \in {"bs", "t", "n", "r"}
  <2>1. PICK b \in DOMAIN TsvEscapes : b = EscapeLetters[c] /\ TsvEscapes[b] = c
    BY <1>1, <1>3, <1>5
  <2>2. \A a \in DOMAIN TsvEscapes : TsvEscapes[a] = c => a = b
    BY <1>1, <1>3, <2>1
  <2>3. Unescape(c) = b
    BY <2>1, <2>2 DEF Unescape
  <2>4. b \in Bytes /\ Unescaped(c) = b
    BY <1>1, <1>2, <1>5, <2>1 DEF Unescaped, Bytes
  <2> QED BY <2>3, <2>4
<1> QED BY <1>4, <1>5

------------------------------------------------------------------------------
(* TSV: escapes from left to right. *)

\* A nonempty set of the first numbers has a greatest member.
LEMMA GreatestIs ==
  ASSUME NEW n \in Nat, NEW S \in SUBSET (0 .. n), S # {}
  PROVE  Max(S) \in S /\ \A x \in S : x <= Max(S)
<1> DEFINE P == S \ {0}
<1>1. CASE P = {}
  <2>0. \A x \in S : x = 0
    BY <1>1
  <2>1. S \in SUBSET Int /\ 0 \in S /\ \A x \in S : x <= 0
    <3>1. PICK z : z \in S
      OBVIOUS
    <3>2. 0 \in S
      BY <2>0, <3>1
    <3>3. \A x \in S : x <= 0 /\ x \in Int
      BY <2>0
    <3> QED BY <3>2, <3>3
  <2>2. Max(S) = 0
    BY <2>1, MaxIsGreatest
  <2> HIDE DEF P
  <2> QED BY <2>1, <2>2
<1>2. CASE P # {}
  <2>1. P \in SUBSET (1 .. n)
    OBVIOUS
  <2> DEFINE m == Max(P)
  <2>2. m \in P /\ \A y \in P : m >= y
    <3> HIDE DEF P
    <3> QED BY <1>2, <2>1, MaxIn
  <2> HIDE DEF m
  <2>3. S \in SUBSET Int /\ m \in S /\ \A x \in S : x <= m
    BY <2>2
  <2>4. Max(S) = m
    BY <2>3, MaxIsGreatest
  <2> QED BY <2>3, <2>4
<1> QED BY <1>1, <1>2

\* The first byte of a cell is not escaped, and a later one is behind a backslash that is not.
LEMMA EscapedIs ==
  ASSUME NEW t, NEW i \in Nat \ {0}
  PROVE  /\ ~Escaped(t, i, i)
         /\ \A k \in Nat : i <= k => (Escaped(t, i, k + 1) <=> t[k] = "bs" /\ ~Escaped(t, i, k))
<1> DEFINE S(k) == {i - 1} \cup {j \in i .. k - 1 : t[j] # "bs"}
<1> DEFINE R(k) == k - 1 - Max(S(k))
<1>1. \A k \in Nat : (Escaped(t, i, k) <=> R(k) % 2 = 1)
  BY DEF Escaped, RunBefore
<1>2. ASSUME NEW k \in Nat, i <= k
      PROVE  Max(S(k)) \in S(k) /\ (\A x \in S(k) : x <= Max(S(k))) /\ Max(S(k)) \in 0 .. k - 1
  <2>1. k - 1 \in Nat /\ S(k) \in SUBSET (0 .. k - 1) /\ S(k) # {}
    BY <1>2
  <2> HIDE DEF S
  <2>2. Max(S(k)) \in S(k) /\ (\A x \in S(k) : x <= Max(S(k)))
    BY <2>1, GreatestIs
  <2> QED BY <2>1, <2>2
<1>3. R(i) = 0
  <2>1. S(i) = {i - 1}
    OBVIOUS
  <2>2. Max(S(i)) = i - 1
    <3>1. i \in Nat /\ i <= i
      OBVIOUS
    <3>2. Max(S(i)) \in S(i)
      <4> HIDE DEF S
      <4> QED BY <1>2, <3>1
    <3> QED BY <2>1, <3>2
  <2> QED BY <2>2
<1>4. ASSUME NEW k \in Nat, i <= k
      PROVE  R(k) \in Nat /\ R(k + 1) = IF t[k] = "bs" THEN R(k) + 1 ELSE 0
  <2>1. k + 1 \in Nat /\ i <= k + 1 /\ k + 1 - 1 = k
    BY <1>4
  <2> DEFINE a == Max(S(k))
  <2> DEFINE b == Max(S(k + 1))
  <2>2. a \in S(k) /\ (\A x \in S(k) : x <= a) /\ a \in 0 .. k - 1
    <3> HIDE DEF S
    <3> QED BY <1>2, <1>4
  <2>3. b \in S(k + 1) /\ \A x \in S(k + 1) : x <= b
    <3> HIDE DEF S
    <3> QED BY <1>2, <2>1
  <2>4. R(k) = k - 1 - a /\ R(k + 1) = k - b
    BY <2>1
  <2> HIDE DEF a, b, R
  <2>5. CASE t[k] = "bs"
    <3>1. S(k + 1) = S(k)
      BY <1>4, <2>1, <2>5
    <3>2. a = b
      BY <2>2, <2>3, <3>1
    <3> QED BY <2>2, <2>4, <2>5, <3>2
  <2>6. CASE t[k] # "bs"
    <3>1. k \in S(k + 1) /\ \A x \in S(k + 1) : x <= k
      BY <1>4, <2>1, <2>6
    <3>2. b = k
      BY <2>3, <3>1
    <3> QED BY <2>2, <2>4, <2>6, <3>2
  <2> QED BY <2>5, <2>6
<1> HIDE DEF R
<1>5. ~Escaped(t, i, i)
  BY <1>1, <1>3
<1>6. ASSUME NEW k \in Nat, i <= k
      PROVE  Escaped(t, i, k + 1) <=> t[k] = "bs" /\ ~Escaped(t, i, k)
  <2>1. k + 1 \in Nat /\ R(k) \in Nat /\ R(k + 1) = IF t[k] = "bs" THEN R(k) + 1 ELSE 0
    BY <1>4, <1>6
  <2>2. (R(k) + 1) % 2 = 1 <=> ~(R(k) % 2 = 1)
    BY <2>1
  <2>3. (Escaped(t, i, k) <=> R(k) % 2 = 1) /\ (Escaped(t, i, k + 1) <=> R(k + 1) % 2 = 1)
    BY <1>1, <2>1
  <2>4. CASE t[k] = "bs"
    BY <2>1, <2>2, <2>3, <2>4
  <2>5. CASE t[k] # "bs"
    <3>1. 0 % 2 = 0
      OBVIOUS
    <3> QED BY <2>1, <2>3, <2>5, <3>1
  <2> QED BY <2>4, <2>5
<1> QED BY <1>5, <1>6

\* What is escaped in a cell of a text is so in the cell alone.
LEMMA EscapedInCell ==
  ASSUME NEW t \in Texts, NEW i \in 1 .. Len(t) + 1, NEW e \in i .. Len(t) + 1,
         NEW n \in 1 .. e - i
  PROVE  Escaped(SubSeq(t, i, e - 1), 1, n) <=> Escaped(t, i, i + n - 1)
<1> DEFINE raw == SubSeq(t, i, e - 1)
<1> DEFINE T == {m \in Nat : m + 1 <= e - i => (Escaped(raw, 1, m + 1) <=> Escaped(t, i, i + m))}
<1>1. /\ Len(raw) = e - i /\ \A m \in 1 .. e - i : raw[m] = t[i + m - 1]
  BY CutIs
<1>2. Len(t) \in Nat /\ i \in Nat \ {0} /\ e \in Nat /\ 1 \in Nat \ {0}
  BY LenProperties DEF Texts
<1> HIDE DEF raw
<1>3. 0 \in T
  <2>1. ~Escaped(raw, 1, 1) /\ ~Escaped(t, i, i) /\ 0 + 1 = 1 /\ i + 0 = i
    BY <1>2, EscapedIs
  <2> QED BY <2>1
<1>4. ASSUME NEW m \in Nat, m \in T PROVE m + 1 \in T
  <2> SUFFICES ASSUME m + 1 + 1 <= e - i
               PROVE  Escaped(raw, 1, m + 1 + 1) <=> Escaped(t, i, i + (m + 1))
    OBVIOUS
  <2>1. /\ m + 1 \in Nat /\ 1 <= m + 1 /\ m + 1 \in 1 .. e - i /\ i + m \in Nat /\ i <= i + m
        /\ i + (m + 1) - 1 = i + m /\ i + m + 1 = i + (m + 1) /\ m + 1 <= e - i
    BY <1>2
  <2>2. Escaped(raw, 1, m + 1) <=> Escaped(t, i, i + m)
    BY <1>4, <2>1
  <2>3. Escaped(raw, 1, m + 1 + 1) <=> raw[m + 1] = "bs" /\ ~Escaped(raw, 1, m + 1)
    BY <1>2, <2>1, EscapedIs
  <2>4. Escaped(t, i, i + m + 1) <=> t[i + m] = "bs" /\ ~Escaped(t, i, i + m)
    BY <1>2, <2>1, EscapedIs
  <2>5. raw[m + 1] = t[i + m]
    BY <1>1, <2>1
  <2> QED BY <2>1, <2>2, <2>3, <2>4, <2>5
<1>5. \A m \in Nat : m \in T
  <2> HIDE DEF T
  <2> QED BY <1>3, <1>4, NatSetInduction
<1>6. n - 1 \in Nat /\ n - 1 + 1 = n /\ i + (n - 1) = i + n - 1 /\ n <= e - i
  BY <1>2
<1>7. n - 1 + 1 <= e - i => (Escaped(raw, 1, n - 1 + 1) <=> Escaped(t, i, i + (n - 1)))
  BY <1>5, <1>6
<1> QED BY <1>6, <1>7 DEF raw

\* What the byte at k adds to the value of a TSV cell that starts at i.
Piece(t, i, k) ==
  IF Escaped(t, i, k)
  THEN IF t[k] = "N" THEN NullMarker ELSE <<Unescape(t[k])>>
  ELSE IF t[k] = "bs" THEN << >> ELSE <<t[k]>>

\* What the bytes from i to the one before k add.
Pieces(t, i, k) == FlattenSeq([n \in 1 .. k - i |-> Piece(t, i, i + n - 1)])

\* The cell that starts at i begins with the mark of NULL.
MarksNull(t, i) == t[i] = "bs" /\ t[i + 1] = "N"

\* The parser is in a TSV cell that started at i, and the next byte is at k.
TsvIn(q, t, i, k) ==
  /\ \A j \in i .. k - 1 : t[j] \in Terminators => Escaped(t, i, j)
  /\ q.escape <=> Escaped(t, i, k)
  /\ q.cell = Pieces(t, i, k)
  /\ q.cell = << >> => k = i \/ (k = i + 1 /\ q.escape)
  /\ q.state = IF k = i THEN "CellStart" ELSE "InCell"
  /\ ~q.quoted
  /\ q.null <=> k = i + 2 /\ MarksNull(t, i)
  /\ k > i + 2 => ~MarksNull(t, i)

\* A piece is bytes.
LEMMA PieceType ==
  ASSUME NEW t \in Texts, NEW i \in 1 .. Len(t) + 1, NEW k \in i .. Len(t)
  PROVE  Piece(t, i, k) \in Seq(Bytes) /\ t[k] \in Bytes
<1>1. t[k] \in Bytes
  BY ElementOfSeq, LenProperties DEF Texts
<1>2. Unescape(t[k]) \in Bytes
  BY <1>1, UnescapeIs
<1>3. <<t[k]>> \in Seq(Bytes) /\ <<Unescape(t[k])>> \in Seq(Bytes) /\ << >> \in Seq(Bytes)
  BY <1>1, <1>2
<1> QED BY <1>1, <1>3, MarkerIsBytes DEF Piece

\* The value of a cell up to a byte, and with the byte.
LEMMA PiecesNext ==
  ASSUME NEW t \in Texts, NEW i \in 1 .. Len(t) + 1, NEW k \in i .. Len(t) + 1
  PROVE  /\ Pieces(t, i, i) = << >> /\ Pieces(t, i, k) \in Seq(Bytes)
         /\ k <= Len(t) => Pieces(t, i, k + 1) = Pieces(t, i, k) \o Piece(t, i, k)
<1> DEFINE f(e) == [n \in 1 .. e - i |-> Piece(t, i, i + n - 1)]
<1>0. Len(t) \in Nat
  BY LenProperties DEF Texts
<1>1. ASSUME NEW e \in i .. Len(t) + 1
      PROVE  /\ e - i \in Nat /\ f(e) \in [1 .. e - i -> Seq(Bytes)]
             /\ \A n \in 1 .. e - i : f(e)[n] = Piece(t, i, i + n - 1)
  <2>1. e - i \in Nat /\ \A n \in 1 .. e - i : i + n - 1 \in i .. Len(t)
    BY <1>0
  <2>2. \A n \in 1 .. e - i : Piece(t, i, i + n - 1) \in Seq(Bytes)
    BY <2>1, PieceType
  <2> QED BY <2>1, <2>2
<1>2. \A e : Pieces(t, i, e) = FlattenSeq(f(e))
  BY DEF Pieces
<1>3. Pieces(t, i, i) = << >>
  <2>1. 1 .. i - i = {}
    BY <1>0
  <2>2. f(i) = << >>
    BY <2>1
  <2> QED BY <1>2, <2>2, FlattenEmpty
<1>4. Pieces(t, i, k) \in Seq(Bytes)
  <2> DEFINE n == k - i
  <2> DEFINE g == f(k)
  <2>1. n \in Nat /\ g \in [1 .. n -> Seq(Bytes)]
    BY <1>1
  <2>2. Pieces(t, i, k) = FlattenSeq(g)
    BY <1>2
  <2> HIDE DEF n, g
  <2>3. FlattenSeq(g) \in Seq(Bytes)
    BY <2>1, PiecesType, Zenon
  <2> QED BY <2>2, <2>3
<1>5. ASSUME k <= Len(t) PROVE Pieces(t, i, k + 1) = Pieces(t, i, k) \o Piece(t, i, k)
  <2> DEFINE n == k - i
  <2> DEFINE g == f(k)
  <2> DEFINE h == f(k + 1)
  <2>1. k + 1 \in i .. Len(t) + 1 /\ k + 1 - i = n + 1 /\ n + 1 \in 1 .. n + 1 /\ i + (n + 1) - 1 = k
    BY <1>0, <1>5
  <2>2. /\ n \in Nat /\ g \in [1 .. n -> Seq(Bytes)]
        /\ \A m \in 1 .. n : g[m] = Piece(t, i, i + m - 1)
    BY <1>1
  <2>3. /\ h \in [1 .. n + 1 -> Seq(Bytes)]
        /\ \A m \in 1 .. n + 1 : h[m] = Piece(t, i, i + m - 1)
    <3>1. /\ f(k + 1) \in [1 .. k + 1 - i -> Seq(Bytes)]
          /\ \A m \in 1 .. k + 1 - i : f(k + 1)[m] = Piece(t, i, i + m - 1)
      <4> HIDE DEF f
      <4> QED BY <1>1, <2>1
    <3> HIDE DEF f, n
    <3> QED BY <2>1, <3>1
  <2>4. Pieces(t, i, k) = FlattenSeq(g) /\ Pieces(t, i, k + 1) = FlattenSeq(h)
    BY <1>2
  <2> HIDE DEF n, g, h
  <2>5. \A m \in 1 .. n : m \in 1 .. n + 1 /\ g[m] = h[m]
    BY <2>2, <2>3
  <2>6. h[n + 1] = Piece(t, i, k)
    BY <2>1, <2>3
  <2>7. FlattenSeq(h) = FlattenSeq(g) \o h[n + 1]
    BY <2>2, <2>3, <2>5, PiecesGrow
  <2> QED BY <2>4, <2>6, <2>7
<1> QED BY <1>3, <1>4, <1>5

\* A cell begins with nothing of it read.
LEMMA TsvBegins ==
  ASSUME NEW t \in Texts, NEW i \in 1 .. Len(t) + 1, NEW q
  PROVE  TsvIn(q, t, i, i) <=> q.state = "CellStart" /\ q.cell = << >> /\ ~q.quoted /\ ~q.null /\ ~q.escape
<1>1. Len(t) \in Nat
  BY LenProperties DEF Texts
<1>2. /\ i .. i - 1 = {} /\ ~(i > i + 2) /\ i # i + 2 /\ i \in i .. Len(t) + 1 /\ i \in Nat \ {0}
  BY <1>1
<1>3. Pieces(t, i, i) = << >> /\ ~Escaped(t, i, i)
  BY <1>2, PiecesNext, EscapedIs
<1> QED BY <1>2, <1>3 DEF TsvIn

\* Every byte that stays in its cell: what is read of the cell grows by its piece.
LEMMA TsvGrows ==
  ASSUME NEW t \in Texts, NEW i \in 1 .. Len(t) + 1, NEW k \in i .. Len(t), NEW q, TsvIn(q, t, i, k),
         t[k] \in Terminators => q.escape,
         NEW r, r.cell = q.cell \o Piece(t, i, k), r.state = "InCell", ~r.quoted,
         r.escape <=> t[k] = "bs" /\ ~q.escape,
         q.null => FALSE,
         r.null <=> k = i + 1 /\ q.escape /\ t[k] = "N"
  PROVE  TsvIn(r, t, i, k + 1)
<1>1. Len(t) \in Nat /\ i \in Nat \ {0} /\ i \in Nat /\ k \in Nat /\ i <= k /\ k + 1 # i /\ k \in i .. Len(t) + 1
  BY LenProperties DEF Texts
<1>2. Escaped(t, i, k + 1) <=> t[k] = "bs" /\ ~Escaped(t, i, k)
  BY <1>1, EscapedIs
<1>3. q.escape <=> Escaped(t, i, k)
  BY DEF TsvIn
<1>4. \A j \in i .. k + 1 - 1 : t[j] \in Terminators => Escaped(t, i, j)
  <2> SUFFICES ASSUME NEW j \in i .. k + 1 - 1, t[j] \in Terminators PROVE Escaped(t, i, j)
    OBVIOUS
  <2>1. j \in i .. k - 1 \/ j = k
    BY <1>1
  <2> QED BY <1>3, <2>1 DEF TsvIn
<1>5. r.escape <=> Escaped(t, i, k + 1)
  BY <1>2, <1>3
<1>6. r.cell = Pieces(t, i, k + 1)
  <2>1. Pieces(t, i, k + 1) = Pieces(t, i, k) \o Piece(t, i, k)
    BY <1>1, PiecesNext
  <2> QED BY <2>1 DEF TsvIn
<1>7. ~Escaped(t, i, i)
  BY <1>1, EscapedIs
<1>8. q.escape => k >= i + 1
  BY <1>1, <1>3, <1>7
<1>9. Escaped(t, i, i + 1) <=> t[i] = "bs"
  <2>1. i <= i
    BY <1>1
  <2> QED BY <1>1, <1>7, <2>1, EscapedIs
<1>10. r.null <=> k + 1 = i + 2 /\ MarksNull(t, i)
  <2>1. CASE k = i + 1
    <3>1. k + 1 = i + 2 /\ (q.escape <=> t[i] = "bs")
      BY <1>1, <1>3, <1>9, <2>1
    <3> QED BY <2>1, <3>1 DEF MarksNull
  <2>2. CASE k # i + 1
    <3>1. k + 1 # i + 2
      BY <1>1, <2>2
    <3> QED BY <2>2, <3>1
  <2> QED BY <2>1, <2>2
<1>11. k + 1 > i + 2 => ~MarksNull(t, i)
  <2>1. k + 1 > i + 2 => k = i + 2 \/ k > i + 2
    BY <1>1
  <2> QED BY <2>1 DEF TsvIn
<1>12. r.cell = << >> => (k + 1 = i + 1 /\ r.escape)
  <2> SUFFICES ASSUME r.cell = << >> PROVE k + 1 = i + 1 /\ r.escape
    OBVIOUS
  <2>1. q.cell \in Seq(Bytes) /\ Piece(t, i, k) \in Seq(Bytes)
    BY <1>1, PiecesNext, PieceType DEF TsvIn
  <2>2. q.cell = << >> /\ Piece(t, i, k) = << >>
    <3> DEFINE x == q.cell
    <3> DEFINE y == Piece(t, i, k)
    <3>1. x \in Seq(Bytes) /\ y \in Seq(Bytes) /\ x \o y = << >>
      BY <2>1
    <3> HIDE DEF x, y
    <3>2. Len(x \o y) = Len(x) + Len(y) /\ Len(x) \in Nat /\ Len(y) \in Nat /\ Len(x \o y) = 0
      BY <3>1
    <3>3. Len(x) = 0 /\ Len(y) = 0
      BY <3>2
    <3>4. x = << >> /\ y = << >>
      BY <3>1, <3>3
    <3> QED BY <3>4 DEF x, y
  <2>3. ~Escaped(t, i, k) /\ t[k] = "bs"
    <3>1. NullMarker # << >> /\ <<Unescape(t[k])>> # << >> /\ <<t[k]>> # << >>
      BY DEF NullMarker
    <3> QED BY <2>2, <3>1 DEF Piece
  <2>4. k = i
    BY <1>3, <2>2, <2>3 DEF TsvIn
  <2> QED BY <1>3, <2>3, <2>4
<1> QED BY <1>1, <1>4, <1>5, <1>6, <1>10, <1>11, <1>12 DEF TsvIn

\* Where NULL's mark stands at the start of a cell.
LEMMA MarkIs ==
  ASSUME NEW raw \in Seq(Bytes)
  PROVE  /\ IsPrefix(NullMarker, raw) <=> Len(raw) >= 2 /\ raw[1] = "bs" /\ raw[2] = "N"
         /\ raw = NullMarker <=> Len(raw) = 2 /\ raw[1] = "bs" /\ raw[2] = "N"
<1>1. NullMarker \in Seq(Bytes) /\ Len(NullMarker) = 2 /\ NullMarker[1] = "bs" /\ NullMarker[2] = "N"
  BY MarkerIsBytes DEF NullMarker
<1>2. Len(raw) \in Nat
  BY LenProperties
<1> DEFINE m == NullMarker
<1>3. m \in Seq(Bytes) /\ Len(m) = 2 /\ m[1] = "bs" /\ m[2] = "N"
  BY <1>1
<1> HIDE DEF m
<1>4. raw = m <=> Len(raw) = 2 /\ raw[1] = "bs" /\ raw[2] = "N"
  <2> SUFFICES ASSUME Len(raw) = 2, raw[1] = "bs", raw[2] = "N" PROVE raw = m
    BY <1>3
  <2>1. ASSUME NEW n \in 1 .. Len(raw) PROVE raw[n] = m[n]
    <3>1. n = 1 \/ n = 2
      OBVIOUS
    <3> QED BY <1>3, <3>1
  <2> QED BY <1>3, <2>1, SeqEqual
<1>5. IsPrefix(m, raw) <=> Len(raw) >= 2 /\ raw[1] = "bs" /\ raw[2] = "N"
  <2>1. SubSeq(m, 1, Len(m)) = m
    BY <1>3, PrefixIs
  <2>2. CASE Len(raw) >= 2
    <3> DEFINE a == SubSeq(raw, 1, 2)
    <3>1. a \in Seq(Bytes) /\ Len(a) = 2 /\ a[1] = raw[1] /\ a[2] = raw[2]
      <4>1. 2 \in 0 .. Len(raw) /\ 1 \in 1 .. 2 /\ 2 \in 1 .. 2
        BY <1>2, <2>2
      <4> QED BY <4>1, PrefixIs
    <3> HIDE DEF a
    <3>2. m = a <=> a[1] = "bs" /\ a[2] = "N"
      <4>1. ASSUME a[1] = "bs", a[2] = "N" PROVE m = a
        <5>1. ASSUME NEW n \in 1 .. Len(m) PROVE m[n] = a[n]
          <6>1. n = 1 \/ n = 2
            BY <1>3
          <6> QED BY <1>3, <4>1, <6>1
        <5> QED BY <1>3, <3>1, <5>1, SeqEqual
      <4> QED BY <1>3, <4>1
    <3>3. IsPrefix(m, raw) <=> m = a
      BY <1>3, <2>1, <2>2 DEF IsPrefix, a
    <3> QED BY <2>2, <3>1, <3>2, <3>3
  <2>3. CASE ~(Len(raw) >= 2)
    <3>1. ~IsPrefix(m, raw)
      BY <1>2, <1>3, <2>3 DEF IsPrefix
    <3> QED BY <2>3, <3>1
  <2> QED BY <2>2, <2>3
<1> QED BY <1>4, <1>5 DEF m

\* The end of a TSV cell is behind its start.
LEMMA TsvEndType ==
  ASSUME NEW t \in Texts, NEW i \in 1 .. Len(t) + 1
  PROVE  TsvEnd(t, i) \in i .. Len(t) + 1
<1>1. Len(t) \in Nat
  BY LenProperties DEF Texts
<1> DEFINE S == {Len(t) + 1} \cup
      {k \in i .. Len(t) : t[k] \in LineEnds \cup {"sep"} /\ ~Escaped(t, i, k)}
<1>2. S \in SUBSET Nat /\ S # {} /\ S \subseteq i .. Len(t) + 1
  BY <1>1
<1>3. TsvEnd(t, i) = Min(S)
  BY DEF TsvEnd
<1> HIDE DEF S
<1> QED BY <1>2, <1>3, MinIn

\* The end of a TSV cell is the first byte that is none of it.
LEMMA TsvEndIs ==
  ASSUME NEW t \in Texts, NEW i \in 1 .. Len(t) + 1, NEW k \in i .. Len(t) + 1,
         \A j \in i .. k - 1 : t[j] \in Terminators => Escaped(t, i, j),
         k <= Len(t) => t[k] \in Terminators /\ ~Escaped(t, i, k)
  PROVE  TsvEnd(t, i) = k
<1>1. Len(t) \in Nat
  BY LenProperties DEF Texts
<1> DEFINE S == {Len(t) + 1} \cup
      {m \in i .. Len(t) : t[m] \in LineEnds \cup {"sep"} /\ ~Escaped(t, i, m)}
<1>2. S \in SUBSET Int
  BY <1>1
<1>3. k \in S
  <2>1. k \in i .. Len(t) \/ k = Len(t) + 1
    BY <1>1
  <2> QED BY <1>1, <2>1 DEF Terminators
<1>4. \A x \in S : k <= x
  <2> SUFFICES ASSUME NEW x \in S, x < k PROVE FALSE
    BY <1>1, <1>2
  <2>1. x \in i .. k - 1 /\ t[x] \in Terminators /\ ~Escaped(t, i, x)
    BY <1>1 DEF Terminators
  <2> QED BY <2>1
<1>5. TsvEnd(t, i) = Min(S)
  BY DEF TsvEnd
<1> HIDE DEF S
<1> QED BY <1>2, <1>3, <1>4, <1>5, MinIsLeast

\* What a byte adds to the value of a whole cell.
LEMMA TsvPieceIs ==
  ASSUME NEW t \in Texts, NEW i \in 1 .. Len(t) + 1, NEW e \in i .. Len(t) + 1, NEW n \in 1 .. e - i
  PROVE  LET raw == SubSeq(t, i, e - 1) IN
         /\ TsvPiece(raw, n) \in Seq(Bytes)
         /\ ~(n = e - i /\ t[e - 1] = "bs" /\ ~Escaped(t, i, e - 1)) =>
              TsvPiece(raw, n) = Piece(t, i, i + n - 1)
         /\ n = e - i /\ t[e - 1] = "bs" /\ ~Escaped(t, i, e - 1) =>
              TsvPiece(raw, n) = <<"bs">> /\ Piece(t, i, i + n - 1) = << >>
<1> DEFINE raw == SubSeq(t, i, e - 1)
<1> DEFINE k == i + n - 1
<1>1. Len(t) \in Nat
  BY LenProperties DEF Texts
<1>2. k \in i .. Len(t) /\ (n = e - i <=> k = e - 1)
  BY <1>1
<1>3. Len(raw) = e - i /\ raw[n] = t[k]
  BY CutIs
<1>4. Escaped(raw, 1, n) <=> Escaped(t, i, k)
  BY EscapedInCell
<1>5. Piece(t, i, k) \in Seq(Bytes) /\ <<"bs">> \in Seq(Bytes) /\ t[k] \in Bytes
  <2>1. "bs" \in Bytes
    BY DEF Bytes
  <2> HIDE DEF k
  <2> QED BY <1>2, <2>1, PieceType
<1> HIDE DEF raw, k
<1>6. TsvPiece(raw, n) = IF t[k] = "bs" /\ ~Escaped(t, i, k) /\ n = e - i THEN <<"bs">> ELSE Piece(t, i, k)
  BY <1>3, <1>4 DEF TsvPiece, Piece
<1>7. t[k] = "bs" /\ ~Escaped(t, i, k) => Piece(t, i, k) = << >>
  BY DEF Piece
<1>8. (t[k] = "bs" /\ ~Escaped(t, i, k) /\ n = e - i) <=> (n = e - i /\ t[e - 1] = "bs" /\ ~Escaped(t, i, e - 1))
  BY <1>2
<1> QED BY <1>5, <1>6, <1>7, <1>8 DEF raw, k

\* The pieces of a whole cell are those that were read, and a backslash that escapes nothing.
LEMMA TsvPiecesJoin ==
  ASSUME NEW t \in Texts, NEW i \in 1 .. Len(t) + 1, NEW e \in i .. Len(t) + 1
  PROVE  LET raw == SubSeq(t, i, e - 1)
             pieces == FlattenSeq([k \in DOMAIN raw |-> TsvPiece(raw, k)])
         IN  /\ pieces \in Seq(Bytes)
             /\ pieces = IF Escaped(t, i, e) THEN Append(Pieces(t, i, e), "bs") ELSE Pieces(t, i, e)
<1> DEFINE raw == SubSeq(t, i, e - 1)
<1> DEFINE n == e - i
<1> DEFINE f == [k \in 1 .. n |-> TsvPiece(raw, k)]
<1>1. Len(t) \in Nat /\ n \in Nat /\ i \in Nat \ {0} /\ e \in Nat /\ i <= e /\ "bs" \in Bytes
  BY LenProperties DEF Texts, Bytes
<1>2. DOMAIN raw = 1 .. n /\ [k \in DOMAIN raw |-> TsvPiece(raw, k)] = f
  <2>1. raw \in Seq(Bytes) /\ Len(raw) = n
    BY CutIs
  <2> HIDE DEF raw, n
  <2>2. DOMAIN raw = 1 .. n
    BY <2>1, LenProperties
  <2> QED BY <2>2
<1>3. \A m \in 1 .. n :
        /\ TsvPiece(raw, m) \in Seq(Bytes)
        /\ ~(m = n /\ t[e - 1] = "bs" /\ ~Escaped(t, i, e - 1)) => TsvPiece(raw, m) = Piece(t, i, i + m - 1)
        /\ m = n /\ t[e - 1] = "bs" /\ ~Escaped(t, i, e - 1) =>
             TsvPiece(raw, m) = <<"bs">> /\ Piece(t, i, i + m - 1) = << >>
  BY TsvPieceIs
<1>4. f \in [1 .. n -> Seq(Bytes)] /\ \A m \in 1 .. n : f[m] = TsvPiece(raw, m)
  <2> HIDE DEF raw, n
  <2> QED BY <1>3
<1>5. FlattenSeq(f) \in Seq(Bytes)
  <2> HIDE DEF raw, n, f
  <2> QED BY <1>1, <1>4, PiecesType, Zenon
<1> DEFINE g(m) == [j \in 1 .. m |-> Piece(t, i, i + j - 1)]
<1>6. \A m \in 0 .. n : Pieces(t, i, i + m) = FlattenSeq(g(m))
  <2> SUFFICES ASSUME NEW m \in 0 .. n PROVE Pieces(t, i, i + m) = FlattenSeq(g(m))
    OBVIOUS
  <2>1. i + m - i = m
    BY <1>1
  <2>2. [j \in 1 .. i + m - i |-> Piece(t, i, i + j - 1)] = g(m)
    BY <2>1
  <2> QED BY <2>2 DEF Pieces
<1>7. Pieces(t, i, e) = FlattenSeq(g(n)) /\ n \in 0 .. n
  <2>1. i + n = e /\ n \in 0 .. n
    BY <1>1
  <2> HIDE DEF n, g
  <2> QED BY <1>6, <2>1
<1>8. Escaped(t, i, e) <=> n > 0 /\ t[e - 1] = "bs" /\ ~Escaped(t, i, e - 1)
  <2>1. CASE n = 0
    <3>1. e = i
      BY <1>1, <2>1
    <3>2. ~Escaped(t, i, i)
      BY <1>1, EscapedIs
    <3> QED BY <2>1, <3>1, <3>2
  <2>2. CASE n # 0
    <3>1. n > 0 /\ e - 1 \in Nat /\ i <= e - 1 /\ e - 1 + 1 = e
      BY <1>1, <2>2
    <3>2. Escaped(t, i, e - 1 + 1) <=> t[e - 1] = "bs" /\ ~Escaped(t, i, e - 1)
      BY <1>1, <3>1, EscapedIs
    <3> QED BY <3>1, <3>2
  <2> QED BY <2>1, <2>2
<1>9. CASE ~Escaped(t, i, e)
  <2>1. \A m \in 1 .. n : ~(m = n /\ t[e - 1] = "bs" /\ ~Escaped(t, i, e - 1))
    BY <1>1, <1>8, <1>9
  <2>2. f = g(n)
    <3> HIDE DEF raw, n
    <3> QED BY <1>3, <2>1
  <2> HIDE DEF f, g, n
  <2> QED BY <1>2, <1>5, <1>7, <1>9, <2>2
<1>10. CASE Escaped(t, i, e)
  <2> DEFINE m == n - 1
  <2> DEFINE h == [j \in 1 .. m |-> TsvPiece(raw, j)]
  <2>1. /\ m \in Nat /\ m + 1 = n /\ n \in 1 .. n /\ e - 1 \in i .. Len(t) + 1 /\ e - 1 <= Len(t)
        /\ e - 1 + 1 = e /\ m \in 0 .. n /\ i + m = e - 1 /\ e - 1 \in i .. Len(t)
        /\ \A j \in 1 .. m : j \in 1 .. n /\ j # n
    BY <1>1, <1>8, <1>10
  <2>2. h = g(m)
    <3> HIDE DEF raw, n, m
    <3> QED BY <1>3, <2>1
  <2>3. h \in [1 .. m -> Seq(Bytes)] /\ \A j \in 1 .. m : h[j] = f[j]
    <3> HIDE DEF raw, n, m
    <3> QED BY <1>3, <2>1
  <2>4. f \in [1 .. m + 1 -> Seq(Bytes)] /\ f[m + 1] = <<"bs">>
    <3>1. f \in [1 .. n -> Seq(Bytes)] /\ f[n] = <<"bs">>
      <4> HIDE DEF raw, n, f
      <4> QED BY <1>3, <1>4, <1>8, <1>10, <2>1
    <3> HIDE DEF f, m, n
    <3> QED BY <2>1, <3>1
  <2>5. FlattenSeq(f) = FlattenSeq(h) \o <<"bs">>
    <3> HIDE DEF f, h, m
    <3>1. FlattenSeq(f) = FlattenSeq(h) \o f[m + 1]
      <4>1. m \in Nat /\ h \in [1 .. m -> Seq(Bytes)] /\ f \in [1 .. m + 1 -> Seq(Bytes)]
        BY <2>1, <2>3, <2>4
      <4>2. \A j \in 1 .. m : h[j] = f[j]
        BY <2>3
      <4> QED BY <4>1, <4>2, PiecesGrow
    <3> QED BY <2>4, <3>1
  <2>6. Pieces(t, i, e) = Pieces(t, i, e - 1) \o Piece(t, i, e - 1) /\ Pieces(t, i, e - 1) \in Seq(Bytes)
    BY <2>1, PiecesNext
  <2>7. Piece(t, i, e - 1) = << >>
    BY <1>8, <1>10 DEF Piece
  <2>8. FlattenSeq(h) = Pieces(t, i, e - 1)
    <3> HIDE DEF h, g, m, n
    <3> QED BY <1>6, <2>1, <2>2
  <2>9. Pieces(t, i, e) = Pieces(t, i, e - 1)
    BY <2>6, <2>7, ConcatEmptySeq
  <2> HIDE DEF f, h, m, n, raw
  <2>10. FlattenSeq(f) = Append(Pieces(t, i, e), "bs")
    <3> DEFINE x == Pieces(t, i, e)
    <3>1. x \in Seq(Bytes) /\ FlattenSeq(f) = x \o <<"bs">>
      BY <2>5, <2>6, <2>8, <2>9
    <3> HIDE DEF x
    <3>2. x \o <<"bs">> = Append(x, "bs")
      BY <1>1, <3>1
    <3> QED BY <3>1, <3>2 DEF x
  <2> QED BY <1>2, <1>5, <1>10, <2>10 DEF raw
<1> QED BY <1>9, <1>10

\* A TSV cell of a text: its end is in the text or right behind it, its value a cell.
LEMMA TsvCellType ==
  ASSUME NEW t \in Texts, NEW i \in 1 .. Len(t) + 1
  PROVE  TsvCell(t, i) \in CellRecs /\ TsvCell(t, i).end \in i .. Len(t) + 1
<1> DEFINE e == TsvEnd(t, i)
<1> DEFINE raw == SubSeq(t, i, e - 1)
<1> DEFINE pieces == FlattenSeq([k \in DOMAIN raw |-> TsvPiece(raw, k)])
<1>1. e \in i .. Len(t) + 1 /\ Len(t) \in Nat
  BY TsvEndType, LenProperties DEF Texts
<1>2. e \in Nat
  BY <1>1
<1>3. pieces \in Seq(Bytes)
  <2> HIDE DEF e
  <2> QED BY <1>1, TsvPiecesJoin
<1>4. TsvValue(raw) = IF raw = NullMarker THEN Null ELSE pieces
  BY DEF TsvValue
<1> HIDE DEF pieces
<1>5. TsvValue(raw) \in Cells
  <2> HIDE DEF raw
  <2> QED BY <1>3, <1>4 DEF Cells
<1> DEFINE ok == IsPrefix(NullMarker, raw) => raw = NullMarker
<1>6. TsvCell(t, i) = [end |-> e, value |-> TsvValue(raw), ok |-> ok] /\ ok \in BOOLEAN
  BY DEF TsvCell
<1> HIDE DEF e, raw, ok
<1> QED BY <1>1, <1>2, <1>5, <1>6 DEF CellRecs

\* The bytes of a TSV cell that was read to its end.
LEMMA TsvRawIs ==
  ASSUME NEW t \in Texts, NEW i \in 1 .. Len(t) + 1, NEW k \in i .. Len(t) + 1, NEW q, TsvIn(q, t, i, k)
  PROVE  LET raw == SubSeq(t, i, k - 1) IN
         /\ raw = NullMarker <=> q.null
         /\ IsPrefix(NullMarker, raw) => q.null
<1> DEFINE raw == SubSeq(t, i, k - 1)
<1>1. Len(t) \in Nat
  BY LenProperties DEF Texts
<1>2. raw \in Seq(Bytes) /\ Len(raw) = k - i /\ \A n \in 1 .. k - i : raw[n] = t[i + n - 1]
  BY CutIs
<1>3. k - i >= 2 => raw[1] = t[i] /\ raw[2] = t[i + 1]
  <2> SUFFICES ASSUME k - i >= 2 PROVE raw[1] = t[i] /\ raw[2] = t[i + 1]
    OBVIOUS
  <2>1. 1 \in 1 .. k - i /\ 2 \in 1 .. k - i /\ i + 1 - 1 = i /\ i + 2 - 1 = i + 1
    BY <1>1
  <2> HIDE DEF raw
  <2> QED BY <1>2, <2>1
<1> HIDE DEF raw
<1>4. /\ IsPrefix(NullMarker, raw) <=> Len(raw) >= 2 /\ raw[1] = "bs" /\ raw[2] = "N"
      /\ raw = NullMarker <=> Len(raw) = 2 /\ raw[1] = "bs" /\ raw[2] = "N"
  BY <1>2, MarkIs
<1>5. q.null <=> k = i + 2 /\ MarksNull(t, i)
  BY DEF TsvIn
<1>6. k > i + 2 => ~MarksNull(t, i)
  BY DEF TsvIn
<1>7. raw = NullMarker <=> q.null
  <2>1. Len(raw) = 2 <=> k = i + 2
    BY <1>1, <1>2
  <2>2. k = i + 2 => k - i >= 2
    BY <1>1
  <2> QED BY <1>3, <1>4, <1>5, <2>1, <2>2 DEF MarksNull
<1>8. IsPrefix(NullMarker, raw) => q.null
  <2>1. Len(raw) >= 2 => k - i >= 2 /\ (k = i + 2 \/ k > i + 2)
    BY <1>1, <1>2
  <2> QED BY <1>3, <1>4, <1>5, <1>6, <2>1 DEF MarksNull
<1> QED BY <1>7, <1>8 DEF raw

\* What the parser has of a TSV cell when it ends is the cell.
LEMMA TsvTaken ==
  ASSUME NEW t \in Texts, NEW i \in 1 .. Len(t) + 1, NEW k \in i .. Len(t) + 1, NEW q, TsvIn(q, t, i, k),
         k <= Len(t) => t[k] \in Terminators /\ ~q.escape
  PROVE  TsvCell(t, i) = [end |-> k, ok |-> TRUE,
           value |-> IF q.null THEN Null ELSE IF q.escape THEN Append(q.cell, "bs") ELSE q.cell]
<1> DEFINE raw == SubSeq(t, i, k - 1)
<1> DEFINE pieces == FlattenSeq([n \in DOMAIN raw |-> TsvPiece(raw, n)])
<1>1. q.escape <=> Escaped(t, i, k)
  BY DEF TsvIn
<1>2. TsvEnd(t, i) = k
  <2>1. \A j \in i .. k - 1 : t[j] \in Terminators => Escaped(t, i, j)
    BY DEF TsvIn
  <2> QED BY <1>1, <2>1, TsvEndIs
<1>3. (raw = NullMarker <=> q.null) /\ (IsPrefix(NullMarker, raw) => q.null)
  BY TsvRawIs
<1>4. pieces = IF q.escape THEN Append(q.cell, "bs") ELSE q.cell
  <2>1. pieces = IF Escaped(t, i, k) THEN Append(Pieces(t, i, k), "bs") ELSE Pieces(t, i, k)
    BY TsvPiecesJoin
  <2>2. q.cell = Pieces(t, i, k)
    BY DEF TsvIn
  <2> HIDE DEF pieces
  <2> QED BY <1>1, <2>1, <2>2
<1>5. TsvValue(raw) = IF raw = NullMarker THEN Null ELSE pieces
  BY DEF TsvValue
<1>6. TsvCell(t, i) = [end |-> k, value |-> TsvValue(raw), ok |-> IsPrefix(NullMarker, raw) => raw = NullMarker]
  BY <1>2 DEF TsvCell
<1> HIDE DEF pieces, raw
<1>7. (IsPrefix(NullMarker, raw) => raw = NullMarker) = TRUE
  BY <1>3
<1>8. TsvValue(raw) = IF q.null THEN Null ELSE IF q.escape THEN Append(q.cell, "bs") ELSE q.cell
  BY <1>3, <1>4, <1>5
<1> QED BY <1>6, <1>7, <1>8

\* A byte behind NULL's mark makes the cell malformed.
LEMMA TsvNullRefused ==
  ASSUME NEW t \in Texts, NEW i \in 1 .. Len(t) + 1, NEW k \in i .. Len(t), NEW q, TsvIn(q, t, i, k),
         q.null, k = Len(t), t[k] \notin Terminators
  PROVE  TsvCell(t, i).ok = FALSE
<1> DEFINE e == Len(t) + 1
<1> DEFINE raw == SubSeq(t, i, e - 1)
<1>1. Len(t) \in Nat /\ e \in i .. Len(t) + 1 /\ ~(e <= Len(t))
  BY LenProperties DEF Texts
<1>2. TsvEnd(t, i) = e
  <2>1. \A j \in i .. e - 1 : t[j] \in Terminators => Escaped(t, i, j)
    <3> SUFFICES ASSUME NEW j \in i .. e - 1, t[j] \in Terminators PROVE Escaped(t, i, j)
      OBVIOUS
    <3>1. j \in i .. k - 1
      <4>1. j # k
        OBVIOUS
      <4> QED BY <1>1, <4>1
    <3> QED BY <3>1 DEF TsvIn
  <2> HIDE DEF e
  <2> QED BY <1>1, <2>1, TsvEndIs
<1>3. k = i + 2 /\ t[i] = "bs" /\ t[i + 1] = "N"
  BY DEF TsvIn, MarksNull
<1>4. /\ raw \in Seq(Bytes) /\ Len(raw) = e - i
      /\ \A n \in 1 .. e - i : raw[n] = t[i + n - 1]
  <2> HIDE DEF e
  <2> QED BY <1>1, CutIs
<1>5. Len(raw) = 3 /\ raw[1] = "bs" /\ raw[2] = "N"
  <2>1. e - i = 3 /\ i + 1 - 1 = i /\ i + 2 - 1 = i + 1 /\ 1 \in 1 .. 3 /\ 2 \in 1 .. 3
    BY <1>1, <1>3
  <2> HIDE DEF e, raw
  <2> QED BY <1>3, <1>4, <2>1
<1>6. IsPrefix(NullMarker, raw) /\ raw # NullMarker
  <2> HIDE DEF e, raw
  <2>1. raw \in Seq(Bytes)
    BY <1>4
  <2>2. /\ IsPrefix(NullMarker, raw) <=> Len(raw) >= 2 /\ raw[1] = "bs" /\ raw[2] = "N"
        /\ raw = NullMarker <=> Len(raw) = 2 /\ raw[1] = "bs" /\ raw[2] = "N"
    BY <2>1, MarkIs
  <2>3. Len(raw) >= 2 /\ Len(raw) # 2
    BY <1>5
  <2> QED BY <1>5, <2>2, <2>3, Zenon
<1>7. TsvCell(t, i) = [end |-> e, value |-> TsvValue(raw), ok |-> IsPrefix(NullMarker, raw) => raw = NullMarker]
  BY <1>2 DEF TsvCell
<1> HIDE DEF e, raw
<1>8. (IsPrefix(NullMarker, raw) => raw = NullMarker) = FALSE
  BY <1>6
<1>9. TsvCell(t, i).ok = (IsPrefix(NullMarker, raw) => raw = NullMarker)
  <2> DEFINE ok == IsPrefix(NullMarker, raw) => raw = NullMarker
  <2>1. TsvCell(t, i) = [end |-> e, value |-> TsvValue(raw), ok |-> ok]
    BY <1>7
  <2> HIDE DEF ok
  <2>2. TsvCell(t, i).ok = ok
    BY <2>1
  <2> QED BY <2>2 DEF ok
<1> QED BY <1>8, <1>9

------------------------------------------------------------------------------
(* CSV: quotes in pairs. *)

\* The quotes from i to k are odd in number.
OddQuotes(t, i, k) == Cardinality({j \in i .. k : t[j] = "quote"}) % 2 = 1

\* A quote more makes an odd number even, and an even one odd.
LEMMA OddIs ==
  ASSUME NEW t, NEW i \in Nat \ {0}
  PROVE  /\ ~OddQuotes(t, i, i - 1)
         /\ \A k \in Nat : /\ Cardinality({j \in i .. k : t[j] = "quote"}) % 2 = 0 <=> ~OddQuotes(t, i, k)
                           /\ i <= k => (OddQuotes(t, i, k) <=> (t[k] = "quote" <=> ~OddQuotes(t, i, k - 1)))
<1> DEFINE Q(k) == {j \in i .. k : t[j] = "quote"}
<1> DEFINE C(k) == Cardinality(Q(k))
<1>1. \A k \in Nat : IsFiniteSet(Q(k)) /\ C(k) \in Nat
  <2> SUFFICES ASSUME NEW k \in Nat PROVE IsFiniteSet(Q(k)) /\ C(k) \in Nat
    OBVIOUS
  <2>1. IsFiniteSet(i .. k)
    BY FS_Interval
  <2>2. Q(k) \in SUBSET (i .. k)
    OBVIOUS
  <2> HIDE DEF Q
  <2>3. IsFiniteSet(Q(k))
    BY <2>1, <2>2, FS_Subset
  <2> QED BY <2>3, FS_CardinalityType
<1>2. \A k : OddQuotes(t, i, k) <=> C(k) % 2 = 1
  BY DEF OddQuotes
<1>3. ~OddQuotes(t, i, i - 1)
  <2>1. Q(i - 1) = {}
    OBVIOUS
  <2>2. C(i - 1) = 0
    <3> HIDE DEF Q
    <3> QED BY <2>1, FS_EmptySet
  <2> HIDE DEF C
  <2>3. 0 % 2 # 1
    OBVIOUS
  <2> QED BY <1>2, <2>2, <2>3
<1>4. ASSUME NEW k \in Nat
      PROVE  Cardinality(Q(k)) % 2 = 0 <=> ~OddQuotes(t, i, k)
  <2>1. C(k) \in Nat /\ (OddQuotes(t, i, k) <=> C(k) % 2 = 1)
    BY <1>1, <1>2
  <2> HIDE DEF C
  <2>2. C(k) % 2 = 0 <=> ~(C(k) % 2 = 1)
    BY <2>1
  <2> QED BY <2>1, <2>2 DEF C
<1>5. ASSUME NEW k \in Nat, i <= k
      PROVE  OddQuotes(t, i, k) <=> (t[k] = "quote" <=> ~OddQuotes(t, i, k - 1))
  <2>1. k - 1 \in Nat
    BY <1>5
  <2>2. C(k - 1) \in Nat /\ IsFiniteSet(Q(k - 1))
    BY <1>1, <2>1
  <2>3. CASE t[k] = "quote"
    <3>1. Q(k) = Q(k - 1) \cup {k} /\ k \notin Q(k - 1)
      BY <1>5, <2>3
    <3>2. C(k) = C(k - 1) + 1
      <4> HIDE DEF Q
      <4> QED BY <2>2, <3>1, FS_AddElement
    <3> HIDE DEF C, Q
    <3>3. (C(k - 1) + 1) % 2 = 1 <=> ~(C(k - 1) % 2 = 1)
      BY <2>2
    <3> QED BY <1>2, <2>3, <3>2, <3>3
  <2>4. CASE t[k] # "quote"
    <3>1. Q(k) = Q(k - 1)
      BY <1>5, <2>4
    <3>2. C(k) = C(k - 1)
      <4> HIDE DEF Q
      <4> QED BY <3>1
    <3> HIDE DEF C, Q
    <3> QED BY <1>2, <2>4, <3>2
  <2> QED BY <2>3, <2>4
<1> QED BY <1>3, <1>4, <1>5

\* What the byte at k adds to the value of a quoted cell whose text starts at i.
Kernel(t, i, k) == IF t[k] = "quote" /\ ~OddQuotes(t, i, k) THEN << >> ELSE <<t[k]>>

\* The value of a quoted cell up to a byte, and with the byte.
LEMMA UnquotedNext ==
  ASSUME NEW t \in Texts, NEW i \in 1 .. Len(t) + 1, NEW k \in i .. Len(t) + 1
  PROVE  /\ Unquoted(t, i, i - 1) = << >> /\ Unquoted(t, i, k - 1) \in Seq(Bytes)
         /\ k <= Len(t) => Unquoted(t, i, k) = Unquoted(t, i, k - 1) \o Kernel(t, i, k)
<1> DEFINE f(m) == [n \in 1 .. m |-> Kernel(t, i, i + n - 1)]
<1>0. Len(t) \in Nat /\ \A n \in 1 .. Len(t) : t[n] \in Bytes
  BY ElementOfSeq, LenProperties DEF Texts
<1>1. ASSUME NEW m \in Nat, i + m <= Len(t) + 1
      PROVE  /\ f(m) \in [1 .. m -> Seq(Bytes)] /\ \A n \in 1 .. m : f(m)[n] = Kernel(t, i, i + n - 1)
             /\ Unquoted(t, i, i + m - 1) = FlattenSeq(f(m))
  <2>1. \A n \in 1 .. m : i + n - 1 \in 1 .. Len(t) /\ i + n - 1 \in Nat
    BY <1>0, <1>1
  <2>2. ASSUME NEW n \in 1 .. m PROVE Kernel(t, i, i + n - 1) \in Seq(Bytes)
    <3> DEFINE x == t[i + n - 1]
    <3>1. x \in Bytes
      BY <1>0, <2>1
    <3> HIDE DEF x
    <3>2. <<x>> \in Seq(Bytes) /\ << >> \in Seq(Bytes)
      BY <3>1
    <3> QED BY <3>2 DEF Kernel, x
  <2>3. i + m - 1 - i + 1 = m
    BY <1>0
  <2> DEFINE old(n) == LET e == i + n - 1 IN
      IF t[e] = "quote" /\ Cardinality({j \in i .. e : t[j] = "quote"}) % 2 = 0 THEN << >> ELSE <<t[e]>>
  <2>4. ASSUME NEW n \in 1 .. m PROVE old(n) = Kernel(t, i, i + n - 1)
    <3> DEFINE e == i + n - 1
    <3>1. e \in Nat /\ i \in Nat \ {0}
      BY <1>0, <2>1
    <3> HIDE DEF e
    <3>2. Cardinality({j \in i .. e : t[j] = "quote"}) % 2 = 0 <=> ~OddQuotes(t, i, e)
      BY <3>1, OddIs
    <3> QED BY <3>2 DEF Kernel, e
  <2>5. Unquoted(t, i, i + m - 1) = FlattenSeq([n \in 1 .. m |-> old(n)])
    BY <2>3 DEF Unquoted
  <2> HIDE DEF old
  <2>6. [n \in 1 .. m |-> old(n)] = f(m)
    BY <2>4
  <2> QED BY <2>2, <2>5, <2>6
<1>2. Unquoted(t, i, i - 1) = << >>
  <2>1. 0 \in Nat /\ i + 0 <= Len(t) + 1 /\ i + 0 - 1 = i - 1
    BY <1>0
  <2>2. f(0) = << >>
    OBVIOUS
  <2> HIDE DEF f
  <2>3. Unquoted(t, i, i + 0 - 1) = FlattenSeq(f(0))
    BY <1>1, <2>1
  <2> QED BY <2>1, <2>2, <2>3, FlattenEmpty
<1> DEFINE m == k - i
<1>3. m \in Nat /\ i + m <= Len(t) + 1 /\ i + m - 1 = k - 1
  BY <1>0
<1>4. f(m) \in [1 .. m -> Seq(Bytes)] /\ Unquoted(t, i, k - 1) = FlattenSeq(f(m))
      /\ \A n \in 1 .. m : f(m)[n] = Kernel(t, i, i + n - 1)
  <2> HIDE DEF f, m
  <2> QED BY <1>1, <1>3
<1>5. Unquoted(t, i, k - 1) \in Seq(Bytes)
  <2> DEFINE g == f(m)
  <2>1. g \in [1 .. m -> Seq(Bytes)] /\ Unquoted(t, i, k - 1) = FlattenSeq(g)
    BY <1>4
  <2> HIDE DEF g, f, m
  <2>2. FlattenSeq(g) \in Seq(Bytes)
    BY <1>3, <2>1, PiecesType, Zenon
  <2> QED BY <2>1, <2>2
<1>6. ASSUME k <= Len(t) PROVE Unquoted(t, i, k) = Unquoted(t, i, k - 1) \o Kernel(t, i, k)
  <2> DEFINE g == f(m)
  <2> DEFINE h == f(m + 1)
  <2>1. /\ m + 1 \in Nat /\ i + (m + 1) <= Len(t) + 1 /\ i + (m + 1) - 1 = k /\ m + 1 \in 1 .. m + 1
        /\ \A n \in 1 .. m : n \in 1 .. m + 1
    BY <1>0, <1>6
  <2>2. /\ h \in [1 .. m + 1 -> Seq(Bytes)] /\ Unquoted(t, i, k) = FlattenSeq(h)
        /\ \A n \in 1 .. m + 1 : h[n] = Kernel(t, i, i + n - 1)
    <3>1. /\ f(m + 1) \in [1 .. m + 1 -> Seq(Bytes)] /\ Unquoted(t, i, i + (m + 1) - 1) = FlattenSeq(f(m + 1))
          /\ \A n \in 1 .. m + 1 : f(m + 1)[n] = Kernel(t, i, i + n - 1)
      <4> HIDE DEF f, m
      <4> QED BY <1>1, <2>1
    <3> HIDE DEF f, m
    <3> QED BY <2>1, <3>1
  <2>3. /\ g \in [1 .. m -> Seq(Bytes)] /\ Unquoted(t, i, k - 1) = FlattenSeq(g)
        /\ \A n \in 1 .. m : g[n] = Kernel(t, i, i + n - 1)
    BY <1>4
  <2> HIDE DEF f, g, h, m
  <2>4. \A n \in 1 .. m : g[n] = h[n]
    BY <2>1, <2>2, <2>3
  <2>5. FlattenSeq(h) = FlattenSeq(g) \o h[m + 1]
    <3>1. m \in Nat /\ g \in [1 .. m -> Seq(Bytes)] /\ h \in [1 .. m + 1 -> Seq(Bytes)]
      BY <1>3, <2>2, <2>3
    <3> QED BY <2>4, <3>1, PiecesGrow
  <2>6. h[m + 1] = Kernel(t, i, k)
    BY <2>1, <2>2
  <2> QED BY <2>2, <2>3, <2>5, <2>6
<1> QED BY <1>2, <1>5, <1>6

\* The parser is in a CSV cell without quotes that started at i, and the next byte is at k.
CsvPlainIn(q, t, i, k) ==
  /\ k > i => t[i] # "quote"
  /\ \A j \in i .. k - 1 : t[j] \notin Terminators
  /\ q.cell = SubSeq(t, i, k - 1)
  /\ q.state = IF k = i THEN "CellStart" ELSE "InCell"
  /\ ~q.quoted /\ ~q.null /\ ~q.escape

\* It is in one with quotes, inside them or right behind a quote that may be the last.
CsvQuotedIn(q, t, i, k) ==
  /\ i < k /\ t[i] = "quote"
  /\ q.quoted /\ ~q.null /\ ~q.escape
  /\ \/ /\ q.state = "InQuoted" /\ ~OddQuotes(t, i + 1, k - 1)
        /\ \A j \in i + 1 .. k - 1 : j \notin Closings(t, i)
        /\ q.cell = Unquoted(t, i + 1, k - 1)
     \/ /\ q.state = "QuotePending" /\ OddQuotes(t, i + 1, k - 1)
        /\ i + 1 < k /\ t[k - 1] = "quote"
        /\ \A j \in i + 1 .. k - 2 : j \notin Closings(t, i)
        /\ q.cell = Unquoted(t, i + 1, k - 2)

\* It is in one of either kind.
CsvIn(q, t, i, k) == CsvPlainIn(q, t, i, k) \/ CsvQuotedIn(q, t, i, k)

\* What closes a cell.
LEMMA ClosingIs ==
  ASSUME NEW t, NEW i, NEW k
  PROVE  k \in Closings(t, i) <=>
           k \in i + 1 .. Len(t) /\ t[k] = "quote" /\ (k < Len(t) => t[k + 1] # "quote") /\ OddQuotes(t, i + 1, k)
BY DEF Closings, OddQuotes

\* A cell begins with nothing of it read.
LEMMA CsvBegins ==
  ASSUME NEW t \in Texts, NEW i \in 1 .. Len(t) + 1, NEW q
  PROVE  CsvIn(q, t, i, i) <=> q.state = "CellStart" /\ q.cell = << >> /\ ~q.quoted /\ ~q.null /\ ~q.escape
<1>1. Len(t) \in Nat
  BY LenProperties DEF Texts
<1>2. i .. i - 1 = {} /\ ~(i > i) /\ ~(i < i) /\ i \in Int /\ i - 1 \in Int /\ i - 1 < i
  BY <1>1
<1>3. SubSeq(t, i, i - 1) = << >>
  BY <1>2, SubSeqEmpty
<1> QED BY <1>2, <1>3 DEF CsvIn, CsvPlainIn, CsvQuotedIn

\* A byte of a cell without quotes.
LEMMA CsvPlainGrows ==
  ASSUME NEW t \in Texts, NEW i \in 1 .. Len(t), NEW k \in i .. Len(t), NEW q, CsvPlainIn(q, t, i, k),
         t[k] \notin Terminators, k = i => t[k] # "quote",
         NEW r, r.cell = Append(q.cell, t[k]), r.state = "InCell", ~r.quoted, ~r.null, ~r.escape
  PROVE  CsvPlainIn(r, t, i, k + 1)
<1>1. Len(t) \in Nat /\ k + 1 # i /\ k + 1 - 1 = k /\ k + 1 > i
  BY LenProperties DEF Texts
<1>2. t[i] # "quote"
  BY <1>1 DEF CsvPlainIn
<1>3. \A j \in i .. k + 1 - 1 : t[j] \notin Terminators
  <2> SUFFICES ASSUME NEW j \in i .. k + 1 - 1 PROVE t[j] \notin Terminators
    OBVIOUS
  <2>1. j \in i .. k - 1 \/ j = k
    BY <1>1
  <2> QED BY <2>1 DEF CsvPlainIn
<1>4. r.cell = SubSeq(t, i, k + 1 - 1)
  <2>1. SubSeq(t, i, k) = Append(SubSeq(t, i, k - 1), t[k])
    BY CutGrows
  <2>2. r.cell = SubSeq(t, i, k)
    BY <2>1 DEF CsvPlainIn
  <2> QED BY <1>1, <2>2
<1> QED BY <1>1, <1>2, <1>3, <1>4 DEF CsvPlainIn

\* The quote that opens a cell.
LEMMA CsvQuotesOpen ==
  ASSUME NEW t \in Texts, NEW i \in 1 .. Len(t), t[i] = "quote",
         NEW r, r.cell = << >>, r.state = "InQuoted", r.quoted, ~r.null, ~r.escape
  PROVE  CsvQuotedIn(r, t, i, i + 1)
<1>1. /\ Len(t) \in Nat /\ i < i + 1 /\ i + 1 \in Nat \ {0} /\ i + 1 - 1 = i /\ i + 1 .. i + 1 - 1 = {}
      /\ i + 1 \in 1 .. Len(t) + 1 /\ i + 1 \in i + 1 .. Len(t) + 1
  BY LenProperties DEF Texts
<1>2. ~OddQuotes(t, i + 1, i + 1 - 1)
  BY <1>1, OddIs
<1>3. Unquoted(t, i + 1, i + 1 - 1) = << >>
  BY <1>1, UnquotedNext
<1> QED BY <1>1, <1>2, <1>3 DEF CsvQuotedIn

\* A quote inside quotes: it ends the cell or is the first of two.
LEMMA CsvQuotePends ==
  ASSUME NEW t \in Texts, NEW i \in 1 .. Len(t), NEW k \in i .. Len(t), NEW q, CsvQuotedIn(q, t, i, k),
         q.state = "InQuoted", t[k] = "quote",
         NEW r, r.cell = q.cell, r.state = "QuotePending", r.quoted, ~r.null, ~r.escape
  PROVE  CsvQuotedIn(r, t, i, k + 1)
<1>1. /\ Len(t) \in Nat /\ i < k /\ i < k + 1 /\ i + 1 < k + 1 /\ k + 1 - 1 = k /\ k + 1 - 2 = k - 1
      /\ k \in Nat /\ i + 1 <= k /\ i + 1 \in Nat \ {0}
  BY LenProperties DEF Texts, CsvQuotedIn
<1>2. OddQuotes(t, i + 1, k) <=> (t[k] = "quote" <=> ~OddQuotes(t, i + 1, k - 1))
  BY <1>1, OddIs
<1>3. OddQuotes(t, i + 1, k)
  BY <1>2 DEF CsvQuotedIn
<1> QED BY <1>1, <1>3 DEF CsvQuotedIn

\* Any other byte inside quotes.
LEMMA CsvQuotedGrows ==
  ASSUME NEW t \in Texts, NEW i \in 1 .. Len(t), NEW k \in i .. Len(t), NEW q, CsvQuotedIn(q, t, i, k),
         q.state = "InQuoted", t[k] # "quote",
         NEW r, r.cell = Append(q.cell, t[k]), r.state = "InQuoted", r.quoted, ~r.null, ~r.escape
  PROVE  CsvQuotedIn(r, t, i, k + 1)
<1>1. /\ Len(t) \in Nat /\ i < k /\ i < k + 1 /\ k + 1 - 1 = k
      /\ k \in Nat /\ i + 1 <= k /\ i + 1 \in Nat \ {0} /\ i + 1 \in 1 .. Len(t) + 1 /\ k \in i + 1 .. Len(t) + 1
      /\ t[k] \in Bytes
  BY LenProperties, ElementOfSeq DEF Texts, CsvQuotedIn
<1>2. OddQuotes(t, i + 1, k) <=> (t[k] = "quote" <=> ~OddQuotes(t, i + 1, k - 1))
  BY <1>1, OddIs
<1>3. /\ ~OddQuotes(t, i + 1, k - 1) /\ q.cell = Unquoted(t, i + 1, k - 1)
      /\ \A j \in i + 1 .. k - 1 : j \notin Closings(t, i)
  BY DEF CsvQuotedIn
<1>4. ~OddQuotes(t, i + 1, k)
  BY <1>2, <1>3
<1>5. \A j \in i + 1 .. k : j \notin Closings(t, i)
  <2> SUFFICES ASSUME NEW j \in i + 1 .. k PROVE j \notin Closings(t, i)
    OBVIOUS
  <2>1. j \in i + 1 .. k - 1 \/ j = k
    BY <1>1
  <2> QED BY <1>3, <2>1, ClosingIs
<1>6. Unquoted(t, i + 1, k) = Unquoted(t, i + 1, k - 1) \o <<t[k]>> /\ Unquoted(t, i + 1, k - 1) \in Seq(Bytes)
  <2>1. Kernel(t, i + 1, k) = <<t[k]>>
    BY DEF Kernel
  <2>2. k <= Len(t)
    BY <1>1
  <2> QED BY <1>1, <2>1, <2>2, UnquotedNext
<1>7. r.cell = Unquoted(t, i + 1, k)
  BY <1>1, <1>3, <1>6, AppendIsConcat
<1> QED BY <1>1, <1>4, <1>5, <1>7 DEF CsvQuotedIn

\* The second of two quotes.
LEMMA CsvQuoteDoubled ==
  ASSUME NEW t \in Texts, NEW i \in 1 .. Len(t), NEW k \in i .. Len(t), NEW q, CsvQuotedIn(q, t, i, k),
         q.state = "QuotePending", t[k] = "quote",
         NEW r, r.cell = Append(q.cell, "quote"), r.state = "InQuoted", r.quoted, ~r.null, ~r.escape
  PROVE  CsvQuotedIn(r, t, i, k + 1)
<1>1. /\ OddQuotes(t, i + 1, k - 1) /\ t[k - 1] = "quote" /\ q.cell = Unquoted(t, i + 1, k - 2)
      /\ i + 1 < k /\ \A j \in i + 1 .. k - 2 : j \notin Closings(t, i)
  BY DEF CsvQuotedIn
<1>2. /\ Len(t) \in Nat /\ i < k + 1 /\ k + 1 - 1 = k /\ k \in Nat /\ i + 1 <= k /\ i + 1 \in Nat \ {0}
      /\ i + 1 \in 1 .. Len(t) + 1 /\ k \in i + 1 .. Len(t) + 1 /\ k - 1 \in i + 1 .. Len(t) + 1
      /\ k - 1 <= Len(t) /\ k - 1 - 1 = k - 2 /\ k <= Len(t) /\ k - 1 < Len(t) /\ k - 1 + 1 = k
      /\ "quote" \in Bytes
  BY <1>1, LenProperties DEF Texts, Bytes
<1>3. OddQuotes(t, i + 1, k) <=> (t[k] = "quote" <=> ~OddQuotes(t, i + 1, k - 1))
  BY <1>2, OddIs
<1>4. ~OddQuotes(t, i + 1, k)
  BY <1>1, <1>3
<1>5. \A j \in i + 1 .. k : j \notin Closings(t, i)
  <2> SUFFICES ASSUME NEW j \in i + 1 .. k PROVE j \notin Closings(t, i)
    OBVIOUS
  <2>1. j \in i + 1 .. k - 2 \/ j = k - 1 \/ j = k
    BY <1>2
  <2>2. CASE j \in i + 1 .. k - 2
    BY <1>1, <2>2
  <2>3. CASE j = k - 1
    BY <1>2, <2>3, ClosingIs
  <2>4. CASE j = k
    BY <1>4, <2>4, ClosingIs
  <2> QED BY <2>1, <2>2, <2>3, <2>4
<1>6. /\ Unquoted(t, i + 1, k - 1) = Unquoted(t, i + 1, k - 2) \o <<"quote">>
      /\ Unquoted(t, i + 1, k - 2) \in Seq(Bytes)
  <2>1. Kernel(t, i + 1, k - 1) = <<"quote">>
    BY <1>1 DEF Kernel
  <2>2. /\ Unquoted(t, i + 1, k - 1 - 1) \in Seq(Bytes)
        /\ Unquoted(t, i + 1, k - 1) = Unquoted(t, i + 1, k - 1 - 1) \o Kernel(t, i + 1, k - 1)
    BY <1>2, UnquotedNext
  <2> QED BY <1>2, <2>1, <2>2
<1>7. Unquoted(t, i + 1, k) = Unquoted(t, i + 1, k - 1) /\ Unquoted(t, i + 1, k - 1) \in Seq(Bytes)
  <2>1. Kernel(t, i + 1, k) = << >>
    BY <1>4 DEF Kernel
  <2>2. /\ Unquoted(t, i + 1, k - 1) \in Seq(Bytes)
        /\ Unquoted(t, i + 1, k) = Unquoted(t, i + 1, k - 1) \o Kernel(t, i + 1, k)
    BY <1>2, UnquotedNext
  <2> QED BY <2>1, <2>2, ConcatEmptySeq
<1>8. r.cell = Unquoted(t, i + 1, k)
  <2> DEFINE x == Unquoted(t, i + 1, k - 2)
  <2>1. x \in Seq(Bytes) /\ r.cell = Append(x, "quote") /\ Unquoted(t, i + 1, k) = x \o <<"quote">>
    BY <1>1, <1>6, <1>7
  <2> HIDE DEF x
  <2> QED BY <1>2, <2>1, AppendIsConcat
<1> QED BY <1>2, <1>4, <1>5, <1>8 DEF CsvQuotedIn

\* Where a CSV cell without quotes ends.
PlainEnd(t, i) == Min({Len(t) + 1} \cup {k \in i .. Len(t) : t[k] \in LineEnds \cup {"sep"}})

\* It is in the text or right behind it.
LEMMA PlainEndType ==
  ASSUME NEW t \in Texts, NEW i \in 1 .. Len(t) + 1
  PROVE  PlainEnd(t, i) \in i .. Len(t) + 1
<1>1. Len(t) \in Nat
  BY LenProperties DEF Texts
<1> DEFINE S == {Len(t) + 1} \cup {k \in i .. Len(t) : t[k] \in LineEnds \cup {"sep"}}
<1>2. S \in SUBSET Nat /\ S # {} /\ S \subseteq i .. Len(t) + 1
  BY <1>1
<1>3. PlainEnd(t, i) = Min(S)
  BY DEF PlainEnd
<1> HIDE DEF S
<1> QED BY <1>2, <1>3, MinIn

\* It is the first terminator, or the end of the text.
LEMMA PlainEndIs ==
  ASSUME NEW t \in Texts, NEW i \in 1 .. Len(t) + 1, NEW k \in i .. Len(t) + 1,
         \A j \in i .. k - 1 : t[j] \notin Terminators, k <= Len(t) => t[k] \in Terminators
  PROVE  PlainEnd(t, i) = k
<1>1. Len(t) \in Nat
  BY LenProperties DEF Texts
<1> DEFINE S == {Len(t) + 1} \cup {m \in i .. Len(t) : t[m] \in LineEnds \cup {"sep"}}
<1>2. S \in SUBSET Int
  BY <1>1
<1>3. k \in S
  <2>1. k \in i .. Len(t) \/ k = Len(t) + 1
    BY <1>1
  <2> QED BY <1>1, <2>1 DEF Terminators
<1>4. \A x \in S : k <= x
  <2> SUFFICES ASSUME NEW x \in S, x < k PROVE FALSE
    BY <1>1, <1>2
  <2>1. x \in i .. k - 1 /\ t[x] \in Terminators
    BY <1>1 DEF Terminators
  <2> QED BY <2>1
<1>5. PlainEnd(t, i) = Min(S)
  BY DEF PlainEnd
<1> HIDE DEF S
<1> QED BY <1>2, <1>3, <1>4, <1>5, MinIsLeast

\* The reference's CSV cell, by cases.
LEMMA CsvCellIs ==
  ASSUME NEW t, NEW i
  PROVE  /\ ~(i <= Len(t) /\ t[i] = "quote") =>
              LET raw == SubSeq(t, i, PlainEnd(t, i) - 1) IN
              CsvCell(t, i) = [end |-> PlainEnd(t, i), ok |-> TRUE,
                               value |-> IF raw = NullMarker THEN Null ELSE raw]
         /\ i <= Len(t) /\ t[i] = "quote" /\ Closings(t, i) = {} =>
              CsvCell(t, i) = [end |-> Len(t) + 1, value |-> << >>, ok |-> FALSE]
         /\ i <= Len(t) /\ t[i] = "quote" /\ Closings(t, i) # {} =>
              LET k == Min(Closings(t, i)) IN
              CsvCell(t, i) = [end |-> k + 1, value |-> Unquoted(t, i + 1, k - 1),
                               ok |-> k < Len(t) => t[k + 1] \in LineEnds \cup {"sep"}]
BY DEF CsvCell, PlainEnd

\* A CSV cell of a text: its end is in the text or right behind it, its value a cell.
LEMMA CsvCellType ==
  ASSUME NEW t \in Texts, NEW i \in 1 .. Len(t) + 1
  PROVE  CsvCell(t, i) \in CellRecs /\ CsvCell(t, i).end \in i .. Len(t) + 1
<1>1. Len(t) \in Nat
  BY LenProperties DEF Texts
<1>2. CASE ~(i <= Len(t) /\ t[i] = "quote")
  <2> DEFINE e == PlainEnd(t, i)
  <2> DEFINE raw == SubSeq(t, i, e - 1)
  <2> DEFINE v == IF raw = NullMarker THEN Null ELSE raw
  <2>1. e \in i .. Len(t) + 1
    BY PlainEndType
  <2>2. raw \in Seq(Bytes)
    <3> HIDE DEF e
    <3> QED BY <2>1, CutIs
  <2>3. v \in Cells
    <3> HIDE DEF raw
    <3> QED BY <2>2 DEF Cells
  <2>4. CsvCell(t, i) = [end |-> e, value |-> v, ok |-> TRUE]
    BY <1>2, CsvCellIs
  <2> HIDE DEF e, raw, v
  <2> QED BY <1>1, <2>1, <2>3, <2>4 DEF CellRecs
<1>3. CASE i <= Len(t) /\ t[i] = "quote" /\ Closings(t, i) = {}
  <2>1. CsvCell(t, i) = [end |-> Len(t) + 1, value |-> << >>, ok |-> FALSE]
    BY <1>3, CsvCellIs
  <2>2. << >> \in Cells
    BY DEF Cells
  <2> QED BY <1>1, <2>1, <2>2 DEF CellRecs
<1>4. CASE i <= Len(t) /\ t[i] = "quote" /\ Closings(t, i) # {}
  <2> DEFINE k == Min(Closings(t, i))
  <2> DEFINE v == Unquoted(t, i + 1, k - 1)
  <2> DEFINE ok == k < Len(t) => t[k + 1] \in LineEnds \cup {"sep"}
  <2>1. k \in i + 1 .. Len(t)
    <3>1. Closings(t, i) \in SUBSET Nat /\ Closings(t, i) \subseteq i + 1 .. Len(t)
      BY <1>1 DEF Closings
    <3> QED BY <1>4, <3>1, MinIn
  <2>2. CsvCell(t, i) = [end |-> k + 1, value |-> v, ok |-> ok] /\ ok \in BOOLEAN
    BY <1>4, CsvCellIs
  <2>3. v \in Cells
    <3> HIDE DEF k
    <3>1. i + 1 \in 1 .. Len(t) + 1 /\ k \in i + 1 .. Len(t) + 1
      BY <1>1, <1>4, <2>1
    <3>2. v \in Seq(Bytes)
      BY <3>1, UnquotedNext
    <3> QED BY <3>2 DEF Cells
  <2> HIDE DEF k, v, ok
  <2> QED BY <1>1, <2>1, <2>2, <2>3 DEF CellRecs
<1> QED BY <1>2, <1>3, <1>4

\* What the parser has of a cell without quotes when it ends is the cell.
LEMMA CsvPlainTaken ==
  ASSUME NEW t \in Texts, NEW i \in 1 .. Len(t) + 1, NEW k \in i .. Len(t) + 1, NEW q, CsvPlainIn(q, t, i, k),
         k <= Len(t) => t[k] \in Terminators
  PROVE  CsvCell(t, i) = [end |-> k, ok |-> TRUE, value |-> IF q.cell = NullMarker THEN Null ELSE q.cell]
<1>1. Len(t) \in Nat
  BY LenProperties DEF Texts
<1>2. PlainEnd(t, i) = k
  BY PlainEndIs DEF CsvPlainIn
<1>3. ~(i <= Len(t) /\ t[i] = "quote")
  <2>1. k > i \/ k = i
    BY <1>1
  <2> QED BY <2>1 DEF CsvPlainIn, Terminators, LineEnds
<1>4. q.cell = SubSeq(t, i, k - 1)
  BY DEF CsvPlainIn
<1> QED BY <1>2, <1>3, <1>4, CsvCellIs

\* What it has of a cell behind a quote that turns out to be the last.
LEMMA CsvQuotedTaken ==
  ASSUME NEW t \in Texts, NEW i \in 1 .. Len(t), NEW k \in i .. Len(t) + 1, NEW q, CsvQuotedIn(q, t, i, k),
         q.state = "QuotePending", k <= Len(t) => t[k] # "quote"
  PROVE  CsvCell(t, i) = [end |-> k, value |-> q.cell, ok |-> k <= Len(t) => t[k] \in Terminators]
<1>1. /\ OddQuotes(t, i + 1, k - 1) /\ t[k - 1] = "quote" /\ q.cell = Unquoted(t, i + 1, k - 2)
      /\ i + 1 < k /\ \A j \in i + 1 .. k - 2 : j \notin Closings(t, i)
  BY DEF CsvQuotedIn
<1>2. /\ Len(t) \in Nat /\ k - 1 \in i + 1 .. Len(t) /\ k - 1 + 1 = k /\ k - 1 - 1 = k - 2 /\ i <= Len(t)
      /\ (k - 1 < Len(t) <=> k <= Len(t))
  BY <1>1, LenProperties DEF Texts
<1>3. k - 1 \in Closings(t, i)
  BY <1>1, <1>2, ClosingIs
<1>4. Closings(t, i) \in SUBSET Int /\ \A x \in Closings(t, i) : k - 1 <= x
  <2>1. Closings(t, i) \subseteq i + 1 .. Len(t)
    BY DEF Closings
  <2>2. \A x \in i + 1 .. Len(t) : x \in i + 1 .. k - 2 \/ k - 1 <= x
    BY <1>2
  <2> QED BY <1>1, <2>1, <2>2
<1>5. Min(Closings(t, i)) = k - 1
  BY <1>3, <1>4, MinIsLeast
<1>6. t[i] = "quote"
  BY DEF CsvQuotedIn
<1>7. CsvCell(t, i) = [end |-> k, value |-> Unquoted(t, i + 1, k - 2),
                       ok |-> k <= Len(t) => t[k] \in LineEnds \cup {"sep"}]
  BY <1>2, <1>3, <1>5, <1>6, CsvCellIs
<1> QED BY <1>1, <1>7 DEF Terminators

\* A cell whose quotes are not closed is malformed.
LEMMA CsvUnclosed ==
  ASSUME NEW t \in Texts, NEW i \in 1 .. Len(t), NEW q, CsvQuotedIn(q, t, i, Len(t) + 1), q.state = "InQuoted"
  PROVE  CsvCell(t, i).ok = FALSE
<1>1. Len(t) \in Nat /\ Len(t) + 1 - 1 = Len(t) /\ i <= Len(t)
  BY LenProperties DEF Texts
<1>2. \A j \in i + 1 .. Len(t) : j \notin Closings(t, i)
  BY <1>1 DEF CsvQuotedIn
<1>3. Closings(t, i) = {}
  BY <1>2 DEF Closings
<1>4. t[i] = "quote"
  BY DEF CsvQuotedIn
<1>5. CsvCell(t, i) = [end |-> Len(t) + 1, value |-> << >>, ok |-> FALSE]
  BY <1>1, <1>3, <1>4, CsvCellIs
<1> QED BY <1>5

------------------------------------------------------------------------------
(* Rows of a text, from each position to the next. *)

\* A cell of a text, in either format.
LEMMA CellAtType ==
  ASSUME NEW t \in Texts, NEW i \in 1 .. Len(t) + 1, NEW fmt
  PROVE  CellAt(t, i, fmt) \in CellRecs /\ CellAt(t, i, fmt).end \in i .. Len(t) + 1
BY TsvCellType, CsvCellType DEF CellAt

\* A separator follows the cell.
GoesOn(t, c) == c.ok /\ c.end <= Len(t) /\ t[c.end] = "sep"

\* The row at k, given those further on.
RowStep(t, fmt, h, k) ==
  IF GoesOn(t, CellAt(t, k, fmt))
  THEN [h[CellAt(t, k, fmt).end + 1] EXCEPT !.cells = <<CellAt(t, k, fmt).value>> \o @]
  ELSE [end |-> CellAt(t, k, fmt).end, cells |-> <<CellAt(t, k, fmt).value>>, ok |-> CellAt(t, k, fmt).ok]

\* Where the next cell starts.
LEMMA NextCell ==
  ASSUME NEW t \in Texts, NEW k \in 1 .. Len(t) + 1, NEW fmt, GoesOn(t, CellAt(t, k, fmt))
  PROVE  CellAt(t, k, fmt).end + 1 \in k + 1 .. Len(t) + 1
<1>1. Len(t) \in Nat
  BY LenProperties DEF Texts
<1>2. CellAt(t, k, fmt).end \in k .. Len(t) + 1 /\ CellAt(t, k, fmt).end <= Len(t)
  BY CellAtType DEF GoesOn
<1> QED BY <1>1, <1>2

\* The rows from every position are as their definition says.
LEMMA RowIs ==
  ASSUME NEW t \in Texts, NEW fmt
  PROVE  \E h : /\ \A k : RowAt(t, k, fmt) = h[k]
                /\ \A k \in 1 .. Len(t) + 1 : h[k] = RowStep(t, fmt, h, k)
<1> DEFINE n == Len(t) + 1
<1> DEFINE Good(m, h) == h = [k \in n + 1 - m .. n |-> RowStep(t, fmt, h, k)]
<1> DEFINE S == {m \in Nat : m <= n => \E h : Good(m, h)}
<1>0. n \in Nat
  BY LenProperties DEF Texts
<1>1. 0 \in S
  <2> DEFINE h == [k \in n + 1 - 0 .. n |-> 0]
  <2>1. n + 1 - 0 .. n = {}
    BY <1>0
  <2>2. Good(0, h)
    BY <2>1
  <2> QED BY <2>2
<1>2. ASSUME NEW m \in Nat, m \in S PROVE m + 1 \in S
  <2> SUFFICES ASSUME m + 1 <= n PROVE \E g : Good(m + 1, g)
    OBVIOUS
  <2> DEFINE a == n - m
  <2>0. a \in 1 .. n /\ n + 1 - (m + 1) = a /\ n + 1 - m = a + 1 /\ m <= n
    BY <1>0
  <2>1. PICK h : Good(m, h)
    BY <1>2, <2>0
  <2> DEFINE g == [k \in a .. n |-> IF k = a THEN RowStep(t, fmt, h, a) ELSE h[k]]
  <2> HIDE DEF a, n
  <2>2. ASSUME NEW k \in a .. n, NEW j \in k + 1 .. n PROVE g[j] = h[j]
    <3>1. j \in a .. n /\ j # a
      BY <1>0, <2>0
    <3> QED BY <3>1
  <2>3. ASSUME NEW k \in a .. n PROVE RowStep(t, fmt, g, k) = RowStep(t, fmt, h, k)
    <3>1. CASE GoesOn(t, CellAt(t, k, fmt))
      <4>1. k \in 1 .. Len(t) + 1
        BY <1>0, <2>0 DEF n
      <4>2. CellAt(t, k, fmt).end + 1 \in k + 1 .. n
        BY <3>1, <4>1, NextCell DEF n
      <4> HIDE DEF g
      <4>3. g[CellAt(t, k, fmt).end + 1] = h[CellAt(t, k, fmt).end + 1]
        BY <2>2, <4>2
      <4> QED BY <4>3 DEF RowStep
    <3>2. CASE ~GoesOn(t, CellAt(t, k, fmt))
      <4> HIDE DEF g
      <4> QED BY <3>2 DEF RowStep
    <3> QED BY <3>1, <3>2
  <2>4. ASSUME NEW k \in a .. n PROVE g[k] = RowStep(t, fmt, g, k)
    <3>1. CASE k = a
      BY <2>3, <3>1
    <3>2. CASE k # a
      <4>1. k \in a + 1 .. n
        BY <1>0, <2>0, <3>2
      <4>2. h[k] = RowStep(t, fmt, h, k)
        BY <2>0, <2>1, <4>1
      <4>3. g[k] = h[k]
        BY <3>2
      <4> HIDE DEF g
      <4> QED BY <2>3, <4>2, <4>3
    <3> QED BY <3>1, <3>2
  <2>5. g = [k \in a .. n |-> RowStep(t, fmt, g, k)]
    BY <2>4
  <2>6. Good(m + 1, g)
    <3> HIDE DEF g
    <3> QED BY <2>0, <2>5
  <2> HIDE DEF Good
  <2> QED BY <2>6
<1>3. n \in S
  <2> HIDE DEF S, n
  <2> QED BY <1>0, <1>1, <1>2, NatSetInduction
<1> DEFINE Is(h) == h = [k \in 1 .. n |-> RowStep(t, fmt, h, k)]
<1>4. \E h : Is(h)
  <2>1. PICK h : Good(n, h)
    BY <1>0, <1>3
  <2>2. n + 1 - n = 1
    BY <1>0
  <2> HIDE DEF n
  <2>3. Is(h)
    BY <2>1, <2>2
  <2> HIDE DEF Is
  <2> QED BY <2>3
<1> DEFINE F == CHOOSE h : Is(h)
<1>5. Is(F)
  <2> HIDE DEF Is
  <2> QED BY <1>4
<1>6. \A k : RowAt(t, k, fmt) = F[k]
  BY DEF RowAt, RowStep, GoesOn
<1> HIDE DEF F
<1>7. \A k \in 1 .. Len(t) + 1 : F[k] = RowStep(t, fmt, F, k)
  BY <1>5
<1> QED BY <1>6, <1>7

\* A row of a text ends in the text or right behind it.
LEMMA RowType ==
  ASSUME NEW t \in Texts, NEW i \in 1 .. Len(t) + 1, NEW fmt
  PROVE  RowAt(t, i, fmt) \in RowRecs /\ RowAt(t, i, fmt).end \in i .. Len(t) + 1
<1> DEFINE n == Len(t) + 1
<1>0. n \in Nat
  BY LenProperties DEF Texts
<1>1. PICK h : /\ \A k : RowAt(t, k, fmt) = h[k]
               /\ \A k \in 1 .. n : h[k] = RowStep(t, fmt, h, k)
  BY RowIs
<1> DEFINE Typed(k) == h[k] \in RowRecs /\ h[k].end \in k .. n
<1> DEFINE S == {m \in Nat : \A k \in 1 .. n : k > n - m => Typed(k)}
<1>2. 0 \in S
  BY <1>0
<1>3. ASSUME NEW m \in Nat, m \in S PROVE m + 1 \in S
  <2> SUFFICES ASSUME NEW k \in 1 .. n, k > n - (m + 1) PROVE Typed(k)
    OBVIOUS
  <2>1. CASE k > n - m
    BY <1>3, <2>1
  <2>2. CASE ~(k > n - m)
    <3> DEFINE c == CellAt(t, k, fmt)
    <3>1. k = n - m
      BY <1>0, <2>2
    <3>2. c \in CellRecs /\ c.end \in k .. n
      BY CellAtType
    <3>3. c.end \in Nat /\ c.value \in Cells /\ c.ok \in BOOLEAN
      BY <3>2 DEF CellRecs
    <3>4. <<c.value>> \in Seq(Cells)
      <4> DEFINE v == c.value
      <4>1. v \in Cells
        BY <3>3
      <4> HIDE DEF v, c
      <4>2. <<v>> \in Seq(Cells)
        BY <4>1
      <4> QED BY <4>2 DEF v
    <3>5. h[k] = RowStep(t, fmt, h, k)
      BY <1>1
    <3>6. CASE GoesOn(t, c)
      <4> DEFINE j == c.end + 1
      <4>1. j \in k + 1 .. n
        BY <3>6, NextCell
      <4>2. h[k] = [h[j] EXCEPT !.cells = <<c.value>> \o @]
        BY <3>5, <3>6 DEF RowStep
      <4> HIDE DEF j, c
      <4>3. j \in 1 .. n /\ j > n - m
        BY <1>0, <3>1, <4>1
      <4>4. Typed(j)
        BY <1>3, <4>3
      <4>5. h[j].end \in Nat /\ h[j].cells \in Seq(Cells) /\ h[j].ok \in BOOLEAN /\ h[j].end \in k .. n
        BY <1>0, <4>1, <4>4 DEF RowRecs
      <4>6. <<c.value>> \o h[j].cells \in Seq(Cells)
        <5> DEFINE x == <<c.value>>
        <5> DEFINE y == h[j].cells
        <5>1. x \in Seq(Cells) /\ y \in Seq(Cells)
          BY <3>4, <4>5
        <5> HIDE DEF x, y
        <5>2. x \o y \in Seq(Cells)
          BY <5>1, ConcatProperties
        <5> QED BY <5>2 DEF x, y
      <4> QED BY <4>2, <4>4, <4>5, <4>6 DEF RowRecs
    <3>7. CASE ~GoesOn(t, c)
      <4>1. h[k] = [end |-> c.end, cells |-> <<c.value>>, ok |-> c.ok]
        BY <3>5, <3>7 DEF RowStep
      <4> HIDE DEF c
      <4> QED BY <3>2, <3>3, <3>4, <4>1 DEF RowRecs
    <3> QED BY <3>6, <3>7
  <2> QED BY <2>1, <2>2
<1>4. \A m \in Nat : m \in S
  <2> HIDE DEF S
  <2> QED BY <1>2, <1>3, NatSetInduction
<1>5. n \in S /\ i > n - n
  BY <1>0, <1>4
<1>6. Typed(i)
  <2>1. \A k \in 1 .. n : k > n - n => Typed(k)
    <3> HIDE DEF Typed
    <3> QED BY <1>5
  <2> HIDE DEF Typed
  <2> QED BY <1>5, <2>1
<1> QED BY <1>1, <1>6

\* A cell without a separator behind it is the last of its row.
LEMMA RowEnds ==
  ASSUME NEW t \in Texts, NEW i \in 1 .. Len(t) + 1, NEW fmt, ~GoesOn(t, CellAt(t, i, fmt))
  PROVE  RowAt(t, i, fmt) = [end |-> CellAt(t, i, fmt).end, cells |-> <<CellAt(t, i, fmt).value>>,
                             ok |-> CellAt(t, i, fmt).ok]
<1>1. PICK h : /\ \A k : RowAt(t, k, fmt) = h[k]
               /\ \A k \in 1 .. Len(t) + 1 : h[k] = RowStep(t, fmt, h, k)
  BY RowIs
<1> QED BY <1>1 DEF RowStep

\* Behind a separator, the row goes on with the cells that follow.
LEMMA RowGoesOn ==
  ASSUME NEW t \in Texts, NEW i \in 1 .. Len(t) + 1, NEW fmt, GoesOn(t, CellAt(t, i, fmt))
  PROVE  LET c == CellAt(t, i, fmt)
             next == RowAt(t, c.end + 1, fmt)
         IN  /\ c.end + 1 \in i + 1 .. Len(t) + 1
             /\ RowAt(t, i, fmt).end = next.end /\ RowAt(t, i, fmt).ok = next.ok
             /\ RowAt(t, i, fmt).cells = <<c.value>> \o next.cells
<1> DEFINE j == CellAt(t, i, fmt).end + 1
<1>1. PICK h : /\ \A k : RowAt(t, k, fmt) = h[k]
               /\ \A k \in 1 .. Len(t) + 1 : h[k] = RowStep(t, fmt, h, k)
  BY RowIs
<1>2. j \in i + 1 .. Len(t) + 1
  BY NextCell
<1>3. j \in 1 .. Len(t) + 1
  <2>1. Len(t) \in Nat
    BY LenProperties DEF Texts
  <2> HIDE DEF j
  <2> QED BY <1>2, <2>1
<1>4. RowAt(t, j, fmt) \in RowRecs
  <2> HIDE DEF j
  <2> QED BY <1>3, RowType
<1>5. RowAt(t, i, fmt) = [RowAt(t, j, fmt) EXCEPT !.cells = <<CellAt(t, i, fmt).value>> \o @]
  BY <1>1 DEF RowStep
<1> HIDE DEF j
<1>6. /\ RowAt(t, i, fmt).end = RowAt(t, j, fmt).end /\ RowAt(t, i, fmt).ok = RowAt(t, j, fmt).ok
      /\ RowAt(t, i, fmt).cells = <<CellAt(t, i, fmt).value>> \o RowAt(t, j, fmt).cells
  BY <1>4, <1>5 DEF RowRecs
<1> QED BY <1>2, <1>6 DEF j

\* The rows from k on, given those further on.
RowsStep(t, fmt, h, k) ==
  IF k > Len(t) THEN << >>
  ELSE IF t[k] \in LineEnds THEN h[k + 1]
  ELSE IF RowAt(t, k, fmt).ok THEN <<RowAt(t, k, fmt)>> \o h[RowAt(t, k, fmt).end + 1]
  ELSE <<RowAt(t, k, fmt)>>

\* The rows from every position are as their definition says.
LEMMA RowsAre ==
  ASSUME NEW t \in Texts, NEW fmt
  PROVE  \A k \in 1 .. Len(t) + 2 : RowsFrom(t, fmt)[k] = RowsStep(t, fmt, RowsFrom(t, fmt), k)
<1> DEFINE n == Len(t) + 2
<1> DEFINE Good(m, h) == h = [k \in n + 1 - m .. n |-> RowsStep(t, fmt, h, k)]
<1> DEFINE S == {m \in Nat : m <= n => \E h : Good(m, h)}
<1>0. n \in Nat /\ Len(t) \in Nat
  BY LenProperties DEF Texts
<1>1. 0 \in S
  <2> DEFINE h == [k \in n + 1 - 0 .. n |-> 0]
  <2>1. n + 1 - 0 .. n = {}
    BY <1>0
  <2>2. Good(0, h)
    BY <2>1
  <2> QED BY <2>2
<1>2. ASSUME NEW m \in Nat, m \in S PROVE m + 1 \in S
  <2> SUFFICES ASSUME m + 1 <= n PROVE \E g : Good(m + 1, g)
    OBVIOUS
  <2> DEFINE a == n - m
  <2>0. a \in 1 .. n /\ n + 1 - (m + 1) = a /\ n + 1 - m = a + 1 /\ m <= n
    BY <1>0
  <2>1. PICK h : Good(m, h)
    BY <1>2, <2>0
  <2> DEFINE g == [k \in a .. n |-> IF k = a THEN RowsStep(t, fmt, h, a) ELSE h[k]]
  <2> HIDE DEF a, n
  <2>2. ASSUME NEW k \in a .. n, NEW j \in k + 1 .. n PROVE g[j] = h[j]
    <3>1. j \in a .. n /\ j # a
      BY <1>0, <2>0
    <3> QED BY <3>1
  <2>3. ASSUME NEW k \in a .. n PROVE RowsStep(t, fmt, g, k) = RowsStep(t, fmt, h, k)
    <3>1. CASE k > Len(t)
      <4> HIDE DEF g
      <4> QED BY <3>1 DEF RowsStep
    <3>2. CASE ~(k > Len(t))
      <4> DEFINE e == RowAt(t, k, fmt).end + 1
      <4>1. k \in 1 .. Len(t) + 1
        BY <1>0, <2>0, <3>2
      <4>2. RowAt(t, k, fmt).end \in k .. Len(t) + 1
        BY <4>1, RowType
      <4>3. e \in k + 1 .. n /\ k + 1 \in k + 1 .. n
        BY <1>0, <3>2, <4>1, <4>2 DEF n
      <4> HIDE DEF g, e
      <4>4. g[e] = h[e] /\ g[k + 1] = h[k + 1]
        BY <2>2, <4>3
      <4>5. RowsStep(t, fmt, g, k) = IF t[k] \in LineEnds THEN g[k + 1]
              ELSE IF RowAt(t, k, fmt).ok THEN <<RowAt(t, k, fmt)>> \o g[e] ELSE <<RowAt(t, k, fmt)>>
        BY <3>2 DEF RowsStep, e
      <4>6. RowsStep(t, fmt, h, k) = IF t[k] \in LineEnds THEN h[k + 1]
              ELSE IF RowAt(t, k, fmt).ok THEN <<RowAt(t, k, fmt)>> \o h[e] ELSE <<RowAt(t, k, fmt)>>
        BY <3>2 DEF RowsStep, e
      <4> QED BY <4>4, <4>5, <4>6
    <3> QED BY <3>1, <3>2
  <2>4. ASSUME NEW k \in a .. n PROVE g[k] = RowsStep(t, fmt, g, k)
    <3>1. CASE k = a
      BY <2>3, <3>1
    <3>2. CASE k # a
      <4>1. k \in a + 1 .. n
        BY <1>0, <2>0, <3>2
      <4>2. h[k] = RowsStep(t, fmt, h, k)
        BY <2>0, <2>1, <4>1
      <4>3. g[k] = h[k]
        BY <3>2
      <4> HIDE DEF g
      <4> QED BY <2>3, <4>2, <4>3
    <3> QED BY <3>1, <3>2
  <2>5. g = [k \in a .. n |-> RowsStep(t, fmt, g, k)]
    BY <2>4
  <2>6. Good(m + 1, g)
    <3> HIDE DEF g
    <3> QED BY <2>0, <2>5
  <2> HIDE DEF Good
  <2> QED BY <2>6
<1>3. n \in S
  <2> HIDE DEF S, n
  <2> QED BY <1>0, <1>1, <1>2, NatSetInduction
<1> DEFINE Is(h) == h = [k \in 1 .. n |-> RowsStep(t, fmt, h, k)]
<1>4. \E h : Is(h)
  <2>1. PICK h : Good(n, h)
    BY <1>0, <1>3
  <2>2. n + 1 - n = 1
    BY <1>0
  <2> HIDE DEF n
  <2>3. Is(h)
    BY <2>1, <2>2
  <2> HIDE DEF Is
  <2> QED BY <2>3
<1> DEFINE F == CHOOSE h : Is(h)
<1>5. Is(F)
  <2> HIDE DEF Is
  <2> QED BY <1>4
<1>6. RowsFrom(t, fmt) = F
  BY DEF RowsFrom, RowsStep
<1> HIDE DEF F
<1>7. \A k \in 1 .. Len(t) + 2 : F[k] = RowsStep(t, fmt, F, k)
  BY <1>5
<1> QED BY <1>6, <1>7

\* The rows from a position on: nothing at the end, nothing of an empty line, and a row
\* with what follows it unless it is malformed.
LEMMA RowsFromIs ==
  ASSUME NEW t \in Texts, NEW fmt, NEW s \in 1 .. Len(t) + 2
  PROVE  /\ s > Len(t) => RowsFrom(t, fmt)[s] = << >>
         /\ s <= Len(t) /\ t[s] \in LineEnds => RowsFrom(t, fmt)[s] = RowsFrom(t, fmt)[s + 1]
         /\ s <= Len(t) /\ t[s] \notin LineEnds /\ RowAt(t, s, fmt).ok =>
              RowsFrom(t, fmt)[s] = <<RowAt(t, s, fmt)>> \o RowsFrom(t, fmt)[RowAt(t, s, fmt).end + 1]
         /\ s <= Len(t) /\ t[s] \notin LineEnds /\ ~RowAt(t, s, fmt).ok =>
              RowsFrom(t, fmt)[s] = <<RowAt(t, s, fmt)>>
<1>1. Len(t) \in Nat
  BY LenProperties DEF Texts
<1>2. RowsFrom(t, fmt)[s] = RowsStep(t, fmt, RowsFrom(t, fmt), s)
  BY RowsAre
<1>3. s > Len(t) <=> ~(s <= Len(t))
  BY <1>1
<1> DEFINE h == RowsFrom(t, fmt)
<1> DEFINE r == RowAt(t, s, fmt)
<1>4. h[s] = IF s > Len(t) THEN << >> ELSE IF t[s] \in LineEnds THEN h[s + 1]
             ELSE IF r.ok THEN <<r>> \o h[r.end + 1] ELSE <<r>>
  BY <1>2 DEF RowsStep
<1> HIDE DEF h, r
<1>5. /\ s > Len(t) => h[s] = << >>
      /\ s <= Len(t) /\ t[s] \in LineEnds => h[s] = h[s + 1]
      /\ s <= Len(t) /\ t[s] \notin LineEnds /\ r.ok => h[s] = <<r>> \o h[r.end + 1]
      /\ s <= Len(t) /\ t[s] \notin LineEnds /\ ~r.ok => h[s] = <<r>>
  BY <1>3, <1>4
<1> QED BY <1>5 DEF h, r

\* The rows of a text are rows.
LEMMA RowsType ==
  ASSUME NEW t \in Texts, NEW fmt, NEW s \in 1 .. Len(t) + 2
  PROVE  RowsFrom(t, fmt)[s] \in Seq(RowRecs)
<1> DEFINE n == Len(t) + 2
<1> DEFINE h == RowsFrom(t, fmt)
<1>0. n \in Nat /\ Len(t) \in Nat
  BY LenProperties DEF Texts
<1> DEFINE S == {m \in Nat : \A k \in 1 .. n : k > n - m => h[k] \in Seq(RowRecs)}
<1>2. 0 \in S
  BY <1>0
<1>3. ASSUME NEW m \in Nat, m \in S PROVE m + 1 \in S
  <2> SUFFICES ASSUME NEW k \in 1 .. n, k > n - (m + 1) PROVE h[k] \in Seq(RowRecs)
    OBVIOUS
  <2>1. CASE k > n - m
    BY <1>3, <2>1
  <2>2. CASE ~(k > n - m)
    <3> DEFINE r == RowAt(t, k, fmt)
    <3>1. k = n - m
      BY <1>0, <2>2
    <3>2. CASE k > Len(t)
      <4>1. h[k] = << >>
        BY <3>2, RowsFromIs
      <4> HIDE DEF h
      <4> QED BY <4>1
    <3>3. CASE ~(k > Len(t))
      <4>1. k <= Len(t) /\ k \in 1 .. Len(t) + 1
        BY <1>0, <3>3
      <4>2. r \in RowRecs /\ r.end \in k .. Len(t) + 1
        BY <4>1, RowType
      <4> DEFINE e == r.end + 1
      <4>3. e \in 1 .. n /\ e > n - m /\ k + 1 \in 1 .. n /\ k + 1 > n - m
        BY <1>0, <3>1, <4>1, <4>2
      <4>4. h[e] \in Seq(RowRecs) /\ h[k + 1] \in Seq(RowRecs)
        <5> HIDE DEF e, h, n
        <5> QED BY <1>3, <4>3
      <4>5. h[k] = h[k + 1] \/ h[k] = <<r>> \o h[e] \/ h[k] = <<r>>
        BY <4>1, RowsFromIs
      <4> HIDE DEF h, r, e
      <4>6. <<r>> \in Seq(RowRecs) /\ <<r>> \o h[e] \in Seq(RowRecs)
        <5> DEFINE x == <<r>>
        <5> DEFINE y == h[e]
        <5>1. x \in Seq(RowRecs) /\ y \in Seq(RowRecs)
          BY <4>2, <4>4
        <5> HIDE DEF x, y
        <5>2. x \o y \in Seq(RowRecs)
          BY <5>1, ConcatProperties
        <5> QED BY <5>1, <5>2 DEF x, y
      <4> QED BY <4>4, <4>5, <4>6
    <3> QED BY <3>2, <3>3
  <2> QED BY <2>1, <2>2
<1>4. \A m \in Nat : m \in S
  <2> HIDE DEF S
  <2> QED BY <1>2, <1>3, NatSetInduction
<1>5. n \in S /\ s > n - n
  BY <1>0, <1>4
<1> QED BY <1>5

------------------------------------------------------------------------------
(* What the rows hold for the table. *)

\* The cells of each row.
CellsOf(rows) == [r \in DOMAIN rows |-> rows[r].cells]

\* What a stream of these rows holds for the table.
DataOf(rows, fmt) ==
  IF streamFormatHasHeader(fmt) /\ CellsOf(rows) # << >> THEN Tail(CellsOf(rows)) ELSE CellsOf(rows)

\* The row at hand is the header.
Heads(rows, fmt) == streamFormatHasHeader(fmt) /\ rows = << >>

\* All of the rows can be taken.
RowsOk(rows, j) ==
  /\ \A r \in 1 .. Len(rows) : rows[r].ok
  /\ streamFormatHasHeader(j.fmt) /\ rows # << >> => rows[1].cells = j.names
  /\ \A r \in 1 .. Len(DataOf(rows, j.fmt)) : Fits(DataOf(rows, j.fmt)[r], j)

\* The row behind these can be taken.
RowOk(rows, r, j) ==
  /\ r.ok
  /\ IF Heads(rows, j.fmt) THEN r.cells = j.names ELSE Fits(r.cells, j)

\* The cells of rows, row by row.
LEMMA CellsOfIs ==
  ASSUME NEW rows \in Seq(RowRecs)
  PROVE  /\ CellsOf(rows) \in Seq(Seq(Cells)) /\ Len(CellsOf(rows)) = Len(rows)
         /\ \A n \in 1 .. Len(rows) : CellsOf(rows)[n] = rows[n].cells /\ rows[n].cells \in Seq(Cells)
         /\ CellsOf(rows) = << >> <=> rows = << >>
<1> DEFINE n == Len(rows)
<1> DEFINE A == Seq(Cells)
<1>1. n \in Nat /\ DOMAIN rows = 1 .. n
  BY LenProperties
<1>2. \A m \in 1 .. n : rows[m].cells \in A
  <2> SUFFICES ASSUME NEW m \in 1 .. n PROVE rows[m].cells \in A
    OBVIOUS
  <2>1. rows[m] \in RowRecs
    BY ElementOfSeq
  <2> QED BY <2>1 DEF RowRecs
<1> HIDE DEF n, A
<1>3. CellsOf(rows) \in [1 .. n -> A] /\ \A m \in 1 .. n : CellsOf(rows)[m] = rows[m].cells
  BY <1>1, <1>2 DEF CellsOf
<1>4. CellsOf(rows) \in Seq(A) /\ Len(CellsOf(rows)) = n
  BY <1>1, <1>3, FunctionIsSeq
<1>5. CellsOf(rows) = << >> <=> rows = << >>
  <2>1. rows = << >> <=> n = 0
    BY <1>1, EmptySeq DEF n
  <2>2. CellsOf(rows) = << >> <=> Len(CellsOf(rows)) = 0
    BY <1>4, EmptySeq
  <2> QED BY <1>4, <2>1, <2>2
<1> QED BY <1>2, <1>3, <1>4, <1>5 DEF n, A

\* The cells of one row more.
LEMMA CellsOfGrows ==
  ASSUME NEW rows \in Seq(RowRecs), NEW r \in RowRecs
  PROVE  /\ CellsOf(Append(rows, r)) = Append(CellsOf(rows), r.cells)
         /\ r.cells \in Seq(Cells) /\ Append(rows, r) \in Seq(RowRecs)
         /\ Append(rows, r) # << >> /\ Len(Append(rows, r)) = Len(rows) + 1
         /\ Append(rows, r)[Len(rows) + 1] = r
         /\ \A n \in 1 .. Len(rows) : Append(rows, r)[n] = rows[n]
<1> DEFINE more == Append(rows, r)
<1> DEFINE a == CellsOf(rows)
<1> DEFINE b == CellsOf(more)
<1> DEFINE c == Append(a, r.cells)
<1> DEFINE A == Seq(Cells)
<1>1. /\ more \in Seq(RowRecs) /\ Len(more) = Len(rows) + 1 /\ more[Len(rows) + 1] = r /\ more # << >>
      /\ \A n \in 1 .. Len(rows) : more[n] = rows[n]
  BY AppendProperties
<1>2. r.cells \in A /\ Len(rows) \in Nat
  BY LenProperties DEF RowRecs
<1> HIDE DEF more
<1>3. a \in Seq(A) /\ Len(a) = Len(rows) /\ \A n \in 1 .. Len(rows) : a[n] = rows[n].cells
  BY CellsOfIs
<1>4. b \in Seq(A) /\ Len(b) = Len(rows) + 1 /\ \A n \in 1 .. Len(rows) + 1 : b[n] = more[n].cells
  BY <1>1, CellsOfIs
<1> HIDE DEF a, b, A
<1>5. /\ c \in Seq(A) /\ Len(c) = Len(a) + 1 /\ c[Len(a) + 1] = r.cells
      /\ \A n \in 1 .. Len(a) : c[n] = a[n]
  <2> DEFINE x == r.cells
  <2>1. x \in A
    BY <1>2
  <2> HIDE DEF x
  <2>2. /\ Append(a, x) \in Seq(A) /\ Len(Append(a, x)) = Len(a) + 1 /\ Append(a, x)[Len(a) + 1] = x
        /\ \A n \in 1 .. Len(a) : Append(a, x)[n] = a[n]
    BY <1>3, <2>1, AppendProperties
  <2> QED BY <2>2 DEF x
<1> HIDE DEF c
<1>6. ASSUME NEW n \in 1 .. Len(b) PROVE b[n] = c[n]
  <2>1. CASE n = Len(rows) + 1
    BY <1>1, <1>3, <1>4, <1>5, <2>1
  <2>2. CASE n # Len(rows) + 1
    <3>1. n \in 1 .. Len(rows) /\ n \in 1 .. Len(rows) + 1
      BY <1>2, <1>4, <2>2
    <3>2. more[n] = rows[n] /\ b[n] = more[n].cells /\ c[n] = a[n] /\ a[n] = rows[n].cells
      BY <1>1, <1>3, <1>4, <1>5, <3>1
    <3> QED BY <3>2
  <2> QED BY <2>1, <2>2
<1>7. b = c
  <2>1. Len(b) = Len(c)
    BY <1>3, <1>4, <1>5
  <2> QED BY <1>4, <1>5, <1>6, <2>1, SeqEqual
<1> QED BY <1>1, <1>2, <1>7 DEF more, b, c, a, A

\* What the rows hold for the table.
LEMMA DataGrows ==
  ASSUME NEW rows \in Seq(RowRecs), NEW r \in RowRecs, NEW fmt
  PROVE  /\ DataOf(rows, fmt) \in Seq(Seq(Cells)) /\ DataOf(<< >>, fmt) = << >>
         /\ DataOf(Append(rows, r), fmt) =
              IF Heads(rows, fmt) THEN DataOf(rows, fmt) ELSE Append(DataOf(rows, fmt), r.cells)
<1> DEFINE a == CellsOf(rows)
<1> DEFINE x == r.cells
<1> DEFINE A == Seq(Cells)
<1>1. a \in Seq(A) /\ (a = << >> <=> rows = << >>)
  BY CellsOfIs
<1>2. CellsOf(Append(rows, r)) = Append(a, x) /\ x \in A
  BY CellsOfGrows
<1>3. CellsOf(<< >>) = << >>
  BY DEF CellsOf
<1>4. DataOf(<< >>, fmt) = << >>
  BY <1>3 DEF DataOf
<1>5. DataOf(rows, fmt) = IF streamFormatHasHeader(fmt) /\ a # << >> THEN Tail(a) ELSE a
  BY DEF DataOf
<1>6. DataOf(Append(rows, r), fmt) = IF streamFormatHasHeader(fmt) /\ Append(a, x) # << >> THEN Tail(Append(a, x))
                                     ELSE Append(a, x)
  BY <1>2 DEF DataOf
<1> HIDE DEF a, A, x
<1>7. /\ Tail(Append(a, x)) = IF a = << >> THEN << >> ELSE Append(Tail(a), x)
      /\ Append(a, x) # << >> /\ (a # << >> => Tail(a) \in Seq(A))
  <2>1. Tail(Append(a, x)) = IF a = << >> THEN << >> ELSE Append(Tail(a), x)
    BY <1>1, HeadTailAppend
  <2>2. Append(a, x) # << >>
    BY <1>1, <1>2, AppendProperties
  <2>3. a # << >> => Tail(a) \in Seq(A)
    BY <1>1, HeadTailProperties
  <2> QED BY <2>1, <2>2, <2>3
<1>8. DataOf(rows, fmt) \in Seq(A)
  BY <1>1, <1>5, <1>7
<1>9. DataOf(Append(rows, r), fmt) = IF Heads(rows, fmt) THEN DataOf(rows, fmt) ELSE Append(DataOf(rows, fmt), x)
  <2>1. CASE streamFormatHasHeader(fmt)
    <3>1. CASE a = << >>
      BY <1>1, <1>5, <1>6, <1>7, <2>1, <3>1 DEF Heads
    <3>2. CASE a # << >>
      BY <1>1, <1>5, <1>6, <1>7, <2>1, <3>2 DEF Heads
    <3> QED BY <3>1, <3>2
  <2>2. CASE ~streamFormatHasHeader(fmt)
    BY <1>5, <1>6, <2>2 DEF Heads
  <2> QED BY <2>1, <2>2
<1> QED BY <1>4, <1>8, <1>9 DEF A, x

\* A row more that can be taken.
LEMMA RowsOkGrows ==
  ASSUME NEW rows \in Seq(RowRecs), NEW r \in RowRecs, NEW j, RowsOk(rows, j), RowOk(rows, r, j)
  PROVE  RowsOk(Append(rows, r), j)
<1> DEFINE more == Append(rows, r)
<1> DEFINE d == DataOf(rows, j.fmt)
<1> DEFINE e == DataOf(more, j.fmt)
<1>0. Len(rows) \in Nat /\ (rows = << >> <=> Len(rows) = 0)
  BY LenProperties, EmptySeq
<1>1. /\ more # << >> /\ Len(more) = Len(rows) + 1 /\ more[Len(rows) + 1] = r /\ r.cells \in Seq(Cells)
      /\ \A n \in 1 .. Len(rows) : more[n] = rows[n]
  BY CellsOfGrows
<1>2. d \in Seq(Seq(Cells)) /\ e = IF Heads(rows, j.fmt) THEN d ELSE Append(d, r.cells)
  BY DataGrows
<1>3. /\ \A n \in 1 .. Len(rows) : rows[n].ok
      /\ streamFormatHasHeader(j.fmt) /\ rows # << >> => rows[1].cells = j.names
      /\ \A n \in 1 .. Len(d) : Fits(d[n], j)
  BY DEF RowsOk
<1>4. r.ok /\ IF Heads(rows, j.fmt) THEN r.cells = j.names ELSE Fits(r.cells, j)
  BY DEF RowOk
<1> HIDE DEF more, d, e
<1>5. \A n \in 1 .. Len(more) : more[n].ok
  <2> SUFFICES ASSUME NEW n \in 1 .. Len(more) PROVE more[n].ok
    OBVIOUS
  <2>1. n \in 1 .. Len(rows) \/ n = Len(rows) + 1
    BY <1>0, <1>1
  <2> QED BY <1>1, <1>3, <1>4, <2>1
<1>6. streamFormatHasHeader(j.fmt) /\ more # << >> => more[1].cells = j.names
  <2> SUFFICES ASSUME streamFormatHasHeader(j.fmt) PROVE more[1].cells = j.names
    OBVIOUS
  <2>1. CASE rows = << >>
    BY <1>0, <1>1, <1>4, <2>1 DEF Heads
  <2>2. CASE rows # << >>
    <3>1. 1 \in 1 .. Len(rows)
      BY <1>0, <2>2
    <3> QED BY <1>1, <1>3, <2>2, <3>1
  <2> QED BY <2>1, <2>2
<1>7. \A n \in 1 .. Len(e) : Fits(e[n], j)
  <2>1. CASE Heads(rows, j.fmt)
    BY <1>2, <1>3, <2>1
  <2>2. CASE ~Heads(rows, j.fmt)
    <3> SUFFICES ASSUME NEW n \in 1 .. Len(e) PROVE Fits(e[n], j)
      OBVIOUS
    <3> DEFINE x == r.cells
    <3> DEFINE A == Seq(Cells)
    <3>1. d \in Seq(A) /\ x \in A /\ e = Append(d, x) /\ Fits(x, j)
      BY <1>1, <1>2, <1>4, <2>2
    <3> HIDE DEF x, A
    <3>2. /\ Len(e) = Len(d) + 1 /\ e[Len(d) + 1] = x /\ \A m \in 1 .. Len(d) : e[m] = d[m]
          /\ Len(d) \in Nat
      BY <3>1, AppendProperties, LenProperties
    <3>3. n \in 1 .. Len(d) \/ n = Len(d) + 1
      BY <3>2
    <3>4. CASE n \in 1 .. Len(d)
      <4>1. e[n] = d[n] /\ Fits(d[n], j)
        BY <1>3, <3>2, <3>4
      <4> QED BY <4>1
    <3>5. CASE n = Len(d) + 1
      <4>1. e[n] = x
        BY <3>2, <3>5
      <4> QED BY <3>1, <4>1
    <3> QED BY <3>3, <3>4, <3>5
  <2> QED BY <2>1, <2>2
<1> QED BY <1>5, <1>6, <1>7 DEF RowsOk, more, e

\* A row that cannot be taken spoils the rows, whatever follows it.
LEMMA RowsOkFails ==
  ASSUME NEW rows \in Seq(RowRecs), NEW r \in RowRecs, NEW behind \in Seq(RowRecs), NEW j,
         ~RowOk(rows, r, j), r.ok = TRUE \/ r.ok = FALSE
  PROVE  ~RowsOk(rows \o (<<r>> \o behind), j)
<1> SUFFICES ASSUME RowsOk(rows \o (<<r>> \o behind), j) PROVE FALSE
  OBVIOUS
<1> DEFINE tail == <<r>> \o behind
<1> DEFINE all == rows \o tail
<1> DEFINE k == Len(rows) + 1
<1>0. Len(rows) \in Nat /\ (rows = << >> <=> Len(rows) = 0) /\ Len(behind) \in Nat
  BY LenProperties, EmptySeq
<1>1. tail \in Seq(RowRecs) /\ Len(tail) = 1 + Len(behind) /\ tail[1] = r
  BY ConsIs
<1> HIDE DEF tail
<1>2. /\ all \in Seq(RowRecs) /\ Len(all) = Len(rows) + Len(tail)
      /\ all[k] = r /\ k \in 1 .. Len(all) /\ all # << >>
  <2>1. /\ all \in Seq(RowRecs) /\ Len(all) = Len(rows) + Len(tail)
        /\ \A n \in 1 .. Len(rows) + Len(tail) : all[n] = IF n <= Len(rows) THEN rows[n] ELSE tail[n - Len(rows)]
    BY <1>1, ConcatProperties
  <2>2. k \in 1 .. Len(rows) + Len(tail) /\ ~(k <= Len(rows)) /\ k - Len(rows) = 1
    BY <1>0, <1>1
  <2> HIDE DEF all, k
  <2>3. all[k] = r
    BY <1>1, <2>1, <2>2
  <2>4. all # << >>
    BY <1>0, <1>1, <2>1, EmptySeq
  <2> QED BY <2>1, <2>2, <2>3, <2>4
<1>3. RowsOk(all, j)
  BY DEF tail
<1> HIDE DEF all
<1>4. r.ok
  BY <1>2, <1>3 DEF RowsOk
<1> DEFINE c == CellsOf(all)
<1> DEFINE d == DataOf(all, j.fmt)
<1>5. c \in Seq(Seq(Cells)) /\ Len(c) = Len(all) /\ c[k] = r.cells /\ c # << >>
  <2> HIDE DEF k
  <2> QED BY <1>2, CellsOfIs
<1>6. d = IF streamFormatHasHeader(j.fmt) THEN Tail(c) ELSE c
  BY <1>5 DEF DataOf
<1>7. \A n \in 1 .. Len(d) : Fits(d[n], j)
  BY <1>3 DEF RowsOk
<1>8. CASE Heads(rows, j.fmt)
  <2>1. k = 1 /\ streamFormatHasHeader(j.fmt)
    BY <1>0, <1>8 DEF Heads
  <2>2. all[1].cells = j.names
    BY <1>2, <1>3, <2>1 DEF RowsOk
  <2> HIDE DEF k
  <2>3. r.cells = j.names
    BY <1>2, <2>1, <2>2
  <2> QED BY <1>4, <1>8, <2>3 DEF RowOk
<1>9. CASE ~Heads(rows, j.fmt)
  <2>1. Fits(r.cells, j)
    <3>1. CASE streamFormatHasHeader(j.fmt)
      <4> DEFINE A == Seq(Cells)
      <4>1. c \in Seq(A)
        BY <1>5
      <4> HIDE DEF c, A
      <4>2. Len(Tail(c)) = Len(c) - 1 /\ \A n \in 1 .. Len(Tail(c)) : Tail(c)[n] = c[n + 1]
        BY <1>5, <4>1, HeadTailProperties
      <4>3. Len(rows) \in 1 .. Len(Tail(c)) /\ Len(rows) + 1 = k
        BY <1>0, <1>1, <1>2, <1>5, <1>9, <3>1, <4>2 DEF Heads
      <4>4. Tail(c)[Len(rows)] = c[k]
        BY <4>2, <4>3
      <4>5. d = Tail(c)
        BY <1>6, <3>1
      <4> HIDE DEF d, k
      <4>6. Fits(d[Len(rows)], j)
        BY <1>7, <4>3, <4>5
      <4> QED BY <1>5, <4>4, <4>5, <4>6
    <3>2. CASE ~streamFormatHasHeader(j.fmt)
      <4>1. d = c
        BY <1>6, <3>2
      <4> HIDE DEF d, c, k
      <4>2. Fits(c[k], j)
        BY <1>2, <1>5, <1>7, <4>1
      <4> QED BY <1>5, <4>2
    <3> QED BY <3>1, <3>2
  <2> QED BY <1>4, <1>9, <2>1 DEF RowOk
<1> QED BY <1>8, <1>9

\* A text is accepted when its rows can be taken.
LEMMA AcceptsIs ==
  ASSUME NEW t \in Texts, NEW j
  PROVE  /\ Accepts(t, j) <=> RowsOk(RowsFrom(t, j.fmt)[1], j)
         /\ DataRows(t, j) = DataOf(RowsFrom(t, j.fmt)[1], j.fmt)
<1> DEFINE rows == RowsFrom(t, j.fmt)[1]
<1> DEFINE d == DataOf(rows, j.fmt)
<1>1. Len(t) \in Nat
  BY LenProperties DEF Texts
<1>2. rows \in Seq(RowRecs)
  <2>1. 1 \in 1 .. Len(t) + 2
    BY <1>1
  <2> QED BY <2>1, RowsType
<1>3. DOMAIN rows = 1 .. Len(rows)
  BY <1>2, LenProperties
<1>4. RowsIn(t, j.fmt) = rows /\ DataRows(t, j) = d
  BY DEF RowsIn, DataRows, DataOf, CellsOf
<1>5. d \in Seq(Seq(Cells))
  <2> DEFINE any == [end |-> 0, cells |-> << >>, ok |-> TRUE]
  <2>1. any \in RowRecs
    BY DEF RowRecs
  <2> HIDE DEF any, rows
  <2> QED BY <1>2, <2>1, DataGrows
<1>6. DOMAIN d = 1 .. Len(d)
  <2> HIDE DEF d
  <2> QED BY <1>5, LenProperties
<1>7. Accepts(t, j) <=>
        /\ \A r \in ToSet(rows) : r.ok
        /\ streamFormatHasHeader(j.fmt) /\ rows # << >> => rows[1].cells = j.names
        /\ \A row \in ToSet(d) : Fits(row, j)
  <2> HIDE DEF rows, d
  <2> QED BY <1>4 DEF Accepts
<1> HIDE DEF rows, d
<1>8. (\A r \in ToSet(rows) : r.ok) <=> \A n \in 1 .. Len(rows) : rows[n].ok
  BY <1>3 DEF ToSet
<1>9. (\A row \in ToSet(d) : Fits(row, j)) <=> \A n \in 1 .. Len(d) : Fits(d[n], j)
  BY <1>6 DEF ToSet
<1>10. RowsOk(rows, j) <=>
        /\ \A n \in 1 .. Len(rows) : rows[n].ok
        /\ streamFormatHasHeader(j.fmt) /\ rows # << >> => rows[1].cells = j.names
        /\ \A n \in 1 .. Len(d) : Fits(d[n], j)
  BY DEF RowsOk, d
<1>11. Accepts(t, j) <=> RowsOk(rows, j)
  BY <1>7, <1>8, <1>9, <1>10
<1> QED BY <1>4, <1>11 DEF rows, d

------------------------------------------------------------------------------
(* Rows that are begun, and rows that are done. *)

\* The row that starts at s is these cells and what starts at i.
JoinsRow(t, fmt, s, i, row) ==
  /\ RowAt(t, s, fmt).end = RowAt(t, i, fmt).end
  /\ RowAt(t, s, fmt).ok = RowAt(t, i, fmt).ok
  /\ RowAt(t, s, fmt).cells = row \o RowAt(t, i, fmt).cells

\* The rows of the text are those that are done and what starts at s.
RowsLeft(t, fmt, done, s) == RowsFrom(t, fmt)[1] = done \o RowsFrom(t, fmt)[s]

\* At its start, nothing of a row is read.
LEMMA RowBegins ==
  ASSUME NEW t \in Texts, NEW fmt, NEW s \in 1 .. Len(t) + 1
  PROVE  JoinsRow(t, fmt, s, s, << >>)
<1>1. RowAt(t, s, fmt).cells \in Seq(Cells)
  BY RowType DEF RowRecs
<1> DEFINE x == RowAt(t, s, fmt).cells
<1>2. x \in Seq(Cells)
  BY <1>1
<1> HIDE DEF x
<1>3. << >> \o x = x
  BY <1>2, ConcatEmptySeq
<1> QED BY <1>3 DEF JoinsRow, x

\* A cell and the separator behind it.
LEMMA RowContinues ==
  ASSUME NEW t \in Texts, NEW fmt, NEW s, NEW i \in 1 .. Len(t) + 1, NEW row \in Seq(Cells),
         JoinsRow(t, fmt, s, i, row), NEW k, NEW v,
         CellAt(t, i, fmt) = [end |-> k, ok |-> TRUE, value |-> v], k <= Len(t), t[k] = "sep"
  PROVE  /\ JoinsRow(t, fmt, s, k + 1, Append(row, v)) /\ Append(row, v) \in Seq(Cells)
         /\ Append(row, v) # << >> /\ k \in i .. Len(t)
<1>1. GoesOn(t, CellAt(t, i, fmt)) /\ CellAt(t, i, fmt).end = k /\ CellAt(t, i, fmt).value = v
  BY DEF GoesOn
<1> DEFINE next == RowAt(t, k + 1, fmt)
<1>2. /\ k + 1 \in i + 1 .. Len(t) + 1 /\ RowAt(t, i, fmt).end = next.end /\ RowAt(t, i, fmt).ok = next.ok
      /\ RowAt(t, i, fmt).cells = <<v>> \o next.cells
  BY <1>1, RowGoesOn
<1>3. v \in Cells /\ k \in i .. Len(t)
  <2>1. CellAt(t, i, fmt) \in CellRecs /\ CellAt(t, i, fmt).end \in i .. Len(t) + 1 /\ Len(t) \in Nat
    BY CellAtType, LenProperties DEF Texts
  <2> QED BY <1>1, <2>1 DEF CellRecs
<1>4. next.cells \in Seq(Cells)
  <2>1. k + 1 \in 1 .. Len(t) + 1
    <3>1. Len(t) \in Nat
      BY LenProperties DEF Texts
    <3> QED BY <1>3, <3>1
  <2>2. next \in RowRecs
    BY <2>1, RowType
  <2> HIDE DEF next
  <2> QED BY <2>2 DEF RowRecs
<1> DEFINE x == next.cells
<1>5. x \in Seq(Cells) /\ <<v>> \in Seq(Cells)
  BY <1>3, <1>4
<1>6. RowAt(t, i, fmt).cells = <<v>> \o x
  BY <1>2
<1> HIDE DEF x
<1>7. row \o (<<v>> \o x) = Append(row, v) \o x /\ Append(row, v) \in Seq(Cells) /\ Append(row, v) # << >>
  <2>1. row \o (<<v>> \o x) = (row \o <<v>>) \o x
    BY <1>5, ConcatAssociative
  <2>2. Append(row, v) = row \o <<v>>
    BY <1>3, AppendIsConcat
  <2>3. Append(row, v) \in Seq(Cells) /\ Append(row, v) # << >>
    BY <1>3, AppendProperties
  <2> QED BY <2>1, <2>2, <2>3
<1>8. RowAt(t, s, fmt).cells = row \o RowAt(t, i, fmt).cells /\ RowAt(t, s, fmt).end = RowAt(t, i, fmt).end
      /\ RowAt(t, s, fmt).ok = RowAt(t, i, fmt).ok
  BY DEF JoinsRow
<1>9. RowAt(t, s, fmt).cells = Append(row, v) \o x
  BY <1>6, <1>7, <1>8
<1> QED BY <1>2, <1>3, <1>7, <1>8, <1>9 DEF JoinsRow, x

\* The last cell of a row.
LEMMA RowCloses ==
  ASSUME NEW t \in Texts, NEW fmt, NEW s \in 1 .. Len(t) + 1, NEW i \in 1 .. Len(t) + 1,
         NEW row \in Seq(Cells), JoinsRow(t, fmt, s, i, row), ~GoesOn(t, CellAt(t, i, fmt))
  PROVE  LET c == CellAt(t, i, fmt) IN
         /\ RowAt(t, s, fmt) = [end |-> c.end, cells |-> Append(row, c.value), ok |-> c.ok]
         /\ RowAt(t, s, fmt) \in RowRecs /\ Append(row, c.value) \in Seq(Cells)
<1> DEFINE c == CellAt(t, i, fmt)
<1>1. RowAt(t, i, fmt) = [end |-> c.end, cells |-> <<c.value>>, ok |-> c.ok]
  BY RowEnds
<1>2. c.value \in Cells
  BY CellAtType DEF CellRecs
<1>3. RowAt(t, s, fmt) \in RowRecs
  BY RowType
<1> DEFINE v == c.value
<1> HIDE DEF c
<1>4. /\ RowAt(t, s, fmt).end = c.end /\ RowAt(t, s, fmt).ok = c.ok /\ RowAt(t, s, fmt).cells = row \o <<v>>
  BY <1>1 DEF JoinsRow
<1>5. v \in Cells
  BY <1>2
<1> HIDE DEF v
<1>6. Append(row, v) = row \o <<v>> /\ Append(row, v) \in Seq(Cells)
  BY <1>5, AppendIsConcat, AppendProperties
<1>7. RowAt(t, s, fmt) = [end |-> c.end, cells |-> Append(row, v), ok |-> c.ok]
  <2> DEFINE r == RowAt(t, s, fmt)
  <2>1. r \in RowRecs /\ r.end = c.end /\ r.cells = Append(row, v) /\ r.ok = c.ok
    BY <1>3, <1>4, <1>6
  <2> HIDE DEF r
  <2>2. r = [end |-> r.end, cells |-> r.cells, ok |-> r.ok]
    BY <2>1 DEF RowRecs
  <2>3. r = [end |-> c.end, cells |-> Append(row, v), ok |-> c.ok]
    BY <2>1, <2>2
  <2> QED BY <2>3 DEF r
<1> QED BY <1>3, <1>6, <1>7 DEF c, v

\* An empty line is no row.
LEMMA BlankIsPassed ==
  ASSUME NEW t \in Texts, NEW fmt, NEW done, NEW s \in 1 .. Len(t), RowsLeft(t, fmt, done, s), t[s] \in LineEnds
  PROVE  RowsLeft(t, fmt, done, s + 1)
<1>1. Len(t) \in Nat /\ s \in 1 .. Len(t) + 2 /\ s <= Len(t)
  BY LenProperties DEF Texts
<1> QED BY <1>1, RowsFromIs DEF RowsLeft

\* A row is behind those that are done.
LEMMA RowIsPassed ==
  ASSUME NEW t \in Texts, NEW fmt, NEW done \in Seq(RowRecs), NEW s \in 1 .. Len(t), RowsLeft(t, fmt, done, s),
         t[s] \notin LineEnds, RowAt(t, s, fmt).ok
  PROVE  RowsLeft(t, fmt, Append(done, RowAt(t, s, fmt)), RowAt(t, s, fmt).end + 1)
<1>1. Len(t) \in Nat /\ s \in 1 .. Len(t) + 2 /\ s <= Len(t) /\ s \in 1 .. Len(t) + 1
  BY LenProperties DEF Texts
<1> DEFINE r == RowAt(t, s, fmt)
<1> DEFINE e == r.end + 1
<1> DEFINE x == RowsFrom(t, fmt)[e]
<1>2. r \in RowRecs /\ r.end \in s .. Len(t) + 1
  BY <1>1, RowType
<1>3. RowsFrom(t, fmt)[s] = <<r>> \o x
  BY <1>1, RowsFromIs
<1> HIDE DEF r
<1>4. e \in 1 .. Len(t) + 2
  BY <1>1, <1>2
<1> HIDE DEF e
<1>5. x \in Seq(RowRecs) /\ <<r>> \in Seq(RowRecs)
  BY <1>2, <1>4, RowsType
<1> HIDE DEF x
<1>6. done \o (<<r>> \o x) = Append(done, r) \o x
  <2>1. done \o (<<r>> \o x) = (done \o <<r>>) \o x
    BY <1>5, ConcatAssociative
  <2>2. Append(done, r) = done \o <<r>>
    BY <1>2, AppendIsConcat
  <2> QED BY <2>1, <2>2
<1>7. RowsFrom(t, fmt)[1] = done \o RowsFrom(t, fmt)[s]
  BY DEF RowsLeft
<1>8. RowsFrom(t, fmt)[1] = Append(done, r) \o x
  BY <1>3, <1>6, <1>7
<1> QED BY <1>8 DEF RowsLeft, x, e, r

\* A row that cannot be taken makes the text malformed.
LEMMA RowRefuses ==
  ASSUME NEW t \in Texts, NEW j, NEW done \in Seq(RowRecs), NEW s \in 1 .. Len(t), RowsLeft(t, j.fmt, done, s),
         t[s] \notin LineEnds, ~RowOk(done, RowAt(t, s, j.fmt), j)
  PROVE  ~Accepts(t, j)
<1>1. Len(t) \in Nat /\ s \in 1 .. Len(t) + 2 /\ s <= Len(t) /\ s \in 1 .. Len(t) + 1
  BY LenProperties DEF Texts
<1> DEFINE r == RowAt(t, s, j.fmt)
<1> DEFINE e == r.end + 1
<1>2. r \in RowRecs /\ r.end \in s .. Len(t) + 1
  BY <1>1, RowType
<1>3. r.ok = TRUE \/ r.ok = FALSE
  <2> HIDE DEF r
  <2> QED BY <1>2 DEF RowRecs
<1>4. \E x \in Seq(RowRecs) : RowsFrom(t, j.fmt)[s] = <<r>> \o x
  <2>1. CASE r.ok
    <3>1. RowsFrom(t, j.fmt)[s] = <<r>> \o RowsFrom(t, j.fmt)[e]
      BY <1>1, <2>1, RowsFromIs
    <3>2. e \in 1 .. Len(t) + 2
      <4> HIDE DEF r
      <4> QED BY <1>1, <1>2
    <3> HIDE DEF r, e
    <3>3. RowsFrom(t, j.fmt)[e] \in Seq(RowRecs)
      BY <3>2, RowsType
    <3> QED BY <3>1, <3>3
  <2>2. CASE ~r.ok
    <3>1. RowsFrom(t, j.fmt)[s] = <<r>>
      BY <1>1, <2>2, RowsFromIs
    <3> HIDE DEF r
    <3>2. <<r>> \in Seq(RowRecs) /\ << >> \in Seq(RowRecs)
      BY <1>2
    <3>3. <<r>> \o << >> = <<r>>
      BY <3>2, ConcatEmptySeq
    <3> QED BY <3>1, <3>2, <3>3
  <2> QED BY <2>1, <2>2
<1>5. ~RowOk(done, r, j)
  OBVIOUS
<1> HIDE DEF r
<1>6. PICK x \in Seq(RowRecs) : RowsFrom(t, j.fmt)[s] = <<r>> \o x
  BY <1>4
<1>7. RowsFrom(t, j.fmt)[1] = done \o (<<r>> \o x)
  BY <1>6 DEF RowsLeft
<1>8. ~RowsOk(done \o (<<r>> \o x), j)
  BY <1>2, <1>3, <1>5, RowsOkFails
<1> QED BY <1>7, <1>8, AcceptsIs

------------------------------------------------------------------------------
(* The parser within a cell. *)

\* What a byte behind a backslash does to the parser.
LEMMA DecodeAdds ==
  ASSUME NEW q \in Parsers, NEW b \in Bytes
  PROVE  LET r == decode_escape_byte(q, b) IN
         /\ r \in Parsers
         /\ r.cell = q.cell \o (IF b = "N" THEN NullMarker ELSE <<Unescape(b)>>)
         /\ r.null <=> IF b = "N" THEN q.cell = << >> ELSE q.null
         /\ r.state = q.state /\ r.quoted = q.quoted /\ r.row = q.row /\ r.headerSeen = q.headerSeen
         /\ r.cr = q.cr /\ r.escape = q.escape
<1>1. decode_escape_byte(q, b) \in Parsers
  BY DecodeType
<1>2. q.cell \in Seq(Bytes) /\ Unescape(b) = Unescaped(b) /\ Unescape(b) \in Bytes
  BY UnescapeIs DEF Parsers
<1>3. CASE b # "N"
  <2>1. decode_escape_byte(q, b) = [q EXCEPT !.cell = Append(@, Unescaped(b))]
    BY <1>3 DEF decode_escape_byte
  <2> DEFINE x == q.cell
  <2> DEFINE u == Unescape(b)
  <2>2. x \in Seq(Bytes) /\ u \in Bytes
    BY <1>2
  <2> HIDE DEF x, u
  <2>3. Append(x, u) = x \o <<u>>
    BY <2>2, AppendIsConcat
  <2>4. Append(q.cell, Unescaped(b)) = q.cell \o <<Unescape(b)>>
    BY <1>2, <2>3 DEF x, u
  <2> QED BY <1>1, <1>3, <2>1, <2>4 DEF Parsers
<1>4. CASE b = "N"
  <2>1. decode_escape_byte(q, b) = [q EXCEPT !.cell = @ \o NullMarker, !.null = (q.cell = << >>)]
    BY <1>4 DEF decode_escape_byte
  <2> QED BY <1>1, <1>4, <2>1 DEF Parsers
<1> QED BY <1>3, <1>4

\* An escape that was begun ends with the next byte.
LEMMA TsvDecodes ==
  ASSUME NEW t \in Texts, NEW i \in 1 .. Len(t) + 1, NEW k \in i .. Len(t), NEW q \in Parsers,
         TsvIn(q, t, i, k), q.escape
  PROVE  LET r == decode_escape_byte([InCell(q) EXCEPT !.escape = FALSE], t[k]) IN
         TsvIn(r, t, i, k + 1) /\ r.row = q.row /\ r.headerSeen = q.headerSeen /\ r.cr = q.cr
<1> DEFINE q1 == [InCell(q) EXCEPT !.escape = FALSE]
<1> DEFINE r == decode_escape_byte(q1, t[k])
<1>1. /\ Len(t) \in Nat /\ i \in Nat \ {0} /\ i \in Nat /\ k \in Nat /\ i <= k /\ i <= i /\ k \in i .. Len(t) + 1
      /\ t[k] \in Bytes
  BY LenProperties, PieceType DEF Texts
<1>2. /\ q1 \in Parsers /\ q1.cell = q.cell /\ q1.state = (IF q.state = "CellStart" THEN "InCell" ELSE q.state)
      /\ q1.quoted = q.quoted /\ q1.null = q.null /\ q1.row = q.row /\ q1.headerSeen = q.headerSeen
      /\ q1.cr = q.cr /\ ~q1.escape
  BY DEF InCell, Parsers, States
<1> HIDE DEF q1
<1>3. /\ r.cell = q1.cell \o (IF t[k] = "N" THEN NullMarker ELSE <<Unescape(t[k])>>)
      /\ r.null <=> IF t[k] = "N" THEN q1.cell = << >> ELSE q1.null
      /\ r.state = q1.state /\ r.quoted = q1.quoted /\ r.row = q1.row /\ r.headerSeen = q1.headerSeen
      /\ r.cr = q1.cr /\ r.escape = q1.escape
  BY <1>1, <1>2, DecodeAdds
<1> HIDE DEF r
<1>4. Escaped(t, i, k) /\ q.cell = Pieces(t, i, k)
  BY DEF TsvIn
<1>5. ~Escaped(t, i, i)
  BY <1>1, EscapedIs
<1>6. Escaped(t, i, i + 1) <=> t[i] = "bs"
  BY <1>1, <1>5, EscapedIs
<1>7. k # i
  BY <1>4, <1>5
<1>8. q.cell = << >> <=> k = i + 1
  <2>1. q.cell = << >> => k = i + 1
    BY <1>7 DEF TsvIn
  <2>2. ASSUME k = i + 1 PROVE q.cell = << >>
    <3>1. i \in i .. Len(t) + 1 /\ i <= Len(t)
      BY <1>1, <2>2
    <3>2. Piece(t, i, i) = << >>
      BY <1>4, <1>5, <1>6, <2>2 DEF Piece
    <3>3. Pieces(t, i, i + 1) = Pieces(t, i, i) \o Piece(t, i, i) /\ Pieces(t, i, i) = << >>
      BY <3>1, PiecesNext
    <3>4. << >> \o << >> = << >>
      BY EmptyIsSeq, ConcatEmptySeq
    <3>5. Pieces(t, i, i + 1) = << >>
      BY <3>2, <3>3, <3>4
    <3> QED BY <1>4, <2>2, <3>5
  <2> QED BY <2>1, <2>2
<1>9. ~q.null
  <2> SUFFICES ASSUME q.null PROVE FALSE
    OBVIOUS
  <2>1. k = i + 2 /\ t[i + 1] = "N"
    BY DEF TsvIn, MarksNull
  <2>2. i + 1 \in Nat /\ i <= i + 1 /\ i + 1 + 1 = k
    BY <1>1, <2>1
  <2>3. Escaped(t, i, i + 1 + 1) <=> t[i + 1] = "bs" /\ ~Escaped(t, i, i + 1)
    BY <1>1, <2>2, EscapedIs
  <2> QED BY <1>4, <2>1, <2>2, <2>3
<1>10. r.cell = q.cell \o Piece(t, i, k)
  BY <1>2, <1>3, <1>4 DEF Piece
<1>11. r.state = "InCell" /\ ~r.quoted /\ (r.escape <=> t[k] = "bs" /\ ~q.escape)
  BY <1>2, <1>3, <1>7 DEF TsvIn
<1>12. r.null <=> k = i + 1 /\ q.escape /\ t[k] = "N"
  BY <1>2, <1>3, <1>8, <1>9
<1>13. TsvIn(r, t, i, k + 1)
  BY <1>9, <1>10, <1>11, <1>12, TsvGrows
<1> QED BY <1>2, <1>3, <1>13 DEF q1, r

\* A backslash begins an escape.
LEMMA TsvPends ==
  ASSUME NEW t \in Texts, NEW i \in 1 .. Len(t) + 1, NEW k \in i .. Len(t), NEW q,
         TsvIn(q, t, i, k), ~q.escape, ~q.null, t[k] = "bs",
         NEW r, r.cell = q.cell, r.state = "InCell", ~r.quoted, ~r.null, r.escape
  PROVE  TsvIn(r, t, i, k + 1)
<1>1. ~Escaped(t, i, k) /\ q.cell \in Seq(Bytes)
  <2>1. k \in i .. Len(t) + 1
    <3>1. Len(t) \in Nat
      BY LenProperties DEF Texts
    <3> QED BY <3>1
  <2>2. Pieces(t, i, k) \in Seq(Bytes)
    BY <2>1, PiecesNext
  <2> QED BY <2>2 DEF TsvIn
<1>2. Piece(t, i, k) = << >>
  BY <1>1 DEF Piece
<1> DEFINE x == q.cell
<1>3. x \in Seq(Bytes)
  BY <1>1
<1> HIDE DEF x
<1>4. x \o << >> = x
  BY <1>3, ConcatEmptySeq
<1>5. r.cell = q.cell \o Piece(t, i, k)
  BY <1>2, <1>4 DEF x
<1>6. t[k] \notin Terminators
  BY DEF Terminators, LineEnds
<1> QED BY <1>5, <1>6, TsvGrows

\* A byte that means itself.
LEMMA TsvPuts ==
  ASSUME NEW t \in Texts, NEW i \in 1 .. Len(t) + 1, NEW k \in i .. Len(t), NEW q,
         TsvIn(q, t, i, k), ~q.escape, ~q.null, t[k] # "bs", t[k] \notin Terminators,
         NEW r, r.cell = Append(q.cell, t[k]), r.state = "InCell", ~r.quoted, ~r.null, ~r.escape
  PROVE  TsvIn(r, t, i, k + 1)
<1>1. ~Escaped(t, i, k) /\ q.cell \in Seq(Bytes) /\ t[k] \in Bytes
  <2>1. k \in i .. Len(t) + 1
    <3>1. Len(t) \in Nat
      BY LenProperties DEF Texts
    <3> QED BY <3>1
  <2>2. Pieces(t, i, k) \in Seq(Bytes)
    BY <2>1, PiecesNext
  <2> QED BY <2>2, PieceType DEF TsvIn
<1>2. Piece(t, i, k) = <<t[k]>>
  BY <1>1 DEF Piece
<1> DEFINE x == q.cell
<1> DEFINE b == t[k]
<1>3. x \in Seq(Bytes) /\ b \in Bytes
  BY <1>1
<1> HIDE DEF x, b
<1>4. Append(x, b) = x \o <<b>>
  BY <1>3, AppendIsConcat
<1>5. r.cell = q.cell \o Piece(t, i, k)
  BY <1>2, <1>4 DEF x, b
<1> QED BY <1>5, TsvGrows

\* The parser is in a cell that started at i, and the next byte is at k.
CellIn(q, fmt, t, i, k) == IF streamFormatIsCSV(fmt) THEN CsvIn(q, t, i, k) ELSE TsvIn(q, t, i, k)

\* The byte at k is in the cell that started at i, and what is before the cell stays.
StaysIn(t, i, k) ==
  /\ CellIn(p', job.fmt, t, i, k)
  /\ p'.row = p.row /\ p'.headerSeen = p.headerSeen
  /\ p'.cr => p.cr /\ i # pos + 1
  /\ i = pos + 1 => t[i] \notin LineEnds

\* At the start of a cell, nothing of it is read.
LEMMA CellBegins ==
  ASSUME NEW t \in Texts, NEW fmt, NEW i \in 1 .. Len(t) + 1, NEW q
  PROVE  CellIn(q, fmt, t, i, i) <=> q.state = "CellStart" /\ q.cell = << >> /\ ~q.quoted /\ ~q.null /\ ~q.escape
BY TsvBegins, CsvBegins DEF CellIn

\* The states of a parser tell the cells apart.
LEMMA CellStates ==
  ASSUME NEW t, NEW fmt, NEW i, NEW k, NEW q, CellIn(q, fmt, t, i, k)
  PROVE  /\ q.state = "CellStart" => k = i
         /\ ~streamFormatIsCSV(fmt) => TsvIn(q, t, i, k) /\ q.state \in {"CellStart", "InCell"} /\ ~q.quoted
         /\ streamFormatIsCSV(fmt) => ~q.null /\ ~q.escape
         /\ streamFormatIsCSV(fmt) /\ q.state \in {"CellStart", "InCell"} => CsvPlainIn(q, t, i, k) /\ ~q.quoted
         /\ streamFormatIsCSV(fmt) /\ q.state \in {"InQuoted", "QuotePending"} =>
              CsvQuotedIn(q, t, i, k) /\ q.quoted
BY DEF CellIn, CsvIn, CsvPlainIn, CsvQuotedIn, TsvIn

\* The byte behind the backslash that ended a chunk.
LEMMA ResumeStays ==
  ASSUME TypeOK, ResumeEscape, NEW t \in Texts, pos + 1 <= Len(t), t[pos + 1] = Byte,
         NEW i \in 1 .. pos + 1, CellIn(p, job.fmt, t, i, pos + 1)
  PROVE  StaysIn(t, i, pos + 2)
<1>1. /\ p.escape /\ p \in Parsers /\ p' = decode_escape_byte([InCell(p) EXCEPT !.escape = FALSE], t[pos + 1])
  BY DEF ResumeEscape, Within, TypeOK
<1>2. pos \in Nat /\ Len(t) \in Nat /\ i \in 1 .. Len(t) + 1 /\ pos + 1 \in i .. Len(t) /\ pos + 1 + 1 = pos + 2
  BY LenProperties DEF TypeOK, Texts
<1>3. ~streamFormatIsCSV(job.fmt) /\ TsvIn(p, t, i, pos + 1)
  BY <1>1, CellStates
<1>4. TsvIn(p', t, i, pos + 1 + 1) /\ p'.row = p.row /\ p'.headerSeen = p.headerSeen /\ p'.cr = p.cr
  BY <1>1, <1>2, <1>3, TsvDecodes
<1>5. i # pos + 1
  BY <1>1, <1>2, <1>3, TsvBegins
<1> QED BY <1>2, <1>3, <1>4, <1>5 DEF StaysIn, CellIn

\* A byte inside quotes, or behind one that may be the last.
LEMMA QuotedStays ==
  ASSUME TypeOK, InQuotes \/ QuoteInQuotes, NEW t \in Texts, pos + 1 <= Len(t), t[pos + 1] = Byte,
         NEW i \in 1 .. pos + 1, CellIn(p, job.fmt, t, i, pos + 1)
  PROVE  StaysIn(t, i, pos + 2)
<1>1. /\ p \in Parsers /\ streamFormatIsCSV(job.fmt) /\ p.state \in {"InQuoted", "QuotePending"}
  BY DEF InQuotes, QuoteInQuotes, CsvByte, csv, TypeOK
<1>2. CsvQuotedIn(p, t, i, pos + 1) /\ p.quoted /\ ~p.null /\ ~p.escape
  BY <1>1, CellStates
<1>3. pos \in Nat /\ Len(t) \in Nat /\ i \in 1 .. Len(t) /\ pos + 1 \in i .. Len(t) /\ pos + 1 + 1 = pos + 2
  BY LenProperties DEF TypeOK, Texts
<1>4. i # pos + 1
  BY <1>2 DEF CsvQuotedIn
<1>5. CASE p.state = "InQuoted" /\ Byte = "quote"
  <2>1. p' = [p EXCEPT !.state = "QuotePending"]
    BY <1>5 DEF InQuotes, QuoteInQuotes, Within
  <2>2. /\ p'.cell = p.cell /\ p'.state = "QuotePending" /\ p'.quoted /\ ~p'.null /\ ~p'.escape
        /\ p'.row = p.row /\ p'.headerSeen = p.headerSeen /\ p'.cr = p.cr
    BY <1>1, <1>2, <2>1 DEF Parsers
  <2>3. CsvQuotedIn(p', t, i, pos + 1 + 1)
    BY <1>2, <1>3, <1>5, <2>2, CsvQuotePends
  <2> QED BY <1>1, <1>3, <1>4, <2>2, <2>3 DEF StaysIn, CellIn, CsvIn
<1>6. CASE p.state = "InQuoted" /\ Byte # "quote"
  <2>1. p' = [p EXCEPT !.cell = Append(@, Byte)]
    BY <1>6 DEF InQuotes, QuoteInQuotes, Within
  <2>2. /\ p'.cell = Append(p.cell, t[pos + 1]) /\ p'.state = "InQuoted" /\ p'.quoted /\ ~p'.null /\ ~p'.escape
        /\ p'.row = p.row /\ p'.headerSeen = p.headerSeen /\ p'.cr = p.cr
    BY <1>1, <1>2, <1>6, <2>1 DEF Parsers
  <2>3. CsvQuotedIn(p', t, i, pos + 1 + 1)
    BY <1>2, <1>3, <1>6, <2>2, CsvQuotedGrows
  <2> QED BY <1>1, <1>3, <1>4, <2>2, <2>3 DEF StaysIn, CellIn, CsvIn
<1>7. CASE p.state # "InQuoted"
  <2>1. /\ p' = [p EXCEPT !.cell = Append(@, "quote"), !.state = "InQuoted"]
        /\ Byte = "quote" /\ p.state = "QuotePending"
    BY <1>7 DEF InQuotes, QuoteInQuotes, Within
  <2>2. /\ p'.cell = Append(p.cell, "quote") /\ p'.state = "InQuoted" /\ p'.quoted /\ ~p'.null /\ ~p'.escape
        /\ p'.row = p.row /\ p'.headerSeen = p.headerSeen /\ p'.cr = p.cr
    BY <1>1, <1>2, <2>1 DEF Parsers
  <2>3. CsvQuotedIn(p', t, i, pos + 1 + 1)
    BY <1>2, <1>3, <2>1, <2>2, CsvQuoteDoubled
  <2> QED BY <1>1, <1>3, <1>4, <2>2, <2>3 DEF StaysIn, CellIn, CsvIn
<1> QED BY <1>5, <1>6, <1>7

\* The quote that opens a cell.
LEMMA OpenStays ==
  ASSUME TypeOK, OpenQuotes, NEW t \in Texts, pos + 1 <= Len(t), t[pos + 1] = Byte,
         NEW i \in 1 .. pos + 1, CellIn(p, job.fmt, t, i, pos + 1)
  PROVE  StaysIn(t, i, pos + 2)
<1>1. /\ p \in Parsers /\ streamFormatIsCSV(job.fmt) /\ p.state = "CellStart" /\ Byte = "quote"
      /\ p' = [p EXCEPT !.state = "InQuoted", !.quoted = TRUE, !.cr = FALSE]
  BY DEF OpenQuotes, csv, TypeOK, Within
<1>2. pos + 1 = i
  BY <1>1, CellStates
<1>3. pos \in Nat /\ Len(t) \in Nat /\ i \in 1 .. Len(t) + 1 /\ i \in 1 .. Len(t) /\ i + 1 = pos + 2
  BY <1>2, LenProperties DEF TypeOK, Texts
<1>4. p.cell = << >> /\ ~p.null /\ ~p.escape
  BY <1>2, <1>3, CellBegins
<1>5. /\ p'.cell = << >> /\ p'.state = "InQuoted" /\ p'.quoted /\ ~p'.null /\ ~p'.escape
      /\ p'.row = p.row /\ p'.headerSeen = p.headerSeen /\ ~p'.cr
  BY <1>1, <1>4 DEF Parsers
<1>6. t[i] = "quote"
  BY <1>1, <1>2
<1>7. CsvQuotedIn(p', t, i, i + 1)
  BY <1>3, <1>5, <1>6, CsvQuotesOpen
<1> QED BY <1>1, <1>3, <1>5, <1>6, <1>7 DEF StaysIn, CellIn, CsvIn, LineEnds

\* What every byte of a cell leaves of the parser.
LEMMA SeenIs ==
  ASSUME p \in Parsers, p.state \in {"CellStart", "InCell"}, ~p.escape, ~p.null, ~p.quoted
  PROVE  /\ Seen \in Parsers /\ Seen.cell = p.cell /\ Seen.state = "InCell" /\ ~Seen.quoted /\ ~Seen.null
         /\ Seen.row = p.row /\ Seen.headerSeen = p.headerSeen /\ ~Seen.cr /\ ~Seen.escape
BY DEF Seen, InCell, Parsers, States

\* A byte that means itself.
LEMMA OrdinaryStays ==
  ASSUME TypeOK, Ordinary, NEW t \in Texts, pos + 1 <= Len(t), t[pos + 1] = Byte,
         NEW i \in 1 .. pos + 1, CellIn(p, job.fmt, t, i, pos + 1)
  PROVE  StaysIn(t, i, pos + 2)
<1>1. /\ p \in Parsers /\ p.state \in {"CellStart", "InCell"} /\ ~p.escape /\ ~p.null
      /\ Byte \notin Terminators /\ Byte \notin LineEnds
      /\ ~(streamFormatIsCSV(job.fmt) /\ p.state = "CellStart" /\ Byte = "quote")
      /\ streamFormatIsCSV(job.fmt) \/ Byte # "bs"
      /\ p' = [Seen EXCEPT !.cell = Append(@, Byte)]
  <2>1. p \in Parsers /\ p.state \in States
    BY DEF TypeOK, Parsers
  <2>2. Plain /\ ~p.null
    BY DEF Ordinary
  <2>3. Byte \notin Terminators /\ ~p.escape /\ p.state # "InQuoted" /\ p.state # "QuotePending"
    BY <2>2 DEF Plain, OutsideQuotes, Terminators
  <2> QED BY <2>1, <2>2, <2>3 DEF Ordinary, Backslash, csv, Within, States, Terminators
<1>2. pos \in Nat /\ Len(t) \in Nat /\ i \in 1 .. Len(t) /\ i \in 1 .. Len(t) + 1 /\ pos + 1 \in i .. Len(t)
      /\ pos + 1 + 1 = pos + 2
  BY LenProperties DEF TypeOK, Texts
<1>3. ~p.quoted
  BY <1>1, CellStates
<1>4. /\ p'.cell = Append(p.cell, t[pos + 1]) /\ p'.state = "InCell" /\ ~p'.quoted /\ ~p'.null /\ ~p'.escape
      /\ p'.row = p.row /\ p'.headerSeen = p.headerSeen /\ ~p'.cr
  <2>1. /\ Seen \in Parsers /\ Seen.cell = p.cell /\ Seen.state = "InCell" /\ ~Seen.quoted /\ ~Seen.null
        /\ Seen.row = p.row /\ Seen.headerSeen = p.headerSeen /\ ~Seen.cr /\ ~Seen.escape
    BY <1>1, <1>3, SeenIs
  <2> QED BY <1>1, <2>1 DEF Parsers
<1>5. CASE streamFormatIsCSV(job.fmt)
  <2>1. CsvPlainIn(p, t, i, pos + 1)
    BY <1>1, <1>5, CellStates
  <2>2. pos + 1 = i => t[pos + 1] # "quote"
    BY <1>1, <1>5, <2>1 DEF CsvPlainIn
  <2>3. CsvPlainIn(p', t, i, pos + 1 + 1)
    BY <1>1, <1>2, <1>4, <2>1, <2>2, CsvPlainGrows
  <2> QED BY <1>1, <1>2, <1>4, <1>5, <2>3 DEF StaysIn, CellIn, CsvIn
<1>6. CASE ~streamFormatIsCSV(job.fmt)
  <2>1. TsvIn(p, t, i, pos + 1)
    BY <1>6, CellStates
  <2>2. TsvIn(p', t, i, pos + 1 + 1)
    BY <1>1, <1>2, <1>4, <1>6, <2>1, TsvPuts
  <2> QED BY <1>1, <1>2, <1>4, <1>6, <2>2 DEF StaysIn, CellIn
<1> QED BY <1>5, <1>6

\* A backslash, at the end of a chunk or not.
LEMMA BackslashStays ==
  ASSUME TypeOK, Backslash, NEW t \in Texts, pos + 1 <= Len(t), t[pos + 1] = Byte,
         NEW i \in 1 .. pos + 1, CellIn(p, job.fmt, t, i, pos + 1)
  PROVE  LET q == [Seen EXCEPT !.escape = TRUE] IN
         /\ ~streamFormatIsCSV(job.fmt) /\ q \in Parsers /\ TsvIn(q, t, i, pos + 2)
         /\ q.row = p.row /\ q.headerSeen = p.headerSeen /\ ~q.cr /\ q.escape
         /\ [InCell(q) EXCEPT !.escape = FALSE] = Seen /\ t[pos + 1] \notin LineEnds
<1>1. /\ p \in Parsers /\ ~p.escape /\ ~p.null /\ Byte = "bs" /\ ~streamFormatIsCSV(job.fmt)
  BY DEF Backslash, Plain, OutsideQuotes, csv, TypeOK
<1>2. pos \in Nat /\ Len(t) \in Nat /\ i \in 1 .. Len(t) + 1 /\ pos + 1 \in i .. Len(t) /\ pos + 1 + 1 = pos + 2
  BY LenProperties DEF TypeOK, Texts
<1>3. TsvIn(p, t, i, pos + 1) /\ p.state \in {"CellStart", "InCell"} /\ ~p.quoted
  BY <1>1, CellStates
<1> DEFINE q == [Seen EXCEPT !.escape = TRUE]
<1> DEFINE z == Seen
<1>4. /\ z \in Parsers /\ z.cell = p.cell /\ z.state = "InCell" /\ ~z.quoted /\ ~z.null
      /\ z.row = p.row /\ z.headerSeen = p.headerSeen /\ ~z.cr /\ ~z.escape
  BY <1>1, <1>3, SeenIs
<1>5. q = [z EXCEPT !.escape = TRUE]
  OBVIOUS
<1> HIDE DEF z, q
<1>6. /\ q \in Parsers /\ q.cell = p.cell /\ q.state = "InCell" /\ ~q.quoted /\ ~q.null
      /\ q.row = p.row /\ q.headerSeen = p.headerSeen /\ ~q.cr /\ q.escape
  BY <1>4, <1>5 DEF Parsers
<1>7. [InCell(q) EXCEPT !.escape = FALSE] = z
  <2>1. q.state # "CellStart"
    BY <1>6
  <2>2. InCell(q) = q
    BY <1>6, <2>1 DEF InCell, Parsers
  <2>3. [q EXCEPT !.escape = FALSE] = z
    BY <1>4, <1>5 DEF Parsers
  <2> QED BY <2>2, <2>3
<1>8. TsvIn(q, t, i, pos + 1 + 1)
  BY <1>1, <1>2, <1>3, <1>6, TsvPends
<1>9. t[pos + 1] \notin LineEnds
  BY <1>1 DEF LineEnds
<1> QED BY <1>1, <1>2, <1>6, <1>7, <1>8, <1>9 DEF q, z

\* A backslash at the end of a chunk.
LEMMA PendingStays ==
  ASSUME TypeOK, EscapeAtEnd, NEW t \in Texts, pos + 1 <= Len(t), t[pos + 1] = Byte,
         NEW i \in 1 .. pos + 1, CellIn(p, job.fmt, t, i, pos + 1)
  PROVE  StaysIn(t, i, pos + 2)
<1>1. Backslash /\ p' = [Seen EXCEPT !.escape = TRUE]
  BY DEF EscapeAtEnd, Within
<1>2. /\ ~streamFormatIsCSV(job.fmt) /\ TsvIn(p', t, i, pos + 2)
      /\ p'.row = p.row /\ p'.headerSeen = p.headerSeen /\ ~p'.cr /\ t[pos + 1] \notin LineEnds
  BY <1>1, BackslashStays
<1> QED BY <1>2 DEF StaysIn, CellIn

\* A backslash and the byte it escapes.
LEMMA EscapeStays ==
  ASSUME TypeOK, EscapeInChunk, NEW t \in Texts, pos + 2 <= Len(t), t[pos + 1] = Byte, t[pos + 2] = read[pos + 2],
         NEW i \in 1 .. pos + 1, CellIn(p, job.fmt, t, i, pos + 1)
  PROVE  StaysIn(t, i, pos + 3)
<1> DEFINE q == [Seen EXCEPT !.escape = TRUE]
<1>1. Backslash /\ p' = decode_escape_byte(Seen, t[pos + 2])
  BY DEF EscapeInChunk
<1>2. /\ pos \in Nat /\ Len(t) \in Nat /\ pos + 1 <= Len(t) /\ i \in 1 .. Len(t) + 1 /\ pos + 2 \in i .. Len(t)
      /\ pos + 2 + 1 = pos + 3
  BY LenProperties DEF TypeOK, Texts
<1>3. /\ ~streamFormatIsCSV(job.fmt) /\ q \in Parsers /\ TsvIn(q, t, i, pos + 2)
      /\ q.row = p.row /\ q.headerSeen = p.headerSeen /\ ~q.cr /\ q.escape
      /\ [InCell(q) EXCEPT !.escape = FALSE] = Seen /\ t[pos + 1] \notin LineEnds
  BY <1>1, <1>2, BackslashStays
<1> HIDE DEF q
<1>4. p' = decode_escape_byte([InCell(q) EXCEPT !.escape = FALSE], t[pos + 2])
  BY <1>1, <1>3
<1>5. TsvIn(p', t, i, pos + 2 + 1) /\ p'.row = q.row /\ p'.headerSeen = q.headerSeen /\ p'.cr = q.cr
  BY <1>2, <1>3, <1>4, TsvDecodes
<1> QED BY <1>2, <1>3, <1>5 DEF StaysIn, CellIn

------------------------------------------------------------------------------
(* The parser within a text. *)

\* The text begins with what is parsed.
Continues(t) == t \in Texts /\ pos <= Len(t) /\ \A j \in 1 .. pos : t[j] = read[j]

\* A carriage return that a line feed may belong to has only separators behind it.
AfterCr(q, n, t, s, i) ==
  q.cr => i = n + 1 /\ s > 1 /\ t[s - 1] = "cr" /\ \A j \in s .. n : t[j] = "sep"

\* The parser is in the cell that starts at i of the row that starts at s, behind the rows
\* that are done.
IsAt(t, done, s, i) ==
  /\ s \in 1 .. pos + 1 /\ i \in s .. pos + 1
  /\ RowsLeft(t, job.fmt, done, s) /\ JoinsRow(t, job.fmt, s, i, p.row)
  /\ s <= pos => t[s] \notin LineEnds
  /\ p.row = << >> <=> i = s
  /\ CellIn(p, job.fmt, t, i, pos + 1)
  /\ AfterCr(p, pos, t, s, i)

\* The rows that are done are well-formed, and are sent or wait.
DoneIs(done) ==
  /\ done \in Seq(RowRecs) /\ RowsOk(done, job)
  /\ sent \o batch = DataOf(done, job.fmt)
  /\ streamFormatHasHeader(job.fmt) => (p.headerSeen <=> done # << >>)

\* What is parsed belongs to the rows that the text has.
Inside(t) == \E done, s, i : DoneIs(done) /\ IsAt(t, done, s, i)

\* The bytes that a step consumes are those of the text.
LEMMA ContinuesBack ==
  ASSUME TypeOK, NEW n \in Nat, pos' = pos + n, read' = read, NEW t, Continues(t)'
  PROVE  /\ Continues(t) /\ pos + n <= Len(t) /\ \A j \in pos + 1 .. pos + n : t[j] = read[j]
         /\ n > 0 => t[pos + 1] = Byte /\ pos + 1 <= Len(t)
<1>1. pos \in Nat
  BY DEF TypeOK
<1>2. t \in Texts /\ Len(t) \in Nat /\ pos + n <= Len(t) /\ \A j \in 1 .. pos + n : t[j] = read[j]
  BY LenProperties DEF Continues, Texts
<1>3. n > 0 => t[pos + 1] = read[pos + 1]
  BY <1>1, <1>2
<1> QED BY <1>1, <1>2, <1>3 DEF Continues, Byte

\* A byte that stays in its cell, or two.
LEMMA StayFeeds ==
  ASSUME TypeOK, NEW n \in {1, 2}, pos' = pos + n, UNCHANGED <<job, sent, batch>>,
         NEW t, NEW done, NEW s, NEW i, DoneIs(done), IsAt(t, done, s, i), StaysIn(t, i, pos + n + 1)
  PROVE  (DoneIs(done) /\ IsAt(t, done, s, i))'
<1>1. pos \in Nat /\ s \in 1 .. pos + 1 /\ i \in s .. pos + 1
  BY DEF TypeOK, IsAt
<1>2. DoneIs(done)'
  BY DEF DoneIs, StaysIn
<1>3. /\ s \in 1 .. pos' + 1 /\ i \in s .. pos' + 1
      /\ s <= pos' => t[s] \notin LineEnds
  <2>1. s <= pos \/ (s = pos + 1 /\ i = pos + 1)
    BY <1>1
  <2> QED BY <1>1, <2>1 DEF IsAt, StaysIn
<1>4. AfterCr(p', pos', t, s, i)
  BY DEF IsAt, StaysIn, AfterCr
<1>5. IsAt(t, done, s, i)'
  BY <1>3, <1>4 DEF IsAt, StaysIn
<1> QED BY <1>2, <1>5

\* A line end where no row has begun.
LEMMA BlankFeeds ==
  ASSUME TypeOK, pos' = pos + 1, UNCHANGED <<job, sent, batch>>, NEW b \in BOOLEAN, p' = [p EXCEPT !.cr = b],
         NEW t \in Texts, pos + 1 <= Len(t), t[pos + 1] \in LineEnds, b => t[pos + 1] = "cr",
         NEW done, NEW s, DoneIs(done), IsAt(t, done, s, pos + 1), p.row = << >>
  PROVE  (DoneIs(done) /\ IsAt(t, done, pos + 1, pos + 1))'
<1>1. /\ pos \in Nat /\ s = pos + 1 /\ p \in Parsers /\ Len(t) \in Nat /\ pos + 1 \in 1 .. Len(t)
      /\ pos + 1 \in 1 .. Len(t) + 1 /\ pos + 1 + 1 = pos + 2 /\ pos + 2 \in 1 .. Len(t) + 1
  BY LenProperties DEF TypeOK, IsAt, Texts
<1>2. /\ p'.row = << >> /\ p'.headerSeen = p.headerSeen /\ p'.cr = b /\ p'.state = p.state /\ p'.cell = p.cell
      /\ p'.quoted = p.quoted /\ p'.null = p.null /\ p'.escape = p.escape
  BY <1>1 DEF Parsers
<1>3. RowsLeft(t, job.fmt, done, pos + 1 + 1)
  BY <1>1, BlankIsPassed DEF IsAt
<1>4. JoinsRow(t, job.fmt, pos + 2, pos + 2, << >>)
  BY <1>1, RowBegins
<1>5. CellIn(p', job.fmt, t, pos + 2, pos + 2)
  <2> DEFINE e == pos + 1
  <2> DEFINE k == pos + 2
  <2>1. CellIn(p, job.fmt, t, e, e)
    BY DEF IsAt
  <2>2. e \in 1 .. Len(t) + 1 /\ k \in 1 .. Len(t) + 1
    BY <1>1
  <2> HIDE DEF e, k
  <2>3. p.state = "CellStart" /\ p.cell = << >> /\ ~p.quoted /\ ~p.null /\ ~p.escape
    BY <2>1, <2>2, CellBegins
  <2>4. CellIn(p', job.fmt, t, k, k)
    BY <1>2, <2>2, <2>3, CellBegins
  <2> QED BY <2>4 DEF k
<1>6. AfterCr(p', pos + 1, t, pos + 2, pos + 2)
  BY <1>1, <1>2 DEF AfterCr
<1>7. DoneIs(done)'
  BY <1>2 DEF DoneIs
<1>8. IsAt(t, done, pos + 1, pos + 1)'
  BY <1>1, <1>2, <1>3, <1>4, <1>5, <1>6 DEF IsAt
<1> QED BY <1>7, <1>8

\* A cell that a terminator or the end of the text ends has the value that the parser has of it.
LEMMA CellTaken ==
  ASSUME TypeOK, NEW t \in Texts, NEW i \in 1 .. pos + 1, pos <= Len(t), CellIn(p, job.fmt, t, i, pos + 1),
         p.state # "InQuoted", pos + 1 <= Len(t) => t[pos + 1] \in Terminators /\ ~p.escape
  PROVE  CellAt(t, i, job.fmt) =
           [end |-> pos + 1, ok |-> TRUE,
            value |-> IF pos + 1 <= Len(t) THEN CellValue(p) ELSE CellValue(Finished)]
<1>1. /\ p \in Parsers /\ pos \in Nat /\ Len(t) \in Nat /\ i \in 1 .. Len(t) + 1 /\ pos + 1 \in i .. Len(t) + 1
      /\ p.state \in {"CellStart", "InCell", "QuotePending"} /\ InCell(p) \in Parsers
  BY LenProperties, InCellType DEF TypeOK, Texts, Parsers, States
<1>2. /\ Finished.null = p.null /\ Finished.quoted = p.quoted
      /\ Finished.cell = IF p.escape THEN Append(p.cell, "bs") ELSE p.cell
  <2>1. InCell(p).null = p.null /\ InCell(p).quoted = p.quoted /\ InCell(p).cell = p.cell
    BY <1>1 DEF InCell, Parsers
  <2> QED BY <1>1, <2>1 DEF Finished, Parsers
<1>3. CASE ~streamFormatIsCSV(job.fmt)
  <2>1. TsvIn(p, t, i, pos + 1)
    BY <1>3, CellStates
  <2>2. TsvCell(t, i) = [end |-> pos + 1, ok |-> TRUE,
           value |-> IF p.null THEN Null ELSE IF p.escape THEN Append(p.cell, "bs") ELSE p.cell]
    BY <1>1, <2>1, TsvTaken
  <2>3. (IF p.null THEN Null ELSE IF p.escape THEN Append(p.cell, "bs") ELSE p.cell)
          = IF pos + 1 <= Len(t) THEN CellValue(p) ELSE CellValue(Finished)
    BY <1>2, <1>3 DEF CellValue, csv
  <2> QED BY <1>3, <2>2, <2>3 DEF CellAt
<1>4. CASE streamFormatIsCSV(job.fmt) /\ p.state # "QuotePending"
  <2>1. CsvPlainIn(p, t, i, pos + 1) /\ ~p.quoted /\ ~p.null /\ ~p.escape
    BY <1>1, <1>4, CellStates
  <2>2. CsvCell(t, i) = [end |-> pos + 1, ok |-> TRUE, value |-> IF p.cell = NullMarker THEN Null ELSE p.cell]
    BY <1>1, <2>1, CsvPlainTaken
  <2>3. (IF p.cell = NullMarker THEN Null ELSE p.cell)
          = IF pos + 1 <= Len(t) THEN CellValue(p) ELSE CellValue(Finished)
    BY <1>2, <1>4, <2>1 DEF CellValue, csv
  <2> QED BY <1>4, <2>2, <2>3 DEF CellAt
<1>5. CASE streamFormatIsCSV(job.fmt) /\ p.state = "QuotePending"
  <2>1. CsvQuotedIn(p, t, i, pos + 1) /\ p.quoted /\ ~p.null /\ ~p.escape
    BY <1>5, CellStates
  <2>2. i \in 1 .. Len(t)
    BY <1>1, <2>1 DEF CsvQuotedIn
  <2>3. pos + 1 <= Len(t) => t[pos + 1] # "quote"
    BY DEF Terminators, LineEnds
  <2>4. CsvCell(t, i) = [end |-> pos + 1, value |-> p.cell, ok |-> pos + 1 <= Len(t) => t[pos + 1] \in Terminators]
    BY <1>1, <1>5, <2>1, <2>2, <2>3, CsvQuotedTaken
  <2>5. (pos + 1 <= Len(t) => t[pos + 1] \in Terminators) = TRUE
    OBVIOUS
  <2>6. p.cell = IF pos + 1 <= Len(t) THEN CellValue(p) ELSE CellValue(Finished)
    BY <1>2, <2>1 DEF CellValue
  <2>7. CsvCell(t, i) = [end |-> pos + 1, value |-> p.cell, ok |-> TRUE]
    BY <2>4, <2>5
  <2> QED BY <1>5, <2>6, <2>7 DEF CellAt
<1> QED BY <1>1, <1>3, <1>4, <1>5

\* A separator ends a cell and stays in its row.
LEMMA SeparatorFeeds ==
  ASSUME TypeOK, Separator, NEW t \in Texts, pos + 1 <= Len(t), t[pos + 1] = Byte,
         NEW done, NEW s, NEW i, DoneIs(done), IsAt(t, done, s, i)
  PROVE  (DoneIs(done) /\ IsAt(t, done, s, pos + 1))'
<1>1. /\ pos \in Nat /\ p \in Parsers /\ p.row \in Seq(Cells) /\ p.state # "InQuoted" /\ ~p.escape
      /\ t[pos + 1] = "sep" /\ pos' = pos + 1 /\ p' = [finishCell(p) EXCEPT !.state = "CellStart"]
      /\ UNCHANGED <<job, sent, batch>>
  BY DEF TypeOK, Parsers, Separator, OutsideQuotes, Within, Consumes, sendVars
<1>2. /\ Len(t) \in Nat /\ s \in 1 .. pos + 1 /\ i \in s .. pos + 1 /\ i \in 1 .. pos + 1 /\ i \in 1 .. Len(t) + 1
      /\ s \in 1 .. Len(t) + 1 /\ pos <= Len(t) /\ pos + 1 + 1 = pos + 2 /\ pos + 2 \in 1 .. Len(t) + 1
  <2>1. s \in 1 .. pos + 1 /\ i \in s .. pos + 1
    BY DEF IsAt
  <2>2. Len(t) \in Nat
    BY LenProperties DEF Texts
  <2> QED BY <1>1, <2>1, <2>2
<1> DEFINE v == CellValue(p)
<1>3. /\ p'.row = Append(p.row, v) /\ p'.cell = << >> /\ ~p'.quoted /\ ~p'.null /\ ~p'.escape
      /\ p'.state = "CellStart" /\ p'.headerSeen = p.headerSeen /\ p'.cr = p.cr
  BY <1>1 DEF finishCell, Parsers
<1>4. CellAt(t, i, job.fmt) = [end |-> pos + 1, ok |-> TRUE, value |-> v]
  <2>1. t[pos + 1] \in Terminators
    BY <1>1 DEF Terminators
  <2>2. CellIn(p, job.fmt, t, i, pos + 1)
    BY DEF IsAt
  <2> QED BY <1>1, <1>2, <2>1, <2>2, CellTaken
<1> HIDE DEF v
<1>5. JoinsRow(t, job.fmt, s, pos + 1 + 1, Append(p.row, v)) /\ Append(p.row, v) # << >>
  <2>1. JoinsRow(t, job.fmt, s, i, p.row)
    BY DEF IsAt
  <2> DEFINE k == pos + 1
  <2>2. CellAt(t, i, job.fmt) = [end |-> k, ok |-> TRUE, value |-> v] /\ k <= Len(t) /\ t[k] = "sep"
    BY <1>1, <1>4
  <2> HIDE DEF k
  <2>3. JoinsRow(t, job.fmt, s, k + 1, Append(p.row, v)) /\ Append(p.row, v) # << >>
    BY <1>1, <1>2, <2>1, <2>2, RowContinues
  <2> QED BY <2>3 DEF k
<1>6. CellIn(p', job.fmt, t, pos + 2, pos + 2)
  BY <1>2, <1>3, CellBegins
<1>7. s <= pos + 1 => t[s] \notin LineEnds
  <2>1. s = pos + 1 => t[s] = "sep"
    BY <1>1
  <2>2. s <= pos => t[s] \notin LineEnds
    BY DEF IsAt
  <2>3. "sep" \notin LineEnds
    BY DEF LineEnds
  <2> QED BY <1>1, <1>2, <2>1, <2>2, <2>3
<1>8. AfterCr(p', pos + 1, t, s, pos + 2)
  <2>1. AfterCr(p, pos, t, s, i)
    BY DEF IsAt
  <2>2. p.cr => s > 1 /\ t[s - 1] = "cr" /\ \A j \in s .. pos : t[j] = "sep"
    BY <2>1 DEF AfterCr
  <2>3. ASSUME p.cr, NEW j \in s .. pos + 1 PROVE t[j] = "sep"
    <3>1. j \in s .. pos \/ j = pos + 1
      BY <1>1, <1>2
    <3> QED BY <1>1, <2>2, <2>3, <3>1
  <2> QED BY <1>1, <1>2, <1>3, <2>2, <2>3 DEF AfterCr
<1>9. DoneIs(done)'
  BY <1>1, <1>3 DEF DoneIs
<1>10. IsAt(t, done, s, pos + 1)'
  <2>1. /\ s \in 1 .. pos' + 1 /\ pos + 2 \in s .. pos' + 1 /\ pos + 2 # s /\ pos' + 1 = pos + 2
    BY <1>1, <1>2
  <2>2. JoinsRow(t, job'.fmt, s, pos + 2, p'.row) /\ p'.row # << >>
    BY <1>1, <1>2, <1>3, <1>5
  <2>3. RowsLeft(t, job'.fmt, done, s)
    BY <1>1 DEF IsAt
  <2>4. /\ CellIn(p', job'.fmt, t, pos + 2, pos' + 1) /\ AfterCr(p', pos', t, s, pos + 2)
        /\ s <= pos' => t[s] \notin LineEnds
    BY <1>1, <1>6, <1>7, <1>8, <2>1
  <2> QED BY <2>1, <2>2, <2>3, <2>4 DEF IsAt
<1> QED BY <1>9, <1>10

\* What a cell that ends makes of the parser.
LEMMA FinishCellIs ==
  ASSUME NEW q \in Parsers
  PROVE  LET r == finishCell(q) IN
         /\ r \in Parsers /\ r.row = Append(q.row, CellValue(q)) /\ r.cell = << >>
         /\ ~r.quoted /\ ~r.null /\ r.escape = q.escape /\ r.cr = q.cr /\ r.headerSeen = q.headerSeen
<1>1. finishCell(q) \in Parsers
  BY FinishCellType
<1> QED BY <1>1 DEF finishCell, Parsers

\* The parser takes a row when its text has it for one that can be taken.
LEMMA RowTakenIs ==
  ASSUME TypeOK, NEW done, DoneIs(done), NEW q \in Parsers, q.headerSeen = p.headerSeen,
         NEW r, r.cells = q.row, r.ok = TRUE
  PROVE  /\ RowIsTaken(q) <=> RowOk(done, r, job)
         /\ IsHeader(q) <=> Heads(done, job.fmt)
<1>1. IsHeader(q) <=> Heads(done, job.fmt)
  BY DEF IsHeader, Heads, DoneIs
<1> QED BY <1>1 DEF RowIsTaken, RowOk, Fits, acceptsNullCell

\* A row that is taken is sent or waits, or it was the header.
LEMMA RowJoins ==
  ASSUME TypeOK, NEW done, DoneIs(done), NEW q \in Parsers, q.headerSeen = p.headerSeen,
         NEW r \in RowRecs, r.cells = q.row, r.ok = TRUE, RowIsTaken(q),
         NEW next, finishRow(q, next), UNCHANGED <<job, sent>>
  PROVE  /\ DoneIs(Append(done, r))' /\ p'.row = << >> /\ p'.state = "CellStart" /\ p'.cell = q.cell
         /\ p'.quoted = q.quoted /\ p'.null = q.null /\ p'.escape = q.escape /\ p'.cr = q.cr
         /\ phase' = next /\ cause' = cause
<1>1. RowOk(done, r, job) /\ (IsHeader(q) <=> Heads(done, job.fmt))
  BY RowTakenIs
<1>2. /\ done \in Seq(RowRecs) /\ RowsOk(done, job) /\ sent \o batch = DataOf(done, job.fmt)
  BY DEF DoneIs
<1>3. Append(done, r) \in Seq(RowRecs) /\ Append(done, r) # << >> /\ r.cells \in Seq(Cells)
  BY <1>2, CellsOfGrows
<1>4. RowsOk(Append(done, r), job)
  BY <1>1, <1>2, RowsOkGrows
<1>5. DataOf(Append(done, r), job.fmt) =
        IF Heads(done, job.fmt) THEN DataOf(done, job.fmt) ELSE Append(DataOf(done, job.fmt), r.cells)
  BY <1>2, DataGrows
<1>6. /\ p' = [q EXCEPT !.row = << >>, !.state = "CellStart", !.headerSeen = @ \/ IsHeader(q)]
      /\ batch' = IF IsHeader(q) THEN batch ELSE Append(batch, q.row)
      /\ phase' = next /\ cause' = cause
  BY DEF finishRow
<1>7. /\ p'.row = << >> /\ p'.state = "CellStart" /\ p'.cell = q.cell
      /\ p'.quoted = q.quoted /\ p'.null = q.null /\ p'.escape = q.escape /\ p'.cr = q.cr
      /\ p'.headerSeen = (q.headerSeen \/ IsHeader(q))
  <2> DEFINE seen == q.headerSeen \/ IsHeader(q)
  <2>1. p' = [q EXCEPT !.row = << >>, !.state = "CellStart", !.headerSeen = seen]
    BY <1>6
  <2> HIDE DEF seen
  <2>2. p'.headerSeen = seen
    BY <2>1 DEF Parsers
  <2> QED BY <2>1, <2>2 DEF Parsers, seen
<1>8. sent' \o batch' = DataOf(Append(done, r), job.fmt)
  <2>1. CASE IsHeader(q)
    BY <1>1, <1>2, <1>5, <1>6, <2>1
  <2>2. CASE ~IsHeader(q)
    <3> DEFINE x == q.row
    <3>1. batch' = Append(batch, x) /\ DataOf(Append(done, r), job.fmt) = Append(sent \o batch, x)
      BY <1>1, <1>2, <1>5, <1>6, <2>2
    <3>2. sent \in Seq(Seq(Cells)) /\ batch \in Seq(Seq(Cells)) /\ x \in Seq(Cells)
      BY <1>3 DEF TypeOK, Rows
    <3> HIDE DEF x
    <3>3. sent \o Append(batch, x) = Append(sent \o batch, x)
      BY <3>2, AppendOfJoined
    <3> QED BY <3>1, <3>3
  <2> QED BY <2>1, <2>2
<1>9. streamFormatHasHeader(job.fmt) => p'.headerSeen
  BY <1>7 DEF IsHeader
<1>10. DoneIs(Append(done, r))'
  BY <1>3, <1>4, <1>8, <1>9 DEF DoneIs
<1> QED BY <1>6, <1>7, <1>10

\* The row that the parser is in begins with no line end, unless the parser is between rows.
LEMMA RowStarts ==
  ASSUME TypeOK, NEW t \in Texts, pos <= Len(t), NEW done, NEW s, NEW i, IsAt(t, done, s, i)
  PROVE  /\ pos \in Nat /\ Len(t) \in Nat /\ s \in 1 .. pos + 1 /\ i \in s .. pos + 1 /\ i \in 1 .. pos + 1
         /\ s \in 1 .. Len(t) + 1 /\ i \in 1 .. Len(t) + 1 /\ pos + 1 \in i .. Len(t) + 1
         /\ s <= pos => t[s] \notin LineEnds /\ s \in 1 .. Len(t)
         /\ s = pos + 1 => i = pos + 1 /\ p.row = << >> /\ AtStart(p)
<1>1. /\ pos \in Nat /\ Len(t) \in Nat /\ s \in 1 .. pos + 1 /\ i \in s .. pos + 1
      /\ s <= pos => t[s] \notin LineEnds
  BY LenProperties DEF TypeOK, IsAt, Texts
<1>2. /\ i \in 1 .. pos + 1 /\ s \in 1 .. Len(t) + 1 /\ i \in 1 .. Len(t) + 1 /\ pos + 1 \in i .. Len(t) + 1
      /\ s <= pos => s \in 1 .. Len(t)
      /\ s = pos + 1 => i = pos + 1
  BY <1>1
<1>3. ASSUME s = pos + 1 PROVE p.row = << >> /\ AtStart(p)
  <2> DEFINE e == pos + 1
  <2>1. CellIn(p, job.fmt, t, e, e) /\ p.row = << >> /\ e \in 1 .. Len(t) + 1
    BY <1>2, <1>3 DEF IsAt
  <2> HIDE DEF e
  <2> QED BY <2>1, CellBegins DEF AtStart
<1> QED BY <1>1, <1>2, <1>3

\* Behind a row the parser is at the start of the next.
LEMMA RowBehind ==
  ASSUME TypeOK, NEW t \in Texts, pos + 1 <= Len(t), pos' = pos + 1, job' = job,
         NEW e, e = pos + 2, NEW rows, DoneIs(rows)', RowsLeft(t, job.fmt, rows, e),
         p'.row = << >>, p'.state = "CellStart", p'.cell = << >>, ~p'.quoted, ~p'.null, ~p'.escape,
         p'.cr => t[pos + 1] = "cr"
  PROVE  Inside(t)'
<1>1. pos \in Nat /\ e \in 1 .. Len(t) + 1 /\ pos' + 1 = e /\ e - 1 = pos + 1
  BY LenProperties DEF TypeOK, Texts
<1>2. JoinsRow(t, job'.fmt, e, e, p'.row)
  BY <1>1, RowBegins
<1>3. CellIn(p', job'.fmt, t, e, pos' + 1)
  <2>1. CellIn(p', job.fmt, t, e, e)
    BY <1>1, CellBegins
  <2> QED BY <1>1, <2>1
<1>4. AfterCr(p', pos', t, e, e)
  BY <1>1 DEF AfterCr
<1>5. e \in 1 .. pos' + 1 /\ e \in e .. pos' + 1 /\ ~(e <= pos')
  BY <1>1
<1>6. IsAt(t, rows, e, e)'
  BY <1>2, <1>3, <1>4, <1>5 DEF IsAt
<1> QED BY <1>6 DEF Inside

\* The end of a line ends a row of the text, and it is taken or the text is malformed.
LEMMA RowEndFeeds ==
  ASSUME TypeOK, RowEnd, NEW t \in Texts, pos + 1 <= Len(t), t[pos + 1] = Byte,
         NEW done, NEW s, NEW i, DoneIs(done), IsAt(t, done, s, i)
  PROVE  \/ phase' = "throwing" /\ ~Accepts(t, job)
         \/ phase' = "reading" /\ cause' = cause /\ Inside(t)'
<1> DEFINE q0 == [p EXCEPT !.cr = (Byte = "cr")]
<1> DEFINE q == finishCell(q0)
<1>1. /\ p \in Parsers /\ p.row \in Seq(Cells) /\ p.state # "InQuoted" /\ ~p.escape /\ Byte \in LineEnds
      /\ finishRow(q, "reading") /\ ~AtRowStart(p) /\ pos' = pos + 1 /\ UNCHANGED <<job, sent>>
  BY DEF TypeOK, Parsers, RowEnd, EndsLine, OutsideQuotes, Consumes
<1>2. /\ q0 \in Parsers /\ q0.row = p.row /\ q0.headerSeen = p.headerSeen /\ q0.cr = (Byte = "cr") /\ ~q0.escape
      /\ CellValue(q0) = CellValue(p)
  <2>1. /\ q0 \in Parsers /\ q0.row = p.row /\ q0.headerSeen = p.headerSeen /\ q0.cr = (Byte = "cr") /\ ~q0.escape
        /\ q0.null = p.null /\ q0.quoted = p.quoted /\ q0.cell = p.cell
    BY <1>1 DEF Parsers
  <2> QED BY <2>1 DEF CellValue
<1> HIDE DEF q0
<1>3. /\ q \in Parsers /\ q.row = Append(p.row, CellValue(p)) /\ q.cell = << >>
      /\ ~q.quoted /\ ~q.null /\ ~q.escape /\ q.cr = (Byte = "cr") /\ q.headerSeen = p.headerSeen
  BY <1>2, FinishCellIs
<1> HIDE DEF q
<1>4. pos <= Len(t)
  BY LenProperties DEF TypeOK, Texts
<1>5. /\ pos \in Nat /\ Len(t) \in Nat /\ s \in 1 .. pos + 1 /\ i \in 1 .. pos + 1
      /\ s \in 1 .. Len(t) + 1 /\ i \in 1 .. Len(t) + 1
      /\ s <= pos => t[s] \notin LineEnds /\ s \in 1 .. Len(t)
      /\ s = pos + 1 => i = pos + 1 /\ p.row = << >> /\ AtStart(p)
  BY <1>4, RowStarts
<1>6. s # pos + 1
  BY <1>1, <1>5 DEF AtStart, AtRowStart
<1>7. t[s] \notin LineEnds /\ s \in 1 .. Len(t)
  BY <1>5, <1>6
<1>8. t[pos + 1] \in Terminators /\ t[pos + 1] # "sep"
  BY <1>1 DEF Terminators, LineEnds
<1> DEFINE v == CellValue(p)
<1> DEFINE c == CellAt(t, i, job.fmt)
<1>16. PICK r : r = RowAt(t, s, job.fmt)
  OBVIOUS
<1>9. c = [end |-> pos + 1, ok |-> TRUE, value |-> v]
  <2>1. CellIn(p, job.fmt, t, i, pos + 1)
    BY DEF IsAt
  <2> QED BY <1>1, <1>4, <1>5, <1>8, <2>1, CellTaken
<1>10. r = [end |-> pos + 1, cells |-> q.row, ok |-> TRUE] /\ r \in RowRecs
  <2>1. JoinsRow(t, job.fmt, s, i, p.row)
    BY DEF IsAt
  <2>2. ~GoesOn(t, c)
    BY <1>8, <1>9 DEF GoesOn
  <2>3. r = [end |-> c.end, cells |-> Append(p.row, c.value), ok |-> c.ok] /\ r \in RowRecs
    BY <1>1, <1>5, <1>16, <2>1, <2>2, RowCloses
  <2>4. c.end = pos + 1 /\ c.ok = TRUE /\ c.value = v
    BY <1>9
  <2> HIDE DEF c, v
  <2>5. r = [end |-> pos + 1, cells |-> Append(p.row, v), ok |-> TRUE]
    BY <2>3, <2>4
  <2> QED BY <1>3, <2>3, <2>5 DEF v
<1>11. r.cells = q.row /\ r.ok = TRUE /\ r.end + 1 = pos + 2
  BY <1>5, <1>10
<1>12. RowsLeft(t, job.fmt, done, s) /\ done \in Seq(RowRecs)
  BY DEF IsAt, DoneIs
<1>13. CASE ~RowIsTaken(q)
  <2>1. phase' = "throwing"
    BY <1>1, <1>13 DEF finishRow, Throw
  <2>2. ~RowOk(done, r, job)
    BY <1>3, <1>11, <1>13, RowTakenIs
  <2>3. ~Accepts(t, job)
    BY <1>7, <1>12, <1>16, <2>2, RowRefuses
  <2> QED BY <2>1, <2>3
<1>14. CASE RowIsTaken(q)
  <2>1. RowsLeft(t, job.fmt, Append(done, r), r.end + 1)
    BY <1>7, <1>11, <1>12, <1>16, RowIsPassed
  <2>2. /\ DoneIs(Append(done, r))' /\ p'.row = << >> /\ p'.state = "CellStart" /\ p'.cell = q.cell
        /\ p'.quoted = q.quoted /\ p'.null = q.null /\ p'.escape = q.escape /\ p'.cr = q.cr
        /\ phase' = "reading" /\ cause' = cause
    BY <1>1, <1>3, <1>10, <1>11, <1>14, RowJoins
  <2>3. p'.cr => t[pos + 1] = "cr"
    BY <1>3, <2>2
  <2>4. PICK e : e = pos + 2
    OBVIOUS
  <2>5. PICK rows : rows = Append(done, r)
    OBVIOUS
  <2>6. DoneIs(rows)' /\ RowsLeft(t, job.fmt, rows, e)
    BY <1>11, <2>1, <2>2, <2>4, <2>5
  <2>7. Inside(t)'
    BY <1>1, <1>3, <2>2, <2>3, <2>4, <2>6, RowBehind
  <2> QED BY <2>2, <2>7
<1> QED BY <1>13, <1>14

\* A malformed cell makes the text malformed.
LEMMA CellRefuses ==
  ASSUME TypeOK, NEW t \in Texts, NEW done, NEW s \in 1 .. Len(t), NEW i \in 1 .. Len(t) + 1,
         DoneIs(done), RowsLeft(t, job.fmt, done, s), JoinsRow(t, job.fmt, s, i, p.row),
         t[s] \notin LineEnds, CellAt(t, i, job.fmt).ok = FALSE
  PROVE  ~Accepts(t, job)
<1>1. s \in 1 .. Len(t) + 1 /\ p.row \in Seq(Cells) /\ done \in Seq(RowRecs)
  BY LenProperties DEF TypeOK, Parsers, DoneIs, Texts
<1>2. ~GoesOn(t, CellAt(t, i, job.fmt))
  BY DEF GoesOn
<1> DEFINE c == CellAt(t, i, job.fmt)
<1> DEFINE r == RowAt(t, s, job.fmt)
<1>3. r = [end |-> c.end, cells |-> Append(p.row, c.value), ok |-> c.ok]
  BY <1>1, <1>2, RowCloses
<1>4. r.ok = FALSE
  <2>1. c.ok = FALSE
    OBVIOUS
  <2> HIDE DEF c, r
  <2> QED BY <1>3, <2>1
<1>5. ~RowOk(done, r, job)
  BY <1>4 DEF RowOk
<1> QED BY <1>1, <1>5, RowRefuses

\* A byte that cannot follow the quotes of a cell or its NULL makes the text malformed.
LEMMA ByteRefused ==
  ASSUME TypeOK, ByteAfterQuotes \/ ByteAfterNull, NEW t \in Texts, Len(t) = pos + 1, t[pos + 1] = Byte,
         NEW done, NEW s, NEW i, DoneIs(done), IsAt(t, done, s, i)
  PROVE  ~Accepts(t, job)
<1>1. /\ p \in Parsers /\ ~p.escape /\ Byte \notin Terminators
      /\ \/ streamFormatIsCSV(job.fmt) /\ p.state = "QuotePending" /\ Byte # "quote"
         \/ p.null
  BY DEF TypeOK, ByteAfterQuotes, ByteAfterNull, CsvByte, csv, Plain, OutsideQuotes, Terminators
<1>2. pos <= Len(t)
  BY DEF TypeOK
<1>3. /\ pos \in Nat /\ Len(t) \in Nat /\ s \in 1 .. pos + 1 /\ i \in s .. pos + 1 /\ i \in 1 .. pos + 1
      /\ s \in 1 .. Len(t) + 1 /\ i \in 1 .. Len(t) + 1
      /\ s <= pos => t[s] \notin LineEnds /\ s \in 1 .. Len(t)
  BY <1>2, RowStarts
<1>4. t[s] \notin LineEnds /\ s \in 1 .. Len(t)
  <2>1. s = pos + 1 => t[s] \notin LineEnds
    BY <1>1 DEF Terminators
  <2> QED BY <1>3, <2>1
<1>5. CellIn(p, job.fmt, t, i, pos + 1) /\ RowsLeft(t, job.fmt, done, s) /\ JoinsRow(t, job.fmt, s, i, p.row)
  BY DEF IsAt
<1>6. CellAt(t, i, job.fmt).ok = FALSE
  <2>1. CASE p.null
    <3>1. TsvIn(p, t, i, pos + 1) /\ ~streamFormatIsCSV(job.fmt)
      BY <1>5, <2>1, CellStates
    <3> DEFINE k == pos + 1
    <3>2. k \in i .. Len(t) /\ TsvIn(p, t, i, k) /\ k = Len(t) /\ t[k] \notin Terminators
      BY <1>1, <1>3, <3>1
    <3> HIDE DEF k
    <3>3. TsvCell(t, i).ok = FALSE
      BY <1>3, <2>1, <3>2, TsvNullRefused
    <3> QED BY <3>1, <3>3 DEF CellAt
  <2>2. CASE ~p.null
    <3>1. streamFormatIsCSV(job.fmt) /\ CsvQuotedIn(p, t, i, pos + 1) /\ p.state = "QuotePending" /\ Byte # "quote"
      BY <1>1, <1>5, <2>2, CellStates
    <3>2. i \in 1 .. Len(t)
      BY <1>3, <3>1 DEF CsvQuotedIn
    <3> DEFINE k == pos + 1
    <3>3. /\ k \in i .. Len(t) + 1 /\ CsvQuotedIn(p, t, i, k) /\ k <= Len(t)
          /\ t[k] \notin Terminators /\ t[k] # "quote"
      BY <1>1, <1>3, <3>1, <3>2
    <3> HIDE DEF k
    <3>4. CsvCell(t, i) = [end |-> k, value |-> p.cell, ok |-> k <= Len(t) => t[k] \in Terminators]
      BY <3>1, <3>2, <3>3, CsvQuotedTaken
    <3>5. (k <= Len(t) => t[k] \in Terminators) = FALSE
      BY <3>3
    <3>6. CsvCell(t, i) = [end |-> k, value |-> p.cell, ok |-> FALSE]
      BY <3>4, <3>5
    <3> QED BY <3>1, <3>6 DEF CellAt
  <2> QED BY <2>1, <2>2
<1> QED BY <1>3, <1>4, <1>5, <1>6, CellRefuses

\* What the end of the stream makes of the parser.
LEMMA FinishedIs ==
  ASSUME p \in Parsers
  PROVE  /\ Finished \in Parsers /\ Finished.row = p.row /\ Finished.headerSeen = p.headerSeen
         /\ Finished.cell = (IF p.escape THEN Append(p.cell, "bs") ELSE p.cell) /\ Finished.quoted = p.quoted
<1>1. p.cell \in Seq(Bytes) /\ "bs" \in Bytes
  BY DEF Parsers, Bytes
<1> DEFINE x == p.cell
<1>2. x \in Seq(Bytes)
  BY <1>1
<1> HIDE DEF x
<1>3. Append(x, "bs") \in Seq(Bytes)
  BY <1>1, <1>2
<1>4. /\ InCell(p) \in Parsers /\ InCell(p).row = p.row /\ InCell(p).headerSeen = p.headerSeen
      /\ InCell(p).quoted = p.quoted /\ InCell(p).cell = x
  <2>1. InCell(p) \in Parsers
    BY InCellType
  <2> QED BY <2>1 DEF InCell, Parsers, x
<1>5. CASE p.escape
  <2> DEFINE z == InCell(p)
  <2>1. Finished = [z EXCEPT !.cell = Append(@, "bs"), !.escape = FALSE]
    BY <1>5 DEF Finished
  <2>2. z \in Parsers /\ z.row = p.row /\ z.headerSeen = p.headerSeen /\ z.quoted = p.quoted /\ z.cell = x
    BY <1>4
  <2> HIDE DEF z
  <2>3. Finished = [z EXCEPT !.cell = Append(x, "bs"), !.escape = FALSE]
    BY <2>1, <2>2
  <2> QED BY <1>3, <1>5, <2>2, <2>3 DEF Parsers, x
<1>6. CASE ~p.escape
  <2>1. Finished = [p EXCEPT !.state = IF @ = "QuotePending" THEN "InCell" ELSE @]
    BY <1>6 DEF Finished
  <2> QED BY <1>6, <2>1 DEF Parsers, States
<1> QED BY <1>5, <1>6

\* There is a row at the end of the stream where something of one was read.
LEMMA HasRowIs ==
  ASSUME TypeOK, NEW t \in Texts, pos <= Len(t), NEW done, NEW s, NEW i, IsAt(t, done, s, i), p.state # "InQuoted"
  PROVE  HasRow(Finished) <=> s # pos + 1
<1>1. /\ pos \in Nat /\ Len(t) \in Nat /\ s \in 1 .. pos + 1 /\ i \in s .. pos + 1 /\ i \in 1 .. Len(t) + 1
      /\ pos + 1 \in i .. Len(t) + 1
      /\ s = pos + 1 => i = pos + 1 /\ p.row = << >> /\ AtStart(p)
  BY RowStarts
<1>2. /\ p \in Parsers /\ Finished.row = p.row /\ Finished.quoted = p.quoted
      /\ Finished.cell = (IF p.escape THEN Append(p.cell, "bs") ELSE p.cell)
  BY FinishedIs DEF TypeOK
<1>3. s = pos + 1 => ~HasRow(Finished)
  BY <1>1, <1>2 DEF HasRow, AtStart
<1>4. ASSUME ~HasRow(Finished) PROVE s = pos + 1
  <2>1. p.row = << >> /\ ~p.quoted /\ Finished.cell = << >>
    BY <1>2, <1>4 DEF HasRow
  <2>2. i = s /\ CellIn(p, job.fmt, t, i, pos + 1)
    BY <2>1 DEF IsAt
  <2>3. ~p.escape /\ p.cell = << >>
    <3>1. p.cell \in Seq(Bytes) /\ "bs" \in Bytes
      BY <1>2 DEF Parsers, Bytes
    <3>2. Append(p.cell, "bs") # << >>
      BY <3>1
    <3> QED BY <1>2, <2>1, <3>2
  <2>4. pos + 1 = i
    <3>1. CASE ~streamFormatIsCSV(job.fmt)
      <4>1. TsvIn(p, t, i, pos + 1)
        BY <2>2, <3>1, CellStates
      <4> QED BY <2>3, <4>1 DEF TsvIn
    <3>2. CASE streamFormatIsCSV(job.fmt)
      <4>1. CsvPlainIn(p, t, i, pos + 1)
        BY <2>1, <2>2, <3>2 DEF CellIn, CsvIn, CsvQuotedIn
      <4>2. p.cell = SubSeq(t, i, pos + 1 - 1) /\ Len(SubSeq(t, i, pos + 1 - 1)) = pos + 1 - i
        BY <1>1, <4>1, CutIs DEF CsvPlainIn
      <4>3. Len(<< >>) = 0
        OBVIOUS
      <4> QED BY <1>1, <2>3, <4>2, <4>3
    <3> QED BY <3>1, <3>2
  <2> QED BY <2>2, <2>4
<1> QED BY <1>3, <1>4

\* The end of the stream ends the last row, and the text is malformed or its rows are all sent or wait.
LEMMA EndFeeds ==
  ASSUME TypeOK, EndOfStream, read \in Texts, Inside(read)
  PROVE  \/ phase' = "throwing" /\ ~Accepts(read, job)
         \/ phase' = "finishing" /\ cause' = cause /\ Accepts(read, job) /\ sent' \o batch' = DataRows(read, job)
<1>1. PICK done, s, i : DoneIs(done) /\ IsAt(read, done, s, i)
  BY DEF Inside
<1>2. /\ pos = Len(read) /\ p \in Parsers /\ p.row \in Seq(Cells) /\ UNCHANGED <<job, read, pos, sent>>
  BY DEF EndOfStream, BetweenChunks, TypeOK, Parsers
<1>3. PICK t \in Texts : t = read
  OBVIOUS
<1>4. /\ pos \in Nat /\ Len(t) \in Nat /\ s \in 1 .. pos + 1 /\ i \in s .. pos + 1 /\ i \in 1 .. pos + 1
      /\ s \in 1 .. Len(t) + 1 /\ i \in 1 .. Len(t) + 1 /\ pos <= Len(t) /\ pos = Len(t)
      /\ s <= pos => t[s] \notin LineEnds /\ s \in 1 .. Len(t)
  <2>1. pos <= Len(t) /\ pos = Len(t)
    BY <1>2, <1>3 DEF TypeOK
  <2> QED BY <1>1, <1>3, <2>1, RowStarts
<1>5. /\ CellIn(p, job.fmt, t, i, pos + 1) /\ RowsLeft(t, job.fmt, done, s) /\ JoinsRow(t, job.fmt, s, i, p.row)
      /\ DoneIs(done) /\ IsAt(t, done, s, i) /\ done \in Seq(RowRecs)
  BY <1>1, <1>3 DEF IsAt, DoneIs
<1>6. CASE p.state = "InQuoted"
  <2>1. CsvQuotedIn(p, t, i, pos + 1) /\ streamFormatIsCSV(job.fmt)
    BY <1>5, <1>6, CellStates
  <2>2. i \in 1 .. Len(t) /\ CsvQuotedIn(p, t, i, Len(t) + 1)
    BY <1>4, <2>1 DEF CsvQuotedIn
  <2>3. CellAt(t, i, job.fmt).ok = FALSE
    BY <1>6, <2>1, <2>2, CsvUnclosed DEF CellAt
  <2>4. t[s] \notin LineEnds /\ s \in 1 .. Len(t)
    BY <1>4, <2>2
  <2>5. ~Accepts(t, job)
    BY <1>4, <1>5, <2>3, <2>4, CellRefuses
  <2>6. phase' = "throwing"
    BY <1>6 DEF EndOfStream, Throw
  <2> QED BY <1>3, <2>5, <2>6
<1>7. CASE p.state # "InQuoted" /\ ~HasRow(Finished)
  <2>1. s = pos + 1
    BY <1>4, <1>5, <1>7, HasRowIs
  <2>2. RowsFrom(t, job.fmt)[s] = << >>
    <3>1. s \in 1 .. Len(t) + 2 /\ s > Len(t)
      BY <1>4, <2>1
    <3> QED BY <3>1, RowsFromIs
  <2>3. RowsFrom(t, job.fmt)[1] = done
    BY <1>5, <2>2, ConcatEmptySeq DEF RowsLeft
  <2>4. phase' = "finishing" /\ cause' = cause /\ batch' = batch /\ sent' = sent
    BY <1>7 DEF EndOfStream
  <2>5. RowsOk(done, job) /\ sent \o batch = DataOf(done, job.fmt)
    BY <1>5 DEF DoneIs
  <2>6. Accepts(t, job) /\ DataRows(t, job) = DataOf(done, job.fmt)
    BY <2>3, <2>5, AcceptsIs
  <2> QED BY <1>3, <2>4, <2>5, <2>6
<1>8. CASE p.state # "InQuoted" /\ HasRow(Finished)
  <2> DEFINE q == finishCell(Finished)
  <2>1. s # pos + 1
    BY <1>4, <1>5, <1>8, HasRowIs
  <2>2. t[s] \notin LineEnds /\ s \in 1 .. Len(t)
    BY <1>4, <2>1
  <2>3. finishRow(q, "finishing")
    BY <1>8 DEF EndOfStream
  <2>4. q \in Parsers /\ q.row = Append(p.row, CellValue(Finished)) /\ q.headerSeen = p.headerSeen
    <3>1. Finished \in Parsers /\ Finished.row = p.row /\ Finished.headerSeen = p.headerSeen
      BY <1>2, FinishedIs
    <3> QED BY <3>1, FinishCellIs
  <2> DEFINE v == CellValue(Finished)
  <2> DEFINE c == CellAt(t, i, job.fmt)
  <2>5. PICK r : r = RowAt(t, s, job.fmt)
    OBVIOUS
  <2>6. c = [end |-> pos + 1, ok |-> TRUE, value |-> v]
    <3>1. ~(pos + 1 <= Len(t))
      BY <1>4
    <3> QED BY <1>4, <1>5, <1>8, <3>1, CellTaken
  <2>7. r = [end |-> pos + 1, cells |-> Append(p.row, v), ok |-> TRUE] /\ r \in RowRecs
    <3>1. c.end = pos + 1 /\ c.ok = TRUE /\ c.value = v
      BY <2>6
    <3>2. ~GoesOn(t, c)
      <4> HIDE DEF c
      <4> QED BY <1>4, <3>1 DEF GoesOn
    <3>3. r = [end |-> c.end, cells |-> Append(p.row, c.value), ok |-> c.ok] /\ r \in RowRecs
      BY <1>2, <1>4, <1>5, <2>5, <3>2, RowCloses
    <3> HIDE DEF c, v
    <3> QED BY <3>1, <3>3
  <2> HIDE DEF q, v, c
  <2>8. r.cells = q.row /\ r.ok = TRUE /\ r.end + 1 = Len(t) + 2
    BY <1>4, <2>4, <2>7 DEF v
  <2>9. CASE ~RowIsTaken(q)
    <3>1. phase' = "throwing"
      BY <2>3, <2>9 DEF finishRow, Throw
    <3>2. ~RowOk(done, r, job)
      BY <1>5, <2>4, <2>8, <2>9, RowTakenIs
    <3>3. ~Accepts(t, job)
      BY <1>5, <2>2, <2>5, <3>2, RowRefuses
    <3> QED BY <1>3, <3>1, <3>3
  <2>10. CASE RowIsTaken(q)
    <3>1. RowsLeft(t, job.fmt, Append(done, r), r.end + 1)
      BY <1>5, <2>2, <2>5, <2>8, RowIsPassed
    <3>2. DoneIs(Append(done, r))' /\ phase' = "finishing" /\ cause' = cause
      BY <1>2, <1>5, <2>3, <2>4, <2>7, <2>8, <2>10, RowJoins
    <3>3. PICK rows \in Seq(RowRecs) : rows = Append(done, r)
      BY <1>5, <2>7, CellsOfGrows
    <3>4. DoneIs(rows)' /\ RowsLeft(t, job.fmt, rows, Len(t) + 2)
      BY <2>8, <3>1, <3>2, <3>3
    <3>5. RowsFrom(t, job.fmt)[Len(t) + 2] = << >>
      <4>1. Len(t) + 2 \in 1 .. Len(t) + 2 /\ Len(t) + 2 > Len(t)
        BY <1>4
      <4> QED BY <4>1, RowsFromIs
    <3>6. RowsFrom(t, job.fmt)[1] = rows
      BY <3>4, <3>5, ConcatEmptySeq DEF RowsLeft
    <3>7. RowsOk(rows, job) /\ sent' \o batch' = DataOf(rows, job.fmt)
      BY <1>2, <3>4 DEF DoneIs
    <3>8. Accepts(t, job) /\ DataRows(t, job) = DataOf(rows, job.fmt)
      BY <3>6, <3>7, AcceptsIs
    <3> QED BY <1>3, <3>2, <3>7, <3>8
  <2> QED BY <2>9, <2>10
<1> QED BY <1>6, <1>7, <1>8

------------------------------------------------------------------------------
(* The invariant, and the theorems. *)

\* While the stream is read, what is parsed belongs to the rows of whatever text comes of it;
\* behind its end the text can be loaded, and its rows are sent or wait.
LoadInv ==
  /\ phase = "reading" => \A t : Continues(t) => Inside(t)
  /\ phase = "finishing" => Accepts(read, job) /\ sent \o batch = DataRows(read, job)
  /\ RejectedOnlyIfMalformed
  /\ origin # "export" => ~MixesLineEnds(read)

\* A line feed that belongs to a carriage return comes where no row has begun.
LEMMA SwallowBegins ==
  ASSUME RoundInv, origin # "export" => ~MixesLineEnds(read), SwallowLF,
         NEW t, Continues(t), NEW done, NEW s, NEW i, IsAt(t, done, s, i)
  PROVE  i = pos + 1 /\ p.row = << >>
<1>1. /\ TypeOK /\ IInv /\ ReadsBack /\ p.cr /\ Byte = "lf" /\ phase = "reading" /\ pos < Len(read)
      /\ read \in Seq(Bytes) /\ pos \in Nat /\ Len(read) \in Nat /\ pos + 1 \in DOMAIN read
  <2>1. TypeOK /\ IInv /\ ReadsBack /\ p.cr /\ Byte = "lf" /\ phase = "reading" /\ pos < Len(read)
    BY DEF RoundInv, TransferInv, IInv, SwallowLF, OutsideQuotes, Parsing
  <2>2. read \in Seq(Bytes) /\ pos \in Nat
    BY <2>1 DEF TypeOK
  <2> QED BY <2>1, <2>2, LenProperties
<1>2. /\ i = pos + 1 /\ s > 1 /\ t[s - 1] = "cr" /\ \A j \in s .. pos : t[j] = "sep"
      /\ s \in 1 .. pos + 1 /\ (p.row = << >> <=> i = s)
  BY <1>1 DEF IsAt, AfterCr
<1>3. CASE origin # "export"
  <2>1. s = pos + 1
    <3> SUFFICES ASSUME s # pos + 1 PROVE FALSE
      OBVIOUS
    <3>1. s - 1 \in 1 .. pos /\ s - 1 \in DOMAIN read /\ s - 1 + 1 < pos + 1 /\ s - 1 + 1 = s /\ pos + 1 - 1 = pos
      BY <1>1, <1>2, LenProperties
    <3>2. read[s - 1] = "cr" /\ \A j \in s .. pos : read[j] = "sep"
      BY <1>1, <1>2, <3>1 DEF Continues
    <3>3. read[pos + 1] = "lf"
      BY <1>1 DEF Byte
    <3> DEFINE x == s - 1
    <3> DEFINE y == pos + 1
    <3>4. /\ x \in DOMAIN read /\ y \in DOMAIN read /\ read[x] = "cr" /\ read[y] = "lf" /\ x + 1 < y
          /\ \A k \in x + 1 .. y - 1 : read[k] = "sep"
      BY <1>1, <3>1, <3>2, <3>3
    <3> HIDE DEF x, y
    <3>5. MixesLineEnds(read)
      BY <3>4 DEF MixesLineEnds
    <3> QED BY <1>3, <3>5
  <2> QED BY <1>2, <2>1
<1>4. CASE origin = "export"
  <2>1. ReadInv /\ cause = "none"
    BY <1>1, <1>4 DEF ReadsBack, IInv, ServerByPhase
  <2>2. export = "returned"
    <3>1. Len(<< >>) = 0
      OBVIOUS
    <3> QED BY <1>1, <2>1, <3>1 DEF ReadInv
  <2>3. PICK m \in 0 .. Len(Lines) : Reads(m)
    BY <1>1, <2>1, <2>2 DEF ReadInv
  <2>4. Between(m)
    BY <1>1, <2>3 DEF Reads, AtCell
  <2> QED BY <1>2, <2>4 DEF Between
<1> QED BY <1>3, <1>4

\* A byte of the stream, or two, that the parser goes on behind.
LEMMA FeedInside ==
  ASSUME RoundInv, LoadInv, Feed, phase' = "reading", NEW t, Continues(t)'
  PROVE  Inside(t)'
<1>1. TypeOK /\ pos \in Nat /\ (origin # "export" => ~MixesLineEnds(read))
  BY DEF RoundInv, TransferInv, IInv, TypeOK, LoadInv
<1>2. /\ read' = read /\ phase = "reading"
      /\ (pos' = pos + 2 /\ EscapeInChunk) \/ (pos' = pos + 1 /\ ~EscapeInChunk)
      /\ RowEnd \/ UNCHANGED <<job, sent, batch>>
  BY <1>1 DEF Feed, ResumeEscape, InQuotes, QuoteInQuotes, ByteAfterQuotes, CsvByte, Separator, SwallowLF,
    BlankLine, RowEnd, EndsLine, ByteAfterNull, OpenQuotes, EscapeInChunk, EscapeAtEnd, Backslash, Ordinary,
    Plain, OutsideQuotes, Parsing, Within, Consumes, sendVars
<1>3. Continues(t) /\ t \in Texts /\ pos + 1 <= Len(t) /\ t[pos + 1] = Byte
  <2>1. PICK n \in {1, 2} : pos' = pos + n
    BY <1>2
  <2>2. n \in Nat /\ n > 0
    OBVIOUS
  <2>3. Continues(t) /\ t[pos + 1] = Byte /\ pos + 1 <= Len(t)
    BY <1>1, <1>2, <2>1, <2>2, ContinuesBack
  <2> QED BY <2>3 DEF Continues
<1>4. PICK done, s, i : DoneIs(done) /\ IsAt(t, done, s, i)
  BY <1>2, <1>3 DEF LoadInv, Inside
<1>5. /\ i \in 1 .. pos + 1 /\ CellIn(p, job.fmt, t, i, pos + 1) /\ pos <= Len(t)
  <2>1. s \in 1 .. pos + 1 /\ i \in s .. pos + 1 /\ CellIn(p, job.fmt, t, i, pos + 1) /\ pos <= Len(t)
    BY <1>3, <1>4 DEF IsAt, Continues
  <2> QED BY <1>1, <2>1
<1>6. CASE EscapeInChunk
  <2>1. pos' = pos + 2 /\ UNCHANGED <<job, sent, batch>>
    BY <1>2, <1>6 DEF EscapeInChunk, sendVars
  <2>2. pos + 2 <= Len(t) /\ t[pos + 2] = read[pos + 2]
    <3>1. pos + 2 <= Len(t) /\ \A j \in pos + 1 .. pos + 2 : t[j] = read[j]
      BY <1>1, <1>2, <2>1, ContinuesBack
    <3> QED BY <1>1, <3>1
  <2>3. StaysIn(t, i, pos + 3)
    BY <1>1, <1>3, <1>5, <1>6, <2>2, EscapeStays
  <2>4. StaysIn(t, i, pos + 2 + 1)
    <3>1. pos + 2 + 1 = pos + 3
      BY <1>1
    <3> QED BY <2>3, <3>1
  <2>5. 2 \in {1, 2}
    OBVIOUS
  <2>6. (DoneIs(done) /\ IsAt(t, done, s, i))'
    BY <1>1, <1>4, <2>1, <2>4, <2>5, StayFeeds
  <2> QED BY <2>6 DEF Inside
<1>7. CASE ResumeEscape \/ InQuotes \/ QuoteInQuotes \/ OpenQuotes \/ EscapeAtEnd \/ Ordinary
  <2>1. pos' = pos + 1 /\ UNCHANGED <<job, sent, batch>>
    BY <1>7 DEF ResumeEscape, InQuotes, QuoteInQuotes, OpenQuotes, EscapeAtEnd, Ordinary, Within, Consumes,
      sendVars
  <2>2. StaysIn(t, i, pos + 2)
    BY <1>1, <1>3, <1>5, <1>7, ResumeStays, QuotedStays, OpenStays, PendingStays, OrdinaryStays
  <2>3. StaysIn(t, i, pos + 1 + 1)
    <3>1. pos + 1 + 1 = pos + 2
      BY <1>1
    <3> QED BY <2>2, <3>1
  <2>4. 1 \in {1, 2}
    OBVIOUS
  <2>5. (DoneIs(done) /\ IsAt(t, done, s, i))'
    BY <1>1, <1>4, <2>1, <2>3, <2>4, StayFeeds
  <2> QED BY <2>5 DEF Inside
<1>8. CASE Separator
  <2>1. (DoneIs(done) /\ IsAt(t, done, s, pos + 1))'
    BY <1>1, <1>3, <1>4, <1>8, SeparatorFeeds
  <2> QED BY <2>1 DEF Inside
<1>9. CASE SwallowLF \/ BlankLine
  <2>1. i = pos + 1 /\ p.row = << >>
    <3>1. CASE SwallowLF
      BY <1>1, <1>3, <1>4, <3>1, SwallowBegins
    <3>2. CASE BlankLine
      <4>1. p.state = "CellStart" /\ p.row = << >>
        BY <3>2 DEF BlankLine, AtRowStart
      <4> QED BY <1>5, <4>1, CellStates
    <3> QED BY <1>9, <3>1, <3>2
  <2>2. PICK b \in BOOLEAN : p' = [p EXCEPT !.cr = b] /\ (b => Byte = "cr")
    BY <1>9 DEF SwallowLF, BlankLine, Within
  <2>3. pos' = pos + 1 /\ UNCHANGED <<job, sent, batch>> /\ Byte \in LineEnds
    BY <1>9 DEF SwallowLF, BlankLine, EndsLine, Within, Consumes, sendVars, LineEnds
  <2>4. (DoneIs(done) /\ IsAt(t, done, pos + 1, pos + 1))'
    BY <1>1, <1>3, <1>4, <2>1, <2>2, <2>3, BlankFeeds
  <2> QED BY <2>4 DEF Inside
<1>10. CASE RowEnd
  BY <1>1, <1>3, <1>4, <1>10, RowEndFeeds
<1>11. CASE ByteAfterQuotes \/ ByteAfterNull
  BY <1>11 DEF ByteAfterQuotes, ByteAfterNull, Throw
<1> QED BY <1>6, <1>7, <1>8, <1>9, <1>10, <1>11 DEF Feed

\* What is parsed is a text of its own.
LEMMA ParsedIs ==
  ASSUME NEW t \in Seq(Bytes), NEW n \in 0 .. Len(t)
  PROVE  /\ SubSeq(t, 1, n) \in Texts /\ Len(SubSeq(t, 1, n)) = n
         /\ \A j \in 1 .. n : SubSeq(t, 1, n)[j] = t[j]
         /\ n = Len(t) => SubSeq(t, 1, n) = t
BY LenProperties, SMTT(30) DEF Texts

\* A byte that the parser refuses.
LEMMA FeedRefuses ==
  ASSUME RoundInv, LoadInv, Feed, phase' # "reading"
  PROVE  phase' = "throwing" /\ RejectedOnlyIfMalformed'
<1>1. /\ TypeOK /\ pos \in Nat /\ read \in Seq(Bytes)
  BY DEF RoundInv, TransferInv, IInv, TypeOK, LoadInv
<1>2. /\ read' = read /\ phase = "reading" /\ pos' = pos + 1 /\ pos < Len(read) /\ job' = job
      /\ RowEnd \/ ByteAfterQuotes \/ ByteAfterNull
  BY <1>1 DEF Feed, ResumeEscape, InQuotes, QuoteInQuotes, ByteAfterQuotes, CsvByte, Separator, SwallowLF,
    BlankLine, RowEnd, EndsLine, ByteAfterNull, OpenQuotes, EscapeInChunk, EscapeAtEnd, Backslash, Ordinary,
    Plain, OutsideQuotes, Parsing, Within, Consumes
<1>3. PICK t : t = SubSeq(read, 1, pos + 1)
  OBVIOUS
<1>4. pos + 1 \in 0 .. Len(read)
  BY <1>1, <1>2, LenProperties
<1>5. t \in Texts /\ Len(t) = pos + 1 /\ \A j \in 1 .. pos + 1 : t[j] = read[j]
  BY <1>1, <1>3, <1>4, ParsedIs
<1>6. Continues(t) /\ pos + 1 <= Len(t) /\ t[pos + 1] = Byte
  BY <1>1, <1>5 DEF Continues, Byte
<1>7. PICK done, s, i : DoneIs(done) /\ IsAt(t, done, s, i)
  BY <1>2, <1>6 DEF LoadInv, Inside
<1>8. phase' = "throwing" /\ ~Accepts(t, job)
  <2>1. CASE RowEnd
    BY <1>1, <1>5, <1>6, <1>7, <2>1, RowEndFeeds
  <2>2. CASE ByteAfterQuotes \/ ByteAfterNull
    <3>1. phase' = "throwing"
      BY <2>2 DEF ByteAfterQuotes, ByteAfterNull, Throw
    <3>2. ~Accepts(t, job)
      BY <1>1, <1>5, <1>6, <1>7, <2>2, ByteRefused
    <3> QED BY <3>1, <3>2
  <2> QED BY <1>2, <2>1, <2>2
<1>9. SubSeq(read', 1, pos') = t
  BY <1>2, <1>3
<1> QED BY <1>2, <1>8, <1>9 DEF RejectedOnlyIfMalformed

\* A chunk more: the texts that may still come are fewer.
LEMMA ReceiveFollows ==
  ASSUME TypeOK, LoadInv, NEW chunk \in Seq(Bytes), Receive(chunk), origin' = origin,
         origin # "export" => ~MixesLineEnds(read \o chunk)
  PROVE  LoadInv'
<1>1. /\ read \in Seq(Bytes) /\ pos \in 0 .. Len(read) /\ Len(read) \in Nat /\ pos \in Nat
  BY LenProperties DEF TypeOK
<1>2. /\ read' = read \o chunk /\ UNCHANGED <<job, pos, p, batch, sent, phase, cause>> /\ phase = "reading"
  BY DEF Receive, BetweenChunks, sendVars
<1>3. \A j \in 1 .. pos : read'[j] = read[j] /\ j \in 1 .. Len(read)
  <2>1. \A j \in 1 .. Len(read) : (read \o chunk)[j] = read[j]
    BY <1>1, ConcatProperties
  <2> QED BY <1>1, <1>2, <2>1
<1>4. ASSUME NEW t, Continues(t)' PROVE Inside(t)'
  <2>1. Continues(t)
    BY <1>2, <1>3, <1>4 DEF Continues
  <2>2. PICK done, s, i : DoneIs(done) /\ IsAt(t, done, s, i)
    BY <1>2, <2>1 DEF LoadInv, Inside
  <2>3. DoneIs(done)' /\ IsAt(t, done, s, i)'
    BY <1>2, <2>2 DEF DoneIs, IsAt
  <2> QED BY <2>3 DEF Inside
<1>5. SubSeq(read', 1, pos') = SubSeq(read, 1, pos)
  <2> DEFINE a == SubSeq(read, 1, pos)
  <2> DEFINE b == SubSeq(read', 1, pos)
  <2>1. read' \in Seq(Bytes) /\ pos \in 0 .. Len(read')
    BY <1>1, <1>2
  <2>2. a \in Seq(Bytes) /\ Len(a) = pos /\ \A j \in 1 .. pos : a[j] = read[j]
    BY <1>1, ParsedIs DEF Texts
  <2>3. b \in Seq(Bytes) /\ Len(b) = pos /\ \A j \in 1 .. pos : b[j] = read'[j]
    BY <2>1, ParsedIs DEF Texts
  <2> HIDE DEF a, b
  <2>4. a = b
    BY <1>3, <2>2, <2>3, SeqEqual
  <2> QED BY <1>2, <2>4 DEF a, b
<1>6. RejectedOnlyIfMalformed'
  BY <1>2, <1>5 DEF LoadInv, RejectedOnlyIfMalformed
<1> QED BY <1>2, <1>4, <1>6 DEF LoadInv

\* A byte, or two.
LEMMA FeedFollows ==
  ASSUME RoundInv, LoadInv, Feed, origin' = origin
  PROVE  LoadInv'
<1>1. read' = read /\ phase = "reading" /\ cause = "none"
  <2>1. phase = "reading"
    BY FeedParses
  <2>2. cause = "none"
    BY <2>1 DEF RoundInv, TransferInv, IInv, ServerByPhase
  <2>3. read' = read
    BY DEF Feed, ResumeEscape, InQuotes, QuoteInQuotes, ByteAfterQuotes, Separator, SwallowLF,
      BlankLine, RowEnd, ByteAfterNull, OpenQuotes, EscapeInChunk, EscapeAtEnd, Ordinary, Within
  <2> QED BY <2>1, <2>2, <2>3
<1>2. origin' # "export" => ~MixesLineEnds(read')
  BY <1>1 DEF LoadInv
<1>3. CASE phase' = "reading"
  <2>1. \A t : Continues(t)' => Inside(t)'
    BY <1>3, FeedInside
  <2>2. cause' = "none"
    <3>1. IInv'
      BY FeedKeeps DEF RoundInv, TransferInv
    <3> QED BY <1>3, <3>1 DEF IInv, ServerByPhase
  <2> QED BY <1>2, <1>3, <2>1, <2>2 DEF LoadInv, RejectedOnlyIfMalformed
<1>4. CASE phase' # "reading"
  <2>1. phase' = "throwing" /\ RejectedOnlyIfMalformed'
    BY <1>4, FeedRefuses
  <2> QED BY <1>2, <2>1 DEF LoadInv
<1> QED BY <1>3, <1>4

\* The end of the stream.
LEMMA EndFollows ==
  ASSUME RoundInv, LoadInv, EndOfStream, origin' = origin
  PROVE  LoadInv'
<1>1. /\ TypeOK /\ read \in Texts /\ pos = Len(read) /\ phase = "reading" /\ UNCHANGED <<job, read, pos>>
      /\ cause = "none"
  BY DEF RoundInv, TransferInv, IInv, TypeOK, ServerByPhase, EndOfStream, BetweenChunks, Texts
<1>2. Inside(read)
  <2>1. Continues(read)
    BY <1>1, LenProperties DEF Continues, Texts
  <2> QED BY <1>1, <2>1 DEF LoadInv
<1>3. \/ phase' = "throwing" /\ ~Accepts(read, job)
      \/ phase' = "finishing" /\ cause' = cause /\ Accepts(read, job) /\ sent' \o batch' = DataRows(read, job)
  BY <1>1, <1>2, EndFeeds
<1>4. SubSeq(read', 1, pos') = read
  <2>1. Len(read) \in 0 .. Len(read)
    BY <1>1, LenProperties DEF Texts
  <2> QED BY <1>1, <2>1, ParsedIs DEF Texts
<1> QED BY <1>1, <1>3, <1>4 DEF LoadInv, RejectedOnlyIfMalformed

\* A step that parses nothing, and is no refusal.
LEMMA LoadStays ==
  ASSUME LoadInv, UNCHANGED <<job, read, pos, origin>>,
         \/ UNCHANGED <<p, phase, cause>> /\ sent' \o batch' = sent \o batch
         \/ phase' \notin {"reading", "finishing"} /\ cause' \in {cause, "stream", "value", "send", "end"}
  PROVE  LoadInv'
<1>1. RejectedOnlyIfMalformed' /\ (origin' # "export" => ~MixesLineEnds(read'))
  BY DEF LoadInv, RejectedOnlyIfMalformed
<1>2. CASE UNCHANGED <<p, phase, cause>> /\ sent' \o batch' = sent \o batch
  <2>1. ASSUME phase = "reading", NEW t, Continues(t)' PROVE Inside(t)'
    <3>1. Continues(t)
      BY <2>1 DEF Continues
    <3>2. PICK done, s, i : DoneIs(done) /\ IsAt(t, done, s, i)
      BY <2>1, <3>1 DEF LoadInv, Inside
    <3>3. DoneIs(done)' /\ IsAt(t, done, s, i)'
      BY <1>2, <3>2 DEF DoneIs, IsAt
    <3> QED BY <3>3 DEF Inside
  <2>2. phase' = "reading" => \A t : Continues(t)' => Inside(t)'
    BY <1>2, <2>1
  <2>3. phase' = "finishing" => Accepts(read', job') /\ sent' \o batch' = DataRows(read', job')
    BY <1>2 DEF LoadInv
  <2> QED BY <1>1, <2>2, <2>3 DEF LoadInv
<1>3. CASE phase' \notin {"reading", "finishing"} /\ cause' \in {cause, "stream", "value", "send", "end"}
  BY <1>1, <1>3 DEF LoadInv
<1> QED BY <1>2, <1>3

\* Every step keeps what is parsed within what the text means.
LEMMA LoadKeeps == RoundInv /\ LoadInv /\ [Next]_vars => LoadInv'
<1> SUFFICES ASSUME RoundInv, LoadInv, [Next]_vars PROVE LoadInv'
  OBVIOUS
<1>1. TypeOK /\ IInv /\ origin' = origin
  BY DEF RoundInv, TransferInv, IInv, Next, vars
<1>2. CASE UNCHANGED importVars
  BY <1>1, <1>2, LoadStays DEF importVars, parseVars, sendVars
<1>3. CASE FromAnywhere
  <2>1. PICK chunk \in Chunks(job.fmt) : origin = "any" /\ ~MixesLineEnds(read \o chunk) /\ Receive(chunk)
    BY <1>3 DEF FromAnywhere
  <2>2. chunk \in Seq(Bytes)
    BY <1>1, ChunkIsBytes
  <2> QED BY <1>1, <2>1, <2>2, ReceiveFollows
<1>4. CASE FromExport
  <2>1. PICK n \in 1 .. MaxChunk : /\ origin = "export" /\ Len(read) + n <= Len(file)
                                   /\ Receive(SubSeq(file, Len(read) + 1, Len(read) + n))
    BY <1>4 DEF FromExport
  <2>2. SubSeq(file, Len(read) + 1, Len(read) + n) \in Seq(Bytes)
    <3>1. file \in Seq(Bytes) /\ Len(read) \in Nat /\ n \in Nat
      <4>1. read \in Seq(Bytes) /\ file \in Seq(Bytes)
        BY <1>1 DEF TypeOK, RoundInv, TransferInv, ExportInv, ExportType
      <4> QED BY <4>1, LenProperties, BoundsAreNat
    <3> QED BY <2>1, <3>1, PartIsBytes
  <2> QED BY <1>1, <2>1, <2>2, ReceiveFollows
<1>5. CASE Feed
  BY <1>1, <1>5, FeedFollows
<1>6. CASE EndOfText
  BY <1>1, <1>6, EndFollows DEF EndOfText
<1>7. CASE StreamFails
  BY <1>1, <1>7, LoadStays DEF StreamFails, Throw
<1>8. CASE Flush
  <2>1. (sent \o batch) \o << >> = sent \o batch
    <3>1. sent \o batch \in Seq(Rows(job))
      BY <1>1 DEF TypeOK
    <3> QED BY <3>1, ConcatEmptySeq
  <2>2. sent' \o batch' = sent \o batch /\ UNCHANGED <<job, read, pos, p, cause, phase>>
    BY <1>8, <2>1 DEF Flush, parseVars
  <2> QED BY <1>1, <2>2, LoadStays
<1>9. CASE FlushRefusesValue \/ FlushThrows \/ EndInsertThrows
  BY <1>1, <1>9, LoadStays DEF FlushRefusesValue, FlushThrows, EndInsertThrows, Throw
<1>10. CASE EndInsert
  BY <1>1, <1>10, LoadStays DEF EndInsert, parseVars
<1>11. CASE Recovering
  BY <1>1, <1>11, LoadStays DEF Recovering, RecoverSent, RecoverEmpty, Catching, parseVars
<1> QED BY <1>2, <1>3, <1>4, <1>5, <1>6, <1>7, <1>8, <1>9, <1>10, <1>11
     DEF Next, vars, Exports, Imports, Sending

\* At first nothing is read, and no row is done.
LEMMA LoadStarts == Init => LoadInv
<1> SUFFICES ASSUME Init PROVE LoadInv
  OBVIOUS
<1>1. /\ read = << >> /\ pos = 0 /\ p = FreshParser /\ batch = << >> /\ sent = << >> /\ phase = "reading"
      /\ cause = "none"
  BY DEF Init, ImportInit
<1>2. ~MixesLineEnds(read)
  BY <1>1 DEF MixesLineEnds
<1>3. ASSUME NEW t, Continues(t) PROVE Inside(t)
  <2>1. t \in Texts /\ Len(t) \in Nat /\ 1 \in 1 .. Len(t) + 1
    BY <1>3, LenProperties DEF Continues, Texts
  <2>2. p.row = << >> /\ p.state = "CellStart" /\ p.cell = << >> /\ ~p.quoted /\ ~p.null /\ ~p.escape /\ ~p.cr
        /\ ~p.headerSeen
    BY <1>1 DEF FreshParser
  <2> DEFINE none == << >>
  <2>3. DoneIs(none)
    <3>1. none \in Seq(RowRecs) /\ none \in Seq(Seq(Cells)) /\ Len(none) = 0
      BY EmptyIsSeq
    <3>2. DataOf(none, job.fmt) = << >>
      BY CellsOfIs, <3>1 DEF DataOf
    <3>3. sent \o batch = << >>
      BY <1>1, <3>1, ConcatEmptySeq
    <3>4. RowsOk(none, job)
      BY <3>1, <3>2 DEF RowsOk
    <3> QED BY <2>2, <3>1, <3>2, <3>3, <3>4 DEF DoneIs
  <2>4. IsAt(t, none, 1, 1)
    <3>1. RowsLeft(t, job.fmt, none, 1)
      <4>1. 1 \in 1 .. Len(t) + 2
        BY <2>1
      <4> DEFINE x == RowsFrom(t, job.fmt)[1]
      <4>2. x \in Seq(RowRecs)
        BY <2>1, <4>1, RowsType
      <4> HIDE DEF x
      <4>3. << >> \o x = x
        BY <4>2, ConcatEmptySeq
      <4> QED BY <4>3 DEF RowsLeft, x
    <3>2. JoinsRow(t, job.fmt, 1, 1, p.row) /\ CellIn(p, job.fmt, t, 1, 1)
      BY <2>1, <2>2, RowBegins, CellBegins
    <3>3. AfterCr(p, pos, t, 1, 1)
      BY <2>2 DEF AfterCr
    <3>4. pos + 1 = 1 /\ 1 \in 1 .. pos + 1 /\ ~(1 <= pos)
      BY <1>1
    <3> QED BY <2>2, <3>1, <3>2, <3>3, <3>4 DEF IsAt
  <2> QED BY <2>3, <2>4 DEF Inside
<1> QED BY <1>1, <1>2, <1>3 DEF LoadInv, RejectedOnlyIfMalformed

\* No split of a text into chunks makes a good text bad: when insertFromStream refuses what it
\* has read, it is malformed as far as it was parsed, for every job, batch size and text.
THEOREM RefusedIsMalformed == Spec => []RejectedOnlyIfMalformed
<1>1. RoundInv /\ LoadInv => RejectedOnlyIfMalformed
  BY DEF LoadInv
<1> QED BY <1>1, RoundStarts, RoundKeeps, LoadStarts, LoadKeeps, PTL DEF Spec

\* The load stands where it stood.
LEMMA LoadWaits ==
  ASSUME UNCHANGED <<job, read>>, Kept' = Kept, LoadStatus' = LoadStatus
  PROVE  UNCHANGED <<<<job, read>>, Kept, LoadStatus>>
OBVIOUS

\* Every step is a step of the load, or none.
LEMMA LoadSteps ==
  RoundInv /\ LoadInv /\ [Next]_vars => [Load!Next]_<<<<job, read>>, Kept, LoadStatus>>
<1> SUFFICES ASSUME RoundInv, LoadInv, [Next]_vars
             PROVE  Load!Next \/ UNCHANGED <<<<job, read>>, Kept, LoadStatus>>
  OBVIOUS
<1>1. /\ TypeOK /\ IInv /\ Counted /\ ServerByPhase
      /\ IInv' /\ ServerByPhase'
  BY RoundKeeps DEF RoundInv, TransferInv, IInv
<1>2. CASE UNCHANGED importVars
  BY <1>2, LoadWaits DEF importVars, parseVars, sendVars, Kept, LoadStatus
<1>3. ASSUME phase = "reading", phase' \in {"reading", "finishing", "throwing"}, server' = server, job' = job
      PROVE  Load!Next
  <2>1. server = "open" /\ server' = "open"
    BY <1>1, <1>3 DEF ServerByPhase
  <2>2. LoadStatus = "loading" /\ LoadStatus' = "loading" /\ Kept = << >> /\ Kept' = << >>
    BY <1>3, <2>1 DEF LoadStatus, Kept
  <2> QED BY <2>2 DEF Load!Next, Load!Receive
<1>4. CASE FromAnywhere \/ FromExport
  <2>1. phase = "reading" /\ phase' = phase /\ server' = server /\ job' = job
    BY <1>4 DEF FromAnywhere, FromExport, Receive, BetweenChunks
  <2> QED BY <1>3, <2>1
<1>5. CASE Feed
  <2>1. phase = "reading" /\ server' = server /\ job' = job
    BY <1>5, FeedParses DEF Feed, ResumeEscape, InQuotes, QuoteInQuotes, ByteAfterQuotes, Separator, SwallowLF,
      BlankLine, RowEnd, ByteAfterNull, OpenQuotes, EscapeInChunk, EscapeAtEnd, Ordinary, Within
  <2>2. phase' \in {"reading", "throwing"}
    BY <1>5, FeedRefuses
  <2> QED BY <1>3, <2>1, <2>2
<1>6. CASE EndOfText
  <2>1. phase = "reading" /\ server' = server /\ job' = job /\ phase' \in {"finishing", "throwing"}
    BY <1>6 DEF EndOfText, EndOfStream, BetweenChunks, Throw, finishRow
  <2> QED BY <1>3, <2>1
<1>7. CASE StreamFails
  <2>1. phase = "reading" /\ server' = server /\ job' = job /\ phase' = "throwing"
    BY <1>7 DEF StreamFails, Throw
  <2> QED BY <1>3, <2>1
<1>8. CASE Flush \/ FlushRefusesValue \/ FlushThrows
  <2>1. /\ phase \in {"reading", "finishing"} /\ UNCHANGED <<job, read, server>>
        /\ phase' = phase \/ (phase' = "throwing" /\ cause' \in {"value", "send"})
    BY <1>8 DEF Flush, FlushRefusesValue, FlushThrows, Flushing, Throw, parseVars
  <2>2. server = "open" /\ server' = "open"
    BY <1>1, <2>1 DEF ServerByPhase
  <2>3. Kept' = Kept /\ LoadStatus' = LoadStatus
    BY <2>1, <2>2 DEF Kept, LoadStatus
  <2> QED BY <2>1, <2>3, LoadWaits
<1>9. CASE EndInsert \/ EndInsertThrows
  <2>1. /\ phase = "finishing" /\ batch = << >> /\ UNCHANGED <<job, read, sent>>
        /\ \/ phase' = "returned" /\ server' = "ended"
           \/ phase' = "throwing" /\ cause' = "end" /\ server' \in {"open", "ended"}
    <3>1. batch \in Seq(Rows(job))
      BY <1>1 DEF TypeOK
    <3>2. phase = "finishing" /\ batch = << >>
      BY <1>9 DEF EndInsert, EndInsertThrows, Closing, BatchIsDue
    <3> QED BY <1>9, <3>2 DEF EndInsert, EndInsertThrows, parseVars, sendVars, Throw
  <2>2. server = "open"
    BY <1>1, <2>1 DEF ServerByPhase
  <2>3. LoadStatus = "loading" /\ Kept = << >>
    BY <2>1, <2>2 DEF LoadStatus, Kept
  <2>4. Accepts(read, job) /\ sent = DataRows(read, job)
    <3>1. sent \o << >> = sent
      BY <1>1, ConcatEmptySeq DEF TypeOK
    <3> QED BY <2>1, <3>1 DEF LoadInv
  <2>5. CASE server' = "ended"
    <3>1. Kept' = sent /\ LoadStatus' \in {"done", "unconfirmed"}
      BY <2>1, <2>5 DEF Kept, LoadStatus
    <3> QED BY <2>1, <2>3, <2>4, <3>1 DEF Load!Next, Load!Keep
  <2>6. CASE server' = "open"
    <3>1. Kept' = << >> /\ LoadStatus' = "loading"
      BY <2>1, <2>6 DEF Kept, LoadStatus
    <3> QED BY <2>1, <2>3, <3>1, LoadWaits
  <2> QED BY <2>1, <2>5, <2>6
<1>10. CASE Recovering
  <2>1. /\ phase = "throwing" /\ phase' = "threw" /\ UNCHANGED <<job, read, sent>>
        /\ \/ server = "open" /\ server' \in {"open", "reset"}
           \/ server # "open" /\ server' = server
           \/ server' = "ended" /\ ~dirty /\ ~sentAny
    BY <1>10 DEF Recovering, RecoverSent, RecoverEmpty, Catching, Reset, parseVars, sendVars
  <2>2. server = "open" \/ (server = "ended" /\ cause = "end")
    BY <1>1, <2>1 DEF ServerByPhase
  <2>3. LoadStatus \in {"loading", "unconfirmed"} /\ LoadStatus' = "failed"
    BY <2>1 DEF LoadStatus
  <2>4. Kept' = Kept
    <3>1. ~dirty /\ ~sentAny => sent = << >>
      BY <1>1 DEF Counted
    <3> QED BY <2>1, <2>2, <3>1 DEF Kept
  <2> QED BY <2>1, <2>3, <2>4 DEF Load!Next, Load!Fail
<1> QED BY <1>2, <1>4, <1>5, <1>6, <1>7, <1>8, <1>9, <1>10 DEF Next, vars, Exports, Imports, Sending

\* insertFromStream is a load that is all or nothing, of the rows that the text means: whatever the
\* split of the text into chunks and of the rows into batches, and whatever fails, the table has all
\* of the rows or none of the call, and a call that returns has loaded them. For every job and text.
THEOREM LoadIsImplemented == Spec => ImplementsLoad
<1>1. Init => Load!Init
  BY DEF Init, ImportInit, Load!Init, Kept, LoadStatus
<1> QED BY <1>1, RoundStarts, RoundKeeps, LoadStarts, LoadKeeps, LoadSteps, PTL
     DEF Spec, ImplementsLoad, Load!Spec

=============================================================================
