-------------------------- MODULE ByteStreams_proofs --------------------------
(***************************************************************************)
(* For all packets, buffers, frames and cuts of the bytes: what the        *)
(* buffers hand over of a packet, and how a reader takes it apart.         *)
(***************************************************************************)
EXTENDS ByteStreams, DataInduction

------------------------------------------------------------------------------
(* Statements that the provers need by name: what is known of a term is    *)
(* then a fact about it, and not one more equation to rewrite with.        *)

\* Three sequences, joined from either end.
Reassociates(a, b, c) == (a \o b) \o c = a \o (b \o c)

\* Concatenation is associative.
LEMMA Reassociate ==
  ASSUME NEW A, NEW a \in Seq(A), NEW b \in Seq(A), NEW c \in Seq(A)
  PROVE  Reassociates(a, b, c)
BY ConcatAssociative, SMTT(60) DEF Reassociates

\* What is known of one part r of the parts s of the sequence all.
CutsPart(s, all, r) ==
  /\ EndOf(s, r - 1) \in Nat /\ EndOf(s, r) = EndOf(s, r - 1) + Len(s[r]) /\ EndOf(s, r) <= Len(all)
  /\ \A i \in 1 .. Len(s[r]) : all[EndOf(s, r - 1) + i] = s[r][i]

\* A part is in its sequence, between the ends of the part before it and its own.
LEMMA PartsAreCut ==
  ASSUME NEW A, NEW s \in Seq(Seq(A)), NEW r \in 1 .. Len(s)
  PROVE  CutsPart(s, FlattenSeq(s), r)
BY EndsCutParts, SMTT(60) DEF CutsPart

------------------------------------------------------------------------------
(* Sums of sizes. *)

\* The sums begin with nothing and grow by one size at a time.
LEMMA SumsAre ==
  ASSUME NEW s, NEW n \in Nat, Len(s) = n, \A f \in 1 .. n : s[f] \in Nat
  PROVE  /\ Sums(s)[0] = 0
         /\ \A f \in 0 .. n : Sums(s)[f] \in Nat
         /\ \A f \in 1 .. n : Sums(s)[f] = Sums(s)[f - 1] + s[f]
<1> DEFINE Good(m, h) == h = [f \in 0 .. m |-> IF f = 0 THEN 0 ELSE h[f - 1] + s[f]]
<1> DEFINE S == {m \in Nat : \E h : Good(m, h)}
<1>1. 0 \in S
  <2> DEFINE h == [f \in 0 .. 0 |-> 0]
  <2>1. Good(0, h)
    OBVIOUS
  <2> QED BY <2>1
<1>2. ASSUME NEW m \in Nat, m \in S PROVE m + 1 \in S
  <2>1. PICK h : Good(m, h)
    BY <1>2
  <2> DEFINE g == [f \in 0 .. m + 1 |-> IF f = m + 1 THEN h[m] + s[m + 1] ELSE h[f]]
  <2>2. ASSUME NEW f \in 0 .. m + 1
        PROVE  g[f] = IF f = 0 THEN 0 ELSE g[f - 1] + s[f]
    <3>1. CASE f = m + 1
      <4>1. f # 0 /\ f - 1 = m /\ m \in 0 .. m + 1 /\ m # m + 1
        BY <3>1
      <4>2. g[f] = h[m] + s[m + 1] /\ g[m] = h[m]
        BY <3>1, <4>1
      <4> QED BY <3>1, <4>1, <4>2
    <3>2. CASE f # m + 1
      <4>1. f \in 0 .. m /\ g[f] = h[f]
        BY <3>2
      <4>2. h[f] = IF f = 0 THEN 0 ELSE h[f - 1] + s[f]
        BY <2>1, <4>1
      <4>3. f # 0 => f - 1 \in 0 .. m + 1 /\ g[f - 1] = h[f - 1]
        BY <4>1
      <4> QED BY <4>1, <4>2, <4>3
    <3> QED BY <3>1, <3>2
  <2>3. g = [f \in 0 .. m + 1 |-> IF f = 0 THEN 0 ELSE g[f - 1] + s[f]]
    BY <2>2
  <2>4. Good(m + 1, g)
    BY <2>3
  <2> HIDE DEF Good
  <2> QED BY <2>4
<1>3. n \in S
  <2> HIDE DEF S
  <2> QED BY <1>1, <1>2, NatSetInduction
<1> DEFINE F == CHOOSE h : Good(n, h)
<1>4. F = [f \in 0 .. n |-> IF f = 0 THEN 0 ELSE F[f - 1] + s[f]]
  BY <1>3
<1>5. Sums(s) = F
  BY DEF Sums
<1> HIDE DEF F
<1>6. F[0] = 0 /\ \A f \in 1 .. n : F[f] = F[f - 1] + s[f]
  BY <1>4
<1> DEFINE T == {f \in Nat : f <= n => F[f] \in Nat}
<1>7. 0 \in T
  BY <1>6
<1>8. ASSUME NEW f \in Nat, f \in T PROVE f + 1 \in T
  <2>1. f + 1 <= n => f + 1 \in 1 .. n /\ f <= n
    OBVIOUS
  <2>2. f + 1 <= n => F[f + 1] = F[f] + s[f + 1]
    BY <1>6, <2>1
  <2> QED BY <1>8, <2>1, <2>2
<1>9. \A f \in Nat : f \in T
  <2> HIDE DEF T
  <2> QED BY <1>7, <1>8, NatSetInduction
<1> QED BY <1>5, <1>6, <1>9

------------------------------------------------------------------------------
(* Chunks and frames. *)

\* A piece of a sequence behind the piece before it.
LEMMA PiecesJoin ==
  ASSUME NEW A, NEW d \in Seq(A), NEW a \in 0 .. Len(d), NEW b \in a .. Len(d)
  PROVE  /\ SubSeq(d, a + 1, b) \in Seq(A) /\ Len(SubSeq(d, a + 1, b)) = b - a
         /\ \A i \in 1 .. b - a : SubSeq(d, a + 1, b)[i] = d[a + i]
         /\ SubSeq(d, 1, a) \o SubSeq(d, a + 1, b) = SubSeq(d, 1, b)
<1>1. /\ Len(d) \in Nat /\ a \in Nat /\ b \in Nat /\ a <= b /\ b <= Len(d)
      /\ \A i \in 1 .. Len(d) : d[i] \in A
  BY ElementOfSeq, LenProperties
<1>2. \A i \in a + 1 .. b : d[i] \in A
  BY <1>1
<1>3. /\ SubSeq(d, a + 1, b) \in Seq(A)
      /\ Len(SubSeq(d, a + 1, b)) = IF a + 1 <= b THEN b - (a + 1) + 1 ELSE 0
      /\ \A i \in 1 .. b - (a + 1) + 1 : SubSeq(d, a + 1, b)[i] = d[a + 1 + i - 1]
  BY <1>1, <1>2, SubSeqProperties
<1>4. SubSeq(d, 1, a) \o SubSeq(d, a + 1, b) = SubSeq(d, 1, b)
  BY <1>1, ConcatAdjacentSubSeq
<1> QED BY <1>1, <1>3, <1>4

\* The chunks of some bytes are not empty, and join to the bytes.
LEMMA ChunksJoin ==
  ASSUME NEW A, NEW data \in Seq(A), NEW chunk \in Nat
  PROVE  /\ Chunks(data, chunk) \in Seq(Seq(A)) /\ FlattenSeq(Chunks(data, chunk)) = data
         /\ \A j \in 1 .. Len(Chunks(data, chunk)) : Len(Chunks(data, chunk)[j]) > 0
<1> DEFINE n == Len(data)
<1> DEFINE size == IF chunk > 0 THEN chunk ELSE n
<1> DEFINE N == IF data = << >> THEN 0 ELSE (n + size - 1) \div size
<1> DEFINE last == [i \in 0 .. N |-> IF i * size < n THEN i * size ELSE n]
<1> DEFINE C == Chunks(data, chunk)
<1>0. /\ DOMAIN C = 1 .. N /\ C = [i \in 1 .. N |-> C[i]]
      /\ \A i \in 1 .. N : C[i] = SubSeq(data, (i - 1) * size + 1, IF i * size < n THEN i * size ELSE n)
  BY DEF Chunks
<1>1. \A i \in 1 .. N : C[i] = SubSeq(data, (i - 1) * size + 1, last[i])
  <2> HIDE DEF C, size, n, N
  <2>1. \A i \in 1 .. N : i \in 0 .. N /\ last[i] = IF i * size < n THEN i * size ELSE n
    OBVIOUS
  <2> HIDE DEF last
  <2> QED BY <1>0, <2>1
<1>2. n \in Nat /\ size \in Nat /\ (data = << >> <=> n = 0) /\ (n > 0 => size > 0)
  BY EmptySeq, LenProperties
<1>3. CASE n = 0
  <2>1. C = << >>
    BY <1>2, <1>3 DEF Chunks
  <2>2. << >> \in Seq(Seq(A)) /\ Len(<< >>) = 0 /\ data = << >>
    BY <1>2, <1>3
  <2> QED BY <2>1, <2>2, FlattenEmpty
<1>4. CASE n # 0
  <2>1. N \in Nat /\ N * size >= n /\ N > 0 /\ (N - 1) * size < n
    <3> HIDE DEF n, size
    <3>1. N = (n + size - 1) \div size /\ size > 0 /\ n > 0
      BY <1>2, <1>4
    <3> QED BY <1>2, <3>1
  <2> HIDE DEF size, N, C, n
  <2>2. /\ last[0] = 0 /\ last[N] = n
        /\ \A i \in 1 .. N :
             /\ i - 1 \in 0 .. N /\ i \in 0 .. N /\ (i - 1) * size = last[i - 1]
             /\ last[i - 1] \in 0 .. n /\ last[i] \in 0 .. n /\ last[i - 1] < last[i]
    <3>1. 0 \in 0 .. N /\ N \in 0 .. N /\ n > 0 /\ n \in Nat /\ size \in Nat /\ size > 0
      BY <1>2, <1>4, <2>1
    <3>2. last[0] = 0 /\ last[N] = n
      BY <2>1, <3>1
    <3>3. ASSUME NEW i \in 1 .. N
          PROVE  /\ i - 1 \in 0 .. N /\ i \in 0 .. N /\ (i - 1) * size = last[i - 1]
                 /\ last[i - 1] \in 0 .. n /\ last[i] \in 0 .. n /\ last[i - 1] < last[i]
      <4>1. i - 1 \in 0 .. N /\ i \in 0 .. N
        BY <2>1
      <4>2. /\ last[i - 1] = IF (i - 1) * size < n THEN (i - 1) * size ELSE n
            /\ last[i] = IF i * size < n THEN i * size ELSE n
        BY <4>1
      <4> HIDE DEF last
      <4>3. (i - 1) * size \in Nat /\ i * size = (i - 1) * size + size
        BY <2>1, <3>1
      <4>4. (i - 1) * size <= (N - 1) * size /\ (N - 1) * size \in Nat
        BY <2>1, <3>1
      <4> DEFINE x == (i - 1) * size
      <4> DEFINE y == (N - 1) * size
      <4>5. x \in Nat /\ y \in Nat /\ x <= y /\ y < n /\ i * size = x + size
        BY <2>1, <4>3, <4>4
      <4>6. last[i - 1] = IF x < n THEN x ELSE n
        BY <4>2
      <4> HIDE DEF x, y
      <4>7. last[i] = IF x + size < n THEN x + size ELSE n
        BY <4>2, <4>5
      <4>8. x = last[i - 1] /\ last[i - 1] \in 0 .. n /\ last[i] \in 0 .. n /\ last[i - 1] < last[i]
        BY <3>1, <4>5, <4>6, <4>7
      <4> QED BY <4>1, <4>8 DEF x
    <3> QED BY <3>2, <3>3
  <2> HIDE DEF last
  <2>3. ASSUME NEW i \in 1 .. N
        PROVE  /\ C[i] = SubSeq(data, last[i - 1] + 1, last[i])
               /\ C[i] \in Seq(A) /\ Len(C[i]) > 0
               /\ SubSeq(data, 1, last[i - 1]) \o C[i] = SubSeq(data, 1, last[i])
    <3> DEFINE a == last[i - 1]
    <3> DEFINE b == last[i]
    <3>1. a \in 0 .. n /\ b \in a .. n /\ b - a > 0
      BY <1>2, <2>2
    <3>2. C[i] = SubSeq(data, a + 1, b)
      BY <1>1, <2>2
    <3> HIDE DEF a, b
    <3>3. a \in 0 .. Len(data) /\ b \in a .. Len(data)
      BY <3>1 DEF n
    <3>4. /\ SubSeq(data, a + 1, b) \in Seq(A) /\ Len(SubSeq(data, a + 1, b)) = b - a
          /\ SubSeq(data, 1, a) \o SubSeq(data, a + 1, b) = SubSeq(data, 1, b)
      BY <3>3, PiecesJoin
    <3>5. C[i] = SubSeq(data, a + 1, b) /\ C[i] \in Seq(A) /\ Len(C[i]) > 0
          /\ SubSeq(data, 1, a) \o C[i] = SubSeq(data, 1, b)
      BY <3>1, <3>2, <3>4
    <3> QED BY <3>5 DEF a, b
  <2>4. C \in [1 .. N -> Seq(A)]
    BY <1>0, <2>3
  <2>5. C \in Seq(Seq(A)) /\ Len(C) = N
    BY <2>1, <2>4, FunctionIsSeq
  <2> DEFINE S == {i \in Nat : i <= N => FlattenSeq(SubSeq(C, 1, i)) = SubSeq(data, 1, last[i])}
  <2>6. 0 \in S
    <3>1. last[0] = 0
      BY <2>2
    <3>2. SubSeq(C, 1, 0) = << >> /\ SubSeq(data, 1, 0) = << >>
      BY SubSeqEmpty
    <3> QED BY <3>1, <3>2, FlattenEmpty
  <2>7. ASSUME NEW i \in Nat, i \in S PROVE i + 1 \in S
    <3> SUFFICES ASSUME NEW k \in 1 .. N, i = k - 1
                 PROVE  FlattenSeq(SubSeq(C, 1, k)) = SubSeq(data, 1, last[k])
      <4>1. i + 1 <= N => i + 1 \in 1 .. N /\ i = i + 1 - 1
        OBVIOUS
      <4> QED BY <4>1
    <3>1. k - 1 \in 0 .. Len(C) /\ k - 1 < Len(C) /\ k - 1 + 1 = k /\ k - 1 <= N
      BY <2>1, <2>5
    <3>2. FlattenSeq(SubSeq(C, 1, k - 1)) = SubSeq(data, 1, last[k - 1])
      BY <2>7, <3>1
    <3>3. SubSeq(C, 1, k) = Append(SubSeq(C, 1, k - 1), C[k]) /\ SubSeq(C, 1, k - 1) \in Seq(Seq(A))
      <4> DEFINE m == k - 1
      <4>1. m \in 0 .. Len(C) /\ m < Len(C) /\ m + 1 = k
        BY <3>1
      <4> HIDE DEF m
      <4>2. SubSeq(C, 1, m + 1) = Append(SubSeq(C, 1, m), C[m + 1]) /\ SubSeq(C, 1, m) \in Seq(Seq(A))
        BY <2>5, <4>1, PrefixGrows, PrefixIs
      <4> QED BY <4>1, <4>2 DEF m
    <3>4. C[k] \in Seq(A) /\ SubSeq(data, 1, last[k - 1]) \o C[k] = SubSeq(data, 1, last[k])
      BY <2>3
    <3>5. FlattenSeq(SubSeq(C, 1, k)) = FlattenSeq(SubSeq(C, 1, k - 1)) \o C[k]
      BY <3>3, <3>4, FlattenAppend
    <3> QED BY <3>2, <3>4, <3>5
  <2>8. FlattenSeq(SubSeq(C, 1, N)) = SubSeq(data, 1, last[N])
    <3>1. N \in S
      <4> HIDE DEF S
      <4> QED BY <2>1, <2>6, <2>7, NatSetInduction
    <3> QED BY <2>1, <3>1
  <2>9. last[N] = n
    BY <2>2
  <2>10. SubSeq(C, 1, N) = C /\ SubSeq(data, 1, n) = data
    BY <2>5, SubSeqFull DEF n
  <2>11. FlattenSeq(C) = data
    BY <2>8, <2>9, <2>10
  <2> QED BY <2>3, <2>5, <2>11 DEF C
<1> QED BY <1>3, <1>4

\* What is in the inner buffer and the frames of a block that is being written.
Accs(A) == [held : Seq(A), frames : Seq(Seq(A))]
NoEmpty(seqs) == \A j \in 1 .. Len(seqs) : Len(seqs[j]) > 0
InnerHolds(acc, data) == NoEmpty(acc.frames) /\ FlattenSeq(acc.frames) \o acc.held = data

\* Frames behind others.
LEMMA MoreFrames ==
  ASSUME NEW A, NEW s \in Seq(Seq(A)), NEW t \in Seq(Seq(A)), NoEmpty(s), NoEmpty(t)
  PROVE  /\ s \o t \in Seq(Seq(A)) /\ NoEmpty(s \o t)
         /\ FlattenSeq(s \o t) = FlattenSeq(s) \o FlattenSeq(t)
<1>1. /\ s \o t \in Seq(Seq(A)) /\ Len(s \o t) = Len(s) + Len(t) /\ Len(s) \in Nat /\ Len(t) \in Nat
      /\ \A i \in 1 .. Len(s) + Len(t) : (s \o t)[i] = IF i <= Len(s) THEN s[i] ELSE t[i - Len(s)]
  BY ConcatProperties, LenProperties
<1>2. NoEmpty(s \o t)
  BY <1>1 DEF NoEmpty
<1> QED BY <1>1, <1>2, FlattenConcat

\* A field joins what was written before.
LEMMA WriteInnerKeeps ==
  ASSUME NEW A, NEW chunk \in Nat, NEW acc \in Accs(A), NEW before \in Seq(A), NEW data \in Seq(A),
         InnerHolds(acc, before)
  PROVE  WriteInner(acc, data, chunk) \in Accs(A) /\ InnerHolds(WriteInner(acc, data, chunk), before \o data)
<1> DEFINE F == acc.frames
<1> DEFINE h == acc.held
<1> DEFINE c == Chunks(h, chunk)
<1> DEFINE d == Chunks(data, chunk)
<1>1. F \in Seq(Seq(A)) /\ h \in Seq(A) /\ NoEmpty(F) /\ FlattenSeq(F) \o h = before
  BY DEF Accs, InnerHolds
<1>2. c \in Seq(Seq(A)) /\ NoEmpty(c) /\ FlattenSeq(c) = h
  BY <1>1, ChunksJoin DEF NoEmpty
<1>3. d \in Seq(Seq(A)) /\ NoEmpty(d) /\ FlattenSeq(d) = data
  BY ChunksJoin DEF NoEmpty
<1> DEFINE new == WriteInner(acc, data, chunk)
<1>4. \/ new = [acc EXCEPT !.held = h \o data]
      \/ new = [held |-> << >>, frames |-> (F \o c) \o d]
      \/ new = [held |-> data, frames |-> F \o c]
  BY DEF WriteInner
<1> HIDE DEF new, c, d, h, F
<1>5. F \o c \in Seq(Seq(A)) /\ NoEmpty(F \o c) /\ FlattenSeq(F \o c) = before
  BY <1>1, <1>2, MoreFrames
<1>6. CASE new = [acc EXCEPT !.held = h \o data]
  <2>1. h \o data \in Seq(A) /\ FlattenSeq(F) \in Seq(A)
    BY <1>1, ConcatProperties, FlattenType
  <2>2. FlattenSeq(F) \o (h \o data) = before \o data
    <3> DEFINE f == FlattenSeq(F)
    <3>1. f \o h = before
      BY <1>1
    <3>2. f \in Seq(A) /\ h \in Seq(A)
      BY <1>1, <2>1
    <3> HIDE DEF f
    <3>3. Reassociates(f, h, data)
      BY <3>2, Reassociate
    <3> QED BY <3>1, <3>3, Zenon DEF Reassociates, f
  <2>3. new = [held |-> h \o data, frames |-> F]
    BY <1>6 DEF Accs, F
  <2> DEFINE g == h \o data
  <2> HIDE DEF g
  <2>4. new.held = g /\ new.frames = F /\ new = [held |-> g, frames |-> F] /\ g \in Seq(A)
        /\ FlattenSeq(F) \o g = before \o data
    BY <2>1, <2>2, <2>3 DEF g
  <2> QED BY <1>1, <2>4 DEF Accs, InnerHolds, new
<1>7. CASE new = [held |-> << >>, frames |-> (F \o c) \o d]
  <2>1. /\ (F \o c) \o d \in Seq(Seq(A)) /\ NoEmpty((F \o c) \o d)
        /\ FlattenSeq((F \o c) \o d) = before \o data
    BY <1>3, <1>5, MoreFrames
  <2>2. before \o data \in Seq(A) /\ (before \o data) \o << >> = before \o data /\ << >> \in Seq(A)
    BY ConcatProperties, ConcatEmptySeq
  <2> DEFINE all == (F \o c) \o d
  <2> HIDE DEF all
  <2>3. new = [held |-> << >>, frames |-> all] /\ all \in Seq(Seq(A)) /\ NoEmpty(all)
        /\ FlattenSeq(all) = before \o data
    BY <1>7, <2>1 DEF all
  <2> QED BY <2>2, <2>3 DEF Accs, InnerHolds, new
<1>8. CASE new = [held |-> data, frames |-> F \o c]
  BY <1>5, <1>8 DEF Accs, InnerHolds, new
<1> QED BY <1>4, <1>6, <1>7, <1>8

\* The frames of a block are not empty, and join to its fields.
LEMMA FramesJoin ==
  ASSUME NEW A, NEW fields \in Seq(Seq(A)), NEW chunk \in Nat
  PROVE  /\ Frames(fields, chunk) \in Seq(Seq(A)) /\ NoEmpty(Frames(fields, chunk))
         /\ FlattenSeq(Frames(fields, chunk)) = FlattenSeq(fields)
<1> DEFINE n == Len(fields)
<1> DEFINE none == [held |-> << >>, frames |-> << >>]
<1> DEFINE Good(m, h) == h = [f \in 0 .. m |-> IF f = 0 THEN none ELSE WriteInner(h[f - 1], fields[f], chunk)]
<1> DEFINE S == {m \in Nat : \E h : Good(m, h)}
<1>0. n \in Nat
  BY LenProperties
<1>1. 0 \in S
  <2> DEFINE h == [f \in 0 .. 0 |-> none]
  <2>1. Good(0, h)
    OBVIOUS
  <2> QED BY <2>1
<1>2. ASSUME NEW m \in Nat, m \in S PROVE m + 1 \in S
  <2>1. PICK h : Good(m, h)
    BY <1>2
  <2> DEFINE g == [f \in 0 .. m + 1 |-> IF f = m + 1 THEN WriteInner(h[m], fields[m + 1], chunk) ELSE h[f]]
  <2>2. ASSUME NEW f \in 0 .. m + 1
        PROVE  g[f] = IF f = 0 THEN none ELSE WriteInner(g[f - 1], fields[f], chunk)
    <3> HIDE DEF none
    <3>1. CASE f = m + 1
      <4>1. f # 0 /\ f - 1 = m /\ m \in 0 .. m + 1 /\ m # m + 1
        BY <3>1
      <4>2. g[f] = WriteInner(h[m], fields[m + 1], chunk) /\ g[m] = h[m]
        BY <3>1, <4>1
      <4> HIDE DEF g
      <4> QED BY <3>1, <4>1, <4>2
    <3>2. CASE f # m + 1
      <4>1. f \in 0 .. m /\ g[f] = h[f]
        BY <3>2
      <4>2. h[f] = IF f = 0 THEN none ELSE WriteInner(h[f - 1], fields[f], chunk)
        BY <2>1, <4>1
      <4>3. f # 0 => f - 1 \in 0 .. m + 1 /\ g[f - 1] = h[f - 1]
        BY <4>1
      <4> HIDE DEF g
      <4> QED BY <4>1, <4>2, <4>3
    <3> QED BY <3>1, <3>2
  <2> HIDE DEF none
  <2>3. g = [f \in 0 .. m + 1 |-> IF f = 0 THEN none ELSE WriteInner(g[f - 1], fields[f], chunk)]
    BY <2>2
  <2>4. Good(m + 1, g)
    BY <2>3
  <2> HIDE DEF Good
  <2> QED BY <2>4
<1>3. n \in S
  <2> HIDE DEF S
  <2> QED BY <1>0, <1>1, <1>2, NatSetInduction
<1> DEFINE F == CHOOSE h : Good(n, h)
<1>4. Good(n, F)
  BY <1>3
<1>5. WriteFields(fields, chunk) = F[n]
  BY DEF WriteFields
<1> HIDE DEF F
<1>6. F[0] = none /\ \A f \in 1 .. n : F[f] = WriteInner(F[f - 1], fields[f], chunk)
  <2> HIDE DEF none
  <2>1. 0 \in 0 .. n /\ \A f \in 1 .. n : f \in 0 .. n /\ f # 0
    BY <1>0
  <2> QED BY <1>4, <2>1
<1> DEFINE T == {f \in Nat : f <= n => F[f] \in Accs(A) /\ InnerHolds(F[f], FlattenSeq(SubSeq(fields, 1, f)))}
<1>7. 0 \in T
  <2>1. /\ none \in Accs(A) /\ none.frames = << >> /\ none.held = << >>
        /\ << >> \in Seq(A) /\ Len(<< >>) = 0
    BY DEF Accs
  <2>2. SubSeq(fields, 1, 0) = << >> /\ << >> \o << >> = << >>
    BY <2>1, SubSeqEmpty, ConcatEmptySeq
  <2> HIDE DEF none
  <2>3. InnerHolds(none, << >>)
    BY <2>1, <2>2, FlattenEmpty DEF InnerHolds, NoEmpty
  <2> QED BY <1>6, <2>1, <2>2, <2>3, FlattenEmpty
<1>8. ASSUME NEW f \in Nat, f \in T PROVE f + 1 \in T
  <2> SUFFICES ASSUME f + 1 <= n
               PROVE  F[f + 1] \in Accs(A) /\ InnerHolds(F[f + 1], FlattenSeq(SubSeq(fields, 1, f + 1)))
    OBVIOUS
  <2> DEFINE p == SubSeq(fields, 1, f)
  <2>1. f \in 0 .. n /\ f < n /\ f + 1 \in 1 .. n /\ f + 1 - 1 = f
    BY <1>0
  <2>2. F[f] \in Accs(A) /\ InnerHolds(F[f], FlattenSeq(p))
    BY <1>8, <2>1
  <2>3. p \in Seq(Seq(A)) /\ fields[f + 1] \in Seq(A) /\ SubSeq(fields, 1, f + 1) = Append(p, fields[f + 1])
    BY <2>1, PrefixIs, PrefixGrows, ElementOfSeq
  <2>4. FlattenSeq(SubSeq(fields, 1, f + 1)) = FlattenSeq(p) \o fields[f + 1] /\ FlattenSeq(p) \in Seq(A)
    BY <2>3, FlattenAppend, FlattenType
  <2>5. F[f + 1] = WriteInner(F[f], fields[f + 1], chunk)
    BY <1>6, <2>1
  <2> HIDE DEF p
  <2> QED BY <2>2, <2>3, <2>4, <2>5, WriteInnerKeeps
<1>9. F[n] \in Accs(A) /\ InnerHolds(F[n], FlattenSeq(fields))
  <2>1. n \in T
    <3> HIDE DEF T
    <3> QED BY <1>0, <1>7, <1>8, NatSetInduction
  <2>2. SubSeq(fields, 1, n) = fields
    BY SubSeqFull
  <2>3. n <= n => F[n] \in Accs(A) /\ InnerHolds(F[n], FlattenSeq(SubSeq(fields, 1, n)))
    BY <2>1
  <2>4. n <= n
    BY <1>0
  <2> HIDE DEF n
  <2> QED BY <2>2, <2>3, <2>4, Zenon
<1> DEFINE acc == F[n]
<1> HIDE DEF n
<1>10. Frames(fields, chunk) = acc.frames \o Chunks(acc.held, chunk)
  BY <1>5 DEF Frames
<1> HIDE DEF acc
<1>11. acc.frames \in Seq(Seq(A)) /\ acc.held \in Seq(A) /\ NoEmpty(acc.frames)
       /\ FlattenSeq(acc.frames) \o acc.held = FlattenSeq(fields)
  BY <1>9 DEF acc, Accs, InnerHolds
<1>12. /\ Chunks(acc.held, chunk) \in Seq(Seq(A)) /\ NoEmpty(Chunks(acc.held, chunk))
       /\ FlattenSeq(Chunks(acc.held, chunk)) = acc.held
  BY <1>11, ChunksJoin DEF NoEmpty
<1> DEFINE s == acc.frames
<1> DEFINE t == Chunks(acc.held, chunk)
<1>13. s \in Seq(Seq(A)) /\ t \in Seq(Seq(A)) /\ NoEmpty(s) /\ NoEmpty(t)
       /\ FlattenSeq(s) \o FlattenSeq(t) = FlattenSeq(fields) /\ Frames(fields, chunk) = s \o t
  BY <1>10, <1>11, <1>12
<1> HIDE DEF s, t
<1>14. s \o t \in Seq(Seq(A)) /\ NoEmpty(s \o t) /\ FlattenSeq(s \o t) = FlattenSeq(s) \o FlattenSeq(t)
  BY <1>13, MoreFrames
<1> QED BY <1>13, <1>14

------------------------------------------------------------------------------
(* The bytes of a packet. *)

SizesOf(shape) == shape.head \o shape.body
Heads(shape) == Len(shape.head)
SumOf(shape) == Sums(SizesOf(shape))
HeadBytes(shape) == SumOf(shape)[Heads(shape)]
AllBytes(shape) == SumOf(shape)[Len(SizesOf(shape))]

UpTo(n) == [i \in 1 .. n |-> i]

\* Every field has a size, the first is one byte, and the head is not empty.
LEMMA ShapeIs ==
  ASSUME NEW shape \in Shapes
  PROVE  /\ SizesOf(shape) \in Seq(Nat \ {0}) /\ shape.head \in Seq(Nat \ {0}) /\ shape.body \in Seq(Nat \ {0})
         /\ Heads(shape) \in Nat \ {0} /\ Len(SizesOf(shape)) \in Nat
         /\ Len(SizesOf(shape)) = Heads(shape) + Len(shape.body) /\ Len(shape.body) \in Nat
         /\ SizesOf(shape)[1] = 1
         /\ SumOf(shape)[0] = 0
         /\ \A f \in 0 .. Len(SizesOf(shape)) : SumOf(shape)[f] \in Nat
         /\ \A f \in 1 .. Len(SizesOf(shape)) :
              /\ SizesOf(shape)[f] \in Nat \ {0} /\ f - 1 \in 0 .. Len(SizesOf(shape)) /\ f \in Nat
              /\ Before(SizesOf(shape), f) = SumOf(shape)[f - 1]
              /\ SumOf(shape)[f] = SumOf(shape)[f - 1] + SizesOf(shape)[f]
<1> DEFINE h == shape.head
<1> DEFINE b == shape.body
<1> DEFINE s == SizesOf(shape)
<1>1. h \in Seq(Nat \ {0}) /\ b \in Seq(Nat \ {0}) /\ Len(h) > 0 /\ h[1] = 1
  BY ShapesBeginWithCode DEF ShapeAssumption
<1>2. Len(h) \in Nat /\ Len(b) \in Nat
  BY <1>1, LenProperties
<1> HIDE DEF h, b
<1>3. /\ h \o b \in Seq(Nat \ {0}) /\ Len(h \o b) = Len(h) + Len(b)
      /\ \A i \in 1 .. Len(h) + Len(b) : (h \o b)[i] = IF i <= Len(h) THEN h[i] ELSE b[i - Len(h)]
  BY <1>1, ConcatProperties
<1>4. s = h \o b
  BY DEF SizesOf, h, b
<1> HIDE DEF s
<1>5. s \in Seq(Nat \ {0}) /\ Len(s) = Len(h) + Len(b) /\ s[1] = 1
  BY <1>1, <1>2, <1>3, <1>4
<1>6. Len(s) \in Nat /\ \A f \in 1 .. Len(s) : s[f] \in Nat \ {0} /\ s[f] \in Nat
  BY <1>5, ElementOfSeq, LenProperties
<1>7. /\ Sums(s)[0] = 0
      /\ \A f \in 0 .. Len(s) : Sums(s)[f] \in Nat
      /\ \A f \in 1 .. Len(s) : Sums(s)[f] = Sums(s)[f - 1] + s[f]
  BY <1>6, SumsAre
<1>8. /\ Heads(shape) = Len(h) /\ SumOf(shape) = Sums(s)
      /\ \A f \in 1 .. Len(s) : Before(s, f) = Sums(s)[f - 1]
  BY DEF Heads, SumOf, s, h, Before
<1>9. \A f \in 1 .. Len(s) : f - 1 \in 0 .. Len(s) /\ f \in Nat
  BY <1>6
<1>10. Len(h) \in Nat \ {0}
  BY <1>1, <1>2
<1> QED BY <1>1, <1>2, <1>5, <1>6, <1>7, <1>8, <1>9, <1>10 DEF s, h, b

\* The sums grow.
LEMMA SumsGrow ==
  ASSUME NEW shape \in Shapes, NEW e \in 0 .. Len(SizesOf(shape)), NEW f \in e .. Len(SizesOf(shape))
  PROVE  SumOf(shape)[e] <= SumOf(shape)[f] /\ (e < f => SumOf(shape)[e] < SumOf(shape)[f])
<1> DEFINE n == Len(SizesOf(shape))
<1> DEFINE S == SumOf(shape)
<1> DEFINE T == {k \in Nat : e + k <= n => S[e] <= S[e + k] /\ (k > 0 => S[e] < S[e + k])}
<1>1. /\ n \in Nat /\ \A i \in 0 .. n : S[i] \in Nat
      /\ \A i \in 1 .. n : S[i] = S[i - 1] + SizesOf(shape)[i] /\ SizesOf(shape)[i] \in Nat \ {0}
  BY ShapeIs
<1>2. e \in 0 .. n /\ f \in e .. n
  OBVIOUS
<1> HIDE DEF n, S
<1>3. 0 \in T
  BY <1>1, <1>2
<1>4. ASSUME NEW k \in Nat, k \in T PROVE k + 1 \in T
  <2>1. e + (k + 1) <= n =>
          e + k \in 0 .. n /\ e + (k + 1) \in 1 .. n /\ e + (k + 1) - 1 = e + k /\ e + k <= n
    BY <1>1, <1>2
  <2>2. e + (k + 1) <= n => S[e + (k + 1)] = S[e + k] + SizesOf(shape)[e + (k + 1)]
    BY <1>1, <2>1
  <2> QED BY <1>1, <1>2, <1>4, <2>1, <2>2
<1>5. f - e \in T
  <2>1. f - e \in Nat
    BY <1>1, <1>2
  <2> HIDE DEF T
  <2> QED BY <1>3, <1>4, <2>1, NatSetInduction
<1>6. e + (f - e) = f /\ f <= n
  BY <1>1, <1>2
<1>7. S[e] <= S[f] /\ (e < f => S[e] < S[f])
  BY <1>1, <1>2, <1>5, <1>6
<1> QED BY <1>7 DEF S

\* The fields of a packet are its bytes in order.
LEMMA FieldsAre ==
  ASSUME NEW shape \in Shapes
  PROVE  /\ Fields(shape) \in Seq(Seq(Nat)) /\ Len(Fields(shape)) = Len(SizesOf(shape))
         /\ \A f \in 1 .. Len(SizesOf(shape)) :
              /\ Fields(shape)[f] \in Seq(Nat) /\ Len(Fields(shape)[f]) = SizesOf(shape)[f]
              /\ \A i \in 1 .. SizesOf(shape)[f] : Fields(shape)[f][i] = SumOf(shape)[f - 1] + i
         /\ \A f \in 0 .. Len(SizesOf(shape)) :
              FlattenSeq(SubSeq(Fields(shape), 1, f)) = UpTo(SumOf(shape)[f])
<1> DEFINE s == SizesOf(shape)
<1> DEFINE n == Len(s)
<1> DEFINE S == SumOf(shape)
<1> DEFINE F == Fields(shape)
<1>1. /\ n \in Nat /\ S[0] = 0 /\ \A f \in 0 .. n : S[f] \in Nat
      /\ \A f \in 1 .. n : s[f] \in Nat /\ f - 1 \in 0 .. n /\ Before(s, f) = S[f - 1] /\ S[f] = S[f - 1] + s[f]
  BY ShapeIs
<1>2. DOMAIN s = 1 .. n
  BY ShapeIs, LenProperties
<1>3. F = [f \in DOMAIN s |-> [i \in 1 .. s[f] |-> Before(s, f) + i]]
  BY DEF Fields, SizesOf
<1> HIDE DEF s, n, S, F
<1>4. ASSUME NEW f \in 1 .. n
      PROVE  /\ F[f] \in Seq(Nat) /\ Len(F[f]) = s[f]
             /\ \A i \in 1 .. s[f] : F[f][i] = S[f - 1] + i
  <2>1. F[f] = [i \in 1 .. s[f] |-> Before(s, f) + i] /\ s[f] \in Nat /\ Before(s, f) = S[f - 1] /\ S[f - 1] \in Nat
    BY <1>1, <1>2, <1>3
  <2>2. F[f] \in [1 .. s[f] -> Nat]
    BY <2>1
  <2>3. F[f] \in Seq(Nat) /\ Len(F[f]) = s[f]
    BY <2>1, <2>2, FunctionIsSeq
  <2> QED BY <2>1, <2>3
<1>5. F \in [1 .. n -> Seq(Nat)]
  <2>1. DOMAIN F = 1 .. n /\ F = [f \in 1 .. n |-> F[f]]
    BY <1>2, <1>3
  <2> QED BY <1>4, <2>1
<1>6. F \in Seq(Seq(Nat)) /\ Len(F) = n
  BY <1>1, <1>5, FunctionIsSeq
<1> DEFINE T == {f \in Nat : f <= n => FlattenSeq(SubSeq(F, 1, f)) = UpTo(S[f])}
<1>7. 0 \in T
  <2>1. SubSeq(F, 1, 0) = << >> /\ UpTo(0) = << >>
    BY SubSeqEmpty DEF UpTo
  <2> QED BY <1>1, <2>1, FlattenEmpty
<1>8. ASSUME NEW f \in Nat, f \in T PROVE f + 1 \in T
  <2> SUFFICES ASSUME NEW g \in 1 .. n, f = g - 1
               PROVE  FlattenSeq(SubSeq(F, 1, g)) = UpTo(S[g])
    <3>1. f + 1 <= n => f + 1 \in 1 .. n /\ f = f + 1 - 1
      OBVIOUS
    <3> QED BY <3>1
  <2>1. FlattenSeq(SubSeq(F, 1, g - 1)) = UpTo(S[g - 1])
    BY <1>1, <1>8
  <2>2. SubSeq(F, 1, g) = Append(SubSeq(F, 1, g - 1), F[g]) /\ SubSeq(F, 1, g - 1) \in Seq(Seq(Nat))
    <3> DEFINE m == g - 1
    <3>1. m \in 0 .. Len(F) /\ m < Len(F) /\ m + 1 = g
      BY <1>1, <1>6
    <3> HIDE DEF m
    <3>2. SubSeq(F, 1, m + 1) = Append(SubSeq(F, 1, m), F[m + 1]) /\ SubSeq(F, 1, m) \in Seq(Seq(Nat))
      BY <1>6, <3>1, PrefixGrows, PrefixIs
    <3> QED BY <3>1, <3>2 DEF m
  <2>3. F[g] \in Seq(Nat) /\ Len(F[g]) = s[g] /\ \A i \in 1 .. s[g] : F[g][i] = S[g - 1] + i
    BY <1>4
  <2>4. FlattenSeq(SubSeq(F, 1, g)) = UpTo(S[g - 1]) \o F[g]
    BY <2>1, <2>2, <2>3, FlattenAppend
  <2> DEFINE a == S[g - 1]
  <2> DEFINE b == S[g]
  <2>5. a \in Nat /\ b \in Nat /\ b = a + s[g] /\ s[g] \in Nat
    BY <1>1
  <2> HIDE DEF a, b
  <2>6. /\ UpTo(a) \in Seq(Nat) /\ Len(UpTo(a)) = a /\ UpTo(b) \in Seq(Nat) /\ Len(UpTo(b)) = b
        /\ (\A i \in 1 .. a : UpTo(a)[i] = i) /\ \A i \in 1 .. b : UpTo(b)[i] = i
    BY <2>5 DEF UpTo
  <2> DEFINE u == UpTo(a)
  <2> DEFINE v == UpTo(b)
  <2> DEFINE x == F[g]
  <2>7. u \in Seq(Nat) /\ v \in Seq(Nat) /\ x \in Seq(Nat) /\ Len(u) = a /\ Len(v) = b /\ Len(x) = s[g]
    BY <2>3, <2>6
  <2>8. (\A i \in 1 .. a : u[i] = i) /\ (\A i \in 1 .. b : v[i] = i) /\ \A i \in 1 .. s[g] : x[i] = a + i
    BY <2>3, <2>6 DEF a
  <2> HIDE DEF u, v, x
  <2>9. /\ u \o x \in Seq(Nat) /\ Len(u \o x) = Len(u) + Len(x)
        /\ \A i \in 1 .. Len(u) + Len(x) : (u \o x)[i] = IF i <= Len(u) THEN u[i] ELSE x[i - Len(u)]
    BY <2>7, ConcatProperties
  <2>10. ASSUME NEW i \in 1 .. b PROVE (u \o x)[i] = v[i]
    <3>1. (u \o x)[i] = IF i <= a THEN u[i] ELSE x[i - a]
      BY <2>5, <2>7, <2>9
    <3>2. IF i <= a THEN i \in 1 .. a ELSE i - a \in 1 .. s[g]
      BY <2>5
    <3>3. ~(i <= a) => x[i - a] = i
      BY <2>5, <2>8, <3>2
    <3> QED BY <2>8, <3>1, <3>2, <3>3
  <2>11. u \o x = v
    BY <2>5, <2>7, <2>9, <2>10, SeqEqual
  <2> QED BY <2>4, <2>11 DEF u, v, x, a, b
<1>9. \A f \in 0 .. n : FlattenSeq(SubSeq(F, 1, f)) = UpTo(S[f])
  <2>1. \A f \in Nat : f \in T
    <3> HIDE DEF T
    <3> QED BY <1>7, <1>8, NatSetInduction
  <2> QED BY <1>1, <2>1
<1> QED BY <1>4, <1>6, <1>9 DEF s, n, S, F

------------------------------------------------------------------------------
(* The calls that write a packet, and what they write. *)

Framed == {d \in Seq(Nat) : Packed(Len(d)) \in Nat}

FrameParts == [hash : Framed] \cup [header : Framed] \cup [packed : Framed]

Contents == [byte : Nat] \cup FrameParts

CallsOf(A) ==
  {c \in [op : {"write", "flush"}, data : Seq(A), flushed : BOOLEAN] : c.op = "flush" => c.data = << >>}

\* What some calls write.
Sent(calls) == FlattenSeq(Map(DataOf, calls))

\* A frame has its hash and its header in front of what was compressed.
LEMMA FrameIs ==
  ASSUME NEW d \in Framed
  PROVE  /\ FrameSize(d) \in Nat /\ FrameSize(d) >= 2
         /\ Frame(d) \in Seq(FrameParts) /\ Frame(d) \in Seq(Contents) /\ Len(Frame(d)) = FrameSize(d)
         /\ Frame(d)[1] = [hash |-> d] /\ Frame(d)[2] = [header |-> d]
         /\ \A n \in 3 .. FrameSize(d) : Frame(d)[n] = [packed |-> d]
<1>1. FrameSize(d) \in Nat /\ FrameSize(d) >= 2
  BY DEF FrameSize, Framed
<1>2. [hash |-> d] \in FrameParts /\ [header |-> d] \in FrameParts /\ [packed |-> d] \in FrameParts
  BY DEF FrameParts
<1> DEFINE N == FrameSize(d)
<1>3. Frame(d) = [n \in 1 .. N |->
        IF n = 1 THEN [hash |-> d] ELSE IF n = 2 THEN [header |-> d] ELSE [packed |-> d]]
  BY <1>1 DEF Frame
<1> HIDE DEF N
<1>4. Frame(d) \in [1 .. N -> FrameParts] /\ N \in Nat
  BY <1>1, <1>2, <1>3 DEF N
<1>5. Frame(d) \in Seq(FrameParts) /\ Len(Frame(d)) = N
  BY <1>4, FunctionIsSeq
<1>7. Frame(d) \in Seq(Contents)
  <2>1. FrameParts \subseteq Contents
    BY DEF Contents
  <2> QED BY <1>5, <2>1, SeqMonotonic
<1>6. 1 \in 1 .. N /\ 2 \in 1 .. N /\ \A n \in 3 .. N : n \in 1 .. N /\ n # 1 /\ n # 2
  BY <1>1 DEF N
<1> QED BY <1>1, <1>3, <1>5, <1>6, <1>7 DEF N

\* The length of a sequence is the last of its places.
LEMMA DomainIsLen ==
  ASSUME NEW A, NEW s \in Seq(A), NEW n \in Nat, DOMAIN s = 1 .. n
  PROVE  Len(s) = n
<1>1. DOMAIN s = 1 .. Len(s) /\ Len(s) \in Nat
  BY LenProperties
<1> QED BY <1>1

\* Bytes are written one for one.
LEMMA PlainIs ==
  ASSUME NEW x \in Seq(Nat)
  PROVE  Plain(x) \in Seq([byte : Nat]) /\ Len(Plain(x)) = Len(x)
<1>1. Len(x) \in Nat /\ DOMAIN x = 1 .. Len(x) /\ \A i \in 1 .. Len(x) : x[i] \in Nat
  BY ElementOfSeq, LenProperties
<1>2. Plain(x) \in [1 .. Len(x) -> [byte : Nat]]
  BY <1>1 DEF Plain
<1> QED BY <1>1, <1>2, FunctionIsSeq

\* The bytes of two pieces are the bytes of both.
LEMMA PlainJoins ==
  ASSUME NEW y \in Seq(Nat), NEW x \in Seq(Nat)
  PROVE  Plain(y \o x) = Plain(y) \o Plain(x)
<1>2. /\ y \o x \in Seq(Nat) /\ Len(y \o x) = Len(y) + Len(x) /\ Len(y) \in Nat /\ Len(x) \in Nat
      /\ \A i \in 1 .. Len(y) + Len(x) : (y \o x)[i] = IF i <= Len(y) THEN y[i] ELSE x[i - Len(y)]
  BY ConcatProperties, LenProperties
<1> DEFINE z == y \o x
<1> HIDE DEF z
<1>3. z \in Seq(Nat) /\ DOMAIN z = 1 .. Len(y) + Len(x) /\ DOMAIN y = 1 .. Len(y) /\ DOMAIN x = 1 .. Len(x)
  BY <1>2, LenProperties DEF z
<1> DEFINE B == [byte : Nat]
<1>4. /\ Plain(z) = [i \in 1 .. Len(y) + Len(x) |-> [byte |-> z[i]]]
      /\ Plain(y) = [i \in 1 .. Len(y) |-> [byte |-> y[i]]]
      /\ Plain(x) = [i \in 1 .. Len(x) |-> [byte |-> x[i]]]
  BY <1>3 DEF Plain
<1>6. /\ \A i \in 1 .. Len(y) + Len(x) : Plain(z)[i] = [byte |-> z[i]]
      /\ \A i \in 1 .. Len(y) : Plain(y)[i] = [byte |-> y[i]]
      /\ \A i \in 1 .. Len(x) : Plain(x)[i] = [byte |-> x[i]]
  BY <1>4
<1> DEFINE pz == Plain(z)
<1> DEFINE py == Plain(y)
<1> DEFINE px == Plain(x)
<1>7. /\ pz \in Seq(B) /\ py \in Seq(B) /\ px \in Seq(B)
      /\ Len(pz) = Len(y) + Len(x) /\ Len(py) = Len(y) /\ Len(px) = Len(x)
  BY <1>2, <1>3, PlainIs
<1> HIDE DEF pz, py, px, B
<1>8. /\ py \o px \in Seq(B) /\ Len(py \o px) = Len(py) + Len(px)
      /\ \A i \in 1 .. Len(py) + Len(px) : (py \o px)[i] = IF i <= Len(py) THEN py[i] ELSE px[i - Len(py)]
  <2>1. py \in Seq(B) /\ px \in Seq(B)
    BY <1>7
  <2> QED BY <2>1, ConcatProperties
<1>9. ASSUME NEW i \in 1 .. Len(y) + Len(x) PROVE pz[i] = (py \o px)[i]
  <2>1. pz[i] = [byte |-> z[i]] /\ z[i] = IF i <= Len(y) THEN y[i] ELSE x[i - Len(y)]
    BY <1>2, <1>6 DEF pz, z
  <2>2. (py \o px)[i] = IF i <= Len(y) THEN py[i] ELSE px[i - Len(y)]
    BY <1>7, <1>8
  <2>3. IF i <= Len(y) THEN i \in 1 .. Len(y) ELSE i - Len(y) \in 1 .. Len(x)
    BY <1>2
  <2> QED BY <1>6, <2>1, <2>2, <2>3 DEF py, px
<1>10. pz = py \o px
  BY <1>2, <1>7, <1>8, <1>9, SeqEqual
<1> QED BY <1>10 DEF pz, py, px, z

\* The data of calls, one for one.
LEMMA DataAre ==
  ASSUME NEW A, NEW calls \in Seq(CallsOf(A))
  PROVE  /\ Map(DataOf, calls) \in Seq(Seq(A)) /\ Len(Map(DataOf, calls)) = Len(calls)
         /\ \A i \in 1 .. Len(calls) : Map(DataOf, calls)[i] = calls[i].data
<1>1. /\ Len(calls) \in Nat /\ DOMAIN calls = 1 .. Len(calls)
      /\ \A i \in 1 .. Len(calls) : calls[i] \in CallsOf(A)
  BY ElementOfSeq, LenProperties
<1>2. \A i \in 1 .. Len(calls) : calls[i].data \in Seq(A)
  BY <1>1 DEF CallsOf
<1> DEFINE f == Map(DataOf, calls)
<1>3. f = [i \in 1 .. Len(calls) |-> calls[i].data]
  BY <1>1 DEF Map, DataOf
<1> HIDE DEF f
<1>4. f \in [1 .. Len(calls) -> Seq(A)]
  BY <1>2, <1>3
<1>5. f \in Seq(Seq(A)) /\ Len(f) = Len(calls)
  BY <1>1, <1>4, FunctionIsSeq
<1>6. \A i \in 1 .. Len(calls) : f[i] = calls[i].data
  BY <1>3
<1> QED BY <1>5, <1>6 DEF f

\* What calls write is behind what the calls before them wrote.
LEMMA SentJoins ==
  ASSUME NEW A, NEW a \in Seq(CallsOf(A)), NEW b \in Seq(CallsOf(A))
  PROVE  Sent(a) \in Seq(A) /\ Sent(b) \in Seq(A) /\ Sent(a \o b) = Sent(a) \o Sent(b)
<1> DEFINE f == Map(DataOf, a)
<1> DEFINE g == Map(DataOf, b)
<1> DEFINE h == Map(DataOf, a \o b)
<1> DEFINE C == CallsOf(A)
<1>1. /\ a \o b \in Seq(C) /\ Len(a \o b) = Len(a) + Len(b)
      /\ \A i \in 1 .. Len(a) + Len(b) : (a \o b)[i] = IF i <= Len(a) THEN a[i] ELSE b[i - Len(a)]
  <2> HIDE DEF C
  <2>1. a \in Seq(C) /\ b \in Seq(C)
    BY DEF C
  <2> QED BY <2>1, ConcatProperties
<1>2. Len(a) \in Nat /\ Len(b) \in Nat
  BY LenProperties
<1>3. f \in Seq(Seq(A)) /\ Len(f) = Len(a) /\ \A i \in 1 .. Len(a) : f[i] = a[i].data
  BY DataAre
<1>4. g \in Seq(Seq(A)) /\ Len(g) = Len(b) /\ \A i \in 1 .. Len(b) : g[i] = b[i].data
  BY DataAre
<1>5. h \in Seq(Seq(A)) /\ Len(h) = Len(a \o b) /\ \A i \in 1 .. Len(a \o b) : h[i] = (a \o b)[i].data
  <2> DEFINE c == a \o b
  <2>1. c \in Seq(CallsOf(A))
    BY <1>1
  <2> HIDE DEF c
  <2>2. /\ Map(DataOf, c) \in Seq(Seq(A)) /\ Len(Map(DataOf, c)) = Len(c)
        /\ \A i \in 1 .. Len(c) : Map(DataOf, c)[i] = c[i].data
    BY <2>1, DataAre
  <2> QED BY <2>2 DEF c
<1> HIDE DEF f, g, h
<1> DEFINE B == Seq(A)
<1>6. f \in Seq(B) /\ g \in Seq(B) /\ h \in Seq(B)
  BY <1>3, <1>4, <1>5
<1> HIDE DEF B
<1>7. /\ f \o g \in Seq(B) /\ Len(f \o g) = Len(f) + Len(g)
      /\ \A i \in 1 .. Len(f) + Len(g) : (f \o g)[i] = IF i <= Len(f) THEN f[i] ELSE g[i - Len(f)]
  BY <1>6, ConcatProperties
<1>8. Len(h) = Len(a) + Len(b) /\ Len(f \o g) = Len(a) + Len(b)
  BY <1>1, <1>3, <1>4, <1>5, <1>7
<1>9. ASSUME NEW i \in 1 .. Len(h) PROVE h[i] = (f \o g)[i]
  <2>1. h[i] = IF i <= Len(a) THEN a[i].data ELSE b[i - Len(a)].data
    BY <1>1, <1>2, <1>5, <1>8
  <2>2. (f \o g)[i] = IF i <= Len(a) THEN f[i] ELSE g[i - Len(a)]
    BY <1>3, <1>4, <1>7, <1>8
  <2>3. IF i <= Len(a) THEN i \in 1 .. Len(a) ELSE i - Len(a) \in 1 .. Len(b)
    BY <1>2, <1>8
  <2> QED BY <1>3, <1>4, <2>1, <2>2, <2>3
<1>10. h = f \o g
  BY <1>6, <1>7, <1>8, <1>9, SeqEqual
<1>11. FlattenSeq(f \o g) = FlattenSeq(f) \o FlattenSeq(g) /\ FlattenSeq(f) \in Seq(A) /\ FlattenSeq(g) \in Seq(A)
  BY <1>3, <1>4, FlattenConcat, FlattenType
<1> QED BY <1>10, <1>11 DEF Sent, f, g, h

\* Calls without data write nothing, and one call writes its data.
LEMMA SentOne ==
  ASSUME NEW A, NEW call \in CallsOf(A)
  PROVE  Sent(<< >>) = << >> /\ Sent(<<call>>) = call.data /\ <<call>> \in Seq(CallsOf(A))
<1>1. <<call>> \in Seq(CallsOf(A)) /\ Len(<<call>>) = 1 /\ <<call>>[1] = call /\ << >> \in Seq(CallsOf(A))
  OBVIOUS
<1>2. call.data \in Seq(A)
  BY DEF CallsOf
<1> DEFINE f == Map(DataOf, <<call>>)
<1> DEFINE d == call.data
<1>3. f \in Seq(Seq(A)) /\ Len(f) = 1 /\ f[1] = d
  <2> DEFINE c == <<call>>
  <2>1. c \in Seq(CallsOf(A)) /\ Len(c) = 1 /\ c[1] = call
    BY <1>1
  <2> HIDE DEF c
  <2>2. /\ Map(DataOf, c) \in Seq(Seq(A)) /\ Len(Map(DataOf, c)) = Len(c)
        /\ \A i \in 1 .. Len(c) : Map(DataOf, c)[i] = c[i].data
    BY <2>1, DataAre
  <2>3. 1 \in 1 .. Len(c)
    BY <2>1
  <2>4. Map(DataOf, c) \in Seq(Seq(A)) /\ Len(Map(DataOf, c)) = 1 /\ Map(DataOf, c)[1] = call.data
    BY <2>1, <2>2, <2>3
  <2> QED BY <2>4 DEF c
<1>4. d \in Seq(A)
  BY <1>2
<1> HIDE DEF f, d
<1>5. f = Append(<< >>, d) /\ << >> \in Seq(Seq(A))
  BY <1>3, <1>4
<1>6. FlattenSeq(f) = FlattenSeq(<< >>) \o d
  BY <1>4, <1>5, FlattenAppend
<1>7. << >> \o d = d
  BY <1>4, ConcatEmptySeq
<1>8. Sent(<< >>) = << >>
  <2>1. Map(DataOf, << >>) = << >>
    BY DEF Map
  <2> QED BY <2>1, FlattenEmpty DEF Sent
<1> QED BY <1>1, <1>6, <1>7, <1>8, FlattenEmpty DEF Sent, f, d

\* Flushes write nothing.
LEMMA FlushIs ==
  ASSUME NEW A
  PROVE  Flush \in CallsOf(A) /\ <<Flush>> \in Seq(CallsOf(A)) /\ Sent(<<Flush>>) = << >>
<1>1. Flush \in CallsOf(A) /\ Flush.data = << >>
  BY DEF Flush, CallsOf
<1> HIDE DEF Flush
<1> QED BY <1>1, SentOne

\* Fields are written as their bytes.
LEMMA SentPlain ==
  ASSUME NEW fields \in Seq(Seq(Nat))
  PROVE  /\ Map(WritePlain, fields) \in Seq(CallsOf(Contents))
         /\ Sent(Map(WritePlain, fields)) = Plain(FlattenSeq(fields))
<1> DEFINE W(s) == Map(WritePlain, s)
<1> DEFINE T == {s \in Seq(Seq(Nat)) : W(s) \in Seq(CallsOf(Contents)) /\ Sent(W(s)) = Plain(FlattenSeq(s))}
<1>1. << >> \in T
  <2>1. W(<< >>) = << >> /\ Plain(<< >>) = << >> /\ << >> \in Seq(Seq(Nat)) /\ << >> \in Seq(CallsOf(Contents))
    BY DEF Map, Plain
  <2>2. Sent(<< >>) = << >>
    BY FlushIs, SentOne
  <2> QED BY <2>1, <2>2, FlattenEmpty
<1>2. ASSUME NEW s \in Seq(Seq(Nat)), NEW x \in Seq(Nat), s \in T PROVE Append(s, x) \in T
  <2> DEFINE t == Append(s, x)
  <2> DEFINE c == WritePlain(x)
  <2>1. /\ t \in Seq(Seq(Nat)) /\ Len(t) = Len(s) + 1 /\ Len(s) \in Nat /\ DOMAIN t = 1 .. Len(s) + 1
        /\ DOMAIN s = 1 .. Len(s) /\ (\A i \in 1 .. Len(s) : t[i] = s[i]) /\ t[Len(s) + 1] = x
    BY AppendProperties, LenProperties
  <2>2. W(s) \in Seq(CallsOf(Contents)) /\ Sent(W(s)) = Plain(FlattenSeq(s))
    BY <1>2
  <2>3. Plain(x) \in Seq(Contents) /\ Len(Plain(x)) = Len(x)
    BY PlainIs, SeqMonotonic DEF Contents
  <2>4. c \in CallsOf(Contents) /\ c.data = Plain(x)
    BY <2>3 DEF WritePlain, Write, CallsOf
  <2>5. W(t) = Append(W(s), c)
    <3> HIDE DEF t, c
    <3>1. W(t) = [i \in 1 .. Len(s) + 1 |-> WritePlain(t[i])] /\ W(s) = [i \in 1 .. Len(s) |-> WritePlain(s[i])]
      BY <2>1 DEF Map
    <3> DEFINE u == W(s)
    <3> DEFINE v == W(t)
    <3>2. u \in Seq(CallsOf(Contents)) /\ Len(u) = Len(s)
      <4>1. DOMAIN u = 1 .. Len(s) /\ u \in Seq(CallsOf(Contents)) /\ Len(s) \in Nat
        BY <2>1, <2>2, <3>1
      <4> HIDE DEF u, W
      <4> QED BY <4>1, DomainIsLen
    <3>3. (\A i \in 1 .. Len(s) : v[i] = u[i]) /\ v[Len(s) + 1] = c
      BY <2>1, <3>1 DEF c
    <3>4. \A i \in 1 .. Len(s) + 1 : v[i] \in CallsOf(Contents)
      <4>1. \A i \in 1 .. Len(s) : u[i] \in CallsOf(Contents)
        <5> HIDE DEF u, W
        <5> QED BY <3>2, ElementOfSeq
      <4>2. \A i \in 1 .. Len(s) + 1 : i \in 1 .. Len(s) \/ i = Len(s) + 1
        BY <2>1
      <4> HIDE DEF u, v, W
      <4> QED BY <2>4, <3>3, <4>1, <4>2 DEF c
    <3>5. v \in [1 .. Len(s) + 1 -> CallsOf(Contents)]
      BY <3>1, <3>4
    <3> HIDE DEF u, v, W
    <3>6. v \in Seq(CallsOf(Contents)) /\ Len(v) = Len(s) + 1
      <4> DEFINE n == Len(s) + 1
      <4>1. n \in Nat /\ v \in [1 .. n -> CallsOf(Contents)]
        BY <2>1, <3>5
      <4> HIDE DEF n
      <4>2. v \in Seq(CallsOf(Contents)) /\ Len(v) = n
        BY <4>1, FunctionIsSeq
      <4> QED BY <4>2 DEF n
    <3>7. /\ Append(u, c) \in Seq(CallsOf(Contents)) /\ Len(Append(u, c)) = Len(u) + 1
          /\ (\A i \in 1 .. Len(u) : Append(u, c)[i] = u[i]) /\ Append(u, c)[Len(u) + 1] = c
      BY <2>4, <3>2, AppendProperties
    <3>8. ASSUME NEW i \in 1 .. Len(v) PROVE v[i] = Append(u, c)[i]
      BY <2>1, <3>2, <3>3, <3>6, <3>7
    <3>9. v = Append(u, c)
      BY <3>2, <3>6, <3>7, <3>8, SeqEqual
    <3> QED BY <3>9 DEF u, v
  <2>6. Append(W(s), c) = W(s) \o <<c>>
    <3> DEFINE C == CallsOf(Contents)
    <3> DEFINE u == W(s)
    <3>1. u \in Seq(C) /\ c \in C
      BY <2>2, <2>4
    <3> HIDE DEF C, c, u
    <3>2. Append(u, c) = u \o <<c>>
      BY <3>1
    <3> QED BY <3>2 DEF u
  <2> DEFINE u == W(s)
  <2>7. u \in Seq(CallsOf(Contents)) /\ Sent(u) = Plain(FlattenSeq(s)) /\ W(t) = u \o <<c>>
    BY <2>2, <2>5, <2>6
  <2> HIDE DEF u, c, W
  <2>8. <<c>> \in Seq(CallsOf(Contents)) /\ Sent(<<c>>) = Plain(x)
    BY <2>4, SentOne
  <2>9. Sent(u \o <<c>>) = Plain(FlattenSeq(s)) \o Plain(x) /\ u \o <<c>> \in Seq(CallsOf(Contents))
    BY <2>7, <2>8, SentJoins, ConcatProperties
  <2>10. FlattenSeq(t) = FlattenSeq(s) \o x /\ FlattenSeq(s) \in Seq(Nat)
    BY FlattenAppend, FlattenType
  <2>11. Plain(FlattenSeq(s) \o x) = Plain(FlattenSeq(s)) \o Plain(x)
    BY <2>10, PlainJoins
  <2>12. Sent(W(t)) = Plain(FlattenSeq(t)) /\ W(t) \in Seq(CallsOf(Contents))
    BY <2>7, <2>9, <2>10, <2>11
  <2> QED BY <2>1, <2>12
<1>3. fields \in T
  <2> HIDE DEF T
  <2> QED BY <1>1, <1>2, SeqSetInduction
<1> QED BY <1>3

\* A function with one more value is a longer sequence.
LEMMA LongerIs ==
  ASSUME NEW B, NEW g \in Seq(B), NEW c \in B, NEW f \in [1 .. Len(g) + 1 -> B],
         \A i \in 1 .. Len(g) : f[i] = g[i], f[Len(g) + 1] = c
  PROVE  f = Append(g, c) /\ f \in Seq(B)
<1> DEFINE h == Append(g, c)
<1> DEFINE n == Len(g)
<1>1. n \in Nat /\ h \in Seq(B) /\ Len(h) = n + 1 /\ (\A i \in 1 .. n : h[i] = g[i]) /\ h[n + 1] = c
  BY AppendProperties, LenProperties
<1>2. f \in [1 .. n + 1 -> B] /\ (\A i \in 1 .. n : f[i] = g[i]) /\ f[n + 1] = c
  OBVIOUS
<1> HIDE DEF h, n
<1>3. f \in Seq(B) /\ Len(f) = n + 1
  <2> DEFINE m == n + 1
  <2>1. m \in Nat /\ f \in [1 .. m -> B]
    BY <1>1, <1>2
  <2> HIDE DEF m
  <2>2. f \in Seq(B) /\ Len(f) = m
    BY <2>1, FunctionIsSeq
  <2> QED BY <2>2 DEF m
<1>4. \A i \in 1 .. n + 1 : i \in 1 .. n \/ i = n + 1
  BY <1>1
<1>5. \A i \in 1 .. Len(f) : f[i] = h[i]
  BY <1>1, <1>2, <1>3, <1>4
<1>6. f = h
  BY <1>1, <1>3, <1>5, SeqEqual
<1> QED BY <1>1, <1>6 DEF h

\* A frame is written in two calls and a flush.
LEMMA SentFrame ==
  ASSUME NEW d \in Framed
  PROVE  WriteFrame(d) \in Seq(CallsOf(Contents)) /\ Sent(WriteFrame(d)) = Frame(d)
<1> DEFINE F == Frame(d)
<1> DEFINE n == FrameSize(d)
<1>1. F \in Seq(Contents) /\ Len(F) = n /\ n \in Nat /\ n >= 2
  BY FrameIs
<1> DEFINE x == SubSeq(F, 1, 1)
<1> DEFINE y == SubSeq(F, 2, n)
<1> HIDE DEF F, n
<1>2. x \in Seq(Contents) /\ y \in Seq(Contents) /\ x \o y = F
  <2>1. /\ 1 \in 0 .. Len(F) /\ Len(F) \in 1 .. Len(F)
        /\ 1 + 1 = 2
    BY <1>1
  <2>2. /\ SubSeq(F, 1 + 1, Len(F)) \in Seq(Contents)
        /\ SubSeq(F, 1, 1) \o SubSeq(F, 1 + 1, Len(F)) = SubSeq(F, 1, Len(F))
    BY <1>1, <2>1, PiecesJoin
  <2>3. SubSeq(F, 1, Len(F)) = F /\ SubSeq(F, 1, 1) \in Seq(Contents)
    BY <1>1, <2>1, PrefixIs
  <2> QED BY <1>1, <2>1, <2>2, <2>3
<1> DEFINE a == Write(x)
<1> DEFINE b == Write(y)
<1>3. a \in CallsOf(Contents) /\ b \in CallsOf(Contents) /\ a.data = x /\ b.data = y
  BY <1>2 DEF Write, CallsOf
<1>4. WriteFrame(d) = <<a, b, Flush>>
  BY DEF WriteFrame, F, n
<1> HIDE DEF x, y, a, b
<1> DEFINE C == CallsOf(Contents)
<1> DEFINE c == Flush
<1>5. a \in C /\ b \in C /\ c \in C
  BY <1>3, FlushIs
<1> HIDE DEF C, c
<1>6. <<a, b, c>> = (<<a>> \o <<b>>) \o <<c>>
  BY <1>5
<1> DEFINE aa == <<a>>
<1> DEFINE bb == <<b>>
<1> DEFINE cc == <<c>>
<1>7. /\ aa \in Seq(CallsOf(Contents)) /\ bb \in Seq(CallsOf(Contents)) /\ cc \in Seq(CallsOf(Contents))
      /\ Sent(aa) = x /\ Sent(bb) = y /\ Sent(cc) = << >>
  BY <1>3, SentOne, FlushIs DEF c
<1> HIDE DEF aa, bb, cc
<1>8. Sent(aa \o bb) = x \o y /\ aa \o bb \in Seq(CallsOf(Contents))
  BY <1>7, SentJoins, ConcatProperties
<1>9. Sent((aa \o bb) \o cc) = (x \o y) \o << >> /\ (aa \o bb) \o cc \in Seq(CallsOf(Contents))
  <2> DEFINE ab == aa \o bb
  <2>1. ab \in Seq(CallsOf(Contents)) /\ Sent(ab) = x \o y
    BY <1>8
  <2> HIDE DEF ab
  <2>2. Sent(ab \o cc) = (x \o y) \o << >>
    <3> DEFINE xy == x \o y
    <3>1. Sent(ab) = xy
      BY <2>1
    <3> HIDE DEF xy
    <3>2. Sent(ab \o cc) = xy \o << >>
      BY <1>7, <2>1, <3>1, SentJoins
    <3> QED BY <3>2 DEF xy
  <2>3. ab \o cc \in Seq(CallsOf(Contents))
    <3> DEFINE K == CallsOf(Contents)
    <3>1. ab \in Seq(K) /\ cc \in Seq(K)
      BY <1>7, <2>1
    <3> HIDE DEF K
    <3>2. ab \o cc \in Seq(K)
      BY <3>1, ConcatProperties
    <3> QED BY <3>2 DEF K
  <2> QED BY <2>2, <2>3 DEF ab
<1>10. (x \o y) \o << >> = F
  BY <1>1, <1>2, ConcatEmptySeq
<1>11. WriteFrame(d) = (aa \o bb) \o cc
  BY <1>4, <1>6 DEF aa, bb, cc, c
<1> QED BY <1>9, <1>10, <1>11 DEF F

\* Frames are written one behind the other.
LEMMA SentFrames ==
  ASSUME NEW fs \in Seq(Framed)
  PROVE  /\ FlattenSeq(Map(WriteFrame, fs)) \in Seq(CallsOf(Contents))
         /\ Map(Frame, fs) \in Seq(Seq(FrameParts)) /\ Len(Map(Frame, fs)) = Len(fs)
         /\ Sent(FlattenSeq(Map(WriteFrame, fs))) = FlattenSeq(Map(Frame, fs))
<1> DEFINE W(s) == Map(WriteFrame, s)
<1> DEFINE G(s) == Map(Frame, s)
<1> DEFINE C == Seq(CallsOf(Contents))
<1> DEFINE T == {s \in Seq(Framed) : /\ W(s) \in Seq(C) /\ G(s) \in Seq(Seq(FrameParts))
                                     /\ Sent(FlattenSeq(W(s))) = FlattenSeq(G(s))}
<1>1. << >> \in T
  <2>1. W(<< >>) = << >> /\ G(<< >>) = << >> /\ << >> \in Seq(Framed) /\ << >> \in Seq(C)
        /\ << >> \in Seq(Seq(FrameParts))
    BY DEF Map
  <2>2. Sent(<< >>) = << >>
    BY FlushIs, SentOne
  <2> QED BY <2>1, <2>2, FlattenEmpty
<1>2. ASSUME NEW s \in Seq(Framed), NEW x \in Framed, s \in T PROVE Append(s, x) \in T
  <2> DEFINE t == Append(s, x)
  <2> DEFINE n == Len(s)
  <2>1. /\ t \in Seq(Framed) /\ n \in Nat /\ DOMAIN t = 1 .. n + 1
        /\ DOMAIN s = 1 .. n /\ (\A i \in 1 .. n : t[i] = s[i]) /\ t[n + 1] = x
    BY AppendProperties, LenProperties
  <2>2. W(s) \in Seq(C) /\ G(s) \in Seq(Seq(FrameParts)) /\ Sent(FlattenSeq(W(s))) = FlattenSeq(G(s))
    BY <1>2
  <2>3. WriteFrame(x) \in Seq(CallsOf(Contents)) /\ Sent(WriteFrame(x)) = Frame(x) /\ Frame(x) \in Seq(FrameParts)
    BY SentFrame, FrameIs
  <2> HIDE DEF t, n
  <2>4. /\ W(t) = [i \in 1 .. n + 1 |-> WriteFrame(t[i])] /\ W(s) = [i \in 1 .. n |-> WriteFrame(s[i])]
        /\ G(t) = [i \in 1 .. n + 1 |-> Frame(t[i])] /\ G(s) = [i \in 1 .. n |-> Frame(s[i])]
    BY <2>1 DEF Map
  <2> DEFINE wt == W(t)
  <2> DEFINE ws == W(s)
  <2> DEFINE gt == G(t)
  <2> DEFINE gs == G(s)
  <2>5. /\ DOMAIN ws = 1 .. n /\ wt = [i \in 1 .. n + 1 |-> wt[i]]
        /\ (\A i \in 1 .. n : wt[i] = ws[i]) /\ wt[n + 1] = WriteFrame(x)
    BY <2>1, <2>4
  <2>6. /\ DOMAIN gs = 1 .. n /\ gt = [i \in 1 .. n + 1 |-> gt[i]]
        /\ (\A i \in 1 .. n : gt[i] = gs[i]) /\ gt[n + 1] = Frame(x)
    BY <2>1, <2>4
  <2>7. ws \in Seq(C) /\ gs \in Seq(Seq(FrameParts)) /\ Sent(FlattenSeq(ws)) = FlattenSeq(gs)
    BY <2>2
  <2> DEFINE D == Seq(FrameParts)
  <2>8. gs \in Seq(D) /\ Frame(x) \in D
    BY <2>3, <2>7
  <2> HIDE DEF ws, wt, gs, gt, C, W, G, D
  <2> DEFINE wx == WriteFrame(x)
  <2> DEFINE gx == Frame(x)
  <2>20. wx \in C /\ wt[n + 1] = wx /\ gx \in D /\ gt[n + 1] = gx /\ n \in Nat
    BY <2>1, <2>3, <2>5, <2>6, <2>8 DEF C
  <2> HIDE DEF wx, gx
  <2>21. (\A i \in 1 .. n : ws[i] \in C) /\ \A i \in 1 .. n : gs[i] \in D
    BY <2>5, <2>6, <2>7, <2>8, ElementOfSeq, LenProperties
  <2>22. \A i \in 1 .. n + 1 : i \in 1 .. n \/ i = n + 1
    BY <2>20
  <2>23. wt \in [1 .. n + 1 -> C] /\ gt \in [1 .. n + 1 -> D]
    BY <2>5, <2>6, <2>20, <2>21, <2>22
  <2>24. Len(ws) = n /\ Len(gs) = n
    BY <2>5, <2>6, <2>7, <2>8, <2>20, DomainIsLen
  <2>25. /\ wt \in [1 .. Len(ws) + 1 -> C] /\ (\A i \in 1 .. Len(ws) : wt[i] = ws[i]) /\ wt[Len(ws) + 1] = wx
         /\ gt \in [1 .. Len(gs) + 1 -> D] /\ (\A i \in 1 .. Len(gs) : gt[i] = gs[i]) /\ gt[Len(gs) + 1] = gx
    BY <2>5, <2>6, <2>20, <2>23, <2>24
  <2>9. wt = Append(ws, wx) /\ wt \in Seq(C)
    BY <2>7, <2>20, <2>25, LongerIs
  <2>10. gt = Append(gs, gx) /\ gt \in Seq(D)
    BY <2>8, <2>20, <2>25, LongerIs
  <2>11. FlattenSeq(wt) = FlattenSeq(ws) \o WriteFrame(x) /\ FlattenSeq(ws) \in Seq(CallsOf(Contents))
    <3>1. ws \in Seq(Seq(CallsOf(Contents))) /\ WriteFrame(x) \in Seq(CallsOf(Contents))
      BY <2>3, <2>7 DEF C
    <3> QED BY <2>9, <3>1, FlattenAppend, FlattenType DEF wx
  <2>12. FlattenSeq(gt) = FlattenSeq(gs) \o Frame(x)
    BY <2>3, <2>7, <2>10, FlattenAppend DEF gx
  <2>13. Sent(FlattenSeq(wt)) = FlattenSeq(gt)
    <3> DEFINE u == FlattenSeq(ws)
    <3> DEFINE v == WriteFrame(x)
    <3>1. u \in Seq(CallsOf(Contents)) /\ v \in Seq(CallsOf(Contents)) /\ Sent(u) = FlattenSeq(gs) /\ Sent(v) = Frame(x)
      BY <2>3, <2>7, <2>11 DEF C
    <3>2. FlattenSeq(wt) = u \o v
      BY <2>11
    <3> HIDE DEF u, v
    <3>3. Sent(u \o v) = FlattenSeq(gs) \o Frame(x)
      BY <3>1, SentJoins
    <3> QED BY <2>12, <3>2, <3>3
  <2> QED BY <2>1, <2>9, <2>10, <2>13 DEF wt, gt, t, D
<1>3. fs \in T
  <2> HIDE DEF T
  <2> QED BY <1>1, <1>2, SeqSetInduction
<1>4. FlattenSeq(W(fs)) \in Seq(CallsOf(Contents))
  BY <1>3, FlattenType
<1>5. Len(G(fs)) = Len(fs)
  <2>1. DOMAIN fs = 1 .. Len(fs) /\ Len(fs) \in Nat
    BY LenProperties
  <2>2. DOMAIN G(fs) = 1 .. Len(fs)
    BY <2>1 DEF Map
  <2> DEFINE g == G(fs)
  <2>3. g \in Seq(Seq(FrameParts)) /\ DOMAIN g = 1 .. Len(fs)
    BY <1>3, <2>2
  <2> HIDE DEF g
  <2>4. Len(g) = Len(fs)
    BY <2>1, <2>3, DomainIsLen
  <2> QED BY <2>4 DEF g
<1> QED BY <1>3, <1>4, <1>5

------------------------------------------------------------------------------
(* What a packet is encoded to: bytes as they are, then frames. *)

PlainTo(shape, m) == IF m.on THEN HeadBytes(shape) ELSE AllBytes(shape)

BodyFields(shape) == SubSeq(Fields(shape), Heads(shape) + 1, Len(Fields(shape)))

Blocks(shape, m) == IF m.on /\ BodyFields(shape) # << >> THEN Frames(BodyFields(shape), m.chunk) ELSE << >>

\* The head is the first bytes of a packet, the body the others.
LEMMA HeadAndBody ==
  ASSUME NEW shape \in Shapes
  PROVE  /\ HeadBytes(shape) \in Nat \ {0} /\ AllBytes(shape) \in Nat /\ HeadBytes(shape) <= AllBytes(shape)
         /\ SubSeq(Fields(shape), 1, Heads(shape)) \in Seq(Seq(Nat)) /\ BodyFields(shape) \in Seq(Seq(Nat))
         /\ SubSeq(Fields(shape), Heads(shape) + 1, Len(Fields(shape))) = BodyFields(shape)
         /\ FlattenSeq(SubSeq(Fields(shape), 1, Heads(shape))) = UpTo(HeadBytes(shape))
         /\ FlattenSeq(BodyFields(shape)) =
              [i \in 1 .. AllBytes(shape) - HeadBytes(shape) |-> HeadBytes(shape) + i]
         /\ UpTo(HeadBytes(shape)) \o FlattenSeq(BodyFields(shape)) = UpTo(AllBytes(shape))
         /\ BodyFields(shape) = << >> =>
              HeadBytes(shape) = AllBytes(shape) /\ Heads(shape) = Len(SizesOf(shape))
<1> DEFINE F == Fields(shape)
<1> DEFINE h == Heads(shape)
<1> DEFINE n == Len(SizesOf(shape))
<1> DEFINE S == SumOf(shape)
<1> DEFINE p == S[h]
<1> DEFINE t == S[n]
<1> DEFINE A == SubSeq(F, 1, h)
<1> DEFINE B == SubSeq(F, h + 1, Len(F))
<1>1. /\ h \in Nat \ {0} /\ n \in Nat /\ n = h + Len(shape.body) /\ Len(shape.body) \in Nat
      /\ shape.body \in Seq(Nat \ {0})
      /\ S[0] = 0 /\ \A f \in 0 .. n : S[f] \in Nat
  BY ShapeIs
<1>2. F \in Seq(Seq(Nat)) /\ Len(F) = n /\ \A f \in 0 .. n : FlattenSeq(SubSeq(F, 1, f)) = UpTo(S[f])
  BY FieldsAre
<1>3. p \in Nat /\ t \in Nat /\ p <= t /\ p # 0
  <2>1. 0 \in 0 .. n /\ h \in 0 .. n /\ n \in h .. n
    BY <1>1
  <2>2. S[0] < S[h] /\ S[h] <= S[n]
    BY <1>1, <2>1, SumsGrow
  <2> QED BY <1>1, <2>1, <2>2
<1>4. HeadBytes(shape) = p /\ AllBytes(shape) = t /\ BodyFields(shape) = B
  BY DEF HeadBytes, AllBytes, BodyFields
<1> HIDE DEF F, h, n, S
<1>5. A \in Seq(Seq(Nat)) /\ B \in Seq(Seq(Nat)) /\ Len(B) = n - h /\ A \o B = F
  <2>1. h \in 0 .. Len(F) /\ Len(F) \in h .. Len(F)
    BY <1>1, <1>2
  <2> DEFINE T == Seq(Nat)
  <2> DEFINE m == Len(F)
  <2>4. F \in Seq(T) /\ h \in 0 .. Len(F) /\ m \in h .. Len(F)
    BY <1>2, <2>1
  <2> HIDE DEF T, m
  <2>5. /\ SubSeq(F, h + 1, m) \in Seq(T) /\ Len(SubSeq(F, h + 1, m)) = m - h
        /\ SubSeq(F, 1, h) \o SubSeq(F, h + 1, m) = SubSeq(F, 1, m)
    BY <2>4, PiecesJoin
  <2>2. B \in Seq(Seq(Nat)) /\ Len(B) = Len(F) - h /\ A \o B = SubSeq(F, 1, Len(F))
    BY <2>5, Zenon DEF m, T
  <2>3. A \in Seq(Seq(Nat)) /\ SubSeq(F, 1, Len(F)) = F
    BY <1>2, <2>1, PrefixIs
  <2> QED BY <1>2, <2>2, <2>3
<1>6. FlattenSeq(A) = UpTo(p) /\ FlattenSeq(F) = UpTo(t)
  <2>1. SubSeq(F, 1, Len(F)) = F
    BY <1>2, SubSeqFull
  <2>2. h \in 0 .. n /\ n \in 0 .. n
    BY <1>1
  <2>3. FlattenSeq(SubSeq(F, 1, h)) = UpTo(S[h]) /\ FlattenSeq(SubSeq(F, 1, n)) = UpTo(S[n])
    BY <1>2, <2>2
  <2> QED BY <1>2, <2>1, <2>3
<1> HIDE DEF A, B
<1> DEFINE x == FlattenSeq(B)
<1>7. UpTo(p) \o x = UpTo(t) /\ x \in Seq(Nat)
  BY <1>5, <1>6, FlattenConcat, FlattenType
<1> HIDE DEF p, t, x
<1>8. x = [i \in 1 .. t - p |-> p + i]
  <2>1. /\ UpTo(p) \in Seq(Nat) /\ Len(UpTo(p)) = p /\ UpTo(t) \in Seq(Nat) /\ Len(UpTo(t)) = t
        /\ \A i \in 1 .. t : UpTo(t)[i] = i
    BY <1>3 DEF UpTo
  <2> DEFINE u == UpTo(p)
  <2> DEFINE v == UpTo(t)
  <2> HIDE DEF u, v
  <2>2. u \in Seq(Nat) /\ Len(u) = p /\ v \in Seq(Nat) /\ Len(v) = t /\ (\A i \in 1 .. t : v[i] = i) /\ u \o x = v
    BY <1>7, <2>1 DEF u, v
  <2>3. /\ Len(u \o x) = Len(u) + Len(x) /\ Len(x) \in Nat
        /\ \A i \in 1 .. Len(u) + Len(x) : (u \o x)[i] = IF i <= Len(u) THEN u[i] ELSE x[i - Len(u)]
    <3>1. u \in Seq(Nat) /\ x \in Seq(Nat)
      BY <1>7, <2>2
    <3> QED BY <3>1, ConcatProperties, LenProperties
  <2>4. Len(x) = t - p
    BY <1>3, <2>2, <2>3
  <2>5. ASSUME NEW i \in 1 .. t - p PROVE x[i] = p + i
    <3>1. p + i \in 1 .. t /\ ~(p + i <= p) /\ p + i - p = i
      BY <1>3
    <3> DEFINE j == p + i
    <3>2. j \in 1 .. Len(u) + Len(x) /\ ~(j <= p) /\ j - p = i /\ j \in 1 .. t
      BY <1>3, <2>2, <2>4, <3>1
    <3> HIDE DEF j
    <3>3. (u \o x)[j] = IF j <= Len(u) THEN u[j] ELSE x[j - Len(u)]
      BY <2>3, <3>2, Zenon
    <3>4. v[j] = x[i]
      BY <2>2, <3>2, <3>3, Zenon
    <3>5. v[j] = j
      BY <2>2, <3>2, Zenon
    <3> QED BY <3>4, <3>5, Zenon DEF j
  <2>6. DOMAIN x = 1 .. t - p /\ x = [i \in 1 .. Len(x) |-> x[i]]
    BY <1>7, <2>4, LenProperties
  <2> QED BY <2>4, <2>5, <2>6
<1>9. B = << >> => p = t /\ h = n
  <2> SUFFICES ASSUME B = << >> PROVE p = t /\ h = n
    OBVIOUS
  <2>1. Len(B) = 0
    BY <1>5, EmptySeq
  <2> QED BY <1>1, <1>5, <2>1 DEF p, t
<1> QED BY <1>3, <1>4, <1>5, <1>6, <1>7, <1>8, <1>9 DEF A, B, x, h, n, F

\* The blocks are not empty, can be framed, and join to the bytes of the body.
LEMMA BlocksAre ==
  ASSUME NEW shape \in Shapes, NEW m \in Settings
  PROVE  /\ Blocks(shape, m) \in Seq(Framed) /\ NoEmpty(Blocks(shape, m))
         /\ PlainTo(shape, m) \in Nat \ {0} /\ AllBytes(shape) \in Nat /\ PlainTo(shape, m) <= AllBytes(shape)
         /\ Blocks(shape, m) \in Seq(Seq(Nat))
         /\ FlattenSeq(Blocks(shape, m)) =
              [i \in 1 .. AllBytes(shape) - PlainTo(shape, m) |-> PlainTo(shape, m) + i]
         /\ Len(FlattenSeq(Blocks(shape, m))) = AllBytes(shape) - PlainTo(shape, m)
<1> DEFINE p == PlainTo(shape, m)
<1> DEFINE t == AllBytes(shape)
<1> DEFINE b == Blocks(shape, m)
<1> DEFINE x == FlattenSeq(b)
<1>0. m.on \in BOOLEAN /\ m.chunk \in Nat
  BY SettingsAreSettings
<1>1. p \in Nat \ {0} /\ t \in Nat /\ p <= t
  BY HeadAndBody DEF PlainTo
<1>2. b \in Seq(Seq(Nat)) /\ NoEmpty(b) /\ x = [i \in 1 .. t - p |-> p + i]
  <2>1. CASE m.on /\ BodyFields(shape) # << >>
    <3>1. b = Frames(BodyFields(shape), m.chunk) /\ p = HeadBytes(shape)
      BY <2>1 DEF Blocks, PlainTo
    <3>2. BodyFields(shape) \in Seq(Seq(Nat))
      BY HeadAndBody
    <3>3. b \in Seq(Seq(Nat)) /\ NoEmpty(b) /\ x = FlattenSeq(BodyFields(shape))
      BY <1>0, <3>1, <3>2, FramesJoin
    <3> QED BY <3>1, <3>3, HeadAndBody
  <2>2. CASE ~(m.on /\ BodyFields(shape) # << >>)
    <3>1. b = << >> /\ p = t
      BY <2>2, HeadAndBody DEF Blocks, PlainTo
    <3>2. x = << >> /\ << >> \in Seq(Seq(Nat)) /\ Len(<< >>) = 0
      BY <3>1, FlattenEmpty
    <3>3. [i \in 1 .. t - p |-> p + i] = << >>
      <4>1. 1 .. t - p = {}
        BY <1>1, <3>1
      <4> HIDE DEF t, p
      <4> QED BY <4>1
    <3>4. b \in Seq(Seq(Nat)) /\ NoEmpty(b)
      BY <3>1, <3>2 DEF NoEmpty
    <3>5. x = << >>
      BY <3>2
    <3> HIDE DEF x, b
    <3> QED BY <3>3, <3>4, <3>5, Zenon
  <2> QED BY <2>1, <2>2
<1>3. t = Sums(shape.head \o shape.body)[Len(shape.head \o shape.body)]
  BY DEF AllBytes, SumOf, SizesOf
<1>4. \A i \in 1 .. t : Packed(i) \in Nat
  BY <1>3, PackedIsNat
<1> HIDE DEF p, t, b, x
<1>5. x \in Seq(Nat) /\ Len(x) = t - p
  <2> DEFINE q == t - p
  <2>1. q \in Nat /\ \A i \in 1 .. q : p + i \in Nat
    BY <1>1
  <2>2. x = [i \in 1 .. q |-> p + i]
    BY <1>2
  <2> HIDE DEF q
  <2>3. x \in [1 .. q -> Nat]
    BY <2>1, <2>2
  <2>4. x \in Seq(Nat) /\ Len(x) = q
    BY <2>1, <2>3, FunctionIsSeq
  <2> QED BY <2>4 DEF q
<1>6. ASSUME NEW j \in 1 .. Len(b) PROVE b[j] \in Framed
  <2>1. b[j] \in Seq(Nat) /\ Len(b[j]) \in Nat /\ Len(b[j]) > 0
    BY <1>2, ElementOfSeq, LenProperties DEF NoEmpty
  <2>2. /\ EndOf(b, j - 1) \in Nat /\ EndOf(b, j) = EndOf(b, j - 1) + Len(b[j]) /\ EndOf(b, j) <= Len(x)
    BY <1>2, EndsCutParts DEF x
  <2>3. Len(b[j]) \in 1 .. t
    BY <1>1, <1>5, <2>1, <2>2
  <2> QED BY <1>4, <2>1, <2>3 DEF Framed
<1>7. b \in Seq(Framed)
  <2>1. b \in [1 .. Len(b) -> Seq(Nat)] /\ Len(b) \in Nat
    BY <1>2, LenProperties
  <2>2. b \in [1 .. Len(b) -> Framed]
    BY <1>6, <2>1
  <2> DEFINE n == Len(b)
  <2>3. b \in [1 .. n -> Framed] /\ n \in Nat
    BY <2>1, <2>2
  <2> HIDE DEF n
  <2> QED BY <2>3, FunctionIsSeq
<1> QED BY <1>1, <1>2, <1>5, <1>7 DEF p, t, b, x

\* A packet is encoded to its first bytes as they are, and frames of its blocks.
LEMMA EncodingIs ==
  ASSUME NEW shape \in Shapes, NEW m \in Settings
  PROVE  /\ Calls[shape][m] \in Seq(CallsOf(Contents))
         /\ Map(Frame, Blocks(shape, m)) \in Seq(Seq(FrameParts))
         /\ Len(Map(Frame, Blocks(shape, m))) = Len(Blocks(shape, m))
         /\ Encoding[shape][m] =
              Plain(UpTo(PlainTo(shape, m))) \o FlattenSeq(Map(Frame, Blocks(shape, m)))
         /\ \E c \in Seq(CallsOf(Contents)) : Calls[shape][m] = c \o <<Flush>>
<1> DEFINE F == Fields(shape)
<1> DEFINE body == BodyFields(shape)
<1> DEFINE head == SubSeq(F, 1, Heads(shape))
<1> DEFINE b == Blocks(shape, m)
<1> DEFINE p == PlainTo(shape, m)
<1> DEFINE C == CallsOf(Contents)
<1> DEFINE fl == <<Flush>>
<1> DEFINE x == Map(WritePlain, head)
<1> DEFINE y == IF body = << >> THEN << >> ELSE WriteBody(body, m)
<1> DEFINE fr == FlattenSeq(Map(Frame, b))
<1>1. Calls[shape][m] = (x \o y) \o fl
  BY DEF Calls, BodyFields, Heads, Map
<1>2. Encoding[shape][m] = Sent(Calls[shape][m])
  BY DEF Encoding, Sent, Map
<1>3. /\ head \in Seq(Seq(Nat)) /\ body \in Seq(Seq(Nat))
      /\ FlattenSeq(head) = UpTo(HeadBytes(shape))
      /\ UpTo(HeadBytes(shape)) \o FlattenSeq(body) = UpTo(AllBytes(shape))
      /\ body = << >> => HeadBytes(shape) = AllBytes(shape)
      /\ UpTo(HeadBytes(shape)) \in Seq(Nat)
  <2>1. HeadBytes(shape) \in Nat
    BY HeadAndBody
  <2>2. UpTo(HeadBytes(shape)) \in Seq(Nat)
    BY <2>1 DEF UpTo
  <2> QED BY <2>2, HeadAndBody
<1>4. x \in Seq(C) /\ Sent(x) = Plain(UpTo(HeadBytes(shape)))
  BY <1>3, SentPlain
<1>5. fl \in Seq(C) /\ Sent(fl) = << >> /\ << >> \in Seq(C) /\ Sent(<< >>) = << >>
  BY FlushIs, SentOne
<1>6. b \in Seq(Framed)
  BY BlocksAre
<1>7. Map(Frame, b) \in Seq(Seq(FrameParts)) /\ Len(Map(Frame, b)) = Len(b)
  BY <1>6, SentFrames
<1>8. m.on \in BOOLEAN
  BY SettingsAreSettings
<1> DEFINE u == UpTo(HeadBytes(shape))
<1> DEFINE v == FlattenSeq(body)
<1>9. v \in Seq(Nat) /\ FlattenSeq(<< >>) = << >>
  BY <1>3, FlattenType, FlattenEmpty
<1> HIDE DEF x
<1>10. /\ y \in Seq(C) /\ Sent(y) \in Seq(Contents)
       /\ Plain(u) \o Sent(y) = Plain(UpTo(p)) \o fr
  <2>1. CASE m.on
    <3>1. p = HeadBytes(shape) /\ y = IF body = << >> THEN << >> ELSE FlattenSeq(Map(WriteFrame, Frames(body, m.chunk)))
      BY <2>1 DEF PlainTo, WriteBody
    <3>2. b = IF body = << >> THEN << >> ELSE Frames(body, m.chunk)
      BY <2>1 DEF Blocks
    <3>3. y = FlattenSeq(Map(WriteFrame, b))
      <4>1. Map(WriteFrame, << >>) = << >>
        BY DEF Map
      <4> QED BY <1>9, <3>1, <3>2, <4>1
    <3> HIDE DEF y, b
    <3>4. y \in Seq(C) /\ Sent(y) = fr /\ fr \in Seq(Contents)
      <4>1. fr \in Seq(FrameParts) /\ FrameParts \subseteq Contents
        BY <1>7, FlattenType DEF Contents
      <4>2. y \in Seq(C) /\ Sent(y) = fr
        BY <1>6, <3>3, SentFrames
      <4> HIDE DEF fr, y, C
      <4> QED BY <4>1, <4>2, SeqMonotonic
    <3> QED BY <3>1, <3>4
  <2>2. CASE ~m.on
    <3>1. p = AllBytes(shape) /\ y = IF body = << >> THEN << >> ELSE Map(WritePlain, body) \o fl
      BY <2>2 DEF PlainTo, WriteBody
    <3>2. b = << >>
      BY <2>2 DEF Blocks
    <3>3. fr = << >>
      <4>1. Map(Frame, << >>) = << >>
        BY DEF Map
      <4> QED BY <1>9, <3>2, <4>1
    <3> DEFINE w == Map(WritePlain, body)
    <3>4. w \in Seq(C) /\ Sent(w) = Plain(v)
      BY <1>3, SentPlain
    <3>5. Plain(v) \in Seq(Contents) /\ Plain(u) \in Seq(Contents)
      <4>1. Plain(v) \in Seq([byte : Nat]) /\ Plain(u) \in Seq([byte : Nat]) /\ [byte : Nat] \subseteq Contents
        BY <1>3, <1>9, PlainIs DEF Contents
      <4> DEFINE R == [byte : Nat]
      <4>2. Plain(v) \in Seq(R) /\ Plain(u) \in Seq(R) /\ R \subseteq Contents
        BY <4>1
      <4> HIDE DEF R
      <4> QED BY <4>2, SeqMonotonic
    <3> HIDE DEF w
    <3>6. CASE body = << >>
      <4>1. y = << >> /\ v = << >>
        BY <1>9, <3>1, <3>6
      <4>2. Plain(<< >>) = << >>
        BY DEF Plain
      <4>3. u = UpTo(p)
        BY <1>3, <3>1, <3>6
      <4>4. Sent(y) = << >> /\ y \in Seq(C) /\ << >> \in Seq(Contents)
        <5> HIDE DEF y
        <5> QED BY <1>5, <4>1
      <4> HIDE DEF y, u, p, fr, C
      <4> QED BY <3>3, <4>3, <4>4
    <3>7. CASE body # << >>
      <4>1. y = w \o fl
        BY <3>1, <3>7 DEF w
      <4>2. w \o fl \in Seq(C) /\ Sent(w \o fl) = Sent(w) \o Sent(fl)
        <5>1. Sent(w \o fl) = Sent(w) \o Sent(fl)
          <6> HIDE DEF fl
          <6> QED BY <1>5, <3>4, SentJoins
        <5> HIDE DEF C, fl
        <5> QED BY <1>5, <3>4, <5>1, ConcatProperties
      <4>3. Sent(y) = Plain(v)
        <5> DEFINE pv == Plain(v)
        <5>1. Sent(w) = pv /\ pv \in Seq(Contents) /\ Sent(fl) = << >>
          BY <1>5, <3>4, <3>5
        <5> HIDE DEF pv, fl
        <5>2. pv \o << >> = pv
          BY <5>1, ConcatEmptySeq
        <5>3. Sent(y) = Sent(w) \o Sent(fl)
          BY <4>1, <4>2
        <5>4. Sent(y) = pv \o << >>
          BY <5>1, <5>3
        <5> QED BY <5>2, <5>4 DEF pv
      <4>4. Plain(u \o v) = Plain(u) \o Plain(v)
        BY <1>3, <1>9, PlainJoins
      <4>5. u \o v = UpTo(p)
        BY <1>3, <3>1
      <4> DEFINE q == Plain(UpTo(p))
      <4>6. q = Plain(u) \o Plain(v)
        BY <4>4, <4>5
      <4>7. q \in Seq(Contents)
        <5> DEFINE a == Plain(u)
        <5> DEFINE c == Plain(v)
        <5>1. a \in Seq(Contents) /\ c \in Seq(Contents) /\ q = a \o c
          BY <3>5, <4>6
        <5> HIDE DEF a, c, q
        <5> QED BY <5>1, ConcatProperties
      <4>8. y \in Seq(C) /\ Sent(y) \in Seq(Contents)
        BY <3>5, <4>1, <4>2, <4>3
      <4>9. Plain(u) \o Sent(y) = q
        BY <4>3, <4>6
      <4> HIDE DEF q, fr, y
      <4>10. q \o fr = q
        BY <3>3, <4>7, ConcatEmptySeq
      <4> QED BY <4>8, <4>9, <4>10 DEF q
    <3> QED BY <3>6, <3>7
  <2> QED BY <1>8, <2>1, <2>2
<1> HIDE DEF y, fr, fl, u, p, C
<1>11. Sent(x) = Plain(u) /\ x \in Seq(C) /\ Sent(x) \in Seq(Contents)
  <2>1. x \in Seq(C) /\ Sent(x) = Plain(u)
    BY <1>4 DEF u
  <2> QED BY <1>10, <2>1, SentJoins DEF C
<1>12. Sent(x \o y) = Sent(x) \o Sent(y) /\ x \o y \in Seq(C)
  <2>1. Sent(x \o y) = Sent(x) \o Sent(y)
    BY <1>10, <1>11, SentJoins DEF C
  <2> QED BY <1>10, <1>11, <2>1, ConcatProperties
<1> DEFINE z == x \o y
<1> DEFINE t == Sent(x) \o Sent(y)
<1>13. z \in Seq(C) /\ Sent(z) = t /\ t \in Seq(Contents) /\ t = Plain(UpTo(p)) \o fr
  BY <1>10, <1>11, <1>12, ConcatProperties
<1>14. Calls[shape][m] = z \o fl
  BY <1>1 DEF x, y, fl
<1> HIDE DEF z, t
<1>15. Sent(z \o fl) = t \o << >> /\ z \o fl \in Seq(C)
  <2>1. Sent(z \o fl) = Sent(z) \o Sent(fl)
    BY <1>5, <1>13, SentJoins DEF C
  <2> QED BY <1>5, <1>13, <2>1, ConcatProperties
<1>16. t \o << >> = t
  BY <1>13, ConcatEmptySeq
<1>17. Encoding[shape][m] = t
  BY <1>2, <1>14, <1>15, <1>16
<1> QED BY <1>7, <1>13, <1>14, <1>15, <1>17 DEF b, p, fr, fl, C

------------------------------------------------------------------------------
(* Where the frames of a packet are, and the bytes they hold. *)

FrameEnds(shape, m) ==
  [j \in 0 .. Len(Blocks(shape, m)) |-> PlainTo(shape, m) + EndOf(Map(Frame, Blocks(shape, m)), j)]

DataEnds(shape, m) ==
  [j \in 0 .. Len(Blocks(shape, m)) |-> PlainTo(shape, m) + EndOf(Blocks(shape, m), j)]

(* A packet e of t bytes has its first p bytes as they are.  The frames of  *)
(* its blocks b end at o, and hold the bytes up to d.                       *)
Layout(e, p, t, b, o, d) ==
  /\ e \in Seq(Contents) /\ p \in Nat \ {0} /\ t \in Nat /\ Len(b) \in Nat
  /\ o[0] = p /\ d[0] = p /\ o[Len(b)] = Len(e) /\ d[Len(b)] = t
  /\ \A i \in 1 .. Len(e) : IF i <= p THEN e[i] = [byte |-> i] ELSE e[i] \in FrameParts
  /\ \A j \in 0 .. Len(b) :
       /\ o[j] \in Nat /\ d[j] \in Nat /\ p <= o[j] /\ o[j] <= Len(e) /\ p <= d[j] /\ d[j] <= t
       /\ j # Len(b) => d[j] < t
  /\ \A j \in 0 .. Len(b) - 1 :
       /\ b[j + 1] \in Framed
       /\ FrameSize(b[j + 1]) \in Nat /\ FrameSize(b[j + 1]) >= 2 /\ o[j + 1] = o[j] + FrameSize(b[j + 1])
       /\ d[j] < d[j + 1] /\ b[j + 1] = [i \in 1 .. d[j + 1] - d[j] |-> d[j] + i]
       /\ Len(b[j + 1]) = d[j + 1] - d[j]
       /\ e[o[j] + 1] = [hash |-> b[j + 1]] /\ e[o[j] + 2] = [header |-> b[j + 1]]

\* Every packet is laid out like this.
LEMMA LayoutIs ==
  ASSUME NEW shape \in Shapes, NEW m \in Settings
  PROVE  Layout(Encoding[shape][m], PlainTo(shape, m), AllBytes(shape), Blocks(shape, m),
                FrameEnds(shape, m), DataEnds(shape, m))
<1> DEFINE e == Encoding[shape][m]
<1> DEFINE p == PlainTo(shape, m)
<1> DEFINE t == AllBytes(shape)
<1> DEFINE b == Blocks(shape, m)
<1> DEFINE o == FrameEnds(shape, m)
<1> DEFINE d == DataEnds(shape, m)
<1> DEFINE g == Map(Frame, b)
<1> DEFINE x == FlattenSeq(b)
<1> DEFINE y == FlattenSeq(g)
<1> DEFINE J == Len(b)
<1> DEFINE u == Plain(UpTo(p))
<1>1. /\ b \in Seq(Framed) /\ NoEmpty(b) /\ p \in Nat \ {0} /\ t \in Nat /\ p <= t /\ b \in Seq(Seq(Nat))
      /\ x = [i \in 1 .. t - p |-> p + i] /\ Len(x) = t - p
  BY BlocksAre
<1>2. g \in Seq(Seq(FrameParts)) /\ Len(g) = J /\ e = u \o y
  BY EncodingIs
<1>3. y \in Seq(FrameParts) /\ Len(y) \in Nat /\ J \in Nat
  BY <1>1, <1>2, FlattenType, LenProperties
<1>4. u \in Seq([byte : Nat]) /\ Len(u) = p /\ \A i \in 1 .. p : u[i] = [byte |-> i]
  <2>1. UpTo(p) \in Seq(Nat) /\ Len(UpTo(p)) = p /\ DOMAIN UpTo(p) = 1 .. p /\ \A i \in 1 .. p : UpTo(p)[i] = i
    BY <1>1 DEF UpTo
  <2> DEFINE w == UpTo(p)
  <2>2. w \in Seq(Nat) /\ Len(w) = p /\ DOMAIN w = 1 .. p /\ \A i \in 1 .. p : w[i] = i
    BY <2>1
  <2> HIDE DEF w, p
  <2>3. Plain(w) \in Seq([byte : Nat]) /\ Len(Plain(w)) = p
    BY <2>2, PlainIs
  <2>4. \A i \in 1 .. p : Plain(w)[i] = [byte |-> i]
    BY <2>2 DEF Plain
  <2> QED BY <2>3, <2>4 DEF w
<1>5. /\ o = [j \in 0 .. J |-> p + EndOf(g, j)]
      /\ d = [j \in 0 .. J |-> p + EndOf(b, j)]
  BY DEF FrameEnds, DataEnds
<1>6. \A i \in 1 .. J : g[i] = Frame(b[i])
  BY <1>1, LenProperties DEF Map
<1> HIDE DEF e, p, t, b, o, d, g, x, y, J, u
<1> DEFINE R == [byte : Nat]
<1>7. /\ e \in Seq(Contents) /\ Len(e) = p + Len(y)
      /\ \A i \in 1 .. p + Len(y) : e[i] = IF i <= p THEN u[i] ELSE y[i - p]
  <2>1. R \subseteq Contents /\ FrameParts \subseteq Contents /\ u \in Seq(R)
    BY <1>4 DEF Contents
  <2> HIDE DEF R
  <2>2. u \in Seq(Contents) /\ y \in Seq(Contents)
    BY <1>3, <2>1, SeqMonotonic
  <2>3. /\ u \o y \in Seq(Contents) /\ Len(u \o y) = Len(u) + Len(y)
        /\ \A i \in 1 .. Len(u) + Len(y) : (u \o y)[i] = IF i <= Len(u) THEN u[i] ELSE y[i - Len(u)]
    BY <2>2, ConcatProperties
  <2> QED BY <1>2, <1>4, <2>3
<1>8. ASSUME NEW i \in 1 .. Len(e) PROVE IF i <= p THEN e[i] = [byte |-> i] ELSE e[i] \in FrameParts
  <2>1. CASE i <= p
    <3>1. i \in 1 .. p
      BY <1>1, <2>1
    <3> QED BY <1>1, <1>3, <1>4, <1>7, <2>1, <3>1
  <2>2. CASE ~(i <= p)
    <3>1. e[i] = y[i - p] /\ i - p \in 1 .. Len(y)
      BY <1>1, <1>3, <1>7, <2>2
    <3>2. y[i - p] \in FrameParts
      BY <1>3, <3>1, ElementOfSeq
    <3> QED BY <2>2, <3>1, <3>2
  <2> QED BY <2>1, <2>2
<1>9. o[0] = p /\ d[0] = p /\ o[J] = Len(e) /\ d[J] = t
  <2>1. /\ 0 \in 0 .. Len(g) /\ Len(g) \in 0 .. Len(g) /\ 0 \in 0 .. Len(b) /\ Len(b) \in 0 .. Len(b)
        /\ 0 \in 0 .. J /\ J \in 0 .. J /\ Len(b) = J /\ Len(b) \in Nat
    BY <1>2, <1>3 DEF J
  <2>2. EndOf(g, 0) = 0 /\ EndOf(g, Len(g)) = Len(y)
    BY <1>2, <2>1, EndsInOrder DEF y
  <2>3. EndOf(b, 0) = 0 /\ EndOf(b, Len(b)) = Len(x)
    BY <1>1, <2>1, EndsInOrder DEF x
  <2>4. /\ o[0] = p + EndOf(g, 0) /\ o[J] = p + EndOf(g, J)
        /\ d[0] = p + EndOf(b, 0) /\ d[J] = p + EndOf(b, J)
    BY <1>5, <2>1
  <2>5. EndOf(g, J) = Len(y) /\ EndOf(b, J) = Len(x)
    BY <1>2, <2>1, <2>2, <2>3
  <2>6. o[J] = Len(e) /\ d[J] = t
    BY <1>1, <1>7, <2>4, <2>5
  <2> QED BY <1>1, <2>2, <2>3, <2>4, <2>6
<1>10. ASSUME NEW i \in 1 .. J
       PROVE  /\ i - 1 \in 0 .. J /\ i \in 0 .. J /\ EndOf(g, i - 1) \in Nat /\ EndOf(b, i - 1) \in Nat
              /\ o[i - 1] = p + EndOf(g, i - 1) /\ d[i - 1] = p + EndOf(b, i - 1)
              /\ o[i] = o[i - 1] + FrameSize(b[i]) /\ d[i] = d[i - 1] + Len(b[i])
              /\ o[i] <= Len(e) /\ d[i] <= t
              /\ FrameSize(b[i]) \in Nat /\ FrameSize(b[i]) >= 2 /\ b[i] \in Framed
              /\ Len(b[i]) \in Nat /\ Len(b[i]) > 0
              /\ \A n \in 1 .. FrameSize(b[i]) : e[o[i - 1] + n] = Frame(b[i])[n]
              /\ b[i] = [n \in 1 .. Len(b[i]) |-> d[i - 1] + n]
  <2> DEFINE c == b[i]
  <2> DEFINE f == g[i]
  <2>1. i - 1 \in 0 .. J /\ i \in 0 .. J /\ i \in 1 .. Len(g) /\ i \in 1 .. Len(b)
    BY <1>2, <1>3 DEF J
  <2>2. c \in Framed /\ c \in Seq(Nat) /\ Len(c) \in Nat /\ Len(c) > 0
    BY <1>1, <2>1, ElementOfSeq, LenProperties DEF NoEmpty
  <2>3. f = Frame(c) /\ FrameSize(c) \in Nat /\ FrameSize(c) >= 2 /\ Len(f) = FrameSize(c)
    BY <1>6, <2>2, FrameIs
  <2>4. /\ EndOf(g, i - 1) \in Nat /\ EndOf(g, i) = EndOf(g, i - 1) + Len(f) /\ EndOf(g, i) <= Len(y)
        /\ \A n \in 1 .. Len(f) : y[EndOf(g, i - 1) + n] = f[n]
    <3>1. CutsPart(g, y, i)
      BY <1>2, <2>1, PartsAreCut DEF y
    <3> QED BY <3>1, Zenon DEF CutsPart
  <2>5. /\ EndOf(b, i - 1) \in Nat /\ EndOf(b, i) = EndOf(b, i - 1) + Len(c) /\ EndOf(b, i) <= Len(x)
        /\ \A n \in 1 .. Len(c) : x[EndOf(b, i - 1) + n] = c[n]
    <3>1. CutsPart(b, x, i)
      BY <1>1, <2>1, PartsAreCut DEF x
    <3> QED BY <3>1, Zenon DEF CutsPart
  <2>6. /\ o[i - 1] = p + EndOf(g, i - 1) /\ o[i] = p + EndOf(g, i)
        /\ d[i - 1] = p + EndOf(b, i - 1) /\ d[i] = p + EndOf(b, i)
    BY <1>5, <2>1
  <2> HIDE DEF c, f
  <2> DEFINE v == EndOf(g, i - 1)
  <2> DEFINE w == EndOf(b, i - 1)
  <2>7. /\ v \in Nat /\ EndOf(g, i) = v + Len(f) /\ v + Len(f) <= Len(y)
        /\ \A n \in 1 .. Len(f) : y[v + n] = f[n]
    BY <2>4
  <2>8. /\ w \in Nat /\ EndOf(b, i) = w + Len(c) /\ w + Len(c) <= Len(x)
        /\ \A n \in 1 .. Len(c) : x[w + n] = c[n]
    BY <2>5
  <2>9. o[i - 1] = p + v /\ d[i - 1] = p + w
    BY <2>6
  <2> HIDE DEF v, w
  <2>10. o[i] = (p + v) + Len(f) /\ d[i] = (p + w) + Len(c)
    BY <1>1, <2>2, <2>3, <2>6, <2>7, <2>8
  <2>11. ASSUME NEW n \in 1 .. FrameSize(c) PROVE e[p + v + n] = Frame(c)[n]
    <3>1. v + n \in 1 .. Len(y) /\ p + v + n \in 1 .. p + Len(y) /\ ~(p + v + n <= p) /\ (p + v + n) - p = v + n
      BY <1>1, <1>3, <2>3, <2>7
    <3>2. e[p + v + n] = y[(p + v + n) - p]
      <4> DEFINE z == p + v + n
      <4>1. z \in 1 .. p + Len(y) /\ ~(z <= p)
        BY <3>1
      <4> HIDE DEF z
      <4>2. e[z] = y[z - p]
        BY <1>7, <4>1
      <4> QED BY <4>2 DEF z
    <3>3. y[v + n] = f[n]
      BY <2>3, <2>7
    <3> QED BY <2>3, <3>1, <3>2, <3>3
  <2>12. ASSUME NEW n \in 1 .. Len(c) PROVE c[n] = (p + w) + n
    <3>1. w + n \in 1 .. t - p
      BY <1>1, <2>2, <2>8
    <3>2. x[w + n] = p + (w + n)
      BY <1>1, <3>1
    <3> QED BY <1>1, <2>8, <3>2
  <2>13. c = [n \in 1 .. Len(c) |-> (p + w) + n]
    <3>1. c = [n \in 1 .. Len(c) |-> c[n]]
      BY <2>2, LenProperties
    <3> QED BY <2>12, <3>1
  <2>14. o[i] <= Len(e) /\ d[i] <= t
    <3> DEFINE q == Len(f)
    <3> DEFINE l == Len(c)
    <3> DEFINE X == Len(x)
    <3> DEFINE Y == Len(y)
    <3>1. /\ q \in Nat /\ l \in Nat /\ X = t - p /\ p \in Nat /\ t \in Nat /\ Y \in Nat /\ Len(e) = p + Y
          /\ v \in Nat /\ w \in Nat /\ v + q <= Y /\ w + l <= X
      BY <1>1, <1>3, <1>7, <2>2, <2>3, <2>7, <2>8
    <3>2. o[i] = (p + v) + q /\ d[i] = (p + w) + l
      BY <2>10
    <3> HIDE DEF q, l, X, Y
    <3>3. o[i] <= Len(e)
      BY <3>1, <3>2
    <3>4. d[i] <= t
      BY <3>1, <3>2
    <3> QED BY <3>3, <3>4
  <2> QED BY <2>1, <2>2, <2>3, <2>4, <2>5, <2>9, <2>10, <2>11, <2>13, <2>14 DEF c, v, w
<1>11. ASSUME NEW j \in 0 .. J
       PROVE  /\ o[j] \in Nat /\ d[j] \in Nat /\ p <= o[j] /\ o[j] <= Len(e) /\ p <= d[j] /\ d[j] <= t
              /\ j # J => d[j] < t
  <2>1. CASE j = J
    BY <1>1, <1>3, <1>7, <1>9, <2>1
  <2>2. CASE j # J
    <3> DEFINE i == j + 1
    <3>1. i \in 1 .. J /\ i - 1 = j
      BY <1>3, <2>2
    <3> HIDE DEF i
    <3>2. /\ EndOf(g, i - 1) \in Nat /\ EndOf(b, i - 1) \in Nat
          /\ o[i - 1] = p + EndOf(g, i - 1) /\ d[i - 1] = p + EndOf(b, i - 1)
          /\ o[i] = o[i - 1] + FrameSize(b[i]) /\ d[i] = d[i - 1] + Len(b[i])
          /\ o[i] <= Len(e) /\ d[i] <= t
          /\ FrameSize(b[i]) \in Nat /\ Len(b[i]) \in Nat /\ Len(b[i]) > 0
      BY <1>10, <3>1
    <3> DEFINE v == EndOf(g, i - 1)
    <3> DEFINE w == EndOf(b, i - 1)
    <3> DEFINE fs == FrameSize(b[i])
    <3> DEFINE l == Len(b[i])
    <3>4. /\ v \in Nat /\ w \in Nat /\ o[j] = p + v /\ d[j] = p + w
          /\ o[i] = o[j] + fs /\ d[i] = d[j] + l /\ o[i] <= Len(e) /\ d[i] <= t
          /\ fs \in Nat /\ l \in Nat /\ l > 0
      BY <3>1, <3>2
    <3> HIDE DEF v, w, fs, l
    <3>3. Len(e) \in Nat
      BY <1>1, <1>3, <1>7
    <3> QED BY <1>1, <3>3, <3>4, <2>2
  <2> QED BY <2>1, <2>2
<1>12. ASSUME NEW j \in 0 .. J - 1
       PROVE  /\ b[j + 1] \in Framed
              /\ FrameSize(b[j + 1]) \in Nat /\ FrameSize(b[j + 1]) >= 2 /\ o[j + 1] = o[j] + FrameSize(b[j + 1])
              /\ d[j] < d[j + 1] /\ b[j + 1] = [i \in 1 .. d[j + 1] - d[j] |-> d[j] + i]
              /\ Len(b[j + 1]) = d[j + 1] - d[j]
              /\ e[o[j] + 1] = [hash |-> b[j + 1]] /\ e[o[j] + 2] = [header |-> b[j + 1]]
  <2> DEFINE i == j + 1
  <2>1. i \in 1 .. J /\ j = i - 1 /\ j \in 0 .. J
    BY <1>3
  <2> HIDE DEF i
  <2> DEFINE c == b[i]
  <2>2. /\ d[i] = d[j] + Len(c) /\ Len(c) \in Nat /\ Len(c) > 0 /\ c = [n \in 1 .. Len(c) |-> d[j] + n]
        /\ o[i] = o[j] + FrameSize(c) /\ FrameSize(c) \in Nat /\ FrameSize(c) >= 2 /\ c \in Framed
        /\ \A n \in 1 .. FrameSize(c) : e[o[j] + n] = Frame(c)[n]
    BY <1>10, <2>1
  <2>3. d[j] \in Nat
    BY <1>11, <2>1
  <2> HIDE DEF c
  <2>4. Len(c) = d[i] - d[j] /\ d[j] < d[i]
    BY <2>2, <2>3
  <2>5. 1 \in 1 .. FrameSize(c) /\ 2 \in 1 .. FrameSize(c)
    BY <2>2
  <2>6. e[o[j] + 1] = [hash |-> c] /\ e[o[j] + 2] = [header |-> c]
    BY <2>2, <2>5, FrameIs
  <2> QED BY <2>2, <2>4, <2>6 DEF c, i
<1>13. Layout(e, p, t, b, o, d)
  BY <1>1, <1>3, <1>7, <1>8, <1>9, <1>11, <1>12 DEF Layout, J
<1> QED BY <1>13 DEF e, p, t, b, o, d

------------------------------------------------------------------------------
(* Tokens that follow each other, and the calls that write them. *)

\* The n tokens of packet k behind the first a; also the bytes.
Run(k, a, n) == [i \in 1 .. n |-> <<k, a + i>>]

\* A run is a sequence.
LEMMA RunIs ==
  ASSUME NEW A, NEW k, NEW a \in Nat, NEW n \in Nat, \A i \in 1 .. n : <<k, a + i>> \in A
  PROVE  Run(k, a, n) \in Seq(A) /\ Len(Run(k, a, n)) = n /\ DOMAIN Run(k, a, n) = 1 .. n
         /\ \A i \in 1 .. n : Run(k, a, n)[i] = <<k, a + i>>
<1>1. Run(k, a, n) \in [1 .. n -> A]
  BY DEF Run
<1>2. \A i \in 1 .. n : Run(k, a, n)[i] = <<k, a + i>>
  BY DEF Run
<1> QED BY <1>1, <1>2, FunctionIsSeq

\* A run consists of pairs of numbers.
LEMMA RunOfPairs ==
  ASSUME NEW k \in Nat, NEW a \in Nat, NEW n \in Nat
  PROVE  Run(k, a, n) \in Seq(Nat \X Nat) /\ Len(Run(k, a, n)) = n /\ DOMAIN Run(k, a, n) = 1 .. n
         /\ \A i \in 1 .. n : Run(k, a, n)[i] = <<k, a + i>>
<1>1. Run(k, a, n) \in [1 .. n -> Nat \X Nat]
  BY DEF Run
<1>2. \A i \in 1 .. n : Run(k, a, n)[i] = <<k, a + i>>
  BY DEF Run
<1> QED BY <1>1, <1>2, FunctionIsSeq

\* The same by name, for the steps that need it of one run only.
IsRun(s, k, a, n) ==
  /\ s \in Seq(Nat \X Nat) /\ Len(s) = n /\ DOMAIN s = 1 .. n
  /\ \A i \in 1 .. n : s[i] = <<k, a + i>>

\* A run is one.
LEMMA RunIsRun ==
  ASSUME NEW k \in Nat, NEW a \in Nat, NEW n \in Nat
  PROVE  IsRun(Run(k, a, n), k, a, n)
<1>1. Run(k, a, n) \in [1 .. n -> Nat \X Nat]
  BY DEF Run
<1>2. \A i \in 1 .. n : Run(k, a, n)[i] = <<k, a + i>>
  BY DEF Run
<1> QED BY <1>1, <1>2, FunctionIsSeq DEF IsRun

\* An equation by name, for lemmas to be instantiated with sums.
IsSum(c, a, b) == c = a + b

\* Runs join.
LEMMA RunsJoin ==
  ASSUME NEW k \in Nat, NEW a \in Nat, NEW n \in Nat, NEW m \in Nat, NEW b \in Nat, NEW c \in Nat,
         IsSum(b, a, n), IsSum(c, n, m)
  PROVE  Joins(Run(k, a, n), Run(k, b, m), Run(k, a, c))
<1>0. b = a + n /\ c = n + m
  BY DEF IsSum
<1> DEFINE x == Run(k, a, n)
<1> DEFINE y == Run(k, b, m)
<1> DEFINE z == Run(k, a, c)
<1> DEFINE A == Nat \X Nat
<1>1. x \in Seq(A) /\ Len(x) = n /\ \A i \in 1 .. n : x[i] = <<k, a + i>>
  <2>1. IsRun(x, k, a, n)
    BY RunIsRun
  <2> QED BY <2>1, Zenon DEF IsRun
<1>3. y \in Seq(A) /\ Len(y) = m /\ \A i \in 1 .. m : y[i] = <<k, b + i>>
  <2>1. IsRun(y, k, b, m)
    BY RunIsRun
  <2> QED BY <2>1, Zenon DEF IsRun
<1>4. z \in Seq(A) /\ Len(z) = c /\ \A i \in 1 .. c : z[i] = <<k, a + i>>
  <2>1. IsRun(z, k, a, c)
    BY RunIsRun
  <2> QED BY <2>1, Zenon DEF IsRun
<1> HIDE DEF x, y, z, A
<1>5. /\ x \o y \in Seq(A) /\ Len(x \o y) = Len(x) + Len(y)
      /\ \A i \in 1 .. Len(x) + Len(y) : (x \o y)[i] = IF i <= Len(x) THEN x[i] ELSE y[i - Len(x)]
  <2>1. x \in Seq(A) /\ y \in Seq(A)
    BY <1>1, <1>3
  <2> QED BY <2>1, ConcatProperties
<1>6. ASSUME NEW i \in 1 .. c PROVE (x \o y)[i] = z[i]
  <2>1. (x \o y)[i] = IF i <= n THEN x[i] ELSE y[i - n]
    BY <1>0, <1>1, <1>3, <1>5
  <2>2. CASE i <= n
    <3>1. i \in 1 .. n
      BY <1>0, <2>2
    <3> QED BY <1>1, <1>4, <2>1, <2>2, <3>1
  <2>3. CASE ~(i <= n)
    <3> DEFINE j == i - n
    <3>1. j \in 1 .. m /\ b + j = a + i
      BY <1>0, <2>3
    <3>2. (x \o y)[i] = y[j]
      BY <2>1, <2>3
    <3> HIDE DEF j
    <3> QED BY <1>3, <1>4, <3>1, <3>2
  <2> QED BY <2>2, <2>3
<1>7. x \o y = z
  BY <1>0, <1>1, <1>3, <1>4, <1>5, <1>6, SeqEqual
<1> QED BY <1>7 DEF x, y, z, Joins

\* The ends of the parts of a sequence are the sums of their sizes.
SumsEnd(sizes, s, n) ==
  /\ \A i \in 0 .. n : Sums(sizes)[i] = EndOf(s, i) /\ Sums(sizes)[i] \in Nat
  /\ \A i \in 1 .. n : Before(sizes, i) = Sums(sizes)[i - 1] /\ Sums(sizes)[i] = Sums(sizes)[i - 1] + sizes[i]

\* The sums of the sizes of the parts are the ends of the parts.
LEMMA SumsAreEnds ==
  ASSUME NEW A, NEW s \in Seq(Seq(A)), NEW sizes, Len(sizes) = Len(s),
         \A i \in 1 .. Len(s) : sizes[i] = Len(s[i])
  PROVE  SumsEnd(sizes, s, Len(s))
<1> DEFINE n == Len(s)
<1>1. n \in Nat /\ \A i \in 1 .. n : sizes[i] \in Nat
  BY ElementOfSeq, LenProperties
<1>2. /\ Sums(sizes)[0] = 0
      /\ \A i \in 0 .. n : Sums(sizes)[i] \in Nat
      /\ \A i \in 1 .. n : Sums(sizes)[i] = Sums(sizes)[i - 1] + sizes[i]
  BY <1>1, SumsAre
<1> DEFINE T == {i \in Nat : i <= n => Sums(sizes)[i] = EndOf(s, i)}
<1>3. 0 \in T
  <2>1. 0 \in 0 .. Len(s) /\ Len(s) \in 0 .. Len(s)
    BY <1>1
  <2>2. EndOf(s, 0) = 0
    BY <2>1, EndsInOrder
  <2> QED BY <1>2, <2>2
<1>4. ASSUME NEW i \in Nat, i \in T PROVE i + 1 \in T
  <2> SUFFICES ASSUME NEW k \in 1 .. n, i = k - 1 PROVE Sums(sizes)[k] = EndOf(s, k)
    <3>1. i + 1 <= n => i + 1 \in 1 .. n /\ i = i + 1 - 1
      OBVIOUS
    <3> QED BY <3>1
  <2>1. Sums(sizes)[k - 1] = EndOf(s, k - 1)
    BY <1>1, <1>4
  <2>2. EndOf(s, k) = EndOf(s, k - 1) + Len(s[k])
    BY EndsCutParts
  <2> QED BY <1>2, <2>1, <2>2
<1>5. \A i \in Nat : i \in T
  <2> HIDE DEF T
  <2> QED BY <1>3, <1>4, NatSetInduction
<1>6. \A i \in 0 .. n : Sums(sizes)[i] = EndOf(s, i)
  BY <1>1, <1>5
<1>7. \A i \in 1 .. n : Before(sizes, i) = Sums(sizes)[i - 1]
  BY DEF Before
<1> HIDE DEF T
<1> QED BY <1>2, <1>6, <1>7 DEF SumsEnd

\* The calls for packet k write its tokens, and a flush is the last.
LEMMA CallsForIs ==
  ASSUME NEW k \in Nat, NEW shape \in Shapes, mode \in Settings,
         NEW A, \A n \in 1 .. Len(Encoding[shape][mode]) : <<k, n>> \in A
  PROVE  /\ CallsFor(k, shape) \in Seq(CallsOf(A)) /\ Len(CallsFor(k, shape)) > 0
         /\ CallsFor(k, shape)[Len(CallsFor(k, shape))].op = "flush"
         /\ Sent(CallsFor(k, shape)) = Run(k, 0, Len(Encoding[shape][mode]))
<1> DEFINE calls == Calls[shape][mode]
<1> DEFINE N == Len(calls)
<1> DEFINE sizes == [c \in DOMAIN calls |-> Len(calls[c].data)]
<1> DEFINE L == Len(Encoding[shape][mode])
<1> DEFINE data == Map(DataOf, calls)
<1> DEFINE new == CallsFor(k, shape)
<1> DEFINE S == Sums(sizes)
<1>1. /\ calls \in Seq(CallsOf(Contents)) /\ \E c \in Seq(CallsOf(Contents)) : calls = c \o <<Flush>>
  BY EncodingIs
<1>2. N \in Nat /\ DOMAIN calls = 1 .. N /\ (\A c \in 1 .. N : calls[c] \in CallsOf(Contents))
  BY <1>1, ElementOfSeq, LenProperties
<1>3. N > 0 /\ calls[N].op = "flush"
  <2>1. PICK c \in Seq(CallsOf(Contents)) : calls = c \o <<Flush>>
    BY <1>1
  <2> DEFINE C == CallsOf(Contents)
  <2> DEFINE f == <<Flush>>
  <2>2. f \in Seq(C) /\ Len(f) = 1 /\ f[1] = Flush /\ c \in Seq(C) /\ Len(c) \in Nat
    BY FlushIs, LenProperties
  <2> HIDE DEF C, f
  <2>3. /\ Len(c \o f) = Len(c) + Len(f)
        /\ \A i \in 1 .. Len(c) + Len(f) : (c \o f)[i] = IF i <= Len(c) THEN c[i] ELSE f[i - Len(c)]
    BY <2>2, ConcatProperties
  <2> DEFINE m == Len(c)
  <2>4. m + 1 \in 1 .. m + Len(f) /\ ~(m + 1 <= m) /\ (m + 1) - m = 1 /\ m \in Nat
    BY <2>2
  <2>5. (c \o f)[m + 1] = f[(m + 1) - m]
    BY <2>3, <2>4
  <2>6. (c \o f)[m + 1] = Flush /\ Len(c \o f) = m + 1
    BY <2>2, <2>3, <2>4, <2>5
  <2>7. calls = c \o f
    BY <2>1 DEF f
  <2> HIDE DEF calls, m
  <2>8. N = m + 1 /\ calls[N] = Flush
    BY <2>6, <2>7
  <2> QED BY <2>4, <2>8 DEF Flush
<1>4. data \in Seq(Seq(Contents)) /\ Len(data) = N /\ \A c \in 1 .. N : data[c] = calls[c].data
  BY <1>1, DataAre
<1>5. L = Len(FlattenSeq(data))
  BY DEF Encoding, Map
<1>6. /\ new = [c \in DOMAIN calls |-> [calls[c] EXCEPT !.data =
                  [n \in 1 .. sizes[c] |-> <<k, Before(sizes, c) + n>>]]]
  BY DEF CallsFor
<1> HIDE DEF calls
<1>7. DOMAIN sizes = 1 .. N /\ \A c \in 1 .. N : sizes[c] = Len(calls[c].data) /\ sizes[c] \in Nat
  <2>1. \A c \in 1 .. N : calls[c].data \in Seq(Contents)
    BY <1>2 DEF CallsOf
  <2> QED BY <1>2, <2>1, LenProperties
<1>8. sizes \in Seq(Nat) /\ Len(sizes) = N
  <2>1. sizes \in [1 .. N -> Nat]
    BY <1>2, <1>7
  <2> HIDE DEF sizes
  <2> QED BY <1>2, <2>1, FunctionIsSeq
<1> HIDE DEF sizes, N, data, new, L
<1>9. /\ \A c \in 0 .. N : S[c] = EndOf(data, c) /\ S[c] \in Nat
      /\ \A c \in 1 .. N : Before(sizes, c) = S[c - 1] /\ S[c] = S[c - 1] + sizes[c]
  <2>1. Len(sizes) = Len(data) /\ \A c \in 1 .. Len(data) : sizes[c] = Len(data[c])
    BY <1>4, <1>7, <1>8
  <2> DEFINE n == Len(data)
  <2>2. n = N
    BY <1>4
  <2> HIDE DEF S
  <2>3. /\ \A c \in 0 .. n : Sums(sizes)[c] = EndOf(data, c) /\ Sums(sizes)[c] \in Nat
        /\ \A c \in 1 .. n : Before(sizes, c) = Sums(sizes)[c - 1] /\ Sums(sizes)[c] = Sums(sizes)[c - 1] + sizes[c]
    <3>1. SumsEnd(sizes, data, n)
      BY <1>4, <2>1, SumsAreEnds
    <3> QED BY <3>1, Zenon DEF SumsEnd
  <2> HIDE DEF n
  <2> QED BY <2>2, <2>3, Zenon DEF S
<1>10. S[0] = 0 /\ S[N] = L
  <2>1. 0 \in 0 .. Len(data) /\ Len(data) \in 0 .. Len(data) /\ 0 \in 0 .. N /\ N \in 0 .. N
    BY <1>2, <1>4
  <2>2. EndOf(data, 0) = 0 /\ EndOf(data, Len(data)) = Len(FlattenSeq(data))
    BY <1>4, <2>1, EndsInOrder
  <2> QED BY <1>4, <1>5, <1>9, <2>1, <2>2
<1> HIDE DEF S
<1>11. ASSUME NEW c \in 0 .. N PROVE S[c] <= L
  <2>1. c \in 0 .. Len(data) /\ Len(data) \in c .. Len(data)
    BY <1>2, <1>4
  <2>2. EndOf(data, c) <= EndOf(data, Len(data)) /\ EndOf(data, Len(data)) = Len(FlattenSeq(data))
    BY <1>4, <2>1, EndsInOrder
  <2> QED BY <1>5, <1>9, <2>2
<1>12. L \in Nat
  BY <1>2, <1>9, <1>10
<1>13. ASSUME NEW c \in 1 .. N
       PROVE  /\ new[c].data = Run(k, S[c - 1], sizes[c]) /\ new[c].op = calls[c].op
              /\ Run(k, S[c - 1], sizes[c]) \in Seq(A) /\ new[c] \in CallsOf(A)
  <2>1. c - 1 \in 0 .. N /\ c \in 0 .. N
    BY <1>2
  <2> DEFINE a == S[c - 1]
  <2> DEFINE n == sizes[c]
  <2>2. a \in Nat /\ n \in Nat /\ a + n <= L /\ Before(sizes, c) = a
    BY <1>7, <1>9, <1>11, <2>1
  <2>3. new[c] = [calls[c] EXCEPT !.data = [i \in 1 .. n |-> <<k, Before(sizes, c) + i>>]]
    BY <1>2, <1>6
  <2>4. Run(k, a, n) = [i \in 1 .. n |-> <<k, Before(sizes, c) + i>>]
    BY <2>2 DEF Run
  <2> HIDE DEF a, n
  <2>5. new[c] = [calls[c] EXCEPT !.data = Run(k, a, n)]
    BY <2>3, <2>4
  <2>6. Run(k, a, n) \in Seq(A)
    <3>1. \A i \in 1 .. n : a + i \in 1 .. L
      BY <1>12, <2>2
    <3>2. \A i \in 1 .. n : <<k, a + i>> \in A
      BY <3>1 DEF L
    <3> QED BY <2>2, <3>2, RunIs
  <2> DEFINE r == Run(k, a, n)
  <2>7. new[c] = [calls[c] EXCEPT !.data = r] /\ r \in Seq(A) /\ calls[c] \in CallsOf(Contents)
    BY <1>2, <2>5, <2>6
  <2>9. calls[c].op = "flush" => r = << >>
    <3>1. calls[c].op = "flush" => n = 0
      BY <1>7, <2>7 DEF CallsOf, n
    <3>2. n = 0 => r = << >>
      BY DEF Run
    <3> QED BY <3>1, <3>2
  <2> HIDE DEF r
  <2>8. new[c].data = r /\ new[c].op = calls[c].op /\ new[c] \in CallsOf(A)
    BY <2>7, <2>9 DEF CallsOf
  <2> QED BY <2>6, <2>8 DEF r, a, n
<1>14. new \in Seq(CallsOf(A)) /\ Len(new) = N
  <2>1. DOMAIN new = 1 .. N /\ new = [c \in 1 .. N |-> new[c]]
    BY <1>2, <1>6
  <2> DEFINE C == CallsOf(A)
  <2>2. \A c \in 1 .. N : new[c] \in C
    BY <1>13
  <2> HIDE DEF C
  <2>3. new \in [1 .. N -> C]
    BY <2>1, <2>2
  <2>4. new \in Seq(C) /\ Len(new) = N
    BY <1>2, <2>3, FunctionIsSeq
  <2> QED BY <2>4 DEF C
<1> DEFINE d == Map(DataOf, new)
<1>15. d \in Seq(Seq(A)) /\ Len(d) = N /\ \A c \in 1 .. N : d[c] = new[c].data
  BY <1>14, DataAre
<1>16. Sent(new) = FlattenSeq(d)
  BY DEF Sent, Map
<1> HIDE DEF d
<1> DEFINE T == {c \in Nat : c <= N => FlattenSeq(SubSeq(d, 1, c)) = Run(k, 0, S[c])}
<1>17. 0 \in T
  <2>1. SubSeq(d, 1, 0) = << >> /\ Run(k, 0, 0) = << >>
    BY SubSeqEmpty DEF Run
  <2> QED BY <1>10, <2>1, FlattenEmpty
<1>18. ASSUME NEW c \in Nat, c \in T PROVE c + 1 \in T
  <2> SUFFICES ASSUME NEW i \in 1 .. N, c = i - 1 PROVE FlattenSeq(SubSeq(d, 1, i)) = Run(k, 0, S[i])
    <3>1. c + 1 <= N => c + 1 \in 1 .. N /\ c = c + 1 - 1
      OBVIOUS
    <3> QED BY <3>1
  <2>1. c \in 0 .. Len(d) /\ c < Len(d) /\ c <= N /\ c + 1 = i /\ c \in 0 .. N
    BY <1>2, <1>15
  <2>2. FlattenSeq(SubSeq(d, 1, c)) = Run(k, 0, S[c])
    BY <1>18, <2>1
  <2>3. SubSeq(d, 1, c + 1) = Append(SubSeq(d, 1, c), d[c + 1]) /\ SubSeq(d, 1, c) \in Seq(Seq(A))
    BY <1>15, <2>1, PrefixGrows, PrefixIs
  <2> DEFINE a == S[c]
  <2> DEFINE n == sizes[i]
  <2>4. d[i] = Run(k, a, n) /\ d[i] \in Seq(A) /\ S[i] = a + n /\ a \in Nat /\ n \in Nat
    BY <1>7, <1>9, <1>13, <1>15, <2>1
  <2> DEFINE before == SubSeq(d, 1, c)
  <2>5. FlattenSeq(SubSeq(d, 1, i)) = Run(k, 0, a) \o d[i]
    <3>1. SubSeq(d, 1, i) = Append(before, d[i]) /\ before \in Seq(Seq(A)) /\ d[i] \in Seq(A)
      BY <2>1, <2>3, <2>4
    <3>2. FlattenSeq(before) = Run(k, 0, a)
      BY <2>2
    <3> HIDE DEF before, a
    <3> QED BY <3>1, <3>2, FlattenAppend
  <2> HIDE DEF a, n
  <2>6. Run(k, 0, a) \o Run(k, a, n) = Run(k, 0, S[i])
    <3> DEFINE z == S[i]
    <3>1. k \in Nat /\ a \in Nat /\ n \in Nat /\ z \in Nat /\ 0 \in Nat /\ IsSum(z, a, n) /\ IsSum(a, 0, a)
      BY <2>4 DEF IsSum
    <3> HIDE DEF z
    <3>2. Joins(Run(k, 0, a), Run(k, a, n), Run(k, 0, z))
      BY <3>1, RunsJoin
    <3> QED BY <3>2 DEF z, Joins
  <2> QED BY <2>4, <2>5, <2>6
<1>19. FlattenSeq(d) = Run(k, 0, L)
  <2>1. N \in T
    <3> HIDE DEF T
    <3> QED BY <1>2, <1>17, <1>18, NatSetInduction
  <2>2. FlattenSeq(SubSeq(d, 1, N)) = Run(k, 0, S[N])
    BY <1>2, <2>1
  <2>3. SubSeq(d, 1, N) = d
    BY <1>15, SubSeqFull
  <2> QED BY <1>10, <2>2, <2>3
<1>20. N \in 1 .. N
  BY <1>2, <1>3
<1>21. new[N].op = "flush"
  BY <1>3, <1>13, <1>20
<1> QED BY <1>3, <1>14, <1>16, <1>19, <1>21 DEF new, L

------------------------------------------------------------------------------
(* A reader inside a packet. *)

Pairs == Nat \X Nat

Readers ==
  [packet : Nat, field : Nat, got : Seq(Pairs), mem : Seq(Pairs), raw : Seq(Pairs), seen : Seq(Pairs),
   broken : BOOLEAN]

Finished(k) == [NoPacket EXCEPT !.field = 0, !.packet = k]

\* c bytes of packet k were taken.
InField(r, k, c, shape) ==
  /\ r.packet = k /\ r.field \in 1 .. Len(SizesOf(shape))
  /\ SumOf(shape)[r.field - 1] <= c /\ c < SumOf(shape)[r.field]
  /\ r.got = Run(k, SumOf(shape)[r.field - 1], c - SumOf(shape)[r.field - 1])

\* They were read as they are ...
InPlain(r, q, c) == q = c /\ r.mem = << >> /\ r.raw = << >>

\* ... or from the first j frames, of which some are left, or a part of the next was read.
InFrame(r, k, q, c, n, o, d, j) ==
  /\ c <= d[j] /\ r.mem = Run(k, c, d[j] - c)
  /\ o[j] <= q /\ r.raw = Run(k, o[j], q - o[j])
  /\ IF j = n THEN q = o[j] ELSE q < o[j + 1]
  /\ q # o[j] => d[j] = c

\* The reader has seen the first q tokens of packet k, and is not lost.
Good(r, k, q, shape, m) ==
  /\ r \in Readers /\ ~r.broken /\ r.seen = Run(k, 0, q)
  /\ IF q = 0 THEN r = NoPacket
     ELSE \E c \in Nat :
       /\ InField(r, k, c, shape)
       /\ IF m.on /\ r.field > Heads(shape)
          THEN \E j \in 0 .. Len(Blocks(shape, m)) :
                 InFrame(r, k, q, c, Len(Blocks(shape, m)), FrameEnds(shape, m), DataEnds(shape, m), j)
          ELSE InPlain(r, q, c)

\* Fields by the sums of their sizes.
LEMMA FieldFacts ==
  ASSUME NEW k \in Nat, shapes[k] \in Shapes
  PROVE  /\ Len(SizesOf(shapes[k])) \in Nat /\ Heads(shapes[k]) \in Nat \ {0}
         /\ Heads(shapes[k]) <= Len(SizesOf(shapes[k]))
         /\ Sizes(k) = SizesOf(shapes[k])
         /\ SumOf(shapes[k])[0] = 0 /\ SumOf(shapes[k])[1] = 1
         /\ \A f \in 0 .. Len(SizesOf(shapes[k])) :
              SumOf(shapes[k])[f] \in Nat /\ SumOf(shapes[k])[f] <= AllBytes(shapes[k])
         /\ SumOf(shapes[k])[Len(SizesOf(shapes[k]))] = AllBytes(shapes[k])
         /\ SumOf(shapes[k])[Heads(shapes[k])] = HeadBytes(shapes[k])
         /\ \A f \in 1 .. Heads(shapes[k]) : SumOf(shapes[k])[f] <= HeadBytes(shapes[k])
         /\ \A f \in Heads(shapes[k]) + 1 .. Len(SizesOf(shapes[k])) : HeadBytes(shapes[k]) <= SumOf(shapes[k])[f - 1]
         /\ \A f \in 1 .. Len(SizesOf(shapes[k])) :
              /\ SizesOf(shapes[k])[f] = SumOf(shapes[k])[f] - SumOf(shapes[k])[f - 1]
              /\ SumOf(shapes[k])[f - 1] \in Nat /\ SumOf(shapes[k])[f - 1] < SumOf(shapes[k])[f]
              /\ BytesOf(k, Fields(shapes[k])[f])
                   = Run(k, SumOf(shapes[k])[f - 1], SumOf(shapes[k])[f] - SumOf(shapes[k])[f - 1])
<1> DEFINE sh == shapes[k]
<1> DEFINE n == Len(SizesOf(sh))
<1> DEFINE S == SumOf(sh)
<1> DEFINE s == SizesOf(sh)
<1> DEFINE h == Heads(sh)
<1> DEFINE F == Fields(sh)
<1>0. sh \in Shapes
  OBVIOUS
<1>1. Sizes(k) = s
  BY DEF Sizes, SizesOf
<1> HIDE DEF sh
<1>2. /\ n \in Nat /\ h \in Nat \ {0} /\ n = h + Len(sh.body) /\ Len(sh.body) \in Nat /\ s[1] = 1 /\ S[0] = 0
      /\ \A f \in 0 .. n : S[f] \in Nat
      /\ \A f \in 1 .. n : /\ s[f] \in Nat \ {0} /\ f - 1 \in 0 .. n /\ f \in Nat
                           /\ S[f] = S[f - 1] + s[f]
  BY <1>0, ShapeIs
<1>3. AllBytes(sh) = S[n] /\ HeadBytes(sh) = S[h]
  BY DEF AllBytes, HeadBytes
<1>4. /\ Len(F) = n
      /\ \A f \in 1 .. n :
           /\ F[f] \in Seq(Nat) /\ Len(F[f]) = s[f] /\ \A i \in 1 .. s[f] : F[f][i] = S[f - 1] + i
  BY <1>0, FieldsAre
<1>5. \A e \in 0 .. n : \A f \in e .. n : S[e] <= S[f]
  BY <1>0, SumsGrow
<1> HIDE DEF n, S, s, h, F
<1>6. h <= n /\ 1 \in 1 .. n /\ n \in 0 .. n /\ h \in 0 .. n
  BY <1>2
<1>7. S[1] = 1
  <2>1. S[1] = S[1 - 1] + s[1] /\ 1 - 1 = 0
    BY <1>2, <1>6
  <2> QED BY <1>2, <2>1
<1>8. ASSUME NEW f \in 0 .. n PROVE S[f] \in Nat /\ S[f] <= S[n]
  <2>1. n \in f .. n
    BY <1>2
  <2> QED BY <1>2, <1>5, <2>1
<1>9. ASSUME NEW f \in 1 .. h PROVE S[f] <= S[h]
  <2>1. f \in 0 .. n /\ h \in f .. n
    BY <1>2, <1>6
  <2> QED BY <1>5, <2>1
<1>10. ASSUME NEW f \in h + 1 .. n PROVE S[h] <= S[f - 1]
  <2>1. f - 1 \in h .. n
    BY <1>2, <1>6
  <2> QED BY <1>5, <1>6, <2>1
<1>11. ASSUME NEW f \in 1 .. n
       PROVE  /\ s[f] = S[f] - S[f - 1] /\ S[f - 1] \in Nat /\ S[f - 1] < S[f]
              /\ BytesOf(k, F[f]) = Run(k, S[f - 1], S[f] - S[f - 1])
  <2> DEFINE a == S[f - 1]
  <2> DEFINE z == s[f]
  <2> DEFINE x == F[f]
  <2>1. z \in Nat \ {0} /\ a \in Nat /\ S[f] = a + z
    BY <1>2
  <2>2. x \in Seq(Nat) /\ Len(x) = z /\ \A i \in 1 .. z : x[i] = a + i
    BY <1>4
  <2> HIDE DEF a, z, x
  <2>3. DOMAIN x = 1 .. z
    BY <2>2, LenProperties
  <2>4. BytesOf(k, x) = Run(k, a, z)
    BY <2>2, <2>3 DEF BytesOf, Run
  <2>5. z = S[f] - a /\ a < S[f]
    BY <2>1
  <2> QED BY <2>1, <2>4, <2>5 DEF a, z, x
<1> QED BY <1>1, <1>2, <1>3, <1>6, <1>7, <1>8, <1>9, <1>10, <1>11 DEF sh, n, S, s, h, F

\* Field f of packet k is its bytes behind a up to z.
FieldAt(k, f, a, z) ==
  f \in 1 .. Len(SizesOf(shapes[k])) /\ a = SumOf(shapes[k])[f - 1] /\ z = SumOf(shapes[k])[f]

Kept(r, got) == [r EXCEPT !.got = got]
LastField(r, k) == EndPacket([r EXCEPT !.packet = k])
NextField(r, k) == [r EXCEPT !.packet = k, !.field = r.field + 1, !.got = << >>]

\* What has been read of a field of a packet is kept, or is the field that was written.
LEMMA GotFieldIs ==
  ASSUME NEW k \in Nat \ {0}, shapes[k] \in Shapes,
         NEW r \in Readers, r.packet \in {0, k}, r.packet = 0 => r.field = 1,
         NEW a \in Nat, NEW z \in Nat, FieldAt(k, r.field, a, z),
         NEW c \in Nat, a < c, c <= z, NEW g \in Nat, IsSum(c, a, g)
  PROVE  /\ c < z => GotField(r, Run(k, a, g)) = Kept(r, Run(k, a, g)) /\ r.packet = k
         /\ c = z /\ r.field = Len(SizesOf(shapes[k])) => GotField(r, Run(k, a, g)) = LastField(r, k)
         /\ c = z /\ r.field # Len(SizesOf(shapes[k])) => GotField(r, Run(k, a, g)) = NextField(r, k)
<1> DEFINE S == SumOf(shapes[k])
<1> DEFINE f == r.field
<1> DEFINE n == Len(SizesOf(shapes[k]))
<1> DEFINE x == Run(k, a, g)
<1>1. f \in 1 .. n /\ a < c /\ c <= z /\ a = S[f - 1] /\ z = S[f] /\ c = a + g
  BY DEF FieldAt, IsSum
<1>2. /\ n \in Nat /\ S[0] = 0 /\ S[1] = 1
      /\ Sizes(k) = SizesOf(shapes[k]) /\ Sizes(k)[f] = z - a
      /\ BytesOf(k, Fields(shapes[k])[f]) = Run(k, a, z - a)
  <2>1. f \in 1 .. n
    BY <1>1
  <2>2. /\ n \in Nat /\ S[0] = 0 /\ S[1] = 1 /\ Sizes(k) = SizesOf(shapes[k]) /\ SizesOf(shapes[k])[f] = S[f] - S[f - 1]
        /\ BytesOf(k, Fields(shapes[k])[f]) = Run(k, S[f - 1], S[f] - S[f - 1])
    BY <2>1, FieldFacts
  <2> HIDE DEF S, n
  <2> QED BY <1>1, <2>2
<1>3. Len(x) = g /\ x[1] = <<k, a + 1>>
  <2>1. k \in Nat /\ 1 \in 1 .. g
    BY <1>1
  <2>2. Len(Run(k, a, g)) = g /\ \A i \in 1 .. g : Run(k, a, g)[i] = <<k, a + i>>
    <3>1. IsRun(Run(k, a, g), k, a, g)
      BY <2>1, RunIsRun
    <3> QED BY <3>1, Zenon DEF IsRun
  <2> QED BY <2>1, <2>2
<1>4. (IF r.packet = 0 THEN x[1][1] ELSE r.packet) = k
  BY <1>3
<1>5. GotField(r, x) =
        IF Len(x) < Sizes(k)[f] THEN [r EXCEPT !.got = x]
        ELSE IF x # BytesOf(k, Fields(shapes[k])[f]) THEN Broken(r)
        ELSE IF f = Len(Sizes(k)) THEN EndPacket([r EXCEPT !.packet = k])
        ELSE [r EXCEPT !.packet = k, !.field = f + 1, !.got = << >>]
  BY <1>1, <1>4 DEF GotField
<1>6. c < z => r.packet = k
  <2>1. SUFFICES ASSUME c < z, r.packet = 0 PROVE FALSE
    OBVIOUS
  <2>2. f = 1 /\ f - 1 = 0
    BY <2>1
  <2>3. a = 0 /\ z = 1
    BY <1>1, <1>2, <2>2
  <2> QED BY <1>1, <2>1, <2>3
<1>7. c < z => Len(x) < Sizes(k)[f]
  <2>1. Len(x) = g /\ Sizes(k)[f] = z - a /\ c = a + g /\ a \in Nat /\ z \in Nat /\ g \in Nat /\ c \in Nat
    BY <1>1, <1>2, <1>3
  <2> HIDE DEF x
  <2>2. c < z => g < z - a
    BY <2>1
  <2> QED BY <2>1, <2>2
<1>8. c = z => ~(Len(x) < Sizes(k)[f]) /\ z - a = g
  <2>1. Len(x) = g /\ Sizes(k)[f] = z - a /\ c = a + g /\ a \in Nat /\ z \in Nat /\ g \in Nat /\ c \in Nat
    BY <1>1, <1>2, <1>3
  <2> HIDE DEF x
  <2>2. c = z => z - a = g /\ ~(g < z - a)
    BY <2>1
  <2> QED BY <2>1, <2>2
<1>9. c = z => x = BytesOf(k, Fields(shapes[k])[f])
  BY <1>2, <1>8
<1> HIDE DEF x
<1>10. c < z => GotField(r, x) = [r EXCEPT !.got = x]
  BY <1>5, <1>7
<1>11. c = z => GotField(r, x) =
                IF f = n THEN EndPacket([r EXCEPT !.packet = k])
                ELSE [r EXCEPT !.packet = k, !.field = f + 1, !.got = << >>]
  BY <1>2, <1>5, <1>8, <1>9
<1> QED BY <1>6, <1>10, <1>11 DEF x, Kept, LastField, NextField

------------------------------------------------------------------------------
(* What a read makes of a reader that is not lost. *)

PacketLen(k) == Len(Encoding[shapes[k]][mode])

\* The reader is not lost, or has read the whole packet.
ReadOn(r, k, q) == Good(r, k, q, shapes[k], mode) \/ (q = PacketLen(k) /\ r = Finished(k))

\* How the fields of a packet lie to its frames.
LEMMA PlacesAre ==
  ASSUME NEW k \in Nat, shapes[k] \in Shapes, mode \in Settings
  PROVE  /\ Layout(Encoding[shapes[k]][mode], PlainTo(shapes[k], mode), AllBytes(shapes[k]), Blocks(shapes[k], mode),
                   FrameEnds(shapes[k], mode), DataEnds(shapes[k], mode))
         /\ PacketLen(k) \in Nat /\ PlainTo(shapes[k], mode) \in Nat \ {0}
         /\ PlainTo(shapes[k], mode) <= PacketLen(k)
         /\ \A f \in 1 .. Len(SizesOf(shapes[k])) :
              /\ ~(mode.on /\ f > Heads(shapes[k])) =>
                   /\ SumOf(shapes[k])[f] <= PlainTo(shapes[k], mode)
                   /\ f = Len(SizesOf(shapes[k])) => SumOf(shapes[k])[f] = PacketLen(k)
              /\ mode.on /\ f > Heads(shapes[k]) => PlainTo(shapes[k], mode) <= SumOf(shapes[k])[f - 1]
              /\ mode.on /\ f = Heads(shapes[k]) => SumOf(shapes[k])[f] = PlainTo(shapes[k], mode)
<1> DEFINE sh == shapes[k]
<1> DEFINE e == Encoding[sh][mode]
<1> DEFINE p == PlainTo(sh, mode)
<1> DEFINE t == AllBytes(sh)
<1> DEFINE b == Blocks(sh, mode)
<1> DEFINE o == FrameEnds(sh, mode)
<1> DEFINE d == DataEnds(sh, mode)
<1> DEFINE S == SumOf(sh)
<1> DEFINE n == Len(SizesOf(sh))
<1> DEFINE h == Heads(sh)
<1>1. Layout(e, p, t, b, o, d)
  BY LayoutIs
<1>2. mode.on \in BOOLEAN
  BY SettingsAreSettings
<1>3. p = IF mode.on THEN S[h] ELSE t
  BY DEF PlainTo, HeadBytes
<1>4. /\ n \in Nat /\ h \in Nat \ {0} /\ h <= n
      /\ \A f \in 0 .. n : S[f] \in Nat /\ S[f] <= t
      /\ S[n] = t /\ S[h] = HeadBytes(sh)
      /\ \A f \in 1 .. h : S[f] <= S[h]
      /\ \A f \in h + 1 .. n : S[h] <= S[f - 1]
  BY FieldFacts
<1> HIDE DEF sh, e, p, t, b, o, d, S, n, h
<1>5. /\ e \in Seq(Contents) /\ p \in Nat \ {0} /\ t \in Nat /\ Len(b) \in Nat
      /\ o[0] = p /\ d[0] = p /\ o[Len(b)] = Len(e) /\ d[Len(b)] = t
      /\ \A j \in 0 .. Len(b) :
           /\ o[j] \in Nat /\ d[j] \in Nat /\ p <= o[j] /\ o[j] <= Len(e)
           /\ j # Len(b) => d[j] < t
  BY <1>1 DEF Layout
<1>6. Len(e) \in Nat /\ p <= Len(e) /\ (p = t => Len(e) = p)
  <2>1. 0 \in 0 .. Len(b)
    BY <1>5
  <2>2. Len(e) \in Nat
    BY <1>5, LenProperties
  <2>3. p = t => Len(b) = 0
    BY <1>5, <2>1
  <2> QED BY <1>5, <2>1, <2>2, <2>3
<1>7. ASSUME NEW f \in 1 .. n
      PROVE  /\ ~(mode.on /\ f > h) => S[f] <= p /\ (f = n => S[f] = Len(e))
             /\ mode.on /\ f > h => p <= S[f - 1]
             /\ mode.on /\ f = h => S[f] = p
  <2>1. f \in 0 .. n /\ (~(f > h) => f \in 1 .. h) /\ (f > h => f \in h + 1 .. n)
    BY <1>4
  <2>2. CASE mode.on
    <3>1. p = S[h]
      BY <1>3, <2>2
    <3>2. ~(f > h) /\ f = n => h = n
      BY <1>4
    <3> QED BY <1>4, <1>6, <2>1, <2>2, <3>1, <3>2
  <2>3. CASE ~mode.on
    <3>1. p = t
      BY <1>3, <2>3
    <3> QED BY <1>4, <1>6, <2>1, <2>3, <3>1
  <2> QED BY <1>2, <2>2, <2>3
<1>8. PacketLen(k) = Len(e)
  BY DEF PacketLen, e, sh
<1> QED BY <1>1, <1>5, <1>6, <1>7, <1>8 DEF sh, e, p, t, b, o, d, S, n, h

\* A reader that has read q bytes, none of them from a frame.
PlainAt(r, k, q) ==
  /\ r \in Readers /\ ~r.broken /\ r.seen = Run(k, 0, q)
  /\ r.packet \in {0, k} /\ (r.packet = 0 => r.field = 1 /\ q = 0)
  /\ r.field \in 1 .. Len(SizesOf(shapes[k])) /\ ~(mode.on /\ r.field > Heads(shapes[k]))
  /\ SumOf(shapes[k])[r.field - 1] <= q /\ q < SumOf(shapes[k])[r.field]
  /\ r.got = Run(k, SumOf(shapes[k])[r.field - 1], q - SumOf(shapes[k])[r.field - 1])
  /\ r.mem = << >> /\ r.raw = << >>

\* It wants no more than the rest of its field, and is not lost when it gets some of that.
LEMMA ReadPlain ==
  ASSUME NEW k \in Nat \ {0}, shapes[k] \in Shapes, mode \in Settings, NEW q \in Nat, NEW r, PlainAt(r, k, q)
  PROVE  /\ ~InFrames(r) /\ Wanted(r) \in Nat \ {0} /\ q + Wanted(r) <= PacketLen(k)
         /\ \A w \in 1 .. Wanted(r) : ReadOn(Parsed(r, Run(k, q, w)), k, q + w)
<1> DEFINE sh == shapes[k]
<1> DEFINE e == Encoding[sh][mode]
<1> DEFINE p == PlainTo(sh, mode)
<1> DEFINE t == AllBytes(sh)
<1> DEFINE b == Blocks(sh, mode)
<1> DEFINE o == FrameEnds(sh, mode)
<1> DEFINE d == DataEnds(sh, mode)
<1> DEFINE S == SumOf(sh)
<1> DEFINE n == Len(SizesOf(sh))
<1> DEFINE h == Heads(sh)
<1> DEFINE f == r.field
<1> DEFINE a == S[f - 1]
<1> DEFINE z == S[f]
<1>1. /\ r \in Readers /\ ~r.broken /\ r.seen = Run(k, 0, q)
      /\ r.packet \in {0, k} /\ (r.packet = 0 => f = 1 /\ q = 0)
      /\ f \in 1 .. n /\ ~(mode.on /\ f > h) /\ a <= q /\ q < z
      /\ r.got = Run(k, a, q - a) /\ r.mem = << >> /\ r.raw = << >>
  BY DEF PlainAt
<1>2. /\ n \in Nat /\ h \in Nat \ {0} /\ h <= n /\ Sizes(k) = SizesOf(sh)
      /\ a \in Nat /\ z \in Nat /\ SizesOf(sh)[f] = z - a /\ S[0] = 0 /\ S[1] = 1
      /\ \A i \in 0 .. n : S[i] \in Nat /\ S[i] <= t
      /\ \A i \in 1 .. n : S[i - 1] \in Nat /\ S[i - 1] < S[i]
      /\ S[n] = t
  BY <1>1, FieldFacts
<1>3. /\ Layout(e, p, t, b, o, d) /\ PacketLen(k) = Len(e) /\ p \in Nat \ {0} /\ Len(e) \in Nat /\ p <= Len(e)
      /\ z <= p /\ (f = n => z = Len(e))
      /\ (mode.on /\ f = h => z = p)
  BY <1>1, PlacesAre DEF PacketLen
<1>4. mode.on \in BOOLEAN
  BY SettingsAreSettings
<1>5. InFrames(r) <=> r.packet # 0 /\ mode.on /\ f > Len(shapes[r.packet].head)
  BY DEF InFrames
<1>6. ~InFrames(r)
  BY <1>1, <1>5 DEF Heads
<1>20. FieldAt(k, f, a, z)
  BY <1>1 DEF FieldAt
<1> HIDE DEF e, p, t, b, o, d, S, n, h, a, z
<1>7. Wanted(r) = z - q
  <2>1. Wanted(r) = (IF r.packet = 0 THEN 1 ELSE Sizes(r.packet)[f]) - Len(r.got)
    BY <1>6 DEF Wanted
  <2>2. Len(r.got) = q - a
    <3> DEFINE w == q - a
    <3>1. w \in Nat /\ k \in Nat /\ a \in Nat /\ r.got = Run(k, a, w)
      BY <1>1, <1>2
    <3> HIDE DEF w, a
    <3>2. Len(Run(k, a, w)) = w
      BY <3>1, RunOfPairs
    <3> QED BY <3>1, <3>2 DEF w
  <2>3. r.packet = 0 => z - a = 1
    <3>1. f = 1 => f - 1 = 0
      OBVIOUS
    <3>2. f = 1 => z - a = 1
      BY <1>2, <3>1 DEF a, z
    <3> QED BY <1>1, <3>2
  <2>4. (IF r.packet = 0 THEN 1 ELSE Sizes(r.packet)[f]) = z - a
    BY <1>1, <1>2, <2>3
  <2> QED BY <1>1, <1>2, <2>1, <2>2, <2>4
<1>8. Wanted(r) \in Nat \ {0} /\ q + Wanted(r) <= PacketLen(k)
  <2> DEFINE w == Wanted(r)
  <2> DEFINE l == PacketLen(k)
  <2>1. w = z - q /\ z \in Nat /\ q \in Nat /\ q < z
    BY <1>1, <1>2, <1>7
  <2>2. z <= l /\ l \in Nat
    BY <1>2, <1>3
  <2> HIDE DEF w, l
  <2>3. w \in Nat \ {0}
    BY <2>1
  <2>4. q + w <= l
    BY <2>1, <2>2
  <2> QED BY <2>3, <2>4 DEF w, l
<1>9. ASSUME NEW w \in 1 .. Wanted(r) PROVE ReadOn(Parsed(r, Run(k, q, w)), k, q + w)
  <2> DEFINE tokens == Run(k, q, w)
  <2> DEFINE c == q + w
  <2> DEFINE g == c - a
  <2>1. w \in Nat \ {0} /\ w \in Nat /\ c \in Nat /\ c <= z /\ g \in Nat /\ k \in Nat
    BY <1>1, <1>2, <1>7
  <2>2. tokens \in Seq(Pairs) /\ Len(tokens) = w /\ DOMAIN tokens = 1 .. w /\ \A i \in 1 .. w : tokens[i] = <<k, q + i>>
    <3>1. IsRun(tokens, k, q, w)
      BY <2>1, RunIsRun
    <3> QED BY <3>1, Zenon DEF IsRun, Pairs
  <2>3. Joins(Run(k, 0, q), tokens, Run(k, 0, c)) /\ Joins(Run(k, a, q - a), tokens, Run(k, a, g))
    <3> DEFINE u == q - a
    <3>3. a \in Nat /\ q \in Nat /\ a <= q /\ w \in Nat
      BY <1>1, <1>2, <2>1
    <3> HIDE DEF a
    <3>4. u \in Nat /\ 0 \in Nat
      BY <3>3
    <3>5. IsSum(q, 0, q) /\ IsSum(c, q, w)
      BY <3>3 DEF IsSum
    <3>6. IsSum(q, a, u)
      BY <3>3 DEF IsSum
    <3>7. IsSum(g, u, w)
      BY <3>3 DEF IsSum
    <3>1. /\ u \in Nat /\ 0 \in Nat /\ a \in Nat /\ IsSum(q, 0, q) /\ IsSum(c, q, w) /\ IsSum(q, a, u) /\ IsSum(g, u, w)
      BY <3>3, <3>4, <3>5, <3>6, <3>7
    <3> HIDE DEF u, c, g
    <3>2. Joins(Run(k, 0, q), Run(k, q, w), Run(k, 0, c)) /\ Joins(Run(k, a, u), Run(k, q, w), Run(k, a, g))
      BY <2>1, <3>1, RunsJoin
    <3> QED BY <3>2 DEF u
  <2>4. Run(k, 0, c) \in Seq(Pairs) /\ Run(k, a, g) \in Seq(Pairs)
    <3> HIDE DEF c, g, a
    <3> QED BY <1>2, <2>1, RunOfPairs DEF Pairs
  <2>5. ASSUME NEW i \in 1 .. w PROVE AsByte(tokens[i]) = tokens[i]
    <3>1. q + i \in 1 .. Len(e) /\ q + i <= p
      BY <1>2, <1>3, <2>1
    <3> DEFINE x == q + i
    <3>2. tokens[i] = <<k, x>> /\ x \in 1 .. Len(e) /\ x <= p
      BY <2>2, <3>1
    <3> HIDE DEF x
    <3>3. e[x] = [byte |-> x]
      BY <1>3, <3>2 DEF Layout
    <3>4. Content(<<k, x>>) = e[x]
      BY DEF Content, Owner, e
    <3>5. AsByte(<<k, x>>) = <<k, x>>
      BY <3>3, <3>4 DEF AsByte, Owner
    <3> QED BY <3>2, <3>5
  <2>6. Map(AsByte, tokens) = tokens
    <3>1. tokens = [i \in 1 .. w |-> tokens[i]] /\ DOMAIN tokens = 1 .. w
      BY <2>2
    <3> HIDE DEF tokens
    <3>2. [i \in DOMAIN tokens |-> AsByte(tokens[i])] = tokens
      BY <2>5, <3>1
    <3> QED BY <3>2 DEF Map
  <2> DEFINE r1 == [r EXCEPT !.seen = r.seen \o tokens]
  <2>7. r1 \in Readers /\ r1 = [r EXCEPT !.seen = Run(k, 0, c)]
    <3>1. r.seen \o tokens = Run(k, 0, c)
      BY <1>1, <2>3 DEF Joins
    <3> QED BY <1>1, <2>4, <3>1 DEF Readers
  <2>8. /\ r1.packet = r.packet /\ r1.field = f /\ r1.got = r.got /\ r1.mem = r.mem /\ r1.raw = r.raw
        /\ r1.broken = r.broken /\ r1.seen = Run(k, 0, c)
    BY <1>1, <2>7 DEF Readers
  <2> DEFINE got == r.got \o Map(AsByte, tokens)
  <2>9. got = Run(k, a, g)
    BY <1>1, <2>3, <2>6 DEF Joins
  <2>10. Parsed(r, tokens) = GotField(r1, got)
    <3>1. ~InFrames(r1)
      BY <1>1, <1>5, <1>6, <2>8 DEF InFrames
    <3>2. r1.packet = 0 => AsByte(tokens[1])[2] = 1
      <4>1. 1 \in 1 .. w
        BY <2>1
      <4>2. AsByte(tokens[1]) = <<k, q + 1>>
        BY <2>2, <2>5, <4>1
      <4> QED BY <1>1, <2>8, <4>2
    <3> HIDE DEF tokens
    <3>3. Parsed(r, tokens) =
            IF InFrames(r1) THEN GotFrame(r1, r1.raw \o tokens)
            ELSE IF r1.packet = 0 /\ AsByte(tokens[1])[2] # 1 THEN Broken(r1)
            ELSE GotField(r1, r1.got \o Map(AsByte, tokens))
      BY DEF Parsed
    <3> HIDE DEF r1
    <3> QED BY <2>8, <3>1, <3>2, <3>3
  <2> HIDE DEF tokens, r1, got, c, a, z, g
  <2> DEFINE r2 == GotField(r1, got)
  <2>11. /\ a < c /\ c <= z
    BY <1>1, <1>2, <2>1 DEF c
  <2>12. /\ c < z => r2 = Kept(r1, got) /\ r1.packet = k
         /\ c = z /\ f = n => r2 = LastField(r1, k)
         /\ c = z /\ f # n => r2 = NextField(r1, k)
    <3>1. r1.packet \in {0, k} /\ (r1.packet = 0 => r1.field = 1) /\ FieldAt(k, r1.field, a, z)
      BY <1>1, <1>20, <2>8
    <3>2. a \in Nat /\ z \in Nat /\ g \in Nat /\ c \in Nat /\ IsSum(c, a, g)
      BY <1>1, <1>2, <2>1 DEF g, c, IsSum
    <3>3. r1 \in Readers
      BY <2>7
    <3>4. /\ c < z => GotField(r1, Run(k, a, g)) = Kept(r1, Run(k, a, g)) /\ r1.packet = k
          /\ c = z /\ r1.field = Len(SizesOf(shapes[k])) => GotField(r1, Run(k, a, g)) = LastField(r1, k)
          /\ c = z /\ r1.field # Len(SizesOf(shapes[k])) => GotField(r1, Run(k, a, g)) = NextField(r1, k)
      BY <2>11, <3>1, <3>2, <3>3, GotFieldIs
    <3> QED BY <2>8, <2>9, <3>4 DEF n
  <2> HIDE DEF r2
  <2>13. c # 0
    BY <2>1 DEF c
  <2>14. CASE c < z
    <3>1. r2 = [r1 EXCEPT !.got = got] /\ r1.packet = k
      BY <2>12, <2>14 DEF Kept
    <3>2. /\ r2 \in Readers /\ r2.packet = k /\ r2.field = f /\ r2.got = got /\ r2.mem = << >> /\ r2.raw = << >>
          /\ ~r2.broken /\ r2.seen = Run(k, 0, c)
      BY <1>1, <2>4, <2>7, <2>8, <2>9, <3>1 DEF Readers
    <3>3. InField(r2, k, c, shapes[k])
      <4>1. r2.got = Run(k, a, c - a) /\ a <= c /\ c < z
        BY <1>2, <2>1, <2>9, <2>11, <2>14, <3>2 DEF g
      <4> QED BY <1>1, <3>2, <4>1 DEF InField, a, z, n, S
    <3>4. InPlain(r2, c, c)
      BY <3>2 DEF InPlain
    <3>5. Good(r2, k, c, shapes[k], mode)
      BY <1>1, <2>1, <2>13, <3>2, <3>3, <3>4 DEF Good, h
    <3> QED BY <2>10, <3>5 DEF ReadOn, r2, tokens, c
  <2>15. CASE c = z /\ f = n
    <3>1. r2 = EndPacket([r1 EXCEPT !.packet = k])
      BY <2>12, <2>15 DEF LastField
    <3>2. [r1 EXCEPT !.packet = k].mem = << >> /\ [r1 EXCEPT !.packet = k].packet = k
      BY <1>1, <2>7, <2>8 DEF Readers
    <3>3. r2 = Finished(k)
      BY <3>1, <3>2 DEF EndPacket, Finished
    <3>4. c = PacketLen(k)
      BY <1>3, <2>15
    <3> QED BY <2>10, <3>3, <3>4 DEF ReadOn, r2, tokens, c
  <2>16. CASE c = z /\ f # n
    <3>1. r2 = [r1 EXCEPT !.packet = k, !.field = f + 1, !.got = << >>]
      BY <2>8, <2>12, <2>16 DEF NextField
    <3>2. /\ r2 \in Readers /\ r2.packet = k /\ r2.field = f + 1 /\ r2.got = << >> /\ r2.mem = << >> /\ r2.raw = << >>
          /\ ~r2.broken /\ r2.seen = Run(k, 0, c)
      <4>1. << >> \in Seq(Pairs) /\ f + 1 \in Nat /\ k \in Nat
        BY <1>1, <2>1
      <4> QED BY <1>1, <2>7, <2>8, <3>1, <4>1 DEF Readers
    <3>3. f + 1 \in 1 .. n /\ (f + 1) - 1 = f
      <4>1. f \in 1 .. n /\ n \in Nat /\ f # n
        BY <1>1, <1>2, <2>16
      <4> HIDE DEF f
      <4> QED BY <4>1
    <3>4. S[(f + 1) - 1] = c /\ c < S[f + 1] /\ S[f + 1] <= t
      <4>1. S[(f + 1) - 1] = z /\ S[(f + 1) - 1] < S[f + 1] /\ f + 1 \in 0 .. n
        BY <1>2, <3>3 DEF z
      <4> QED BY <1>2, <2>16, <4>1
    <3>5. \A x : Run(k, x, c - c) = << >>
      <4>1. c - c = 0
        BY <2>1
      <4> QED BY <4>1 DEF Run
    <3> DEFINE f2 == f + 1
    <3>6. InField(r2, k, c, shapes[k])
      <4>1. r2.field = f2 /\ f2 \in 1 .. n /\ S[f2 - 1] = c /\ c < S[f2] /\ r2.got = Run(k, c, c - c)
        BY <3>2, <3>3, <3>4, <3>5
      <4> HIDE DEF f2
      <4>2. S[f2 - 1] <= c
        BY <2>1, <4>1
      <4> QED BY <3>2, <4>1, <4>2 DEF InField, n, S
    <3>7. CASE mode.on /\ f2 > h
      <4>1. c = p
        <5>1. f = h
          BY <1>1, <1>2, <3>7
        <5> QED BY <1>3, <2>16, <3>7, <5>1
      <4>2. /\ o[0] = p /\ d[0] = p /\ Len(b) \in Nat /\ d[Len(b)] = t /\ t \in Nat
            /\ \A j \in 0 .. Len(b) - 1 : FrameSize(b[j + 1]) \in Nat /\ FrameSize(b[j + 1]) >= 2
                                          /\ o[j + 1] = o[j] + FrameSize(b[j + 1])
        BY <1>3 DEF Layout
      <4>3. 0 # Len(b)
        <5>1. c < t /\ p \in Nat /\ t \in Nat
          <6>1. S[f + 1] \in Nat /\ c < S[f + 1] /\ S[f + 1] <= t /\ t \in Nat /\ c \in Nat
            BY <1>2, <2>1, <3>3, <3>4, <4>2
          <6> QED BY <1>3, <6>1
        <5> QED BY <4>1, <4>2, <5>1
      <4>4. c < o[0 + 1]
        <5>1. 0 \in 0 .. Len(b) - 1
          BY <4>2, <4>3
        <5>2. FrameSize(b[0 + 1]) \in Nat /\ FrameSize(b[0 + 1]) >= 2 /\ o[0 + 1] = o[0] + FrameSize(b[0 + 1])
          BY <4>2, <5>1
        <5> QED BY <1>3, <4>1, <4>2, <5>2
      <4> HIDE DEF b, o, d
      <4>5. InFrame(r2, k, c, c, Len(b), o, d, 0)
        <5>1. /\ c <= d[0] /\ r2.mem = Run(k, c, d[0] - c)
              /\ o[0] <= c /\ r2.raw = Run(k, o[0], c - o[0])
          BY <1>3, <2>1, <3>2, <3>5, <4>1, <4>2
        <5> QED BY <4>1, <4>2, <4>3, <4>4, <5>1 DEF InFrame
      <4>6. 0 \in 0 .. Len(b)
        BY <4>2
      <4>7. Good(r2, k, c, shapes[k], mode)
        BY <2>1, <2>13, <3>2, <3>6, <3>7, <4>5, <4>6 DEF Good, b, o, d, h
      <4> QED BY <2>10, <4>7 DEF ReadOn, r2, tokens, c
    <3>8. CASE ~(mode.on /\ f2 > h)
      <4>1. InPlain(r2, c, c)
        BY <3>2 DEF InPlain
      <4>2. Good(r2, k, c, shapes[k], mode)
        BY <2>1, <2>13, <3>2, <3>6, <3>8, <4>1 DEF Good, h
      <4> QED BY <2>10, <4>2 DEF ReadOn, r2, tokens, c
    <3> QED BY <3>7, <3>8
  <2>17. c < z \/ c = z
    BY <1>2, <2>1, <2>11
  <2> QED BY <2>14, <2>15, <2>16, <2>17
<1> QED BY <1>6, <1>8, <1>9

------------------------------------------------------------------------------
(* Frames. *)

KeptRaw(r, raw) == [r EXCEPT !.raw = raw]
Opened(r, mem) == [r EXCEPT !.raw = << >>, !.mem = mem]

\* The next frame behind the first j begins behind a, and is z long.
FrameAt(k, j, a, z) ==
  /\ j \in 0 .. Len(Blocks(shapes[k], mode)) - 1
  /\ a = FrameEnds(shapes[k], mode)[j] /\ z = FrameSize(Blocks(shapes[k], mode)[j + 1])

\* The tokens of a frame are kept until they are all there, and then its data is the block.
LEMMA GotFrameIs ==
  ASSUME NEW k \in Nat \ {0}, shapes[k] \in Shapes, mode \in Settings, NEW r,
         NEW j, NEW a \in Nat, NEW z \in Nat, FrameAt(k, j, a, z), NEW u \in Nat \ {0}, u <= z
  PROVE  /\ u >= 2 => FrameSize(Content(Run(k, a, u)[2]).header) = z
         /\ u < z => GotFrame(r, Run(k, a, u)) = KeptRaw(r, Run(k, a, u))
         /\ u = z => GotFrame(r, Run(k, a, u)) =
                       Opened(r, Run(k, DataEnds(shapes[k], mode)[j],
                                     DataEnds(shapes[k], mode)[j + 1] - DataEnds(shapes[k], mode)[j]))
<1> DEFINE e == Encoding[shapes[k]][mode]
<1> DEFINE p == PlainTo(shapes[k], mode)
<1> DEFINE t == AllBytes(shapes[k])
<1> DEFINE b == Blocks(shapes[k], mode)
<1> DEFINE o == FrameEnds(shapes[k], mode)
<1> DEFINE d == DataEnds(shapes[k], mode)
<1> DEFINE x == Run(k, a, u)
<1> DEFINE block == b[j + 1]
<1> DEFINE y == Run(k, d[j], d[j + 1] - d[j])
<1>1. Layout(e, p, t, b, o, d)
  BY LayoutIs
<1>2. x \in Seq(Nat \X Nat) /\ Len(x) = u /\ DOMAIN x = 1 .. u /\ \A i \in 1 .. u : x[i] = <<k, a + i>>
  <2>1. k \in Nat /\ u \in Nat
    OBVIOUS
  <2> QED BY <2>1, RunOfPairs
<1>3. Content(<<k, a + 1>>) = e[a + 1] /\ Content(<<k, a + 2>>) = e[a + 2]
  BY DEF Content, Owner
<1>4. a = o[j] /\ z = FrameSize(block) /\ j \in 0 .. Len(b) - 1
  BY DEF FrameAt
<1> HIDE DEF e, p, t, b, o, d, x
<1>5. /\ z >= 2 /\ e[a + 1] = [hash |-> block] /\ e[a + 2] = [header |-> block]
      /\ Len(b) \in Nat /\ d[j] \in Nat /\ d[j + 1] \in Nat /\ d[j] < d[j + 1]
      /\ block = [i \in 1 .. d[j + 1] - d[j] |-> d[j] + i]
  <2>1. Len(b) \in Nat
    BY <1>1 DEF Layout
  <2>2. j \in 0 .. Len(b) /\ j + 1 \in 0 .. Len(b)
    BY <1>4, <2>1
  <2> QED BY <1>1, <1>4, <2>1, <2>2 DEF Layout
<1>6. 1 \in 1 .. u /\ (u >= 2 => 2 \in 1 .. u)
  OBVIOUS
<1> HIDE DEF block
<1>7. Content(x[1]) = [hash |-> block]
  BY <1>2, <1>3, <1>5, <1>6
<1>8. u >= 2 => Content(x[2]) = [header |-> block]
  BY <1>2, <1>3, <1>5, <1>6
<1>9. DOMAIN [hash |-> block] = {"hash"} /\ DOMAIN [header |-> block] = {"header"}
  OBVIOUS
<1>10. [hash |-> block].hash = block /\ [header |-> block].header = block
  OBVIOUS
<1>11. Owner(x[1]) = k /\ x[1][2] = a + 1
  BY <1>2, <1>6 DEF Owner
<1>12. u = z => HashMatches(x)
  <2>1. ASSUME NEW n \in 1 .. u PROVE x[n] = <<k, (a + 1) + n - 1>>
    <3>1. (a + 1) + n - 1 = a + n
      OBVIOUS
    <3> QED BY <1>2, <3>1
  <2> QED BY <1>2, <1>4, <1>7, <1>9, <1>10, <1>11, <2>1 DEF HashMatches
<1>13. BytesOf(k, block) = y
  <2>1. DOMAIN block = 1 .. d[j + 1] - d[j] /\ \A i \in 1 .. d[j + 1] - d[j] : block[i] = d[j] + i
    BY <1>5
  <2> QED BY <2>1 DEF BytesOf, Run
<1> HIDE DEF y
<1>14. GotFrame(r, x) =
         IF Len(x) < 2 THEN [r EXCEPT !.raw = x]
         ELSE IF DOMAIN Content(x[2]) # {"header"} THEN Broken(r)
         ELSE IF Len(x) < FrameSize(Content(x[2]).header) THEN [r EXCEPT !.raw = x]
         ELSE IF ~HashMatches(x) THEN Broken(r)
         ELSE [r EXCEPT !.raw = << >>, !.mem = BytesOf(Owner(x[1]), Content(x[1]).hash)]
  BY DEF GotFrame
<1>15. u >= 2 => FrameSize(Content(x[2]).header) = z
  BY <1>4, <1>8, <1>10
<1>16. u >= 2 => DOMAIN Content(x[2]) = {"header"}
  BY <1>8, <1>9
<1>17. CASE u < 2
  <2>1. u < z /\ u # z
    BY <1>5, <1>17
  <2> QED BY <1>2, <1>14, <1>17, <2>1 DEF KeptRaw, x
<1>18. CASE u >= 2
  <2>1. u < z => GotFrame(r, x) = [r EXCEPT !.raw = x]
    BY <1>2, <1>14, <1>15, <1>16, <1>18
  <2>2. u = z => GotFrame(r, x) = [r EXCEPT !.raw = << >>, !.mem = y]
    <3>1. BytesOf(Owner(x[1]), Content(x[1]).hash) = y
      BY <1>7, <1>10, <1>11, <1>13
    <3> QED BY <1>2, <1>12, <1>14, <1>15, <1>16, <1>18, <3>1
  <2> QED BY <1>15, <2>1, <2>2 DEF KeptRaw, Opened, x, y, d
<1> QED BY <1>17, <1>18

------------------------------------------------------------------------------
(* Frames that are read. *)

\* A reader that has used up the first j frames, and has read a part of the next.
BetweenFrames(r, k, q, c, j) ==
  /\ r \in Readers /\ ~r.broken /\ r.seen = Run(k, 0, q)
  /\ InField(r, k, c, shapes[k]) /\ mode.on /\ r.field > Heads(shapes[k])
  /\ j \in 0 .. Len(Blocks(shapes[k], mode)) - 1
  /\ c = DataEnds(shapes[k], mode)[j] /\ r.mem = << >>
  /\ FrameEnds(shapes[k], mode)[j] <= q /\ q < FrameEnds(shapes[k], mode)[j + 1]
  /\ r.raw = Run(k, FrameEnds(shapes[k], mode)[j], q - FrameEnds(shapes[k], mode)[j])

\* It wants no more than the rest of its frame, and is not lost when it gets some of that.
LEMMA ReadFrames ==
  ASSUME NEW k \in Nat \ {0}, shapes[k] \in Shapes, mode \in Settings, NEW q \in Nat,
         NEW c \in Nat, NEW j, NEW r, BetweenFrames(r, k, q, c, j)
  PROVE  /\ InFrames(r) /\ Wanted(r) \in Nat \ {0} /\ q + Wanted(r) <= PacketLen(k)
         /\ \A w \in 1 .. Wanted(r) : ReadOn(Parsed(r, Run(k, q, w)), k, q + w)
<1> DEFINE sh == shapes[k]
<1> DEFINE e == Encoding[sh][mode]
<1> DEFINE p == PlainTo(sh, mode)
<1> DEFINE t == AllBytes(sh)
<1> DEFINE b == Blocks(sh, mode)
<1> DEFINE o == FrameEnds(sh, mode)
<1> DEFINE d == DataEnds(sh, mode)
<1> DEFINE h == Heads(sh)
<1> DEFINE J == Len(b)
<1> DEFINE a == o[j]
<1> DEFINE z == FrameSize(b[j + 1])
<1> DEFINE x == q - a
<1>1. /\ r \in Readers /\ ~r.broken /\ r.seen = Run(k, 0, q)
      /\ InField(r, k, c, shapes[k]) /\ mode.on /\ r.field > h
      /\ j \in 0 .. J - 1 /\ c = d[j] /\ r.mem = << >> /\ a <= q /\ q < o[j + 1] /\ r.raw = Run(k, a, x)
  BY DEF BetweenFrames
<1>2. Layout(e, p, t, b, o, d) /\ PacketLen(k) = Len(e)
  BY LayoutIs DEF PacketLen
<1>3. FrameAt(k, j, a, z)
  BY <1>1 DEF FrameAt
<1> HIDE DEF e, p, t, b, o, d, h
<1>4. J \in Nat /\ Len(e) \in Nat /\ o[J] = Len(e)
  <2>1. J \in Nat /\ e \in Seq(Contents) /\ o[J] = Len(e)
    BY <1>2 DEF Layout
  <2> QED BY <2>1, LenProperties
<1>5. /\ a \in Nat /\ z \in Nat /\ z >= 2 /\ o[j + 1] = a + z /\ a + z <= Len(e) /\ a > 0
      /\ d[j] \in Nat /\ d[j + 1] \in Nat /\ d[j] < d[j + 1] /\ j + 1 \in 0 .. J
  <2>1. j \in 0 .. J /\ j + 1 \in 0 .. J
    BY <1>1, <1>4
  <2>2. o[j] \in Nat /\ d[j] \in Nat /\ p <= o[j] /\ p \in Nat \ {0}
    BY <1>2, <2>1 DEF Layout
  <2>3. o[j + 1] \in Nat /\ d[j + 1] \in Nat /\ o[j + 1] <= Len(e)
    BY <1>2, <2>1 DEF Layout
  <2>4. /\ FrameSize(b[j + 1]) \in Nat /\ FrameSize(b[j + 1]) >= 2 /\ o[j + 1] = o[j] + FrameSize(b[j + 1])
        /\ d[j] < d[j + 1]
    BY <1>1, <1>2 DEF Layout
  <2> QED BY <2>1, <2>2, <2>3, <2>4
<1>6. r.packet = k /\ r.packet \in Nat
  BY <1>1 DEF InField
<1>7. InFrames(r)
  BY <1>1, <1>6 DEF InFrames, h, Heads
<1>8. x \in Nat /\ x < z /\ q > 0
  BY <1>1, <1>5, SMTT(30)
<1> HIDE DEF a, z, x
<1>9. Len(r.raw) = x
  <2>1. k \in Nat
    OBVIOUS
  <2>2. Len(Run(k, a, x)) = x
    BY <1>5, <1>8, <2>1, RunOfPairs
  <2> QED BY <1>1, <2>2
<1>10. Wanted(r) = IF x < 2 THEN 1 ELSE z - x
  <2>1. Wanted(r) = IF Len(r.raw) < 2 THEN 1 ELSE FrameSize(Content(r.raw[2]).header) - Len(r.raw)
    BY <1>7 DEF Wanted
  <2>2. x >= 2 => FrameSize(Content(Run(k, a, x)[2]).header) = z
    <3>1. SUFFICES ASSUME x >= 2 PROVE FrameSize(Content(Run(k, a, x)[2]).header) = z
      OBVIOUS
    <3>2. x \in Nat \ {0} /\ x <= z
      BY <1>5, <1>8, <3>1
    <3> QED BY <1>3, <1>5, <3>1, <3>2, GotFrameIs
  <2> QED BY <1>1, <1>8, <1>9, <2>1, <2>2
<1>11. Wanted(r) \in Nat \ {0} /\ x + Wanted(r) <= z /\ q = a + x
  <2>1. q = a + x
    BY <1>5 DEF x
  <2> QED BY <1>5, <1>8, <1>10, <2>1
<1>12. q + Wanted(r) <= PacketLen(k)
  BY <1>2, <1>4, <1>5, <1>8, <1>11
<1>13. ASSUME NEW w \in 1 .. Wanted(r) PROVE ReadOn(Parsed(r, Run(k, q, w)), k, q + w)
  <2> DEFINE tokens == Run(k, q, w)
  <2> DEFINE v == q + w
  <2> DEFINE u == x + w
  <2>1. /\ w \in Nat \ {0} /\ w \in Nat /\ v \in Nat /\ v > 0 /\ u \in Nat \ {0} /\ u \in Nat /\ u <= z /\ v = a + u
        /\ k \in Nat
    BY <1>5, <1>8, <1>11
  <2>2. Joins(Run(k, 0, q), tokens, Run(k, 0, v)) /\ Joins(Run(k, a, x), tokens, Run(k, a, u))
    <3>1. 0 \in Nat /\ IsSum(q, 0, q) /\ IsSum(v, q, w) /\ IsSum(q, a, x) /\ IsSum(u, x, w)
      BY <1>5, <1>8, <1>11, <2>1 DEF IsSum
    <3> HIDE DEF v, u
    <3> QED BY <1>5, <1>8, <2>1, <3>1, RunsJoin
  <2>3. Run(k, 0, v) \in Seq(Pairs) /\ Run(k, a, u) \in Seq(Pairs)
    <3> HIDE DEF v, u
    <3> QED BY <1>5, <2>1, RunOfPairs DEF Pairs
  <2> DEFINE r1 == [r EXCEPT !.seen = r.seen \o tokens]
  <2>4. r1 \in Readers /\ r1 = [r EXCEPT !.seen = Run(k, 0, v)]
    <3>1. r.seen \o tokens = Run(k, 0, v)
      BY <1>1, <2>2 DEF Joins
    <3> QED BY <1>1, <2>3, <3>1 DEF Readers
  <2>5. /\ r1.packet = r.packet /\ r1.field = r.field /\ r1.got = r.got /\ r1.mem = << >> /\ r1.raw = r.raw
        /\ ~r1.broken /\ r1.seen = Run(k, 0, v)
    BY <1>1, <2>4 DEF Readers
  <2> DEFINE raw == r.raw \o tokens
  <2>6. raw = Run(k, a, u)
    BY <1>1, <2>2 DEF Joins
  <2>7. Parsed(r, tokens) = GotFrame(r1, raw)
    <3>1. InFrames(r1)
      BY <1>7, <2>5 DEF InFrames
    <3>2. Parsed(r, tokens) =
            IF InFrames(r1) THEN GotFrame(r1, r1.raw \o tokens)
            ELSE IF r1.packet = 0 /\ AsByte(tokens[1])[2] # 1 THEN Broken(r1)
            ELSE GotField(r1, r1.got \o Map(AsByte, tokens))
      BY DEF Parsed
    <3> HIDE DEF r1, tokens
    <3> QED BY <2>5, <3>1, <3>2
  <2> DEFINE r2 == GotFrame(r1, raw)
  <2> HIDE DEF tokens, r1, raw, v, u
  <2>8. /\ u < z => GotFrame(r1, Run(k, a, u)) = KeptRaw(r1, Run(k, a, u))
        /\ u = z => GotFrame(r1, Run(k, a, u)) = Opened(r1, Run(k, d[j], d[j + 1] - d[j]))
    BY <1>3, <1>5, <2>1, GotFrameIs DEF d
  <2> HIDE DEF r2
  <2>9. InField(r1, k, c, shapes[k])
    BY <1>1, <2>5 DEF InField
  <2>10. CASE u < z
    <3>1. r2 = [r1 EXCEPT !.raw = Run(k, a, u)]
      BY <2>6, <2>8, <2>10 DEF KeptRaw, r2
    <3>2. /\ r2 \in Readers /\ r2.packet = r1.packet /\ r2.field = r1.field /\ r2.got = r1.got /\ r2.mem = << >>
          /\ r2.raw = Run(k, a, u) /\ ~r2.broken /\ r2.seen = Run(k, 0, v)
      BY <2>3, <2>4, <2>5, <3>1 DEF Readers
    <3>3. InField(r2, k, c, shapes[k])
      BY <2>9, <3>2 DEF InField
    <3>4. InFrame(r2, k, v, c, J, o, d, j)
      <4>1. d[j] - c = 0 /\ c <= d[j] /\ d[j] = c
        BY <1>1, <1>5
      <4>2. Run(k, c, d[j] - c) = << >>
        BY <4>1 DEF Run
      <4>3. o[j] <= v /\ v - o[j] = u /\ j # J /\ v < o[j + 1]
        BY <1>1, <1>4, <1>5, <2>1, <2>10, SMTT(30) DEF a
      <4> QED BY <3>2, <4>1, <4>2, <4>3 DEF InFrame, a
    <3>5. j \in 0 .. J /\ mode.on /\ r2.field > h
      BY <1>1, <1>4, <2>5, <3>2
    <3>6. Good(r2, k, v, shapes[k], mode)
      BY <1>5, <2>1, <3>2, <3>3, <3>4, <3>5 DEF Good, J, b, o, d, h
    <3> QED BY <2>7, <3>6 DEF ReadOn, r2, tokens, v
  <2>11. CASE u = z
    <3> DEFINE y == Run(k, d[j], d[j + 1] - d[j])
    <3>1. r2 = [r1 EXCEPT !.raw = << >>, !.mem = y]
      BY <2>6, <2>8, <2>11 DEF Opened, r2
    <3>2. y \in Seq(Pairs) /\ << >> \in Seq(Pairs)
      <4> DEFINE l == d[j + 1] - d[j]
      <4> DEFINE s == d[j]
      <4>1. l \in Nat /\ s \in Nat
        BY <1>5
      <4> HIDE DEF l, s
      <4>2. Run(k, s, l) \in Seq(Pairs)
        BY <2>1, <4>1, RunOfPairs DEF Pairs
      <4> QED BY <4>2 DEF l, s
    <3> HIDE DEF y
    <3>3. /\ r2 \in Readers /\ r2.packet = r1.packet /\ r2.field = r1.field /\ r2.got = r1.got /\ r2.mem = y
          /\ r2.raw = << >> /\ ~r2.broken /\ r2.seen = Run(k, 0, v)
      BY <2>4, <2>5, <3>1, <3>2 DEF Readers
    <3>4. InField(r2, k, c, shapes[k])
      BY <2>9, <3>3 DEF InField
    <3> DEFINE i == j + 1
    <3>5. i \in 0 .. J /\ o[i] = v
      BY <1>5, <2>1, <2>11
    <3>6. i # J => v < o[i + 1]
      <4>1. SUFFICES ASSUME i # J PROVE v < o[i + 1]
        OBVIOUS
      <4>2. i \in 0 .. J - 1
        BY <1>4, <3>5, <4>1
      <4> HIDE DEF i
      <4>3. FrameSize(b[i + 1]) \in Nat /\ FrameSize(b[i + 1]) >= 2 /\ o[i + 1] = o[i] + FrameSize(b[i + 1])
        BY <1>2, <4>2 DEF Layout
      <4> QED BY <2>1, <3>5, <4>3
    <3>7. InFrame(r2, k, v, c, J, o, d, i)
      <4>1. c <= d[i] /\ y = Run(k, c, d[i] - c)
        BY <1>1, <1>5 DEF y
      <4>2. v - o[i] = 0 /\ o[i] <= v
        BY <2>1, <3>5
      <4>3. Run(k, o[i], v - o[i]) = << >>
        BY <4>2 DEF Run
      <4> HIDE DEF i
      <4> QED BY <3>3, <3>5, <3>6, <4>1, <4>2, <4>3 DEF InFrame
    <3>8. mode.on /\ r2.field > h
      BY <1>1, <2>5, <3>3
    <3> HIDE DEF i
    <3>9. Good(r2, k, v, shapes[k], mode)
      BY <1>5, <2>1, <3>3, <3>4, <3>5, <3>7, <3>8 DEF Good, J, b, o, d, h
    <3> QED BY <2>7, <3>9 DEF ReadOn, r2, tokens, v
  <2> QED BY <1>5, <2>1, <2>10, <2>11
<1> QED BY <1>7, <1>11, <1>12, <1>13

------------------------------------------------------------------------------
(* Frames that were read. *)

\* A reader with bytes of the first j frames left.
OfFrames(r, k, q, c, j) ==
  /\ r \in Readers /\ ~r.broken /\ r.seen = Run(k, 0, q)
  /\ InField(r, k, c, shapes[k]) /\ mode.on /\ r.field > Heads(shapes[k])
  /\ j \in 0 .. Len(Blocks(shapes[k], mode)) /\ r.mem # << >>
  /\ InFrame(r, k, q, c, Len(Blocks(shapes[k], mode)), FrameEnds(shapes[k], mode), DataEnds(shapes[k], mode), j)

\* How many bytes the running ReadAll takes of a frame, and the reader then.
Taken(r) ==
  LET n == Sizes(r.packet)[r.field] - Len(r.got)
  IN IF n < Len(r.mem) THEN n ELSE Len(r.mem)

OutOfFrame(r) ==
  GotField([r EXCEPT !.mem = SubSeq(@, Taken(r) + 1, Len(@))], r.got \o SubSeq(r.mem, 1, Taken(r)))

\* It is not lost when it takes them.
LEMMA ReadsOutOfFrame ==
  ASSUME NEW k \in Nat \ {0}, shapes[k] \in Shapes, mode \in Settings, NEW q \in Nat,
         NEW c \in Nat, NEW j, NEW r, OfFrames(r, k, q, c, j)
  PROVE  ReadOn(OutOfFrame(r), k, q)
<1> DEFINE sh == shapes[k]
<1> DEFINE e == Encoding[sh][mode]
<1> DEFINE p == PlainTo(sh, mode)
<1> DEFINE t == AllBytes(sh)
<1> DEFINE b == Blocks(sh, mode)
<1> DEFINE o == FrameEnds(sh, mode)
<1> DEFINE d == DataEnds(sh, mode)
<1> DEFINE S == SumOf(sh)
<1> DEFINE n == Len(SizesOf(sh))
<1> DEFINE h == Heads(sh)
<1> DEFINE f == r.field
<1> DEFINE J == Len(b)
<1> DEFINE a == S[f - 1]
<1> DEFINE z == S[f]
<1> DEFINE s == d[j]
<1> DEFINE l == s - c
<1> DEFINE u == c - a
<1>1. /\ r \in Readers /\ ~r.broken /\ r.seen = Run(k, 0, q) /\ r.packet = k
      /\ f \in 1 .. n /\ a <= c /\ c < z /\ r.got = Run(k, a, u)
      /\ mode.on /\ f > h /\ j \in 0 .. J /\ r.mem # << >>
      /\ c <= s /\ r.mem = Run(k, c, l) /\ o[j] <= q /\ r.raw = Run(k, o[j], q - o[j])
      /\ (IF j = J THEN q = o[j] ELSE q < o[j + 1]) /\ (q # o[j] => s = c)
  BY DEF OfFrames, InField, InFrame
<1>2. /\ n \in Nat /\ h \in Nat \ {0} /\ h <= n /\ Sizes(k) = SizesOf(sh)
      /\ a \in Nat /\ z \in Nat /\ SizesOf(sh)[f] = z - a
      /\ \A i \in 0 .. n : S[i] \in Nat /\ S[i] <= t
      /\ \A i \in 1 .. n : S[i - 1] \in Nat /\ S[i - 1] < S[i]
      /\ S[n] = t
  BY <1>1, FieldFacts, SMTT(30)
<1>3. Layout(e, p, t, b, o, d) /\ PacketLen(k) = Len(e)
  BY LayoutIs DEF PacketLen
<1>20. FieldAt(k, f, a, z)
  BY <1>1 DEF FieldAt
<1> HIDE DEF e, p, t, b, o, d, S, n, h, a, z
<1>4. /\ J \in Nat /\ s \in Nat /\ s <= t /\ t \in Nat /\ (j # J => s < t) /\ o[j] \in Nat /\ o[j] > 0 /\ o[J] = Len(e)
  BY <1>1, <1>3 DEF Layout
<1> HIDE DEF s, l, u, J
<1>5. l \in Nat /\ s = c + l /\ u \in Nat /\ c = a + u
  <2>1. a <= c /\ c <= s /\ a \in Nat /\ s \in Nat
    BY <1>1, <1>2, <1>4
  <2> QED BY <2>1 DEF l, u
<1>6. k \in Nat
  OBVIOUS
<1>7. Len(r.mem) = l /\ Len(r.got) = u
  <2>1. Len(Run(k, c, l)) = l /\ Len(Run(k, a, u)) = u
    BY <1>2, <1>5, <1>6, RunOfPairs
  <2> QED BY <1>1, <2>1
<1>8. l > 0
  <2>1. l = 0 => Run(k, c, l) = << >>
    BY DEF Run
  <2> QED BY <1>1, <1>5, <2>1
<1>9. q = o[j]
  BY <1>1, <1>4, <1>5, <1>8
<1> DEFINE m == Taken(r)
<1> DEFINE c2 == c + m
<1> DEFINE l2 == l - m
<1> DEFINE g == u + m
<1>10. Sizes(r.packet)[r.field] - Len(r.got) = z - c
  BY <1>1, <1>2, <1>5, <1>7
<1>11. m = IF z - c < l THEN z - c ELSE l
  BY <1>7, <1>10 DEF Taken
<1> HIDE DEF m
<1>12. /\ m \in Nat \ {0} /\ m \in Nat /\ m <= l /\ c2 <= z /\ c2 \in Nat /\ l2 \in Nat /\ g \in Nat /\ c2 = a + g
       /\ s = c2 + l2 /\ (c2 < z => m = l) /\ a < c2
  <2>1. a \in Nat /\ c \in Nat /\ z \in Nat /\ a <= c /\ c < z /\ l \in Nat \ {0} /\ s = c + l /\ u \in Nat /\ c = a + u
    BY <1>1, <1>2, <1>5, <1>8
  <2>2. m \in Nat \ {0} /\ m \in Nat /\ m <= l /\ m <= z - c /\ (m # l => m = z - c)
    BY <1>11, <2>1
  <2>3. c2 \in Nat /\ l2 \in Nat /\ g \in Nat
    BY <2>1, <2>2
  <2>4. c2 = a + g /\ s = c2 + l2
    BY <2>1, <2>2
  <2>5. c2 <= z /\ (c2 < z => m = l) /\ a < c2
    BY <2>1, <2>2
  <2> QED BY <2>2, <2>3, <2>4, <2>5
<1> HIDE DEF c2, l2, g
<1>13. SubSeq(r.mem, 1, m) = Run(k, c, m) /\ SubSeq(r.mem, m + 1, Len(r.mem)) = Run(k, c2, l2)
  <2> DEFINE y == r.mem
  <2>1. y \in Seq(Nat \X Nat) /\ Len(y) = l /\ DOMAIN y = 1 .. l /\ \A i \in 1 .. l : y[i] = <<k, c + i>>
    <3>1. Run(k, c, l) \in Seq(Nat \X Nat) /\ Len(Run(k, c, l)) = l /\ DOMAIN Run(k, c, l) = 1 .. l
          /\ \A i \in 1 .. l : Run(k, c, l)[i] = <<k, c + i>>
      BY <1>5, <1>6, RunOfPairs
    <3> QED BY <1>1, <3>1
  <2> HIDE DEF y
  <2>2. SubSeq(y, 1, m) = [i \in 1 .. m |-> y[i]]
    <3>1. m \in Nat /\ m <= l /\ l \in Nat
      BY <1>5, <1>12
    <3> QED BY <2>1, <3>1
  <2>3. \A i \in 1 .. m : y[i] = <<k, c + i>>
    <3>1. \A i \in 1 .. m : i \in 1 .. l
      BY <1>5, <1>12
    <3> QED BY <2>1, <3>1
  <2>4. SubSeq(y, 1, m) = Run(k, c, m)
    BY <2>2, <2>3 DEF Run
  <2>5. /\ SubSeq(y, m + 1, l) \in Seq(Nat \X Nat) /\ Len(SubSeq(y, m + 1, l)) = l2
        /\ \A i \in 1 .. l2 : SubSeq(y, m + 1, l)[i] = y[m + i]
    <3>1. m \in Nat /\ m <= l /\ l \in Nat /\ l2 = l - m
      BY <1>5, <1>12 DEF l2
    <3> QED BY <2>1, <3>1
  <2>6. \A i \in 1 .. l2 : y[m + i] = <<k, c2 + i>>
    <3> TAKE i \in 1 .. l2
    <3>1. m + i \in 1 .. l /\ c + (m + i) = c2 + i
      BY <1>5, <1>12 DEF l2, c2
    <3> QED BY <2>1, <3>1
  <2>7. /\ Run(k, c2, l2) \in Seq(Nat \X Nat) /\ Len(Run(k, c2, l2)) = l2
        /\ \A i \in 1 .. l2 : Run(k, c2, l2)[i] = <<k, c2 + i>>
    <3>1. IsRun(Run(k, c2, l2), k, c2, l2)
      BY <1>6, <1>12, RunIsRun
    <3> QED BY <3>1, Zenon DEF IsRun
  <2>8. SubSeq(y, m + 1, l) = Run(k, c2, l2)
    <3> DEFINE v == SubSeq(y, m + 1, l)
    <3> DEFINE w == Run(k, c2, l2)
    <3>1. v \in Seq(Nat \X Nat) /\ w \in Seq(Nat \X Nat) /\ Len(v) = Len(w) /\ \A i \in 1 .. Len(v) : v[i] = w[i]
      BY <2>5, <2>6, <2>7
    <3> HIDE DEF v, w
    <3>2. v = w
      BY <3>1, SeqEqual
    <3> QED BY <3>2 DEF v, w
  <2> QED BY <2>1, <2>4, <2>8 DEF y
<1>14. Joins(Run(k, a, u), Run(k, c, m), Run(k, a, g))
  <2>1. IsSum(c, a, u) /\ IsSum(g, u, m)
    BY <1>5 DEF IsSum, g
  <2> QED BY <1>2, <1>5, <1>6, <1>12, <2>1, RunsJoin
<1>15. Run(k, a, g) \in Seq(Pairs) /\ Run(k, c2, l2) \in Seq(Pairs)
  BY <1>2, <1>6, <1>12, RunOfPairs DEF Pairs
<1> DEFINE r1 == [r EXCEPT !.mem = SubSeq(@, m + 1, Len(@))]
<1> DEFINE r2 == OutOfFrame(r)
<1>16. r1 = [r EXCEPT !.mem = Run(k, c2, l2)]
  BY <1>1, <1>13 DEF Readers
<1>17. r2 = GotField(r1, Run(k, a, g))
  <2>1. r2 = GotField(r1, r.got \o SubSeq(r.mem, 1, m))
    BY DEF OutOfFrame, m
  <2>2. r.got \o SubSeq(r.mem, 1, m) = Run(k, a, g)
    BY <1>1, <1>13, <1>14 DEF Joins
  <2> HIDE DEF r1, r2
  <2> QED BY <2>1, <2>2
<1> HIDE DEF r1, r2
<1>18. /\ r1.packet = k /\ r1.field = f /\ r1.got = r.got /\ r1.mem = Run(k, c2, l2) /\ r1.raw = r.raw
       /\ ~r1.broken /\ r1.seen = Run(k, 0, q)
  BY <1>1, <1>16 DEF Readers
<1>19. r1 \in Readers
  BY <1>1, <1>15, <1>16 DEF Readers
<1>21. /\ c2 < z => r2 = Kept(r1, Run(k, a, g))
       /\ c2 = z /\ f = n => r2 = LastField(r1, k)
       /\ c2 = z /\ f # n => r2 = NextField(r1, k)
  <2>1. r1.packet \in {0, k} /\ (r1.packet = 0 => r1.field = 1) /\ FieldAt(k, r1.field, a, z)
    BY <1>18, <1>20
  <2>2. IsSum(c2, a, g)
    BY <1>12 DEF IsSum
  <2>3. /\ c2 < z => GotField(r1, Run(k, a, g)) = Kept(r1, Run(k, a, g)) /\ r1.packet = k
        /\ c2 = z /\ r1.field = Len(SizesOf(shapes[k])) => GotField(r1, Run(k, a, g)) = LastField(r1, k)
        /\ c2 = z /\ r1.field # Len(SizesOf(shapes[k])) => GotField(r1, Run(k, a, g)) = NextField(r1, k)
    <3>1. a \in Nat /\ z \in Nat /\ c2 \in Nat /\ a < c2 /\ c2 <= z /\ g \in Nat
      BY <1>2, <1>12
    <3> QED BY <1>19, <2>1, <2>2, <3>1, GotFieldIs
  <2> QED BY <1>17, <1>18, <2>3 DEF n
<1>22. q # 0
  BY <1>4, <1>9
<1>23. ASSUME r2 \in Readers, r2.mem = r1.mem, r2.raw = r.raw, r2.seen = r1.seen, ~r2.broken, r2.field > h,
              InField(r2, k, c2, shapes[k])
       PROVE  ReadOn(r2, k, q)
  <2>1. InFrame(r2, k, q, c2, J, o, d, j)
    <3>1. d[j] - c2 = l2 /\ c2 <= d[j]
      BY <1>12 DEF s
    <3> QED BY <1>1, <1>9, <1>18, <1>23, <3>1 DEF InFrame, l
  <2>2. Good(r2, k, q, shapes[k], mode)
    BY <1>1, <1>12, <1>18, <1>22, <1>23, <2>1 DEF Good, J, b, o, d, h
  <2> QED BY <2>2 DEF ReadOn
<1>24. CASE c2 < z
  <2>1. r2 = [r1 EXCEPT !.got = Run(k, a, g)]
    BY <1>21, <1>24 DEF Kept
  <2>2. /\ r2 \in Readers /\ r2.packet = k /\ r2.field = f /\ r2.got = Run(k, a, g) /\ r2.mem = r1.mem /\ r2.raw = r1.raw
        /\ ~r2.broken /\ r2.seen = r1.seen
    BY <1>15, <1>18, <1>19, <2>1 DEF Readers
  <2>3. InField(r2, k, c2, shapes[k])
    <3>1. r2.got = Run(k, a, c2 - a) /\ a <= c2 /\ c2 < z
      BY <1>2, <1>12, <1>24, <2>2
    <3> QED BY <1>1, <2>2, <3>1 DEF InField, a, z, n, S
  <2>4. r2.mem = r1.mem /\ r2.raw = r.raw /\ r2.field > h
    BY <1>1, <1>18, <2>2
  <2> QED BY <1>23, <2>2, <2>3, <2>4 DEF r2
<1>25. CASE c2 = z /\ f = n
  <2>1. r2 = EndPacket([r1 EXCEPT !.packet = k])
    BY <1>21, <1>25 DEF LastField
  <2>2. z = t
    BY <1>2, <1>25 DEF z
  <2>3. j = J /\ l2 = 0
    BY <1>4, <1>12, <1>25, <2>2
  <2>4. Run(k, c2, l2) = << >>
    BY <2>3 DEF Run
  <2>5. [r1 EXCEPT !.packet = k].mem = << >> /\ [r1 EXCEPT !.packet = k].packet = k
    BY <1>18, <1>19, <2>4 DEF Readers
  <2>6. r2 = Finished(k)
    BY <2>1, <2>5 DEF EndPacket, Finished
  <2>7. q = PacketLen(k)
    BY <1>3, <1>4, <1>9, <2>3
  <2> QED BY <2>6, <2>7 DEF ReadOn, r2
<1>26. CASE c2 = z /\ f # n
  <2>1. r2 = [r1 EXCEPT !.packet = k, !.field = f + 1, !.got = << >>]
    BY <1>18, <1>21, <1>26 DEF NextField
  <2>2. << >> \in Seq(Pairs) /\ f + 1 \in Nat
    BY <1>1
  <2>3. /\ r2 \in Readers /\ r2.packet = k /\ r2.field = f + 1 /\ r2.got = << >> /\ r2.mem = r1.mem /\ r2.raw = r1.raw
        /\ ~r2.broken /\ r2.seen = r1.seen
    BY <1>6, <1>18, <1>19, <2>1, <2>2 DEF Readers
  <2> DEFINE f2 == f + 1
  <2>4. f2 \in 1 .. n /\ f2 - 1 = f /\ f2 > h
    <3>1. f \in 1 .. n /\ f # n /\ f > h /\ n \in Nat /\ h \in Nat
      BY <1>1, <1>2, <1>26
    <3> QED BY <3>1
  <2>5. S[f2 - 1] = c2 /\ c2 < S[f2]
    BY <1>2, <1>26, <2>4 DEF z
  <2>6. Run(k, c2, c2 - c2) = << >>
    <3>1. c2 - c2 = 0
      BY <1>12
    <3> QED BY <3>1 DEF Run
  <2>7. InField(r2, k, c2, shapes[k])
    <3>1. r2.field = f2 /\ r2.got = Run(k, c2, c2 - c2)
      BY <2>3, <2>6
    <3> HIDE DEF f2
    <3>2. S[f2 - 1] <= c2
      BY <1>12, <2>5
    <3> QED BY <2>3, <2>4, <2>5, <3>1, <3>2 DEF InField, n, S
  <2>8. r2.mem = r1.mem /\ r2.raw = r.raw /\ r2.field > h
    BY <1>18, <2>3, <2>4
  <2> QED BY <1>23, <2>3, <2>7, <2>8 DEF r2
<1> QED BY <1>2, <1>12, <1>24, <1>25, <1>26 DEF r2

\* A reader that is not lost does not get lost, whatever part it gets of what it wants.
LEMMA GoodReads ==
  ASSUME NEW k \in Nat \ {0}, shapes[k] \in Shapes, mode \in Settings, NEW q \in Nat, NEW r, Good(r, k, q, shapes[k], mode)
  PROVE  IF InFrames(r) /\ r.mem # << >> THEN ReadOn(OutOfFrame(r), k, q)
         ELSE /\ Wanted(r) \in Nat \ {0} /\ q + Wanted(r) <= PacketLen(k)
              /\ \A w \in 1 .. Wanted(r) : ReadOn(Parsed(r, Run(k, q, w)), k, q + w)
<1>1. r \in Readers /\ ~r.broken /\ r.seen = Run(k, 0, q)
  BY DEF Good
<1>2. SUFFICES PlainAt(r, k, q) \/ \E c \in Nat : \E j : BetweenFrames(r, k, q, c, j) \/ OfFrames(r, k, q, c, j)
  <2>1. CASE PlainAt(r, k, q)
    BY <2>1, ReadPlain
  <2>2. CASE \E c \in Nat : \E j : BetweenFrames(r, k, q, c, j)
    <3>0. PICK c \in Nat : \E j : BetweenFrames(r, k, q, c, j)
      BY <2>2
    <3>1. PICK j : BetweenFrames(r, k, q, c, j)
      BY <3>0
    <3>2. r.mem = << >>
      BY <3>1 DEF BetweenFrames
    <3> QED BY <3>1, <3>2, ReadFrames
  <2>3. CASE \E c \in Nat : \E j : OfFrames(r, k, q, c, j)
    <3>0. PICK c \in Nat : \E j : OfFrames(r, k, q, c, j)
      BY <2>3
    <3>1. PICK j : OfFrames(r, k, q, c, j)
      BY <3>0
    <3>2. r.mem # << >> /\ r.packet = k /\ mode.on /\ r.field > Heads(shapes[k])
      BY <3>1 DEF OfFrames, InField
    <3>3. InFrames(r)
      BY <3>2 DEF InFrames, Heads
    <3>4. ReadOn(OutOfFrame(r), k, q)
      BY <3>1, ReadsOutOfFrame
    <3> QED BY <3>2, <3>3, <3>4
  <2> QED BY <1>2, <2>1, <2>2, <2>3
<1> DEFINE S == SumOf(shapes[k])
<1> DEFINE n == Len(SizesOf(shapes[k]))
<1> DEFINE h == Heads(shapes[k])
<1> DEFINE b == Blocks(shapes[k], mode)
<1> DEFINE o == FrameEnds(shapes[k], mode)
<1> DEFINE d == DataEnds(shapes[k], mode)
<1> DEFINE J == Len(b)
<1>3. n \in Nat /\ h \in Nat \ {0} /\ h <= n /\ S[0] = 0 /\ S[1] = 1 /\ \A f \in 0 .. n : S[f] <= AllBytes(shapes[k])
  BY FieldFacts
<1>4. CASE q = 0
  <2>1. r = NoPacket
    BY <1>4 DEF Good
  <2>2. r.packet = 0 /\ r.field = 1 /\ r.got = << >> /\ r.mem = << >> /\ r.raw = << >>
    BY <2>1 DEF NoPacket
  <2>3. Run(k, 0, 0) = << >>
    BY DEF Run
  <2>4. r.field \in 1 .. n /\ ~(mode.on /\ r.field > h) /\ S[r.field - 1] = 0 /\ S[r.field] = 1
    <3>1. r.field - 1 = 0
      BY <2>2
    <3> HIDE DEF S, n, h
    <3> QED BY <1>3, <2>2, <3>1
  <2>5. q - 0 = 0
    BY <1>4
  <2> HIDE DEF S, n, h
  <2>6. /\ r.field \in 1 .. n /\ ~(mode.on /\ r.field > h) /\ S[r.field - 1] <= q /\ q < S[r.field]
        /\ r.got = Run(k, S[r.field - 1], q - S[r.field - 1])
    BY <1>4, <2>2, <2>3, <2>4
  <2>7. r.packet \in {0, k} /\ (r.packet = 0 => r.field = 1 /\ q = 0) /\ r.mem = << >> /\ r.raw = << >>
    BY <1>4, <2>2
  <2>8. PlainAt(r, k, q)
    BY <1>1, <2>6, <2>7 DEF PlainAt, S, n, h
  <2> QED BY <1>2, <2>8
<1>5. CASE q # 0
  <2>1. PICK c \in Nat : /\ InField(r, k, c, shapes[k])
                         /\ IF mode.on /\ r.field > h THEN \E j \in 0 .. J : InFrame(r, k, q, c, J, o, d, j)
                            ELSE InPlain(r, q, c)
    BY <1>5 DEF Good
  <2>2. CASE mode.on /\ r.field > h
    <3>1. PICK j \in 0 .. J : InFrame(r, k, q, c, J, o, d, j)
      BY <2>1, <2>2
    <3>2. CASE r.mem # << >>
      <4>1. OfFrames(r, k, q, c, j)
        BY <1>1, <2>1, <2>2, <3>1, <3>2 DEF OfFrames
      <4> QED BY <1>2, <4>1
    <3>3. CASE r.mem = << >>
      <4>1. Layout(Encoding[shapes[k]][mode], PlainTo(shapes[k], mode), AllBytes(shapes[k]), b, o, d)
        BY LayoutIs
      <4>2. r.field \in 1 .. n /\ c < S[r.field]
        BY <2>1 DEF InField
      <4> HIDE DEF S, n, h, b, o, d
      <4>3. /\ J \in Nat /\ d[J] = AllBytes(shapes[k]) /\ AllBytes(shapes[k]) \in Nat /\ d[j] \in Nat
        BY <3>1, <4>1 DEF Layout
      <4>4. /\ c <= d[j] /\ r.mem = Run(k, c, d[j] - c) /\ o[j] <= q /\ r.raw = Run(k, o[j], q - o[j])
            /\ IF j = J THEN q = o[j] ELSE q < o[j + 1]
        BY <3>1 DEF InFrame
      <4>5. d[j] = c
        <5> DEFINE l == d[j] - c
        <5>1. l \in Nat /\ k \in Nat
          BY <4>3, <4>4
        <5> HIDE DEF l
        <5>2. Len(Run(k, c, l)) = l
          BY <5>1, RunOfPairs
        <5>3. Len(<< >>) = 0
          OBVIOUS
        <5>4. l = 0
          BY <3>3, <4>4, <5>2, <5>3 DEF l
        <5> QED BY <4>3, <4>4, <5>4 DEF l
      <4>6. S[r.field] <= AllBytes(shapes[k]) /\ S[r.field] \in Nat
        <5>1. r.field \in 0 .. n
          BY <1>3, <4>2
        <5> QED BY <1>3, <5>1, FieldFacts DEF S, n
      <4>7. j # J
        BY <4>2, <4>3, <4>5, <4>6
      <4>8. j \in 0 .. J - 1
        BY <4>3, <4>7
      <4>9. BetweenFrames(r, k, q, c, j)
        BY <1>1, <2>1, <2>2, <3>3, <4>4, <4>5, <4>7, <4>8 DEF BetweenFrames, b, o, d, h
      <4> QED BY <1>2, <4>9
    <3> QED BY <3>2, <3>3
  <2>3. CASE ~(mode.on /\ r.field > h)
    <3>1. q = c /\ r.mem = << >> /\ r.raw = << >>
      BY <2>1, <2>3 DEF InPlain
    <3>2. /\ r.packet = k /\ r.field \in 1 .. n /\ S[r.field - 1] <= q /\ q < S[r.field]
          /\ r.got = Run(k, S[r.field - 1], q - S[r.field - 1])
      BY <2>1, <3>1 DEF InField
    <3>3. PlainAt(r, k, q)
      BY <1>1, <2>3, <3>1, <3>2 DEF PlainAt
    <3> QED BY <1>2, <3>3
  <2> QED BY <2>2, <2>3
<1> QED BY <1>4, <1>5

------------------------------------------------------------------------------
(* Calls that are made one by one. *)

\* A piece and what is behind it.
LEMMA PieceAndRest ==
  ASSUME NEW A, NEW d \in Seq(A), NEW a \in 0 .. Len(d), NEW b \in a .. Len(d)
  PROVE  /\ SubSeq(d, a + 1, b) \in Seq(A) /\ Rest(d, b) \in Seq(A) /\ Rest(d, a) \in Seq(A)
         /\ Len(SubSeq(d, a + 1, b)) = b - a /\ \A i \in 1 .. b - a : SubSeq(d, a + 1, b)[i] = d[a + i]
         /\ Joins(SubSeq(d, a + 1, b), Rest(d, b), Rest(d, a))
<1> DEFINE x == SubSeq(d, a + 1, b)
<1> DEFINE y == Rest(d, b)
<1> DEFINE z == Rest(d, a)
<1> DEFINE n == Len(d)
<1>1. n \in Nat /\ a \in 0 .. n /\ b \in a .. n /\ b \in 0 .. n
  BY LenProperties
<1>2. x \in Seq(A) /\ Len(x) = b - a /\ \A i \in 1 .. b - a : x[i] = d[a + i]
  BY PiecesJoin
<1>3. y \in Seq(A) /\ Len(y) = n - b /\ \A i \in 1 .. n - b : y[i] = d[b + i]
  BY <1>1, PrefixIs
<1>4. z \in Seq(A) /\ Len(z) = n - a /\ \A i \in 1 .. n - a : z[i] = d[a + i]
  BY <1>1, PrefixIs
<1> HIDE DEF x, y, z, n
<1>9. a \in Nat /\ b \in Nat /\ n \in Nat /\ a <= b /\ b <= n
  BY <1>1
<1>5. x \o y \in Seq(A) /\ Len(x \o y) = n - a
  <2>1. x \o y \in Seq(A) /\ Len(x \o y) = Len(x) + Len(y)
    BY <1>2, <1>3, ConcatProperties
  <2>2. (b - a) + (n - b) = n - a
    BY <1>9
  <2> QED BY <1>2, <1>3, <2>1, <2>2
<1>6. ASSUME NEW i \in 1 .. n - a PROVE (x \o y)[i] = z[i]
  <2>1. CASE i <= b - a
    <3>1. i \in 1 .. Len(x)
      BY <1>1, <1>2, <2>1
    <3>2. (x \o y)[i] = x[i]
      BY <1>2, <1>3, <3>1, ConcatProperties
    <3> QED BY <1>2, <1>4, <3>1, <3>2
  <2>2. CASE i > b - a
    <3> DEFINE j == i - (b - a)
    <3>1. j \in 1 .. n - b /\ b + j = a + i /\ i \in Nat
      BY <1>9, <2>2
    <3>2. (x \o y)[i] = y[j]
      <4>1. i \in 1 .. Len(x) + Len(y) /\ ~(i <= Len(x)) /\ j = i - Len(x)
        BY <1>2, <1>3, <1>9, <2>2
      <4>2. x \in Seq(A) /\ y \in Seq(A)
        BY <1>2, <1>3
      <4> HIDE DEF j
      <4>3. (x \o y)[i] = y[i - Len(x)]
        BY <4>1, <4>2, ConcatProperties
      <4> QED BY <4>1, <4>3
    <3> QED BY <1>3, <1>4, <3>1, <3>2
  <2>3. i <= b - a \/ i > b - a
    BY <1>9
  <2> QED BY <2>1, <2>2, <2>3
<1>7. x \o y = z
  BY <1>4, <1>5, <1>6, SeqEqual
<1> QED BY <1>2, <1>3, <1>4, <1>7 DEF x, y, z, Joins

LastIsFlush(calls) == calls # << >> => calls[Len(calls)].op = "flush"

\* The first call and the others.
LEMMA FirstCall ==
  ASSUME NEW A, NEW calls \in Seq(CallsOf(A)), calls # << >>
  PROVE  /\ Head(calls) \in CallsOf(A) /\ Tail(calls) \in Seq(CallsOf(A)) /\ Head(calls) = calls[1]
         /\ Joins(Head(calls).data, Sent(Tail(calls)), Sent(calls))
         /\ Sent(calls) \in Seq(A) /\ Sent(Tail(calls)) \in Seq(A)
         /\ calls = <<Head(calls)>> \o Tail(calls)
         /\ LastIsFlush(calls) => LastIsFlush(Tail(calls))
         /\ LastIsFlush(calls) /\ Head(calls).op = "write" => Tail(calls) # << >>
<1> DEFINE C == CallsOf(A)
<1>1. calls \in Seq(C) /\ calls # << >>
  OBVIOUS
<1> HIDE DEF C
<1> DEFINE h == Head(calls)
<1> DEFINE t == Tail(calls)
<1>2. /\ h \in C /\ t \in Seq(C) /\ h = calls[1] /\ Len(calls) \in Nat \ {0} /\ Len(t) = Len(calls) - 1
      /\ \A i \in 1 .. Len(t) : t[i] = calls[i + 1]
  BY <1>1, HeadTailProperties, LenProperties
<1>3. <<h>> \in Seq(C) /\ Len(<<h>>) = 1 /\ <<h>>[1] = h
  BY <1>2
<1> HIDE DEF h, t
<1>4. <<h>> \o t \in Seq(C) /\ Len(<<h>> \o t) = Len(calls)
  BY <1>2, <1>3, ConcatProperties
<1>5. ASSUME NEW i \in 1 .. Len(calls) PROVE (<<h>> \o t)[i] = calls[i]
  <2>1. CASE i = 1
    BY <1>2, <1>3, <2>1, ConcatProperties
  <2>2. CASE i # 1
    <3>1. i > 1 /\ i - 1 \in 1 .. Len(t) /\ i \in 1 .. Len(<<h>>) + Len(t) /\ ~(i <= Len(<<h>>))
      BY <1>2, <1>3, <2>2
    <3>2. (<<h>> \o t)[i] = t[i - 1]
      BY <1>2, <1>3, <3>1, ConcatProperties
    <3>3. t[i - 1] = calls[(i - 1) + 1] /\ (i - 1) + 1 = i
      BY <1>2, <3>1
    <3> QED BY <3>2, <3>3
  <2> QED BY <2>1, <2>2
<1>6. calls = <<h>> \o t
  BY <1>1, <1>4, <1>5, SeqEqual
<1>7. Sent(<<h>> \o t) = Sent(<<h>>) \o Sent(t) /\ Sent(t) \in Seq(A) /\ Sent(<<h>>) \in Seq(A)
  BY <1>2, <1>3, SentJoins DEF C
<1>8. Sent(<<h>>) = h.data
  BY <1>2, SentOne DEF C
<1>9. Sent(calls) \in Seq(A)
  BY <1>1, SentJoins DEF C
<1>10. Joins(h.data, Sent(t), Sent(calls))
  BY <1>6, <1>7, <1>8 DEF Joins
<1>11. ASSUME t # << >> PROVE t[Len(t)] = calls[Len(calls)]
  <2>1. Len(t) # 0 /\ Len(t) \in Nat
    BY <1>2, <1>11, EmptySeq, LenProperties
  <2>2. Len(t) \in 1 .. Len(t) /\ Len(t) + 1 = Len(calls)
    BY <1>2, <2>1
  <2> QED BY <1>2, <2>2
<1>12. LastIsFlush(calls) => LastIsFlush(t)
  BY <1>1, <1>11 DEF LastIsFlush
<1>13. LastIsFlush(calls) /\ h.op = "write" => t # << >>
  <2>1. SUFFICES ASSUME t = << >>, LastIsFlush(calls), h.op = "write" PROVE FALSE
    OBVIOUS
  <2>2. Len(t) = 0
    BY <2>1
  <2>3. Len(calls) = 1
    BY <1>2, <2>2
  <2>4. h.op = "flush"
    BY <1>1, <1>2, <2>1, <2>3 DEF LastIsFlush
  <2> QED BY <2>1, <2>4
<1> QED BY <1>2, <1>6, <1>7, <1>9, <1>10, <1>12, <1>13 DEF C, h, t

\* Another call in the place of the first.
LEMMA OtherFirstCall ==
  ASSUME NEW A, NEW calls \in Seq(CallsOf(A)), calls # << >>, NEW call \in CallsOf(A)
  PROVE  /\ <<call>> \o Tail(calls) \in Seq(CallsOf(A))
         /\ Joins(call.data, Sent(Tail(calls)), Sent(<<call>> \o Tail(calls)))
         /\ <<call>> \o Tail(calls) # << >>
         /\ LastIsFlush(calls) /\ (Tail(calls) # << >> \/ call.op = "flush") => LastIsFlush(<<call>> \o Tail(calls))
         /\ \A new \in Seq(CallsOf(A)) :
              /\ Len(new) = Len(calls) /\ new[1] = call
              /\ \A i \in 2 .. Len(calls) : new[i] = calls[i]
              => new = <<call>> \o Tail(calls)
<1> DEFINE C == CallsOf(A)
<1>1. calls \in Seq(C) /\ calls # << >> /\ call \in C
  OBVIOUS
<1> HIDE DEF C
<1> DEFINE t == Tail(calls)
<1>2. /\ t \in Seq(C) /\ Len(calls) \in Nat \ {0} /\ Len(t) = Len(calls) - 1 /\ Len(t) \in Nat
      /\ \A i \in 1 .. Len(t) : t[i] = calls[i + 1]
  BY <1>1, HeadTailProperties, LenProperties
<1>3. <<call>> \in Seq(C) /\ Len(<<call>>) = 1 /\ <<call>>[1] = call
  BY <1>1
<1> HIDE DEF t
<1> DEFINE s == <<call>> \o t
<1>4. s \in Seq(C) /\ Len(s) = Len(calls)
  BY <1>2, <1>3, ConcatProperties
<1>5. s[1] = call
  BY <1>2, <1>3, ConcatProperties
<1>6. ASSUME NEW i \in 2 .. Len(calls) PROVE s[i] = calls[i]
  <2>1. i > 1 /\ i - 1 \in 1 .. Len(t) /\ i \in 1 .. Len(<<call>>) + Len(t) /\ ~(i <= Len(<<call>>))
    BY <1>2, <1>3
  <2>2. s[i] = t[i - 1]
    BY <1>2, <1>3, <2>1, ConcatProperties
  <2>3. t[i - 1] = calls[(i - 1) + 1] /\ (i - 1) + 1 = i
    BY <1>2, <2>1
  <2> QED BY <2>2, <2>3
<1>7. Sent(s) = Sent(<<call>>) \o Sent(t)
  BY <1>2, <1>3, SentJoins DEF C
<1>8. Sent(<<call>>) = call.data
  BY <1>1, SentOne DEF C
<1>9. Joins(call.data, Sent(t), Sent(s))
  BY <1>7, <1>8 DEF Joins
<1> HIDE DEF s
<1>10. s # << >>
  <2>1. Len(s) # 0
    BY <1>2, <1>4
  <2> QED BY <2>1
<1>11. ASSUME LastIsFlush(calls), t # << >> \/ call.op = "flush" PROVE LastIsFlush(s)
  <2>1. CASE t # << >>
    <3>1. Len(t) # 0
      BY <1>2, <2>1, EmptySeq
    <3>2. Len(calls) \in 2 .. Len(calls)
      BY <1>2, <3>1
    <3> QED BY <1>1, <1>4, <1>6, <1>11, <3>2 DEF LastIsFlush
  <2>2. CASE t = << >> /\ call.op = "flush"
    <3>1. Len(t) = 0
      BY <2>2
    <3>2. Len(calls) = 1
      BY <1>2, <3>1
    <3> QED BY <1>4, <1>5, <2>2, <3>2 DEF LastIsFlush
  <2> QED BY <1>11, <2>1, <2>2
<1>12. ASSUME NEW new \in Seq(C), Len(new) = Len(calls), new[1] = call,
              \A i \in 2 .. Len(calls) : new[i] = calls[i]
       PROVE  new = s
  <2>1. \A i \in 1 .. Len(calls) : new[i] = s[i]
    <3> TAKE i \in 1 .. Len(calls)
    <3>1. i = 1 \/ i \in 2 .. Len(calls)
      BY <1>2
    <3> QED BY <1>5, <1>6, <1>12, <3>1
  <2> QED BY <1>4, <1>12, <2>1, SeqEqual
<1> QED BY <1>4, <1>9, <1>10, <1>11, <1>12 DEF s, C, t

=============================================================================
