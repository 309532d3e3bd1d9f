---------------------------- MODULE DataInduction ----------------------------
(***************************************************************************)
(* Induction, with sets for predicates, and what it gives about sequences  *)
(* of sequences, the greatest and the least of a set of numbers, and the   *)
(* orders of a finite set.                                                 *)
(***************************************************************************)
EXTENDS Integers, Sequences, SequencesExt, WellFoundedInduction, SequenceTheorems,
        FiniteSetTheorems, TLAPS

\* Induction with a set for the predicate: a set that has zero, and the successor of
\* each number it has, has every number.
LEMMA NatSetInduction ==
  ASSUME NEW S, 0 \in S, \A n \in Nat : n \in S => n + 1 \in S
  PROVE  \A n \in Nat : n \in S
<1> DEFINE T == Nat \ S
<1> SUFFICES ASSUME T # {} PROVE FALSE
  OBVIOUS
<1>1. PICK x \in T : \A y \in T : <<y, x>> \notin OpToRel(<, Nat)
  BY NatLessThanWellFounded, WFMin
<1>2. x \in Nat /\ x # 0 /\ x - 1 \in Nat /\ x - 1 + 1 = x
  OBVIOUS
<1>3. x - 1 \in T
  BY <1>1, <1>2
<1>4. <<x - 1, x>> \in OpToRel(<, Nat)
  BY <1>2 DEF OpToRel
<1> QED BY <1>1, <1>3, <1>4

\* A set that has the empty sequence, and with a sequence every longer one by an
\* element, has every sequence.
LEMMA SeqSetInduction ==
  ASSUME NEW A, NEW S, << >> \in S,
         \A s \in Seq(A), x \in A : s \in S => Append(s, x) \in S
  PROVE  \A s \in Seq(A) : s \in S
<1> DEFINE T == {n \in Nat : \A s \in Seq(A) : Len(s) = n => s \in S}
<1>1. 0 \in T
  BY EmptySeq
<1>2. ASSUME NEW n \in Nat, n \in T PROVE n + 1 \in T
  <2> SUFFICES ASSUME NEW s \in Seq(A), Len(s) = n + 1 PROVE s \in S
    OBVIOUS
  <2>1. s # << >>
    BY EmptySeq
  <2>2. PICK r \in Seq(A), x \in A : s = Append(r, x)
    BY <2>1, SequenceEmptyOrAppend
  <2>3. Len(r) = n
    BY <2>2, AppendProperties, LenProperties
  <2>4. r \in S
    BY <1>2, <2>3
  <2> QED BY <2>2, <2>4
<1> HIDE DEF T
<1>3. \A n \in Nat : n \in T
  BY <1>1, <1>2, NatSetInduction
<1> QED BY <1>3, LenProperties DEF T

\* A function on 1 .. n is a sequence of length n.
LEMMA FunctionIsSeq ==
  ASSUME NEW A, NEW n \in Nat, NEW f \in [1 .. n -> A]
  PROVE  f \in Seq(A) /\ Len(f) = n /\ DOMAIN f = 1 .. n
OBVIOUS

------------------------------------------------------------------------------
(* Sequences of sequences, one after the other. *)

\* FlattenSeq is the last value of a function that adds one sequence at a time.
LEMMA FlattenIs ==
  ASSUME NEW s, Len(s) \in Nat \ {0}
  PROVE  \E f : /\ \A i \in 1 .. Len(s) : f[i] = IF i = 1 THEN s[i] ELSE f[i-1] \o s[i]
                /\ FlattenSeq(s) = f[Len(s)]
<1> DEFINE N == Len(s)
<1> DEFINE Good(n) == \E f : f = [i \in 1 .. n |-> IF i = 1 THEN s[i] ELSE f[i-1] \o s[i]]
<1> DEFINE S == {n \in Nat : Good(n)}
<1>1. 0 \in S
  <2> DEFINE f == [i \in 1 .. 0 |-> s[i]]
  <2>1. f = [i \in 1 .. 0 |-> IF i = 1 THEN s[i] ELSE f[i-1] \o s[i]]
    OBVIOUS
  <2> QED BY <2>1
<1>2. ASSUME NEW n \in Nat, n \in S PROVE n + 1 \in S
  <2>1. PICK f : f = [i \in 1 .. n |-> IF i = 1 THEN s[i] ELSE f[i-1] \o s[i]]
    BY <1>2
  <2> DEFINE g == [i \in 1 .. n + 1 |-> IF i <= n THEN f[i] ELSE IF i = 1 THEN s[i] ELSE f[i-1] \o s[i]]
  <2>2. ASSUME NEW i \in 1 .. n + 1
        PROVE  g[i] = IF i = 1 THEN s[i] ELSE g[i-1] \o s[i]
    <3>1. CASE i <= n
      <4>1. i \in 1 .. n /\ g[i] = f[i]
        BY <3>1
      <4>2. f[i] = IF i = 1 THEN s[i] ELSE f[i-1] \o s[i]
        BY <2>1, <4>1
      <4>3. i # 1 => i - 1 \in 1 .. n + 1 /\ g[i-1] = f[i-1]
        BY <4>1
      <4> QED BY <4>1, <4>2, <4>3
    <3>2. CASE i = n + 1
      <4>1. g[i] = IF i = 1 THEN s[i] ELSE f[i-1] \o s[i]
        BY <3>2
      <4>2. i # 1 => i - 1 \in 1 .. n + 1 /\ g[i-1] = f[i-1]
        BY <3>2
      <4> QED BY <4>1, <4>2
    <3> QED BY <3>1, <3>2
  <2>3. g = [i \in 1 .. n + 1 |-> IF i = 1 THEN s[i] ELSE g[i-1] \o s[i]]
    BY <2>2
  <2>4. Good(n + 1)
    BY <2>3
  <2> HIDE DEF Good
  <2> QED BY <2>4
<1>3. N \in S
  <2> HIDE DEF S
  <2> QED BY <1>1, <1>2, NatSetInduction
<1>4. Good(N)
  BY <1>3
<1> DEFINE F == CHOOSE f : f = [i \in 1 .. N |-> IF i = 1 THEN s[i] ELSE f[i-1] \o s[i]]
<1>5. F = [i \in 1 .. N |-> IF i = 1 THEN s[i] ELSE F[i-1] \o s[i]]
  BY <1>4
<1>6. FlattenSeq(s) = F[N]
  BY DEF FlattenSeq
<1> HIDE DEF F
<1>7. \A i \in 1 .. Len(s) : F[i] = IF i = 1 THEN s[i] ELSE F[i-1] \o s[i]
  BY <1>5
<1> QED BY <1>6, <1>7

\* Nothing flattens to nothing.
LEMMA FlattenEmpty == FlattenSeq(<< >>) = << >>
BY EmptySeq DEF FlattenSeq

\* One more sequence is behind what the others flatten to.
LEMMA FlattenAppend ==
  ASSUME NEW A, NEW s \in Seq(Seq(A)), NEW x \in Seq(A)
  PROVE  FlattenSeq(Append(s, x)) = FlattenSeq(s) \o x
<1> DEFINE t == Append(s, x)
<1> DEFINE n == Len(s)
<1>1. /\ n \in Nat /\ Len(t) = n + 1 /\ t \in Seq(Seq(A))
      /\ \A i \in 1 .. n : t[i] = s[i]
      /\ t[n + 1] = x
  BY AppendProperties, LenProperties
<1> HIDE DEF t
<1>2. PICK g : /\ \A i \in 1 .. Len(t) : g[i] = IF i = 1 THEN t[i] ELSE g[i-1] \o t[i]
               /\ FlattenSeq(t) = g[Len(t)]
  <2>1. Len(t) \in Nat \ {0}
    BY <1>1
  <2> QED BY <2>1, FlattenIs
<1>3. CASE n = 0
  <2>1. s = << >>
    BY <1>3, EmptySeq
  <2>2. FlattenSeq(t) = x
    <3>1. 1 \in 1 .. Len(t)
      BY <1>1, <1>3
    <3> QED BY <1>1, <1>2, <1>3, <3>1
  <2> QED BY <2>1, <2>2, FlattenEmpty, ConcatEmptySeq DEF t
<1>4. CASE n # 0
  <2>1. PICK f : /\ \A i \in 1 .. Len(s) : f[i] = IF i = 1 THEN s[i] ELSE f[i-1] \o s[i]
                 /\ FlattenSeq(s) = f[Len(s)]
    BY <1>1, <1>4, FlattenIs
  <2> DEFINE S == {i \in Nat : i \in 1 .. n => f[i] = g[i]}
  <2>2. 0 \in S
    OBVIOUS
  <2>3. ASSUME NEW i \in Nat, i \in S PROVE i + 1 \in S
    <3> SUFFICES ASSUME i + 1 \in 1 .. n PROVE f[i + 1] = g[i + 1]
      OBVIOUS
    <3>1. /\ f[i + 1] = IF i + 1 = 1 THEN s[i + 1] ELSE f[i] \o s[i + 1]
      BY <2>1
    <3>2. /\ g[i + 1] = IF i + 1 = 1 THEN t[i + 1] ELSE g[i] \o t[i + 1]
      <4>1. i + 1 \in 1 .. Len(t) /\ i + 1 - 1 = i
        BY <1>1
      <4> QED BY <1>2, <4>1
    <3>3. i + 1 # 1 => f[i] = g[i]
      BY <2>3
    <3> QED BY <1>1, <3>1, <3>2, <3>3
  <2> HIDE DEF S
  <2>4. n \in S
    BY <1>1, <2>2, <2>3, NatSetInduction
  <2>5. f[n] = g[n]
    BY <1>1, <1>4, <2>4 DEF S
  <2>6. g[n + 1] = g[n] \o x
    <3> DEFINE k == n + 1
    <3>1. k \in 1 .. Len(t) /\ k # 1 /\ k - 1 = n /\ t[k] = x
      BY <1>1, <1>4
    <3> HIDE DEF k
    <3>2. g[k] = g[k-1] \o t[k]
      BY <1>2, <3>1
    <3> QED BY <3>1, <3>2 DEF k
  <2> QED BY <1>1, <1>2, <2>1, <2>5, <2>6 DEF t
<1> QED BY <1>3, <1>4

\* Sequences over A flatten to one over A.
LEMMA FlattenType ==
  ASSUME NEW A, NEW s \in Seq(Seq(A))
  PROVE  FlattenSeq(s) \in Seq(A)
<1> DEFINE S == {r \in Seq(Seq(A)) : FlattenSeq(r) \in Seq(A)}
<1>1. << >> \in S
  BY FlattenEmpty, EmptySeq
<1>2. ASSUME NEW r \in Seq(Seq(A)), NEW x \in Seq(A), r \in S PROVE Append(r, x) \in S
  BY <1>2, FlattenAppend, ConcatProperties, AppendProperties
<1> HIDE DEF S
<1>3. s \in S
  BY <1>1, <1>2, SeqSetInduction
<1> QED BY <1>3 DEF S

\* Two halves flatten each on its own.
LEMMA FlattenConcat ==
  ASSUME NEW A, NEW s \in Seq(Seq(A)), NEW t \in Seq(Seq(A))
  PROVE  FlattenSeq(s \o t) = FlattenSeq(s) \o FlattenSeq(t)
<1> DEFINE S == {r \in Seq(Seq(A)) : FlattenSeq(s \o r) = FlattenSeq(s) \o FlattenSeq(r)}
<1>1. << >> \in S
  BY FlattenEmpty, FlattenType, ConcatEmptySeq, EmptySeq
<1>2. ASSUME NEW r \in Seq(Seq(A)), NEW x \in Seq(A), r \in S PROVE Append(r, x) \in S
  <2>1. s \o Append(r, x) = Append(s \o r, x)
    <3>1. Append(r, x) = r \o <<x>> /\ Append(s \o r, x) = (s \o r) \o <<x>>
      BY AppendIsConcat, ConcatProperties
    <3>2. <<x>> \in Seq(Seq(A))
      OBVIOUS
    <3> QED BY <3>1, <3>2, ConcatAssociative
  <2>2. s \o r \in Seq(Seq(A)) /\ Append(r, x) \in Seq(Seq(A))
    BY ConcatProperties, AppendProperties
  <2>3. FlattenSeq(Append(s \o r, x)) = FlattenSeq(s \o r) \o x
    BY <2>2, FlattenAppend
  <2>4. FlattenSeq(Append(r, x)) = FlattenSeq(r) \o x
    BY FlattenAppend
  <2>5. (FlattenSeq(s) \o FlattenSeq(r)) \o x = FlattenSeq(s) \o (FlattenSeq(r) \o x)
    <3> DEFINE f == FlattenSeq(s)
    <3> DEFINE g == FlattenSeq(r)
    <3>1. f \in Seq(A) /\ g \in Seq(A)
      BY FlattenType
    <3> HIDE DEF f, g, S
    <3>2. (f \o g) \o x = f \o (g \o x)
      BY <3>1, ConcatAssociative, SMTT(30)
    <3> QED BY <3>2 DEF f, g
  <2> QED BY <1>2, <2>1, <2>2, <2>3, <2>4, <2>5
<1> HIDE DEF S
<1>3. t \in S
  BY <1>1, <1>2, SeqSetInduction
<1> QED BY <1>3 DEF S

------------------------------------------------------------------------------
(* Where the parts end. *)

\* Where the first r of some sequences end in all of them one after the other.
EndOf(s, r) == Len(FlattenSeq(SubSeq(s, 1, r)))

\* What is behind the first r.
Rest(s, r) == SubSeq(s, r + 1, Len(s))

\* all is s with t behind it.
Joins(s, t, all) == all = s \o t

\* A sequence cut in two: the parts have its elements, and join to it.
LEMMA PrefixIs ==
  ASSUME NEW A, NEW s \in Seq(A), NEW r \in 0 .. Len(s)
  PROVE  /\ SubSeq(s, 1, r) \in Seq(A) /\ Len(SubSeq(s, 1, r)) = r
         /\ \A i \in 1 .. r : SubSeq(s, 1, r)[i] = s[i]
         /\ Rest(s, r) \in Seq(A) /\ Len(Rest(s, r)) = Len(s) - r
         /\ \A i \in 1 .. Len(s) - r : Rest(s, r)[i] = s[r + i]
         /\ Joins(SubSeq(s, 1, r), Rest(s, r), s)
         /\ SubSeq(s, 1, 0) = << >> /\ SubSeq(s, 1, Len(s)) = s
<1> DEFINE a == SubSeq(s, 1, r)
<1> DEFINE b == Rest(s, r)
<1>1. /\ Len(s) \in Nat /\ r \in Nat /\ r <= Len(s) /\ DOMAIN s = 1 .. Len(s)
      /\ \A i \in 1 .. Len(s) : s[i] \in A
  BY LenProperties
<1>2. /\ \A i \in 1 .. r : s[i] \in A
      /\ \A i \in r + 1 .. Len(s) : s[i] \in A
  BY <1>1
<1>3. a \in Seq(A) /\ Len(a) = r /\ \A i \in 1 .. r : a[i] = s[i]
  <2>1. \A i \in 1 .. r : i \in 1 .. r - 1 + 1 /\ 1 + i - 1 = i
    BY <1>1
  <2>2. a \in Seq(A) /\ Len(a) = r /\ \A i \in 1 .. r - 1 + 1 : a[i] = s[1 + i - 1]
    BY <1>1, <1>2, SubSeqProperties
  <2> HIDE DEF a
  <2> QED BY <2>1, <2>2
<1>4. b \in Seq(A) /\ Len(b) = Len(s) - r /\ \A i \in 1 .. Len(s) - r : b[i] = s[r + i]
  <2> DEFINE m == r + 1
  <2>1. m \in Int /\ Len(s) \in Int /\ \A i \in m .. Len(s) : s[i] \in A
    BY <1>1, <1>2
  <2>2. b = SubSeq(s, m, Len(s))
    BY DEF Rest
  <2>3. \A i \in 1 .. Len(s) - r : i \in 1 .. Len(s) - m + 1 /\ m + i - 1 = r + i
    BY <1>1
  <2>4. (IF m <= Len(s) THEN Len(s) - m + 1 ELSE 0) = Len(s) - r
    <3> DEFINE n == Len(s)
    <3>1. n \in Nat /\ r \in Nat /\ r <= n
      BY <1>1
    <3> HIDE DEF n
    <3>2. (IF r + 1 <= n THEN n - (r + 1) + 1 ELSE 0) = n - r
      BY <3>1
    <3> QED BY <3>2 DEF n
  <2> HIDE DEF m, b
  <2>5. /\ b \in Seq(A) /\ Len(b) = IF m <= Len(s) THEN Len(s) - m + 1 ELSE 0
        /\ \A i \in 1 .. Len(s) - m + 1 : b[i] = s[m + i - 1]
    BY <2>1, <2>2, SubSeqProperties
  <2> QED BY <2>3, <2>4, <2>5
<1> HIDE DEF a, b
<1>5. Joins(a, b, s)
  <2>1. /\ a \o b \in Seq(A) /\ Len(a \o b) = Len(a) + Len(b)
        /\ \A i \in 1 .. Len(a) + Len(b) : (a \o b)[i] = IF i <= Len(a) THEN a[i] ELSE b[i - Len(a)]
    BY <1>3, <1>4, ConcatProperties
  <2>2. Len(a) + Len(b) = Len(s)
    BY <1>1, <1>3, <1>4
  <2> DEFINE c == a \o b
  <2> HIDE DEF c
  <2>3. ASSUME NEW i \in 1 .. Len(s) PROVE c[i] = s[i]
    <3>1. c[i] = IF i <= r THEN a[i] ELSE b[i - r]
      BY <1>3, <2>1, <2>2 DEF c
    <3>2. CASE i <= r
      BY <1>1, <1>3, <3>1, <3>2
    <3>3. CASE ~(i <= r)
      <4>1. i - r \in 1 .. Len(s) - r /\ r + (i - r) = i
        BY <1>1, <3>3
      <4> QED BY <1>4, <3>1, <3>3, <4>1
    <3> QED BY <3>2, <3>3
  <2>4. c \in Seq(A) /\ Len(c) = Len(s)
    BY <2>1, <2>2 DEF c
  <2>5. c = s
    BY <2>3, <2>4, SeqEqual
  <2> QED BY <2>5 DEF c, Joins
<1>6. SubSeq(s, 1, Len(s)) = s
  BY SubSeqFull
<1>7. SubSeq(s, 1, 0) = << >>
  BY SubSeqEmpty
<1> QED BY <1>3, <1>4, <1>5, <1>6, <1>7 DEF a, b

\* The next prefix has the next element behind the last one.
LEMMA PrefixGrows ==
  ASSUME NEW A, NEW s \in Seq(A), NEW k \in 0 .. Len(s), k < Len(s)
  PROVE  SubSeq(s, 1, k + 1) = Append(SubSeq(s, 1, k), s[k + 1])
<1> DEFINE m == k + 1
<1>1. m \in 1 .. Len(s) /\ m - 1 = k /\ m \in 0 .. Len(s) /\ Len(s) \in Nat
  BY LenProperties
<1>2. \A i \in 1 .. k : i \in 1 .. m /\ m \in 1 .. m /\ (i \in 1 .. m)
  BY <1>1
<1>3. \A i \in 1 .. m : i \in 1 .. k \/ i = m
  BY <1>1
<1> HIDE DEF m
<1> DEFINE p == SubSeq(s, 1, k)
<1> DEFINE q == SubSeq(s, 1, m)
<1> DEFINE x == s[m]
<1>4. p \in Seq(A) /\ Len(p) = k /\ \A i \in 1 .. k : p[i] = s[i]
  BY PrefixIs
<1>5. q \in Seq(A) /\ Len(q) = m /\ \A i \in 1 .. m : q[i] = s[i]
  BY <1>1, PrefixIs
<1>6. x \in A
  BY <1>1, ElementOfSeq
<1> HIDE DEF p, q, x
<1>7. /\ Append(p, x) \in Seq(A) /\ Len(Append(p, x)) = Len(p) + 1
      /\ \A i \in 1 .. Len(p) : Append(p, x)[i] = p[i]
      /\ Append(p, x)[Len(p) + 1] = x
  BY <1>4, <1>6, AppendProperties
<1>8. Len(p) + 1 = m
  BY <1>4 DEF m
<1>9. \A i \in 1 .. m : Append(p, x)[i] = q[i]
  BY <1>3, <1>4, <1>5, <1>7, <1>8 DEF x
<1>10. Append(p, x) = q
  BY <1>5, <1>7, <1>8, <1>9, SeqEqual
<1> QED BY <1>10 DEF p, q, x, m

\* The ends are in order, and the last of them is the end of all.
LEMMA EndsInOrder ==
  ASSUME NEW A, NEW s \in Seq(Seq(A)), NEW r \in 0 .. Len(s), NEW q \in r .. Len(s)
  PROVE  /\ EndOf(s, r) \in Nat /\ EndOf(s, q) \in Nat /\ EndOf(s, r) <= EndOf(s, q)
         /\ EndOf(s, 0) = 0 /\ EndOf(s, Len(s)) = Len(FlattenSeq(s))
<1> DEFINE t == SubSeq(s, 1, q)
<1> DEFINE u == SubSeq(s, 1, r)
<1>1. Len(s) \in Nat /\ q \in 0 .. Len(s)
  BY LenProperties
<1>2. t \in Seq(Seq(A)) /\ Len(t) = q /\ u \in Seq(Seq(A))
  BY <1>1, PrefixIs
<1>3. SubSeq(t, 1, r) = u
  <2>1. u \in Seq(Seq(A)) /\ Len(u) = r /\ \A i \in 1 .. r : u[i] = s[i]
    BY PrefixIs
  <2>2. t \in Seq(Seq(A)) /\ Len(t) = q /\ \A i \in 1 .. q : t[i] = s[i]
    BY <1>1, PrefixIs
  <2>3. \A i \in 1 .. r : i \in 1 .. q
    BY <1>1
  <2> DEFINE w == SubSeq(t, 1, r)
  <2> HIDE DEF t, u
  <2>4. w \in Seq(Seq(A)) /\ Len(w) = r /\ \A i \in 1 .. r : w[i] = t[i]
    BY <1>1, <2>2, PrefixIs
  <2> HIDE DEF w
  <2>5. w = u
    BY <2>1, <2>2, <2>3, <2>4, SeqEqual
  <2> QED BY <2>5 DEF w
<1> DEFINE v == Rest(t, r)
<1>4. t = u \o v /\ v \in Seq(Seq(A))
  <2> HIDE DEF t
  <2>1. r \in 0 .. Len(t)
    BY <1>1, <1>2
  <2>2. Joins(SubSeq(t, 1, r), v, t) /\ v \in Seq(Seq(A))
    BY <1>2, <2>1, PrefixIs
  <2> HIDE DEF v
  <2> QED BY <1>3, <2>2 DEF Joins
<1> HIDE DEF t, u, v
<1>5. FlattenSeq(t) = FlattenSeq(u) \o FlattenSeq(v)
  BY <1>2, <1>4, FlattenConcat
<1>6. FlattenSeq(t) \in Seq(A) /\ FlattenSeq(u) \in Seq(A) /\ FlattenSeq(v) \in Seq(A)
  BY <1>2, <1>4, FlattenType
<1>7. Len(FlattenSeq(t)) = Len(FlattenSeq(u)) + Len(FlattenSeq(v))
  BY <1>5, <1>6, ConcatProperties
<1>8. Len(FlattenSeq(t)) \in Nat /\ Len(FlattenSeq(u)) \in Nat /\ Len(FlattenSeq(v)) \in Nat
  BY <1>6, LenProperties
<1>9. EndOf(s, 0) = 0 /\ EndOf(s, Len(s)) = Len(FlattenSeq(s))
  BY <1>1, PrefixIs, FlattenEmpty, EmptySeq DEF EndOf
<1> QED BY <1>7, <1>8, <1>9 DEF EndOf, t, u

\* The elements between two ends are those of one of the sequences.
LEMMA EndsCutParts ==
  ASSUME NEW A, NEW s \in Seq(Seq(A)), NEW r \in 1 .. Len(s)
  PROVE  /\ EndOf(s, r - 1) \in Nat /\ s[r] \in Seq(A) /\ Len(s[r]) \in Nat
         /\ EndOf(s, r) = EndOf(s, r - 1) + Len(s[r])
         /\ EndOf(s, r) <= Len(FlattenSeq(s))
         /\ \A i \in 1 .. Len(s[r]) : FlattenSeq(s)[EndOf(s, r - 1) + i] = s[r][i]
<1> DEFINE u == SubSeq(s, 1, r - 1)
<1> DEFINE v == SubSeq(s, 1, r)
<1> DEFINE w == Rest(s, r)
<1> DEFINE x == s[r]
<1>1. /\ Len(s) \in Nat /\ r - 1 \in 0 .. Len(s) /\ r \in 0 .. Len(s) /\ x \in Seq(A)
      /\ Len(x) \in Nat
  BY LenProperties
<1>2. u \in Seq(Seq(A)) /\ v \in Seq(Seq(A)) /\ w \in Seq(Seq(A)) /\ s = v \o w
  BY <1>1, PrefixIs DEF Joins
<1>3. v = u \o <<x>>
  BY <1>1, SubSeqRecursiveSecond
<1>4. v = Append(u, x)
  <2> HIDE DEF u, v, x
  <2> QED BY <1>1, <1>2, <1>3, AppendIsConcat
<1>5. EndOf(s, r - 1) = Len(FlattenSeq(u)) /\ EndOf(s, r) = Len(FlattenSeq(v))
  BY DEF EndOf
<1> HIDE DEF u, v, w, x
<1>6. FlattenSeq(v) = FlattenSeq(u) \o x
  BY <1>1, <1>2, <1>4, FlattenAppend
<1>7. FlattenSeq(s) = FlattenSeq(v) \o FlattenSeq(w)
  BY <1>2, FlattenConcat
<1>8. FlattenSeq(u) \in Seq(A) /\ FlattenSeq(v) \in Seq(A) /\ FlattenSeq(w) \in Seq(A)
  BY <1>2, FlattenType
<1> DEFINE fu == FlattenSeq(u)
<1> DEFINE fv == FlattenSeq(v)
<1> DEFINE fw == FlattenSeq(w)
<1>9. Len(fu) \in Nat /\ Len(fv) \in Nat /\ Len(fw) \in Nat
  BY <1>8, LenProperties
<1> HIDE DEF fu, fv, fw
<1>10. /\ Len(fv) = Len(fu) + Len(x)
       /\ \A i \in 1 .. Len(fu) + Len(x) : fv[i] = IF i <= Len(fu) THEN fu[i] ELSE x[i - Len(fu)]
  BY <1>1, <1>6, <1>8, ConcatProperties DEF fu, fv
<1>11. /\ Len(FlattenSeq(s)) = Len(fv) + Len(fw)
       /\ \A i \in 1 .. Len(fv) + Len(fw) :
            FlattenSeq(s)[i] = IF i <= Len(fv) THEN fv[i] ELSE fw[i - Len(fv)]
  BY <1>7, <1>8, ConcatProperties DEF fv, fw
<1>12. ASSUME NEW i \in 1 .. Len(x) PROVE FlattenSeq(s)[Len(fu) + i] = x[i]
  <2>1. /\ Len(fu) + i \in 1 .. Len(fu) + Len(x) /\ Len(fu) + i \in 1 .. Len(fv) + Len(fw)
        /\ Len(fu) + i <= Len(fv) /\ ~(Len(fu) + i <= Len(fu)) /\ Len(fu) + i - Len(fu) = i
    BY <1>1, <1>9, <1>10
  <2>2. FlattenSeq(s)[Len(fu) + i] = fv[Len(fu) + i]
    BY <1>11, <2>1
  <2>3. fv[Len(fu) + i] = x[Len(fu) + i - Len(fu)]
    BY <1>10, <2>1
  <2> QED BY <2>1, <2>2, <2>3
<1>13. Len(fv) <= Len(FlattenSeq(s))
  BY <1>9, <1>11
<1> QED BY <1>1, <1>5, <1>9, <1>10, <1>12, <1>13 DEF x, fu, fv

\* The elements of what was appended to come first.
LEMMA EndOfAppended ==
  ASSUME NEW A, NEW s \in Seq(Seq(A)), NEW x \in Seq(A), NEW r \in 0 .. Len(s)
  PROVE  EndOf(Append(s, x), r) = EndOf(s, r)
<1> DEFINE t == Append(s, x)
<1>1. /\ t \in Seq(Seq(A)) /\ Len(t) = Len(s) + 1 /\ Len(s) \in Nat
      /\ \A i \in 1 .. Len(s) : t[i] = s[i]
  BY AppendProperties, LenProperties
<1> HIDE DEF t
<1>2. \A i \in 1 .. r : s[i] \in Seq(A) /\ t[i] = s[i] /\ t[i] \in Seq(A)
  <2>1. \A i \in 1 .. Len(s) : s[i] \in Seq(A)
    BY LenProperties
  <2> QED BY <1>1, <2>1
<1>3. /\ SubSeq(s, 1, r) \in Seq(Seq(A)) /\ Len(SubSeq(s, 1, r)) = r
      /\ \A i \in 1 .. r - 1 + 1 : SubSeq(s, 1, r)[i] = s[1 + i - 1]
  BY <1>1, <1>2, SubSeqProperties, PrefixIs
<1>4. /\ SubSeq(t, 1, r) \in Seq(Seq(A)) /\ Len(SubSeq(t, 1, r)) = r
      /\ \A i \in 1 .. r - 1 + 1 : SubSeq(t, 1, r)[i] = t[1 + i - 1]
  <2>1. r \in 0 .. Len(t)
    BY <1>1
  <2> QED BY <1>1, <1>2, <2>1, SubSeqProperties, PrefixIs
<1>5. \A i \in 1 .. r : SubSeq(t, 1, r)[i] = SubSeq(s, 1, r)[i]
  BY <1>1, <1>2, <1>3, <1>4
<1>6. SubSeq(t, 1, r) = SubSeq(s, 1, r)
  BY <1>3, <1>4, <1>5, SeqEqual
<1> QED BY <1>6 DEF EndOf, t

------------------------------------------------------------------------------
(* The greatest, the least, and the members of a finite set in an order. *)

\* The bound of an interval is the greatest of each set that has it.
LEMMA MaxIs ==
  ASSUME NEW n \in Nat, NEW s \in SUBSET (1 .. n + 1), n + 1 \in s
  PROVE  Max(s) = n + 1
<1>1. \A y \in s : n + 1 >= y
  OBVIOUS
<1>2. ASSUME NEW x \in s, \A y \in s : x >= y PROVE x = n + 1
  BY <1>2
<1> QED BY <1>1, <1>2 DEF Max

\* A nonempty set of the first n numbers has a greatest member.
LEMMA MaxIn ==
  ASSUME NEW n \in Nat, NEW s \in SUBSET (1 .. n), s # {}
  PROVE  Max(s) \in s /\ \A y \in s : Max(s) >= y
<1> DEFINE S == {m \in Nat :
                \A r \in SUBSET (1 .. m) : r # {} => Max(r) \in r /\ \A y \in r : Max(r) >= y}
<1>1. 0 \in S
  <2>1. 1 .. 0 = {}
    OBVIOUS
  <2> QED BY <2>1
<1>2. ASSUME NEW m \in Nat, m \in S PROVE m + 1 \in S
  <2> SUFFICES ASSUME NEW r \in SUBSET (1 .. m + 1), r # {}
               PROVE  Max(r) \in r /\ \A y \in r : Max(r) >= y
    OBVIOUS
  <2>1. CASE m + 1 \in r
    BY <2>1, MaxIs
  <2>2. CASE m + 1 \notin r
    <3>1. r \in SUBSET (1 .. m)
      BY <2>2
    <3> QED BY <1>2, <3>1
  <2> QED BY <2>1, <2>2
<1> HIDE DEF S
<1>3. n \in S
  BY <1>1, <1>2, NatSetInduction
<1> QED BY <1>3 DEF S

\* A member that no other exceeds is the greatest.
LEMMA MaxIsGreatest ==
  ASSUME NEW S \in SUBSET Int, NEW m \in S, \A x \in S : x <= m
  PROVE  Max(S) = m
<1>1. \A y \in S : m >= y
  OBVIOUS
<1>2. ASSUME NEW x \in S, \A y \in S : x >= y PROVE x = m
  <2>1. x >= m /\ x <= m /\ x \in Int /\ m \in Int
    BY <1>2
  <2> QED BY <2>1
<1> QED BY <1>1, <1>2 DEF Max

\* A member that exceeds no other is the least.
LEMMA MinIsLeast ==
  ASSUME NEW S \in SUBSET Int, NEW m \in S, \A x \in S : m <= x
  PROVE  Min(S) = m
<1>1. ASSUME NEW x \in S, \A y \in S : x <= y PROVE x = m
  <2>1. x >= m /\ x <= m /\ x \in Int /\ m \in Int
    BY <1>1
  <2> QED BY <2>1
<1> QED BY <1>1 DEF Min

\* A nonempty set of naturals has a least member.
LEMMA MinIn ==
  ASSUME NEW S \in SUBSET Nat, S # {}
  PROVE  Min(S) \in S /\ \A y \in S : Min(S) <= y
<1>1. \E m \in S : \A y \in S : m <= y
  <2> SUFFICES ASSUME \A m \in S : \E y \in S : ~(m <= y) PROVE FALSE
    OBVIOUS
  <2> DEFINE L == {n \in Nat : \A k \in S : n < k}
  <2>1. 0 \in L
    BY Z3
  <2>2. \A n \in Nat : n \in L => n + 1 \in L
    <3> SUFFICES ASSUME NEW n \in Nat, n \in L, NEW k \in S, ~(n + 1 < k) PROVE FALSE
      OBVIOUS
    <3>1. k = n + 1
      OBVIOUS
    <3>2. PICK y \in S : ~(n + 1 <= y)
      BY <3>1
    <3>3. n < y /\ y \in Nat
      OBVIOUS
    <3> QED BY <3>2, <3>3
  <2> HIDE DEF L
  <2>3. \A n \in Nat : n \in L
    BY <2>1, <2>2, NatSetInduction
  <2>4. PICK k \in S : TRUE
    OBVIOUS
  <2>5. k \in L /\ k \in Nat
    BY <2>3
  <2> QED BY <2>5 DEF L
<1>2. PICK m \in S : \A y \in S : m <= y
  BY <1>1
<1>3. S \in SUBSET Int
  OBVIOUS
<1> QED BY <1>2, <1>3, MinIsLeast

\* Finitely many are the values that a sequence has.
LEMMA ValuesAreFinite ==
  ASSUME NEW n \in Nat, NEW f, DOMAIN f = 1 .. n,
         NEW T, \A x \in T : \E i \in 1 .. n : f[i] = x
  PROVE  IsFiniteSet(T)
<1> DEFINE R == {f[i] : i \in 1 .. n}
<1> DEFINE g == [i \in 1 .. n |-> f[i]]
<1>1. IsFiniteSet(1 .. n)
  <2>1. 1 \in Int /\ n \in Int
    OBVIOUS
  <2> QED BY <2>1, FS_Interval
<1>2. g \in Surjection(1 .. n, R)
  BY DEF Surjection
<1>3. IsFiniteSet(R)
  <2> HIDE DEF g, R
  <2> QED BY <1>1, <1>2, FS_Surjection
<1>4. T \in SUBSET R
  OBVIOUS
<1> HIDE DEF R
<1> QED BY <1>3, <1>4, FS_Subset

\* The orders of a finite set have all its members.
LEMMA OrderHasAll ==
  ASSUME NEW S, IsFiniteSet(S), NEW order \in SetToSeqs(S)
  PROVE  /\ order \in Seq(S) /\ Len(order) \in Nat /\ DOMAIN order = 1 .. Len(order)
         /\ \A x \in S : \E i \in 1 .. Len(order) : order[i] = x
<1> DEFINE n == Cardinality(S)
<1>1. n \in Nat
  BY FS_CardinalityType
<1> HIDE DEF n
<1>2. order \in [1 .. n -> S] /\ \A i, j \in 1 .. n : i # j => order[i] # order[j]
  BY DEF SetToSeqs, n
<1>3. order \in Injection(1 .. n, S)
  BY <1>2 DEF Injection, IsInjective
<1>4. IsFiniteSet(1 .. n) /\ Cardinality(1 .. n) = n
  <2>1. 1 \in Int /\ n \in Int
    BY <1>1
  <2>2. IsFiniteSet(1 .. n) /\ Cardinality(1 .. n) = IF 1 > n THEN 0 ELSE n - 1 + 1
    BY <2>1, FS_Interval
  <2> QED BY <1>1, <2>2
<1>5. order \in Surjection(1 .. n, S)
  BY <1>3, <1>4, FS_Injection DEF n
<1>6. \A x \in S : \E i \in 1 .. n : order[i] = x
  BY <1>5 DEF Surjection
<1>7. order \in Seq(S) /\ Len(order) = n /\ DOMAIN order = 1 .. n
  BY <1>1, <1>2
<1> QED BY <1>1, <1>6, <1>7

==============================================================================
