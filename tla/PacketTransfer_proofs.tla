------------------------- MODULE PacketTransfer_proofs -------------------------
(***************************************************************************)
(* For all packets, buffers, frames and cuts of the bytes by send() and    *)
(* recv(): a packet whose call has returned is on the wire, the reader is  *)
(* always where the bytes say it is, it gives up only on a stream with a   *)
(* piece torn out, and what was sent without an exception can be read.     *)
(***************************************************************************)
EXTENDS PacketTransfer, ByteStreams_proofs

------------------------------------------------------------------------------
(* Writing. *)

\* The tokens of the packets that were begun.
Tokens == {t \in Pairs : t[1] \in 1 .. Len(shapes) /\ t[2] \in 1 .. PacketLen(t[1])}

TypesOK ==
  /\ mode \in Settings /\ shapes \in Seq(Shapes) /\ thrown \in SUBSET (1 .. Len(shapes))
  /\ work \in Seq(CallsOf(Tokens)) /\ buf \in Seq(Tokens) /\ gone \in 0 .. Len(buf)
  /\ net \in Seq(Tokens) /\ inbuf \in Seq(Tokens)

\* A packet that is being written ends with a flush, which leaves nothing.
WriterInv == TypesOK /\ LastIsFlush(work) /\ ReturnedIsSent

\* What is behind the bytes that were received.
ToCome == net \o (Rest(buf, gone) \o Sent(work))

\* Concatenations, by name.
LEMMA MovedOver ==
  ASSUME NEW A, NEW a \in Seq(A), NEW b \in Seq(A), NEW c \in Seq(A), NEW x \in Seq(A), NEW y \in Seq(A),
         NEW d \in Seq(A), Joins(x, y, b), Joins(a, x, d)
  PROVE  Joins(d, y \o c, a \o (b \o c))
<1>1. b \o c = x \o (y \o c)
  <2>1. Reassociates(x, y, c)
    BY Reassociate
  <2> QED BY <2>1, Zenon DEF Reassociates, Joins
<1>2. y \o c \in Seq(A)
  BY ConcatProperties
<1> DEFINE z == y \o c
<1> HIDE DEF z
<1>3. Reassociates(a, x, z)
  BY <1>2, Reassociate DEF z
<1>4. (a \o x) \o (y \o c) = a \o (x \o (y \o c))
  BY <1>3, Zenon DEF Reassociates, z
<1> QED BY <1>1, <1>4 DEF Joins

\* The calls that write move bytes on, and neither add, drop nor swap any.
LEMMA WritesMoveBytes ==
  ASSUME WriterInv, Writes
  PROVE  /\ WriterInv' /\ ToCome' = ToCome
         /\ ToCome \in Seq(Tokens)
<1> DEFINE A == Tokens
<1> DEFINE C == CallsOf(Tokens)
<1> DEFINE s == Sent(work)
<1> DEFINE st == Sent(Tail(work))
<1> DEFINE u == Rest(buf, gone)
<1>1. /\ mode \in Settings /\ shapes \in Seq(Shapes) /\ thrown \in SUBSET (1 .. Len(shapes))
      /\ work \in Seq(C) /\ buf \in Seq(A) /\ gone \in 0 .. Len(buf) /\ net \in Seq(A) /\ inbuf \in Seq(A)
      /\ LastIsFlush(work)
  BY DEF WriterInv, TypesOK
<1>2. work # << >>
  BY DEF Writes, WriteToBuffer, SendBuffer, FlushNothing, SendDirect, FlushIsDue, DirectIsDue, Idle
<1>3. mode' = mode /\ shapes' = shapes /\ thrown' = thrown /\ inbuf' = inbuf
  BY DEF Writes, WriteToBuffer, SendBuffer, FlushNothing, SendDirect, readVars
<1>4. A' = A
  BY <1>3 DEF Tokens, PacketLen, Pairs
<1>5. C' = C
  BY <1>4 DEF CallsOf
<1>6. /\ Call \in C /\ Tail(work) \in Seq(C) /\ Joins(Call.data, st, s)
      /\ s \in Seq(A) /\ st \in Seq(A) /\ LastIsFlush(Tail(work))
      /\ Call.op = "write" => Tail(work) # << >>
  <2>1. Call = Head(work)
    BY DEF Call
  <2>2. /\ Head(work) \in C /\ Tail(work) \in Seq(C) /\ Joins(Head(work).data, st, s)
        /\ s \in Seq(A) /\ st \in Seq(A) /\ LastIsFlush(Tail(work))
        /\ Head(work).op = "write" => Tail(work) # << >>
    BY <1>1, <1>2, FirstCall
  <2> QED BY <2>1, <2>2
<1>7. /\ Call.data \in Seq(A) /\ Call.flushed \in BOOLEAN /\ (Call.op = "flush" => Call.data = << >>)
      /\ Call.op \in {"write", "flush"}
  BY <1>6 DEF CallsOf
<1>8. u \in Seq(A) /\ Rest(buf, Len(buf)) = << >> /\ Len(buf) \in Nat
  <2>1. Len(buf) \in Nat
    BY <1>1, LenProperties
  <2>2. Rest(buf, Len(buf)) = << >>
    BY <1>1, <2>1, SubSeqEmpty DEF Rest
  <2> QED BY <1>1, <2>1, <2>2, PrefixIs
<1>9. buf = << >> => gone = 0 /\ u = << >>
  <2>1. SUFFICES ASSUME buf = << >> PROVE gone = 0 /\ u = << >>
    OBVIOUS
  <2>2. Len(buf) = 0
    BY <2>1
  <2> QED BY <1>1, <1>8, <2>1, <2>2
<1>10. ToCome \in Seq(A)
  BY <1>1, <1>6, <1>8, ConcatProperties DEF ToCome
<1>11. Call.op = "flush" => s = st
  <2>1. SUFFICES ASSUME Call.op = "flush" PROVE s = st
    OBVIOUS
  <2>2. s = << >> \o st
    BY <1>6, <1>7, <2>1 DEF Joins
  <2> QED BY <1>6, <2>2
<1>12. SUFFICES /\ work' \in Seq(C) /\ buf' \in Seq(A) /\ gone' \in 0 .. Len(buf') /\ net' \in Seq(A)
                /\ LastIsFlush(work') /\ (work' = << >> => buf' = << >>)
                /\ net' \o (Rest(buf', gone') \o Sent(work')) = net \o (u \o s)
  <2>1. TypesOK'
    BY <1>1, <1>3, <1>4, <1>5, <1>12 DEF TypesOK
  <2>2. ReturnedIsSent'
    BY <1>12 DEF ReturnedIsSent, Idle
  <2>3. LastIsFlush(work)'
    BY <1>12 DEF LastIsFlush
  <2>4. ToCome' = ToCome
    BY <1>12 DEF ToCome, Rest, Sent, Map, DataOf
  <2> QED BY <1>10, <2>1, <2>2, <2>3, <2>4 DEF WriterInv
<1> HIDE DEF A, C, s, st, u
<1>13. CASE WriteToBuffer
  <2> DEFINE x == Call.data
  <2> DEFINE new == buf \o x
  <2>1. buf' = new /\ work' = Tail(work) /\ gone' = gone /\ net' = net /\ Call.op = "write"
    BY <1>13 DEF WriteToBuffer, Done
  <2>2. new \in Seq(A) /\ Len(new) = Len(buf) + Len(x) /\ Len(x) \in Nat
    BY <1>1, <1>7, ConcatProperties, LenProperties
  <2>3. Len(buf) \in 0 .. Len(new) /\ gone \in 0 .. Len(new) /\ gone \in Nat /\ Len(buf) \in gone .. Len(new)
    BY <1>1, <1>8, <2>2
  <2>4. Rest(new, gone) = u \o x
    <3>1. \A i \in 1 .. Len(buf) : new[i] = buf[i]
      <4> TAKE i \in 1 .. Len(buf)
      <4>1. i \in 1 .. Len(buf) + Len(x)
        BY <1>8, <2>2
      <4> QED BY <1>1, <1>7, <4>1, ConcatProperties
    <3>2. \A i \in 1 .. Len(x) : new[Len(buf) + i] = x[i]
      <4> TAKE i \in 1 .. Len(x)
      <4> DEFINE j == Len(buf) + i
      <4>1. j \in 1 .. Len(buf) + Len(x) /\ ~(j <= Len(buf)) /\ j - Len(buf) = i
        BY <1>8, <2>2
      <4>2. buf \in Seq(A) /\ x \in Seq(A)
        BY <1>1, <1>7
      <4> HIDE DEF j, x
      <4>3. (buf \o x)[j] = x[j - Len(buf)]
        BY <4>1, <4>2, ConcatProperties
      <4> QED BY <4>1, <4>3 DEF j
    <3> DEFINE n == Len(buf)
    <3> DEFINE l == Len(x)
    <3>3. n \in Nat /\ l \in Nat /\ gone \in 0 .. n
      BY <1>1, <1>8, <2>2
    <3>4. u \in Seq(A) /\ Len(u) = n - gone /\ \A i \in 1 .. n - gone : u[i] = buf[gone + i]
      BY <1>1, PrefixIs DEF u
    <3>5. /\ Rest(new, gone) \in Seq(A) /\ Len(Rest(new, gone)) = (n + l) - gone
          /\ \A i \in 1 .. (n + l) - gone : Rest(new, gone)[i] = new[gone + i]
      <4> HIDE DEF new
      <4>1. /\ Rest(new, gone) \in Seq(A) /\ Len(Rest(new, gone)) = Len(new) - gone
            /\ \A i \in 1 .. Len(new) - gone : Rest(new, gone)[i] = new[gone + i]
        BY <2>2, <2>3, PrefixIs
      <4> QED BY <2>2, <4>1
    <3>6. x \in Seq(A) /\ Len(x) = l
      BY <1>7
    <3> DEFINE v == Rest(new, gone)
    <3> HIDE DEF n, l, new, x, v
    <3>7. u \o x \in Seq(A) /\ Len(u \o x) = (n + l) - gone
      <4>1. u \o x \in Seq(A) /\ Len(u \o x) = Len(u) + Len(x)
        BY <3>4, <3>6, ConcatProperties
      <4> QED BY <3>3, <3>4, <3>6, <4>1
    <3>8. ASSUME NEW i \in 1 .. (n + l) - gone PROVE (u \o x)[i] = v[i]
      <4>1. i \in 1 .. Len(u) + Len(x)
        BY <3>3, <3>4, <3>6
      <4>2. CASE i <= n - gone
        <5>1. i <= Len(u) /\ i \in 1 .. n - gone /\ gone + i \in 1 .. n
          BY <3>3, <3>4, <4>2
        <5>2. (u \o x)[i] = u[i]
          BY <3>4, <3>6, <4>1, <5>1, ConcatProperties
        <5> QED BY <3>1, <3>4, <3>5, <5>1, <5>2 DEF n, v
      <4>3. CASE ~(i <= n - gone)
        <5> DEFINE j == i - (n - gone)
        <5>1. j \in 1 .. l /\ gone + i = n + j
          BY <3>3, <4>3
        <5>2. ~(i <= Len(u)) /\ i - Len(u) = j
          BY <3>3, <3>4, <4>3
        <5>3. u \in Seq(A) /\ x \in Seq(A)
          BY <3>4, <3>6
        <5> HIDE DEF j
        <5>4. (u \o x)[i] = x[i - Len(u)]
          BY <4>1, <5>2, <5>3, ConcatProperties
        <5>5. v[i] = new[n + j]
          BY <3>5, <5>1 DEF v
        <5>6. new[n + j] = x[j]
          BY <3>2, <3>6, <5>1 DEF n
        <5> QED BY <5>2, <5>4, <5>5, <5>6
      <4> QED BY <4>2, <4>3
    <3>9. u \o x = v
      BY <3>5, <3>7, <3>8, SeqEqual DEF v
    <3> QED BY <3>9 DEF v
  <2>5. (u \o x) \o st = u \o s
    <3>1. s = x \o st
      BY <1>6 DEF Joins
    <3>2. u \in Seq(A) /\ x \in Seq(A) /\ st \in Seq(A)
      BY <1>6, <1>7, <1>8
    <3> HIDE DEF x
    <3>3. Reassociates(u, x, st)
      BY <3>2, Reassociate
    <3> QED BY <3>1, <3>3, Zenon DEF Reassociates
  <2>6. work' # << >>
    BY <1>6, <2>1
  <2>7. Sent(work') = st
    BY <2>1 DEF st
  <2> HIDE DEF new, x
  <2> QED BY <1>1, <1>6, <2>1, <2>2, <2>3, <2>4, <2>5, <2>6, <2>7
<1>14. CASE SendBuffer
  <2>1. PICK n \in 1 .. Len(buf) - gone :
          /\ net' = net \o SubSeq(buf, gone + 1, gone + n)
          /\ IF gone + n < Len(buf)
             THEN gone' = gone + n /\ buf' = buf /\ work' = work
             ELSE /\ gone' = 0 /\ buf' = << >>
                  /\ IF Call.op = "flush" THEN work' = Tail(work) ELSE work' = [work EXCEPT ![1].flushed = TRUE]
    BY <1>14 DEF SendBuffer, Done
  <2> DEFINE b == gone + n
  <2> DEFINE x == SubSeq(buf, gone + 1, b)
  <2>2. b \in gone .. Len(buf) /\ b \in 0 .. Len(buf) /\ gone \in 0 .. Len(buf) /\ b \in Nat
    BY <1>1, <1>8
  <2>3. net' = net \o x
    BY <2>1
  <2>4. x \in Seq(A) /\ Rest(buf, b) \in Seq(A) /\ Joins(x, Rest(buf, b), u)
    <3> HIDE DEF b
    <3> QED BY <1>1, <2>2, PieceAndRest DEF u
  <2>5. net' \in Seq(A)
    <3> HIDE DEF x
    <3> QED BY <1>1, <2>3, <2>4, ConcatProperties
  <2>6. CASE b < Len(buf)
    <3>1. gone' = b /\ buf' = buf /\ work' = work
      BY <2>1, <2>6
    <3>2. Rest(buf', gone') = Rest(buf, b) /\ Sent(work') = s
      BY <3>1 DEF s
    <3> DEFINE y == Rest(buf, b)
    <3> HIDE DEF x, y, b
    <3>3. net' \o (y \o s) = net \o (u \o s)
      <4>1. Joins(net, x, net') /\ Joins(x, y, u) /\ y \in Seq(A)
        BY <2>3, <2>4 DEF Joins, y
      <4>2. Joins(net', y \o s, net \o (u \o s))
        BY <1>1, <1>6, <1>8, <2>4, <2>5, <4>1, MovedOver
      <4> QED BY <4>2 DEF Joins
    <3>4. net' \o (Rest(buf', gone') \o Sent(work')) = net \o (u \o s)
      BY <3>2, <3>3 DEF y
    <3> QED BY <1>1, <1>2, <2>2, <2>5, <3>1, <3>4
  <2>7. CASE ~(b < Len(buf))
    <3>1. gone' = 0 /\ buf' = << >>
          /\ IF Call.op = "flush" THEN work' = Tail(work) ELSE work' = [work EXCEPT ![1].flushed = TRUE]
      BY <2>1, <2>7
    <3>2. b = Len(buf)
      BY <1>8, <2>2, <2>7
    <3>3. Rest(buf, b) = << >>
      BY <1>8, <3>2
    <3>4. Rest(buf', gone') = << >> /\ buf' \in Seq(A) /\ gone' \in 0 .. Len(buf')
      BY <3>1 DEF Rest
    <3>5. work' \in Seq(C) /\ LastIsFlush(work') /\ Sent(work') = s
      <4>1. CASE Call.op = "flush"
        BY <1>6, <1>11, <3>1, <4>1 DEF st
      <4>2. CASE Call.op # "flush"
        <5>1. work' = [work EXCEPT ![1].flushed = TRUE] /\ Call.op = "write"
          BY <1>7, <3>1, <4>2
        <5> DEFINE call == [Call EXCEPT !.flushed = TRUE]
        <5>2. call \in C /\ call.op = "write" /\ call.data = Call.data
          BY <1>6, <5>1 DEF C, CallsOf
        <5>3. /\ <<call>> \o Tail(work) \in Seq(C)
              /\ Joins(call.data, st, Sent(<<call>> \o Tail(work)))
              /\ LastIsFlush(<<call>> \o Tail(work))
              /\ \A new \in Seq(C) :
                   /\ Len(new) = Len(work) /\ new[1] = call /\ \A i \in 2 .. Len(work) : new[i] = work[i]
                   => new = <<call>> \o Tail(work)
          <6>1. work \in Seq(CallsOf(A)) /\ call \in CallsOf(A) /\ LastIsFlush(work) /\ work # << >> /\ Tail(work) # << >>
            BY <1>1, <1>2, <1>6, <5>1, <5>2 DEF C, A
          <6> HIDE DEF call
          <6> QED BY <6>1, OtherFirstCall DEF st, C, A
        <5>4. Len(work) \in Nat \ {0} /\ DOMAIN work = 1 .. Len(work) /\ 1 \in DOMAIN work /\ Call = work[1]
          <6>1. Len(work) \in Nat /\ Len(work) # 0 /\ DOMAIN work = 1 .. Len(work)
            BY <1>1, <1>2, LenProperties, EmptySeq
          <6>2. Head(work) = work[1]
            BY <1>1, <1>2, HeadTailProperties
          <6> QED BY <6>1, <6>2 DEF Call
        <5>5. work' = [work EXCEPT ![1] = call]
          BY <1>1, <5>1, <5>4
        <5> HIDE DEF call
        <5>6. work' \in Seq(C) /\ Len(work') = Len(work) /\ work'[1] = call /\ \A i \in 2 .. Len(work) : work'[i] = work[i]
          BY <1>1, <5>2, <5>4, <5>5
        <5>7. work' = <<call>> \o Tail(work)
          BY <5>3, <5>6
        <5>8. Sent(work') = s
          BY <1>6, <5>2, <5>3, <5>7 DEF Joins
        <5> QED BY <5>3, <5>7, <5>8
      <4> QED BY <4>1, <4>2
    <3>6. net' \o (<< >> \o s) = net \o (u \o s)
      <4>1. << >> \in Seq(A) /\ Joins(x, << >>, u)
        BY <2>4, <3>3
      <4> HIDE DEF x
      <4>2. Joins(net, x, net')
        BY <2>3 DEF Joins, x
      <4>3. Joins(net', << >> \o s, net \o (u \o s))
        BY <1>1, <1>6, <1>8, <2>4, <2>5, <4>1, <4>2, MovedOver DEF x
      <4> QED BY <4>3 DEF Joins
    <3>7. net' \o (Rest(buf', gone') \o Sent(work')) = net \o (u \o s)
      BY <3>4, <3>5, <3>6
    <3> QED BY <2>5, <3>1, <3>4, <3>5, <3>7
  <2> QED BY <2>6, <2>7
<1>15. CASE FlushNothing
  <2>1. work' = Tail(work) /\ buf = << >> /\ Call.op = "flush" /\ buf' = buf /\ gone' = gone /\ net' = net
    BY <1>15 DEF FlushNothing, Done
  <2>2. Sent(work') = s
    BY <1>11, <2>1 DEF st
  <2>3. Rest(buf', gone') = u
    BY <2>1 DEF u
  <2> QED BY <1>1, <1>6, <2>1, <2>2, <2>3
<1>16. CASE SendDirect
  <2>1. buf = << >> /\ Call.op = "write" /\ buf' = buf /\ gone' = gone
    BY <1>16 DEF SendDirect, DirectIsDue
  <2>2. PICK n \in 1 .. Len(Call.data) :
          /\ net' = net \o SubSeq(Call.data, 1, n)
          /\ IF n = Len(Call.data) THEN work' = Tail(work)
             ELSE work' = <<Write(SubSeq(Call.data, n + 1, Len(Call.data)))>> \o Tail(work)
    BY <1>16 DEF SendDirect, Done
  <2> DEFINE d == Call.data
  <2> DEFINE x == SubSeq(d, 1, n)
  <2> DEFINE y == Rest(d, n)
  <2>3. d \in Seq(A) /\ Len(d) \in Nat /\ n \in 0 .. Len(d)
    BY <1>7, LenProperties
  <2>4. x \in Seq(A) /\ y \in Seq(A) /\ Joins(x, y, d) /\ SubSeq(d, 1, Len(d)) = d
    <3> HIDE DEF d
    <3> QED BY <2>3, PrefixIs
  <2>5. net' = net \o x /\ (n = Len(d) => work' = Tail(work)) /\ (n # Len(d) => work' = <<Write(y)>> \o Tail(work))
    BY <2>2 DEF Rest
  <2> HIDE DEF d, x, y
  <2>6. net' \in Seq(A)
    BY <1>1, <2>4, <2>5, ConcatProperties
  <2>7. net' \o (y \o st) = net \o (d \o st)
    <3>1. Joins(net, x, net')
      BY <2>5 DEF Joins
    <3>2. Joins(net', y \o st, net \o (d \o st))
      BY <1>1, <1>6, <2>3, <2>4, <2>6, <3>1, MovedOver
    <3> QED BY <3>2 DEF Joins
  <2>8. s = d \o st
    BY <1>6 DEF Joins, d
  <2>9. u = << >> /\ Rest(buf', gone') = << >>
    BY <1>9, <2>1 DEF u
  <2>10. << >> \o s = s
    BY <1>6
  <2>11. SUFFICES work' \in Seq(C) /\ LastIsFlush(work') /\ work' # << >> /\ Sent(work') = y \o st
    <3>1. << >> \o (y \o st) = y \o st
      BY <1>6, <2>4, ConcatProperties
    <3> QED BY <1>1, <2>1, <2>6, <2>7, <2>8, <2>9, <2>10, <2>11, <3>1
  <2>12. CASE n = Len(d)
    <3>1. y = << >>
      BY <2>3, <2>12, SubSeqEmpty DEF y, Rest
    <3>2. y \o st = st
      BY <1>6, <3>1
    <3> QED BY <1>6, <2>1, <2>5, <2>12, <3>2 DEF st
  <2>13. CASE n # Len(d)
    <3>1. Write(y) \in CallsOf(A) /\ Write(y).data = y
      BY <2>4 DEF Write, CallsOf
    <3> DEFINE call == Write(y)
    <3>2. work \in Seq(CallsOf(A)) /\ LastIsFlush(work) /\ work # << >> /\ Tail(work) # << >>
      BY <1>1, <1>2, <1>6, <2>1 DEF C, A
    <3> HIDE DEF call
    <3>3. /\ <<call>> \o Tail(work) \in Seq(CallsOf(A)) /\ <<call>> \o Tail(work) # << >>
          /\ Joins(call.data, Sent(Tail(work)), Sent(<<call>> \o Tail(work)))
          /\ LastIsFlush(<<call>> \o Tail(work))
      BY <3>1, <3>2, OtherFirstCall DEF call
    <3> QED BY <2>5, <2>13, <3>1, <3>3 DEF call, Joins, st, C, A
  <2> QED BY <2>12, <2>13
<1> QED BY <1>13, <1>14, <1>15, <1>16 DEF Writes

\* What is read is read of the bytes that were sent.
LEMMA SendPacketAdds ==
  ASSUME WriterInv, SendPacket, NEW k, IsSum(k, Len(shapes), 1)
  PROVE  /\ WriterInv' /\ Len(shapes) \in Nat /\ Len(shapes)' = Len(shapes) + 1
         /\ Len(shapes) \notin thrown => buf = << >>
         /\ \A i \in 1 .. Len(shapes) : PacketLen(i)' = PacketLen(i) /\ shapes'[i] = shapes[i]
         /\ \A t \in Tokens : t \in Tokens'
         /\ buf = << >> => Joins(ToCome, Run(k, 0, PacketLen(k)'), ToCome')
<1> DEFINE N == Len(shapes)
<1> DEFINE A == Tokens'
<1>1. /\ mode \in Settings /\ shapes \in Seq(Shapes) /\ thrown \in SUBSET (1 .. Len(shapes))
      /\ work \in Seq(CallsOf(Tokens)) /\ buf \in Seq(Tokens) /\ gone \in 0 .. Len(buf)
      /\ net \in Seq(Tokens) /\ inbuf \in Seq(Tokens) /\ ReturnedIsSent
  BY DEF WriterInv, TypesOK
<1>2. PICK shape \in Shapes : shapes' = Append(shapes, shape) /\ work' = CallsFor(N + 1, shape)
  BY DEF SendPacket
<1>0. k = N + 1
  BY DEF IsSum
<1>3. /\ mode' = mode /\ buf' = buf /\ gone' = gone /\ thrown' = thrown /\ net' = net /\ inbuf' = inbuf
      /\ work = << >>
  BY DEF SendPacket, Idle, readVars
<1>4. N \in Nat /\ k \in Nat \ {0} /\ k \in Nat
  BY <1>0, <1>1, LenProperties
<1>5. /\ Len(shapes') = N + 1 /\ shapes' \in Seq(Shapes) /\ shapes'[k] = shape
      /\ \A i \in 1 .. N : shapes'[i] = shapes[i]
  BY <1>0, <1>1, <1>2, AppendProperties
<1>6. /\ \A i \in 1 .. N : PacketLen(i)' = PacketLen(i)
      /\ PacketLen(k)' = Len(Encoding[shape][mode])
  <2>1. ASSUME NEW i \in 1 .. N PROVE PacketLen(i)' = PacketLen(i)
    <3>1. PacketLen(i)' = Len(Encoding[shapes'[i]][mode'])
      BY DEF PacketLen
    <3>2. PacketLen(i) = Len(Encoding[shapes[i]][mode])
      BY DEF PacketLen
    <3> QED BY <1>3, <1>5, <3>1, <3>2
  <2>2. PacketLen(k)' = Len(Encoding[shapes'[k]][mode'])
    BY DEF PacketLen
  <2> QED BY <1>3, <1>5, <2>1, <2>2
<1>7. ASSUME NEW t \in Tokens PROVE t \in A
  <2>1. t \in Pairs /\ t[1] \in 1 .. N /\ t[2] \in 1 .. PacketLen(t[1])
    BY DEF Tokens
  <2>2. t[1] \in 1 .. Len(shapes') /\ t[2] \in 1 .. PacketLen(t[1])'
    BY <1>4, <1>5, <1>6, <2>1
  <2> QED BY <2>1, <2>2 DEF Tokens, Pairs
<1>8. ASSUME NEW n \in 1 .. Len(Encoding[shape][mode]) PROVE <<k, n>> \in A
  <2>1. Len(Encoding[shape][mode]) \in Nat
    <3>1. Encoding[shape][mode] \in Seq(Contents)
      BY <1>1, LayoutIs DEF Layout
    <3> QED BY <3>1, LenProperties
  <2>2. <<k, n>> \in Pairs /\ k \in 1 .. Len(shapes') /\ n \in 1 .. PacketLen(k)'
    BY <1>0, <1>4, <1>5, <1>6, <2>1 DEF Pairs
  <2> DEFINE t == <<k, n>>
  <2>3. t \in Pairs' /\ t[1] = k /\ t[2] = n
    BY <2>2 DEF Pairs
  <2> HIDE DEF t
  <2>4. t[1] \in 1 .. Len(shapes') /\ t[2] \in 1 .. PacketLen(t[1])'
    BY <2>2, <2>3
  <2>5. t \in A
    BY <2>3, <2>4 DEF Tokens
  <2> QED BY <2>5 DEF t
<1> HIDE DEF A, N
<1>9. Tokens \subseteq A /\ Seq(Tokens) \subseteq Seq(A)
  <2>1. Tokens \subseteq A
    BY <1>7
  <2>2. \A s \in Seq(Tokens) : s \in Seq(A)
    <3> DEFINE T == Tokens
    <3>1. T \subseteq A
      BY <2>1
    <3> HIDE DEF T
    <3>2. \A s \in Seq(T) : s \in Seq(A)
      BY <3>1
    <3> QED BY <3>2 DEF T
  <2> QED BY <2>1, <2>2
<1>10. /\ work' \in Seq(CallsOf(A)) /\ Len(work') > 0 /\ work'[Len(work')].op = "flush"
       /\ Sent(work') = Run(k, 0, PacketLen(k)')
  <2>1. work' = CallsFor(k, shape)
    BY <1>0, <1>2
  <2>2. mode \in Settings
    BY <1>1
  <2>3. /\ CallsFor(k, shape) \in Seq(CallsOf(A)) /\ Len(CallsFor(k, shape)) > 0
        /\ CallsFor(k, shape)[Len(CallsFor(k, shape))].op = "flush"
        /\ Sent(CallsFor(k, shape)) = Run(k, 0, Len(Encoding[shape][mode]))
    BY <1>4, <1>8, <2>2, CallsForIs
  <2> QED BY <1>6, <2>1, <2>3
<1>11. work' # << >>
  BY <1>10
<1>12. TypesOK'
  <2>1. thrown' \in SUBSET (1 .. Len(shapes'))
    BY <1>1, <1>3, <1>4, <1>5 DEF N
  <2>2. mode' \in Settings /\ shapes' \in Seq(Shapes) /\ gone' \in 0 .. Len(buf')
    BY <1>1, <1>3, <1>5
  <2>3. buf' \in Seq(A) /\ net' \in Seq(A) /\ inbuf' \in Seq(A)
    BY <1>1, <1>3, <1>9
  <2> QED BY <1>10, <2>1, <2>2, <2>3 DEF TypesOK, A
<1>13. LastIsFlush(work)' /\ ReturnedIsSent'
  BY <1>10, <1>11 DEF LastIsFlush, ReturnedIsSent, Idle
<1>14. N \notin thrown => buf = << >>
  BY <1>1, <1>3 DEF ReturnedIsSent, Idle, N
<1>15. ASSUME buf = << >> PROVE Joins(ToCome, Run(k, 0, PacketLen(k)'), ToCome')
  <2> DEFINE x == Sent(work')
  <2>1. Rest(buf, gone) = << >> /\ Rest(buf', gone') = << >> /\ Sent(work) = << >>
    <3>1. Len(buf) = 0 /\ gone = 0
      BY <1>1, <1>15
    <3>2. Sent(<< >>) = << >>
      BY FlattenEmpty DEF Sent, Map
    <3> QED BY <1>3, <1>15, <3>1, <3>2 DEF Rest
  <2>2. x \in Seq(A) /\ net \in Seq(A)
    <3>1. x \in Seq(A)
      BY <1>10, SentJoins
    <3> QED BY <1>1, <1>9, <3>1
  <2>3. ToCome' = net' \o (Rest(buf', gone') \o x)
    BY DEF ToCome, Rest, Sent, Map, DataOf
  <2>4. ToCome = net \o (Rest(buf, gone) \o Sent(work))
    BY DEF ToCome
  <2> HIDE DEF x
  <2>5. << >> \o x = x /\ << >> \o << >> = << >> /\ net \o << >> = net
    BY <2>2
  <2>6. ToCome = net /\ ToCome' = net \o x
    BY <1>3, <2>1, <2>3, <2>4, <2>5
  <2>7. x = Run(k, 0, PacketLen(k)')
    BY <1>10 DEF x
  <2> QED BY <2>6, <2>7 DEF Joins
<1>16. Len(shapes)' = Len(shapes')
  OBVIOUS
<1> QED BY <1>4, <1>5, <1>6, <1>7, <1>12, <1>13, <1>14, <1>15, <1>16 DEF WriterInv, N, A

\* A send that throws leaves a packet that is known to be torn.
LEMMA SendThrowsKeeps ==
  ASSUME WriterInv, SendThrows
  PROVE  /\ WriterInv' /\ thrown' # {} /\ mode' = mode /\ shapes' = shapes /\ net' = net
         /\ inbuf' = inbuf /\ reader' = reader /\ received' = received
<1> DEFINE N == Len(shapes)
<1>1. /\ mode \in Settings /\ shapes \in Seq(Shapes) /\ thrown \in SUBSET (1 .. N)
      /\ work \in Seq(CallsOf(Tokens)) /\ buf \in Seq(Tokens) /\ gone \in 0 .. Len(buf)
      /\ net \in Seq(Tokens) /\ inbuf \in Seq(Tokens)
  BY DEF WriterInv, TypesOK
<1>2. /\ mode' = mode /\ shapes' = shapes /\ buf' = buf /\ net' = net
      /\ inbuf' = inbuf /\ reader' = reader /\ received' = received
      /\ work' = << >> /\ gone' = 0 /\ thrown' = thrown \cup {N}
      /\ work # << >>
  BY DEF SendThrows, FlushIsDue, DirectIsDue, Idle, readVars
<1>3. Len(buf) \in Nat /\ N \in Nat
  BY <1>1, LenProperties
<1>4. Tokens' = Tokens
  BY <1>2 DEF Tokens, PacketLen, Pairs
<1>5. N # 0
  <2>1. SUFFICES ASSUME N = 0 PROVE FALSE
    OBVIOUS
  <2>2. Tokens = {}
    BY <2>1 DEF Tokens
  <2>3. buf = << >>
    <3>1. buf \in Seq({})
      BY <1>1, <2>2
    <3>2. \A i \in 1 .. Len(buf) : buf[i] \in {}
      BY <3>1, ElementOfSeq
    <3>3. Len(buf) = 0
      BY <1>3, <3>2
    <3> QED BY <3>1, <3>3, EmptySeq
  <2>4. Call \in CallsOf(Tokens)
    BY <1>1, <1>2, FirstCall DEF Call
  <2>5. Call.data \in Seq({})
    BY <2>2, <2>4 DEF CallsOf
  <2>6. Len(Call.data) = 0
    <3>1. \A i \in 1 .. Len(Call.data) : Call.data[i] \in {}
      BY <2>5, ElementOfSeq
    <3>2. Len(Call.data) \in Nat
      BY <2>5, LenProperties
    <3>3. Len(Call.data) # 0 => 1 \in 1 .. Len(Call.data)
      BY <3>2
    <3> QED BY <3>1, <3>3
  <2>7. DirectIsDue
    BY <2>3 DEF SendThrows, FlushIsDue
  <2>8. OutSize \div 2 \in Nat
    BY BuffersHoldBytes
  <2> QED BY <2>6, <2>7, <2>8 DEF DirectIsDue
<1>6. TypesOK'
  <2>1. << >> \in Seq(CallsOf(Tokens')) /\ thrown' \in SUBSET (1 .. Len(shapes'))
    <3>1. N \in 1 .. N /\ Len(shapes') = N
      BY <1>2, <1>3, <1>5
    <3>2. thrown' \subseteq 1 .. N
      BY <1>1, <1>2, <3>1
    <3> QED BY <3>1, <3>2
  <2> QED BY <1>1, <1>2, <1>3, <1>4, <2>1 DEF TypesOK
<1>7. LastIsFlush(work)' /\ ReturnedIsSent'
  BY <1>2 DEF LastIsFlush, ReturnedIsSent
<1> QED BY <1>2, <1>6, <1>7 DEF WriterInv

\* A step that neither writes nor takes more than what was sent.
LEMMA ReadsKeepWriter ==
  ASSUME WriterInv, UNCHANGED <<mode, shapes, work, buf, gone, thrown>>,
         net' \in Seq(Tokens), inbuf' \in Seq(Tokens)
  PROVE  WriterInv' /\ Tokens' = Tokens
<1>1. Tokens' = Tokens
  BY DEF Tokens, PacketLen, Pairs
<1>2. TypesOK'
  BY <1>1 DEF WriterInv, TypesOK
<1> QED BY <1>1, <1>2 DEF WriterInv, LastIsFlush, ReturnedIsSent, Idle

------------------------------------------------------------------------------
(* A reader of any tokens, also one that is lost. *)

\* What was read of a frame is less than the frame.
RawIs(raw) ==
  Len(raw) >= 2 => DOMAIN Content(raw[2]) = {"header"} /\ Len(raw) < FrameSize(Content(raw[2]).header)

ReaderSet ==
  [packet : 0 .. Len(shapes), field : Nat \ {0}, got : Seq(Pairs), mem : Seq(Pairs), raw : Seq(Tokens),
   seen : Seq(Tokens), broken : BOOLEAN]

\* A reader that has not begun a packet has read nothing.
ReaderIs(r) ==
  /\ r \in ReaderSet
  /\ \/ r = NoPacket
     \/ /\ r.seen # << >>
        /\ ~r.broken => /\ r.packet # 0 /\ r.field <= Len(SizesOf(shapes[r.packet]))
                        /\ Len(r.got) < SizesOf(shapes[r.packet])[r.field] /\ RawIs(r.raw)

Begun == 1 .. Len(shapes)

\* What a token stands for.
LEMMA ContentIs ==
  ASSUME TypesOK, NEW t \in Tokens
  PROVE  Content(t) \in Contents /\ Owner(t) \in Begun /\ t[2] \in Nat /\ t \in Pairs
<1>1. t \in Pairs /\ t[1] \in Begun /\ t[2] \in 1 .. PacketLen(t[1])
  BY DEF Tokens, Begun
<1>2. mode \in Settings /\ shapes \in Seq(Shapes)
  BY DEF TypesOK
<1>3. shapes[t[1]] \in Shapes
  BY <1>1, <1>2, ElementOfSeq DEF Begun
<1> DEFINE e == Encoding[shapes[t[1]]][mode]
<1>4. e \in Seq(Contents)
  BY <1>2, <1>3, LayoutIs DEF Layout
<1>5. t[2] \in 1 .. Len(e)
  BY <1>1 DEF PacketLen
<1>6. e[t[2]] \in Contents
  BY <1>4, <1>5, ElementOfSeq
<1>7. Content(t) = e[t[2]]
  BY DEF Content, Owner
<1> QED BY <1>1, <1>6, <1>7 DEF Owner, Pairs

\* A part of a frame by its tokens.
LEMMA PartsByName ==
  ASSUME NEW c \in Contents
  PROVE  /\ DOMAIN c = {"header"} => c.header \in Framed
         /\ DOMAIN c = {"hash"} => c.hash \in Framed
         /\ DOMAIN c = {"byte"} => c.byte \in Nat
<1>1. c \in [byte : Nat] \/ c \in [hash : Framed] \/ c \in [header : Framed] \/ c \in [packed : Framed]
  BY DEF Contents, FrameParts
<1>2. CASE c \in [byte : Nat]
  BY <1>2
<1>3. CASE c \in [hash : Framed]
  BY <1>3
<1>4. CASE c \in [header : Framed]
  BY <1>4
<1>5. CASE c \in [packed : Framed]
  BY <1>5
<1> QED BY <1>1, <1>2, <1>3, <1>4, <1>5

\* The sizes of a packet that was begun.
LEMMA BegunIs ==
  ASSUME TypesOK, NEW k \in Begun
  PROVE  /\ shapes[k] \in Shapes /\ k \in Nat \ {0} /\ Sizes(k) = SizesOf(shapes[k])
         /\ Len(Sizes(k)) \in Nat \ {0} /\ Sizes(k)[1] = 1
         /\ \A f \in 1 .. Len(Sizes(k)) : Sizes(k)[f] \in Nat \ {0}
<1>1. shapes \in Seq(Shapes) /\ Len(shapes) \in Nat
  BY LenProperties DEF TypesOK
<1>2. shapes[k] \in Shapes /\ k \in Nat \ {0}
  BY <1>1, ElementOfSeq DEF Begun
<1>3. Sizes(k) = SizesOf(shapes[k])
  BY DEF Sizes, SizesOf
<1> DEFINE sh == shapes[k]
<1>4. sh \in Shapes
  BY <1>2
<1> HIDE DEF sh
<1>5. /\ Len(SizesOf(sh)) \in Nat \ {0} /\ SizesOf(sh)[1] = 1
      /\ \A f \in 1 .. Len(SizesOf(sh)) : SizesOf(sh)[f] \in Nat \ {0}
  <2>1. /\ Heads(sh) \in Nat \ {0} /\ Len(SizesOf(sh)) = Heads(sh) + Len(sh.body) /\ Len(sh.body) \in Nat
        /\ SizesOf(sh)[1] = 1 /\ \A f \in 1 .. Len(SizesOf(sh)) : SizesOf(sh)[f] \in Nat \ {0}
    BY <1>4, ShapeIs
  <2> QED BY <2>1
<1> QED BY <1>2, <1>3, <1>5 DEF sh

\* It always wants something.
LEMMA WantsMore ==
  ASSUME TypesOK, NEW r, ReaderIs(r), ~r.broken
  PROVE  /\ Wanted(r) \in Nat \ {0} /\ r.packet \in 0 .. Len(shapes)
         /\ r.packet = 0 => r = NoPacket /\ Wanted(r) = 1
         /\ r.packet # 0 => r.packet \in Begun
<1>1. r \in ReaderSet
  BY DEF ReaderIs
<1>2. Len(shapes) \in Nat
  BY LenProperties DEF TypesOK
<1>3. r.packet \in 0 .. Len(shapes) /\ (r.packet # 0 => r.packet \in Begun)
  BY <1>1, <1>2 DEF ReaderSet, Begun
<1>4. Len(r.got) \in Nat /\ Len(r.raw) \in Nat
  BY <1>1, LenProperties DEF ReaderSet
<1>5. CASE r.packet = 0
  <2>1. r = NoPacket
    BY <1>5 DEF ReaderIs
  <2>2. r.got = << >> /\ ~InFrames(r)
    BY <1>5, <2>1 DEF NoPacket, InFrames
  <2>3. Wanted(r) = 1 - Len(r.got)
    BY <1>5, <2>2 DEF Wanted
  <2>4. Len(r.got) = 0
    BY <2>2
  <2>5. Wanted(r) = 1
    BY <2>3, <2>4
  <2> QED BY <1>3, <1>5, <2>1, <2>5
<1>6. CASE r.packet # 0
  <2>1. /\ r.field <= Len(SizesOf(shapes[r.packet])) /\ Len(r.got) < SizesOf(shapes[r.packet])[r.field] /\ RawIs(r.raw)
    BY <1>6 DEF ReaderIs, NoPacket
  <2>2. r.field \in Nat \ {0}
    BY <1>1 DEF ReaderSet
  <2>3. Wanted(r) \in Nat \ {0}
    <3>1. CASE InFrames(r)
      <4>1. Wanted(r) = IF Len(r.raw) < 2 THEN 1 ELSE FrameSize(Content(r.raw[2]).header) - Len(r.raw)
        BY <3>1 DEF Wanted
      <4>2. ASSUME Len(r.raw) >= 2
            PROVE  /\ Len(r.raw) < FrameSize(Content(r.raw[2]).header)
                   /\ FrameSize(Content(r.raw[2]).header) \in Nat
        <5>1. DOMAIN Content(r.raw[2]) = {"header"} /\ Len(r.raw) < FrameSize(Content(r.raw[2]).header)
          BY <2>1, <4>2 DEF RawIs
        <5>2. r.raw[2] \in Tokens
          <6>1. r.raw \in Seq(Tokens) /\ 2 \in 1 .. Len(r.raw)
            BY <1>1, <1>4, <4>2 DEF ReaderSet
          <6> QED BY <6>1, ElementOfSeq
        <5>3. Content(r.raw[2]).header \in Framed
          BY <5>1, <5>2, ContentIs, PartsByName
        <5> QED BY <5>1, <5>3, FrameIs
      <4> QED BY <1>4, <4>1, <4>2
    <3>2. CASE ~InFrames(r)
      <4>1. Wanted(r) = Sizes(r.packet)[r.field] - Len(r.got)
        BY <1>6, <3>2 DEF Wanted
      <4>2. Sizes(r.packet) = SizesOf(shapes[r.packet]) /\ \A f \in 1 .. Len(Sizes(r.packet)) : Sizes(r.packet)[f] \in Nat \ {0}
            /\ Len(Sizes(r.packet)) \in Nat
        BY <1>3, <1>6, BegunIs
      <4>3. r.field \in 1 .. Len(Sizes(r.packet))
        BY <2>1, <2>2, <4>2
      <4> QED BY <1>4, <2>1, <4>1, <4>2, <4>3
    <3> QED BY <3>1, <3>2
  <2> QED BY <1>3, <1>6, <2>3
<1> QED BY <1>5, <1>6

Outcome(r, seen) == (ReaderIs(r) /\ r.seen = seen) \/ \E k \in Begun : r = Finished(k)

IsPacketOf(k, r, got) == k = IF r.packet = 0 THEN got[1][1] ELSE r.packet

\* What some of a field makes of a reader.
LEMMA GotFieldTypes ==
  ASSUME TypesOK, NEW r \in ReaderSet, ~r.broken, r.seen # << >>, RawIs(r.raw), NEW got \in Seq(Pairs),
         NEW k \in Begun, IsPacketOf(k, r, got), r.field <= Len(Sizes(k)),
         r.packet = 0 => r.field = 1 /\ Len(got) >= 1
  PROVE  Outcome(GotField(r, got), r.seen)
<1> DEFINE n == r.field
<1> DEFINE r2 == GotField(r, got)
<1>1. /\ k \in Nat /\ k \in 0 .. Len(shapes) /\ k # 0 /\ Sizes(k) = SizesOf(shapes[k])
      /\ Len(Sizes(k)) \in Nat \ {0} /\ Sizes(k)[1] = 1 /\ \A f \in 1 .. Len(Sizes(k)) : Sizes(k)[f] \in Nat \ {0}
  BY BegunIs DEF Begun
<1>2. n \in 1 .. Len(Sizes(k)) /\ n \in Nat \ {0}
  BY <1>1 DEF ReaderSet
<1>3. r2 = IF Len(got) < Sizes(k)[n] THEN [r EXCEPT !.got = got]
           ELSE IF got # BytesOf(k, Fields(shapes[k])[n]) THEN Broken(r)
           ELSE IF n = Len(Sizes(k)) THEN EndPacket([r EXCEPT !.packet = k])
           ELSE [r EXCEPT !.packet = k, !.field = n + 1, !.got = << >>]
  <2>1. k = IF r.packet = 0 THEN got[1][1] ELSE r.packet
    BY DEF IsPacketOf
  <2> QED BY <2>1 DEF GotField
<1>4. Len(got) \in Nat /\ (r.packet # 0 => k = r.packet)
  BY LenProperties DEF IsPacketOf
<1> HIDE DEF r2, n
<1>5. CASE Len(got) < Sizes(k)[n]
  <2>1. r2 = [r EXCEPT !.got = got]
    BY <1>3, <1>5
  <2>2. r.packet # 0
    BY <1>1, <1>4, <1>5 DEF n
  <2>3. r2 \in ReaderSet /\ r2.packet = k /\ r2.field = n /\ r2.got = got /\ r2.raw = r.raw /\ r2.seen = r.seen
    BY <1>4, <2>1, <2>2 DEF ReaderSet, n
  <2>4. r2.field <= Len(SizesOf(shapes[r2.packet])) /\ Len(r2.got) < SizesOf(shapes[r2.packet])[r2.field]
    BY <1>1, <1>2, <1>5, <2>3
  <2> QED BY <1>1, <2>3, <2>4 DEF Outcome, ReaderIs, r2
<1>6. CASE r2 = Broken(r)
  <2>1. Broken(r) \in ReaderSet /\ Broken(r).seen = r.seen /\ Broken(r).broken
    BY DEF Broken, ReaderSet
  <2> QED BY <1>6, <2>1 DEF Outcome, ReaderIs, r2
<1>7. CASE r2 = EndPacket([r EXCEPT !.packet = k])
  <2> DEFINE e == [r EXCEPT !.packet = k]
  <2>1. e \in ReaderSet /\ e.seen = r.seen /\ e.packet = k /\ e.mem = r.mem
    BY <1>1 DEF ReaderSet
  <2> HIDE DEF e
  <2>2. CASE e.mem # << >>
    <3>1. r2 = Broken(e)
      BY <1>7, <2>2 DEF EndPacket, e
    <3>2. Broken(e) \in ReaderSet /\ Broken(e).seen = r.seen /\ Broken(e).broken
      BY <2>1 DEF Broken, ReaderSet
    <3> QED BY <3>1, <3>2 DEF Outcome, ReaderIs, r2
  <2>3. CASE e.mem = << >>
    <3>1. r2 = Finished(k)
      BY <1>7, <2>1, <2>3 DEF EndPacket, Finished, e
    <3> QED BY <3>1 DEF Outcome, r2
  <2> QED BY <2>2, <2>3
<1>8. CASE n # Len(Sizes(k)) /\ r2 = [r EXCEPT !.packet = k, !.field = n + 1, !.got = << >>]
  <2>1. n + 1 \in 1 .. Len(Sizes(k)) /\ n + 1 \in Nat \ {0}
    BY <1>1, <1>2, <1>8
  <2>2. r2 \in ReaderSet /\ r2.packet = k /\ r2.field = n + 1 /\ r2.got = << >> /\ r2.raw = r.raw /\ r2.seen = r.seen
    <3>1. << >> \in Seq(Pairs)
      OBVIOUS
    <3> QED BY <1>1, <1>8, <2>1, <3>1 DEF ReaderSet
  <2> DEFINE f == n + 1
  <2>3. f <= Len(Sizes(k)) /\ Sizes(k)[f] \in Nat \ {0} /\ r2.field = f
    BY <1>1, <2>1, <2>2
  <2> HIDE DEF f
  <2>4. r2.field <= Len(SizesOf(shapes[r2.packet])) /\ Len(r2.got) < SizesOf(shapes[r2.packet])[r2.field]
    <3>1. Len(r2.got) = 0
      BY <2>2
    <3> QED BY <1>1, <2>2, <2>3, <3>1
  <2> QED BY <1>1, <2>2, <2>4 DEF Outcome, ReaderIs, r2
<1> QED BY <1>3, <1>5, <1>6, <1>7, <1>8

\* Whatever tokens it gets, a reader stays a reader.
LEMMA ParsedTypes ==
  ASSUME TypesOK, NEW r, ReaderIs(r), ~r.broken, NEW tokens \in Seq(Tokens), Len(tokens) >= 1
  PROVE  Outcome(Parsed(r, tokens), r.seen \o tokens)
<1> DEFINE q == [r EXCEPT !.seen = r.seen \o tokens]
<1>1. r \in ReaderSet /\ Len(tokens) \in Nat
  BY LenProperties DEF ReaderIs
<1>2. r.seen \o tokens \in Seq(Tokens) /\ Len(r.seen \o tokens) = Len(r.seen) + Len(tokens) /\ Len(r.seen) \in Nat
  BY <1>1, ConcatProperties, LenProperties DEF ReaderSet
<1>3. r.seen \o tokens # << >>
  <2>1. Len(r.seen \o tokens) # 0
    BY <1>1, <1>2
  <2>2. Len(<< >>) = 0
    OBVIOUS
  <2> QED BY <2>1, <2>2
<1>4. /\ q \in ReaderSet /\ q.packet = r.packet /\ q.field = r.field /\ q.got = r.got /\ q.mem = r.mem /\ q.raw = r.raw
      /\ ~q.broken /\ q.seen # << >> /\ q.seen = r.seen \o tokens
  BY <1>1, <1>2, <1>3 DEF ReaderSet
<1>5. /\ Parsed(r, tokens) = IF InFrames(q) THEN GotFrame(q, q.raw \o tokens)
                             ELSE IF q.packet = 0 /\ AsByte(tokens[1])[2] # 1 THEN Broken(q)
                             ELSE GotField(q, q.got \o Map(AsByte, tokens))
  BY DEF Parsed
<1>6. RawIs(q.raw) /\ (q.packet # 0 => q.packet \in Begun /\ q.field <= Len(SizesOf(shapes[q.packet]))
                                       /\ Len(q.got) < SizesOf(shapes[q.packet])[q.field])
      /\ (q.packet = 0 => q.field = 1 /\ q.got = << >>)
  <2>1. CASE r = NoPacket
    <3>1. r.raw = << >> /\ r.field = 1 /\ r.got = << >> /\ r.packet = 0
      BY <2>1 DEF NoPacket
    <3>2. Len(<< >>) = 0 /\ ~(0 >= 2)
      OBVIOUS
    <3> QED BY <1>4, <3>1, <3>2 DEF RawIs
  <2>2. CASE r # NoPacket
    <3>1. r.packet # 0 /\ r.field <= Len(SizesOf(shapes[r.packet]))
          /\ Len(r.got) < SizesOf(shapes[r.packet])[r.field] /\ RawIs(r.raw)
      BY <2>2 DEF ReaderIs
    <3> QED BY <1>4, <3>1, WantsMore
  <2> QED BY <2>1, <2>2
<1>7. Broken(q) \in ReaderSet /\ Broken(q).seen = q.seen /\ Broken(q).broken
  BY <1>4 DEF Broken, ReaderSet
<1>8. Outcome(Broken(q), q.seen)
  BY <1>4, <1>7 DEF Outcome, ReaderIs
<1> HIDE DEF q
<1>9. CASE InFrames(q)
  <2> DEFINE raw == q.raw \o tokens
  <2>1. raw \in Seq(Tokens) /\ Len(raw) = Len(q.raw) + Len(tokens) /\ Len(q.raw) \in Nat /\ Len(raw) \in Nat
    <3>1. q.raw \in Seq(Tokens)
      BY <1>4 DEF ReaderSet
    <3> QED BY <1>1, <3>1, ConcatProperties, LenProperties
  <2>2. \A i \in 1 .. Len(raw) : raw[i] \in Tokens
    <3> HIDE DEF raw
    <3> QED BY <2>1, ElementOfSeq
  <2> HIDE DEF raw
  <2> DEFINE r2 == GotFrame(q, raw)
  <2>3. r2 = IF Len(raw) < 2 THEN [q EXCEPT !.raw = raw]
             ELSE IF DOMAIN Content(raw[2]) # {"header"} THEN Broken(q)
             ELSE IF Len(raw) < FrameSize(Content(raw[2]).header) THEN [q EXCEPT !.raw = raw]
             ELSE IF ~HashMatches(raw) THEN Broken(q)
             ELSE [q EXCEPT !.raw = << >>, !.mem = BytesOf(Owner(raw[1]), Content(raw[1]).hash)]
    BY DEF GotFrame
  <2>4. q.packet # 0 /\ q.packet \in Begun /\ q.field <= Len(SizesOf(shapes[q.packet]))
        /\ Len(q.got) < SizesOf(shapes[q.packet])[q.field]
    BY <1>6, <1>9 DEF InFrames
  <2> HIDE DEF r2
  <2>5. CASE r2 = [q EXCEPT !.raw = raw] /\ RawIs(raw)
    <3>1. /\ r2 \in ReaderSet /\ r2.packet = q.packet /\ r2.field = q.field /\ r2.got = q.got /\ r2.raw = raw
          /\ r2.seen = q.seen
      BY <1>4, <2>1, <2>5 DEF ReaderSet
    <3> QED BY <1>4, <1>5, <1>9, <2>4, <2>5, <3>1 DEF Outcome, ReaderIs, r2, raw
  <2>6. CASE r2 = Broken(q)
    BY <1>4, <1>5, <1>8, <1>9, <2>6 DEF r2, raw
  <2>7. CASE Len(raw) >= 2 /\ HashMatches(raw)
             /\ r2 = [q EXCEPT !.raw = << >>, !.mem = BytesOf(Owner(raw[1]), Content(raw[1]).hash)]
    <3> DEFINE mem == BytesOf(Owner(raw[1]), Content(raw[1]).hash)
    <3>1. raw[1] \in Tokens
      BY <2>1, <2>2, <2>7
    <3>2. Content(raw[1]).hash \in Framed /\ Owner(raw[1]) \in Begun
      BY <2>7, <3>1, ContentIs, PartsByName DEF HashMatches
    <3> DEFINE x == Content(raw[1]).hash
    <3> DEFINE o == Owner(raw[1])
    <3>3. x \in Seq(Nat) /\ o \in Nat
      BY <3>2 DEF Framed, Begun
    <3> HIDE DEF x, o
    <3>4. BytesOf(o, x) \in Seq(Pairs)
      <4>1. BytesOf(o, x) = [i \in DOMAIN x |-> <<o, x[i]>>]
        BY DEF BytesOf
      <4>2. DOMAIN x = 1 .. Len(x) /\ Len(x) \in Nat /\ \A i \in 1 .. Len(x) : x[i] \in Nat
        BY <3>3, LenProperties, ElementOfSeq
      <4>3. [i \in 1 .. Len(x) |-> <<o, x[i]>>] \in [1 .. Len(x) -> Pairs]
        BY <3>3, <4>2 DEF Pairs
      <4> DEFINE g == [i \in 1 .. Len(x) |-> <<o, x[i]>>]
      <4> DEFINE n == Len(x)
      <4>4. g \in [1 .. n -> Pairs] /\ n \in Nat
        BY <4>2, <4>3
      <4> HIDE DEF g, n
      <4>5. g \in Seq(Pairs)
        BY <4>4, FunctionIsSeq
      <4> QED BY <4>1, <4>2, <4>5 DEF g, n
    <3>5. mem \in Seq(Pairs)
      BY <3>4 DEF x, o
    <3> HIDE DEF mem
    <3>6. r2 = [q EXCEPT !.raw = << >>, !.mem = mem]
      BY <2>7 DEF mem
    <3>7. << >> \in Seq(Tokens) /\ RawIs(<< >>)
      <4>1. Len(<< >>) = 0 /\ ~(0 >= 2)
        OBVIOUS
      <4> QED BY <4>1 DEF RawIs
    <3>8. /\ r2 \in ReaderSet /\ r2.packet = q.packet /\ r2.field = q.field /\ r2.got = q.got /\ r2.raw = << >>
          /\ r2.seen = q.seen
      BY <1>4, <3>5, <3>6, <3>7 DEF ReaderSet
    <3> QED BY <1>4, <1>5, <1>9, <2>4, <3>7, <3>8 DEF Outcome, ReaderIs, r2, raw
  <2>8. Len(raw) < 2 => RawIs(raw)
    BY <2>1 DEF RawIs
  <2> QED BY <2>1, <2>3, <2>5, <2>6, <2>7, <2>8 DEF RawIs
<1>10. CASE ~InFrames(q)
  <2> DEFINE b == Map(AsByte, tokens)
  <2>1. b \in Seq(Pairs) /\ Len(b) = Len(tokens) /\ b[1][1] \in Begun
    <3>1. DOMAIN tokens = 1 .. Len(tokens) /\ \A i \in 1 .. Len(tokens) : tokens[i] \in Tokens
      BY LenProperties, ElementOfSeq
    <3>2. ASSUME NEW t \in Tokens PROVE AsByte(t) \in Pairs /\ AsByte(t)[1] \in Begun
      <4>1. AsByte(t) = <<Owner(t), IF DOMAIN Content(t) = {"byte"} THEN Content(t).byte ELSE 0>>
        BY DEF AsByte
      <4>2. Owner(t) \in Begun /\ Owner(t) \in Nat
        BY ContentIs DEF Begun
      <4>3. (IF DOMAIN Content(t) = {"byte"} THEN Content(t).byte ELSE 0) \in Nat
        BY ContentIs, PartsByName
      <4> DEFINE x == IF DOMAIN Content(t) = {"byte"} THEN Content(t).byte ELSE 0
      <4>4. AsByte(t) = <<Owner(t), x>> /\ x \in Nat
        BY <4>1, <4>3
      <4> HIDE DEF x
      <4> QED BY <4>2, <4>4 DEF Pairs
    <3>3. b = [i \in 1 .. Len(tokens) |-> AsByte(tokens[i])]
      BY <3>1 DEF Map
    <3> DEFINE n == Len(tokens)
    <3>4. b \in [1 .. n -> Pairs] /\ n \in Nat /\ 1 \in 1 .. n /\ b[1] = AsByte(tokens[1])
      BY <1>1, <3>1, <3>2, <3>3
    <3>5. b[1][1] \in Begun
      BY <3>1, <3>2, <3>4
    <3> HIDE DEF b, n
    <3> QED BY <3>4, <3>5, FunctionIsSeq DEF n
  <2> HIDE DEF b
  <2> DEFINE got == q.got \o b
  <2>2. got \in Seq(Pairs) /\ Len(got) = Len(q.got) + Len(b) /\ Len(q.got) \in Nat
    <3>1. q.got \in Seq(Pairs)
      BY <1>4 DEF ReaderSet
    <3> QED BY <2>1, <3>1, ConcatProperties, LenProperties
  <2>3. Len(got) >= 1
    BY <1>1, <2>1, <2>2
  <2>4. PICK k \in Begun : IsPacketOf(k, q, got) /\ q.field <= Len(Sizes(k))
    <3>1. CASE q.packet = 0
      <4>1. got = b
        BY <1>6, <2>1, <3>1
      <4>2. got[1][1] \in Begun /\ q.field = 1
        BY <1>6, <2>1, <3>1, <4>1
      <4> DEFINE k == got[1][1]
      <4>3. k \in Begun /\ IsPacketOf(k, q, got)
        BY <3>1, <4>2 DEF IsPacketOf
      <4> HIDE DEF k
      <4>4. Len(Sizes(k)) \in Nat \ {0}
        BY <4>3, BegunIs
      <4> QED BY <4>2, <4>3, <4>4
    <3>2. CASE q.packet # 0
      <4>1. q.packet \in Begun /\ IsPacketOf(q.packet, q, got) /\ q.field <= Len(SizesOf(shapes[q.packet]))
        BY <1>6, <3>2 DEF IsPacketOf
      <4>2. Sizes(q.packet) = SizesOf(shapes[q.packet])
        BY DEF Sizes, SizesOf
      <4> QED BY <4>1, <4>2
    <3> QED BY <3>1, <3>2
  <2>5. Outcome(GotField(q, got), q.seen)
    <3> HIDE DEF got
    <3>1. q.packet = 0 => q.field = 1 /\ Len(got) >= 1
      BY <1>6, <2>3
    <3> QED BY <1>4, <1>6, <2>2, <2>4, <3>1, GotFieldTypes
  <2> QED BY <1>4, <1>5, <1>8, <1>10, <2>5 DEF b
<1> QED BY <1>9, <1>10

\* A reader that takes bytes of a frame stays a reader.
LEMMA OutOfFrameTypes ==
  ASSUME TypesOK, NEW r, ReaderIs(r), ~r.broken, InFrames(r)
  PROVE  Outcome(OutOfFrame(r), r.seen)
<1> DEFINE k == r.packet
<1> DEFINE n == Sizes(k)[r.field]
<1> DEFINE m == Taken(r)
<1>1. r \in ReaderSet /\ k # 0 /\ r # NoPacket
  BY DEF ReaderIs, InFrames, NoPacket
<1>2. k \in Begun /\ r.seen # << >> /\ r.field <= Len(Sizes(k)) /\ Len(r.got) < n /\ RawIs(r.raw)
  <2>1. k \in Begun
    BY <1>1, WantsMore
  <2>2. r.seen # << >> /\ r.field <= Len(SizesOf(shapes[k])) /\ Len(r.got) < SizesOf(shapes[k])[r.field] /\ RawIs(r.raw)
    BY <1>1 DEF ReaderIs
  <2> QED BY <2>1, <2>2 DEF Sizes, SizesOf
<1>3. Len(r.got) \in Nat /\ Len(r.mem) \in Nat /\ r.got \in Seq(Pairs) /\ r.mem \in Seq(Pairs)
  BY <1>1, LenProperties DEF ReaderSet
<1>4. n \in Nat
  <2>1. \A f \in 1 .. Len(Sizes(k)) : Sizes(k)[f] \in Nat \ {0}
    BY <1>2, BegunIs
  <2>2. Len(Sizes(k)) \in Nat
    BY <1>2, BegunIs
  <2>3. r.field \in 1 .. Len(Sizes(k))
    BY <1>1, <1>2, <2>2 DEF ReaderSet
  <2> QED BY <2>1, <2>3
<1>5. m = IF n - Len(r.got) < Len(r.mem) THEN n - Len(r.got) ELSE Len(r.mem)
  BY DEF Taken
<1> HIDE DEF n, m
<1>6. m \in 0 .. Len(r.mem)
  BY <1>2, <1>3, <1>4, <1>5
<1> DEFINE rest == SubSeq(r.mem, m + 1, Len(r.mem))
<1> DEFINE some == SubSeq(r.mem, 1, m)
<1>7. rest \in Seq(Pairs) /\ some \in Seq(Pairs)
  <2>1. Rest(r.mem, m) \in Seq(Pairs) /\ some \in Seq(Pairs)
    BY <1>3, <1>6, PrefixIs
  <2> QED BY <2>1 DEF Rest
<1> DEFINE q == [r EXCEPT !.mem = SubSeq(@, m + 1, Len(@))]
<1> DEFINE got == r.got \o some
<1>8. q = [r EXCEPT !.mem = rest]
  BY <1>1 DEF ReaderSet
<1>9. OutOfFrame(r) = GotField(q, got)
  BY DEF OutOfFrame, m
<1>10. got \in Seq(Pairs)
  BY <1>3, <1>7, ConcatProperties
<1> HIDE DEF rest, some, q, got
<1>11. q \in ReaderSet /\ q.packet = k /\ q.field = r.field /\ q.raw = r.raw /\ q.seen = r.seen /\ ~q.broken
  BY <1>1, <1>7, <1>8 DEF ReaderSet
<1>12. q.packet # 0 /\ IsPacketOf(k, q, got) /\ q.field <= Len(Sizes(k)) /\ RawIs(q.raw) /\ q.seen # << >>
  BY <1>1, <1>2, <1>11 DEF IsPacketOf
<1>13. Outcome(GotField(q, got), q.seen)
  <2> HIDE DEF k
  <2>1. k \in Begun
    BY <1>2
  <2> QED BY <1>10, <1>11, <1>12, <2>1, GotFieldTypes
<1> QED BY <1>9, <1>11, <1>13

\* Taking the outcome of a read.
LEMMA TakeKeeps ==
  ASSUME TypesOK, NEW r, NEW seen, Outcome(r, seen), Take(r)
  PROVE  /\ \/ reader' = r /\ received' = received /\ ReaderIs(r) /\ r.seen = seen
               /\ \A k \in Begun : r # Finished(k)
            \/ \E k \in Begun : r = Finished(k) /\ reader' = NoPacket /\ received' = Append(received, k)
         /\ reader' = NoPacket \/ reader' = r
<1>1. CASE \E k \in Begun : r = Finished(k)
  <2>1. PICK k \in Begun : r = Finished(k)
    BY <1>1
  <2>2. r.field = 0 /\ r.packet = k
    BY <2>1 DEF Finished, NoPacket
  <2> QED BY <2>1, <2>2 DEF Take
<1>2. CASE ~\E k \in Begun : r = Finished(k)
  <2>1. ReaderIs(r) /\ r.seen = seen /\ r.field # 0
    BY <1>2 DEF Outcome, ReaderIs, ReaderSet
  <2> QED BY <1>2, <2>1 DEF Take
<1> QED BY <1>1, <1>2

\* A reader that is waiting for a packet is one.
LEMMA NoPacketIs ==
  TypesOK => ReaderIs(NoPacket)
<1>1. SUFFICES ASSUME TypesOK PROVE NoPacket \in ReaderSet
  BY DEF ReaderIs
<1>2. Len(shapes) \in Nat
  BY <1>1, LenProperties DEF TypesOK
<1>3. << >> \in Seq(Pairs) /\ << >> \in Seq(Tokens) /\ 0 \in 0 .. Len(shapes) /\ 1 \in Nat \ {0}
  BY <1>2
<1> QED BY <1>3 DEF NoPacket, ReaderSet

------------------------------------------------------------------------------
(* Reading. *)

Reading == ReadBuffer \/ FillBuffer \/ ReadDirect

Held == inbuf \o net

\* What a read does with the tokens it takes.
Reads1(tokens) ==
  /\ tokens \in Seq(Tokens) /\ Len(tokens) \in 1 .. Wanted(reader)
  /\ Take(Parsed(reader, tokens)) /\ Joins(tokens, Held', Held)
  /\ inbuf' \in Seq(Tokens) /\ net' \in Seq(Tokens)

\* A buffer is cut behind what is wanted, or all of it is taken.
LEMMA ReadFromTakes ==
  ASSUME TypesOK, ReaderIs(reader), ~reader.broken, NEW buffer \in Seq(Tokens), buffer # << >>, ReadFrom(buffer)
  PROVE  \E n \in 1 .. Len(buffer) :
           /\ n <= Wanted(reader) /\ Take(Parsed(reader, SubSeq(buffer, 1, n))) /\ inbuf' = Rest(buffer, n)
<1> DEFINE n == IF Wanted(reader) < Len(buffer) THEN Wanted(reader) ELSE Len(buffer)
<1>1. Wanted(reader) \in Nat \ {0}
  BY WantsMore
<1>2. Len(buffer) \in Nat /\ Len(buffer) # 0
  BY LenProperties, EmptySeq
<1>3. n \in 1 .. Len(buffer) /\ n <= Wanted(reader)
  BY <1>1, <1>2
<1>4. Take(Parsed(reader, SubSeq(buffer, 1, n))) /\ inbuf' = Rest(buffer, n)
  BY DEF ReadFrom, Rest
<1> HIDE DEF n
<1> QED BY <1>3, <1>4

\* Every reading step takes tokens off the bytes that have arrived, and touches nothing of the writer.
LEMMA ReadingTakes ==
  ASSUME TypesOK, ReaderIs(reader), Reading
  PROVE  /\ ~reader.broken /\ ~FromFrame /\ UNCHANGED <<direction, mode, shapes, work, buf, gone, thrown>>
         /\ \E tokens : Reads1(tokens)
<1> DEFINE A == Tokens
<1>1. ~reader.broken /\ ~FromFrame
  BY DEF Reading, ReadBuffer, FillBuffer, ReadDirect, Reads
<1>2. UNCHANGED <<direction, mode, shapes, work, buf, gone, thrown>>
  BY DEF Reading, ReadBuffer, FillBuffer, ReadDirect, sendVars
<1>3. net \in Seq(A) /\ inbuf \in Seq(A)
  BY DEF TypesOK
<1>4. Wanted(reader) \in Nat \ {0}
  BY <1>1, WantsMore
<1>5. CASE ReadBuffer
  <2>1. inbuf # << >> /\ ReadFrom(inbuf) /\ net' = net
    BY <1>5 DEF ReadBuffer
  <2>2. PICK n \in 1 .. Len(inbuf) :
          n <= Wanted(reader) /\ Take(Parsed(reader, SubSeq(inbuf, 1, n))) /\ inbuf' = Rest(inbuf, n)
    BY <1>1, <1>3, <2>1, ReadFromTakes
  <2> DEFINE x == SubSeq(inbuf, 1, n)
  <2> DEFINE y == Rest(inbuf, n)
  <2>3. n \in 0 .. Len(inbuf) /\ n \in Nat
    BY <1>3, LenProperties
  <2>4. x \in Seq(A) /\ Len(x) = n /\ y \in Seq(A) /\ Joins(x, y, inbuf)
    BY <1>3, <2>3, PrefixIs
  <2> HIDE DEF x, y, A
  <2>5. Joins(x, y \o net, inbuf \o net)
    <3>1. Reassociates(x, y, net)
      BY <1>3, <2>4, Reassociate
    <3> QED BY <2>4, <3>1, Zenon DEF Joins, Reassociates
  <2>6. Held' = y \o net /\ Held = inbuf \o net
    BY <2>1, <2>2 DEF Held, y
  <2>7. Len(x) \in 1 .. Wanted(reader)
    BY <1>4, <2>2, <2>3, <2>4
  <2>8. Reads1(x)
    BY <1>3, <2>1, <2>2, <2>4, <2>5, <2>6, <2>7 DEF Reads1, x, y, A
  <2> QED BY <1>1, <1>2, <2>8
<1>6. CASE FillBuffer
  <2>1. PICK m \in 1 .. Len(net) : net' = Rest(net, m) /\ ReadFrom(SubSeq(net, 1, m))
    BY <1>6 DEF FillBuffer, Rest
  <2> DEFINE buffer == SubSeq(net, 1, m)
  <2> DEFINE z == Rest(net, m)
  <2>2. m \in 0 .. Len(net) /\ m \in Nat \ {0}
    BY <1>3, LenProperties
  <2>3. buffer \in Seq(A) /\ Len(buffer) = m /\ z \in Seq(A) /\ Joins(buffer, z, net)
    BY <1>3, <2>2, PrefixIs
  <2>4. buffer # << >>
    <3>1. Len(<< >>) = 0
      OBVIOUS
    <3> QED BY <2>2, <2>3, <3>1
  <2>5. inbuf = << >> /\ ReadFrom(buffer) /\ net' = z
    BY <1>6, <2>1 DEF FillBuffer
  <2> HIDE DEF buffer, z
  <2>6. PICK n \in 1 .. Len(buffer) :
          n <= Wanted(reader) /\ Take(Parsed(reader, SubSeq(buffer, 1, n))) /\ inbuf' = Rest(buffer, n)
    BY <1>1, <2>3, <2>4, <2>5, ReadFromTakes
  <2> DEFINE x == SubSeq(buffer, 1, n)
  <2> DEFINE y == Rest(buffer, n)
  <2>7. n \in 0 .. Len(buffer) /\ n \in Nat
    BY <2>2, <2>3
  <2>8. x \in Seq(A) /\ Len(x) = n /\ y \in Seq(A) /\ Joins(x, y, buffer)
    BY <2>3, <2>7, PrefixIs
  <2>12. inbuf' = y /\ Take(Parsed(reader, x)) /\ n <= Wanted(reader)
    BY <2>6
  <2> HIDE DEF x, y, A
  <2>9. Joins(x, y \o z, net)
    <3>1. Reassociates(x, y, z)
      BY <2>3, <2>8, Reassociate
    <3> QED BY <2>3, <2>8, <3>1 DEF Joins, Reassociates
  <2>10. Held' = y \o z /\ Held = net
    <3>1. << >> \o net = net
      BY <1>3
    <3> QED BY <2>5, <2>12, <3>1 DEF Held
  <2>11. Len(x) \in 1 .. Wanted(reader)
    BY <1>4, <2>6, <2>7, <2>8
  <2>13. Reads1(x)
    BY <2>3, <2>5, <2>8, <2>9, <2>10, <2>11, <2>12 DEF Reads1, A
  <2> QED BY <1>1, <1>2, <2>13
<1>7. CASE ReadDirect
  <2>1. PICK n \in 1 .. Len(net) : n <= Wanted(reader) /\ net' = Rest(net, n) /\ Take(Parsed(reader, SubSeq(net, 1, n)))
    BY <1>7 DEF ReadDirect, Rest
  <2>2. inbuf = << >> /\ inbuf' = << >>
    BY <1>7 DEF ReadDirect
  <2> DEFINE x == SubSeq(net, 1, n)
  <2> DEFINE y == Rest(net, n)
  <2>3. n \in 0 .. Len(net) /\ n \in Nat
    BY <1>3, LenProperties
  <2>4. x \in Seq(A) /\ Len(x) = n /\ y \in Seq(A) /\ Joins(x, y, net)
    BY <1>3, <2>3, PrefixIs
  <2>5. net' = y /\ Take(Parsed(reader, x))
    BY <2>1
  <2> HIDE DEF x, y, A
  <2>6. Held' = y /\ Held = net
    <3>1. << >> \o net = net /\ << >> \o y = y
      BY <1>3, <2>4
    <3> QED BY <2>2, <2>5, <3>1 DEF Held
  <2>7. Len(x) \in 1 .. Wanted(reader) /\ << >> \in Seq(A)
    BY <1>4, <2>1, <2>3, <2>4
  <2>8. Reads1(x)
    BY <2>1, <2>2, <2>4, <2>5, <2>6, <2>7 DEF Reads1, A
  <2> QED BY <1>1, <1>2, <2>8
<1> QED BY <1>5, <1>6, <1>7 DEF Reading

\* What the reader makes of packet k: it is not lost in it, and stops behind it.
Sees(k) ==
  /\ \A q \in 0 .. PacketLen(k) : reader.seen = Run(k, 0, q) => Good(reader, k, q, shapes[k], mode)
  /\ Len(reader.seen) > PacketLen(k) => \E i \in 1 .. PacketLen(k) : reader.seen[i] # <<k, i>>

\* Tokens are the first of a packet, or one of them differs.
LEMMA RunOrNot ==
  ASSUME NEW k \in Nat, NEW s \in Seq(Pairs)
  PROVE  s = Run(k, 0, Len(s)) \/ \E i \in 1 .. Len(s) : s[i] # <<k, i>>
<1> DEFINE n == Len(s)
<1>1. n \in Nat /\ 0 \in Nat
  BY LenProperties
<1> HIDE DEF n
<1>2. Run(k, 0, n) \in Seq(Nat \X Nat) /\ Len(Run(k, 0, n)) = n /\ \A i \in 1 .. n : Run(k, 0, n)[i] = <<k, 0 + i>>
  BY <1>1, RunOfPairs
<1>3. SUFFICES ASSUME \A i \in 1 .. n : s[i] = <<k, i>> PROVE s = Run(k, 0, n)
  BY DEF n
<1> DEFINE x == Run(k, 0, n)
<1>4. x \in Seq(Pairs) /\ Len(x) = n /\ Len(s) = n
  BY <1>2 DEF Pairs, n
<1>5. \A i \in 1 .. n : x[i] = s[i]
  <2> TAKE i \in 1 .. n
  <2>1. 0 + i = i
    BY <1>1
  <2> QED BY <1>2, <1>3, <2>1
<1> HIDE DEF x
<1>6. x = s
  BY <1>4, <1>5, SeqEqual
<1> QED BY <1>6 DEF x

\* The tokens behind a part of a packet that make a longer part.
LEMMA RunFollows ==
  ASSUME NEW k \in Nat, NEW l \in Nat, NEW w \in Nat, NEW c \in Nat, NEW t \in Seq(Pairs), Len(t) = w,
         Joins(Run(k, 0, l), t, Run(k, 0, c))
  PROVE  c = l + w /\ t = Run(k, l, w)
<1> DEFINE x == Run(k, 0, l)
<1> DEFINE z == Run(k, 0, c)
<1>0. 0 \in Nat
  OBVIOUS
<1>1. x \in Seq(Pairs) /\ Len(x) = l /\ z \in Seq(Pairs) /\ Len(z) = c /\ \A i \in 1 .. c : z[i] = <<k, 0 + i>>
  <2>1. IsRun(x, k, 0, l) /\ IsRun(z, k, 0, c)
    BY <1>0, RunIsRun
  <2> QED BY <2>1, Zenon DEF IsRun, Pairs
<1>2. z = x \o t
  BY DEF Joins
<1> HIDE DEF x, z
<1>3. c = l + w
  BY <1>1, <1>2, ConcatProperties
<1>4. ASSUME NEW i \in 1 .. w PROVE t[i] = <<k, l + i>>
  <2> DEFINE j == l + i
  <2>1. j \in 1 .. Len(x) + Len(t) /\ ~(j <= Len(x)) /\ j - Len(x) = i /\ j \in 1 .. c /\ 0 + j = j
    BY <1>1, <1>3
  <2> HIDE DEF j
  <2>2. (x \o t)[j] = t[j - Len(x)]
    BY <1>1, <2>1, ConcatProperties
  <2>3. z[j] = <<k, j>>
    BY <1>1, <2>1
  <2> QED BY <1>2, <2>1, <2>2, <2>3 DEF j
<1>5. Run(k, l, w) \in Seq(Pairs) /\ Len(Run(k, l, w)) = w /\ \A i \in 1 .. w : Run(k, l, w)[i] = <<k, l + i>>
  <2>1. IsRun(Run(k, l, w), k, l, w)
    BY RunIsRun
  <2> QED BY <2>1, Zenon DEF IsRun, Pairs
<1> DEFINE y == Run(k, l, w)
<1>6. y \in Seq(Pairs) /\ Len(y) = Len(t) /\ \A i \in 1 .. Len(t) : y[i] = t[i]
  BY <1>4, <1>5
<1> HIDE DEF y
<1>7. y = t
  BY <1>6, SeqEqual
<1> QED BY <1>3, <1>7 DEF y

\* A reader between two packets is not lost in any.
LEMMA NoPacketSees ==
  ASSUME TypesOK, NEW k \in Begun
  PROVE  /\ \A q \in Nat : NoPacket.seen = Run(k, 0, q) => Good(NoPacket, k, q, shapes[k], mode)
         /\ Len(NoPacket.seen) = 0 /\ PacketLen(k) \in Nat \ {0}
<1>1. shapes[k] \in Shapes /\ k \in Nat /\ mode \in Settings
  BY BegunIs DEF TypesOK
<1>2. PlainTo(shapes[k], mode) \in Nat \ {0} /\ PlainTo(shapes[k], mode) <= PacketLen(k) /\ PacketLen(k) \in Nat
  BY <1>1, PlacesAre
<1>3. NoPacket.seen = << >> /\ ~NoPacket.broken /\ Len(<< >>) = 0
  BY DEF NoPacket
<1>4. NoPacket \in Readers
  BY DEF NoPacket, Readers
<1>5. Run(k, 0, 0) = << >>
  BY DEF Run
<1>6. ASSUME NEW q \in Nat, NoPacket.seen = Run(k, 0, q) PROVE Good(NoPacket, k, q, shapes[k], mode)
  <2>1. Len(Run(k, 0, q)) = q
    BY <1>1, RunOfPairs
  <2>2. q = 0
    BY <1>3, <1>6, <2>1
  <2> QED BY <1>3, <1>4, <1>5, <2>2 DEF Good
<1> QED BY <1>2, <1>3, <1>6

\* Reading some more leaves it not lost.
LEMMA ReadingSees ==
  ASSUME TypesOK, ReaderIs(reader), Reading, NEW k \in Begun, Sees(k)
  PROVE  Sees(k)'
<1>1. /\ ~reader.broken /\ ~FromFrame /\ UNCHANGED <<direction, mode, shapes, work, buf, gone, thrown>>
      /\ \E tokens : Reads1(tokens)
  BY ReadingTakes
<1>2. PICK t : Reads1(t)
  BY <1>1
<1>3. t \in Seq(Tokens) /\ Len(t) \in 1 .. Wanted(reader) /\ Take(Parsed(reader, t))
  BY <1>2 DEF Reads1
<1> DEFINE s == reader.seen
<1> DEFINE L == PacketLen(k)
<1> DEFINE r2 == Parsed(reader, t)
<1> DEFINE l == Len(s)
<1> DEFINE w == Len(t)
<1>4. PacketLen(k)' = L /\ shapes' = shapes /\ mode' = mode
  BY <1>1 DEF PacketLen
<1>5. /\ shapes[k] \in Shapes /\ k \in Nat \ {0} /\ k \in Nat /\ mode \in Settings /\ L \in Nat \ {0}
  BY BegunIs, NoPacketSees DEF TypesOK
<1>6. s \in Seq(Pairs) /\ t \in Seq(Pairs) /\ l \in Nat /\ w \in Nat \ {0}
  <2>1. Tokens \subseteq Pairs
    BY DEF Tokens
  <2>2. s \in Seq(Tokens)
    BY DEF ReaderIs, ReaderSet
  <2> DEFINE T == Tokens
  <2>3. T \subseteq Pairs /\ s \in Seq(T) /\ t \in Seq(T)
    BY <1>3, <2>1, <2>2
  <2> HIDE DEF T
  <2>4. s \in Seq(Pairs) /\ t \in Seq(Pairs)
    BY <2>3
  <2>5. w \in Nat /\ l \in Nat
    BY <2>4, LenProperties
  <2> QED BY <1>3, <2>4, <2>5
<1>7. Outcome(r2, s \o t)
  <2>1. Len(t) >= 1
    BY <1>3, <1>6
  <2> QED BY <1>1, <1>3, <2>1, ParsedTypes
<1>8. \/ reader' = r2 /\ ReaderIs(r2) /\ r2.seen = s \o t /\ r2 # Finished(k)
      \/ reader' = NoPacket
  BY <1>3, <1>7, TakeKeeps
<1>9. CASE reader' = NoPacket
  BY <1>4, <1>5, <1>9, NoPacketSees DEF Sees
<1> HIDE DEF r2
<1>10. CASE reader' = r2 /\ r2.seen = s \o t /\ r2 # Finished(k)
  <2> DEFINE s2 == s \o t
  <2>1. s2 \in Seq(Pairs) /\ Len(s2) = l + w /\ \A i \in 1 .. l : s2[i] = s[i]
    <3>1. \A i \in 1 .. l : i \in 1 .. l + w
      BY <1>6
    <3> QED BY <1>6, <3>1, ConcatProperties
  <2>2. reader'.seen = s2
    BY <1>10
  <2>3. /\ \A q \in 0 .. L : s = Run(k, 0, q) => Good(reader, k, q, shapes[k], mode)
        /\ l > L => \E i \in 1 .. L : s[i] # <<k, i>>
    BY DEF Sees
  <2>4. SUFFICES /\ \A q \in 0 .. L : s2 = Run(k, 0, q) => Good(r2, k, q, shapes[k], mode)
                 /\ Len(s2) > L => \E i \in 1 .. L : s2[i] # <<k, i>>
    BY <1>4, <1>10, <2>2 DEF Sees
  <2> HIDE DEF s, s2, l, w, L
  <2>5. CASE \E i \in 1 .. l : s[i] # <<k, i>>
    <3>1. PICK i \in 1 .. l : s[i] # <<k, i>>
      BY <2>5
    <3>2. ASSUME NEW q \in 0 .. L, s2 = Run(k, 0, q) PROVE FALSE
      <4>1. Len(Run(k, 0, q)) = q /\ \A j \in 1 .. q : Run(k, 0, q)[j] = <<k, 0 + j>>
        <5>1. q \in Nat
          BY <1>5
        <5> QED BY <1>5, <5>1, RunOfPairs
      <4>2. i \in 1 .. q /\ 0 + i = i
        BY <1>6, <2>1, <3>2, <4>1
      <4> QED BY <2>1, <3>1, <3>2, <4>1, <4>2
    <3>3. ASSUME Len(s2) > L PROVE \E j \in 1 .. L : s2[j] # <<k, j>>
      <4>1. CASE l > L
        <5>1. PICK j \in 1 .. L : s[j] # <<k, j>>
          BY <2>3, <4>1
        <5>2. j \in 1 .. l
          BY <1>5, <1>6, <4>1
        <5> QED BY <2>1, <5>1, <5>2
      <4>2. CASE ~(l > L)
        <5>1. i \in 1 .. L
          BY <1>5, <1>6, <4>2
        <5> QED BY <2>1, <3>1, <5>1
      <4> QED BY <4>1, <4>2
    <3> QED BY <3>2, <3>3
  <2>6. CASE s = Run(k, 0, l) /\ ~(l > L)
    <3>1. l \in 0 .. L /\ Good(reader, k, l, shapes[k], mode)
      BY <1>5, <1>6, <2>3, <2>6
    <3>2. ~(InFrames(reader) /\ reader.mem # << >>)
      BY <1>1 DEF FromFrame
    <3>3. /\ Wanted(reader) \in Nat \ {0} /\ l + Wanted(reader) <= L
          /\ \A v \in 1 .. Wanted(reader) : ReadOn(Parsed(reader, Run(k, l, v)), k, l + v)
      BY <1>5, <1>6, <3>1, <3>2, GoodReads DEF L
    <3>4. w \in 1 .. Wanted(reader) /\ l + w <= L
      <4>1. w \in 1 .. Wanted(reader)
        BY <1>3 DEF w
      <4> DEFINE v == Wanted(reader)
      <4>2. w \in 1 .. v /\ v \in Nat /\ l + v <= L
        BY <3>3, <4>1
      <4> HIDE DEF v
      <4>3. l + w <= L
        BY <1>5, <1>6, <4>2
      <4> QED BY <4>1, <4>3
    <3>5. ASSUME NEW q \in 0 .. L, s2 = Run(k, 0, q) PROVE Good(r2, k, q, shapes[k], mode)
      <4>1. Joins(Run(k, 0, l), t, Run(k, 0, q))
        BY <2>6, <3>5 DEF Joins, s2
      <4>2. q \in Nat /\ w \in Nat /\ Len(t) = w
        BY <1>5, <1>6 DEF w
      <4>3. q = l + w /\ t = Run(k, l, w)
        BY <1>5, <1>6, <4>1, <4>2, RunFollows
      <4>4. ReadOn(r2, k, l + w)
        BY <3>3, <3>4, <4>3 DEF r2
      <4> QED BY <1>10, <4>3, <4>4 DEF ReadOn
    <3>6. ~(Len(s2) > L)
      BY <1>5, <1>6, <2>1, <3>4
    <3> QED BY <3>5, <3>6
  <2>7. CASE s = Run(k, 0, l) /\ l > L
    <3>1. PICK i \in 1 .. L : s[i] # <<k, i>>
      BY <2>3, <2>7
    <3>2. i \in 1 .. l /\ 0 + i = i
      BY <1>5, <1>6, <2>7
    <3>3. Run(k, 0, l)[i] = <<k, 0 + i>>
      <4>1. 0 \in Nat /\ \A j \in 1 .. l : Run(k, 0, l)[j] = <<k, 0 + j>>
        BY <1>5, <1>6, RunOfPairs
      <4> QED BY <3>2, <4>1
    <3> QED BY <2>7, <3>1, <3>2, <3>3
  <2>8. s = Run(k, 0, l) \/ \E i \in 1 .. l : s[i] # <<k, i>>
    BY <1>5, <1>6, RunOrNot DEF l
  <2> QED BY <2>5, <2>6, <2>7, <2>8
<1> QED BY <1>8, <1>9, <1>10

\* So does taking bytes of a frame.
LEMMA FrameSees ==
  ASSUME TypesOK, ReaderIs(reader), ReadFrame, NEW k \in Begun, Sees(k)
  PROVE  Sees(k)'
<1> DEFINE r2 == OutOfFrame(reader)
<1> DEFINE s == reader.seen
<1> DEFINE L == PacketLen(k)
<1>1. /\ ~reader.broken /\ FromFrame /\ mode' = mode /\ shapes' = shapes /\ Take(r2)
  BY DEF ReadFrame, sendVars, OutOfFrame, Taken
<1>2. InFrames(reader) /\ reader.mem # << >>
  BY <1>1 DEF FromFrame
<1>3. Outcome(r2, s)
  BY <1>1, <1>2, OutOfFrameTypes
<1>4. \/ reader' = r2 /\ r2.seen = s /\ r2 # Finished(k)
      \/ reader' = NoPacket
  BY <1>1, <1>3, TakeKeeps
<1>5. /\ shapes[k] \in Shapes /\ k \in Nat \ {0} /\ k \in Nat /\ mode \in Settings /\ L \in Nat \ {0}
  BY BegunIs, NoPacketSees DEF TypesOK
<1>6. PacketLen(k)' = L
  BY <1>1 DEF PacketLen
<1>7. CASE reader' = NoPacket
  BY <1>1, <1>5, <1>6, <1>7, NoPacketSees DEF Sees
<1> HIDE DEF r2
<1>8. CASE reader' = r2 /\ r2.seen = s /\ r2 # Finished(k)
  <2>1. ASSUME NEW q \in 0 .. L, s = Run(k, 0, q) PROVE Good(r2, k, q, shapes[k], mode)
    <3>1. Good(reader, k, q, shapes[k], mode) /\ q \in Nat
      BY <1>5, <2>1 DEF Sees
    <3>2. ReadOn(r2, k, q)
      BY <1>2, <1>5, <3>1, GoodReads DEF r2
    <3> QED BY <1>8, <3>2 DEF ReadOn
  <2> HIDE DEF L
  <2> QED BY <1>1, <1>6, <1>8, <2>1 DEF Sees, L
<1> QED BY <1>4, <1>7, <1>8

------------------------------------------------------------------------------
(* All steps. *)

StreamInv == WriterInv /\ ReaderIs(reader) /\ \A k \in Begun : Sees(k)

\* A reader is one whatever packets are begun.
LEMMA ReaderStays ==
  ASSUME shapes' = shapes, mode' = mode, NEW r, ReaderIs(r), reader' = r
  PROVE  ReaderIs(reader)'
<1>1. Tokens' = Tokens
  BY DEF Tokens, PacketLen, Pairs
<1>2. \A raw : RawIs(raw)' <=> RawIs(raw)
  BY DEF RawIs, Content
<1>3. ReaderSet' = ReaderSet
  BY <1>1 DEF ReaderSet, Pairs
<1>4. reader' \in ReaderSet'
  BY <1>3 DEF ReaderIs
<1>5. RawIs(r.raw) => RawIs(reader.raw)'
  BY DEF RawIs, Content
<1>6. CASE r = NoPacket
  BY <1>4, <1>6 DEF ReaderIs, NoPacket
<1>7. CASE r # NoPacket
  <2>1. /\ r.seen # << >>
        /\ ~r.broken => /\ r.packet # 0 /\ r.field <= Len(SizesOf(shapes[r.packet]))
                        /\ Len(r.got) < SizesOf(shapes[r.packet])[r.field] /\ RawIs(r.raw)
    BY <1>7 DEF ReaderIs
  <2>2. /\ reader'.seen # << >>
        /\ ~reader'.broken => /\ reader'.packet # 0 /\ reader'.field <= Len(SizesOf(shapes'[reader'.packet]))
                              /\ Len(reader'.got) < SizesOf(shapes'[reader'.packet])[reader'.field]
                              /\ RawIs(reader.raw)'
    BY <1>5, <2>1
  <2> QED BY <1>4, <2>2 DEF ReaderIs
<1> QED BY <1>6, <1>7

\* A packet has at least its code.
LEMMA EncodingLong ==
  ASSUME NEW shape \in Shapes, NEW m \in Settings
  PROVE  Len(Encoding[shape][m]) \in Nat \ {0}
<1> DEFINE e == Encoding[shape][m]
<1> DEFINE p == PlainTo(shape, m)
<1> DEFINE b == Blocks(shape, m)
<1> DEFINE o == FrameEnds(shape, m)
<1>1. Layout(e, p, AllBytes(shape), b, o, DataEnds(shape, m))
  BY LayoutIs
<1> HIDE DEF e, p, b, o
<1>2. /\ e \in Seq(Contents) /\ p \in Nat \ {0} /\ Len(b) \in Nat
      /\ \A j \in 0 .. Len(b) : o[j] \in Nat /\ p <= o[j] /\ o[j] <= Len(e)
  BY <1>1 DEF Layout
<1>3. 0 \in 0 .. Len(b) /\ Len(e) \in Nat
  BY <1>2, LenProperties
<1>4. Len(e) \in Nat \ {0}
  BY <1>2, <1>3
<1> QED BY <1>4 DEF e

\* A reader of tokens of packets that were begun is a reader.
LEMMA ReaderSetReaders ==
  Len(shapes) \in Nat => \A r : r \in ReaderSet => r \in Readers
<1> SUFFICES ASSUME Len(shapes) \in Nat, NEW r, r \in ReaderSet PROVE r \in Readers
  OBVIOUS
<1>1. Tokens \subseteq Pairs
  BY DEF Tokens
<1> DEFINE T == Tokens
<1> DEFINE S == Seq(T)
<1> DEFINE P == Seq(Pairs)
<1>2. S \subseteq P
  <2> HIDE DEF T
  <2>1. \A s \in Seq(T) : s \in Seq(Pairs)
    BY <1>1 DEF T
  <2> QED BY <2>1
<1>3. 0 .. Len(shapes) \subseteq Nat /\ Nat \ {0} \subseteq Nat
  OBVIOUS
<1>4. r \in [packet : 0 .. Len(shapes), field : Nat \ {0}, got : P, mem : P, raw : S, seen : S, broken : BOOLEAN]
  BY DEF ReaderSet
<1> HIDE DEF T, S, P
<1>5. r \in [packet : Nat, field : Nat, got : P, mem : P, raw : P, seen : P, broken : BOOLEAN]
  BY <1>2, <1>3, <1>4
<1> QED BY <1>5 DEF Readers, P

\* A packet that is begun changes nothing for the reader.
LEMMA BeginKeepsReader ==
  ASSUME StreamInv, SendPacket
  PROVE  StreamInv'
<1>1. TypesOK /\ ReaderIs(reader) /\ WriterInv
  BY DEF StreamInv, WriterInv
<1> DEFINE N == Len(shapes)
<1>2. PICK k : k = N + 1
  OBVIOUS
<1>3. IsSum(k, Len(shapes), 1)
  BY <1>2 DEF IsSum
<1>4. /\ WriterInv' /\ Len(shapes) \in Nat /\ Len(shapes)' = Len(shapes) + 1
      /\ \A i \in 1 .. Len(shapes) : PacketLen(i)' = PacketLen(i) /\ shapes'[i] = shapes[i]
      /\ \A t \in Tokens : t \in Tokens'
  BY <1>1, <1>3, SendPacketAdds
<1>5. reader' = reader /\ mode' = mode
  BY DEF SendPacket, readVars
<1>6. TypesOK' /\ Begun' = 1 .. N + 1 /\ Begun = 1 .. N /\ N \in Nat
  BY <1>4 DEF WriterInv, Begun
<1>7. reader' \in ReaderSet'
  <2>1. reader \in ReaderSet
    BY <1>1 DEF ReaderIs
  <2>2. Seq(Tokens) \subseteq Seq(Tokens')
    <3> DEFINE T == Tokens
    <3> DEFINE U == Tokens'
    <3>1. \A t \in T : t \in U
      BY <1>4
    <3> HIDE DEF T, U
    <3>2. \A s \in Seq(T) : s \in Seq(U)
      BY <3>1
    <3> QED BY <3>2 DEF T, U
  <2>3. 0 .. N \subseteq 0 .. Len(shapes')
    BY <1>4
  <2> DEFINE S == Seq(Tokens)
  <2> DEFINE S2 == Seq(Tokens')
  <2> DEFINE B == 0 .. Len(shapes')
  <2>4. reader \in [packet : 0 .. N, field : Nat \ {0}, got : Seq(Pairs), mem : Seq(Pairs), raw : S, seen : S, broken : BOOLEAN]
    BY <2>1 DEF ReaderSet
  <2>5. S \subseteq S2 /\ 0 .. N \subseteq B
    BY <2>2, <2>3
  <2> HIDE DEF S, S2, B
  <2>6. reader \in [packet : B, field : Nat \ {0}, got : Seq(Pairs), mem : Seq(Pairs), raw : S2, seen : S2, broken : BOOLEAN]
    BY <2>4, <2>5
  <2> QED BY <1>5, <2>6 DEF ReaderSet, Pairs, S2, B
<1>8. \A t \in Tokens : Content(t)' = Content(t)
  <2> TAKE t \in Tokens
  <2>1. Owner(t) \in 1 .. N
    BY <1>1, <1>6, ContentIs
  <2>2. Content(t)' = Encoding[shapes'[Owner(t)]][mode'][t[2]]
    BY DEF Content, Owner
  <2> QED BY <1>4, <1>5, <2>1, <2>2 DEF Content
<1>9. ReaderIs(reader)'
  <2>1. CASE reader = NoPacket
    BY <1>5, <1>7, <2>1 DEF ReaderIs, NoPacket
  <2>2. CASE reader # NoPacket
    <3>1. /\ reader.seen # << >>
          /\ ~reader.broken =>
               /\ reader.packet # 0 /\ reader.field <= Len(SizesOf(shapes[reader.packet]))
               /\ Len(reader.got) < SizesOf(shapes[reader.packet])[reader.field] /\ RawIs(reader.raw)
      BY <1>1, <2>2 DEF ReaderIs
    <3>2. ~reader.broken => shapes'[reader.packet] = shapes[reader.packet]
      <4>1. ~reader.broken => reader.packet \in Begun
        BY <1>1, <3>1, WantsMore
      <4> QED BY <1>4, <1>6, <4>1
    <3>3. RawIs(reader.raw) => RawIs(reader.raw)'
      <4>1. SUFFICES ASSUME RawIs(reader.raw), Len(reader.raw) >= 2
                     PROVE  DOMAIN Content(reader.raw[2])' = {"header"}
                            /\ Len(reader.raw) < FrameSize(Content(reader.raw[2])'.header)
        <5>1. RawIs(reader.raw)' <=>
                (Len(reader'.raw) >= 2 => /\ DOMAIN Content(reader.raw[2])' = {"header"}
                                          /\ Len(reader'.raw) < FrameSize(Content(reader.raw[2])'.header))
          BY DEF RawIs
        <5> QED BY <1>5, <4>1, <5>1
      <4>2. reader.raw \in Seq(Tokens)
        BY <1>1 DEF ReaderIs, ReaderSet
      <4>3. reader.raw[2] \in Tokens
        <5>1. 2 \in 1 .. Len(reader.raw)
          BY <4>1, <4>2, LenProperties
        <5> QED BY <4>2, <5>1, ElementOfSeq
      <4>4. Content(reader.raw[2])' = Content(reader.raw[2])
        <5>1. Content(reader.raw[2])' = Encoding[shapes'[Owner(reader'.raw[2])]][mode'][reader'.raw[2][2]]
          BY DEF Content, Owner
        <5>2. Owner(reader.raw[2]) \in 1 .. N
          BY <1>1, <1>6, <4>3, ContentIs
        <5> QED BY <1>4, <1>5, <5>1, <5>2 DEF Content
      <4> QED BY <4>1, <4>4 DEF RawIs
    <3>4. /\ reader'.seen # << >>
          /\ ~reader'.broken =>
               /\ reader'.packet # 0 /\ reader'.field <= Len(SizesOf(shapes'[reader'.packet]))
               /\ Len(reader'.got) < SizesOf(shapes'[reader'.packet])[reader'.field] /\ RawIs(reader.raw)'
      BY <1>5, <3>1, <3>2, <3>3
    <3> QED BY <1>7, <3>4 DEF ReaderIs
  <2> QED BY <2>1, <2>2
<1>10. ASSUME NEW i \in Begun' PROVE Sees(i)'
  <2>1. CASE i \in Begun
    <3>1. Sees(i)
      BY <2>1 DEF StreamInv
    <3>2. PacketLen(i)' = PacketLen(i) /\ shapes'[i] = shapes[i]
      BY <1>4, <1>6, <2>1
    <3> QED BY <1>5, <3>1, <3>2 DEF Sees
  <2>2. CASE i \notin Begun
    <3>1. i = N + 1 /\ i \in Nat
      BY <1>6, <2>2
    <3>2. reader.seen \in Seq(Tokens) /\ reader \in Readers
      <4>1. reader \in ReaderSet
        BY <1>1 DEF ReaderIs
      <4>2. \A r : r \in ReaderSet => r \in Readers
        BY <1>6, ReaderSetReaders
      <4> QED BY <4>1, <4>2 DEF ReaderSet
    <3>3. shapes'[i] \in Shapes /\ mode' \in Settings
      <4>1. shapes' \in Seq(Shapes) /\ mode' \in Settings /\ i \in 1 .. Len(shapes')
        BY <1>4, <1>6, <3>1 DEF TypesOK
      <4> QED BY <4>1, ElementOfSeq
    <3>4. PacketLen(i)' \in Nat \ {0}
      <4>1. PacketLen(i)' = Len(Encoding[shapes'[i]][mode'])
        BY DEF PacketLen
      <4>2. Len(Encoding[shapes'[i]][mode']) \in Nat \ {0}
        BY <3>3, EncodingLong
      <4> QED BY <4>1, <4>2
    <3>5. ASSUME Len(reader.seen) > 0 PROVE reader.seen[1] # <<i, 1>>
      <4>1. 1 \in 1 .. Len(reader.seen)
        BY <3>2, <3>5, LenProperties
      <4>2. reader.seen[1] \in Tokens
        BY <3>2, <4>1, ElementOfSeq
      <4>3. Owner(reader.seen[1]) \in 1 .. N
        BY <1>1, <1>6, <4>2, ContentIs
      <4> QED BY <1>6, <3>1, <4>3 DEF Owner
    <3>6. ASSUME NEW q \in 0 .. PacketLen(i)', reader.seen = Run(i, 0, q)
          PROVE  Good(reader, i, q, shapes'[i], mode')
      <4>1. q \in Nat
        BY <3>4
      <4>2. 0 \in Nat
        OBVIOUS
      <4>3. Len(reader.seen) = q /\ \A j \in 1 .. q : Run(i, 0, q)[j] = <<i, 0 + j>>
        <5>1. i \in Nat
          BY <3>1
        <5>2. Len(Run(i, 0, q)) = q /\ \A j \in 1 .. q : Run(i, 0, q)[j] = <<i, 0 + j>>
          BY <4>1, <4>2, <5>1, RunOfPairs
        <5> QED BY <3>6, <5>2
      <4>4. q = 0
        <5>1. SUFFICES ASSUME q # 0 PROVE FALSE
          OBVIOUS
        <5>2. 1 \in 1 .. q /\ 0 + 1 = 1
          BY <4>1, <5>1
        <5>3. reader.seen[1] = <<i, 1>>
          BY <3>6, <4>3, <5>2
        <5> QED BY <3>5, <4>1, <4>3, <5>1, <5>3
      <4>5. reader.seen = << >>
        BY <3>6, <4>4 DEF Run
      <4>6. reader = NoPacket
        BY <1>1, <4>5 DEF ReaderIs
      <4>7. ~reader.broken
        BY <4>6 DEF NoPacket
      <4> QED BY <3>2, <3>6, <4>4, <4>6, <4>7 DEF Good
    <3>7. ASSUME Len(reader.seen) > PacketLen(i)' PROVE \E j \in 1 .. PacketLen(i)' : reader.seen[j] # <<i, j>>
      <4>1. Len(reader.seen) \in Nat
        BY <3>2, LenProperties
      <4>2. Len(reader.seen) > 0 /\ 1 \in 1 .. PacketLen(i)'
        BY <3>4, <3>7, <4>1
      <4> QED BY <3>5, <4>2
    <3> QED BY <1>5, <3>6, <3>7 DEF Sees
  <2> QED BY <2>1, <2>2
<1> QED BY <1>4, <1>9, <1>10 DEF StreamInv

\* What a step leaves to the reader it has.
LEMMA ReaderKeeps ==
  ASSUME TypesOK, shapes' = shapes, mode' = mode, reader' = reader, ReaderIs(reader), \A k \in Begun : Sees(k)
  PROVE  ReaderIs(reader)' /\ \A k \in Begun' : Sees(k)'
<1>1. ReaderIs(reader)'
  BY ReaderStays
<1>2. Begun' = Begun
  BY DEF Begun
<1>3. ASSUME NEW k \in Begun PROVE Sees(k)'
  <2>1. PacketLen(k)' = PacketLen(k)
    BY DEF PacketLen
  <2>2. Sees(k)
    OBVIOUS
  <2> QED BY <2>1, <2>2 DEF Sees
<1> QED BY <1>1, <1>2, <1>3

\* A reader that begins anew.
LEMMA ReaderBegins ==
  ASSUME TypesOK, shapes' = shapes, mode' = mode, reader' = NoPacket
  PROVE  ReaderIs(reader)' /\ \A k \in Begun' : Sees(k)'
<1>1. ReaderIs(reader)'
  BY NoPacketIs, ReaderStays
<1>2. Begun' = Begun
  BY DEF Begun
<1>3. ASSUME NEW k \in Begun PROVE Sees(k)'
  <2>1. PacketLen(k)' = PacketLen(k)
    BY DEF PacketLen
  <2>2. /\ \A q \in Nat : NoPacket.seen = Run(k, 0, q) => Good(NoPacket, k, q, shapes[k], mode)
        /\ Len(NoPacket.seen) = 0 /\ PacketLen(k) \in Nat \ {0}
    BY NoPacketSees
  <2> QED BY <2>1, <2>2 DEF Sees
<1> QED BY <1>1, <1>2, <1>3

\* A connection on which nothing was sent begins in order.
LEMMA StreamBegins ==
  Init => StreamInv
<1> SUFFICES ASSUME Init PROVE StreamInv
  OBVIOUS
<1>1. /\ mode \in Settings /\ shapes = << >> /\ work = << >> /\ buf = << >> /\ gone = 0 /\ thrown = {}
      /\ net = << >> /\ inbuf = << >> /\ reader = NoPacket
  BY DEF Init
<1> DEFINE C == CallsOf(Tokens)
<1> DEFINE T == Tokens
<1>2. shapes \in Seq(Shapes) /\ work \in Seq(C) /\ buf \in Seq(T) /\ net \in Seq(T) /\ inbuf \in Seq(T)
      /\ Len(shapes) = 0 /\ Len(buf) = 0
  BY <1>1
<1>3. TypesOK
  BY <1>1, <1>2 DEF TypesOK
<1>4. WriterInv
  BY <1>1, <1>3 DEF WriterInv, LastIsFlush, ReturnedIsSent
<1>5. Begun = {}
  BY <1>2 DEF Begun
<1>6. ReaderIs(reader)
  BY <1>1, <1>3, NoPacketIs
<1> QED BY <1>4, <1>5, <1>6 DEF StreamInv

\* The writer knows nothing of the reader, and the reader is right whatever the writer does.
LEMMA StreamKeeps ==
  ASSUME StreamInv, [Next]_byteVars
  PROVE  StreamInv'
<1>1. TypesOK /\ WriterInv /\ ReaderIs(reader) /\ \A k \in Begun : Sees(k)
  BY DEF StreamInv, WriterInv
<1>2. CASE SendPacket
  BY <1>2, BeginKeepsReader
<1>3. CASE Writes
  <2>1. WriterInv'
    BY <1>1, <1>3, WritesMoveBytes
  <2>2. reader' = reader /\ shapes' = shapes /\ mode' = mode
    BY <1>3 DEF Writes, WriteToBuffer, SendBuffer, FlushNothing, SendDirect, readVars
  <2> QED BY <1>1, <2>1, <2>2, ReaderKeeps DEF StreamInv
<1>4. CASE SendThrows
  <2>1. WriterInv' /\ reader' = reader /\ shapes' = shapes /\ mode' = mode
    BY <1>1, <1>4, SendThrowsKeeps
  <2> QED BY <1>1, <2>1, ReaderKeeps DEF StreamInv
<1>5. CASE ReadFrame
  <2>1. /\ UNCHANGED <<mode, shapes, work, buf, gone, thrown, net, inbuf>>
        /\ ~reader.broken /\ FromFrame /\ Take(OutOfFrame(reader))
    BY <1>5 DEF ReadFrame, sendVars, OutOfFrame, Taken
  <2>2. WriterInv'
    <3>1. net' \in Seq(Tokens) /\ inbuf' \in Seq(Tokens)
      BY <1>1, <2>1 DEF TypesOK
    <3> QED BY <1>1, <2>1, <3>1, ReadsKeepWriter
  <2>3. Outcome(OutOfFrame(reader), reader.seen)
    BY <1>1, <2>1, OutOfFrameTypes DEF FromFrame
  <2> DEFINE r == OutOfFrame(reader)
  <2>4. (reader' = r /\ ReaderIs(r)) \/ reader' = NoPacket
    BY <1>1, <2>1, <2>3, TakeKeeps
  <2> HIDE DEF r
  <2>5. ReaderIs(reader)'
    BY <1>1, <2>1, <2>4, ReaderStays, ReaderBegins
  <2>6. Begun' = Begun
    BY <2>1 DEF Begun
  <2>7. \A k \in Begun : Sees(k)'
    BY <1>1, <1>5, FrameSees
  <2> QED BY <2>2, <2>5, <2>6, <2>7 DEF StreamInv
<1>6. CASE Reading
  <2>1. UNCHANGED <<mode, shapes, work, buf, gone, thrown>> /\ ~reader.broken /\ \E t : Reads1(t)
    BY <1>1, <1>6, ReadingTakes
  <2>2. PICK t : Reads1(t)
    BY <2>1
  <2>3. t \in Seq(Tokens) /\ Len(t) \in 1 .. Wanted(reader) /\ Take(Parsed(reader, t))
        /\ inbuf' \in Seq(Tokens) /\ net' \in Seq(Tokens)
    BY <2>2 DEF Reads1
  <2>4. WriterInv'
    BY <1>1, <2>1, <2>3, ReadsKeepWriter
  <2> DEFINE r == Parsed(reader, t)
  <2>5. Outcome(r, reader.seen \o t)
    <3>1. Wanted(reader) \in Nat /\ Len(t) \in Nat
      BY <1>1, <2>1, <2>3, WantsMore, LenProperties
    <3>2. Len(t) >= 1
      BY <2>3, <3>1
    <3> QED BY <1>1, <2>1, <2>3, <3>2, ParsedTypes
  <2>6. (reader' = r /\ ReaderIs(r)) \/ reader' = NoPacket
    BY <1>1, <2>3, <2>5, TakeKeeps
  <2> HIDE DEF r
  <2>7. ReaderIs(reader)'
    BY <1>1, <2>1, <2>6, ReaderStays, ReaderBegins
  <2>8. Begun' = Begun
    BY <2>1 DEF Begun
  <2>9. \A k \in Begun : Sees(k)'
    BY <1>1, <1>6, ReadingSees
  <2> QED BY <2>4, <2>7, <2>8, <2>9 DEF StreamInv
<1>7. CASE ReceiveThrows
  <2>1. UNCHANGED <<mode, shapes, work, buf, gone, thrown, net, inbuf>> /\ reader' = NoPacket
    BY <1>7 DEF ReceiveThrows, sendVars
  <2>2. WriterInv'
    <3>1. net' \in Seq(Tokens) /\ inbuf' \in Seq(Tokens)
      BY <1>1, <2>1 DEF TypesOK
    <3> QED BY <1>1, <2>1, <3>1, ReadsKeepWriter
  <2> QED BY <1>1, <2>1, <2>2, ReaderBegins DEF StreamInv
<1>8. CASE UNCHANGED byteVars
  <2>1. UNCHANGED <<mode, shapes, work, buf, gone, thrown, net, inbuf, reader>>
    BY <1>8 DEF byteVars, sendVars, readVars
  <2>2. WriterInv'
    <3>1. net' \in Seq(Tokens) /\ inbuf' \in Seq(Tokens)
      BY <1>1, <2>1 DEF TypesOK
    <3> QED BY <1>1, <2>1, <3>1, ReadsKeepWriter
  <2> QED BY <1>1, <2>1, <2>2, ReaderKeeps DEF StreamInv
<1> QED BY <1>2, <1>3, <1>4, <1>5, <1>6, <1>7, <1>8 DEF Next, Reading

\* The stream is always what the writer and the reader take it for.
LEMMA StreamAlways ==
  TransferSpec => []StreamInv
<1>1. TransferInit => StreamInv
  BY StreamBegins DEF TransferInit
<1>2. StreamInv /\ [TransferNext]_<<byteVars, queues>> => StreamInv'
  <2>1. [TransferNext]_<<byteVars, queues>> => [Next]_byteVars
    BY DEF TransferNext
  <2> QED BY <2>1, StreamKeeps
<1> QED BY <1>1, <1>2, PTL DEF TransferSpec

\* A packet whose send has returned is on its way as a whole, whatever send() took of it
\* at a time (DoFlush and WriteAll), and whatever a send that threw before had left in the buffer.
THEOREM SentOnceReturned ==
  TransferSpec => []ReturnedIsSent
<1>1. StreamInv => ReturnedIsSent
  BY DEF StreamInv, WriterInv
<1> QED BY <1>1, StreamAlways, PTL

------------------------------------------------------------------------------
(* The reader gives up only on bytes that are no packet. *)

\* A packet's tokens are a run of them.
LEMMA WholePacketIs ==
  ASSUME TypesOK, NEW k \in Begun
  PROVE  /\ WholePacket(k) = Run(k, 0, PacketLen(k)) /\ WholePacket(k) \in Seq(Tokens)
         /\ PacketLen(k) \in Nat \ {0} /\ Len(WholePacket(k)) = PacketLen(k) /\ k \in Nat
<1> DEFINE e == Encoding[shapes[k]][mode]
<1> DEFINE L == PacketLen(k)
<1>1. shapes[k] \in Shapes /\ k \in Nat /\ mode \in Settings
  BY BegunIs DEF TypesOK
<1>2. e \in Seq(Contents) /\ L = Len(e)
  BY <1>1, LayoutIs DEF Layout, PacketLen
<1>3. L \in Nat \ {0} /\ L \in Nat
  BY NoPacketSees
<1>4. DOMAIN e = 1 .. L
  <2> HIDE DEF e, L
  <2> QED BY <1>2, LenProperties
<1> HIDE DEF L
<1>5. WholePacket(k) = [n \in 1 .. L |-> <<k, n>>]
  BY <1>4 DEF WholePacket
<1>6. \A n \in 1 .. L : 0 + n = n
  BY <1>3
<1>7. Run(k, 0, L) = [n \in 1 .. L |-> <<k, n>>]
  BY <1>6 DEF Run
<1>8. \A n \in 1 .. L : <<k, 0 + n>> \in Tokens
  <2> TAKE n \in 1 .. L
  <2>1. n \in Nat /\ 0 + n = n /\ k \in 1 .. Len(shapes)
    BY <1>3 DEF Begun
  <2> DEFINE t == <<k, n>>
  <2>2. t \in Nat \X Nat /\ t[1] = k /\ t[2] = n
    BY <1>1, <2>1
  <2>3. t \in Tokens
    BY <2>1, <2>2 DEF Tokens, Pairs, L
  <2> QED BY <2>1, <2>3
<1> DEFINE T == Tokens
<1>9. Run(k, 0, L) \in Seq(T) /\ Len(Run(k, 0, L)) = L
  <2> HIDE DEF T
  <2>1. 0 \in Nat /\ \A n \in 1 .. L : <<k, 0 + n>> \in T
    BY <1>8 DEF T
  <2> QED BY <1>3, <2>1, RunIs
<1> QED BY <1>1, <1>3, <1>5, <1>7, <1>9 DEF L

\* Sequences one after the other, the first apart.
LEMMA Regroup ==
  ASSUME NEW A, NEW a \in Seq(A), NEW b \in Seq(A), NEW c \in Seq(A), NEW d \in Seq(A)
  PROVE  Joins(a, (b \o c) \o d, ((a \o b) \o c) \o d)
<1>1. (a \o b) \o c = a \o (b \o c)
  <2>1. Reassociates(a, b, c)
    BY Reassociate
  <2> QED BY <2>1, Zenon DEF Reassociates
<1>2. b \o c \in Seq(A)
  BY ConcatProperties
<1> DEFINE y == b \o c
<1> HIDE DEF y
<1>3. (a \o y) \o d = a \o (y \o d)
  <2>1. Reassociates(a, y, d)
    BY <1>2, Reassociate DEF y
  <2> QED BY <2>1, Zenon DEF Reassociates
<1> QED BY <1>1, <1>3 DEF y, Joins

\* The first packet of a stream ends somewhere in it.
LEMMA FirstEnd ==
  ASSUME NEW A, NEW s \in Seq(A), s # << >>
  PROVE  Nth(Ends(s), 1) \in 1 .. Len(s)
<1> DEFINE E == Ends(s)
<1>1. Len(s) \in Nat \ {0} /\ DOMAIN s = 1 .. Len(s)
  BY LenProperties, EmptySeq
<1>2. E \subseteq 1 .. Len(s) /\ Len(s) \in E
  BY <1>1 DEF Ends
<1> HIDE DEF E
<1>3. E \in SUBSET Nat /\ E # {}
  BY <1>1, <1>2
<1> DEFINE m == Min(E)
<1>4. m \in E /\ \A y \in E : m <= y
  BY <1>3, MinIn
<1> HIDE DEF m
<1>5. {j \in E : j <= m} = {m}
  <2>1. \A j \in E : j \in Nat /\ (j <= m <=> j = m)
    <3> TAKE j \in E
    <3>1. j \in Nat /\ m \in Nat /\ m <= j
      BY <1>3, <1>4
    <3> QED BY <3>1
  <2> QED BY <1>4, <2>1
<1>6. Cardinality({j \in E : j <= m}) = 1
  BY <1>5, FS_Singleton
<1>7. Nth(E, 1) \in E
  BY <1>4, <1>6 DEF Nth
<1> QED BY <1>2, <1>7 DEF E

\* The reader gives up only on bytes that are not a whole packet (BufferedInput::DoRead and
\* CompressedInput::Decompress), for every way of cutting packets into frames, sends and receives.
THEOREM GivesUpOnlyOnTorn ==
  TransferSpec => []BrokenIsTorn
<1>1. ASSUME StreamInv PROVE BrokenIsTorn
  <2>1. TypesOK /\ ReaderIs(reader)
    BY <1>1 DEF StreamInv, WriterInv
  <2> DEFINE T == Tokens
  <2> DEFINE seen == reader.seen
  <2> DEFINE rest == inbuf \o net
  <2> DEFINE u == Unsent
  <2> DEFINE s == OnTheWay \o Unsent
  <2>2. SUFFICES ASSUME reader.broken, IsWhole(Part(s, Ends(s), 1)) PROVE FALSE
    BY DEF BrokenIsTorn
  <2>3. seen # << >> /\ seen \in Seq(T) /\ Len(seen) \in Nat
    <3>1. reader # NoPacket
      BY <2>2 DEF NoPacket
    <3>2. seen # << >> /\ seen \in Seq(T)
      BY <2>1, <3>1 DEF ReaderIs, ReaderSet
    <3> HIDE DEF T, seen
    <3> QED BY <3>2, LenProperties
  <2>4. inbuf \in Seq(T) /\ net \in Seq(T) /\ buf \in Seq(T) /\ gone \in 0 .. Len(buf)
    BY <2>1 DEF TypesOK
  <2>5. u \in Seq(T)
    <3>1. u = Rest(buf, gone)
      BY DEF Unsent, Rest
    <3> HIDE DEF u, T
    <3>2. Rest(buf, gone) \in Seq(T)
      BY <2>4, PrefixIs
    <3> QED BY <3>1, <3>2
  <2>6. s \in Seq(T) /\ Len(seen) <= Len(s) /\ \A i \in 1 .. Len(seen) : s[i] = seen[i]
    <3> DEFINE x == (inbuf \o net) \o u
    <3>1. s = ((seen \o inbuf) \o net) \o u
      BY DEF OnTheWay
    <3> HIDE DEF s, seen, u, T
    <3>2. x \in Seq(T) /\ Len(x) \in Nat
      <4>1. inbuf \o net \in Seq(T)
        BY <2>4, ConcatProperties
      <4>2. x \in Seq(T)
        BY <2>5, <4>1, ConcatProperties
      <4> QED BY <4>2, LenProperties
    <3>3. s = seen \o x
      <4>1. Joins(seen, (inbuf \o net) \o u, ((seen \o inbuf) \o net) \o u)
        BY <2>3, <2>4, <2>5, Regroup
      <4> QED BY <3>1, <4>1 DEF Joins
    <3> HIDE DEF x
    <3>4. seen \o x \in Seq(T) /\ Len(seen \o x) = Len(seen) + Len(x)
          /\ \A i \in 1 .. Len(seen) + Len(x) : i <= Len(seen) => (seen \o x)[i] = seen[i]
      BY <2>3, <3>2, ConcatProperties
    <3> QED BY <2>3, <3>2, <3>3, <3>4
  <2> HIDE DEF s, seen
  <2>7. Len(seen) # 0 /\ Len(s) \in Nat /\ s # << >>
    <3>1. Len(seen) # 0
      BY <2>3, EmptySeq
    <3>2. Len(s) \in Nat
      <4> HIDE DEF T
      <4> QED BY <2>6, LenProperties
    <3>3. Len(<< >>) = 0
      OBVIOUS
    <3> QED BY <2>3, <2>6, <3>1, <3>2, <3>3
  <2> DEFINE e == Nth(Ends(s), 1)
  <2> DEFINE p == SubSeq(s, 1, e)
  <2>8. e \in 1 .. Len(s)
    <3> HIDE DEF T
    <3> QED BY <2>6, <2>7, FirstEnd
  <2>9. Part(s, Ends(s), 1) = p
    BY DEF Part
  <2> HIDE DEF e
  <2>10. Len(p) = e /\ p \in Seq(T) /\ \A i \in 1 .. e : p[i] = s[i]
    <3>1. e \in 0 .. Len(s)
      BY <2>7, <2>8
    <3> HIDE DEF T
    <3> QED BY <2>6, <3>1, PrefixIs
  <2> HIDE DEF p
  <2> DEFINE k == Owner(p[1])
  <2>11. k \in Begun
    <3>1. 1 \in 1 .. Len(p)
      BY <2>7, <2>8, <2>10
    <3>2. p[1] \in Tokens
      <4> HIDE DEF T
      <4>1. p[1] \in T
        BY <2>10, <3>1, ElementOfSeq
      <4> QED BY <4>1 DEF T
    <3> QED BY <2>1, <3>2, ContentIs
  <2>12. p = WholePacket(k)
    BY <2>2, <2>9 DEF IsWhole
  <2> HIDE DEF k
  <2> DEFINE L == PacketLen(k)
  <2>13. L \in Nat \ {0} /\ p = Run(k, 0, L) /\ Len(p) = L /\ k \in Nat
    BY <2>1, <2>11, <2>12, WholePacketIs
  <2>14. ASSUME NEW i \in 1 .. Len(seen), i <= L PROVE seen[i] = <<k, i>>
    <3>1. i \in 1 .. L /\ 0 + i = i
      BY <2>3, <2>13, <2>14
    <3>2. p[i] = <<k, 0 + i>>
      <4>1. 0 \in Nat /\ L \in Nat
        BY <2>13
      <4> HIDE DEF L
      <4>2. \A j \in 1 .. L : Run(k, 0, L)[j] = <<k, 0 + j>>
        BY <2>13, <4>1, RunOfPairs
      <4> QED BY <2>13, <3>1, <4>2
    <3>3. seen[i] = s[i] /\ p[i] = s[i]
      BY <2>6, <2>10, <2>13, <3>1
    <3> QED BY <3>1, <3>2, <3>3
  <2>15. /\ \A q \in 0 .. L : seen = Run(k, 0, q) => Good(reader, k, q, shapes[k], mode)
         /\ Len(seen) > L => \E i \in 1 .. L : seen[i] # <<k, i>>
    BY <1>1, <2>11 DEF StreamInv, Sees, seen
  <2> HIDE DEF L
  <2>16. ~(Len(seen) > L)
    <3>1. SUFFICES ASSUME Len(seen) > L PROVE FALSE
      OBVIOUS
    <3>2. PICK i \in 1 .. L : seen[i] # <<k, i>>
      BY <2>15, <3>1
    <3>3. i \in 1 .. Len(seen) /\ i <= L
      BY <2>3, <2>13, <3>1
    <3> QED BY <2>14, <3>2, <3>3
  <2>17. seen = Run(k, 0, Len(seen))
    <3>1. seen \in Seq(Pairs)
      <4>1. T \subseteq Pairs
        BY DEF Tokens
      <4> HIDE DEF T
      <4> QED BY <2>3, <4>1
    <3>2. \A i \in 1 .. Len(seen) : seen[i] = <<k, i>>
      <4> TAKE i \in 1 .. Len(seen)
      <4>1. i <= L
        BY <2>3, <2>13, <2>16
      <4> QED BY <2>14, <4>1
    <3> QED BY <2>13, <3>1, <3>2, RunOrNot
  <2>18. Len(seen) \in 0 .. L
    BY <2>3, <2>13, <2>16
  <2>19. Good(reader, k, Len(seen), shapes[k], mode)
    BY <2>15, <2>17, <2>18
  <2> QED BY <2>2, <2>19 DEF Good
<1> QED BY <1>1, StreamAlways, PTL

------------------------------------------------------------------------------
(* What was sent and what has arrived. *)

\* What is behind the same sequence is the same.
LEMMA SameBehind ==
  ASSUME NEW A, NEW a \in Seq(A), NEW b \in Seq(A), NEW c \in Seq(A), NEW z, Joins(a, b, z), Joins(a, c, z)
  PROVE  b = c
<1>1. a \o b = a \o c
  BY DEF Joins
<1>2. Len(a) \in Nat /\ Len(b) \in Nat /\ Len(c) \in Nat
  BY LenProperties
<1>3. Len(b) = Len(c)
  <2>1. Len(a \o b) = Len(a) + Len(b) /\ Len(a \o c) = Len(a) + Len(c)
    BY ConcatProperties
  <2> QED BY <1>1, <1>2, <2>1
<1>4. ASSUME NEW i \in 1 .. Len(b) PROVE b[i] = c[i]
  <2> DEFINE j == Len(a) + i
  <2>1. j \in 1 .. Len(a) + Len(b) /\ j \in 1 .. Len(a) + Len(c) /\ ~(j <= Len(a)) /\ j - Len(a) = i
    BY <1>2, <1>3
  <2> HIDE DEF j
  <2>2. (a \o b)[j] = b[j - Len(a)]
    BY <2>1, ConcatProperties
  <2>3. (a \o c)[j] = c[j - Len(a)]
    BY <2>1, ConcatProperties
  <2> QED BY <1>1, <2>1, <2>2, <2>3
<1> QED BY <1>3, <1>4, SeqEqual

\* What is behind the first e grows as the sequence does.
LEMMA RestGrows ==
  ASSUME NEW A, NEW s \in Seq(A), NEW x \in Seq(A), NEW z, Joins(s, x, z), NEW e \in 0 .. Len(s)
  PROVE  Joins(Rest(s, e), x, Rest(z, e)) /\ e \in 0 .. Len(z)
<1> DEFINE p == SubSeq(s, 1, e)
<1> DEFINE r == Rest(s, e)
<1> DEFINE q == SubSeq(z, 1, e)
<1> DEFINE v == Rest(z, e)
<1>1. p \in Seq(A) /\ Len(p) = e /\ (\A i \in 1 .. e : p[i] = s[i]) /\ r \in Seq(A) /\ Joins(p, r, s)
  BY PrefixIs
<1>2. Len(s) \in Nat /\ Len(x) \in Nat
  BY LenProperties
<1>3. z \in Seq(A) /\ Len(z) = Len(s) + Len(x) /\ \A i \in 1 .. Len(s) : z[i] = s[i]
  <2>1. s \o x \in Seq(A) /\ Len(s \o x) = Len(s) + Len(x)
        /\ \A i \in 1 .. Len(s) + Len(x) : i <= Len(s) => (s \o x)[i] = s[i]
    BY ConcatProperties
  <2>2. \A i \in 1 .. Len(s) : i \in 1 .. Len(s) + Len(x) /\ i <= Len(s)
    BY <1>2
  <2> QED BY <2>1, <2>2 DEF Joins
<1>4. e \in 0 .. Len(z)
  BY <1>2, <1>3
<1>5. q \in Seq(A) /\ Len(q) = e /\ (\A i \in 1 .. e : q[i] = z[i]) /\ v \in Seq(A) /\ Joins(q, v, z)
  BY <1>3, <1>4, PrefixIs
<1> HIDE DEF p, r, q, v
<1>6. q = p
  <2>1. ASSUME NEW i \in 1 .. e PROVE q[i] = p[i]
    <3>1. i \in 1 .. Len(s)
      BY <1>2
    <3>2. q[i] = z[i] /\ p[i] = s[i] /\ z[i] = s[i]
      BY <1>1, <1>3, <1>5, <3>1
    <3> QED BY <3>2
  <2> QED BY <1>1, <1>5, <2>1, SeqEqual
<1>7. Joins(p, r \o x, z) /\ r \o x \in Seq(A)
  <2>1. Reassociates(p, r, x)
    BY <1>1, Reassociate
  <2>2. (p \o r) \o x = p \o (r \o x)
    BY <2>1, Zenon DEF Reassociates
  <2>3. r \o x \in Seq(A)
    BY <1>1, ConcatProperties
  <2> QED BY <1>1, <2>2, <2>3 DEF Joins
<1> DEFINE y == r \o x
<1> HIDE DEF y
<1>8. Joins(p, y, z) /\ y \in Seq(A) /\ Joins(p, v, z)
  BY <1>5, <1>6, <1>7 DEF y
<1>9. y = v
  BY <1>1, <1>5, <1>8, SameBehind
<1> QED BY <1>4, <1>9 DEF Joins, r, v, y

\* All packets, and those behind the first m.
Packets == [k \in Begun |-> WholePacket(k)]

Behind(m) == Rest(FlattenSeq(Packets), EndOf(Packets, m))

\* The packets that were begun, one behind the other: behind packet k - 1 is packet k and what is behind it.
LEMMA PacketsAre ==
  ASSUME TypesOK
  PROVE  /\ Packets \in Seq(Seq(Tokens)) /\ Len(Packets) = Len(shapes) /\ Len(shapes) \in Nat
         /\ FlattenSeq(Packets) \in Seq(Tokens)
         /\ \A m \in 0 .. Len(shapes) : EndOf(Packets, m) \in 0 .. Len(FlattenSeq(Packets)) /\ Behind(m) \in Seq(Tokens)
         /\ Behind(Len(shapes)) = << >>
         /\ \A k \in Begun : Joins(WholePacket(k), Behind(k), Behind(k - 1))
<1> DEFINE n == Len(shapes)
<1> DEFINE S == Seq(Tokens)
<1> DEFINE p == Packets
<1> DEFINE a == FlattenSeq(p)
<1>1. n \in Nat
  BY LenProperties DEF TypesOK
<1>2. p \in [1 .. n -> S] /\ \A k \in 1 .. n : p[k] = WholePacket(k)
  BY WholePacketIs DEF Packets, Begun
<1> HIDE DEF n, p, S, a
<1>3. p \in Seq(S) /\ Len(p) = n
  BY <1>1, <1>2, FunctionIsSeq
<1>4. a \in S /\ Len(a) \in Nat
  <2> DEFINE T == Tokens
  <2>1. p \in Seq(Seq(T))
    BY <1>3 DEF S
  <2> HIDE DEF T
  <2>2. FlattenSeq(p) \in Seq(T) /\ Len(FlattenSeq(p)) \in Nat
    BY <2>1, FlattenType, LenProperties
  <2> QED BY <2>2 DEF S, T, a
<1>5. ASSUME NEW m \in 0 .. n PROVE EndOf(p, m) \in 0 .. Len(a)
  <2>1. m \in 0 .. Len(p) /\ Len(p) \in m .. Len(p)
    BY <1>1, <1>3, <1>5
  <2> DEFINE T == Tokens
  <2>2. p \in Seq(Seq(T))
    BY <1>3 DEF S
  <2> HIDE DEF T
  <2>3. EndOf(p, m) \in Nat /\ EndOf(p, Len(p)) \in Nat /\ EndOf(p, m) <= EndOf(p, Len(p))
        /\ EndOf(p, Len(p)) = Len(FlattenSeq(p))
    BY <2>1, <2>2, EndsInOrder
  <2> QED BY <2>3 DEF a
<1>6. EndOf(p, n) = Len(a)
  <2>1. n \in 0 .. Len(p) /\ n \in n .. Len(p)
    BY <1>1, <1>3
  <2> DEFINE T == Tokens
  <2>2. p \in Seq(Seq(T))
    BY <1>3 DEF S
  <2> HIDE DEF T
  <2>3. EndOf(p, Len(p)) = Len(FlattenSeq(p))
    BY <2>1, <2>2, EndsInOrder
  <2> QED BY <1>3, <2>3 DEF a
<1>7. ASSUME NEW m \in 0 .. n PROVE Rest(a, EndOf(p, m)) \in S
  <2> DEFINE e == EndOf(p, m)
  <2>1. e \in 0 .. Len(a)
    BY <1>5
  <2> HIDE DEF e
  <2> DEFINE T == Tokens
  <2>2. a \in Seq(T)
    BY <1>4 DEF S
  <2> HIDE DEF T
  <2>3. Rest(a, e) \in Seq(T)
    BY <2>1, <2>2, PrefixIs
  <2> QED BY <2>3 DEF S, T, e
<1>8. Rest(a, EndOf(p, n)) = << >>
  <2>1. Rest(a, Len(a)) = << >>
    BY <1>4, SubSeqEmpty DEF Rest
  <2> QED BY <1>6, <2>1
<1>9. ASSUME NEW k \in 1 .. n PROVE Joins(WholePacket(k), Rest(a, EndOf(p, k)), Rest(a, EndOf(p, k - 1)))
  <2> DEFINE T == Tokens
  <2> DEFINE w == p[k]
  <2> DEFINE c == EndOf(p, k - 1)
  <2> DEFINE e == EndOf(p, k)
  <2>1. k \in 1 .. Len(p) /\ p \in Seq(Seq(T)) /\ a \in Seq(T)
    BY <1>3, <1>4 DEF S
  <2> HIDE DEF T
  <2>2. /\ c \in Nat /\ w \in Seq(T) /\ Len(w) \in Nat /\ e = c + Len(w) /\ e <= Len(a)
        /\ \A i \in 1 .. Len(w) : a[c + i] = w[i]
    BY <2>1, EndsCutParts DEF a
  <2> HIDE DEF w, c, e
  <2>3. c \in 0 .. Len(a) /\ e \in c .. Len(a) /\ e - c = Len(w)
    BY <1>4, <2>2
  <2>4. /\ SubSeq(a, c + 1, e) \in Seq(T) /\ Len(SubSeq(a, c + 1, e)) = e - c
        /\ \A i \in 1 .. e - c : SubSeq(a, c + 1, e)[i] = a[c + i]
        /\ Joins(SubSeq(a, c + 1, e), Rest(a, e), Rest(a, c))
    BY <2>1, <2>3, PieceAndRest
  <2> DEFINE x == SubSeq(a, c + 1, e)
  <2>5. x \in Seq(T) /\ Len(x) = Len(w) /\ \A i \in 1 .. Len(w) : x[i] = w[i]
    BY <2>2, <2>3, <2>4
  <2>6. Joins(x, Rest(a, e), Rest(a, c))
    BY <2>4
  <2> HIDE DEF x
  <2>7. x = w
    BY <2>2, <2>5, SeqEqual
  <2> QED BY <1>2, <2>6, <2>7 DEF w, c, e
<1> QED BY <1>1, <1>3, <1>4, <1>5, <1>7, <1>8, <1>9 DEF Behind, Begun, n, p, S, a

\* The packets consist of tokens, each of its whole run.
LEMMA PacketsAreNow ==
  TypesOK => /\ Packets \in Seq(Seq(Tokens)) /\ Len(Packets) = Len(shapes)
             /\ \A i \in Begun : WholePacket(i) = Run(i, 0, PacketLen(i)) /\ WholePacket(i) \in Seq(Tokens)
BY PacketsAre, WholePacketIs

\* ... and do so after a step.
LEMMA PacketsAreNext ==
  (TypesOK => /\ Packets \in Seq(Seq(Tokens)) /\ Len(Packets) = Len(shapes)
              /\ \A i \in Begun : WholePacket(i) = Run(i, 0, PacketLen(i)) /\ WholePacket(i) \in Seq(Tokens))'
BY PacketsAreNow, PTL

\* A packet that is begun is behind all others.
LEMMA BehindGrows ==
  ASSUME StreamInv, SendPacket, NEW k, IsSum(k, Len(shapes), 1), NEW m \in 0 .. Len(shapes)
  PROVE  Joins(Behind(m), Run(k, 0, PacketLen(k)'), Behind(m)')
<1>1. TypesOK /\ WriterInv
  BY DEF StreamInv, WriterInv
<1> DEFINE n == Len(shapes)
<1>2. /\ WriterInv' /\ n \in Nat /\ Len(shapes') = n + 1
      /\ \A i \in 1 .. n : PacketLen(i)' = PacketLen(i) /\ shapes'[i] = shapes[i]
      /\ \A t \in Tokens : t \in Tokens'
  BY <1>1, SendPacketAdds
<1>3. TypesOK'
  BY <1>2 DEF WriterInv
<1>4. k = n + 1 /\ k \in 1 .. n + 1 /\ mode' = mode
  BY <1>2 DEF IsSum, SendPacket
<1> DEFINE T == Tokens'
<1> DEFINE S == Seq(T)
<1> DEFINE p == Packets
<1> DEFINE q == Packets'
<1> DEFINE x == Run(k, 0, PacketLen(k)')
<1> DEFINE a == FlattenSeq(p)
<1>5. q \in Seq(S) /\ Len(q) = n + 1 /\ \A i \in 1 .. n + 1 : q[i] = WholePacket(i)'
  <2>1. Packets' \in Seq(Seq(Tokens')) /\ Len(Packets') = Len(shapes')
    BY <1>3, PacketsAreNext
  <2>2. Packets' = [i \in 1 .. Len(shapes') |-> WholePacket(i)']
    BY DEF Packets, Begun
  <2> QED BY <1>2, <2>1, <2>2
<1>6. x \in S /\ WholePacket(k)' = x
  <2>1. k \in Begun'
    BY <1>2, <1>4 DEF Begun
  <2>2. \A i \in Begun' : WholePacket(i)' = Run(i, 0, PacketLen(i)') /\ WholePacket(i)' \in Seq(Tokens')
    BY <1>3, PacketsAreNext
  <2> QED BY <2>1, <2>2
<1>7. p \in Seq(S) /\ Len(p) = n /\ \A i \in 1 .. n : p[i] = WholePacket(i)
  <2>1. p \in Seq(Seq(Tokens)) /\ Len(p) = n
    BY <1>1, PacketsAre
  <2> DEFINE U == Tokens
  <2>2. \A t \in U : t \in T
    BY <1>2
  <2>3. p \in Seq(Seq(U))
    BY <2>1
  <2> HIDE DEF U, T, p
  <2>4. \A s \in Seq(U) : s \in Seq(T)
    BY <2>2
  <2> DEFINE V == Seq(U)
  <2> HIDE DEF V, S
  <2>5. \A s \in V : s \in S
    BY <2>4 DEF V, S
  <2>6. \A s \in Seq(V) : s \in Seq(S)
    BY <2>5
  <2> QED BY <2>1, <2>3, <2>6 DEF V, p, Packets, Begun
<1>8. \A i \in 1 .. n : WholePacket(i)' = WholePacket(i)
  <2> TAKE i \in 1 .. n
  <2>1. shapes'[i] = shapes[i]
    BY <1>2
  <2> QED BY <1>4, <2>1 DEF WholePacket
<1>9. m \in 0 .. Len(p)
  BY <1>7
<1> HIDE DEF T, S, p, q, x
<1>10. q = Append(p, x)
  <2>1. Append(p, x) \in Seq(S) /\ Len(Append(p, x)) = n + 1 /\ Append(p, x)[n + 1] = x
        /\ \A i \in 1 .. n : Append(p, x)[i] = p[i]
    BY <1>6, <1>7, AppendProperties
  <2>2. \A i \in 1 .. n + 1 : q[i] = Append(p, x)[i]
    <3> TAKE i \in 1 .. n + 1
    <3>1. CASE i \in 1 .. n
      BY <1>5, <1>7, <1>8, <2>1, <3>1
    <3>2. CASE i \notin 1 .. n
      <4>1. i = k /\ i = n + 1
        BY <1>2, <1>4, <3>2
      <4>2. q[k] = WholePacket(k)'
        BY <1>4, <1>5
      <4> QED BY <1>6, <2>1, <4>1, <4>2
    <3> QED BY <3>1, <3>2
  <2> QED BY <1>5, <2>1, <2>2, SeqEqual
<1>11. Joins(FlattenSeq(p), x, FlattenSeq(q)) /\ EndOf(q, m) = EndOf(p, m)
  <2>1. p \in Seq(Seq(T)) /\ x \in Seq(T)
    BY <1>6, <1>7 DEF S
  <2>2. FlattenSeq(Append(p, x)) = FlattenSeq(p) \o x /\ EndOf(Append(p, x), m) = EndOf(p, m)
    BY <1>9, <2>1, FlattenAppend, EndOfAppended
  <2> QED BY <1>10, <2>2 DEF Joins
<1>12. FlattenSeq(p) \in Seq(T) /\ EndOf(p, m) \in 0 .. Len(FlattenSeq(p))
  <2>1. p \in Seq(Seq(T))
    BY <1>7 DEF S
  <2>2. FlattenSeq(p) \in Seq(T)
    BY <2>1, FlattenType
  <2>3. EndOf(p, m) \in 0 .. Len(FlattenSeq(p))
    BY <1>1, PacketsAre DEF p
  <2> QED BY <2>2, <2>3
<1> DEFINE f == FlattenSeq(p)
<1> DEFINE g == FlattenSeq(q)
<1> DEFINE e == EndOf(p, m)
<1>13. f \in Seq(T) /\ e \in 0 .. Len(f) /\ x \in Seq(T) /\ Joins(f, x, g)
  BY <1>6, <1>11, <1>12 DEF S
<1> HIDE DEF f, g, e
<1>14. Joins(Rest(f, e), x, Rest(g, e))
  BY <1>13, RestGrows
<1>15. Behind(m) = Rest(f, e)
  BY DEF Behind, f, e, p
<1>16. Behind(m)' = Rest(g, e)
  BY <1>11 DEF Behind, g, e, q
<1> QED BY <1>14, <1>15, <1>16 DEF x

\* What the reader has not seen yet.
Stream == inbuf \o ToCome

\* The first m packets have arrived, and what was seen of the next one is followed by its rest.
Arrived(m) == received = [k \in 1 .. m |-> k] /\ Joins(reader.seen, Stream, Behind(m))

\* A receive that threw in the middle of a packet has left the rest of it.
Lost == reader = NoPacket /\ Stream # << >> /\ Stream[1][2] # 1

\* What is still to be read consists of tokens.
LEMMA StreamIs ==
  ASSUME TypesOK
  PROVE  ToCome \in Seq(Tokens) /\ Stream \in Seq(Tokens) /\ inbuf \in Seq(Tokens)
<1> DEFINE T == Tokens
<1> DEFINE C == CallsOf(T)
<1> DEFINE u == Rest(buf, gone)
<1> DEFINE s == Sent(work)
<1>1. net \in Seq(T) /\ inbuf \in Seq(T) /\ buf \in Seq(T) /\ gone \in 0 .. Len(buf) /\ work \in Seq(CallsOf(T))
  BY DEF TypesOK
<1> HIDE DEF T
<1>2. u \in Seq(T)
  BY <1>1, PrefixIs
<1>3. s \in Seq(T)
  BY <1>1, SentJoins
<1> HIDE DEF u, s
<1>4. u \o s \in Seq(T)
  BY <1>2, <1>3, ConcatProperties
<1> DEFINE y == u \o s
<1> HIDE DEF y
<1>5. y \in Seq(T) /\ net \o y \in Seq(T)
  BY <1>1, <1>4, ConcatProperties DEF y
<1> DEFINE z == net \o y
<1> HIDE DEF z
<1>6. z \in Seq(T) /\ inbuf \o z \in Seq(T)
  BY <1>1, <1>5, ConcatProperties DEF z
<1>7. ToCome = z
  BY DEF ToCome, z, y, u, s
<1> QED BY <1>1, <1>6, <1>7 DEF Stream, T

\* What a reader has read of its packet consists of tokens, and there is nothing of it only between packets.
LEMMA SeenIs ==
  ASSUME ReaderIs(reader)
  PROVE  /\ reader.seen \in Seq(Tokens) /\ reader.seen \in Seq(Pairs) /\ Len(reader.seen) \in Nat
         /\ reader.seen = << >> => reader = NoPacket
<1> DEFINE T == Tokens
<1>1. reader.seen \in Seq(T)
  BY DEF ReaderIs, ReaderSet
<1>2. T \subseteq Pairs
  BY DEF Tokens
<1> HIDE DEF T
<1>3. reader.seen \in Seq(Pairs) /\ Len(reader.seen) \in Nat
  BY <1>1, <1>2, LenProperties
<1> QED BY <1>1, <1>3 DEF ReaderIs, T

\* The reader is at l bytes of packet k, the one behind the first m.
AtPacket(m, k, l) ==
  /\ k \in Begun /\ k \in Nat \ {0} /\ k \in Nat /\ IsSum(k, m, 1) /\ l \in Nat /\ PacketLen(k) \in Nat \ {0} /\ l <= PacketLen(k)
  /\ reader.seen = Run(k, 0, l) /\ Good(reader, k, l, shapes[k], mode)
  /\ Joins(Run(k, 0, PacketLen(k)), Behind(k), Behind(m)) /\ Behind(k) \in Seq(Tokens) /\ Behind(m) \in Seq(Tokens)
  /\ \A i \in 1 .. PacketLen(k) : Behind(m)[i] = <<k, i>>
  /\ PacketLen(k) <= Len(Behind(m))

\* When the first m packets have arrived and there is more, the reader is in the packet after them.
LEMMA IsAtPacket ==
  ASSUME StreamInv, NEW m \in 0 .. Len(shapes), Arrived(m), reader.seen # << >> \/ Behind(m) # << >>
  PROVE  \E k, l : AtPacket(m, k, l)
<1>1. TypesOK /\ ReaderIs(reader)
  BY DEF StreamInv, WriterInv
<1> DEFINE s == reader.seen
<1> DEFINE l == Len(s)
<1> DEFINE z == Behind(m)
<1> DEFINE n == Len(shapes)
<1> DEFINE T == Tokens
<1>2. s \in Seq(T) /\ s \in Seq(Pairs) /\ l \in Nat /\ Stream \in Seq(T) /\ Joins(s, Stream, z)
  BY <1>1, SeenIs, StreamIs DEF Arrived
<1>3. n \in Nat /\ Behind(n) = << >> /\ z \in Seq(T)
      /\ \A k \in Begun : Joins(WholePacket(k), Behind(k), Behind(k - 1))
  BY <1>1, PacketsAre
<1>4. \A k \in 0 .. n : Behind(k) \in Seq(T)
  BY <1>1, PacketsAre
<1> HIDE DEF s, z, T
<1>5. Len(z) \in Nat /\ l <= Len(z) /\ (\A i \in 1 .. l : z[i] = s[i]) /\ Len(Stream) \in Nat
  <2>1. Len(Stream) \in Nat /\ z = s \o Stream
    BY <1>2, LenProperties DEF Joins
  <2>2. Len(s \o Stream) = l + Len(Stream)
        /\ \A i \in 1 .. l + Len(Stream) : i <= l => (s \o Stream)[i] = s[i]
    BY <1>2, ConcatProperties
  <2>3. ASSUME NEW i \in 1 .. l PROVE z[i] = s[i]
    <3>1. i \in 1 .. l + Len(Stream) /\ i <= l
      BY <1>2, <2>1
    <3> QED BY <2>1, <2>2, <3>1
  <2> QED BY <1>2, <2>1, <2>2, <2>3
<1>6. m # n
  <2>1. SUFFICES ASSUME m = n PROVE FALSE
    OBVIOUS
  <2>2. z = << >>
    BY <1>3, <2>1 DEF z
  <2>3. Len(z) = 0
    BY <2>2
  <2>4. Len(s) = 0
    BY <1>2, <1>5, <2>3
  <2>5. s = << >>
    BY <1>2, <2>4, EmptySeq
  <2> QED BY <2>2, <2>5 DEF s, z
<1>7. PICK k : k = m + 1
  OBVIOUS
<1>8. k \in Begun /\ k \in Nat \ {0} /\ k \in Nat /\ k - 1 = m /\ IsSum(k, m, 1) /\ k \in 0 .. n
  BY <1>3, <1>6, <1>7 DEF Begun, IsSum
<1> DEFINE L == PacketLen(k)
<1>9. WholePacket(k) = Run(k, 0, L) /\ L \in Nat \ {0} /\ L \in Nat
  BY <1>1, <1>8, WholePacketIs
<1> HIDE DEF L
<1> DEFINE x == Run(k, 0, L)
<1> DEFINE y == Behind(k)
<1>10. x \in Seq(T) /\ Len(x) = L /\ \A i \in 1 .. L : x[i] = <<k, 0 + i>>
  <2>1. WholePacket(k) \in Seq(T)
    BY <1>1, <1>8, WholePacketIs DEF T
  <2>2. 0 \in Nat
    OBVIOUS
  <2>3. Len(x) = L /\ \A i \in 1 .. L : x[i] = <<k, 0 + i>>
    BY <1>8, <1>9, <2>2, RunOfPairs
  <2> QED BY <1>9, <2>1, <2>3
<1>11. Joins(x, y, z) /\ y \in Seq(T)
  <2>1. Joins(WholePacket(k), Behind(k), Behind(k - 1))
    BY <1>3, <1>8
  <2>2. Behind(k) \in Seq(T)
    BY <1>4, <1>8
  <2>3. Behind(k - 1) = Behind(m)
    BY <1>8
  <2> QED BY <1>9, <2>1, <2>2, <2>3 DEF z
<1> HIDE DEF x, y
<1>12. L <= Len(z) /\ \A i \in 1 .. L : z[i] = <<k, i>>
  <2>1. Len(y) \in Nat /\ z = x \o y
    BY <1>11, LenProperties DEF Joins
  <2>2. Len(x \o y) = L + Len(y)
        /\ \A i \in 1 .. L + Len(y) : i <= L => (x \o y)[i] = x[i]
    BY <1>10, <1>11, ConcatProperties
  <2>3. ASSUME NEW i \in 1 .. L PROVE z[i] = <<k, i>>
    <3>1. i \in 1 .. L + Len(y) /\ i <= L /\ 0 + i = i
      BY <1>9, <2>1
    <3> QED BY <1>10, <2>1, <2>2, <3>1
  <2> QED BY <1>9, <2>1, <2>2, <2>3
<1>13. /\ \A q \in 0 .. L : s = Run(k, 0, q) => Good(reader, k, q, shapes[k], mode)
       /\ Len(s) > L => \E i \in 1 .. L : s[i] # <<k, i>>
  BY <1>8 DEF StreamInv, Sees, L, s
<1>14. ~(l > L)
  <2>1. SUFFICES ASSUME l > L PROVE FALSE
    OBVIOUS
  <2>2. PICK i \in 1 .. L : s[i] # <<k, i>>
    BY <1>13, <2>1
  <2>3. i \in 1 .. l
    BY <1>2, <1>9, <2>1
  <2> QED BY <1>5, <1>12, <2>2, <2>3
<1>15. s = Run(k, 0, l)
  <2>1. \A i \in 1 .. l : s[i] = <<k, i>>
    <3> TAKE i \in 1 .. l
    <3>1. i \in 1 .. L
      BY <1>2, <1>9, <1>14
    <3> QED BY <1>5, <1>12, <3>1
  <2> QED BY <1>2, <1>8, <2>1, RunOrNot
<1>16. l \in 0 .. L /\ l <= L
  BY <1>2, <1>9, <1>14
<1>17. Good(reader, k, l, shapes[k], mode)
  BY <1>13, <1>15, <1>16
<1>18. AtPacket(m, k, l)
  BY <1>2, <1>3, <1>8, <1>9, <1>11, <1>12, <1>15, <1>16, <1>17 DEF AtPacket, s, z, x, y, L, T
<1> QED BY <1>18

\* What is behind s and then x is behind both.
LEMMA JoinTwice ==
  ASSUME NEW A, NEW s \in Seq(A), NEW x \in Seq(A), NEW y \in Seq(A), NEW b, NEW z, NEW p, Joins(x, y, b), Joins(s, b, z),
         Joins(s, x, p)
  PROVE  Joins(p, y, z)
<1>1. Reassociates(s, x, y)
  BY Reassociate
<1> QED BY <1>1, Zenon DEF Joins, Reassociates

\* ... and the other way.
LEMMA JoinBehind ==
  ASSUME NEW A, NEW s \in Seq(A), NEW b \in Seq(A), NEW x \in Seq(A), NEW z, NEW c, NEW d, Joins(s, b, z), Joins(b, x, c),
         Joins(z, x, d)
  PROVE  Joins(s, c, d)
<1>1. Reassociates(s, b, x)
  BY Reassociate
<1> QED BY <1>1, Zenon DEF Joins, Reassociates

\* The reader goes on in its packet, or counts it and is at the next.
LEMMA MovesOn ==
  ASSUME StreamInv, shapes' = shapes, mode' = mode,
         NEW m \in 0 .. Len(shapes), Arrived(m), NEW k, NEW l, AtPacket(m, k, l),
         NEW x \in Seq(Tokens), NEW seen, Joins(reader.seen, x, seen), NEW q \in Nat \ {0}, seen = Run(k, 0, q),
         NEW r, ReadOn(r, k, q), Outcome(r, seen), Take(r), Joins(x, Stream', Stream), Stream' \in Seq(Tokens)
  PROVE  \E i \in 0 .. Len(shapes) : Arrived(i)'
<1> DEFINE s == reader.seen
<1> DEFINE T == Tokens
<1> DEFINE z == Behind(m)
<1> DEFINE L == PacketLen(k)
<1>1. TypesOK /\ ReaderIs(reader)
  BY DEF StreamInv, WriterInv
<1>2. s \in Seq(T)
  BY <1>1, SeenIs
<1>3. Joins(s, Stream, z) /\ received = [i \in 1 .. m |-> i]
  BY DEF Arrived
<1>4. Joins(seen, Stream', z)
  <2>1. x \in Seq(T) /\ Stream' \in Seq(T) /\ Joins(x, Stream', Stream) /\ Joins(s, x, seen)
    OBVIOUS
  <2> HIDE DEF s, T, z
  <2> DEFINE y == Stream'
  <2> HIDE DEF y
  <2>2. Joins(x, y, Stream) /\ y \in Seq(T)
    BY <2>1 DEF y
  <2>3. Joins(seen, y, z)
    BY <1>2, <1>3, <2>1, <2>2, JoinTwice
  <2> QED BY <2>3 DEF y
<1>5. \A i : Behind(i)' = Behind(i)
  BY DEF Behind, Packets, Begun, WholePacket
<1>6. /\ k \in Begun /\ k \in Nat \ {0} /\ IsSum(k, m, 1) /\ Joins(Run(k, 0, L), Behind(k), z) /\ Behind(k) \in Seq(T)
  BY DEF AtPacket
<1>7. \/ reader' = r /\ received' = received /\ r.seen = seen
      \/ \E i \in Begun : r = Finished(i) /\ reader' = NoPacket /\ received' = Append(received, i)
  BY <1>1, TakeKeeps
<1>8. CASE reader' = r /\ received' = received /\ r.seen = seen
  <2>1. Arrived(m)'
    BY <1>3, <1>4, <1>5, <1>8 DEF Arrived
  <2> QED BY <2>1
<1>9. CASE \E i \in Begun : r = Finished(i) /\ reader' = NoPacket /\ received' = Append(received, i)
  <2>1. PICK i \in Begun : r = Finished(i) /\ reader' = NoPacket /\ received' = Append(received, i)
    BY <1>9
  <2>2. r.field = 0 /\ r.packet = i
    BY <2>1 DEF Finished, NoPacket
  <2>3. ~Good(r, k, q, shapes[k], mode)
    <3>1. SUFFICES ASSUME Good(r, k, q, shapes[k], mode) PROVE FALSE
      OBVIOUS
    <3>2. \E c : InField(r, k, c, shapes[k])
      BY <3>1 DEF Good
    <3>3. r.field \in 1 .. Len(SizesOf(shapes[k]))
      BY <3>2 DEF InField
    <3> QED BY <2>2, <3>3
  <2>4. q = L /\ r = Finished(k)
    BY <2>3 DEF ReadOn
  <2>5. i = k
    <3>1. r.packet = k
      BY <2>4 DEF Finished, NoPacket
    <3> QED BY <2>2, <3>1
  <2>6. k = m + 1 /\ m \in Nat /\ k \in 0 .. Len(shapes)
    BY <1>6 DEF IsSum, Begun
  <2>7. received' = [j \in 1 .. k |-> j]
    <3>1. [j \in 1 .. m |-> j] \in [1 .. m -> Nat]
      OBVIOUS
    <3> DEFINE f == [j \in 1 .. m |-> j]
    <3> HIDE DEF f
    <3>2. f \in Seq(Nat) /\ Len(f) = m
      BY <2>6, <3>1, FunctionIsSeq DEF f
    <3>3. Append(f, k) \in Seq(Nat) /\ Len(Append(f, k)) = m + 1 /\ Append(f, k)[m + 1] = k
          /\ \A j \in 1 .. m : Append(f, k)[j] = f[j]
      BY <1>6, <3>2, AppendProperties
    <3>4. Append(f, k) = [j \in 1 .. k |-> Append(f, k)[j]]
      <4> DEFINE g == Append(f, k)
      <4>1. g \in Seq(Nat) /\ Len(g) = k
        BY <2>6, <3>3
      <4> HIDE DEF g
      <4>2. g \in [1 .. k -> Nat]
        BY <4>1, LenProperties
      <4>3. g = [j \in 1 .. k |-> g[j]]
        BY <4>2
      <4> QED BY <4>3 DEF g
    <3>5. \A j \in 1 .. k : Append(f, k)[j] = j
      <4> TAKE j \in 1 .. k
      <4>1. CASE j \in 1 .. m
        BY <3>3, <4>1 DEF f
      <4>2. CASE j \notin 1 .. m
        <5>1. j = m + 1
          BY <2>6, <4>2
        <5> QED BY <2>6, <3>3, <5>1
      <4> QED BY <4>1, <4>2
    <3>6. Append(f, k) = [j \in 1 .. k |-> j]
      BY <3>4, <3>5
    <3> QED BY <1>3, <2>1, <2>5, <3>6 DEF f
  <2>8. Stream' = Behind(k)
    <3> DEFINE y == Stream'
    <3> DEFINE b == Behind(k)
    <3>1. Joins(seen, y, z) /\ Joins(seen, b, z) /\ y \in Seq(T) /\ b \in Seq(T)
      BY <1>4, <1>6, <2>4
    <3>2. seen \in Seq(T)
      <4>1. seen = s \o x /\ x \in Seq(T)
        BY DEF Joins
      <4> HIDE DEF s, T
      <4> QED BY <1>2, <4>1, ConcatProperties
    <3> HIDE DEF y, b, z, T
    <3>3. y = b
      BY <3>1, <3>2, SameBehind
    <3> QED BY <3>3 DEF y, b
  <2>9. Joins(<< >>, Stream', Behind(k))
    <3> DEFINE b == Behind(k)
    <3>1. b \in Seq(T)
      BY <1>6
    <3> HIDE DEF b, T
    <3>2. << >> \o b = b
      BY <3>1
    <3> QED BY <2>8, <3>2 DEF Joins, b
  <2>10. reader'.seen = << >>
    BY <2>1 DEF NoPacket
  <2>11. Arrived(k)'
    BY <1>5, <2>7, <2>9, <2>10 DEF Arrived
  <2> QED BY <2>6, <2>11
<1> QED BY <1>7, <1>8, <1>9

\* With nothing thrown, the reader has given up, is in order, or is in front of the rest of
\* a packet, at which it will give up.
InOrder == thrown = {} => reader.broken \/ (\E m \in 0 .. Len(shapes) : Arrived(m)) \/ Lost

\* A read from an opened frame takes no bytes, and leaves the packets in order.
LEMMA ReadFrameInOrder ==
  ASSUME StreamInv, InOrder, ReadFrame
  PROVE  InOrder'
<1>1. /\ UNCHANGED <<mode, shapes, work, buf, gone, thrown, net, inbuf>>
      /\ ~reader.broken /\ FromFrame /\ Take(OutOfFrame(reader))
  BY DEF ReadFrame, sendVars, OutOfFrame, Taken
<1>2. TypesOK /\ ReaderIs(reader)
  BY DEF StreamInv, WriterInv
<1>3. Stream' = Stream /\ Len(shapes') = Len(shapes) /\ thrown' = thrown
  BY <1>1 DEF Stream, ToCome, Rest, Sent, Map, DataOf
<1>4. reader # NoPacket /\ InFrames(reader) /\ reader.mem # << >>
  BY <1>1 DEF FromFrame, NoPacket
<1>5. SUFFICES ASSUME thrown = {} PROVE \E i \in 0 .. Len(shapes) : Arrived(i)'
  BY <1>3 DEF InOrder
<1>6. PICK m \in 0 .. Len(shapes) : Arrived(m)
  BY <1>1, <1>4, <1>5 DEF InOrder, Lost
<1>7. reader.seen # << >>
  BY <1>2, <1>4, SeenIs
<1>8. PICK k, l : AtPacket(m, k, l)
  BY <1>6, <1>7, IsAtPacket
<1>9. k \in Begun /\ k \in Nat \ {0} /\ l \in Nat /\ reader.seen = Run(k, 0, l) /\ Good(reader, k, l, shapes[k], mode)
  BY <1>8 DEF AtPacket
<1>10. l # 0
  <2>1. Run(k, 0, 0) = << >>
    BY DEF Run
  <2> QED BY <1>7, <1>9, <2>1
<1>11. shapes[k] \in Shapes /\ mode \in Settings
  BY <1>2, <1>9, BegunIs DEF TypesOK
<1>12. ReadOn(OutOfFrame(reader), k, l)
  BY <1>4, <1>9, <1>11, GoodReads
<1>13. Outcome(OutOfFrame(reader), reader.seen)
  BY <1>1, <1>2, <1>4, OutOfFrameTypes
<1>14. << >> \in Seq(Tokens) /\ Joins(reader.seen, << >>, reader.seen)
  <2> DEFINE s == reader.seen
  <2> DEFINE T == Tokens
  <2>1. s \in Seq(T)
    BY <1>2, SeenIs
  <2> HIDE DEF s, T
  <2>2. s \o << >> = s /\ << >> \in Seq(T)
    BY <2>1
  <2> QED BY <2>2 DEF Joins, s, T
<1>15. Stream' \in Seq(Tokens) /\ Joins(<< >>, Stream', Stream)
  <2> DEFINE s == Stream
  <2> DEFINE T == Tokens
  <2>1. s \in Seq(T)
    BY <1>2, StreamIs
  <2> HIDE DEF s, T
  <2>2. << >> \o s = s
    BY <2>1
  <2> QED BY <1>3, <2>1, <2>2 DEF Joins, s, T
<1> DEFINE r == OutOfFrame(reader)
<1> DEFINE seen == reader.seen
<1>16. /\ ReadOn(r, k, l) /\ Outcome(r, seen) /\ Take(r) /\ Joins(reader.seen, << >>, seen) /\ seen = Run(k, 0, l)
       /\ l \in Nat \ {0} /\ shapes' = shapes /\ mode' = mode
  BY <1>1, <1>9, <1>10, <1>12, <1>13, <1>14
<1> HIDE DEF r, seen
<1> QED BY <1>6, <1>8, <1>14, <1>15, <1>16, MovesOn

\* A token that is not the first of a packet is not read as a code.
LEMMA NoCode ==
  ASSUME TypesOK, NEW t \in Tokens, t[2] # 1
  PROVE  AsByte(t)[2] # 1
<1> DEFINE e == Encoding[shapes[t[1]]][mode]
<1> DEFINE p == PlainTo(shapes[t[1]], mode)
<1>1. t[1] \in Begun /\ t[2] \in 1 .. Len(e)
  BY DEF Tokens, Begun, PacketLen
<1>2. shapes[t[1]] \in Shapes /\ mode \in Settings
  BY <1>1, BegunIs DEF TypesOK
<1>3. \A i \in 1 .. Len(e) : IF i <= p THEN e[i] = [byte |-> i] ELSE e[i] \in FrameParts
  BY <1>2, LayoutIs DEF Layout
<1>4. Content(t) = e[t[2]]
  BY DEF Content, Owner
<1> HIDE DEF e, p
<1>5. Content(t) = [byte |-> t[2]] \/ Content(t) \in FrameParts
  BY <1>1, <1>3, <1>4
<1>6. CASE Content(t) = [byte |-> t[2]]
  <2>1. Content(t).byte # 1
    BY <1>6
  <2> QED BY <2>1 DEF AsByte
<1>7. CASE Content(t) \in FrameParts
  <2>1. DOMAIN Content(t) # {"byte"}
    BY <1>7 DEF FrameParts
  <2> QED BY <2>1 DEF AsByte
<1> QED BY <1>5, <1>6, <1>7

\* A reading step goes on in the packet that is next, completes it, or finds itself behind a lost one.
LEMMA ReadingInOrder ==
  ASSUME StreamInv, InOrder, Reading
  PROVE  InOrder'
<1>1. TypesOK /\ ReaderIs(reader)
  BY DEF StreamInv, WriterInv
<1>2. ~reader.broken /\ ~FromFrame /\ UNCHANGED <<mode, shapes, work, buf, gone, thrown>>
  BY <1>1, ReadingTakes
<1>3. PICK t : Reads1(t)
  BY <1>1, ReadingTakes
<1> DEFINE T == Tokens
<1> DEFINE w == Len(t)
<1> DEFINE s == reader.seen
<1>4. t \in Seq(T) /\ w \in 1 .. Wanted(reader) /\ Take(Parsed(reader, t)) /\ Joins(t, Held', Held)
      /\ inbuf' \in Seq(T) /\ net' \in Seq(T)
  BY <1>3 DEF Reads1
<1>5. Wanted(reader) \in Nat \ {0}
  BY <1>1, <1>2, WantsMore
<1>6. w \in Nat \ {0} /\ t # << >>
  <2>1. Len(<< >>) = 0
    OBVIOUS
  <2> QED BY <1>4, <1>5, <2>1
<1>7. Joins(t, Stream', Stream) /\ Stream' \in Seq(T) /\ Stream \in Seq(T)
  <2> DEFINE u == Rest(buf, gone) \o Sent(work)
  <2>1. u \in Seq(T)
    <3> DEFINE a == Rest(buf, gone)
    <3> DEFINE b == Sent(work)
    <3>1. buf \in Seq(T) /\ gone \in 0 .. Len(buf) /\ work \in Seq(CallsOf(T))
      BY <1>1 DEF TypesOK
    <3> HIDE DEF T
    <3>2. a \in Seq(T) /\ b \in Seq(T)
      BY <3>1, PrefixIs, SentJoins
    <3> HIDE DEF a, b
    <3> QED BY <3>2, ConcatProperties DEF a, b
  <2>2. inbuf \in Seq(T) /\ net \in Seq(T)
    BY <1>1 DEF TypesOK
  <2>3. Stream = inbuf \o (net \o u)
    BY DEF Stream, ToCome
  <2>4. Stream' = inbuf' \o (net' \o u)
    BY <1>2 DEF Stream, ToCome, Rest, Sent, Map, DataOf
  <2> HIDE DEF u, T
  <2> DEFINE i2 == inbuf'
  <2> DEFINE n2 == net'
  <2>5. i2 \in Seq(T) /\ n2 \in Seq(T) /\ Joins(t, i2 \o n2, inbuf \o net)
    BY <1>4 DEF Held
  <2> HIDE DEF i2, n2
  <2>6. Joins(i2, n2 \o u, (i2 \o n2) \o u) /\ Joins(inbuf, net \o u, (inbuf \o net) \o u)
    <3>1. Reassociates(i2, n2, u)
      BY <2>1, <2>5, Reassociate
    <3>2. Reassociates(inbuf, net, u)
      BY <2>1, <2>2, Reassociate
    <3> QED BY <3>1, <3>2, Zenon DEF Joins, Reassociates
  <2>7. Stream = (inbuf \o net) \o u /\ Stream' = (i2 \o n2) \o u
    BY <2>3, <2>4, <2>6 DEF Joins, i2, n2
  <2> DEFINE h == inbuf \o net
  <2> DEFINE h2 == i2 \o n2
  <2>8. h2 \in Seq(T) /\ h \in Seq(T) /\ Joins(t, h2, h)
    <3>1. h2 \in Seq(T) /\ h \in Seq(T)
      BY <2>2, <2>5, ConcatProperties
    <3> QED BY <2>5, <3>1
  <2> HIDE DEF h, h2
  <2>9. Joins(t, h2 \o u, h \o u) /\ h2 \o u \in Seq(T) /\ h \o u \in Seq(T)
    <3> DEFINE c == h2 \o u
    <3> DEFINE d == h \o u
    <3>1. Joins(h2, u, c) /\ Joins(h, u, d)
      BY DEF Joins
    <3>2. c \in Seq(T) /\ d \in Seq(T)
      BY <2>1, <2>8, ConcatProperties
    <3>3. t \in Seq(T)
      BY <1>4
    <3> HIDE DEF c, d
    <3>4. Joins(t, c, d)
      BY <2>1, <2>8, <3>1, <3>3, JoinBehind
    <3> QED BY <3>2, <3>4 DEF c, d
  <2>10. Stream = h \o u /\ Stream' = h2 \o u
    BY <2>7 DEF h, h2
  <2> QED BY <2>9, <2>10
<1>8. /\ Len(Stream) \in Nat /\ w <= Len(Stream) /\ Stream # << >>
      /\ \A i \in 1 .. w : t[i] = Stream[i]
  <2> DEFINE y == Stream'
  <2>1. y \in Seq(T) /\ Joins(t, y, Stream)
    BY <1>7
  <2> HIDE DEF T, y
  <2>2. t \o y \in Seq(T) /\ Len(t \o y) = w + Len(y) /\ Len(y) \in Nat
        /\ \A i \in 1 .. w + Len(y) : i <= w => (t \o y)[i] = t[i]
    BY <1>4, <2>1, ConcatProperties, LenProperties
  <2>3. ASSUME NEW i \in 1 .. w PROVE t[i] = Stream[i]
    <3>1. i \in 1 .. w + Len(y) /\ i <= w
      BY <1>6, <2>2
    <3> QED BY <2>1, <2>2, <3>1 DEF Joins
  <2>4. Len(Stream) = w + Len(y)
    BY <2>1, <2>2 DEF Joins
  <2>5. Len(<< >>) = 0
    OBVIOUS
  <2> QED BY <1>6, <2>2, <2>3, <2>4, <2>5
<1>9. SUFFICES ASSUME thrown = {} PROVE reader'.broken \/ \E i \in 0 .. Len(shapes) : Arrived(i)'
  BY <1>2 DEF InOrder
<1>10. CASE Lost
  <2>1. reader = NoPacket /\ t[1] = Stream[1] /\ Stream[1][2] # 1 /\ 1 \in 1 .. w
    BY <1>6, <1>8, <1>10 DEF Lost
  <2>2. AsByte(t[1])[2] # 1
    <3>1. t[1] \in Tokens
      <4> HIDE DEF T
      <4>1. t[1] \in T
        BY <1>4, <2>1, ElementOfSeq
      <4> QED BY <4>1 DEF T
    <3> QED BY <1>1, <2>1, <3>1, NoCode
  <2> DEFINE r1 == [NoPacket EXCEPT !.seen = NoPacket.seen \o t]
  <2>3. r1.packet = 0 /\ r1.field = 1
    BY DEF NoPacket
  <2>4. ~InFrames(r1)
    BY <2>3 DEF InFrames
  <2>5. Parsed(reader, t) = Broken(r1)
    <3>1. Parsed(NoPacket, t) =
            IF InFrames(r1) THEN GotFrame(r1, r1.raw \o t)
            ELSE IF r1.packet = 0 /\ AsByte(t[1])[2] # 1 THEN Broken(r1)
            ELSE GotField(r1, r1.got \o Map(AsByte, t))
      BY DEF Parsed
    <3> HIDE DEF r1
    <3> QED BY <2>1, <2>2, <2>3, <2>4, <3>1
  <2>6. Broken(r1).field = 1 /\ Broken(r1).broken
    BY DEF Broken, NoPacket
  <2>7. reader' = Broken(r1)
    BY <1>4, <2>5, <2>6 DEF Take
  <2> QED BY <2>6, <2>7
<1>11. CASE \E m \in 0 .. Len(shapes) : Arrived(m)
  <2>1. PICK m \in 0 .. Len(shapes) : Arrived(m)
    BY <1>11
  <2>2. s \in Seq(T) /\ s \in Seq(Pairs) /\ Len(s) \in Nat
    BY <1>1, SeenIs
  <2> DEFINE z == Behind(m)
  <2>3. Joins(s, Stream, z)
    BY <2>1 DEF Arrived
  <2> HIDE DEF s, T, z
  <2>4. /\ Len(z) = Len(s) + Len(Stream) /\ z # << >>
        /\ \A i \in 1 .. w : z[Len(s) + i] = t[i]
    <3>1. /\ Len(s \o Stream) = Len(s) + Len(Stream)
      BY <1>7, <2>2, ConcatProperties
    <3>2. ASSUME NEW i \in 1 .. w PROVE z[Len(s) + i] = t[i]
      <4> DEFINE j == Len(s) + i
      <4>1. j \in 1 .. Len(s) + Len(Stream) /\ ~(j <= Len(s)) /\ j - Len(s) = i
        BY <1>6, <1>8, <2>2
      <4> HIDE DEF j
      <4>2. (s \o Stream)[j] = Stream[j - Len(s)]
        BY <1>7, <2>2, <4>1, ConcatProperties
      <4> QED BY <1>8, <2>3, <4>1, <4>2 DEF j, Joins
    <3>3. Len(<< >>) = 0
      OBVIOUS
    <3> QED BY <1>6, <1>8, <2>2, <2>3, <3>1, <3>2, <3>3 DEF Joins
  <2>5. PICK k, l : AtPacket(m, k, l)
    BY <2>1, <2>4, IsAtPacket DEF z
  <2> DEFINE L == PacketLen(k)
  <2>6. /\ k \in Begun /\ k \in Nat \ {0} /\ k \in Nat /\ l \in Nat /\ L \in Nat \ {0} /\ s = Run(k, 0, l)
        /\ Good(reader, k, l, shapes[k], mode) /\ \A i \in 1 .. L : z[i] = <<k, i>>
    BY <2>5 DEF AtPacket, s, z
  <2>7. shapes[k] \in Shapes /\ mode \in Settings
    BY <1>1, <2>6, BegunIs DEF TypesOK
  <2>8. /\ l + Wanted(reader) <= L
        /\ \A v \in 1 .. Wanted(reader) : ReadOn(Parsed(reader, Run(k, l, v)), k, l + v)
    <3>1. ~(InFrames(reader) /\ reader.mem # << >>)
      BY <1>2 DEF FromFrame
    <3> QED BY <2>6, <2>7, <3>1, GoodReads
  <2> HIDE DEF L
  <2> DEFINE v == Wanted(reader)
  <2>9. v \in Nat \ {0} /\ w \in 1 .. v /\ l + v <= L
    BY <1>4, <1>5, <2>8
  <2> HIDE DEF v
  <2> DEFINE q == l + w
  <2>10. q \in Nat \ {0} /\ q <= L /\ Len(s) = l /\ IsSum(l, 0, l) /\ IsSum(q, l, w) /\ 0 \in Nat
    <3>1. Len(Run(k, 0, l)) = l
      <4>1. 0 \in Nat
        OBVIOUS
      <4> QED BY <2>6, <4>1, RunOfPairs
    <3>2. q \in Nat \ {0} /\ q <= L
      BY <1>6, <2>6, <2>9
    <3> QED BY <2>6, <3>1, <3>2 DEF IsSum
  <2>11. t = Run(k, l, w)
    <3>1. t \in Seq(Pairs)
      <4>1. T \subseteq Pairs
        BY DEF T, Tokens
      <4> QED BY <1>4, <4>1
    <3>2. w \in Nat
      BY <1>6
    <3> DEFINE y == Run(k, l, w)
    <3>3. y \in Seq(Pairs) /\ Len(y) = w /\ \A i \in 1 .. w : y[i] = <<k, l + i>>
      BY <2>6, <3>2, RunOfPairs DEF Pairs
    <3> HIDE DEF y
    <3>4. \A i \in 1 .. w : t[i] = y[i]
      <4> TAKE i \in 1 .. w
      <4>1. l + i \in 1 .. L /\ Len(s) + i = l + i
        <5> DEFINE c == w
        <5>1. c \in Nat /\ l \in Nat /\ L \in Nat /\ l + c <= L /\ i \in 1 .. c
          BY <2>6, <2>10, <3>2
        <5> HIDE DEF c
        <5>2. l + i \in 1 .. L
          BY <5>1
        <5> QED BY <2>10, <5>2
      <4>2. z[l + i] = <<k, l + i>>
        BY <2>6, <4>1
      <4> QED BY <2>4, <3>3, <4>1, <4>2
    <3>5. t = y
      BY <3>1, <3>3, <3>4, SeqEqual
    <3> QED BY <3>5 DEF y
  <2> DEFINE r == Parsed(reader, t)
  <2> DEFINE seen == Run(k, 0, q)
  <2>12. ReadOn(r, k, q)
    <3>1. w \in 1 .. Wanted(reader)
      BY <1>4
    <3>2. ReadOn(Parsed(reader, Run(k, l, w)), k, l + w)
      BY <2>8, <3>1
    <3> QED BY <2>11, <3>2
  <2>13. Joins(s, t, seen)
    <3>1. w \in Nat
      BY <1>6
    <3> HIDE DEF q, w
    <3>2. Joins(Run(k, 0, l), Run(k, l, w), Run(k, 0, q))
      BY <2>6, <2>10, <3>1, RunsJoin
    <3> QED BY <2>6, <2>11, <3>2 DEF w
  <2>14. Outcome(r, seen)
    <3>1. w >= 1
      BY <1>6
    <3>2. Outcome(r, s \o t)
      BY <1>1, <1>2, <1>4, <3>1, ParsedTypes DEF T, s
    <3> QED BY <2>13, <3>2 DEF Joins
  <2>15. /\ Take(r) /\ t \in Seq(Tokens) /\ Stream' \in Seq(Tokens) /\ Joins(t, Stream', Stream)
         /\ shapes' = shapes /\ mode' = mode /\ Joins(reader.seen, t, seen) /\ seen = Run(k, 0, q)
    BY <1>2, <1>4, <1>7, <2>13 DEF T, s
  <2> HIDE DEF r, seen, q, w
  <2>16. \E i \in 0 .. Len(shapes) : Arrived(i)'
    BY <2>1, <2>5, <2>10, <2>12, <2>14, <2>15, MovesOn
  <2> QED BY <2>16
<1> QED BY <1>2, <1>9, <1>10, <1>11 DEF InOrder

\* A receive that throws leaves the reader between packets, or the rest of a packet behind.
LEMMA ReceiveThrowsInOrder ==
  ASSUME StreamInv, InOrder, ReceiveThrows
  PROVE  InOrder'
<1>1. /\ UNCHANGED <<mode, shapes, work, buf, gone, thrown, net, inbuf, received>>
      /\ ~reader.broken /\ ~FromFrame /\ reader' = NoPacket
  BY DEF ReceiveThrows, sendVars, Reads
<1>2. TypesOK /\ ReaderIs(reader)
  BY DEF StreamInv, WriterInv
<1>3. Stream' = Stream /\ Len(shapes') = Len(shapes) /\ thrown' = thrown
  BY <1>1 DEF Stream, ToCome, Rest, Sent, Map, DataOf
<1>4. SUFFICES ASSUME thrown = {} PROVE Lost' \/ \E i \in 0 .. Len(shapes) : Arrived(i)'
  BY <1>3 DEF InOrder
<1>5. CASE Lost
  BY <1>1, <1>3, <1>5 DEF Lost
<1>6. CASE \E m \in 0 .. Len(shapes) : Arrived(m)
  <2>1. PICK m \in 0 .. Len(shapes) : Arrived(m)
    BY <1>6
  <2>2. CASE reader.seen = << >>
    <3>1. reader' = reader
      BY <1>1, <1>2, <2>2, SeenIs
    <3>2. Behind(m)' = Behind(m)
      BY <1>1 DEF Behind, Packets, Begun, WholePacket
    <3>3. Arrived(m)'
      BY <1>1, <1>3, <2>1, <3>1, <3>2 DEF Arrived
    <3> QED BY <3>3
  <2>3. CASE reader.seen # << >>
    <3> DEFINE s == reader.seen
    <3> DEFINE z == Behind(m)
    <3> DEFINE T == Tokens
    <3>1. PICK k, l : AtPacket(m, k, l)
      BY <2>1, <2>3, IsAtPacket
    <3> DEFINE L == PacketLen(k)
    <3>2. /\ k \in Begun /\ k \in Nat \ {0} /\ k \in Nat /\ l \in Nat /\ L \in Nat \ {0} /\ s = Run(k, 0, l)
          /\ Good(reader, k, l, shapes[k], mode) /\ (\A i \in 1 .. L : z[i] = <<k, i>>) /\ L <= Len(z)
      BY <3>1 DEF AtPacket
    <3>3. shapes[k] \in Shapes /\ mode \in Settings
      BY <1>2, <3>2, BegunIs DEF TypesOK
    <3>4. Wanted(reader) \in Nat \ {0} /\ l + Wanted(reader) <= L
      <4>1. ~(InFrames(reader) /\ reader.mem # << >>)
        BY <1>1 DEF FromFrame
      <4> QED BY <3>2, <3>3, <4>1, GoodReads
    <3> HIDE DEF L
    <3>5. l < L
      BY <3>2, <3>4
    <3>6. l # 0 /\ Len(s) = l
      <4>1. Run(k, 0, 0) = << >>
        BY DEF Run
      <4>2. Len(Run(k, 0, l)) = l
        <5>1. 0 \in Nat
          OBVIOUS
        <5> QED BY <3>2, <5>1, RunOfPairs
      <4> QED BY <2>3, <3>2, <4>1, <4>2
    <3>7. s \in Seq(T) /\ Stream \in Seq(T) /\ Joins(s, Stream, z) /\ Len(Stream) \in Nat
      <4>1. s \in Seq(T) /\ Stream \in Seq(T)
        BY <1>2, SeenIs, StreamIs
      <4> HIDE DEF T
      <4> QED BY <2>1, <4>1, LenProperties DEF Arrived
    <3> HIDE DEF s, z, T
    <3> DEFINE j == l + 1
    <3>8. Len(s \o Stream) = l + Len(Stream) /\ \A i \in 1 .. l + Len(Stream) : ~(i <= l) => (s \o Stream)[i] = Stream[i - l]
      BY <3>6, <3>7, ConcatProperties
    <3>9. Len(z) = l + Len(Stream) /\ j \in 1 .. l + Len(Stream) /\ ~(j <= l) /\ j - l = 1 /\ j \in 1 .. L
      <4>1. Len(z) = l + Len(Stream)
        BY <3>7, <3>8 DEF Joins
      <4> QED BY <3>2, <3>5, <3>7, <4>1
    <3> HIDE DEF j
    <3>10. Stream[1] = z[j]
      BY <3>7, <3>8, <3>9 DEF Joins
    <3>11. Stream[1] = <<k, j>>
      BY <3>2, <3>9, <3>10
    <3>12. j # 1 /\ Stream # << >>
      <4>1. Len(<< >>) = 0
        OBVIOUS
      <4> QED BY <3>2, <3>5, <3>6, <3>9, <4>1 DEF j
    <3> QED BY <1>1, <1>3, <3>11, <3>12 DEF Lost
  <2> QED BY <2>2, <2>3
<1> QED BY <1>1, <1>4, <1>5, <1>6 DEF InOrder

\* A packet that is begun comes behind all others.
LEMMA BeginInOrder ==
  ASSUME StreamInv, InOrder, SendPacket
  PROVE  InOrder'
<1>1. TypesOK /\ WriterInv /\ ReaderIs(reader)
  BY DEF StreamInv, WriterInv
<1>2. reader' = reader /\ inbuf' = inbuf /\ received' = received /\ thrown' = thrown
  BY DEF SendPacket, readVars
<1>3. SUFFICES ASSUME thrown = {}, ~reader.broken PROVE Lost' \/ \E i \in 0 .. Len(shapes') : Arrived(i)'
  BY <1>2 DEF InOrder
<1> DEFINE n == Len(shapes)
<1>4. PICK k : k = n + 1
  OBVIOUS
<1>5. IsSum(k, Len(shapes), 1)
  BY <1>4 DEF IsSum
<1>6. /\ WriterInv' /\ n \in Nat /\ Len(shapes)' = n + 1 /\ buf = << >>
      /\ \A t \in Tokens : t \in Tokens'
      /\ Joins(ToCome, Run(k, 0, PacketLen(k)'), ToCome')
  BY <1>1, <1>3, <1>5, SendPacketAdds
<1> DEFINE x == Run(k, 0, PacketLen(k)')
<1> DEFINE T == Tokens'
<1> DEFINE s == reader.seen
<1> DEFINE c == ToCome
<1> DEFINE d == ToCome'
<1>7. x \in Seq(T)
  <2>1. TypesOK'
    BY <1>6 DEF WriterInv
  <2>2. k \in Begun'
    BY <1>4, <1>6 DEF Begun
  <2>3. \A i \in Begun' : WholePacket(i)' = Run(i, 0, PacketLen(i)') /\ WholePacket(i)' \in Seq(Tokens')
    BY <2>1, PacketsAreNext
  <2> QED BY <2>2, <2>3
<1>8. inbuf \in Seq(T) /\ s \in Seq(T) /\ c \in Seq(T) /\ Stream \in Seq(T)
  <2> DEFINE U == Tokens
  <2>1. inbuf \in Seq(U) /\ s \in Seq(U) /\ c \in Seq(U) /\ Stream \in Seq(U)
    BY <1>1, StreamIs, SeenIs
  <2>2. \A t \in U : t \in T
    BY <1>6
  <2> HIDE DEF U, T, s, c
  <2>3. \A y \in Seq(U) : y \in Seq(T)
    BY <2>2
  <2> QED BY <2>1, <2>3
<1>9. Joins(c, x, d)
  BY <1>6
<1>10. Joins(inbuf, c, Stream) /\ Joins(inbuf, d, Stream')
  BY <1>2 DEF Joins, Stream
<1> HIDE DEF x, T, c, d
<1> DEFINE y == Stream
<1> DEFINE z == Stream'
<1> HIDE DEF y, z
<1>11. Joins(inbuf, c, y) /\ Joins(inbuf, d, z) /\ y \in Seq(T)
  BY <1>8, <1>10 DEF y, z
<1>12. Joins(y, x, z)
  <2> DEFINE v == y \o x
  <2>1. Joins(y, x, v)
    BY DEF Joins
  <2> HIDE DEF v
  <2>2. Joins(inbuf, d, v)
    BY <1>7, <1>8, <1>9, <1>11, <2>1, JoinBehind
  <2> QED BY <1>11, <2>1, <2>2 DEF Joins
<1>13. CASE Lost
  <2>1. y # << >> /\ reader = NoPacket /\ y[1][2] # 1
    BY <1>13 DEF Lost, y
  <2>2. Len(y) \in Nat /\ Len(x) \in Nat /\ Len(y) # 0
    BY <1>7, <1>11, <2>1, LenProperties, EmptySeq
  <2>3. Len(y \o x) = Len(y) + Len(x) /\ \A i \in 1 .. Len(y) + Len(x) : i <= Len(y) => (y \o x)[i] = y[i]
    BY <1>7, <1>11, ConcatProperties
  <2>4. 1 \in 1 .. Len(y) + Len(x) /\ 1 <= Len(y) /\ Len(y) + Len(x) # 0
    BY <2>2
  <2>5. z[1] = y[1] /\ Len(z) # 0
    BY <1>12, <2>3, <2>4 DEF Joins
  <2>6. z # << >>
    <3>1. Len(<< >>) = 0
      OBVIOUS
    <3> QED BY <2>5, <3>1
  <2> QED BY <1>2, <2>1, <2>5, <2>6 DEF Lost, z
<1>14. CASE \E m \in 0 .. n : Arrived(m)
  <2>1. PICK m \in 0 .. n : Arrived(m)
    BY <1>14
  <2> DEFINE b == Behind(m)
  <2> DEFINE g == Behind(m)'
  <2>2. Joins(s, y, b) /\ received = [i \in 1 .. m |-> i]
    BY <2>1 DEF Arrived, y
  <2>3. Joins(b, x, g)
    BY <1>5, <2>1, BehindGrows DEF x
  <2> HIDE DEF b, g, s
  <2>4. Joins(s, z, g)
    BY <1>7, <1>8, <1>11, <1>12, <2>2, <2>3, JoinBehind
  <2>5. Arrived(m)'
    BY <1>2, <2>2, <2>4 DEF Arrived, s, z, g
  <2>6. m \in 0 .. n + 1
    BY <1>6
  <2> QED BY <1>6, <2>5, <2>6
<1> QED BY <1>3, <1>13, <1>14 DEF InOrder

\* The other steps of the writer move bytes and change no order; a send that throws is excepted.
LEMMA OthersInOrder ==
  ASSUME StreamInv, InOrder, Writes \/ SendThrows \/ UNCHANGED byteVars
  PROVE  InOrder'
<1>1. TypesOK /\ WriterInv /\ ReaderIs(reader)
  BY DEF StreamInv, WriterInv
<1>2. CASE SendThrows
  BY <1>1, <1>2, SendThrowsKeeps DEF InOrder
<1>3. CASE Writes \/ UNCHANGED byteVars
  <2>1. UNCHANGED <<shapes, mode, thrown, inbuf, reader, received>>
    BY <1>3 DEF Writes, WriteToBuffer, SendBuffer, FlushNothing, SendDirect, readVars, byteVars, sendVars
  <2>2. ToCome' = ToCome
    <3>1. CASE Writes
      BY <1>1, <3>1, WritesMoveBytes
    <3>2. CASE UNCHANGED byteVars
      BY <3>2 DEF byteVars, sendVars, ToCome, Rest, Sent, Map, DataOf
    <3> QED BY <1>3, <3>1, <3>2
  <2>3. Stream' = Stream
    BY <2>1, <2>2 DEF Stream
  <2>4. \A m : Behind(m)' = Behind(m)
    BY <2>1 DEF Behind, Packets, Begun, WholePacket
  <2>5. Lost => Lost'
    BY <2>1, <2>3 DEF Lost
  <2>6. \A m : Arrived(m) => Arrived(m)'
    BY <2>1, <2>3, <2>4 DEF Arrived
  <2> QED BY <2>1, <2>5, <2>6 DEF InOrder
<1> QED BY <1>2, <1>3

\* Nothing was sent, and nothing is missing.
LEMMA BeginsInOrder ==
  Init => InOrder
<1> SUFFICES ASSUME Init PROVE InOrder
  OBVIOUS
<1>1. StreamInv /\ TypesOK
  BY StreamBegins DEF StreamInv, WriterInv
<1>2. Len(shapes) = 0 /\ received = << >> /\ reader.seen = << >>
      /\ work = << >> /\ buf = << >> /\ gone = 0 /\ net = << >> /\ inbuf = << >>
  BY DEF Init, NoPacket
<1>3. Behind(0) = << >>
  BY <1>1, <1>2, PacketsAre
<1>4. Stream = << >>
  <2>1. Rest(buf, gone) = << >>
    BY <1>2 DEF Rest
  <2>2. Sent(work) = << >>
    BY <1>2, FlattenEmpty DEF Sent, Map
  <2>3. << >> \o << >> = << >>
    OBVIOUS
  <2> QED BY <1>2, <2>1, <2>2, <2>3 DEF Stream, ToCome
<1>5. received = [k \in 1 .. 0 |-> k]
  <2>1. 1 .. 0 = {}
    OBVIOUS
  <2> QED BY <1>2, <2>1
<1>6. Arrived(0)
  <2>1. << >> \o << >> = << >>
    OBVIOUS
  <2> QED BY <1>2, <1>3, <1>4, <1>5, <2>1 DEF Arrived, Joins
<1>7. 0 \in 0 .. Len(shapes)
  BY <1>2
<1> QED BY <1>6, <1>7 DEF InOrder

\* When no send threw, what has arrived is what was sent (BufferedInput and CompressedInput
\* read what BufferedOutput and CompressedOutput wrote), for all packets, buffers and chunks.
THEOREM WhatIsSentArrives ==
  TransferSpec => []AllArrives
<1>1. TransferInit => InOrder
  BY BeginsInOrder DEF TransferInit
<1>2. StreamInv /\ InOrder /\ [TransferNext]_<<byteVars, queues>> => InOrder'
  <2> SUFFICES ASSUME StreamInv, InOrder, [TransferNext]_<<byteVars, queues>> PROVE InOrder'
    OBVIOUS
  <2>1. Next \/ UNCHANGED byteVars
    BY DEF TransferNext
  <2> QED BY <2>1, BeginInOrder, OthersInOrder, ReadFrameInOrder, ReadingInOrder, ReceiveThrowsInOrder DEF Next, Reading
<1>3. StreamInv /\ InOrder => AllArrives
  <2> SUFFICES ASSUME StreamInv, InOrder, Idle, thrown = {}, buf = << >>, net = << >>, inbuf = << >>, ~FromFrame,
                      ~reader.broken
               PROVE  received = [k \in DOMAIN shapes |-> k]
    BY DEF AllArrives
  <2>1. TypesOK /\ ReaderIs(reader)
    BY DEF StreamInv, WriterInv
  <2>2. Stream = << >>
    <3>1. Rest(buf, gone) = << >>
      <4>1. Len(buf) = 0 /\ gone \in 0 .. Len(buf)
        BY <2>1 DEF TypesOK
      <4>2. gone = 0
        BY <4>1
      <4> QED BY <4>2 DEF Rest
    <3>2. Sent(work) = << >>
      BY FlattenEmpty DEF Sent, Map, Idle
    <3>3. << >> \o << >> = << >>
      OBVIOUS
    <3> QED BY <3>1, <3>2, <3>3 DEF Stream, ToCome
  <2>3. PICK m \in 0 .. Len(shapes) : Arrived(m)
    BY <2>2 DEF InOrder, Lost
  <2> DEFINE s == reader.seen
  <2> DEFINE z == Behind(m)
  <2>4. z = s
    <3> DEFINE T == Tokens
    <3>1. s \in Seq(T) /\ Joins(s, Stream, z)
      BY <2>1, <2>3, SeenIs DEF Arrived
    <3> HIDE DEF s, z, T
    <3>2. s \o << >> = s
      BY <3>1
    <3> QED BY <2>2, <3>1, <3>2 DEF Joins
  <2>5. CASE s # << >>
    <3>1. PICK k, l : AtPacket(m, k, l)
      BY <2>3, <2>5, IsAtPacket
    <3> DEFINE L == PacketLen(k)
    <3>2. /\ k \in Begun /\ k \in Nat \ {0} /\ k \in Nat /\ l \in Nat /\ L \in Nat \ {0} /\ s = Run(k, 0, l)
          /\ Good(reader, k, l, shapes[k], mode) /\ L <= Len(z)
      BY <3>1 DEF AtPacket
    <3>3. shapes[k] \in Shapes /\ mode \in Settings
      BY <2>1, <3>2, BegunIs DEF TypesOK
    <3>4. Wanted(reader) \in Nat \ {0} /\ l + Wanted(reader) <= L
      <4>1. ~(InFrames(reader) /\ reader.mem # << >>)
        BY DEF FromFrame
      <4> QED BY <3>2, <3>3, <4>1, GoodReads
    <3> HIDE DEF L
    <3>5. Len(Run(k, 0, l)) = l
      <4>1. 0 \in Nat
        OBVIOUS
      <4> QED BY <3>2, <4>1, RunOfPairs
    <3>6. Len(z) = l
      BY <2>4, <3>2, <3>5
    <3> QED BY <3>2, <3>4, <3>6
  <2>6. CASE s = << >>
    <3>1. m = Len(shapes)
      <4>1. SUFFICES ASSUME m # Len(shapes) PROVE FALSE
        OBVIOUS
      <4>2. /\ Len(shapes) \in Nat
            /\ \A i \in Begun : Joins(WholePacket(i), Behind(i), Behind(i - 1))
            /\ \A i \in 0 .. Len(shapes) : Behind(i) \in Seq(Tokens)
        BY <2>1, PacketsAre
      <4>3. PICK k : k = m + 1
        OBVIOUS
      <4>4. k \in Begun /\ k - 1 = m /\ k \in 0 .. Len(shapes)
        BY <4>1, <4>2, <4>3 DEF Begun
      <4> DEFINE x == WholePacket(k)
      <4> DEFINE y == Behind(k)
      <4> DEFINE T == Tokens
      <4>5. x \in Seq(T) /\ Len(x) \in Nat \ {0}
        BY <2>1, <4>4, WholePacketIs
      <4>6. y \in Seq(T) /\ Joins(x, y, Behind(k - 1))
        BY <4>2, <4>4
      <4>7. z = Behind(k - 1)
        BY <4>4
      <4> HIDE DEF x, y, T, z, s
      <4>8. Len(x \o y) = Len(x) + Len(y) /\ Len(y) \in Nat
        BY <4>5, <4>6, ConcatProperties, LenProperties
      <4>9. Len(z) # 0
        BY <4>5, <4>6, <4>7, <4>8 DEF Joins
      <4>10. Len(<< >>) = 0
        OBVIOUS
      <4> QED BY <2>4, <2>6, <4>9, <4>10
    <3>2. DOMAIN shapes = 1 .. Len(shapes)
      BY <2>1, LenProperties DEF TypesOK
    <3> QED BY <2>3, <3>1, <3>2 DEF Arrived
  <2> QED BY <2>5, <2>6
<1> QED BY <1>1, <1>2, <1>3, StreamAlways, PTL DEF TransferSpec

=============================================================================
