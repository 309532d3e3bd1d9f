---------------------------- MODULE PacketTransfer ----------------------------
(***************************************************************************)
(* What ByteStreams makes of packets, and that it implements the sends and *)
(* the receives of Wire: the queues of Wire are what the bytes that have   *)
(* not been read yet decode to.                                            *)
(***************************************************************************)
EXTENDS ByteStreams

VARIABLES
  c2s,   \* Wire's queues, history: what the bytes that are on their way decode to
  held,
  s2c

queues == <<c2s, held, s2c>>

WholePacket(k) == [n \in DOMAIN Encoding[shapes[k]][mode] |-> <<k, n>>]

(* A stream of tokens as packets: a new one begins at the first token of   *)
(* each, and behind the last.  What is not all the tokens of one packet is  *)
(* a part of one.                                                           *)
Begins(s, i) ==
  \/ i = 1
  \/ s[i][2] = 1
  \/ s[i - 1][2] = Len(Encoding[shapes[Owner(s[i - 1])]][mode])

\* Where the packets of a stream end.
Ends(s) == {i \in DOMAIN s : i = Len(s) \/ Begins(s, i + 1)}

Nth(ends, n) == CHOOSE i \in ends : Cardinality({j \in ends : j <= i}) = n

Part(s, ends, n) == SubSeq(s, IF n = 1 THEN 1 ELSE Nth(ends, n - 1) + 1, Nth(ends, n))

IsWhole(tokens) == tokens = WholePacket(Owner(tokens[1]))

Packet(kind, q) == [kind |-> kind, q |-> q]

\* The packets of a stream, up to the first that cannot be decoded.
Decoded(s, ends, whole, part) ==
  LET n == Cardinality(ends)
      bad == {i \in 1 .. n : ~IsWhole(Part(s, ends, i))}
      to == IF bad = {} THEN n ELSE Min(bad)
  IN [i \in 1 .. to |-> Packet(IF i \in bad THEN part ELSE whole, Owner(Part(s, ends, i)[1]))]

OnTheWay == reader.seen \o inbuf \o net

Unsent == SubSeq(buf, gone + 1, Len(buf))

\* The packet being written is no packet of the queue before its last token is sent.
Settled ==
  LET s == OnTheWay \o Unsent IN
  IF Idle \/ (Unsent = << >> /\ \E i \in DOMAIN s : SubSeq(s, i, Len(s)) = WholePacket(Len(shapes)))
  THEN s ELSE SelectSeq(s, LAMBDA t : Owner(t) # Len(shapes))

\* A packet to the client counts when it is begun: the server's sends return.
Coming == OnTheWay \o Unsent \o FlattenSeq(Map(DataOf, work))

\* A packet is held until its last token is sent, a torn one until its first is.
ToServer(s, ends) ==
  /\ c2s' = Decoded(s, ends, "Block", "Torn")'
  /\ held' = Cardinality({n \in DOMAIN c2s' :
       LET end == Nth(ends, n)
           begin == end - Len(Part(s, ends, n)) + 1
       IN Len(OnTheWay') < IF c2s'[n].kind = "Torn" THEN begin ELSE end})
  /\ s2c' = << >>

ToClient(s, ends) ==
  /\ s2c' = Decoded(s, ends, "Data", "Malformed")'
  /\ c2s' = << >> /\ held' = 0

\* s and its ends are bound for TLC to evaluate them once a step.
QueuesFollow ==
  \/ /\ direction = "toServer"
     /\ \E s \in {Settled'} : \E ends \in {Ends(s)'} : ToServer(s, ends)
  \/ /\ direction = "toClient"
     /\ \E s \in {Coming'} : \E ends \in {Ends(s)'} : ToClient(s, ends)

TransferInit == Init /\ c2s = << >> /\ held = 0 /\ s2c = << >>

TransferNext == Next /\ QueuesFollow

TransferSpec == TransferInit /\ [][TransferNext]_<<byteVars, queues>>

W == INSTANCE Wire WITH
  MaxQueries <- MaxPackets, Window <- 3 * MaxPackets, Timeouts <- TRUE, OldSocketSurvives <- FALSE,
  alive <- TRUE, srv <- Packet("ready", 0), committed <- {}

\* A flush sends packets that were held on their way before the new one is sent.
HeldGoOut == held' < held /\ UNCHANGED <<c2s, s2c>>

(* A flush that stops exactly behind a packet that was held leaves it in    *)
(* the buffer although it was sent, and it is sent again.  Wire does not    *)
(* have this step.                                                          *)
HeldAreRepeated == SendThrows /\ gone > 0 /\ Begins(buf, gone + 1)

\* Nothing behind a packet that cannot be decoded is ever read.
NothingDecodes ==
  /\ \E n \in DOMAIN c2s : c2s[n].kind = "Torn"
  /\ UNCHANGED <<c2s, s2c>>

\* What a step of the bytes is to the packets: a step of Wire that sends, fails to
\* send or receives, or nothing.
WireStep ==
  \/ W!Send("Block", Len(shapes))
  \/ SendThrows /\ \/ W!SendIsHeld("Block", Len(shapes))
                   \/ \E q \in 1 .. MaxPackets : W!SendIsTorn(q)
  \/ W!Consume("Block") /\ UNCHANGED s2c
  \/ HeldGoOut \/ HeldAreRepeated \/ NothingDecodes
  \/ W!Answer("Data", Len(shapes')) /\ UNCHANGED <<c2s, held>>
  \/ W!Receive
  \/ ReceiveThrows /\ W!ReceiveFails

ImplementsWire == [][WireStep]_queues

\* A packet whose send has returned is on its way as a whole, whatever send() took
\* of it at a time, and whatever a send that threw before had left in the buffer.
ReturnedIsSent == Idle /\ Len(shapes) \notin thrown => buf = << >>

\* The reader gives up only on bytes that are not a whole packet: no way of cutting
\* packets into frames, sends and receives confuses it.
BrokenIsTorn == 
  LET s == OnTheWay \o Unsent IN reader.broken => ~IsWhole(Part(s, Ends(s), 1))

\* When no send threw, what has arrived is what was sent: the reader neither waits
\* for more nor holds anything back.
AllArrives ==
  Idle /\ thrown = {} /\ buf = << >> /\ net = << >> /\ inbuf = << >> /\ ~FromFrame =>
    reader.broken \/ received = [k \in DOMAIN shapes |-> k]

=============================================================================
