---------------------- MODULE ClickHouseObject_proofs ----------------------
(***************************************************************************)
(* Proofs about ClickHouseObject for every number of queries, every        *)
(* window, every set of methods, with or without timeouts, and whatever    *)
(* becomes of a socket whose reconnect is refused; that it implements      *)
(* InsertLedger; and what the object knows of the server's session when a  *)
(* refused reconnect ends the old socket and no timeout can expire, or     *)
(* when every throw is followed by a reset (Recoverable).                  *)
(***************************************************************************)
EXTENDS SessionInvariant, SequenceTheorems, TLAPS

USE DEF UseTag

(***************************************************************************)
(* Sequences of packets.                                                   *)
(***************************************************************************)

\* An empty queue is a queue of any kind of packet.
LEMMA NoPackets == ASSUME NEW S PROVE << >> \in Seq(S) /\ Len(<< >>) = 0
  OBVIOUS

\* A queue of one packet, as ReceiveFails and HandshakeFails leave it.
LEMMA OnePacket ==
  ASSUME NEW S, NEW p \in S
  PROVE  <<p>> \in Seq(S)
  OBVIOUS

\* What appending a packet to a queue does to its length and its positions.
LEMMA AppendPacket ==
  ASSUME NEW S, NEW s \in Seq(S), NEW p \in S
  PROVE  /\ Append(s, p) \in Seq(S)
         /\ Len(Append(s, p)) = Len(s) + 1
         /\ Append(s, p)[Len(s) + 1] = p
         /\ \A i \in 1 .. Len(s) : Append(s, p)[i] = s[i]
  BY AppendProperties

\* What taking the first packet off a queue does to its length and its positions.
LEMMA TailPacket ==
  ASSUME NEW S, NEW s \in Seq(S), s # << >>
  PROVE  /\ Head(s) \in S
         /\ Head(s) = s[1]
         /\ Len(s) \in Nat \ {0}
         /\ Tail(s) \in Seq(S)
         /\ Len(Tail(s)) = Len(s) - 1
         /\ \A i \in 1 .. Len(s) - 1 : Tail(s)[i] = s[i + 1]
  BY HeadTailProperties

\* What cutting a queue at a position leaves: the packets up to it.
LEMMA PrefixPacket ==
  ASSUME NEW S, NEW s \in Seq(S), NEW n \in 0 .. Len(s)
  PROVE  /\ SubSeq(s, 1, n) \in Seq(S)
         /\ Len(SubSeq(s, 1, n)) = n
         /\ \A i \in 1 .. n : SubSeq(s, 1, n)[i] = s[i]
  OBVIOUS

\* A packet of a known kind and a session in a known mode have their types.
LEMMA PacketType ==
  ASSUME NEW kind, NEW q \in Tags
  PROVE  /\ kind \in ToServer => Packet(kind, q) \in [kind : ToServer, q : Tags]
         /\ kind \in ToClient => Packet(kind, q) \in [kind : ToClient, q : Tags]
         /\ kind \in Modes => Session(kind, q) \in [mode : Modes, q : Tags]
  BY DEF Packet, Session

\* The number of the USE query of a recovery is a query number.
LEMMA UseTagIsTag == UseTag \in Tags
  BY WireAssumption DEF Tags

(***************************************************************************)
(* Type correctness, one lemma for each way an action touches the wire.    *)
(***************************************************************************)

ToServerPackets == [kind : ToServer, q : Tags]
ToClientPackets == [kind : ToClient, q : Tags]

\* A send, whether it returns or fails, keeps the type of the wire.
LEMMA SendType ==
  ASSUME WireTypeOK, NEW kind \in ToServer, NEW q \in Tags,
         Send(kind, q) \/ SendFails(kind, q)
  PROVE  WireTypeOK'
<1>. DEFINE p == Packet(kind, q)
            torn == Packet("Torn", q)
<1>. p \in ToServerPackets /\ torn \in ToServerPackets
  BY PacketType DEF ToServerPackets, ToServer
<1>. c2s \in Seq(ToServerPackets) /\ held \in 0 .. Len(c2s) /\ Len(c2s) \in Nat
  BY DEF WireTypeOK, ToServerPackets
<1>0. /\ Append(c2s, p) \in Seq(ToServerPackets) /\ Len(Append(c2s, p)) = Len(c2s) + 1
      /\ Append(c2s, torn) \in Seq(ToServerPackets) /\ Len(Append(c2s, torn)) = Len(c2s) + 1
  BY AppendPacket
<1>. HIDE DEF p, torn
<1>1. ASSUME UNCHANGED <<alive, s2c, srv, committed>>,
             c2s' \in Seq(ToServerPackets), held' \in 0 .. Len(c2s')
      PROVE  WireTypeOK'
  BY <1>1 DEF WireTypeOK, ToServerPackets
<1>2. CASE Send(kind, q)
  <2>1. c2s' \in Seq(ToServerPackets) /\ held' = 0
    BY <1>0, <1>2 DEF Send, p
  <2>2. Len(c2s') \in Nat
    BY <2>1
  <2>. QED  BY <1>1, <1>2, <2>1, <2>2 DEF Send
<1>3. CASE SendMeetsDeadPeer
  BY <1>3 DEF SendMeetsDeadPeer, WireTypeOK, wireVars
<1>4. CASE SendIsHeld(kind, q)
  <2>1. c2s' \in {Append(c2s, p), Append(c2s, torn)} /\ held' \in {1, held + 1}
    BY <1>4 DEF SendIsHeld, p, torn
  <2>. QED  BY <1>0, <1>1, <1>4, <2>1 DEF SendIsHeld
<1>5. CASE SendIsTorn(q)
  <2>1. PICK unsent \in 0 .. held :
          c2s' = Append(SubSeq(c2s, 1, Len(c2s) - unsent), torn)
    BY <1>5 DEF SendIsTorn, torn
  <2>2. SubSeq(c2s, 1, Len(c2s) - unsent) \in Seq(ToServerPackets)
    BY PrefixPacket
  <2>3. c2s' \in Seq(ToServerPackets)
    BY <2>1, <2>2, AppendPacket
  <2>4. held' = 0 /\ Len(c2s') \in Nat
    BY <1>5, <2>3 DEF SendIsTorn
  <2>. QED  BY <1>1, <1>5, <2>3, <2>4 DEF SendIsTorn
<1>. QED  BY <1>2, <1>3, <1>4, <1>5 DEF SendFails

\* A receive, whether it returns or fails, keeps the type of the wire.
LEMMA ReceiveType ==
  ASSUME WireTypeOK, Receive \/ ReceiveFails
  PROVE  WireTypeOK'
<1>1. CASE Receive
  <2>1. s2c \in Seq(ToClientPackets) /\ s2c # << >>
    BY <1>1 DEF Receive, WireTypeOK, ToClientPackets
  <2>2. s2c' \in Seq(ToClientPackets)
    BY <1>1, <2>1, TailPacket DEF Receive
  <2>. QED  BY <1>1, <2>2 DEF Receive, WireTypeOK, outbox, ToClientPackets
<1>2. CASE ReceiveFails /\ UNCHANGED wireVars
  BY <1>2 DEF WireTypeOK, wireVars
<1>3. CASE /\ s2c # << >>
           /\ s2c' = <<Packet("Malformed", Head(s2c).q)>>
           /\ UNCHANGED <<alive, outbox, srv, committed>>
  <2>1. Head(s2c) \in [kind : ToClient, q : Tags]
    BY <1>3, TailPacket DEF WireTypeOK
  <2>2. Packet("Malformed", Head(s2c).q) \in [kind : ToClient, q : Tags]
    BY <2>1, PacketType DEF ToClient
  <2>3. s2c' \in Seq([kind : ToClient, q : Tags])
    BY <1>3, <2>2, OnePacket
  <2>. QED  BY <1>3, <2>3 DEF WireTypeOK, outbox
<1>. QED  BY <1>1, <1>2, <1>3 DEF ReceiveFails

\* A connect, a refused connect, a failed handshake and the loss of the connection keep
\* the type of the wire.
LEMMA ConnectType ==
  ASSUME WireTypeOK,
         (FreshSocket /\ UNCHANGED committed) \/ ConnectRefused \/ HandshakeFails \/ Break
  PROVE  WireTypeOK'
<1>. /\ Session("ready", UseTag) \in [mode : Modes, q : Tags]
     /\ <<Packet("Malformed", UseTag)>> \in Seq([kind : ToClient, q : Tags])
  BY PacketType, UseTagIsTag, OnePacket DEF Modes, ToClient
<1>. /\ << >> \in Seq([kind : ToServer, q : Tags]) /\ 0 \in 0 .. Len(<< >>)
     /\ << >> \in Seq([kind : ToClient, q : Tags])
  BY NoPackets
<1>1. CASE FreshSocket /\ UNCHANGED committed
  BY <1>1 DEF FreshSocket, WireTypeOK
<1>2. CASE ConnectRefused
  BY <1>2 DEF ConnectRefused, WireTypeOK, outbox
<1>3. CASE HandshakeFails
  BY <1>3 DEF HandshakeFails, WireTypeOK
<1>4. CASE Break
  BY <1>4 DEF Break, WireTypeOK
<1>. QED  BY <1>1, <1>2, <1>3, <1>4

\* An answer of the server keeps the type of the input queue.
LEMMA AnswerType ==
  ASSUME WireTypeOK, NEW kind \in ToClient, NEW q \in Tags, Answer(kind, q)
  PROVE  s2c' \in Seq([kind : ToClient, q : Tags])
<1>. Packet(kind, q) \in [kind : ToClient, q : Tags] /\ s2c \in Seq([kind : ToClient, q : Tags])
  BY PacketType DEF WireTypeOK
<1>. Append(s2c, Packet(kind, q)) \in Seq([kind : ToClient, q : Tags])
  BY AppendPacket
<1>. QED  BY DEF Answer

\* The server consumes a packet of the wire, never one still in the output buffer.
LEMMA ConsumeType ==
  ASSUME WireTypeOK, NEW kind, Consume(kind)
  PROVE  /\ c2s' \in Seq([kind : ToServer, q : Tags])
         /\ held' \in 0 .. Len(c2s')
         /\ Head(c2s) \in [kind : ToServer, q : Tags]
         /\ Head(c2s).q \in Tags
<1>. c2s \in Seq([kind : ToServer, q : Tags]) /\ held \in 0 .. Len(c2s) /\ held < Len(c2s)
  BY DEF WireTypeOK, Consume
<1>. c2s # << >>
  BY NoPackets
<1>1. /\ Tail(c2s) \in Seq([kind : ToServer, q : Tags])
      /\ Len(Tail(c2s)) = Len(c2s) - 1
      /\ Head(c2s) \in [kind : ToServer, q : Tags]
  BY TailPacket
<1>2. c2s' = Tail(c2s) /\ held' = held
  BY DEF Consume
<1>. QED  BY <1>1, <1>2

\* Every step of the server keeps the type of the wire.
LEMMA ServerType ==
  ASSUME WireTypeOK, Server
  PROVE  WireTypeOK'
<1>. DEFINE s2cOK == s2c \in Seq([kind : ToClient, q : Tags])
            outboxOK == c2s \in Seq([kind : ToServer, q : Tags]) /\ held \in 0 .. Len(c2s)
            srvOK == srv \in [mode : Modes, q : Tags]
<1>0. s2cOK /\ outboxOK /\ srvOK
  BY DEF WireTypeOK
<1>a. ASSUME alive' \in BOOLEAN, s2cOK', outboxOK', srvOK', committed' \subseteq Tags
      PROVE  WireTypeOK'
  BY <1>a DEF WireTypeOK
<1>b. \A kind \in ToClient : Reply(kind) => s2cOK'
  BY <1>0, AnswerType DEF Reply
<1>c. ASSUME NEW kind, Consume(kind) PROVE outboxOK' /\ Head(c2s).q \in Tags
  BY <1>c, ConsumeType
<1>d. \A mode \in Modes, q \in Tags : srv' = Session(mode, q) => srvOK'
  BY DEF Session
<1>e. srv.q \in Tags
  BY <1>0
<1>f. /\ UNCHANGED alive => alive' \in BOOLEAN
      /\ UNCHANGED committed => committed' \subseteq Tags
      /\ UNCHANGED outbox => outboxOK'
      /\ UNCHANGED s2c => s2cOK'
      /\ UNCHANGED srv => srvOK'
  BY <1>0 DEF WireTypeOK, outbox
<1>. HIDE DEF s2cOK, outboxOK, srvOK
<1>1. CASE ServerTakesQuery
  BY <1>a, <1>c, <1>d, <1>f, <1>1 DEF ServerTakesQuery, Modes
<1>2. CASE ServerSendsRows
  BY <1>a, <1>b, <1>f, <1>2 DEF ServerSendsRows, ToClient
<1>3. CASE ServerEndsQuery
  BY <1>a, <1>b, <1>d, <1>e, <1>f, <1>3 DEF ServerEndsQuery, ToClient, Modes
<1>4. CASE ServerTakesCancel
  BY <1>a, <1>b, <1>c, <1>d, <1>e, <1>f, <1>4 DEF ServerTakesCancel, ToClient, Modes
<1>5. CASE ServerTakesPing
  <2>1. Head(c2s).q \in Tags /\ outboxOK'
    BY <1>c, <1>5 DEF ServerTakesPing
  <2>2. s2cOK'
    BY <1>5, <2>1, AnswerType DEF ServerTakesPing, ToClient, s2cOK
  <2>. QED  BY <1>a, <1>f, <1>5, <2>1, <2>2 DEF ServerTakesPing
<1>6. CASE ServerTakesInsert
  BY <1>a, <1>c, <1>d, <1>f, <1>6 DEF ServerTakesInsert, Modes
<1>7. CASE ServerOpensInsert
  BY <1>a, <1>b, <1>d, <1>e, <1>f, <1>7 DEF ServerOpensInsert, ToClient, Modes
<1>8. CASE ServerTakesBlock
  BY <1>a, <1>b, <1>c, <1>d, <1>e, <1>f, <1>8 DEF ServerTakesBlock, ToClient, Modes
<1>9. CASE ServerTakesEnd
  <2>1. committed' \subseteq Tags
    BY <1>e, <1>f, <1>9 DEF ServerTakesEnd, WireTypeOK
  <2>2. s2cOK'
    BY <1>b, <1>f, <1>9 DEF ServerTakesEnd, ToClient
  <2>. QED  BY <1>a, <1>c, <1>d, <1>e, <1>f, <1>9, <2>1, <2>2 DEF ServerTakesEnd, Modes
<1>10. CASE ServerHangsUp
  <2>1. c2s \in Seq([kind : ToServer, q : Tags]) /\ c2s # << >>
    BY <1>10, NoPackets DEF ServerHangsUp, WireTypeOK
  <2>. Head(c2s) \in [kind : ToServer, q : Tags]
    BY <2>1, TailPacket
  <2>2. Head(c2s).q \in Tags
    OBVIOUS
  <2>3. s2cOK'
    BY <1>10, <2>2, AnswerType DEF ServerHangsUp, ToClient, s2cOK
  <2>4. outboxOK'
    BY <1>10, NoPackets DEF ServerHangsUp, outboxOK
  <2>5. srvOK'
    BY <1>d, <1>10, UseTagIsTag DEF ServerHangsUp, Modes
  <2>. QED  BY <1>a, <1>f, <1>10, <2>3, <2>4, <2>5 DEF ServerHangsUp
<1>. QED  BY <1>1, <1>2, <1>3, <1>4, <1>5, <1>6, <1>7, <1>8, <1>9, <1>10 DEF Server

(***************************************************************************)
(* Type correctness of the client's operations.                            *)
(***************************************************************************)

\* The packet loops read the wire without disturbing its type.
LEMMA ReadType ==
  ASSUME WireTypeOK, NEW kinds, Read(kinds)
  PROVE  WireTypeOK'
  BY ReceiveType DEF Read

\* Every step of a packet loop keeps the types of the wire and of the native client.
LEMMA PacketLoopType ==
  ASSUME WireTypeOK, NativeTypeOK, PacketLoop
  PROVE  WireTypeOK' /\ NativeTypeOK'
<1>1. WireTypeOK'
  <2>1. cur \in Tags
    BY DEF NativeTypeOK
  <2>2. CASE SendCancel
    BY <2>1, <2>2, SendType DEF SendCancel, ToServer
  <2>3. CASE ReceiveThrows
    BY <2>3, ReceiveType DEF ReceiveThrows
  <2>. QED
    BY <2>2, <2>3, ReadType
       DEF PacketLoop, NextBlockData, NextBlockInfo, NextBlockSkips, NextBlockEnds,
           NextBlockThrows, SampleSkips, SampleInfo, SampleReturns, SampleThrows,
           EndSkips, EndReturns, EndThrows, PongReturns, PongThrows
<1>2. ASSUME NEW r \in {"ok", "serverError", "error"}, Unwind(r)
      PROVE  NativeTypeOK'
  BY <1>2 DEF Unwind, NativeTypeOK
<1>3. ASSUME NEW c \in {"select", "onData", "onProgress", "cancel", "sample", "end"}, Goto(c)
      PROVE  NativeTypeOK'
  BY <1>3 DEF Goto, NativeTypeOK
<1>4. EndReturns \/ NextBlockData \/ NextBlockInfo => NativeTypeOK'
  BY DEF EndReturns, NextBlockData, NextBlockInfo, Goto, NativeTypeOK
<1>5. NativeTypeOK'
  BY <1>2, <1>3, <1>4
     DEF PacketLoop, NextBlockSkips, NextBlockEnds,
         NextBlockThrows, SendCancel, SampleSkips, SampleInfo, SampleReturns, SampleThrows,
         EndSkips, EndThrows, PongReturns, PongThrows, ReceiveThrows
<1>. QED  BY <1>1, <1>5

\* A callback of the script, however it ends, keeps the types.
LEMMA CallbackType ==
  ASSUME WireTypeOK, NativeTypeOK, Callback
  PROVE  WireTypeOK' /\ NativeTypeOK'
<1>1. UNCHANGED wireVars
  BY DEF Callback, CallbackContinues, CallbackStops, CallbackThrows
<1>2. WireTypeOK'
  BY <1>1 DEF wireVars, WireTypeOK
<1>3. NativeTypeOK'
  BY DEF Callback, CallbackContinues, CallbackStops, CallbackThrows, Goto, Unwind, NativeTypeOK
<1>. QED  BY <1>2, <1>3

\* Starting a query or an insert keeps the types.
LEMMA BeginType ==
  ASSUME WireTypeOK, NativeTypeOK, NEW q \in Tags, BeginExecuteQuery(q) \/ BeginInsert(q)
  PROVE  WireTypeOK' /\ NativeTypeOK'
<1>1. WireTypeOK'
  BY SendType DEF BeginExecuteQuery, BeginInsert, ToServer
<1>2. NativeTypeOK'
  BY DEF BeginExecuteQuery, BeginInsert, NativeTypeOK
<1>. QED  BY <1>1, <1>2

\* SendInsertBlock, EndInsert, Ping and the destructor keep the types.
LEMMA InsertCallType ==
  ASSUME WireTypeOK, NativeTypeOK,
         SendInsertBlock \/ SendInsertBlockThrows \/ EndInsert \/ Ping \/ Destroy
  PROVE  WireTypeOK' /\ NativeTypeOK'
<1>. cur \in Tags
  BY DEF NativeTypeOK
<1>0. UNCHANGED wireVars => WireTypeOK'
  BY DEF wireVars, WireTypeOK
<1>1. \A kind \in ToServer : Send(kind, cur) \/ SendFails(kind, cur) => WireTypeOK'
  BY SendType
<1>2. WireTypeOK'
  BY <1>0, <1>1
     DEF SendInsertBlock, SendInsertBlockThrows, EndInsert, Ping, Destroy, ToServer
<1>3. NativeTypeOK'
  BY DEF SendInsertBlock, SendInsertBlockThrows, EndInsert, Ping, Destroy, nativeVars,
         NativeTypeOK
<1>. QED  BY <1>2, <1>3

\* A reconnect, whether it succeeds or not, keeps the types.
LEMMA ResetType ==
  ASSUME WireTypeOK, NativeTypeOK, ResetConnection
  PROVE  WireTypeOK' /\ NativeTypeOK' /\ ret' \in {"ok", "error"}
<1>1. WireTypeOK'
  BY ConnectType DEF ResetConnection
<1>2. NativeTypeOK' /\ ret' \in {"ok", "error"}
  BY DEF ResetConnection, NativeTypeOK
<1>. QED  BY <1>1, <1>2

(***************************************************************************)
(* Type correctness of the object.                                         *)
(***************************************************************************)

ObjectTypeOK ==
  /\ client \in BOOLEAN
  /\ query_active \in BOOLEAN
  /\ has_insert_block \in BOOLEAN
  /\ insert_query \in Tags
  /\ method \in Methods \union {"none"}
  /\ pc \in Places
  /\ sent \in BOOLEAN
  /\ asked \in Tags
  /\ told \subseteq (Finishers \X Tags)

\* The type invariant is the conjunction of those of the three layers.
LEMMA TypeParts == TypeOK <=> WireTypeOK /\ NativeTypeOK /\ ObjectTypeOK
  BY DEF TypeOK, ObjectTypeOK

\* A new query has the next number, which is still a number.
LEMMA NextNumberType ==
  ASSUME asked \in Tags, NextNumber
  PROVE  asked' \in Tags /\ asked' = asked + 1
  BY WireAssumption DEF NextNumber, Tags

\* Leaving a method keeps the type of what it reported.
LEMMA LeaveType ==
  ASSUME NativeTypeOK, ObjectTypeOK, NEW ok, Leave(ok)
  PROVE  /\ query_active' \in BOOLEAN /\ method' \in Methods \union {"none"}
         /\ pc' \in Places /\ sent' \in BOOLEAN /\ told' \subseteq (Finishers \X Tags)
<1>1. \/ told' = told
      \/ method \in Finishers /\ told' = told \union {<<method, cur>>}
  BY DEF Leave
<1>2. told \subseteq (Finishers \X Tags) /\ cur \in Tags
  BY DEF ObjectTypeOK, NativeTypeOK
<1>3. told' \subseteq (Finishers \X Tags)
  BY <1>1, <1>2
<1>. QED  BY <1>3 DEF Leave, Places

\* A call of the script keeps the types.
LEMMA ScriptType ==
  ASSUME TypeOK, Script
  PROVE  TypeOK'
<1>. WireTypeOK /\ NativeTypeOK /\ ObjectTypeOK
  BY TypeParts
<1>. ASSUME WireTypeOK', NativeTypeOK', ObjectTypeOK' PROVE TypeOK'
  BY DEF TypeOK, ObjectTypeOK
<1>0. UNCHANGED <<wireVars, nativeVars>> => WireTypeOK' /\ NativeTypeOK'
  BY DEF wireVars, nativeVars, WireTypeOK, NativeTypeOK
<1>1. CASE Select
  <2>1. asked' \in Tags /\ asked' = asked + 1
    BY <1>1, NextNumberType DEF Select, ObjectTypeOK
  <2>2. WireTypeOK' /\ NativeTypeOK'
    BY <1>1, <2>1, BeginType DEF Select
  <2>. QED  BY <1>1, <2>1, <2>2 DEF Select, Enter, Guarded, ObjectTypeOK, Places
<1>2. CASE PingServer
  BY <1>2, InsertCallType DEF PingServer, Enter, Guarded, ObjectTypeOK, Places
<1>3. CASE OpenInsert
  <2>1. asked' \in Tags /\ asked' = asked + 1
    BY <1>3, NextNumberType DEF OpenInsert, ObjectTypeOK
  <2>2. WireTypeOK' /\ NativeTypeOK'
    BY <1>3, <2>1, BeginType DEF OpenInsert
  <2>. QED  BY <1>3, <2>1, <2>2 DEF OpenInsert, Enter, Guarded, ObjectTypeOK, Places
<1>4. CASE Write
  BY <1>0, <1>4 DEF Write, Enter, Guarded, ObjectTypeOK, Places
<1>5. CASE WriteEnd
  BY <1>5, InsertCallType DEF WriteEnd, Enter, Guarded, ObjectTypeOK, Places
<1>6. CASE ResetByScript
  BY <1>0, <1>6, UseTagIsTag
     DEF ResetByScript, Enter, Guarded, ClearInsertState, ObjectTypeOK, Places
<1>7. CASE SetDatabase
  <2>1. WireTypeOK'
    BY <1>7, ConnectType DEF SetDatabase
  <2>. QED  BY <1>7, <2>1 DEF SetDatabase, NativeTypeOK, ObjectTypeOK, objVars
<1>8. CASE FreeObject
  BY <1>8, InsertCallType, UseTagIsTag DEF FreeObject, ClearInsertState, ObjectTypeOK
<1>9. CASE Construct
  <2>1. WireTypeOK'
    BY <1>9, ConnectType DEF Construct
  <2>. QED  BY <1>9, <2>1 DEF Construct, nativeVars, NativeTypeOK, ObjectTypeOK
<1>. QED  BY <1>1, <1>2, <1>3, <1>4, <1>5, <1>6, <1>7, <1>8, <1>9 DEF Script

\* A step inside a method keeps the types.
LEMMA MethodType ==
  ASSUME TypeOK, Method
  PROVE  TypeOK'
<1>. WireTypeOK /\ NativeTypeOK /\ ObjectTypeOK
  BY TypeParts
<1>. ASSUME WireTypeOK', NativeTypeOK', ObjectTypeOK' PROVE TypeOK'
  BY DEF TypeOK, ObjectTypeOK
<1>. cur \in Tags /\ UseTag \in Tags
  BY UseTagIsTag DEF NativeTypeOK
<1>0. UNCHANGED <<wireVars, nativeVars>> => WireTypeOK' /\ NativeTypeOK'
  BY DEF wireVars, nativeVars, WireTypeOK, NativeTypeOK
<1>1. CASE SelectReturns
  BY <1>0, <1>1, LeaveType DEF SelectReturns, GoOn, ObjectTypeOK, Places
<1>2. CASE PingServerReturns
  BY <1>0, <1>2, LeaveType DEF PingServerReturns, ObjectTypeOK
<1>3. CASE OpenInsertReturns
  BY <1>0, <1>3, LeaveType DEF OpenInsertReturns, GoOn, ObjectTypeOK, Places
<1>4. CASE SendRows
  BY <1>4, LeaveType, InsertCallType DEF SendRows, GoOnSent, ObjectTypeOK, Places
<1>5. CASE SendRowsThrows
  BY <1>5, InsertCallType DEF SendRowsThrows, GoOnSent, ObjectTypeOK, Places
<1>6. CASE RowsDone
  BY <1>6, InsertCallType DEF RowsDone, GoOn, ObjectTypeOK, Places
<1>7. CASE RowsThrow
  BY <1>0, <1>7, InsertCallType DEF RowsThrow, GoOn, ObjectTypeOK, Places
<1>8. CASE FinishReturns
  BY <1>0, <1>8, LeaveType DEF FinishReturns, ClearInsertState, ObjectTypeOK
<1>9. CASE FinishThrows
  BY <1>0, <1>9, InsertCallType DEF FinishThrows, GoOn, ClearInsertState, ObjectTypeOK, Places
<1>10. CASE CloseReturns
  BY <1>0, <1>10, LeaveType DEF CloseReturns, GoOn, ClearInsertState, ObjectTypeOK, Places
<1>11. CASE Reset \/ Rotate
  BY <1>11, ResetType
     DEF Reset, Rotate, ResetConnectionEndpoint, AfterConnect, GoOn, ObjectTypeOK, Places
<1>12. CASE UseDatabase
  BY <1>12, BeginType DEF UseDatabase, GoOn, ObjectTypeOK, Places
<1>13. CASE UseDatabaseReturns
  BY <1>0, <1>13 DEF UseDatabaseReturns, GoOn, ObjectTypeOK, Places
<1>14. CASE Recovered
  BY <1>0, <1>14, LeaveType DEF Recovered, ClearInsertState, ObjectTypeOK
<1>15. CASE Unrecovered
  BY <1>0, <1>15, LeaveType DEF Unrecovered, ObjectTypeOK
<1>. QED
  BY <1>1, <1>2, <1>3, <1>4, <1>5, <1>6, <1>7, <1>8, <1>9, <1>10, <1>11, <1>12, <1>13, <1>14,
     <1>15 DEF Method

\* Every step keeps the type invariant.
LEMMA TypeStep ==
  ASSUME TypeOK, [Next]_vars
  PROVE  TypeOK'
<1>. WireTypeOK /\ NativeTypeOK /\ ObjectTypeOK
  BY TypeParts
<1>. ASSUME WireTypeOK', NativeTypeOK', ObjectTypeOK' PROVE TypeOK'
  BY DEF TypeOK, ObjectTypeOK
<1>0. /\ UNCHANGED wireVars => WireTypeOK'
      /\ UNCHANGED nativeVars => NativeTypeOK'
      /\ UNCHANGED objVars => ObjectTypeOK'
  BY DEF wireVars, nativeVars, objVars, WireTypeOK, NativeTypeOK, ObjectTypeOK
<1>1. CASE Script
  BY <1>1, ScriptType
<1>2. CASE Method
  BY <1>2, MethodType
<1>3. CASE Native
  BY <1>0, <1>3, PacketLoopType, CallbackType DEF Native
<1>4. CASE Environment
  BY <1>0, <1>4, ServerType, ConnectType DEF Environment
<1>5. CASE UNCHANGED vars
  BY <1>0, <1>5 DEF vars
<1>. QED  BY <1>1, <1>2, <1>3, <1>4, <1>5 DEF Next

\* The type invariant holds of a freshly constructed object.
LEMMA TypeInit == Init => TypeOK
<1>. SUFFICES ASSUME Init PROVE TypeOK
  OBVIOUS
<1>. Session("ready", UseTag) \in [mode : Modes, q : Tags] /\ UseTag \in Tags
  BY PacketType, UseTagIsTag DEF Modes
<1>1. WireTypeOK
  BY NoPackets DEF Init, WireInit, WireTypeOK
<1>2. NativeTypeOK
  BY DEF Init, NativeInit, NativeTypeOK
<1>3. ObjectTypeOK
  BY DEF Init, ObjectTypeOK, Places
<1>. QED  BY <1>1, <1>2, <1>3, TypeParts

\* Every value of every variable of the extension, the native client and the wire has
\* its type, in particular the queue positions held by the output buffer (BufferedOutput).
THEOREM TypeCorrect == Spec => []TypeOK
  BY TypeInit, TypeStep, PTL DEF Spec

(***************************************************************************)
(* The control invariant: where the method is says which packet loop runs  *)
(* and whether an insert is open on the native client.                     *)
(***************************************************************************)

\* A packet loop or a callback keeps each part of ControlInv.
LEMMA NativeControl ==
  ASSUME TypeOK, ControlInv, Native
  PROVE  ControlInv'
<1>. UNCHANGED <<client, query_active, has_insert_block, insert_query, method, pc>>
  BY DEF Native, objVars
<1>. call # "none" => pc \notin {"idle", "rows", "reset", "rotate", "use", "recovered", "unrecovered"}
  BY DEF ControlInv, LoopPlace
<1>. state \in {"Idle", "Selecting", "Inserting"}
  BY DEF TypeOK, NativeTypeOK
<1>1. CASE NextBlockData
  BY <1>1
     DEF NextBlockData, Goto, Unwind, ControlInv, GuardIsHeld, LoopState, LoopPlace, Closed, MethodPlace, FreedIsIdle,
         RestIsTracked
<1>2. CASE NextBlockInfo
  BY <1>2
     DEF NextBlockInfo, Goto, Unwind, ControlInv, GuardIsHeld, LoopState, LoopPlace, Closed, MethodPlace, FreedIsIdle,
         RestIsTracked
<1>3. CASE NextBlockSkips
  BY <1>3
     DEF NextBlockSkips, Goto, Unwind, ControlInv, GuardIsHeld, LoopState, LoopPlace, Closed, MethodPlace, FreedIsIdle,
         RestIsTracked
<1>4. CASE NextBlockEnds
  BY <1>4
     DEF NextBlockEnds, Goto, Unwind, ControlInv, GuardIsHeld, LoopState, LoopPlace, Closed, MethodPlace, FreedIsIdle,
         RestIsTracked
<1>5. CASE NextBlockThrows
  BY <1>5
     DEF NextBlockThrows, Goto, Unwind, ControlInv, GuardIsHeld, LoopState, LoopPlace, Closed, MethodPlace, FreedIsIdle,
         RestIsTracked
<1>6. CASE SendCancel
  BY <1>6
     DEF SendCancel, Goto, Unwind, ControlInv, GuardIsHeld, LoopState, LoopPlace, Closed, MethodPlace, FreedIsIdle,
         RestIsTracked
<1>7. CASE SampleSkips
  BY <1>7
     DEF SampleSkips, Goto, Unwind, ControlInv, GuardIsHeld, LoopState, LoopPlace, Closed, MethodPlace, FreedIsIdle,
         RestIsTracked
<1>8. CASE SampleInfo
  BY <1>8
     DEF SampleInfo, Goto, Unwind, ControlInv, GuardIsHeld, LoopState, LoopPlace, Closed, MethodPlace, FreedIsIdle,
         RestIsTracked
<1>9. CASE SampleReturns
  BY <1>9
     DEF SampleReturns, Goto, Unwind, ControlInv, GuardIsHeld, LoopState, LoopPlace, Closed, MethodPlace, FreedIsIdle,
         RestIsTracked
<1>10. CASE SampleThrows
  BY <1>10
     DEF SampleThrows, Goto, Unwind, ControlInv, GuardIsHeld, LoopState, LoopPlace, Closed, MethodPlace, FreedIsIdle,
         RestIsTracked
<1>11. CASE EndSkips
  BY <1>11
     DEF EndSkips, Goto, Unwind, ControlInv, GuardIsHeld, LoopState, LoopPlace, Closed, MethodPlace, FreedIsIdle,
         RestIsTracked
<1>12. CASE EndReturns
  BY <1>12
     DEF EndReturns, Goto, Unwind, ControlInv, GuardIsHeld, LoopState, LoopPlace, Closed, MethodPlace, FreedIsIdle,
         RestIsTracked
<1>13. CASE EndThrows
  BY <1>13
     DEF EndThrows, Goto, Unwind, ControlInv, GuardIsHeld, LoopState, LoopPlace, Closed, MethodPlace, FreedIsIdle,
         RestIsTracked
<1>14. CASE PongReturns
  BY <1>14
     DEF PongReturns, Goto, Unwind, ControlInv, GuardIsHeld, LoopState, LoopPlace, Closed, MethodPlace, FreedIsIdle,
         RestIsTracked
<1>15. CASE PongThrows
  BY <1>15
     DEF PongThrows, Goto, Unwind, ControlInv, GuardIsHeld, LoopState, LoopPlace, Closed, MethodPlace, FreedIsIdle,
         RestIsTracked
<1>16. CASE ReceiveThrows
  BY <1>16
     DEF ReceiveThrows, Goto, Unwind, ControlInv, GuardIsHeld, LoopState, LoopPlace, Closed, MethodPlace, FreedIsIdle,
         RestIsTracked
<1>17. CASE CallbackContinues
  BY <1>17
     DEF CallbackContinues, Goto, Unwind, ControlInv, GuardIsHeld, LoopState, LoopPlace, Closed, MethodPlace, FreedIsIdle,
         RestIsTracked
<1>18. CASE CallbackStops
  BY <1>18
     DEF CallbackStops, Goto, Unwind, ControlInv, GuardIsHeld, LoopState, LoopPlace, Closed, MethodPlace, FreedIsIdle,
         RestIsTracked
<1>19. CASE CallbackThrows
  BY <1>19
     DEF CallbackThrows, Goto, Unwind, ControlInv, GuardIsHeld, LoopState, LoopPlace, Closed, MethodPlace, FreedIsIdle,
         RestIsTracked
<1>. QED
  BY <1>1, <1>2, <1>3, <1>4, <1>5, <1>6, <1>7, <1>8, <1>9, <1>10, <1>11, <1>12, <1>13, <1>14, <1>15, <1>16, <1>17, <1>18, <1>19
     DEF Native, PacketLoop, Callback

\* A call of the script keeps each part of ControlInv: it finds the native client idle, or
\* inside the insert the flag announces.
LEMMA ScriptControl ==
  ASSUME TypeOK, ControlInv, Script
  PROVE  ControlInv'
<1>. /\ state \in {"Idle", "Selecting", "Inserting"}
     /\ method \in AllMethods \union {"none"}
     /\ "none" \notin AllMethods
  BY ObjectAssumption DEF TypeOK, NativeTypeOK, AllMethods, QueryMethods, InsertMethods
<1>1. CASE Select
  BY <1>1
     DEF Select, Enter, Guarded, ScriptRuns, BeginExecuteQuery, InsertMethods, Finishers,
         ControlInv, GuardIsHeld, LoopState, LoopPlace, Closed, MethodPlace, FreedIsIdle,
         RestIsTracked
<1>2. CASE PingServer
  BY <1>2
     DEF PingServer, Enter, Guarded, ScriptRuns, Ping, InsertMethods, Finishers,
         ControlInv, GuardIsHeld, LoopState, LoopPlace, Closed, MethodPlace, FreedIsIdle,
         RestIsTracked
<1>3. CASE OpenInsert
  BY <1>3
     DEF OpenInsert, Enter, Guarded, ScriptRuns, BeginInsert, InsertMethods, Finishers,
         ControlInv, GuardIsHeld, LoopState, LoopPlace, Closed, MethodPlace, FreedIsIdle,
         RestIsTracked
<1>4. CASE Write
  BY <1>4
     DEF Write, Enter, Guarded, ScriptRuns, nativeVars, InsertMethods, Finishers,
         ControlInv, GuardIsHeld, LoopState, LoopPlace, Closed, MethodPlace, FreedIsIdle,
         RestIsTracked
<1>5. CASE WriteEnd
  BY <1>5
     DEF WriteEnd, Enter, Guarded, ScriptRuns, EndInsert, InsertMethods, Finishers,
         ControlInv, GuardIsHeld, LoopState, LoopPlace, Closed, MethodPlace, FreedIsIdle,
         RestIsTracked
<1>6. CASE ResetByScript
  BY <1>6
     DEF ResetByScript, Enter, Guarded, ScriptRuns, ClearInsertState, nativeVars, InsertMethods, Finishers,
         ControlInv, GuardIsHeld, LoopState, LoopPlace, Closed, MethodPlace, FreedIsIdle,
         RestIsTracked
<1>7. CASE SetDatabase
  BY <1>7
     DEF SetDatabase, Guarded, ScriptRuns, objVars, InsertMethods, Finishers,
         ControlInv, GuardIsHeld, LoopState, LoopPlace, Closed, MethodPlace, FreedIsIdle,
         RestIsTracked
<1>8. CASE FreeObject
  BY <1>8
     DEF FreeObject, Destroy, ClearInsertState, InsertMethods, Finishers,
         ControlInv, GuardIsHeld, LoopState, LoopPlace, Closed, MethodPlace, FreedIsIdle,
         RestIsTracked
<1>9. CASE Construct
  BY <1>9
     DEF Construct, nativeVars, InsertMethods, Finishers,
         ControlInv, GuardIsHeld, LoopState, LoopPlace, Closed, MethodPlace, FreedIsIdle,
         RestIsTracked
<1>. QED
  BY <1>1, <1>2, <1>3, <1>4, <1>5, <1>6, <1>7, <1>8, <1>9
     DEF Script

\* A step inside a method keeps each part of ControlInv: it leaves only where the native
\* client is idle or the flag is up.
LEMMA MethodControl ==
  ASSUME TypeOK, ControlInv, Method
  PROVE  ControlInv'
<1>. /\ state \in {"Idle", "Selecting", "Inserting"}
     /\ method \in AllMethods \union {"none"}
     /\ "none" \notin AllMethods
  BY ObjectAssumption DEF TypeOK, NativeTypeOK, AllMethods, QueryMethods, InsertMethods
<1>1. CASE SelectReturns
  BY <1>1
     DEF SelectReturns, At, GoOn, Leave, nativeVars, InsertMethods, Finishers,
         ControlInv, GuardIsHeld, LoopState, LoopPlace, Closed, MethodPlace, FreedIsIdle,
         RestIsTracked
<1>2. CASE PingServerReturns
  BY <1>2
     DEF PingServerReturns, At, Leave, nativeVars, InsertMethods, Finishers,
         ControlInv, GuardIsHeld, LoopState, LoopPlace, Closed, MethodPlace, FreedIsIdle,
         RestIsTracked
<1>3. CASE OpenInsertReturns
  BY <1>3
     DEF OpenInsertReturns, At, GoOn, Leave, nativeVars, InsertMethods, InsertMethods, Finishers,
         ControlInv, GuardIsHeld, LoopState, LoopPlace, Closed, MethodPlace, FreedIsIdle,
         RestIsTracked
<1>4. CASE SendRows
  BY <1>4
     DEF SendRows, At, GoOnSent, Leave, SendInsertBlock, nativeVars, InsertMethods, Finishers,
         ControlInv, GuardIsHeld, LoopState, LoopPlace, Closed, MethodPlace, FreedIsIdle,
         RestIsTracked
<1>5. CASE SendRowsThrows
  BY <1>5
     DEF SendRowsThrows, At, GoOnSent, SendInsertBlockThrows, nativeVars, InsertMethods, Finishers,
         ControlInv, GuardIsHeld, LoopState, LoopPlace, Closed, MethodPlace, FreedIsIdle,
         RestIsTracked
<1>6. CASE RowsDone
  BY <1>6
     DEF RowsDone, At, GoOn, EndInsert, InsertMethods, Finishers,
         ControlInv, GuardIsHeld, LoopState, LoopPlace, Closed, MethodPlace, FreedIsIdle,
         RestIsTracked
<1>7. CASE RowsThrow
  BY <1>7
     DEF RowsThrow, At, GoOn, EndInsert, nativeVars, InsertMethods, Finishers,
         ControlInv, GuardIsHeld, LoopState, LoopPlace, Closed, MethodPlace, FreedIsIdle,
         RestIsTracked
<1>8. CASE FinishReturns
  BY <1>8
     DEF FinishReturns, At, Leave, ClearInsertState, nativeVars, InsertMethods, Finishers,
         ControlInv, GuardIsHeld, LoopState, LoopPlace, Closed, MethodPlace, FreedIsIdle,
         RestIsTracked
<1>9. CASE FinishThrows
  BY <1>9
     DEF FinishThrows, At, GoOn, EndInsert, ClearInsertState, nativeVars, InsertMethods, Finishers,
         ControlInv, GuardIsHeld, LoopState, LoopPlace, Closed, MethodPlace, FreedIsIdle,
         RestIsTracked
<1>10. CASE CloseReturns
  BY <1>10
     DEF CloseReturns, At, GoOn, Leave, ClearInsertState, nativeVars, InsertMethods, Finishers,
         ControlInv, GuardIsHeld, LoopState, LoopPlace, Closed, MethodPlace, FreedIsIdle,
         RestIsTracked
<1>11. CASE Reset
  BY <1>11
     DEF Reset, At, GoOn, ResetConnection, AfterConnect, InsertMethods, Finishers,
         ControlInv, GuardIsHeld, LoopState, LoopPlace, Closed, MethodPlace, FreedIsIdle,
         RestIsTracked
<1>12. CASE Rotate
  BY <1>12
     DEF Rotate, At, GoOn, ResetConnectionEndpoint, ResetConnection, AfterConnect, InsertMethods, Finishers,
         ControlInv, GuardIsHeld, LoopState, LoopPlace, Closed, MethodPlace, FreedIsIdle,
         RestIsTracked
<1>13. CASE UseDatabase
  BY <1>13
     DEF UseDatabase, At, GoOn, BeginExecuteQuery, InsertMethods, Finishers,
         ControlInv, GuardIsHeld, LoopState, LoopPlace, Closed, MethodPlace, FreedIsIdle,
         RestIsTracked
<1>14. CASE UseDatabaseReturns
  BY <1>14
     DEF UseDatabaseReturns, At, GoOn, nativeVars, InsertMethods, Finishers,
         ControlInv, GuardIsHeld, LoopState, LoopPlace, Closed, MethodPlace, FreedIsIdle,
         RestIsTracked
<1>15. CASE Recovered
  BY <1>15
     DEF Recovered, At, Leave, ClearInsertState, nativeVars, InsertMethods, Finishers,
         ControlInv, GuardIsHeld, LoopState, LoopPlace, Closed, MethodPlace, FreedIsIdle,
         RestIsTracked
<1>16. CASE Unrecovered
  BY <1>16
     DEF Unrecovered, At, Leave, nativeVars, InsertMethods, Finishers,
         ControlInv, GuardIsHeld, LoopState, LoopPlace, Closed, MethodPlace, FreedIsIdle,
         RestIsTracked
<1>. QED
  BY <1>1, <1>2, <1>3, <1>4, <1>5, <1>6, <1>7, <1>8, <1>9, <1>10, <1>11, <1>12, <1>13, <1>14, <1>15, <1>16
     DEF Method

\* Every step keeps ControlInv.
LEMMA ControlStep ==
  ASSUME TypeOK, ControlInv, [Next]_vars
  PROVE  ControlInv'
<1>1. UNCHANGED <<nativeVars, objVars>> => ControlInv'
  BY DEF nativeVars, objVars, ControlInv, GuardIsHeld, LoopState, LoopPlace, Closed,
         MethodPlace, FreedIsIdle, RestIsTracked
<1>. QED
  BY <1>1, ScriptControl, MethodControl, NativeControl DEF Next, Environment, vars

\* ControlInv holds of a freshly constructed object.
LEMMA ControlInit == Init => ControlInv
  BY DEF Init, NativeInit, ControlInv, GuardIsHeld, LoopState, LoopPlace, Closed,
         MethodPlace, FreedIsIdle, RestIsTracked

\* Between two calls of the script the native client is idle or inside the streaming
\* insert the object has a flag for, whatever threw before and however the resets of
\* write(), writeEnd() and insertFromStream() went.
THEOREM RestIsAlwaysTracked == Spec => []RestIsTracked
<1>1. Init => TypeOK /\ ControlInv
  BY TypeInit, ControlInit
<1>2. TypeOK /\ ControlInv /\ [Next]_vars => (TypeOK /\ ControlInv)'
  BY TypeStep, ControlStep
<1>3. ControlInv => RestIsTracked
  BY DEF ControlInv
<1>. QED  BY <1>1, <1>2, <1>3, PTL DEF Spec

(***************************************************************************)
(* Whose packets are on the wire.                                          *)
(***************************************************************************)

\* The packets on the wire as a function on positions.
LEMMA OutboxType ==
  ASSUME TypeOK
  PROVE  /\ c2s \in Seq(ToServerPackets) /\ Len(c2s) \in Nat
         /\ held \in 0 .. Len(c2s)
         /\ c2s = << >> <=> Len(c2s) = 0
  BY DEF TypeOK, WireTypeOK, ToServerPackets

\* A packet appended to a well-ordered prefix of the wire.
LEMMA AppendFollows ==
  ASSUME TypeOK, Follows, NEW n \in 0 .. Len(c2s), NEW p \in ToServerPackets,
         c2s' = Append(SubSeq(c2s, 1, n), p), srv' = srv,
         p.kind \in {"Block", "End"} =>
           IF n = 0 THEN p.q = srv.q
                    ELSE p.q = c2s[n].q /\ c2s[n].kind \in InsertPackets
  PROVE  Follows' /\ Len(c2s') = n + 1 /\ c2s'[n + 1] = p /\ \A i \in 1 .. n : c2s'[i] = c2s[i]
<1>. c2s \in Seq(ToServerPackets) /\ Len(c2s) \in Nat
  BY OutboxType
<1>1. /\ SubSeq(c2s, 1, n) \in Seq(ToServerPackets)
      /\ Len(SubSeq(c2s, 1, n)) = n
      /\ \A i \in 1 .. n : SubSeq(c2s, 1, n)[i] = c2s[i]
  BY PrefixPacket
<1>2. Len(c2s') = n + 1 /\ c2s'[n + 1] = p /\ \A i \in 1 .. n : c2s'[i] = c2s[i]
  BY <1>1, AppendPacket
<1>3. Follows'
  <2>. SUFFICES ASSUME NEW i \in 1 .. n + 1, c2s'[i].kind \in {"Block", "End"}
                PROVE  IF i = 1 THEN c2s'[i].q = srv.q
                       ELSE c2s'[i].q = c2s'[i-1].q /\ c2s'[i-1].kind \in InsertPackets
    BY <1>2 DEF Follows
  <2>1. CASE i = n + 1
    BY <1>2, <2>1
  <2>2. CASE i \in 1 .. n
    BY <1>2, <2>2 DEF Follows
  <2>. QED  BY <2>1, <2>2
<1>. QED  BY <1>2, <1>3

\* What is on the wire is its own prefix.
LEMMA WholeOutbox ==
  ASSUME TypeOK
  PROVE  SubSeq(c2s, 1, Len(c2s)) = c2s
  BY OutboxType

\* A send, whole, held or torn, of a packet that continues what is on the wire.
LEMMA SendWire ==
  ASSUME TypeOK, Follows, EndsAreSent, NEW kind \in ToServer, NEW q \in Tags,
         Send(kind, q) \/ SendFails(kind, q),
         alive /\ kind \in {"Block", "End"} =>
           IF c2s = << >> THEN srv.q = q
                          ELSE c2s[Len(c2s)].q = q /\ c2s[Len(c2s)].kind \in InsertPackets,
         endSent \subseteq endSent',
         kind = "End" => q \in endSent'
  PROVE  /\ Follows' /\ EndsAreSent'
         /\ alive' = alive
         /\ alive /\ kind \in InsertPackets =>
              /\ c2s' # << >>
              /\ c2s'[Len(c2s')].q = q
              /\ c2s'[Len(c2s')].kind \in InsertPackets
<1>. DEFINE Last == c2s'[Len(c2s')]
<1>. c2s \in Seq(ToServerPackets) /\ Len(c2s) \in Nat /\ held \in 0 .. Len(c2s)
  BY OutboxType
<1>0. /\ UNCHANGED <<alive, srv, committed>>
      /\ ~alive => UNCHANGED c2s
  BY DEF Send, SendFails, SendMeetsDeadPeer, SendIsHeld, SendIsTorn, wireVars
<1>1. CASE UNCHANGED c2s /\ ~alive
  BY <1>0, <1>1 DEF Follows, EndsAreSent
<1>2. ASSUME alive, NEW n \in 0 .. Len(c2s), NEW p \in ToServerPackets,
             c2s' = Append(SubSeq(c2s, 1, n), p),
             p.q = q, p.kind = "Torn" \/ (p.kind = kind /\ n = Len(c2s))
      PROVE  Follows' /\ EndsAreSent' /\ c2s' # << >> /\ Last = p
  <2>1. p.kind \in {"Block", "End"} =>
           IF n = 0 THEN p.q = srv.q
                    ELSE p.q = c2s[n].q /\ c2s[n].kind \in InsertPackets
    BY <1>2, OutboxType
  <2>2. Follows' /\ Len(c2s') = n + 1 /\ c2s'[n + 1] = p /\ \A i \in 1 .. n : c2s'[i] = c2s[i]
    BY <1>0, <1>2, <2>1, AppendFollows
  <2>3. c2s' # << >> /\ Last = p
    BY <2>2
  <2>4. EndsAreSent'
    <3>1. ASSUME NEW i \in 1 .. n + 1, c2s'[i].kind = "End" PROVE c2s'[i].q \in endSent'
      <4>1. CASE i = n + 1
        BY <1>2, <2>2, <3>1, <4>1
      <4>2. CASE i \in 1 .. n
        BY <2>2, <3>1, <4>2 DEF EndsAreSent
      <4>. QED  BY <4>1, <4>2
    <3>. QED  BY <1>0, <2>2, <3>1 DEF EndsAreSent
  <2>. QED  BY <2>2, <2>3, <2>4
<1>3. /\ Packet(kind, q) \in ToServerPackets /\ Packet("Torn", q) \in ToServerPackets
      /\ Packet(kind, q).q = q /\ Packet(kind, q).kind = kind
      /\ Packet("Torn", q).q = q /\ Packet("Torn", q).kind = "Torn"
  BY PacketType DEF ToServerPackets, ToServer, Packet
<1>4. ASSUME alive, NEW part \in {kind, "Torn"}, c2s' = Append(c2s, Packet(part, q))
      PROVE  /\ Follows' /\ EndsAreSent' /\ alive' = alive
             /\ kind \in InsertPackets => c2s' # << >> /\ Last.q = q /\ Last.kind \in InsertPackets
  <2>1. c2s' = Append(SubSeq(c2s, 1, Len(c2s)), Packet(part, q))
    BY <1>4, WholeOutbox
  <2>. Len(c2s) \in 0 .. Len(c2s)
    OBVIOUS
  <2>. HIDE DEF Last
  <2>2. /\ Packet(part, q) \in ToServerPackets /\ Packet(part, q).q = q
        /\ Packet(part, q).kind \in {kind, "Torn"}
    BY <1>3
  <2>3. Follows' /\ EndsAreSent' /\ c2s' # << >> /\ Last = Packet(part, q)
    BY <1>2, <1>4, <2>1, <2>2
  <2>. QED  BY <1>0, <2>2, <2>3 DEF InsertPackets
<1>5. CASE alive /\ SendIsTorn(q)
  <2>1. PICK unsent \in 0 .. held :
          c2s' = Append(SubSeq(c2s, 1, Len(c2s) - unsent), Packet("Torn", q))
    BY <1>5 DEF SendIsTorn
  <2>. Len(c2s) - unsent \in 0 .. Len(c2s)
    BY <2>1
  <2>. HIDE DEF Last
  <2>2. Follows' /\ EndsAreSent' /\ c2s' # << >> /\ Last = Packet("Torn", q)
    BY <1>2, <1>3, <1>5, <2>1
  <2>. QED  BY <1>0, <1>3, <2>2 DEF Last, InsertPackets
<1>6. \/ UNCHANGED c2s /\ ~alive
      \/ alive /\ \E part \in {kind, "Torn"} : c2s' = Append(c2s, Packet(part, q))
      \/ alive /\ SendIsTorn(q)
  BY DEF Send, SendFails, SendMeetsDeadPeer, SendIsHeld, SendIsTorn, wireVars
<1>. QED  BY <1>1, <1>4, <1>5, <1>6

\* The server takes the first packet: it opens the session of a query, or it belongs
\* to the session that is open.
LEMMA ConsumeWire ==
  ASSUME TypeOK, WireInv, NEW kind \in ToServer \ {"Torn"}, Consume(kind),
         UNCHANGED <<alive, nativeVars, asked>>,
         srv'.q = IF kind \in {"Query", "Insert"} THEN Head(c2s).q ELSE srv.q,
         committed' \subseteq endSent
  PROVE  WireInv'
<1>. /\ c2s \in Seq(ToServerPackets) /\ Len(c2s) \in Nat \ {0}
     /\ Head(c2s) = c2s[1] /\ c2s[1].kind = kind
     /\ Len(c2s') = Len(c2s) - 1
     /\ \A i \in 1 .. Len(c2s') : c2s'[i] = c2s[i + 1]
     /\ c2s' \in Seq(ToServerPackets)
  <2>. c2s \in Seq(ToServerPackets) /\ c2s # << >>
    BY OutboxType DEF Consume
  <2>. QED  BY TailPacket DEF Consume
<1>1. Follows'
  <2>. SUFFICES ASSUME NEW i \in 1 .. Len(c2s'), c2s'[i].kind \in {"Block", "End"}
                PROVE  IF i = 1 THEN c2s'[i].q = srv'.q
                       ELSE c2s'[i].q = c2s'[i-1].q /\ c2s'[i-1].kind \in InsertPackets
    BY DEF Follows
  <2>1. c2s'[i] = c2s[i + 1] /\ c2s[i + 1].q = c2s[i].q /\ c2s[i].kind \in InsertPackets
    BY DEF WireInv, Follows
  <2>2. CASE i = 1
    BY <2>1, <2>2 DEF WireInv, Follows, InsertPackets
  <2>3. CASE i # 1
    BY <2>1, <2>3
  <2>. QED  BY <2>2, <2>3
<1>2. WriterContinues'
  <2>. SUFFICES ASSUME state = "Inserting", alive
                PROVE  IF Len(c2s') = 0 THEN srv'.q = cur
                       ELSE c2s'[Len(c2s')].q = cur /\ c2s'[Len(c2s')].kind \in InsertPackets
    <3>. c2s' = << >> <=> Len(c2s') = 0
      OBVIOUS
    <3>. QED  BY DEF WriterContinues, nativeVars
  <2>1. c2s[Len(c2s)].q = cur /\ c2s[Len(c2s)].kind \in InsertPackets
    BY DEF WireInv, WriterContinues
  <2>2. CASE Len(c2s') = 0
    <3>. Len(c2s) = 1
      BY <2>2
    <3>1. c2s[1].q = cur /\ kind \in {"Insert", "Block", "End"}
      <4>. c2s[Len(c2s)] = c2s[1]
        OBVIOUS
      <4>. QED  BY <2>1 DEF InsertPackets
    <3>2. kind # "Insert" => c2s[1].q = srv.q
      BY <3>1 DEF WireInv, Follows
    <3>. QED  BY <2>2, <3>1, <3>2
  <2>3. CASE Len(c2s') # 0
    BY <2>1, <2>3
  <2>. QED  BY <2>2, <2>3
<1>3. EndsAreSent'
  BY DEF WireInv, EndsAreSent, nativeVars
<1>4. Numbered' /\ AbortedIsFinal'
  BY DEF WireInv, Numbered, AbortedIsFinal, nativeVars
<1>. QED  BY <1>1, <1>2, <1>3, <1>4 DEF WireInv

\* A step that sends nothing and takes nothing.
LEMMA QuietWire ==
  ASSUME WireInv, UNCHANGED <<alive, c2s, committed, cur, aborted, endSent, asked>>,
         srv'.q = srv.q, state' = state \/ state' # "Inserting"
  PROVE  WireInv'
<1>1. Numbered'
  BY DEF WireInv, Numbered
<1>2. Follows'
  BY DEF WireInv, Follows
<1>3. WriterContinues'
  BY DEF WireInv, WriterContinues
<1>4. EndsAreSent'
  BY DEF WireInv, EndsAreSent
<1>5. AbortedIsFinal'
  BY DEF WireInv, AbortedIsFinal
<1>. QED  BY <1>1, <1>2, <1>3, <1>4, <1>5 DEF WireInv

\* A step after which nothing is on the wire and nothing will be written to it.
LEMMA EmptyWire ==
  ASSUME WireInv, c2s' = << >>, UNCHANGED <<committed, endSent>>,
         state' # "Inserting" \/ ~alive', Numbered', AbortedIsFinal'
  PROVE  WireInv'
<1>1. Follows' /\ WriterContinues' /\ EndsAreSent'
  BY NoPackets DEF WireInv, Follows, WriterContinues, EndsAreSent
<1>. QED  BY <1>1 DEF WireInv

\* A step of the server or the loss of the connection keeps WireInv.
LEMMA EnvironmentWire ==
  ASSUME TypeOK, WireInv, Environment
  PROVE  WireInv'
<1>. UNCHANGED <<nativeVars, asked>>
  BY DEF Environment, objVars
<1>. UNCHANGED <<state, cur, aborted, endSent, asked>>
  BY DEF nativeVars
<1>. /\ \A mode, q : Session(mode, q).q = q
     /\ committed \subseteq endSent
  BY DEF Session, WireInv, EndsAreSent
<1>1. CASE ServerTakesQuery
  BY <1>1, ConsumeWire DEF ServerTakesQuery, ToServer
<1>2. CASE ServerSendsRows \/ ServerEndsQuery \/ ServerOpensInsert
  BY <1>2, QuietWire DEF ServerSendsRows, ServerEndsQuery, ServerOpensInsert, outbox
<1>3. CASE ServerTakesCancel
  BY <1>3, ConsumeWire DEF ServerTakesCancel, ToServer
<1>4. CASE ServerTakesPing
  BY <1>4, ConsumeWire DEF ServerTakesPing, ToServer
<1>5. CASE ServerTakesInsert
  BY <1>5, ConsumeWire DEF ServerTakesInsert, ToServer
<1>6. CASE ServerTakesBlock
  BY <1>6, ConsumeWire DEF ServerTakesBlock, ToServer
<1>7. CASE ServerTakesEnd
  <2>1. c2s \in Seq(ToServerPackets) /\ c2s # << >> /\ Head(c2s).kind = "End"
    BY <1>7, OutboxType DEF ServerTakesEnd, Consume
  <2>2. Len(c2s) \in Nat \ {0} /\ c2s[1].kind = "End"
    BY <2>1, TailPacket
  <2>3. srv.q \in endSent
    BY <2>2 DEF WireInv, Follows, EndsAreSent
  <2>4. committed' \subseteq endSent
    BY <1>7, <2>3 DEF ServerTakesEnd
  <2>. QED  BY <1>7, <2>4, ConsumeWire DEF ServerTakesEnd, ToServer
<1>8. CASE ServerHangsUp \/ Break
  <2>1. Numbered' /\ AbortedIsFinal'
    BY DEF WireInv, Numbered, AbortedIsFinal
  <2>. QED  BY <1>8, <2>1, EmptyWire DEF ServerHangsUp, Break
<1>. QED
  BY <1>1, <1>2, <1>3, <1>4, <1>5, <1>6, <1>7, <1>8 DEF Environment, Server

\* A packet loop or a callback keeps WireInv: it sends at most a Cancel.
LEMMA NativeWire ==
  ASSUME TypeOK, ControlInv, WireInv, Native
  PROVE  WireInv'
<1>. UNCHANGED asked
  BY DEF Native, objVars
<1>1. ASSUME Receive \/ ReceiveFails \/ UNCHANGED wireVars
      PROVE  UNCHANGED <<alive, c2s, committed>> /\ srv'.q = srv.q
  BY <1>1 DEF Receive, ReceiveFails, outbox, wireVars
<1>2. ASSUME Callback \/ PacketLoop, ~SendCancel
      PROVE  /\ UNCHANGED <<cur, aborted, endSent>>
             /\ state' = state \/ state' # "Inserting"
             /\ Receive \/ ReceiveFails \/ UNCHANGED wireVars
  BY <1>2 DEF Callback, PacketLoop, Read, Goto, Unwind, ReceiveThrows, CallbackContinues,
        CallbackStops, CallbackThrows,
        NextBlockData, NextBlockInfo, NextBlockSkips, NextBlockEnds, NextBlockThrows,
        SampleSkips, SampleInfo, SampleReturns, SampleThrows, EndSkips,
        EndReturns, EndThrows, PongReturns, PongThrows
<1>3. CASE SendCancel
  <2>. cur \in Tags /\ state = "Selecting"
    BY <1>3 DEF TypeOK, NativeTypeOK, SendCancel, ControlInv, LoopState
  <2>1. UNCHANGED <<cur, aborted, endSent>> /\ state' # "Inserting"
    BY <1>3 DEF SendCancel, Goto, Unwind
  <2>2. Follows' /\ EndsAreSent'
    BY <1>3, <2>1, SendWire DEF SendCancel, WireInv, ToServer
  <2>3. Numbered' /\ AbortedIsFinal' /\ WriterContinues'
    BY <2>1 DEF WireInv, Numbered, AbortedIsFinal, WriterContinues
  <2>. QED  BY <2>2, <2>3 DEF WireInv
<1>. QED  BY <1>1, <1>2, <1>3, QuietWire DEF Native

\* Starting a query or an insert keeps WireInv: its number is fresh.
LEMMA BeginWire ==
  ASSUME TypeOK, WireInv, NEW q \in Tags,
         BeginExecuteQuery(q) \/ BeginInsert(q),
         asked' \in Tags, asked <= asked', q <= asked', BeginInsert(q) => q = asked + 1
  PROVE  WireInv'
<1>. /\ cur' = q /\ UNCHANGED <<aborted, endSent>>
     /\ asked \in Nat /\ asked' \in Nat /\ aborted \subseteq Nat /\ q \in Nat
  BY DEF BeginExecuteQuery, BeginInsert, TypeOK, NativeTypeOK, Tags
<1>1. Numbered'
  BY DEF WireInv, Numbered
<1>2. CASE BeginExecuteQuery(q)
  <2>1. Follows' /\ EndsAreSent'
    BY <1>2, SendWire DEF BeginExecuteQuery, WireInv, ToServer
  <2>2. WriterContinues' /\ AbortedIsFinal'
    BY <1>2 DEF BeginExecuteQuery, WriterContinues, WireInv, AbortedIsFinal
  <2>. QED  BY <1>1, <2>1, <2>2 DEF WireInv
<1>3. CASE BeginInsert(q)
  <2>1. Send("Insert", q) \/ SendFails("Insert", q)
    BY <1>3 DEF BeginInsert
  <2>2. /\ Follows' /\ EndsAreSent' /\ alive' = alive
        /\ alive => /\ c2s' # << >> /\ c2s'[Len(c2s')].q = q
                    /\ c2s'[Len(c2s')].kind \in InsertPackets
    BY <2>1, SendWire DEF WireInv, ToServer, InsertPackets
  <2>3. WriterContinues'
    BY <2>2 DEF WriterContinues
  <2>4. AbortedIsFinal'
    BY <1>3 DEF WireInv, AbortedIsFinal, Numbered
  <2>. QED  BY <1>1, <2>2, <2>3, <2>4 DEF WireInv
<1>. QED  BY <1>2, <1>3

\* SendInsertBlock and the end marker of EndInsert and ~Impl continue the open insert.
LEMMA ContinueWire ==
  ASSUME TypeOK, WireInv, state = "Inserting", NEW kind \in {"Block", "End"},
         Send(kind, cur) \/ SendFails(kind, cur),
         UNCHANGED <<cur, aborted, asked>>,
         endSent' = IF kind = "End" THEN endSent \union {cur} ELSE endSent
  PROVE  WireInv'
<1>. cur \in Tags
  BY DEF TypeOK, NativeTypeOK
<1>1. /\ Follows' /\ EndsAreSent' /\ alive' = alive
      /\ alive => /\ c2s' # << >> /\ c2s'[Len(c2s')].q = cur
                  /\ c2s'[Len(c2s')].kind \in InsertPackets
  <2>1. alive => IF c2s = << >> THEN srv.q = cur
                 ELSE c2s[Len(c2s)].q = cur /\ c2s[Len(c2s)].kind \in InsertPackets
    BY DEF WireInv, WriterContinues
  <2>. QED  BY <2>1, SendWire DEF WireInv, ToServer, InsertPackets
<1>2. WriterContinues'
  BY <1>1 DEF WriterContinues
<1>3. Numbered' /\ AbortedIsFinal'
  BY DEF WireInv, Numbered, AbortedIsFinal
<1>. QED  BY <1>1, <1>2, <1>3 DEF WireInv

\* SendInsertBlock, EndInsert and the destructor keep WireInv.
LEMMA InsertCallWire ==
  ASSUME TypeOK, WireInv, UNCHANGED asked,
         SendInsertBlock \/ SendInsertBlockThrows \/ EndInsert \/ Destroy
  PROVE  WireInv'
<1>1. ASSUME UNCHANGED <<wireVars, cur, aborted, endSent>>, state' = state \/ state' # "Inserting"
      PROVE  WireInv'
  BY <1>1, QuietWire DEF wireVars
<1>2. CASE SendInsertBlock
  BY <1>2, ContinueWire DEF SendInsertBlock, nativeVars
<1>3. CASE SendInsertBlockThrows
  BY <1>1, <1>3, ContinueWire DEF SendInsertBlockThrows, nativeVars
<1>4. CASE EndInsert
  BY <1>1, <1>4, ContinueWire DEF EndInsert
<1>5. CASE Destroy
  BY <1>1, <1>5, ContinueWire DEF Destroy
<1>. QED  BY <1>2, <1>3, <1>4, <1>5

\* A reconnect keeps WireInv: the insert it gives up can no longer be continued.
LEMMA ResetWire ==
  ASSUME TypeOK, WireInv, ResetConnection, UNCHANGED asked
  PROVE  WireInv'
<1>1. state' = "Idle" /\ UNCHANGED <<cur, endSent>>
  BY DEF ResetConnection
<1>2. Numbered' /\ AbortedIsFinal'
  BY <1>1 DEF ResetConnection, WireInv, Numbered, AbortedIsFinal
<1>3. UNCHANGED committed
  BY DEF ResetConnection, ConnectRefused, HandshakeFails
<1>4. CASE c2s' = << >>
  BY <1>1, <1>2, <1>3, <1>4, EmptyWire
<1>5. CASE UNCHANGED <<alive, outbox, srv>>
  BY <1>1, <1>2, <1>3, <1>5 DEF WireInv, Follows, WriterContinues, EndsAreSent, outbox
<1>. QED
  BY <1>4, <1>5 DEF ResetConnection, FreshSocket, ConnectRefused, HandshakeFails

\* A call of the script keeps WireInv.
LEMMA ScriptWire ==
  ASSUME TypeOK, ControlInv, WireInv, Script
  PROVE  WireInv'
<1>. /\ asked \in Tags /\ asked \in Nat
     /\ UseTag \in Tags
  BY UseTagIsTag DEF TypeOK, Tags
<1>1. CASE Select \/ OpenInsert
  <2>1. asked' \in Tags /\ asked' = asked + 1
    BY <1>1, NextNumberType DEF Select, OpenInsert
  <2>. QED  BY <1>1, <2>1, BeginWire DEF Select, OpenInsert
<1>2. CASE PingServer
  <2>1. /\ UNCHANGED <<cur, aborted, endSent, asked>> /\ state' # "Inserting"
        /\ Send("Ping", cur) \/ SendFails("Ping", cur)
    BY <1>2 DEF PingServer, Ping
  <2>2. Follows' /\ EndsAreSent'
    BY <2>1, SendWire DEF WireInv, ToServer, TypeOK, NativeTypeOK
  <2>3. Numbered' /\ AbortedIsFinal' /\ WriterContinues'
    BY <2>1 DEF WireInv, Numbered, AbortedIsFinal, WriterContinues
  <2>. QED  BY <2>2, <2>3 DEF WireInv
<1>3. CASE Write \/ ResetByScript
  BY <1>3, QuietWire DEF Write, ResetByScript, wireVars, nativeVars
<1>4. CASE WriteEnd \/ FreeObject
  BY <1>4, InsertCallWire DEF WriteEnd, FreeObject
<1>5. CASE SetDatabase \/ Construct
  <2>1. /\ c2s' = << >>
        /\ UNCHANGED <<committed, cur, endSent, aborted, asked>> /\ state' = "Idle"
    BY <1>5 DEF SetDatabase, Construct, FreshSocket, nativeVars, objVars, ControlInv, FreedIsIdle
  <2>2. Numbered' /\ AbortedIsFinal'
    BY <2>1 DEF WireInv, Numbered, AbortedIsFinal
  <2>. QED  BY <2>1, <2>2, EmptyWire
<1>. QED  BY <1>1, <1>2, <1>3, <1>4, <1>5 DEF Script

\* A step inside a method keeps WireInv.
LEMMA MethodWire ==
  ASSUME TypeOK, ControlInv, WireInv, Method
  PROVE  WireInv'
<1>. asked \in Tags /\ asked \in Nat
  BY DEF TypeOK, Tags
<1>. UNCHANGED asked
  BY Zenon DEF Method, SelectReturns, PingServerReturns, OpenInsertReturns, SendRows,
         SendRowsThrows, RowsDone, RowsThrow, FinishReturns, FinishThrows, CloseReturns,
         Reset, Rotate, UseDatabase, UseDatabaseReturns, Recovered, Unrecovered
<1>1. UNCHANGED <<wireVars, nativeVars>> => WireInv'
  BY QuietWire DEF wireVars, nativeVars
<1>2. CASE UseDatabase
  <2>. BeginExecuteQuery(UseTag) /\ UseTag \in Tags /\ ~BeginInsert(UseTag)
    BY <1>2, UseTagIsTag DEF UseDatabase, BeginExecuteQuery, BeginInsert, Send, SendFails
  <2>. QED  BY BeginWire
<1>3. CASE Reset \/ Rotate
  BY <1>3, ResetWire DEF Reset, Rotate, ResetConnectionEndpoint
<1>4. SendInsertBlock \/ SendInsertBlockThrows \/ EndInsert => WireInv'
  BY InsertCallWire
<1>. QED
  BY <1>1, <1>2, <1>3, <1>4
     DEF Method, SelectReturns, PingServerReturns, OpenInsertReturns, SendRows,
         SendRowsThrows, RowsDone, RowsThrow, FinishReturns, FinishThrows, CloseReturns,
         UseDatabaseReturns, Recovered, Unrecovered

\* Every step keeps WireInv.
LEMMA WireStep ==
  ASSUME TypeOK, ControlInv, WireInv, [Next]_vars
  PROVE  WireInv'
<1>1. UNCHANGED vars => WireInv'
  BY QuietWire DEF vars, wireVars, nativeVars, objVars
<1>. QED  BY <1>1, ScriptWire, MethodWire, NativeWire, EnvironmentWire DEF Next

\* WireInv holds of a freshly constructed object.
LEMMA WireInvInit == Init => WireInv
<1>. SUFFICES ASSUME Init PROVE WireInv
  OBVIOUS
<1>. Len(<< >>) = 0
  BY NoPackets
<1>. QED
  BY DEF Init, WireInit, NativeInit, WireInv, Numbered, Follows, WriterContinues, EndsAreSent,
         AbortedIsFinal

\* The invariant that ties the control places of the extension to the state_ of the native
\* client, and the packets on the wire to the insert they belong to, holds in every
\* reachable state of the object.
THEOREM Inductive == Spec => []IInv
<1>1. Init => IInv
  BY TypeInit, ControlInit, WireInvInit DEF IInv
<1>2. IInv /\ [Next]_vars => IInv'
  BY TypeStep, ControlStep, WireStep DEF IInv
<1>. QED  BY <1>1, <1>2, PTL DEF Spec

\* An insert that a reset gave up before its end marker was written is never committed,
\* although the old socket may survive a refused reconnect and the output buffer may still
\* hold packets: no later query, insert or destructor ends it (ResetConnection's early
\* state_ = Idle).
THEOREM AbandonedIsNeverCommitted == Spec => []AbandonedNeverCommitted
<1>1. IInv => AbandonedNeverCommitted
  BY DEF IInv, WireInv, EndsAreSent, AbortedIsFinal, AbandonedNeverCommitted
<1>. QED  BY <1>1, Inductive, PTL

------------------------------------------------------------------------------
(* The server's session, as the object knows it. *)

(***************************************************************************)
(* The kinds of the packets of a queue, and their order.                   *)
(***************************************************************************)

\* An empty queue has no packet of any kind.
LEMMA EmptyKinds ==
  /\ Kinds(<< >>) = {}
  /\ \A K : Lacks(<< >>, K)
  /\ \A K, q : AllOf(<< >>, K, q)
  /\ \A F, A : NoneAfter(<< >>, F, A)
<1>. Len(<< >>) = 0
  BY NoPackets
<1>. QED  BY DEF Kinds, Lacks, AllOf, NoneAfter

\* A queue of one packet.
LEMMA SingleKinds ==
  ASSUME NEW p
  PROVE  /\ Kinds(<<p>>) = {p.kind}
         /\ \A F, A : NoneAfter(<<p>>, F, A)
         /\ \A K, q : p.kind \notin K => AllOf(<<p>>, K, q)
<1>. Len(<<p>>) = 1 /\ <<p>>[1] = p /\ 1 .. 1 = {1}
  OBVIOUS
<1>. QED  BY DEF Kinds, AllOf, NoneAfter

\* Appending a packet adds its kind, after all the others.
LEMMA AppendKinds ==
  ASSUME NEW S, NEW s \in Seq(S), NEW p \in S
  PROVE  /\ Kinds(Append(s, p)) = Kinds(s) \union {p.kind}
         /\ \A K, q : AllOf(s, K, q) /\ (p.kind \in K => p.q = q) => AllOf(Append(s, p), K, q)
         /\ \A F, A : NoneAfter(s, F, A) /\ (p.kind \in A => Lacks(s, F))
                        => NoneAfter(Append(s, p), F, A)
<1>. DEFINE t == Append(s, p)
<1>0. /\ Len(s) \in Nat /\ Len(t) = Len(s) + 1 /\ t[Len(s) + 1] = p
      /\ \A i \in 1 .. Len(s) : t[i] = s[i]
  BY AppendPacket
<1>. HIDE DEF t
<1>1. /\ \A i \in 1 .. Len(t) : i \in 1 .. Len(s) \/ i = Len(t)
      /\ \A i \in 1 .. Len(s) : i \in 1 .. Len(t) /\ i < Len(t)
      /\ Len(t) \in 1 .. Len(t) /\ t[Len(t)] = p
  BY <1>0
<1>2. Kinds(t) = Kinds(s) \union {p.kind}
  <2>1. \A k : k \in Kinds(t) <=> \E i \in 1 .. Len(t) : t[i].kind = k
    BY DEF Kinds
  <2>2. \A k : k \in Kinds(s) <=> \E i \in 1 .. Len(s) : s[i].kind = k
    BY DEF Kinds
  <2>3. \A k : k \in Kinds(t) <=> k \in Kinds(s) \/ k = p.kind
    BY <1>0, <1>1, <2>1, <2>2
  <2>. QED  BY <2>3
<1>3. \A K, q : AllOf(s, K, q) /\ (p.kind \in K => p.q = q) => AllOf(t, K, q)
  BY <1>0, <1>1 DEF AllOf
<1>4. ASSUME NEW F, NEW A, NoneAfter(s, F, A), p.kind \in A => Lacks(s, F)
      PROVE  NoneAfter(t, F, A)
  <2>. SUFFICES ASSUME NEW i \in 1 .. Len(t), NEW j \in 1 .. Len(t), i < j,
                       t[i].kind \in F, t[j].kind \in A
                PROVE  FALSE
    BY DEF NoneAfter
  <2>1. i \in 1 .. Len(s) /\ t[i] = s[i]
    BY <1>0, <1>1
  <2>2. CASE j = Len(t)
    BY <1>1, <1>4, <2>1, <2>2 DEF Lacks, Kinds
  <2>3. CASE j \in 1 .. Len(s)
    BY <1>0, <1>4, <2>1, <2>3 DEF NoneAfter
  <2>. QED  BY <1>1, <2>2, <2>3
<1>. QED  BY <1>2, <1>3, <1>4 DEF t

\* Taking the first packet takes its kind, before all the others.
LEMMA TailKinds ==
  ASSUME NEW S, NEW s \in Seq(S), s # << >>
  PROVE  /\ Kinds(s) = Kinds(Tail(s)) \union {Head(s).kind}
         /\ \A K, q : AllOf(s, K, q) => /\ AllOf(Tail(s), K, q)
                                        /\ Head(s).kind \in K => Head(s).q = q
         /\ \A F, A : NoneAfter(s, F, A) => /\ NoneAfter(Tail(s), F, A)
                                            /\ Head(s).kind \in F => Lacks(Tail(s), A)
<1>. DEFINE t == Tail(s)
            h == Head(s)
<1>0. /\ Len(s) \in Nat \ {0} /\ Len(t) = Len(s) - 1 /\ h = s[1]
      /\ \A i \in 1 .. Len(t) : t[i] = s[i + 1]
  BY TailPacket
<1>. HIDE DEF t, h
<1>1. /\ \A i \in 1 .. Len(s) : i = 1 \/ (i - 1 \in 1 .. Len(t) /\ s[i] = t[i - 1])
      /\ \A i \in 1 .. Len(t) : i + 1 \in 1 .. Len(s) /\ 1 < i + 1
      /\ 1 \in 1 .. Len(s)
  BY <1>0
<1>2. Kinds(s) = Kinds(t) \union {h.kind}
  <2>1. \A k : k \in Kinds(t) <=> \E i \in 1 .. Len(t) : t[i].kind = k
    BY DEF Kinds
  <2>2. \A k : k \in Kinds(s) <=> \E i \in 1 .. Len(s) : s[i].kind = k
    BY DEF Kinds
  <2>3. \A k : k \in Kinds(s) <=> k \in Kinds(t) \/ k = h.kind
    BY <1>0, <1>1, <2>1, <2>2
  <2>. QED  BY <2>3
<1>3. \A K, q : AllOf(s, K, q) => AllOf(t, K, q) /\ (h.kind \in K => h.q = q)
  BY <1>0, <1>1 DEF AllOf
<1>4. ASSUME NEW F, NEW A, NoneAfter(s, F, A)
      PROVE  NoneAfter(t, F, A) /\ (h.kind \in F => Lacks(t, A))
  <2>1. NoneAfter(t, F, A)
    <3>. SUFFICES ASSUME NEW i \in 1 .. Len(t), NEW j \in 1 .. Len(t), i < j,
                         t[i].kind \in F, t[j].kind \in A
                  PROVE  FALSE
      BY DEF NoneAfter
    <3>. i + 1 \in 1 .. Len(s) /\ j + 1 \in 1 .. Len(s) /\ i + 1 < j + 1
      BY <1>1
    <3>. QED  BY <1>0, <1>4 DEF NoneAfter
  <2>2. ASSUME h.kind \in F PROVE Lacks(t, A)
    <3>. SUFFICES ASSUME NEW j \in 1 .. Len(t), t[j].kind \in A
                  PROVE  FALSE
      BY DEF Lacks, Kinds
    <3>. j + 1 \in 1 .. Len(s) /\ 1 \in 1 .. Len(s) /\ 1 < j + 1
      BY <1>1
    <3>. QED  BY <1>0, <1>4, <2>2 DEF NoneAfter
  <2>. QED  BY <2>1, <2>2
<1>. QED  BY <1>2, <1>3, <1>4 DEF t, h

\* Nothing follows a packet that is not there, and it is of any query.
LEMMA NoneFollows ==
  ASSUME NEW s, NEW F, Lacks(s, F)
  PROVE  (\A A : NoneAfter(s, F, A)) /\ (\A q : AllOf(s, F, q))
  BY DEF Lacks, Kinds, NoneAfter, AllOf

(***************************************************************************)
(* What a step of the wire does to the kinds of its packets.               *)
(***************************************************************************)

\* The packets of the wire have their types, and so do their kinds.
LEMMA WireKinds ==
  ASSUME TypeOK
  PROVE  /\ c2s \in Seq(ToServerPackets) /\ s2c \in Seq(ToClientPackets)
         /\ Kinds(c2s) \subseteq ToServer /\ Kinds(s2c) \subseteq ToClient
         /\ srv \in [mode : Modes, q : Tags]
<1>1. /\ c2s \in Seq(ToServerPackets) /\ s2c \in Seq(ToClientPackets)
      /\ srv \in [mode : Modes, q : Tags]
  BY DEF TypeOK, WireTypeOK, ToServerPackets, ToClientPackets
<1>2. ASSUME NEW i \in 1 .. Len(c2s) PROVE c2s[i].kind \in ToServer
  <2>1. c2s[i] \in ToServerPackets
    BY <1>1
  <2>. QED  BY <2>1 DEF ToServerPackets
<1>3. ASSUME NEW i \in 1 .. Len(s2c) PROVE s2c[i].kind \in ToClient
  <2>1. s2c[i] \in ToClientPackets
    BY <1>1
  <2>. QED  BY <2>1 DEF ToClientPackets
<1>. QED  BY <1>1, <1>2, <1>3 DEF Kinds

\* A dead connection has an empty queue of packets for the server.
LEMMA DeadOutbox ==
  ASSUME TypeOK, DeadIsEmpty, ~alive
  PROVE  c2s = << >>
<1>. c2s \in Seq(ToServerPackets) /\ Kinds(c2s) \subseteq ToServer
  BY WireKinds
<1>. ASSUME c2s # << >> PROVE FALSE
  <2>1. Head(c2s).kind \in Kinds(c2s)
    BY TailKinds
  <2>. QED  BY <2>1 DEF DeadIsEmpty, Lacks
<1>. QED  OBVIOUS

\* The server consumes the first packet, which is before all that remains.
LEMMA Consumed ==
  ASSUME TypeOK, WireSession, NEW kind, Consume(kind)
  PROVE  /\ alive /\ held' = held
         /\ Head(c2s).kind = kind /\ Kinds(c2s) = Kinds(c2s') \union {kind}
         /\ kind \in Work => Head(c2s).q = cur
         /\ \A K, q : AllOf(c2s, K, q) => AllOf(c2s', K, q)
         /\ \A F, A : NoneAfter(c2s, F, A) => /\ NoneAfter(c2s', F, A)
                                              /\ kind \in F => Lacks(c2s', A)
<1>. c2s \in Seq(ToServerPackets) /\ c2s # << >> /\ c2s' = Tail(c2s)
  BY WireKinds, NoPackets DEF Consume, TypeOK, WireTypeOK
<1>. QED
  BY TailKinds DEF Consume, WireSession, IsCurrent

\* An answer is the last packet, unless input that cannot be decoded keeps it off.
LEMMA Answered ==
  ASSUME TypeOK, MalformedIsLast, NEW kind \in ToClient, NEW q \in Tags, Answer(kind, q)
  PROVE  \/ "Malformed" \in Kinds(s2c) /\ s2c' = s2c
         \/ /\ "Malformed" \notin Kinds(s2c)
            /\ Kinds(s2c') = Kinds(s2c) \union {kind}
            /\ \A K, t : AllOf(s2c, K, t) /\ (kind \in K => q = t) => AllOf(s2c', K, t)
            /\ \A F, A : NoneAfter(s2c, F, A) /\ (kind \in A => Lacks(s2c, F))
                           => NoneAfter(s2c', F, A)
<1>. DEFINE p == Packet(kind, q)
<1>0. s2c \in Seq(ToClientPackets) /\ p \in ToClientPackets
      /\ p.kind = kind /\ p.q = q
  BY WireKinds DEF Packet, ToServerPackets, ToClientPackets
<1>. HIDE DEF p
<1>1. CASE s2c # << >> /\ s2c[Len(s2c)].kind = "Malformed"
  <2>. Len(s2c) \in 1 .. Len(s2c)
    BY <1>0, <1>1
  <2>. QED  BY <1>1 DEF Answer, Kinds
<1>2. CASE ~(s2c # << >> /\ s2c[Len(s2c)].kind = "Malformed")
  <2>1. "Malformed" \notin Kinds(s2c)
    <3>. SUFFICES ASSUME NEW i \in 1 .. Len(s2c), s2c[i].kind = "Malformed" PROVE FALSE
      BY DEF Kinds
    <3>1. s2c # << >> /\ Len(s2c) \in 1 .. Len(s2c) /\ i < Len(s2c)
      BY <1>0, <1>2, NoPackets
    <3>2. s2c[Len(s2c)] \in ToClientPackets
      BY <1>0, <3>1
    <3>3. s2c[Len(s2c)].kind \in ToClient
      BY <3>2 DEF ToClientPackets
    <3>. QED  BY <3>1, <3>3 DEF MalformedIsLast, NoneAfter
  <2>2. s2c' = Append(s2c, p)
    BY <1>2 DEF Answer, p
  <2>3. /\ Kinds(Append(s2c, p)) = Kinds(s2c) \union {kind}
        /\ \A K, t : AllOf(s2c, K, t) /\ (kind \in K => q = t) => AllOf(Append(s2c, p), K, t)
        /\ \A F, A : NoneAfter(s2c, F, A) /\ (kind \in A => Lacks(s2c, F))
                       => NoneAfter(Append(s2c, p), F, A)
    BY <1>0, AppendKinds
  <2>. QED  BY <2>1, <2>2, <2>3
<1>. QED  BY <1>1, <1>2

\* A receive takes the first packet, or stays before input that cannot be decoded.
LEMMA Received ==
  ASSUME TypeOK, NEW kinds, Read(kinds)
  PROVE  /\ UNCHANGED <<alive, outbox, srv, committed>>
         /\ Head(s2c).kind \in kinds /\ Head(s2c).kind \in Kinds(s2c)
         /\ \/ Head(s2c).kind = "Malformed" /\ s2c' = s2c
            \/ /\ Head(s2c).kind # "Malformed"
               /\ Kinds(s2c) = Kinds(s2c') \union {Head(s2c).kind}
               /\ \A K, q : AllOf(s2c, K, q) => AllOf(s2c', K, q)
               /\ \A F, A : NoneAfter(s2c, F, A)
                              => /\ NoneAfter(s2c', F, A)
                                 /\ Head(s2c).kind \in F => Lacks(s2c', A)
<1>0. s2c \in Seq(ToClientPackets) /\ s2c # << >>
  BY WireKinds DEF Read, Receive
<1>1. s2c' = IF Head(s2c).kind = "Malformed" THEN s2c ELSE Tail(s2c)
  BY DEF Read, Receive
<1>2. /\ UNCHANGED <<alive, outbox, srv, committed>> /\ Head(s2c).kind \in kinds
  BY DEF Read, Receive
<1>3. Head(s2c).kind \in Kinds(s2c)
  BY <1>0, TailKinds
<1>4. CASE Head(s2c).kind # "Malformed" /\ s2c' = Tail(s2c)
  BY <1>0, <1>2, <1>3, <1>4, TailKinds
<1>. QED  BY <1>1, <1>2, <1>3, <1>4

\* Without timeouts a receive fails only at the end of a dead connection.
LEMMA ReceiveFailed ==
  ASSUME ~Timeouts, ReceiveFails
  PROVE  ~alive /\ s2c = << >> /\ UNCHANGED wireVars
  BY DEF ReceiveFails

\* A send that returns puts the packet behind all others, or meets a dead connection.
LEMMA Sent ==
  ASSUME TypeOK, WireSession, NEW kind \in ToServer, NEW q \in Tags, Send(kind, q)
  PROVE  /\ UNCHANGED <<alive, s2c, srv, committed>> /\ held' = 0
         /\ ~alive => c2s' = c2s
         /\ alive => /\ Kinds(c2s') = Kinds(c2s) \union {kind}
                     /\ \A K, t : AllOf(c2s, K, t) /\ (kind \in K => q = t) => AllOf(c2s', K, t)
                     /\ \A F, A : NoneAfter(c2s, F, A) /\ (kind \in A => Lacks(c2s, F))
                                    => NoneAfter(c2s', F, A)
<1>. DEFINE p == Packet(kind, q)
<1>0. c2s \in Seq(ToServerPackets) /\ p \in ToServerPackets
      /\ p.kind = kind /\ p.q = q
  BY WireKinds DEF Packet, ToServerPackets, ToClientPackets
<1>1. /\ UNCHANGED <<alive, s2c, srv, committed>> /\ held' = 0
      /\ ~alive => c2s' = c2s
      /\ alive => c2s' = Append(c2s, p)
  BY DEF Send
<1>. HIDE DEF p
<1>2. /\ Kinds(Append(c2s, p)) = Kinds(c2s) \union {kind}
      /\ \A K, t : AllOf(c2s, K, t) /\ (kind \in K => q = t) => AllOf(Append(c2s, p), K, t)
      /\ \A F, A : NoneAfter(c2s, F, A) /\ (kind \in A => Lacks(c2s, F))
                     => NoneAfter(Append(c2s, p), F, A)
  BY <1>0, AppendKinds
<1>. QED  BY <1>1, <1>2

\* Without timeouts a send fails only on a dead connection.
LEMMA SendFailed ==
  ASSUME ~Timeouts, NEW kind, NEW q, SendFails(kind, q)
  PROVE  ~alive /\ UNCHANGED wireVars
  BY DEF SendFails, SendMeetsDeadPeer, SendIsHeld, SendIsTorn

\* A step after which no reset is next is one without a timeout.
Steady == Timeouts => Plain /\ Plain' /\ ~ResetIsNext'

(***************************************************************************)
(* Where the object is in its insert, and what it has reported.            *)
(***************************************************************************)

\* Leaving a method reports an insert only if it is a finisher that returned.
LEMMA LeaveTold ==
  ASSUME NEW ok, Leave(ok), OneShotSuccessIsCommitted, UNCHANGED committed,
         ok /\ method \in OneShot => cur \in committed
  PROVE  OneShotSuccessIsCommitted'
<1>1. ASSUME told' = told PROVE OneShotSuccessIsCommitted'
  BY <1>1 DEF OneShotSuccessIsCommitted
<1>2. ASSUME ok, told' = told \union {<<method, cur>>} PROVE OneShotSuccessIsCommitted'
  BY <1>2 DEF OneShotSuccessIsCommitted, OneShot
<1>. QED  BY <1>1, <1>2 DEF Leave

\* A packet loop leaves the insert only with the end of it, which is an accepted one
\* because no reset is next while it runs.
LEMMA NativePlace ==
  ASSUME TypeOK, ControlInv, InsertPlace, SessionInv \/ ResetIsNext, Native
  PROVE  InsertPlace'
<1>0. GuardIsHeld /\ LoopState /\ LoopPlace
  BY DEF ControlInv
<1>1. call # "none" /\ UNCHANGED <<client, method, pc, has_insert_block, insert_query, told>>
  BY DEF Native, objVars, PacketLoop, Callback, NextBlockData, NextBlockInfo, NextBlockSkips,
         NextBlockEnds, NextBlockThrows, SendCancel, SampleSkips, SampleInfo, SampleReturns,
         SampleThrows, EndSkips, EndReturns, EndThrows, PongReturns, PongThrows,
         ReceiveThrows, CallbackContinues, CallbackStops, CallbackThrows
<1>2. UNCHANGED <<cur, committed>>
  BY DEF Native, PacketLoop, Callback, NextBlockData, NextBlockInfo, NextBlockSkips,
         NextBlockEnds, NextBlockThrows, SendCancel, SampleSkips, SampleInfo, SampleReturns,
         SampleThrows, EndSkips, EndReturns, EndThrows, PongReturns, PongThrows,
         ReceiveThrows, CallbackContinues, CallbackStops, CallbackThrows, Unwind, Goto, Read,
         Receive, ReceiveFails, Send, SendFails, SendMeetsDeadPeer, SendIsHeld, SendIsTorn,
         wireVars
<1>3. CASE EndReturns
  <2>1. call = "end" /\ pc \in {"finish", "close"} /\ SessionInv
    BY <1>0, <1>1, <1>3 DEF EndReturns, LoopPlace, GuardIsHeld, ResetIsNext
  <2>2. "EndOfStream" \in Kinds(s2c)
    BY <1>3, <2>1, Received DEF EndReturns, SessionInv
  <2>3. cur \in committed
    BY <1>0, <2>1, <2>2 DEF LoopState, SessionInv, ClientSession, InsertSession
  <2>. QED
    BY <1>1, <1>2, <1>3, <2>1, <2>3 DEF EndReturns, InsertPlace, OneShotSuccessIsCommitted
<1>4. CASE ~EndReturns
  <2>1. /\ state' = "Inserting" <=> state = "Inserting"
        /\ call = "end" /\ call' = "none" => ret' # "ok"
    BY <1>4 DEF Native, PacketLoop, Callback, NextBlockData, NextBlockInfo, NextBlockSkips,
         NextBlockEnds, NextBlockThrows, SendCancel, SampleSkips, SampleInfo, SampleReturns,
         SampleThrows, EndSkips, EndThrows, PongReturns, PongThrows,
         ReceiveThrows, CallbackContinues, CallbackStops, CallbackThrows, Unwind, Goto
  <2>. QED
    BY <1>0, <1>1, <1>2, <2>1 DEF LoopPlace, InsertPlace, OneShotSuccessIsCommitted
<1>. QED  BY <1>3, <1>4

\* What the script starts.
LEMMA ScriptPlace ==
  ASSUME TypeOK, ControlInv, InsertPlace, Script
  PROVE  InsertPlace'
<1>0. GuardIsHeld
  BY DEF ControlInv
<1>1. UNCHANGED committed /\ UNCHANGED told
  BY DEF Script, Select, PingServer, OpenInsert, Write, WriteEnd, ResetByScript, SetDatabase,
         FreeObject, Construct, objVars, BeginExecuteQuery, BeginInsert, Ping, EndInsert, Destroy,
         Send, SendFails, SendMeetsDeadPeer, SendIsHeld, SendIsTorn, wireVars
<1>2. CASE Select \/ PingServer
  BY <1>1, <1>2
     DEF Select, PingServer, Enter, BeginExecuteQuery, Ping, InsertPlace,
         OneShotSuccessIsCommitted, OneShot
<1>3. CASE OpenInsert
  BY <1>1, <1>3 DEF OpenInsert, Enter, BeginInsert, InsertPlace, OneShotSuccessIsCommitted
<1>4. CASE Write \/ ResetByScript
  BY <1>1, <1>4
     DEF Write, ResetByScript, Enter, ClearInsertState, nativeVars, InsertPlace,
         OneShotSuccessIsCommitted, OneShot
<1>5. CASE WriteEnd
  BY <1>1, <1>5 DEF WriteEnd, Enter, EndInsert, InsertPlace, OneShotSuccessIsCommitted, OneShot
<1>6. CASE SetDatabase \/ FreeObject \/ Construct
  <2>1. pc' = "idle" /\ state' # "Inserting"
    BY <1>0, <1>6 DEF SetDatabase, FreeObject, Construct, Guarded, GuardIsHeld, objVars,
         Destroy, nativeVars, ControlInv, FreedIsIdle
  <2>. QED  BY <1>1, <2>1 DEF InsertPlace, OneShotSuccessIsCommitted
<1>. QED  BY <1>2, <1>3, <1>4, <1>5, <1>6 DEF Script

\* The steps of a method.
LEMMA MethodPlaces ==
  ASSUME TypeOK, ControlInv, InsertPlace, Method
  PROVE  InsertPlace'
<1>0. GuardIsHeld /\ LoopPlace /\ Closed /\ MethodPlace
  BY DEF ControlInv
<1>1. UNCHANGED committed
  BY DEF Method, SelectReturns, PingServerReturns, OpenInsertReturns, SendRows,
         SendRowsThrows, RowsDone, RowsThrow, FinishReturns, FinishThrows, CloseReturns,
         Reset, Rotate, UseDatabase, UseDatabaseReturns, Recovered, Unrecovered,
         SendInsertBlock, SendInsertBlockThrows, EndInsert, ResetConnectionEndpoint,
         ResetConnection, ConnectRefused, HandshakeFails, BeginExecuteQuery,
         Send, SendFails, SendMeetsDeadPeer, SendIsHeld, SendIsTorn, wireVars
<1>2. CASE \/ SelectReturns \/ PingServerReturns \/ OpenInsertReturns \/ FinishReturns
           \/ CloseReturns \/ UseDatabaseReturns \/ Recovered \/ Unrecovered
  <2>1. UNCHANGED nativeVars
    BY <1>2 DEF SelectReturns, PingServerReturns, OpenInsertReturns, FinishReturns,
         CloseReturns, UseDatabaseReturns, Recovered, Unrecovered
  <2>2. UNCHANGED <<state, call, ret, cur>>
    BY <2>1 DEF nativeVars
  <2>3. OneShotSuccessIsCommitted'
    <3>1. told' = told => OneShotSuccessIsCommitted'
      BY <1>1 DEF InsertPlace, OneShotSuccessIsCommitted
    <3>2. CASE SelectReturns \/ PingServerReturns \/ FinishReturns
      BY <1>1, <3>1, <3>2, LeaveTold
         DEF SelectReturns, PingServerReturns, FinishReturns, At, GoOn, InsertPlace
    <3>3. CASE \/ OpenInsertReturns \/ CloseReturns \/ UseDatabaseReturns \/ Recovered
               \/ Unrecovered
      BY <1>1, <3>1, <3>3, LeaveTold
         DEF OpenInsertReturns, CloseReturns, UseDatabaseReturns, Recovered, Unrecovered, GoOn,
             InsertPlace, OneShot
    <3>. QED  BY <1>2, <3>2, <3>3
  <2>4. /\ pc' \in {"idle", "rows", "reset", "recovered", "unrecovered"}
        /\ pc' = "rows" => pc = "open"
        /\ \/ UNCHANGED <<has_insert_block, insert_query>>
           \/ ~has_insert_block'
           \/ insert_query' = cur
    BY <1>2 DEF SelectReturns, PingServerReturns, OpenInsertReturns, FinishReturns, CloseReturns,
         UseDatabaseReturns, Recovered, Unrecovered, At, GoOn, Leave, ClearInsertState
  <2>. QED  BY <2>2, <2>3, <2>4 DEF InsertPlace
<1>3. CASE SendRows \/ SendRowsThrows
  <2>1. /\ UNCHANGED <<state, call, ret, cur, has_insert_block, insert_query, told>>
        /\ pc = "rows" /\ pc' \in {"idle", "rows", "reset"}
        /\ pc' = "rows" => UNCHANGED method
    BY <1>3 DEF SendRows, SendRowsThrows, SendInsertBlock, SendInsertBlockThrows, nativeVars, At,
         GoOnSent, Leave, Finishers
  <2>. QED  BY <1>1, <2>1 DEF InsertPlace, OneShotSuccessIsCommitted
<1>4. CASE RowsDone \/ RowsThrow \/ FinishThrows
  <2>1. /\ UNCHANGED <<state, cur, told>> /\ pc \in {"rows", "finish"}
        /\ pc' \in {"finish", "close", "reset"}
        /\ pc' = "finish" => EndInsert /\ pc = "rows" /\ UNCHANGED method
        /\ UNCHANGED <<has_insert_block, insert_query>> \/ ~has_insert_block'
    BY <1>4 DEF RowsDone, RowsThrow, FinishThrows, EndInsert, nativeVars, At, GoOn,
         ClearInsertState
  <2>2. pc' = "finish" /\ method \in OneShot => call' # "none" \/ ret' # "ok"
    BY <2>1 DEF EndInsert, InsertPlace
  <2>. QED  BY <1>1, <2>1, <2>2 DEF InsertPlace, OneShotSuccessIsCommitted
<1>5. CASE Reset \/ Rotate \/ UseDatabase
  <2>1. /\ state' # "Inserting" /\ UNCHANGED told
        /\ pc' \in {"use", "using", "recovered", "rotate", "unrecovered"}
    BY <1>5 DEF Reset, Rotate, UseDatabase, ResetConnectionEndpoint, ResetConnection,
         BeginExecuteQuery, GoOn, AfterConnect
  <2>. QED  BY <1>1, <2>1 DEF InsertPlace, OneShotSuccessIsCommitted
<1>. QED  BY <1>2, <1>3, <1>4, <1>5 DEF Method

\* Every step keeps InsertPlace.
LEMMA PlaceStep ==
  ASSUME IInv, InsertPlace, SessionInv \/ ResetIsNext, [Next]_vars
  PROVE  InsertPlace'
<1>. TypeOK /\ ControlInv
  BY DEF IInv
<1>1. CASE UNCHANGED vars \/ Environment
  <2>1. UNCHANGED <<nativeVars, objVars>> /\ committed \subseteq committed'
    BY <1>1 DEF vars, wireVars, Environment, Server, Break, ServerTakesQuery, ServerSendsRows,
         ServerEndsQuery, ServerTakesCancel, ServerTakesPing, ServerTakesInsert,
         ServerOpensInsert, ServerTakesBlock, ServerTakesEnd, ServerHangsUp
  <2>. QED  BY <2>1 DEF nativeVars, objVars, InsertPlace, OneShotSuccessIsCommitted
<1>. QED  BY <1>1, NativePlace, ScriptPlace, MethodPlaces DEF Next

(***************************************************************************)
(* The server and the network.                                             *)
(***************************************************************************)

\* The kinds that make up each class of packets.
LEMMA KindClasses ==
  /\ Work \subseteq ToServer /\ Opens \subseteq Work /\ "Cancel" \notin Work /\ "Ping" \notin Work
  /\ Answers \subseteq ToClient /\ Ends \subseteq Answers
  /\ "Pong" \notin Answers /\ "Malformed" \notin Answers
  BY DEF Work, Opens, Answers, Ends, ToServer, ToClient

\* An answer for the query last sent keeps the order and the number of the answers.
LEMMA AnswerIsCurrent ==
  ASSUME TypeOK, WireSession, NEW kind \in ToClient, NEW q \in Tags, Answer(kind, q),
         kind \in Answers => q = cur
  PROVE  MalformedIsLast' /\ AllOf(s2c', Answers, cur)
<1>1. MalformedIsLast /\ AllOf(s2c, Answers, cur)
  BY DEF WireSession, IsCurrent
<1>2. CASE s2c' = s2c
  BY <1>1, <1>2 DEF MalformedIsLast
<1>3. CASE s2c' # s2c
  <2>1. /\ "Malformed" \notin Kinds(s2c)
        /\ \A K, t : AllOf(s2c, K, t) /\ (kind \in K => q = t) => AllOf(s2c', K, t)
        /\ \A F, A : NoneAfter(s2c, F, A) /\ (kind \in A => Lacks(s2c, F))
                       => NoneAfter(s2c', F, A)
    BY <1>1, <1>3, Answered
  <2>. QED  BY <1>1, <2>1 DEF MalformedIsLast, Lacks
<1>. QED  BY <1>2, <1>3

\* So does a reply of a server at work.
LEMMA ReplyIsCurrent ==
  ASSUME TypeOK, WireSession, srv.mode # "ready", NEW kind \in ToClient, Reply(kind)
  PROVE  MalformedIsLast' /\ AllOf(s2c', Answers, cur)
<1>. srv.q \in Tags /\ srv.q = cur
  BY WireKinds DEF WireSession, IsCurrent
<1>. QED  BY AnswerIsCurrent DEF Reply

\* A packet the server meets has the type of a packet.
LEMMA HeadPacket ==
  ASSUME TypeOK, alive, held < Len(c2s)
  PROVE  c2s # << >> /\ Head(c2s).q \in Tags /\ Head(c2s).kind \in Kinds(c2s)
<1>1. c2s \in Seq(ToServerPackets) /\ c2s # << >>
  BY WireKinds, NoPackets DEF TypeOK, WireTypeOK
<1>2. Head(c2s) \in ToServerPackets
  BY <1>1, TailPacket
<1>3. Head(c2s).kind \in Kinds(c2s)
  BY <1>1, TailKinds
<1>. QED  BY <1>1, <1>2, <1>3 DEF ToServerPackets

\* A step of the server or of the network keeps what the wire promises.
LEMMA EnvironmentWireSession ==
  ASSUME TypeOK, WireSession, Server \/ Break, UNCHANGED cur
  PROVE  WireSession'
<1>. /\ srv \in [mode : Modes, q : Tags]
     /\ WholePackets /\ DeadIsEmpty /\ MalformedIsLast /\ IsCurrent /\ OpensAlone
  BY WireKinds DEF WireSession
<1>a. UNCHANGED s2c => MalformedIsLast' /\ (AllOf(s2c, Answers, cur) => AllOf(s2c', Answers, cur))
  BY DEF MalformedIsLast
<1>1. CASE ServerTakesQuery
  BY <1>1, <1>a, Consumed
     DEF ServerTakesQuery, Session, Work, WireSession, WholePackets, DeadIsEmpty,
     IsCurrent, OpensAlone
<1>2. CASE ServerTakesInsert
  BY <1>2, <1>a, Consumed
     DEF ServerTakesInsert, Session, Work, WireSession, WholePackets, DeadIsEmpty,
     IsCurrent, OpensAlone
<1>3. CASE ServerTakesCancel
  <2>1. MalformedIsLast' /\ AllOf(s2c', Answers, cur)
    BY <1>3, <1>a, ReplyIsCurrent DEF ServerTakesCancel, IsCurrent, ToClient
  <2>. QED
    BY <1>3, <2>1, Consumed
       DEF ServerTakesCancel, Session, WireSession, WholePackets, DeadIsEmpty, IsCurrent,
       OpensAlone
<1>4. CASE ServerTakesBlock
  <2>1. MalformedIsLast' /\ AllOf(s2c', Answers, cur)
    BY <1>4, <1>a, ReplyIsCurrent DEF ServerTakesBlock, IsCurrent, ToClient
  <2>. QED
    BY <1>4, <2>1, Consumed
       DEF ServerTakesBlock, Session, WireSession, WholePackets, DeadIsEmpty, IsCurrent,
       OpensAlone
<1>5. CASE ServerTakesEnd
  <2>1. MalformedIsLast' /\ AllOf(s2c', Answers, cur)
    BY <1>5, <1>a, ReplyIsCurrent DEF ServerTakesEnd, IsCurrent, ToClient
  <2>. QED
    BY <1>5, <2>1, Consumed
       DEF ServerTakesEnd, Session, WireSession, WholePackets, DeadIsEmpty, IsCurrent,
       OpensAlone
<1>6. CASE ServerSendsRows
  <2>1. MalformedIsLast' /\ AllOf(s2c', Answers, cur)
    BY <1>6, ReplyIsCurrent DEF ServerSendsRows, ToClient
  <2>. QED
    BY <1>6, <2>1
       DEF ServerSendsRows, outbox, Session, WireSession, WholePackets, DeadIsEmpty,
       IsCurrent, OpensAlone
<1>7. CASE ServerEndsQuery
  <2>1. MalformedIsLast' /\ AllOf(s2c', Answers, cur)
    BY <1>7, ReplyIsCurrent DEF ServerEndsQuery, ToClient
  <2>. QED
    BY <1>7, <2>1
       DEF ServerEndsQuery, outbox, Session, WireSession, WholePackets, DeadIsEmpty,
       IsCurrent, OpensAlone
<1>8. CASE ServerOpensInsert
  <2>1. MalformedIsLast' /\ AllOf(s2c', Answers, cur)
    BY <1>8, ReplyIsCurrent DEF ServerOpensInsert, ToClient
  <2>. QED
    BY <1>8, <2>1
       DEF ServerOpensInsert, outbox, Session, WireSession, WholePackets, DeadIsEmpty,
       IsCurrent, OpensAlone
<1>9. CASE ServerTakesPing
  <2>1. Consume("Ping") /\ Head(c2s).q \in Tags
    BY <1>9, HeadPacket DEF ServerTakesPing, Consume
  <2>2. MalformedIsLast' /\ AllOf(s2c', Answers, cur)
    BY <1>9, <2>1, AnswerIsCurrent DEF ServerTakesPing, Answers, ToClient
  <2>. QED
    BY <1>9, <2>1, <2>2, Consumed
       DEF ServerTakesPing, WireSession, WholePackets, DeadIsEmpty, IsCurrent, OpensAlone
<1>10. CASE ServerHangsUp
  <2>1. Head(c2s).q \in Tags /\ Head(c2s).kind \in Kinds(c2s) /\ c2s # << >>
        /\ c2s \in Seq(ToServerPackets)
    BY <1>10, HeadPacket, WireKinds, NoPackets DEF ServerHangsUp
  <2>2. Head(c2s).kind \in Work
    BY <1>10, <2>1 DEF ServerHangsUp, Unexpected, Work, WholePackets
  <2>3. Head(c2s).q = cur
    BY <2>1, <2>2, TailKinds DEF IsCurrent
  <2>4. MalformedIsLast' /\ AllOf(s2c', Answers, cur)
    BY <1>10, <2>1, <2>3, AnswerIsCurrent DEF ServerHangsUp, ToClient
  <2>. QED
    BY <1>10, <2>4, EmptyKinds DEF ServerHangsUp, Session, WireSession, WholePackets,
         DeadIsEmpty, IsCurrent, OpensAlone
<1>11. CASE Break
  <2>1. MalformedIsLast' /\ AllOf(s2c', Answers, cur)
    BY <1>11, <1>a, EmptyKinds DEF Break, IsCurrent, MalformedIsLast
  <2>. QED
    BY <1>11, <2>1, EmptyKinds DEF Break, Session, WireSession, WholePackets,
         DeadIsEmpty, IsCurrent, OpensAlone
<1>. QED  BY <1>1, <1>2, <1>3, <1>4, <1>5, <1>6, <1>7, <1>8, <1>9, <1>10, <1>11 DEF Server

\* What the reply of a server at work does to the kinds of the answers.
LEMMA Replied ==
  ASSUME TypeOK, WireSession, NEW kind \in ToClient, Reply(kind)
  PROVE  \/ "Malformed" \in Kinds(s2c) /\ s2c' = s2c
         \/ /\ "Malformed" \notin Kinds(s2c)
            /\ Kinds(s2c') = Kinds(s2c) \union {kind}
            /\ \A F, A : NoneAfter(s2c, F, A) /\ (kind \in A => Lacks(s2c, F))
                           => NoneAfter(s2c', F, A)
<1>. srv.q \in Tags /\ MalformedIsLast
  BY WireKinds DEF WireSession
<1>. QED  BY Answered DEF Reply

\* A step of the server or of the network keeps what the client knows of the session.
LEMMA EnvironmentSession ==
  ASSUME TypeOK, ControlInv, SessionInv, Server \/ Break,
         UNCHANGED <<nativeVars, objVars>>
  PROVE  SessionInv'
<1>. /\ srv \in [mode : Modes, q : Tags]
     /\ WireSession /\ IdleIsQuiet /\ SelectSession /\ UseSession /\ OpenSession /\ InsertSession
     /\ InsertPlace /\ WholePackets /\ DeadIsEmpty /\ MalformedIsLast /\ IsCurrent /\ OpensAlone
  BY WireKinds DEF SessionInv, WireSession, ClientSession
<1>. UNCHANGED <<state, call, ret, cur, stopped, client, pc, method, has_insert_block,
                 insert_query, told>>
  BY DEF nativeVars, objVars
<1>0. LoopState
  BY DEF ControlInv
<1>a. WireSession'
  BY EnvironmentWireSession
<1>b. InsertPlace'
  <2>. committed \subseteq committed'
    BY DEF Server, ServerTakesQuery, ServerSendsRows, ServerEndsQuery, ServerTakesCancel,
         ServerTakesPing, ServerTakesInsert, ServerOpensInsert, ServerTakesBlock,
         ServerTakesEnd, ServerHangsUp, Break
  <2>. QED  BY DEF InsertPlace, OneShotSuccessIsCommitted
<1>. SUFFICES IdleIsQuiet' /\ SelectSession' /\ UseSession' /\ OpenSession' /\ InsertSession'
  BY <1>a, <1>b DEF SessionInv, ClientSession
<1>c. pc = "use" => srv.mode = "ready"
  BY DEF ControlInv, GuardIsHeld, LoopPlace, Closed, IdleIsQuiet, Quiet
<1>1. CASE ServerTakesQuery
  <2>1. IdleIsQuiet' /\ SelectSession' /\ UseSession'
    BY <1>1, <1>0, Consumed
       DEF ServerTakesQuery, Session, OpensAlone, IdleIsQuiet, Lacks, Quiet, Work,
       Answers, Ends, Opens, SelectSession, UseSession
  <2>2. OpenSession' /\ InsertSession'
    BY <1>1, <1>0, Consumed
       DEF ServerTakesQuery, OpenSession, InsertSession
  <2>. QED  BY <2>1, <2>2
<1>2. CASE ServerTakesInsert
  <2>1. IdleIsQuiet' /\ SelectSession' /\ UseSession'
    BY <1>2, <1>0, Consumed
       DEF ServerTakesInsert, IdleIsQuiet, Lacks, Quiet, Work, SelectSession, UseSession
  <2>2. OpenSession' /\ InsertSession'
    BY <1>2, <1>0, Consumed
       DEF ServerTakesInsert, Session, OpensAlone, OpenSession, Lacks, Work, Answers,
       Ends, Opens, Opening, InsertSession
  <2>. QED  BY <2>1, <2>2
<1>3. CASE ServerTakesCancel
  <2>1. IdleIsQuiet' /\ SelectSession' /\ UseSession'
    BY <1>3, <1>0, Consumed, Replied
       DEF ServerTakesCancel, Session, ToClient, IdleIsQuiet, Lacks, Quiet,
       SelectSession, UseSession
  <2>2. OpenSession' /\ InsertSession'
    BY <1>3, <1>0, Consumed, Replied
       DEF ServerTakesCancel, OpenSession, Lacks, Opening, InsertSession
  <2>. QED  BY <2>1, <2>2
<1>4. CASE ServerTakesBlock
  <2>1. IdleIsQuiet' /\ SelectSession' /\ UseSession'
    BY <1>4, <1>0, Consumed, Replied
       DEF ServerTakesBlock, ToClient, IdleIsQuiet, Quiet, SelectSession, UseSession
  <2>2. OpenSession' /\ InsertSession'
    BY <1>4, <1>0, Consumed, Replied
       DEF ServerTakesBlock, Session, ToClient, OpenSession, Lacks, Opening, InsertSession
  <2>. QED  BY <2>1, <2>2
<1>5. CASE ServerTakesEnd
  <2>1. IdleIsQuiet' /\ SelectSession' /\ UseSession'
    BY <1>5, <1>0, Consumed, Replied, NoneFollows
       DEF ServerTakesEnd, ToClient, IdleIsQuiet, Quiet, SelectSession, UseSession
  <2>2. OpenSession' /\ InsertSession'
    BY <1>5, <1>0, Consumed, Replied, NoneFollows
       DEF ServerTakesEnd, Session, ToClient, IsCurrent, OpenSession, Lacks, Opening,
       InsertSession
  <2>. QED  BY <2>1, <2>2
<1>6. CASE ServerSendsRows
  <2>1. IdleIsQuiet' /\ SelectSession' /\ UseSession'
    BY <1>6, <1>0, <1>c, Replied
       DEF ServerSendsRows, outbox, ToClient, IdleIsQuiet, Lacks, Quiet, Ends,
       SelectSession, UseSession, IsCurrent
  <2>2. OpenSession' /\ InsertSession'
    BY <1>6, <1>0, <1>c, Replied
       DEF ServerSendsRows, outbox, ToClient, OpenSession, Lacks, Ends, Opening,
       InsertSession
  <2>. QED  BY <2>1, <2>2
<1>7. CASE ServerEndsQuery
  <2>1. IdleIsQuiet' /\ SelectSession' /\ UseSession'
    BY <1>7, <1>0, Replied
       DEF ServerEndsQuery, Session, outbox, ToClient, IdleIsQuiet, Quiet, SelectSession,
       UseSession
  <2>2. OpenSession' /\ InsertSession'
    BY <1>7, <1>0, Replied
       DEF ServerEndsQuery, OpenSession, InsertSession
  <2>. QED  BY <2>1, <2>2
<1>8. CASE ServerOpensInsert
  <2>1. IdleIsQuiet' /\ SelectSession' /\ UseSession'
    BY <1>8, <1>0, Replied, NoneFollows
       DEF ServerOpensInsert, ToClient, IdleIsQuiet, Quiet, SelectSession, UseSession
  <2>2. OpenSession' /\ InsertSession'
    BY <1>8, <1>0, Replied, NoneFollows
       DEF ServerOpensInsert, Session, outbox, ToClient, OpensAlone, OpenSession, Lacks,
       Work, Ends, Opens, Opening, InsertSession
  <2>. QED  BY <2>1, <2>2
<1>9. CASE ServerTakesPing
  <2>a. Head(c2s).q \in Tags
    BY <1>9, HeadPacket DEF ServerTakesPing, Consume
  <2>b. \/ s2c' = s2c
        \/ /\ Kinds(s2c') = Kinds(s2c) \union {"Pong"}
           /\ \A F : NoneAfter(s2c, F, Answers) => NoneAfter(s2c', F, Answers)
    BY <1>9, <2>a, Answered DEF ServerTakesPing, ToClient, Answers
  <2>1. IdleIsQuiet' /\ SelectSession' /\ UseSession'
    BY <1>9, <1>0, <2>b, Consumed
       DEF ServerTakesPing, IdleIsQuiet, Lacks, Quiet, Answers, SelectSession, UseSession
  <2>2. OpenSession' /\ InsertSession'
    BY <1>9, <1>0, <2>b, Consumed
       DEF ServerTakesPing, OpenSession, Lacks, Answers, Ends, Opening, InsertSession
  <2>. QED  BY <2>1, <2>2
<1>10. CASE ServerHangsUp
  <2>a. Head(c2s).q \in Tags /\ Head(c2s).kind \in Kinds(c2s)
    BY <1>10, HeadPacket DEF ServerHangsUp
  <2>b. \/ "Malformed" \in Kinds(s2c) /\ s2c' = s2c
        \/ /\ "Malformed" \notin Kinds(s2c)
           /\ Kinds(s2c') = Kinds(s2c) \union {"Exception"}
           /\ \A F, A : NoneAfter(s2c, F, A) /\ Lacks(s2c, F) => NoneAfter(s2c', F, A)
    BY <1>10, <2>a, Answered DEF ServerHangsUp, ToClient
  <2>1. IdleIsQuiet' /\ SelectSession' /\ UseSession'
    BY <1>10, <1>0, <2>a, <2>b, EmptyKinds, NoneFollows
       DEF ServerHangsUp, Unexpected, WholePackets, IdleIsQuiet, Lacks, Quiet, Work,
       SelectSession, UseSession
  <2>2. OpenSession' /\ InsertSession'
    BY <1>10, <1>0, <2>a, <2>b, EmptyKinds, NoneFollows
       DEF ServerHangsUp, Session, Unexpected, WholePackets, OpenSession, Lacks, Work,
       Opening, InsertSession
  <2>. QED  BY <2>1, <2>2
<1>11. CASE Break
  <2>1. IdleIsQuiet' /\ SelectSession' /\ UseSession'
    BY <1>11, <1>0, EmptyKinds
       DEF Break, Session, IdleIsQuiet, Quiet, SelectSession, UseSession
  <2>2. OpenSession' /\ InsertSession'
    BY <1>11, <1>0, EmptyKinds
       DEF Break, Session, OpenSession, Opening, InsertSession
  <2>. QED  BY <2>1, <2>2
<1>. QED  BY <1>1, <1>2, <1>3, <1>4, <1>5, <1>6, <1>7, <1>8, <1>9, <1>10, <1>11 DEF Server

(***************************************************************************)
(* The packet loops and the callbacks.                                     *)
(***************************************************************************)

\* A read keeps what the wire promises.
LEMMA ReadWireSession ==
  ASSUME TypeOK, WireSession, NEW kinds, Read(kinds), UNCHANGED cur
  PROVE  WireSession'
<1>1. UNCHANGED <<alive, c2s, held, srv>>
  BY Received DEF outbox
<1>2. MalformedIsLast' /\ AllOf(s2c', Answers, cur)
  <2>. MalformedIsLast /\ AllOf(s2c, Answers, cur)
    BY DEF WireSession, IsCurrent
  <2>. QED  BY Received DEF MalformedIsLast
<1>. QED
  BY <1>1, <1>2 DEF WireSession, WholePackets, DeadIsEmpty, IsCurrent, OpensAlone

\* A packet loop that throws for what a socket call did is followed by a reset.
LEMMA UntimedCall ==
  ASSUME TypeOK, ControlInv, SessionInv, Steady, UNCHANGED objVars
  PROVE  /\ SendCancel /\ ~Send("Cancel", cur) => ~Timeouts
         /\ ReceiveThrows => ~Timeouts
<1>. SUFFICES ASSUME Timeouts, call' = "none", ret' = "error", call # "none"
              PROVE  FALSE
  BY DEF SendCancel, ReceiveThrows, Unwind
<1>1. pc \in {"query", "open", "finish", "close"}
  BY DEF Steady, Plain, ControlInv, LoopPlace
<1>. QED  BY <1>1 DEF Steady, ResetIsNext, objVars

\* A step of the native client keeps what the wire promises.
LEMMA NativeWireSession ==
  ASSUME TypeOK, ControlInv, SessionInv, Steady, PacketLoop \/ Callback, UNCHANGED objVars
  PROVE  WireSession'
<1>. WireSession
  BY DEF SessionInv
<1>0. UNCHANGED cur
  BY DEF PacketLoop, Callback, Goto, Unwind, NextBlockData, NextBlockInfo,
       NextBlockSkips, NextBlockEnds, NextBlockThrows, SendCancel, SampleSkips,
       SampleInfo, SampleReturns, SampleThrows, EndSkips, EndReturns, EndThrows,
       PongReturns, PongThrows, ReceiveThrows, CallbackContinues, CallbackStops,
       CallbackThrows
<1>1. UNCHANGED wireVars => WireSession'
  BY <1>0 DEF wireVars, WireSession, WholePackets, DeadIsEmpty, MalformedIsLast,
       IsCurrent, OpensAlone
<1>2. CASE SendCancel
  <2>1. Send("Cancel", cur) => WireSession'
    <3>. cur \in Tags
      BY DEF TypeOK, NativeTypeOK
    <3>. QED
      BY <1>0, Sent DEF WireSession, WholePackets, DeadIsEmpty, MalformedIsLast,
           IsCurrent, OpensAlone, ToServer, Work, Opens
  <2>. QED  BY <1>1, <1>2, <2>1, UntimedCall, SendFailed DEF SendCancel
<1>3. CASE ReceiveThrows
  BY <1>1, <1>3, UntimedCall, ReceiveFailed DEF ReceiveThrows
<1>4. CASE Callback
  BY <1>1, <1>4 DEF Callback, CallbackContinues, CallbackStops, CallbackThrows
<1>. QED
  BY <1>0, <1>2, <1>3, <1>4, ReadWireSession
     DEF PacketLoop, NextBlockData, NextBlockInfo, NextBlockSkips, NextBlockEnds,
     NextBlockThrows, SampleSkips, SampleInfo, SampleReturns, SampleThrows, EndSkips,
     EndReturns, EndThrows, PongReturns, PongThrows

\* A step of the native client keeps what it knows of the session.
LEMMA NativeSession ==
  ASSUME TypeOK, ControlInv, SessionInv, Steady, PacketLoop \/ Callback, UNCHANGED objVars,
         InsertPlace'
  PROVE  SessionInv'
<1>. /\ srv \in [mode : Modes, q : Tags]
     /\ WireSession /\ IdleIsQuiet /\ SelectSession /\ UseSession /\ OpenSession /\ InsertSession
     /\ InsertPlace /\ DeadIsEmpty
  BY WireKinds DEF SessionInv, WireSession, ClientSession
<1>. UNCHANGED <<client, pc, method, has_insert_block, insert_query, told>>
  BY DEF objVars
<1>0. LoopState /\ LoopPlace
  BY DEF ControlInv
<1>a. WireSession'
  BY NativeWireSession
<1>. SUFFICES /\ IdleIsQuiet' /\ SelectSession' /\ UseSession' /\ OpenSession'
              /\ InsertSession'
  BY <1>a DEF SessionInv, ClientSession
<1>1. CASE NextBlockData \/ NextBlockInfo \/ NextBlockSkips
  <2>1. IdleIsQuiet' /\ SelectSession' /\ UseSession'
    BY <1>1, <1>0, Received
       DEF NextBlockData, NextBlockInfo, NextBlockSkips, Goto, outbox, UserCallbacks,
       IdleIsQuiet, SelectSession, UseSession, Lacks
  <2>2. OpenSession' /\ InsertSession'
    BY <1>1, <1>0, Received
       DEF NextBlockData, NextBlockInfo, NextBlockSkips, Goto, OpenSession,
       InsertSession, LoopPlace
  <2>. QED  BY <2>1, <2>2
<1>2. CASE NextBlockEnds \/ NextBlockThrows
  <2>1. IdleIsQuiet' /\ SelectSession' /\ UseSession'
    BY <1>2, <1>0, Received
       DEF NextBlockEnds, NextBlockThrows, Unwind, outbox, IdleIsQuiet, SelectSession,
       UseSession, LoopPlace, Lacks, Quiet, Work, Answers, Ends
  <2>2. OpenSession' /\ InsertSession'
    BY <1>2, <1>0, Received
       DEF NextBlockEnds, NextBlockThrows, Unwind, OpenSession, InsertSession, LoopPlace
  <2>. QED  BY <2>1, <2>2
<1>3. CASE SampleSkips \/ SampleInfo \/ EndSkips
  <2>1. IdleIsQuiet' /\ SelectSession' /\ UseSession'
    BY <1>3, <1>0, Received
       DEF SampleSkips, SampleInfo, EndSkips, Goto, IdleIsQuiet, SelectSession,
       UseSession, LoopState
  <2>2. OpenSession' /\ InsertSession'
    BY <1>3, <1>0, Received
       DEF SampleSkips, SampleInfo, EndSkips, Goto, outbox, OpenSession, InsertSession,
       Lacks, Opening
  <2>. QED  BY <2>1, <2>2
<1>4. CASE SampleReturns \/ SampleThrows
  <2>1. IdleIsQuiet' /\ SelectSession' /\ UseSession'
    BY <1>4, <1>0, Received
       DEF SampleReturns, SampleThrows, Unwind, IdleIsQuiet, SelectSession, UseSession,
       LoopState
  <2>2. OpenSession' /\ InsertSession'
    BY <1>4, <1>0, Received
       DEF SampleReturns, SampleThrows, Unwind, outbox, OpenSession, InsertSession,
       LoopPlace, Lacks, Answers, Opening
  <2>. QED  BY <2>1, <2>2
<1>5. CASE EndReturns \/ EndThrows
  <2>1. IdleIsQuiet' /\ SelectSession' /\ UseSession'
    BY <1>5, <1>0, Received
       DEF EndReturns, EndThrows, Unwind, outbox, IdleIsQuiet, SelectSession, UseSession,
       InsertSession, LoopState, Quiet
  <2>2. OpenSession' /\ InsertSession'
    BY <1>5, <1>0, Received
       DEF EndReturns, EndThrows, outbox, OpenSession, InsertSession, LoopState,
       LoopPlace, Opening
  <2>. QED  BY <2>1, <2>2
<1>6. CASE PongReturns \/ PongThrows
  <2>1. IdleIsQuiet' /\ SelectSession' /\ UseSession'
    BY <1>6, <1>0, Received
       DEF PongReturns, PongThrows, Unwind, outbox, IdleIsQuiet, SelectSession,
       UseSession, Lacks, Quiet
  <2>2. OpenSession' /\ InsertSession'
    BY <1>6, <1>0, Received
       DEF PongReturns, PongThrows, Unwind, OpenSession, InsertSession, LoopState
  <2>. QED  BY <2>1, <2>2
<1>7. CASE ReceiveThrows
  <2>1. IdleIsQuiet' /\ SelectSession' /\ UseSession'
    BY <1>7, <1>0, UntimedCall, ReceiveFailed, EmptyKinds
       DEF ReceiveThrows, Unwind, wireVars, ToServer, DeadIsEmpty, IdleIsQuiet,
       SelectSession, UseSession, Lacks, Quiet, Work
  <2>2. OpenSession' /\ InsertSession'
    BY <1>7, <1>0, UntimedCall, ReceiveFailed, EmptyKinds
       DEF ReceiveThrows, wireVars, ToServer, DeadIsEmpty, OpenSession, InsertSession, Lacks
  <2>. QED  BY <2>1, <2>2
<1>8. CASE CallbackContinues \/ CallbackStops \/ CallbackThrows
  <2>1. IdleIsQuiet' /\ SelectSession' /\ UseSession'
    BY <1>8, <1>0
       DEF CallbackContinues, CallbackStops, CallbackThrows, Goto, Unwind, wireVars,
       IdleIsQuiet, SelectSession, UseSession, LoopState, LoopPlace
  <2>2. OpenSession' /\ InsertSession'
    BY <1>8, <1>0
       DEF CallbackContinues, CallbackStops, CallbackThrows, Goto, Unwind, wireVars,
       OpenSession, InsertSession, LoopPlace, Opening
  <2>. QED  BY <2>1, <2>2
<1>9. CASE SendCancel
  <2>a. \/ UNCHANGED wireVars
        \/ /\ UNCHANGED <<alive, s2c, srv, committed>>
           /\ Kinds(c2s') = Kinds(c2s) \union {"Cancel"}
    <3>. cur \in Tags
      BY DEF TypeOK, NativeTypeOK
    <3>. QED
      BY <1>9, Sent, UntimedCall, SendFailed DEF SendCancel, ToServer, wireVars, WireSession,
           WholePackets
  <2>1. IdleIsQuiet' /\ SelectSession' /\ UseSession'
    BY <1>9, <1>0, <2>a
       DEF SendCancel, Goto, Unwind, wireVars, IdleIsQuiet, SelectSession, UseSession,
       LoopPlace, Lacks
  <2>2. OpenSession' /\ InsertSession'
    BY <1>9, <1>0, <2>a
       DEF SendCancel, Goto, Unwind, OpenSession, InsertSession, LoopPlace
  <2>. QED  BY <2>1, <2>2
<1>. QED
  BY <1>1, <1>2, <1>3, <1>4, <1>5, <1>6, <1>7, <1>8, <1>9 DEF PacketLoop, Callback

(***************************************************************************)
(* The steps of a method between two native calls.                         *)
(***************************************************************************)

\* A step that leaves the wire and the native client alone keeps what the wire promises.
LEMMA SameWireSession ==
  ASSUME WireSession, UNCHANGED <<wireVars, cur>>
  PROVE  WireSession'
  BY DEF wireVars, WireSession, WholePackets, DeadIsEmpty, MalformedIsLast, IsCurrent,
       OpensAlone

\* The method returns, throws, or goes on to its next native call.
ReturnSteps ==
  \/ SelectReturns \/ PingServerReturns \/ OpenInsertReturns \/ Write \/ FinishReturns
  \/ CloseReturns \/ ResetByScript \/ UseDatabaseReturns \/ Recovered \/ Unrecovered

\* Such a step keeps what the client knows of the session.
LEMMA ReturnSession ==
  ASSUME TypeOK, ControlInv, SessionInv, InsertPlace', ReturnSteps
  PROVE  SessionInv'
<1>. /\ WireSession /\ IdleIsQuiet /\ SelectSession /\ UseSession /\ OpenSession /\ InsertSession
     /\ InsertPlace /\ DeadIsEmpty
  BY DEF SessionInv, WireSession, ClientSession
<1>0. GuardIsHeld /\ LoopState /\ LoopPlace /\ Closed /\ MethodPlace
  BY DEF ControlInv
<1>1. UNCHANGED <<wireVars, nativeVars>>
  BY DEF ReturnSteps, SelectReturns, PingServerReturns, OpenInsertReturns, Write,
       FinishReturns, CloseReturns, ResetByScript, UseDatabaseReturns, Recovered,
       Unrecovered
<1>2. UNCHANGED <<alive, c2s, held, s2c, srv, committed, state, call, ret, cur, stopped>>
  BY <1>1 DEF wireVars, nativeVars
<1>a. WireSession'
  BY <1>1, <1>2, SameWireSession
<1>. SUFFICES /\ IdleIsQuiet' /\ SelectSession' /\ UseSession' /\ OpenSession'
              /\ InsertSession'
  BY <1>a DEF SessionInv, ClientSession
<1>3. CASE SelectReturns \/ PingServerReturns
  <2>1. IdleIsQuiet' /\ SelectSession' /\ UseSession'
    BY <1>3, <1>0, <1>2
       DEF SelectReturns, PingServerReturns, At, GoOn, Leave, IdleIsQuiet, SelectSession,
       UseSession, Quiet
  <2>2. OpenSession' /\ InsertSession'
    BY <1>3, <1>0, <1>2
       DEF SelectReturns, PingServerReturns, At, Closed, OpenSession, InsertSession
  <2>. QED  BY <2>1, <2>2
<1>4. CASE OpenInsertReturns
  <2>1. IdleIsQuiet' /\ SelectSession' /\ UseSession'
    BY <1>4, <1>0, <1>2
       DEF OpenInsertReturns, At, GoOn, Leave, IdleIsQuiet, SelectSession, UseSession, Quiet
  <2>2. OpenSession' /\ InsertSession'
    BY <1>4, <1>0, <1>2
       DEF OpenInsertReturns, At, GoOn, Leave, DeadIsEmpty, ToServer, OpenSession,
       InsertSession, Opening, Lacks
  <2>. QED  BY <2>1, <2>2
<1>5. CASE Write
  <2>1. IdleIsQuiet' /\ SelectSession' /\ UseSession'
    BY <1>5, <1>0, <1>2
       DEF Write, Enter, Guarded, GuardIsHeld, IdleIsQuiet, SelectSession, UseSession, Quiet
  <2>2. OpenSession' /\ InsertSession'
    BY <1>5, <1>0, <1>2
       DEF Write, Enter, Guarded, GuardIsHeld, OpenSession, InsertSession, Opening
  <2>. QED  BY <2>1, <2>2
<1>6. CASE ResetByScript
  <2>1. IdleIsQuiet' /\ SelectSession' /\ UseSession'
    BY <1>6, <1>0, <1>2
       DEF ResetByScript, Enter, IdleIsQuiet, SelectSession, UseSession, Quiet
  <2>2. OpenSession' /\ InsertSession'
    BY <1>6, <1>0, <1>2
       DEF ResetByScript, Enter, OpenSession, InsertSession, Opening
  <2>. QED  BY <2>1, <2>2
<1>7. CASE FinishReturns \/ CloseReturns
  <2>1. IdleIsQuiet' /\ SelectSession' /\ UseSession'
    BY <1>7, <1>0, <1>2
       DEF FinishReturns, CloseReturns, At, GoOn, Leave, IdleIsQuiet, SelectSession,
       UseSession, Quiet
  <2>2. OpenSession' /\ InsertSession'
    BY <1>7, <1>0, <1>2
       DEF FinishReturns, CloseReturns, At, GoOn, Closed, OpenSession, InsertSession,
       Opening
  <2>. QED  BY <2>1, <2>2
<1>8. CASE UseDatabaseReturns \/ Recovered \/ Unrecovered
  <2>1. IdleIsQuiet' /\ SelectSession' /\ UseSession'
    BY <1>8, <1>0, <1>2
       DEF UseDatabaseReturns, Recovered, Unrecovered, At, Leave, IdleIsQuiet,
       SelectSession, UseSession, Quiet
  <2>2. OpenSession' /\ InsertSession'
    BY <1>8, <1>0, <1>2
       DEF UseDatabaseReturns, Recovered, Unrecovered, At, Closed, OpenSession,
       InsertSession
  <2>. QED  BY <2>1, <2>2
<1>. QED  BY <1>3, <1>4, <1>5, <1>6, <1>7, <1>8 DEF ReturnSteps

(***************************************************************************)
(* The steps that start a native call.                                     *)
(***************************************************************************)

\* The first packet of a query or an insert meets a server that has nothing to do.
LEMMA FirstPacket ==
  ASSUME TypeOK, WireSession, Quiet, NEW kind \in Opens, NEW q \in Tags,
         Send(kind, q) \/ (SendFails(kind, q) /\ ~Timeouts), cur' = q
  PROVE  /\ WireSession' /\ UNCHANGED <<alive, s2c, srv, committed>>
         /\ SendFails(kind, q) /\ ~Timeouts => ~alive
         /\ Kinds(c2s') \subseteq Kinds(c2s) \union {kind}
<1>0. WholePackets /\ DeadIsEmpty /\ MalformedIsLast /\ kind \in ToServer
  BY DEF WireSession, Opens, ToServer
<1>1. /\ AllOf(c2s, Work, q) /\ AllOf(s2c, Answers, q)
      /\ NoneAfter(c2s, Work, Opens) /\ NoneAfter(c2s, Opens, Work) /\ Lacks(c2s, Opens)
  BY NoneFollows DEF Quiet, Lacks, Work, Opens
<1>2. CASE Send(kind, q)
  <2>1. /\ UNCHANGED <<alive, s2c, srv, committed>> /\ held' = 0
        /\ ~alive => c2s' = c2s
        /\ alive => /\ Kinds(c2s') = Kinds(c2s) \union {kind}
                    /\ AllOf(c2s', Work, q) /\ NoneAfter(c2s', Opens, Work)
                    /\ NoneAfter(c2s', Work, Opens)
    BY <1>0, <1>1, <1>2, Sent DEF Quiet
  <2>2. SendFails(kind, q) /\ ~Timeouts => ~alive
    BY SendFailed
  <2>. QED
    BY <1>0, <1>1, <2>1, <2>2
       DEF WireSession, WholePackets, DeadIsEmpty, MalformedIsLast, IsCurrent,
       OpensAlone, Quiet, Opens
<1>3. CASE SendFails(kind, q) /\ ~Timeouts
  BY <1>0, <1>1, <1>3, SendFailed
     DEF WireSession, WholePackets, DeadIsEmpty, MalformedIsLast, IsCurrent, OpensAlone,
     wireVars
<1>. QED  BY <1>2, <1>3

\* A block or an end marker follows the opening of its insert, which is not on the wire.
LEMMA NextPacket ==
  ASSUME TypeOK, WireSession, Lacks(c2s, Opens), NEW kind \in {"Block", "End"},
         Send(kind, cur) \/ (SendFails(kind, cur) /\ ~Timeouts), UNCHANGED cur
  PROVE  /\ WireSession' /\ UNCHANGED <<alive, s2c, srv, committed>>
         /\ SendFails(kind, cur) /\ ~Timeouts => ~alive
         /\ ~alive => c2s' = c2s
         /\ alive => /\ Kinds(c2s') = Kinds(c2s) \union {kind}
                     /\ Lacks(c2s, {"End"}) => NoneAfter(c2s', {"End"}, Work)
<1>0. WholePackets /\ DeadIsEmpty /\ MalformedIsLast /\ IsCurrent /\ OpensAlone
      /\ kind \in ToServer /\ kind \in Work /\ kind \notin Opens /\ cur \in Tags
  BY DEF WireSession, Opens, ToServer, Work, TypeOK, NativeTypeOK
<1>1. CASE Send(kind, cur)
  <2>1. /\ UNCHANGED <<alive, s2c, srv, committed>> /\ held' = 0
        /\ ~alive => c2s' = c2s
        /\ alive => /\ Kinds(c2s') = Kinds(c2s) \union {kind}
                    /\ AllOf(c2s', Work, cur) /\ NoneAfter(c2s', Opens, Work)
                    /\ NoneAfter(c2s', Work, Opens)
                    /\ Lacks(c2s, {"End"}) => NoneAfter(c2s', {"End"}, Work)
    BY <1>0, <1>1, Sent, NoneFollows DEF IsCurrent, OpensAlone
  <2>2. SendFails(kind, cur) /\ ~Timeouts => ~alive
    BY SendFailed
  <2>. QED
    BY <1>0, <2>1, <2>2
       DEF WireSession, WholePackets, DeadIsEmpty, MalformedIsLast, IsCurrent, OpensAlone
<1>2. CASE SendFails(kind, cur) /\ ~Timeouts
  <2>1. ~alive /\ UNCHANGED <<wireVars, cur>>
    BY <1>2, SendFailed
  <2>. QED  BY <2>1, SameWireSession DEF wireVars
<1>. QED  BY <1>1, <1>2

\* With no call under way and the next step not a reset, an idle client is at rest.
LEMMA AtRest ==
  ASSUME ControlInv, IdleIsQuiet, client, call = "none", state = "Idle",
         pc \notin {"reset", "query"}
  PROVE  Quiet
  BY DEF IdleIsQuiet

\* Starting a query, a ping or an insert keeps what the client knows of the session.
LEMMA BeginSession ==
  ASSUME TypeOK, ControlInv, SessionInv, Steady, InsertPlace',
         Select \/ UseDatabase \/ OpenInsert \/ PingServer
  PROVE  SessionInv'
<1>. /\ WireSession /\ IdleIsQuiet /\ UseSession /\ InsertPlace /\ DeadIsEmpty
  BY DEF SessionInv, WireSession, ClientSession
<1>0. GuardIsHeld /\ LoopState /\ LoopPlace /\ Closed /\ MethodPlace
  BY DEF ControlInv
<1>1. client /\ call = "none" /\ state = "Idle" /\ pc \notin {"reset", "query"}
  BY <1>0 DEF Select, UseDatabase, OpenInsert, PingServer, BeginExecuteQuery,
       BeginInsert, Ping, At, Enter, Guarded, ScriptRuns, GuardIsHeld
<1>2. Quiet
  BY <1>1, AtRest
<1>3. asked \in Tags /\ UseTag \in Tags /\ cur \in Tags
  BY UseTagIsTag DEF TypeOK, NativeTypeOK
<1>4. Lacks(s2c, Answers) => NoneAfter(s2c, Ends, Answers)
  BY NoneFollows DEF Lacks, Ends, Answers
<1>5. CASE Select \/ UseDatabase
  <2>1. PICK q \in Tags : BeginExecuteQuery(q) /\ (UseDatabase => q = UseTag)
    BY <1>3, <1>5, NextNumberType DEF Select, UseDatabase
  <2>2. /\ cur' = q /\ ~stopped'
        /\ \/ Send("Query", q) /\ state' = "Selecting" /\ call' = "select"
           \/ /\ SendFails("Query", q) /\ ~Timeouts
              /\ state' = "Idle" /\ call' = "none" /\ ret' = "error"
    <3>. pc' \in {"query", "using"}
      BY <1>5 DEF Select, UseDatabase, GoOn, Enter
    <3>. QED  BY <2>1 DEF BeginExecuteQuery, Steady, Plain, ResetIsNext
  <2>3. /\ WireSession' /\ UNCHANGED <<alive, s2c, srv, committed>>
        /\ SendFails("Query", q) /\ ~Timeouts => ~alive
        /\ Kinds(c2s') \subseteq Kinds(c2s) \union {"Query"}
    BY <1>2, <2>2, FirstPacket DEF Opens
  <2>4. \/ Send("Query", q) /\ state' = "Selecting" /\ call' = "select"
        \/ /\ ~alive /\ UNCHANGED c2s
           /\ state' = "Idle" /\ call' = "none" /\ ret' = "error"
    BY <2>2, <2>3, SendFailed DEF wireVars
  <2>5. /\ UNCHANGED <<client, told>> /\ (pc' = "query" => method' \notin OneShot)
        /\ pc' \in {"query", "using"} /\ (pc' = "using" => UseDatabase /\ pc = "use")
    BY <1>5 DEF Select, UseDatabase, At, GoOn, Enter, OneShot
  <2>6. IdleIsQuiet' /\ SelectSession' /\ UseSession'
    BY <1>2, <1>4, <2>1, <2>2, <2>3, <2>4, <2>5
       DEF Quiet, IdleIsQuiet, SelectSession, UseSession, Lacks, Work
  <2>7. OpenSession' /\ InsertSession'
    BY <2>4, <2>5 DEF OpenSession, InsertSession
  <2>. QED  BY <2>3, <2>6, <2>7 DEF SessionInv, ClientSession
<1>6. CASE OpenInsert
  <2>1. PICK q \in Tags : BeginInsert(q)
    BY <1>3, <1>6, NextNumberType DEF OpenInsert
  <2>2. /\ cur' = q /\ state' = "Inserting"
        /\ Send("Insert", q) \/ (SendFails("Insert", q) /\ ~Timeouts)
    <3>. pc' = "open"
      BY <1>6 DEF OpenInsert, Enter
    <3>. QED  BY <2>1 DEF BeginInsert, Steady, ResetIsNext
  <2>3. /\ WireSession' /\ UNCHANGED <<alive, s2c, srv, committed>>
        /\ SendFails("Insert", q) /\ ~Timeouts => ~alive
        /\ Kinds(c2s') \subseteq Kinds(c2s) \union {"Insert"}
    BY <1>2, <2>2, FirstPacket DEF Opens
  <2>4. call' # "none" \/ ret' # "ok"
    BY <2>1 DEF BeginInsert
  <2>5. /\ UNCHANGED <<client, told, has_insert_block>> /\ ~has_insert_block /\ pc' = "open"
    BY <1>6 DEF OpenInsert, Enter
  <2>6. IdleIsQuiet' /\ SelectSession' /\ UseSession'
    BY <2>1, <2>2, <2>5 DEF IdleIsQuiet, SelectSession, UseSession, BeginInsert
  <2>7. OpenSession' /\ InsertSession'
    BY <1>2, <2>2, <2>3, <2>4, <2>5
       DEF Quiet, OpenSession, InsertSession, Opening, Lacks, Work, Answers
  <2>. QED  BY <2>3, <2>6, <2>7 DEF SessionInv, ClientSession
<1>7. CASE PingServer
  <2>1. /\ Ping /\ pc' = "pong" /\ method' = "ping" /\ UNCHANGED <<state, cur, client, told>>
    BY <1>7 DEF PingServer, Enter, Ping
  <2>2. Send("Ping", cur) \/ (SendFails("Ping", cur) /\ ~Timeouts)
    BY <2>1 DEF Ping, Steady, Plain
  <2>3. \/ UNCHANGED wireVars
        \/ /\ UNCHANGED <<alive, s2c, srv, committed>> /\ held' = 0 /\ alive
           /\ Kinds(c2s') = Kinds(c2s) \union {"Ping"}
           /\ \A K, t : AllOf(c2s, K, t) /\ ("Ping" \in K => cur = t) => AllOf(c2s', K, t)
           /\ \A F, A : NoneAfter(c2s, F, A) /\ ("Ping" \in A => Lacks(c2s, F))
                          => NoneAfter(c2s', F, A)
    BY <1>3, <2>2, Sent, SendFailed DEF ToServer, wireVars, WireSession, WholePackets
  <2>4. WireSession'
    BY <2>1, <2>3, SameWireSession
       DEF WireSession, WholePackets, DeadIsEmpty, MalformedIsLast, IsCurrent,
       OpensAlone, Work, Opens
  <2>5. Quiet' /\ UNCHANGED committed
    BY <1>2, <2>3 DEF Quiet, Lacks, Work, wireVars
  <2>. QED
    BY <1>1, <2>1, <2>4, <2>5
       DEF SessionInv, ClientSession, IdleIsQuiet, SelectSession, UseSession,
       OpenSession, InsertSession
<1>. QED  BY <1>5, <1>6, <1>7

(***************************************************************************)
(* Blocks, end markers, and new connections.                               *)
(***************************************************************************)

\* EndInsert, called once on an insert, or again on one that the server has refused.
LEMMA EndInsertSession ==
  ASSUME TypeOK, ControlInv, SessionInv, Steady, EndInsert, UNCHANGED client,
         pc \notin {"open", "reset", "query"}, pc' \in {"finish", "close"},
         state = "Idle" => Quiet,
         state = "Inserting" /\ alive => srv.mode # "insert" \/ "End" \notin Kinds(c2s)
  PROVE  /\ WireSession' /\ IdleIsQuiet' /\ SelectSession' /\ UseSession' /\ OpenSession'
         /\ InsertSession' /\ UNCHANGED <<committed, state, cur>>
         /\ state = "Inserting" => call' # "none" \/ ret' # "ok"
<1>. /\ WireSession /\ OpenSession /\ InsertSession /\ DeadIsEmpty
  BY DEF SessionInv, WireSession, ClientSession
<1>0. /\ call = "none" /\ state \in {"Idle", "Inserting"} /\ UNCHANGED <<state, cur>>
  BY DEF EndInsert, ControlInv, LoopState, TypeOK, NativeTypeOK
<1>1. CASE state = "Idle"
  <2>1. UNCHANGED wireVars /\ call' = "none"
    BY <1>0, <1>1 DEF EndInsert
  <2>2. UNCHANGED <<alive, c2s, held, s2c, srv, committed>>
    BY <2>1 DEF wireVars
  <2>3. WireSession'
    BY <1>0, <2>1, SameWireSession
  <2>. QED
    BY <1>0, <1>1, <2>1, <2>2, <2>3
       DEF IdleIsQuiet, Quiet, SelectSession, UseSession, OpenSession, InsertSession
<1>2. CASE state = "Inserting"
  <2>1. \/ Send("End", cur) /\ call' = "end"
        \/ SendFails("End", cur) /\ ~Timeouts /\ call' = "none" /\ ret' = "error"
    BY <1>0, <1>2 DEF EndInsert, Steady, ResetIsNext
  <2>2. Lacks(c2s, Opens)
    BY <1>2 DEF OpenSession, Opening, Lacks, Opens
  <2>3. /\ WireSession' /\ UNCHANGED <<alive, s2c, srv, committed>>
        /\ call' = "end" \/ (~alive /\ call' = "none" /\ ret' = "error")
        /\ ~alive => c2s' = c2s
        /\ alive => /\ Kinds(c2s') = Kinds(c2s) \union {"End"}
                    /\ Lacks(c2s, {"End"}) => NoneAfter(c2s', {"End"}, Work)
    BY <1>0, <2>1, <2>2, NextPacket
  <2>4. IdleIsQuiet' /\ SelectSession' /\ UseSession'
    BY <1>0, <1>2, <2>3 DEF IdleIsQuiet, SelectSession, UseSession
  <2>5. OpenSession'
    BY <1>0, <1>2, <2>3 DEF OpenSession, Opening, Lacks
  <2>6. InsertSession'
    BY <1>0, <1>2, <2>3 DEF InsertSession, DeadIsEmpty, Lacks
  <2>. QED  BY <1>0, <1>2, <2>3, <2>4, <2>5, <2>6
<1>. QED  BY <1>0, <1>1, <1>2

\* Giving up, with a reset as the next step, keeps what the client knows of the session.
LEMMA GiveUpSession ==
  ASSUME ControlInv, SessionInv, UNCHANGED <<wireVars, nativeVars>>, pc' = "reset", call = "none",
         UNCHANGED client, InsertPlace'
  PROVE  SessionInv'
<1>. /\ WireSession /\ SelectSession /\ OpenSession /\ InsertSession /\ InsertPlace
  BY DEF SessionInv, WireSession, ClientSession
<1>1. UNCHANGED <<alive, c2s, held, s2c, srv, committed, state, call, ret, cur, stopped>>
  BY DEF wireVars, nativeVars
<1>2. WireSession'
  BY <1>1, SameWireSession
<1>3. IdleIsQuiet' /\ SelectSession' /\ UseSession'
  BY <1>1 DEF IdleIsQuiet, SelectSession, UseSession
<1>4. OpenSession' /\ InsertSession'
  BY <1>1 DEF OpenSession, InsertSession, Opening
<1>. QED  BY <1>2, <1>3, <1>4 DEF SessionInv, ClientSession

\* A step that calls EndInsert keeps what the client knows of the session.
LEMMA EndSession ==
  ASSUME TypeOK, ControlInv, SessionInv, Steady, InsertPlace', EndInsert, pc' \in {"finish", "close"},
         RowsDone \/ RowsThrow \/ WriteEnd \/ FinishThrows
  PROVE  SessionInv'
<1>. /\ IdleIsQuiet /\ InsertSession /\ InsertPlace
  BY DEF SessionInv, ClientSession
<1>0. GuardIsHeld /\ LoopState /\ LoopPlace /\ Closed /\ MethodPlace
  BY DEF ControlInv
<1>1. /\ client /\ call = "none" /\ UNCHANGED client
      /\ pc \in {"rows", "idle", "finish"}
  BY <1>0 DEF RowsDone, RowsThrow, WriteEnd, FinishThrows, At, GoOn, Enter, Guarded,
       ScriptRuns, GuardIsHeld
<1>2. state = "Idle" => Quiet
  BY <1>1, AtRest
<1>3. state = "Inserting" /\ alive => srv.mode # "insert" \/ "End" \notin Kinds(c2s)
  BY <1>1 DEF InsertSession
<1>4. /\ WireSession' /\ IdleIsQuiet' /\ SelectSession' /\ UseSession' /\ OpenSession'
      /\ InsertSession' /\ UNCHANGED <<committed, state, cur>>
      /\ state = "Inserting" => call' # "none" \/ ret' # "ok"
  BY <1>1, <1>2, <1>3, EndInsertSession
<1>. QED  BY <1>4 DEF SessionInv, ClientSession

\* Sending rows, or failing to, keeps what the client knows of the session.
LEMMA RowsSession ==
  ASSUME TypeOK, ControlInv, SessionInv, Steady, InsertPlace', SendRows \/ SendRowsThrows
  PROVE  SessionInv'
<1>. /\ WireSession /\ OpenSession /\ InsertSession /\ InsertPlace /\ DeadIsEmpty
  BY DEF SessionInv, WireSession, ClientSession
<1>0. /\ pc = "rows" /\ call = "none" /\ UNCHANGED nativeVars
      /\ UNCHANGED client
  BY DEF SendRows, SendRowsThrows, SendInsertBlock, SendInsertBlockThrows, At
<1>1. UNCHANGED <<state, call, ret, cur, stopped>>
  BY <1>0 DEF nativeVars
<1>2. CASE SendRowsThrows
  <2>1. pc' = "reset"
    BY <1>2 DEF SendRowsThrows, GoOnSent
  <2>2. UNCHANGED wireVars
    BY <1>2, <2>1, SendFailed DEF SendRowsThrows, SendInsertBlockThrows, Steady, ResetIsNext
  <2>. QED  BY <1>0, <2>1, <2>2, GiveUpSession
<1>3. CASE SendRows
  <2>1. state = "Inserting" /\ Send("Block", cur)
    BY <1>3 DEF SendRows, SendInsertBlock
  <2>2. Lacks(c2s, Opens)
    BY <1>0, <2>1 DEF OpenSession, Opening, Lacks, Opens
  <2>3. /\ WireSession' /\ UNCHANGED <<alive, s2c, srv, committed>>
        /\ ~alive => c2s' = c2s
        /\ alive => /\ Kinds(c2s') = Kinds(c2s) \union {"Block"}
                    /\ Lacks(c2s, {"End"}) => NoneAfter(c2s', {"End"}, Work)
    BY <1>1, <2>1, <2>2, NextPacket
  <2>4. /\ pc' \in {"rows", "idle"}
        /\ pc' = "rows" => UNCHANGED method
        /\ pc' = "idle" => Leave(TRUE) /\ method = "write"
    BY <1>3 DEF SendRows, GoOnSent, Leave
  <2>5. IdleIsQuiet' /\ SelectSession' /\ UseSession'
    BY <1>0, <1>1, <2>1, <2>4 DEF IdleIsQuiet, SelectSession, UseSession
  <2>6. OpenSession'
    BY <1>0, <1>1, <2>1, <2>3, <2>4 DEF OpenSession, Opening, Lacks
  <2>7. InsertSession'
    BY <1>0, <1>1, <2>1, <2>3, <2>4 DEF InsertSession, DeadIsEmpty, Lacks
  <2>. QED  BY <2>3, <2>5, <2>6, <2>7 DEF SessionInv, ClientSession
<1>. QED  BY <1>2, <1>3

\* Freeing the object keeps what the client knows of the session.
LEMMA FreeSession ==
  ASSUME TypeOK, ControlInv, SessionInv, Steady, InsertPlace', FreeObject
  PROVE  SessionInv'
<1>. /\ WireSession /\ OpenSession /\ InsertPlace
  BY DEF SessionInv, ClientSession
<1>0. /\ Destroy /\ ~client' /\ ~has_insert_block' /\ UNCHANGED <<pc, method, told>>
      /\ state' = "Idle" /\ UNCHANGED <<call, cur>>
      /\ pc = "idle" /\ call = "none"
  BY DEF FreeObject, ClearInsertState, Destroy, ControlInv, GuardIsHeld
<1>1. WireSession' /\ UNCHANGED committed
  <2>1. CASE state # "Inserting"
    BY <1>0, <2>1, SameWireSession DEF Destroy, wireVars
  <2>2. CASE state = "Inserting"
    <3>1. Lacks(c2s, Opens)
      BY <1>0, <2>2 DEF OpenSession, Opening, Lacks, Opens
    <3>2. Send("End", cur) \/ (SendFails("End", cur) /\ ~Timeouts)
      BY <1>0, <2>2 DEF Destroy, Steady, ResetIsNext
    <3>. QED  BY <1>0, <3>1, <3>2, NextPacket
  <2>. QED  BY <2>1, <2>2
<1>. QED
  BY <1>0, <1>1
     DEF SessionInv, ClientSession, IdleIsQuiet, SelectSession, UseSession, OpenSession,
     InsertSession

\* A new connection, and one whose handshake failed, have nothing under way.
LEMMA NewConnection ==
  ASSUME TypeOK, ~OldSocketSurvives,
         (FreshSocket /\ UNCHANGED committed) \/ ConnectRefused \/ HandshakeFails
  PROVE  /\ WireSession' /\ Quiet' /\ UNCHANGED committed
         /\ FreshSocket => "Malformed" \notin Kinds(s2c')
<1>. Session("ready", UseTag).mode = "ready" /\ Packet("Malformed", UseTag).kind = "Malformed"
  BY DEF Session, Packet
<1>1. /\ c2s' = << >> /\ held' = 0 /\ srv'.mode = "ready" /\ UNCHANGED committed
      /\ s2c' \in {<< >>, <<Packet("Malformed", UseTag)>>}
      /\ FreshSocket => s2c' = << >>
  BY DEF FreshSocket, ConnectRefused, HandshakeFails
<1>2. /\ Kinds(s2c') \subseteq {"Malformed"} /\ AllOf(s2c', Answers, cur')
      /\ NoneAfter(s2c', {"Malformed"}, ToClient) /\ (FreshSocket => Kinds(s2c') = {})
  <2>1. "Malformed" \notin Answers
    BY DEF Answers
  <2>2. CASE s2c' = << >>
    BY <2>2, EmptyKinds
  <2>3. CASE s2c' = <<Packet("Malformed", UseTag)>>
    BY <1>1, <2>1, <2>3, SingleKinds, EmptyKinds
  <2>. QED  BY <1>1, <2>2, <2>3
<1>. QED
  BY <1>1, <1>2, EmptyKinds
     DEF WireSession, WholePackets, DeadIsEmpty, MalformedIsLast, IsCurrent, OpensAlone,
     Quiet, Lacks, Answers

\* A reconnect, a new client and a new object keep what the client knows of the session.
LEMMA ConnectSession ==
  ASSUME TypeOK, ControlInv, InsertPlace', ~OldSocketSurvives,
         Reset \/ Rotate \/ SetDatabase \/ Construct
  PROVE  SessionInv'
<1>0. GuardIsHeld /\ FreedIsIdle
  BY DEF ControlInv
<1>1. /\ (FreshSocket /\ UNCHANGED committed) \/ ConnectRefused \/ HandshakeFails
      /\ state' = "Idle" /\ call' = "none" /\ UNCHANGED told
      /\ pc' \in {"use", "recovered", "rotate", "unrecovered", "idle"}
      /\ pc' = "use" => FreshSocket
  <2>1. CASE Reset \/ Rotate
    <3>1. /\ call = "none" /\ ResetConnection
          /\ \E place \in {"rotate", "unrecovered"} :
               GoOn(IF ret' = "ok" THEN AfterConnect ELSE place)
      BY <2>1 DEF Reset, Rotate, ResetConnectionEndpoint, At
    <3>2. /\ \/ FreshSocket /\ UNCHANGED committed
             \/ (ConnectRefused \/ HandshakeFails) /\ ret' = "error"
          /\ state' = "Idle" /\ UNCHANGED call
      BY <3>1 DEF ResetConnection
    <3>3. /\ UNCHANGED told /\ pc' \in {"use", "recovered", "rotate", "unrecovered"}
          /\ pc' = "use" => ret' = "ok"
      BY <3>1 DEF GoOn, AfterConnect
    <3>. QED  BY <3>1, <3>2, <3>3
  <2>2. CASE SetDatabase \/ Construct
    <3>1. /\ FreshSocket /\ UNCHANGED <<committed, call, told, pc>> /\ method = "none"
          /\ state' = "Idle"
      BY <1>0, <2>2 DEF SetDatabase, Construct, FreedIsIdle, Guarded, GuardIsHeld,
           objVars, nativeVars
    <3>. QED  BY <1>0, <3>1 DEF GuardIsHeld
  <2>. QED  BY <2>1, <2>2
<1>2. /\ WireSession' /\ Quiet' /\ UNCHANGED committed
      /\ FreshSocket => "Malformed" \notin Kinds(s2c')
  BY <1>1, NewConnection
<1>. QED
  BY <1>1, <1>2
     DEF SessionInv, ClientSession, IdleIsQuiet, SelectSession, UseSession, OpenSession,
     InsertSession

(***************************************************************************)
(* The invariant, and what follows from it.                                *)
(***************************************************************************)

\* Every step keeps what the client knows of the session.
LEMMA SessionStep ==
  ASSUME IInv, SessionInv, ~OldSocketSurvives, Steady, [Next]_vars
  PROVE  SessionInv'
<1>. TypeOK /\ ControlInv /\ InsertPlace'
  BY PlaceStep DEF IInv, SessionInv, ClientSession
<1>1. CASE UNCHANGED vars
  <2>1. UNCHANGED <<wireVars, nativeVars, objVars>>
    BY <1>1 DEF vars
  <2>2. UNCHANGED <<alive, c2s, held, s2c, srv, committed, state, call, ret, cur, stopped,
                    client, has_insert_block, insert_query, method, pc, told>>
    BY <2>1 DEF wireVars, nativeVars, objVars
  <2>3. WireSession'
    BY <2>1, <2>2, SameWireSession DEF SessionInv
  <2>. QED
    BY <2>2, <2>3
       DEF SessionInv, ClientSession, IdleIsQuiet, Quiet, SelectSession, UseSession,
       OpenSession, Opening, InsertSession
<1>2. ASSUME RowsThrow PROVE SessionInv'
  <2>1. CASE EndInsert /\ pc' = "close"
    BY <1>2, <2>1, EndSession
  <2>2. CASE ~(EndInsert /\ pc' = "close")
    <3>. /\ UNCHANGED <<wireVars, nativeVars>> /\ pc' = "reset" /\ call = "none"
         /\ UNCHANGED client
      BY <1>2, <2>2 DEF RowsThrow, GoOn, At
    <3>. QED  BY GiveUpSession
  <2>. QED  BY <2>1, <2>2
<1>3. ASSUME FinishThrows PROVE SessionInv'
  <2>1. CASE EndInsert /\ pc' = "close"
    BY <1>3, <2>1, EndSession
  <2>2. CASE ~(EndInsert /\ pc' = "close")
    <3>. /\ UNCHANGED <<wireVars, nativeVars>> /\ pc' = "reset" /\ call = "none"
         /\ UNCHANGED client
      BY <1>3, <2>2 DEF FinishThrows, GoOn, At, ClearInsertState
    <3>. QED  BY GiveUpSession
  <2>. QED  BY <2>1, <2>2
<1>4. RowsDone \/ WriteEnd => SessionInv'
  <2>. RowsDone \/ WriteEnd => EndInsert /\ pc' = "finish"
    BY DEF RowsDone, WriteEnd, GoOn, Enter
  <2>. QED  BY EndSession
<1>5. Script => SessionInv'
  BY <1>4, BeginSession, ReturnSession, ConnectSession, FreeSession DEF Script, ReturnSteps
<1>6. Method => SessionInv'
  BY <1>2, <1>3, <1>4, BeginSession, ReturnSession, RowsSession, ConnectSession
     DEF Method, ReturnSteps
<1>7. Native \/ Environment => SessionInv'
  BY NativeSession, EnvironmentSession DEF Native, Environment
<1>. QED  BY <1>1, <1>5, <1>6, <1>7 DEF Next

\* A freshly constructed object knows that nothing is under way.
LEMMA SessionInit == Init => SessionInv
<1>. SUFFICES ASSUME Init PROVE SessionInv
  OBVIOUS
<1>1. /\ c2s = << >> /\ held = 0 /\ s2c = << >> /\ srv.mode = "ready" /\ state = "Idle"
      /\ pc = "idle" /\ told = {} /\ alive /\ call = "none"
  BY DEF Init, WireInit, NativeInit, Session
<1>2. WireSession /\ Quiet
  BY <1>1, EmptyKinds
     DEF WireSession, WholePackets, DeadIsEmpty, MalformedIsLast, IsCurrent, OpensAlone,
     Quiet
<1>. QED
  BY <1>1, <1>2
     DEF SessionInv, ClientSession, IdleIsQuiet, SelectSession, UseSession, OpenSession,
     InsertSession, InsertPlace, OneShotSuccessIsCommitted

\* Nothing runs a ping or a USE where every throw has to be followed by a reset.
LEMMA PlainStep ==
  ASSUME TypeOK, Recoverable, Timeouts, Plain, [Next]_vars
  PROVE  Plain'
<1>1. CASE UNCHANGED vars \/ Native \/ Environment
  BY <1>1 DEF vars, objVars, Native, Environment, Plain
<1>2. CASE Script
  BY <1>2 DEF Script, Select, PingServer, OpenInsert, Write, WriteEnd, ResetByScript, SetDatabase,
       FreeObject, Construct, objVars, Enter, Guarded, InsertMethods, Recoverable, Plain
<1>3. CASE Method
  BY <1>3 DEF Method, SelectReturns, PingServerReturns, OpenInsertReturns, SendRows,
       SendRowsThrows, RowsDone, RowsThrow, FinishReturns, FinishThrows, CloseReturns,
       Reset, Rotate, UseDatabase, UseDatabaseReturns, Recovered, Unrecovered, At, Leave, GoOn,
       GoOnSent, AfterConnect, Recoverable, Plain
<1>. QED  BY <1>1, <1>2, <1>3 DEF Next

\* A reset that is next stays next until it happens, and then the session is known again.
LEMMA ResetStep ==
  ASSUME IInv, InsertPlace, InsertPlace', Recoverable, Timeouts, ResetIsNext, [Next]_vars
  PROVE  SessionInv' \/ ResetIsNext'
<1>. TypeOK /\ ControlInv /\ ~OldSocketSurvives
  BY DEF IInv, Recoverable
<1>0. /\ GuardIsHeld /\ LoopPlace
      /\ method \notin {"ping", "insertFromStream"}
  BY DEF ControlInv, TypeOK, Recoverable
<1>1. call = "none" /\ (client => method # "none")
  BY <1>0 DEF ResetIsNext, GuardIsHeld, LoopPlace
<1>2. CASE UNCHANGED vars \/ Environment
  BY <1>2 DEF vars, nativeVars, objVars, Environment, ResetIsNext
<1>3. ~Native
  BY <1>1 DEF Native, PacketLoop, Callback, NextBlockData, NextBlockInfo, NextBlockSkips,
         NextBlockEnds, NextBlockThrows, SendCancel, SampleSkips, SampleInfo, SampleReturns,
         SampleThrows, EndSkips, EndReturns, EndThrows, PongReturns, PongThrows,
         ReceiveThrows, CallbackContinues, CallbackStops, CallbackThrows
<1>4. CASE Script
  <2>1. Construct
    BY <1>1, <1>4 DEF Script, Select, PingServer, OpenInsert, Write, WriteEnd, ResetByScript,
         SetDatabase, FreeObject, Enter, Guarded, ScriptRuns
  <2>. QED  BY <2>1, ConnectSession
<1>5. CASE Method
  <2>1. client
    BY <1>0, <1>5 DEF GuardIsHeld, Method, SelectReturns, PingServerReturns, OpenInsertReturns,
         SendRows, SendRowsThrows, RowsDone, RowsThrow, FinishReturns, FinishThrows,
         CloseReturns, Reset, Rotate, UseDatabase, UseDatabaseReturns, Recovered, Unrecovered, At
  <2>2. CASE Reset
    BY <2>2, ConnectSession
  <2>3. CASE ~Reset
    <3>1. SelectReturns \/ OpenInsertReturns \/ FinishThrows \/ CloseReturns
      BY <1>5, <2>1, <2>3
         DEF Method, PingServerReturns, SendRows, SendRowsThrows, RowsDone, RowsThrow,
             FinishReturns, Rotate, UseDatabase, UseDatabaseReturns, Recovered, Unrecovered, At,
             ResetIsNext
    <3>2. pc' = "reset"
      BY <1>0, <2>1, <3>1 DEF SelectReturns, OpenInsertReturns, FinishThrows, CloseReturns, At, GoOn,
           ResetIsNext
    <3>. QED  BY <3>2 DEF ResetIsNext
  <2>. QED  BY <2>2, <2>3
<1>. QED  BY <1>2, <1>3, <1>4, <1>5 DEF Next

\* Every step keeps what is known of the session, or loses it on the way to a reset.
LEMMA SessionOrResetStep ==
  ASSUME IInv, SessionOrReset, Recoverable, [Next]_vars
  PROVE  SessionOrReset'
<1>1. InsertPlace'
  BY PlaceStep DEF SessionOrReset
<1>2. Timeouts => Plain'
  BY PlainStep DEF SessionOrReset, IInv
<1>3. SessionInv' \/ (Timeouts /\ ResetIsNext')
  <2>1. CASE SessionInv
    BY <1>2, <2>1, SessionStep DEF Steady, SessionOrReset, Recoverable
  <2>2. CASE Timeouts /\ ResetIsNext
    BY <1>1, <2>2, ResetStep DEF SessionOrReset
  <2>. QED  BY <2>1, <2>2 DEF SessionOrReset
<1>. QED  BY <1>1, <1>2, <1>3 DEF SessionOrReset

\* Where every throw that leaves something behind is followed by a reset, what the client
\* assumes of the server's session at each place of its code is true, except on the way from
\* such a throw to that reset.
THEOREM SessionIsKnown == ASSUME Recoverable PROVE Spec => []SessionOrReset
<1>1. Init => SessionOrReset
  BY SessionInit DEF Init, SessionOrReset, SessionInv, ClientSession, Plain
<1>2. IInv /\ SessionOrReset /\ [Next]_vars => SessionOrReset'
  BY SessionOrResetStep
<1>. QED  BY <1>1, <1>2, Inductive, PTL DEF Spec

\* Between two calls, and while a packet loop runs, no reset is next.
LEMMA NoResetIsNext ==
  ASSUME IInv, SessionOrReset, client, call # "none" \/ method = "none"
  PROVE  SessionInv
  BY DEF IInv, ControlInv, GuardIsHeld, LoopPlace, SessionOrReset, ResetIsNext

\* An answer is read only by the query it answers: no packet loop takes rows, an error or
\* an end that an earlier call left on the connection (the resets after a throw, and the
\* packet loops that read up to the last answer).
THEOREM AnswersAreAlwaysOwn == ASSUME Recoverable PROVE Spec => []AnswersAreOwn
<1>1. IInv /\ SessionOrReset => AnswersAreOwn
  <2>. SUFFICES ASSUME IInv, SessionOrReset, s2c # << >>, Head(s2c).kind \in Answers,
                       call # "none"
                PROVE  Head(s2c).q = cur
    BY DEF AnswersAreOwn
  <2>. SessionInv
    BY NoResetIsNext DEF IInv, ControlInv, GuardIsHeld
  <2>1. s2c \in Seq(ToClientPackets) /\ AllOf(s2c, Answers, cur)
    BY WireKinds DEF IInv, SessionInv, WireSession, IsCurrent
  <2>. QED  BY <2>1, TailKinds
<1>. QED  BY <1>1, SessionIsKnown, Inductive, PTL

\* Between two calls with no insert open the server has nothing left to do for the object,
\* whatever methods ran, however they failed, and whichever of them reset the connection.
THEOREM NothingIsLeftBehind == ASSUME Recoverable PROVE Spec => []NothingLeftBehind
<1>1. IInv /\ SessionOrReset => NothingLeftBehind
  <2>. SUFFICES ASSUME IInv, SessionOrReset, client, method = "none", state = "Idle"
                PROVE  /\ srv.mode = "ready"
                       /\ \A i \in 1 .. Len(c2s) :
                            c2s[i].kind \notin {"Query", "Insert", "Block", "End"}
                       /\ \A i \in 1 .. Len(s2c) : s2c[i].kind \notin Answers
    BY DEF NothingLeftBehind
  <2>. SessionInv
    BY NoResetIsNext
  <2>1. Quiet
    BY AtRest DEF IInv, ControlInv, GuardIsHeld, SessionInv, ClientSession
  <2>. QED  BY <2>1 DEF Quiet, Lacks, Kinds, Work
<1>. QED  BY <1>1, SessionIsKnown, Inductive, PTL

\* The insert that writeStart() left open is the one the server has open, until the
\* connection dies: write() and writeEnd() speak of the same insert as the server.
THEOREM StreamIsAlwaysServersInsert == ASSUME Recoverable PROVE Spec => []StreamIsServersInsert
<1>1. IInv /\ SessionOrReset => StreamIsServersInsert
  <2>. SUFFICES ASSUME IInv, SessionOrReset, client, method = "none", state = "Inserting", alive
                PROVE  srv.q = insert_query /\ srv.mode \in {"insert", "skip"}
    BY DEF StreamIsServersInsert
  <2>. SessionInv
    BY NoResetIsNext
  <2>1. pc = "idle" /\ has_insert_block
    BY DEF IInv, ControlInv, GuardIsHeld, RestIsTracked
  <2>2. srv.mode \in {"insert", "skip"} /\ insert_query = cur
    BY <2>1 DEF SessionInv, ClientSession, InsertSession, InsertPlace
  <2>3. srv.q = cur
    BY <2>2 DEF SessionInv, WireSession, IsCurrent
  <2>. QED  BY <2>2, <2>3
<1>. QED  BY <1>1, SessionIsKnown, Inductive, PTL

\* insert(), insertAssoc() and insertFromStream() report success only for an insert whose
\* end the server accepted, although EndInsert returns silently outside an insert.
THEOREM OneShotSuccessIsTrue == ASSUME Recoverable PROVE Spec => []OneShotSuccessIsCommitted
<1>1. SessionOrReset => OneShotSuccessIsCommitted
  BY DEF SessionOrReset, InsertPlace
<1>. QED  BY <1>1, SessionIsKnown, PTL

(***************************************************************************)
(* ClickHouseObject implements InsertLedger, for every value of the        *)
(* constants: IInv and LedgerInv give the life of an insert, SessionInv    *)
(* what a reliable connection adds to it.                                  *)
(***************************************************************************)

\* The state of the ledger as the object keeps it, and a step of it or none.
LedgerVars == <<OpenInserts, endSent, aborted, committed, told>>
LedgerStep == Ledger!LedgerNext \/ UNCHANGED LedgerVars

\* What is known of the states: SessionInv on a reliable connection only.
Known == IInv /\ LedgerInv /\ (Settled => SessionInv)

-----------------------------------------------------------------------------
(* The native client and the server.                                       *)

\* The packet loops and the callbacks end no insert and give none up; the one that
\* leaves the inserting state has sent the end marker.
LEMMA NativeLedger ==
  ASSUME ControlInv, LedgerInv, Native
  PROVE  /\ LedgerInv'
         /\ UNCHANGED LedgerVars
<1>1. UNCHANGED <<cur, endSent, aborted, committed>>
  BY DEF Native, PacketLoop, Callback, NextBlockData, NextBlockInfo, NextBlockSkips,
         NextBlockEnds, NextBlockThrows, SendCancel, SampleSkips, SampleInfo, SampleReturns,
         SampleThrows, EndSkips, EndReturns, EndThrows, PongReturns, PongThrows,
         ReceiveThrows, CallbackContinues, CallbackStops, CallbackThrows, Unwind, Goto, Read,
         Receive, ReceiveFails, Send, SendFails, SendMeetsDeadPeer, SendIsHeld, SendIsTorn,
         wireVars
<1>2. /\ state # state' => state = "Selecting" \/ call = "end"
      /\ state # state' => state' = "Idle"
      /\ call' = "end" => call = "end"
  BY DEF Native, PacketLoop, Callback, NextBlockData, NextBlockInfo, NextBlockSkips,
         NextBlockEnds, NextBlockThrows, SendCancel, SampleSkips, SampleInfo, SampleReturns,
         SampleThrows, EndSkips, EndReturns, EndThrows, PongReturns, PongThrows,
         ReceiveThrows, CallbackContinues, CallbackStops, CallbackThrows, Unwind, Goto
<1>3. UNCHANGED objVars
  BY DEF Native
<1>. QED  BY <1>1, <1>2, <1>3
     DEF ControlInv, LoopState, LoopPlace, LedgerInv, LedgerVars, OpenInserts, objVars

\* Of the server's steps only an end marker it accepts is seen in the ledger, and the
\* insert it ends was ended by the client and not given up.
LEMMA EnvironmentLedger ==
  ASSUME Known, Environment
  PROVE  LedgerInv' /\ LedgerStep
<1>1. UNCHANGED <<nativeVars, objVars>>
        => LedgerInv' /\ UNCHANGED <<OpenInserts, endSent, aborted, told>>
  BY DEF Known, nativeVars, objVars, LedgerInv, OpenInserts
<1>2. CASE UNCHANGED committed
  BY <1>1, <1>2 DEF Environment, LedgerStep, LedgerVars
<1>3. CASE ServerTakesEnd /\ srv.mode = "insert" /\ committed' = committed \union {srv.q}
  <2>1. /\ c2s # << >> /\ Len(c2s) > 0 /\ Head(c2s) = c2s[1] /\ Head(c2s).kind = "End"
        /\ srv.q \in Tags
    BY <1>3, WireKinds DEF ServerTakesEnd, Consume, Known, IInv, TypeOK, WireTypeOK
  <2>2. Head(c2s).q = srv.q /\ Head(c2s).q \in endSent
    BY <2>1 DEF Known, IInv, WireInv, Follows, EndsAreSent
  <2>3. srv.q \in endSent \ aborted
    BY <2>2 DEF Known, IInv, WireInv, AbortedIsFinal
  <2>4. Settled => OpenInserts = {}
    BY <1>3, <2>3 DEF Known, SessionInv, WireSession, IsCurrent, OpenInserts
  <2>5. Ledger!Commit(srv.q)
    BY <1>1, <1>3, <2>3, <2>4 DEF Environment, Ledger!Commit
  <2>. QED  BY <1>1, <2>1, <2>5 DEF Environment, LedgerStep, Ledger!LedgerNext
<1>. QED
  BY <1>2, <1>3
     DEF Environment, Server, Break, ServerTakesQuery, ServerSendsRows, ServerEndsQuery,
         ServerTakesCancel, ServerTakesPing, ServerTakesInsert, ServerOpensInsert,
         ServerTakesBlock, ServerTakesEnd, ServerHangsUp

-----------------------------------------------------------------------------
(* The calls of the native client.                                         *)

\* A send changes nothing that is in the ledger.
LEMMA SendCommits ==
  ASSUME NEW kind, NEW q, Send(kind, q) \/ SendFails(kind, q)
  PROVE  UNCHANGED committed
  BY DEF Send, SendFails, SendMeetsDeadPeer, SendIsHeld, SendIsTorn, wireVars

\* EndInsert ends the open insert, and does nothing when there is none.
LEMMA EndInsertLedger ==
  ASSUME Known, EndInsert, UNCHANGED told
  PROVE  /\ LedgerStep
         /\ UNCHANGED <<state, cur, aborted, committed>>
         /\ \A q \in endSent' : q <= asked
         /\ endSent \subseteq endSent'
         /\ state = "Inserting" => cur \in endSent'
         /\ call' = "end" => state = "Inserting"
<1>1. UNCHANGED committed
  BY SendCommits DEF EndInsert, wireVars
<1>2. CASE state # "Inserting"
  BY <1>1, <1>2 DEF EndInsert, LedgerStep, LedgerVars, OpenInserts, Known, LedgerInv
<1>3. CASE state = "Inserting"
  <2>1. endSent' = endSent \union {cur} /\ UNCHANGED <<state, cur, aborted>>
    BY <1>3 DEF EndInsert
  <2>2. cur \in Tags /\ cur <= asked
    BY DEF Known, IInv, TypeOK, NativeTypeOK, WireInv, Numbered
  <2>3. CASE cur \in endSent
    BY <1>1, <1>3, <2>1, <2>2, <2>3 DEF LedgerStep, LedgerVars, OpenInserts, Known, LedgerInv
  <2>4. CASE cur \notin endSent
    <3>1. Ledger!End(cur)
      BY <1>1, <1>3, <2>1, <2>4 DEF Ledger!End, OpenInserts
    <3>. QED
      BY <1>1, <1>3, <2>1, <2>2, <3>1 DEF LedgerStep, Ledger!LedgerNext, Known, LedgerInv
  <2>. QED  BY <2>3, <2>4
<1>. QED  BY <1>2, <1>3

\* A reset gives up the open insert, unless its end marker was written.
LEMMA ResetLedger ==
  ASSUME Known, ResetConnection, UNCHANGED told
  PROVE  LedgerStep /\ UNCHANGED <<call, cur, endSent>>
<1>1. UNCHANGED <<call, cur, endSent, committed>> /\ state' = "Idle"
  BY DEF ResetConnection, ConnectRefused, HandshakeFails
<1>2. CASE state = "Inserting" /\ cur \notin endSent
  <2>1. cur \in Tags
    BY DEF Known, IInv, TypeOK, NativeTypeOK
  <2>2. Ledger!GiveUp(cur)
    BY <1>1, <1>2 DEF ResetConnection, Ledger!GiveUp, OpenInserts
  <2>. QED  BY <1>1, <2>1, <2>2 DEF LedgerStep, Ledger!LedgerNext
<1>3. CASE ~(state = "Inserting" /\ cur \notin endSent)
  BY <1>1, <1>3 DEF ResetConnection, LedgerStep, LedgerVars, OpenInserts
<1>. QED  BY <1>2, <1>3

-----------------------------------------------------------------------------
(* The methods of the object.                                              *)

\* What the script starts: an insert with a number no insert had, or the end of the one
\* that is open, or nothing the ledger sees.
LEMMA ScriptLedger ==
  ASSUME Known, Script
  PROVE  LedgerInv' /\ LedgerStep
<1>. /\ asked \in Nat /\ cur \in Tags /\ cur <= asked
     /\ \A q \in endSent \union aborted : q <= asked
     /\ LedgerInv /\ ControlInv
  BY DEF Known, LedgerInv, IInv, TypeOK, NativeTypeOK, Tags, WireInv, Numbered
<1>1. CASE Select \/ PingServer
  <2>1. UNCHANGED <<endSent, aborted, committed, told>> /\ asked <= asked'
    BY <1>1, SendCommits DEF Select, PingServer, BeginExecuteQuery, Ping, NextNumber
  <2>2. state = "Idle" /\ state' # "Inserting" /\ call' # "end"
    BY <1>1 DEF Select, PingServer, BeginExecuteQuery, Ping, ControlInv, LoopState, Enter,
                Guarded, GuardIsHeld
  <2>3. pc' \in {"query", "pong"} /\ method' \notin OneShot
    BY <1>1 DEF Select, PingServer, Enter, OneShot
  <2>4. \A q \in endSent' : q <= asked'
    BY <1>1, <2>1 DEF Select, PingServer, NextNumber, Known, IInv, TypeOK, NativeTypeOK, Tags
  <2>. QED  BY <2>1, <2>2, <2>3, <2>4 DEF LedgerInv, LedgerStep, LedgerVars, OpenInserts
<1>2. CASE OpenInsert
  <2>1. /\ UNCHANGED <<endSent, aborted, committed, told>>
        /\ state = "Idle" /\ state' = "Inserting" /\ cur' = asked + 1
        /\ asked' = asked + 1 /\ asked < MaxQueries
        /\ pc' = "open" /\ call' # "end"
    BY <1>2, SendCommits
       DEF OpenInsert, BeginInsert, NextNumber, Enter, Guarded, GuardIsHeld, ControlInv
  <2>2. asked + 1 \notin endSent \union aborted /\ asked + 1 \in Tags
    BY <2>1, WireAssumption DEF Tags
  <2>3. Ledger!Open(asked + 1)
    BY <2>1, <2>2 DEF Ledger!Open, OpenInserts
  <2>4. \A q \in endSent' : q <= asked'
    BY <2>1 DEF Known, IInv, TypeOK, NativeTypeOK, Tags
  <2>. QED  BY <2>1, <2>2, <2>3, <2>4 DEF LedgerInv, LedgerStep, Ledger!LedgerNext
<1>3. CASE WriteEnd
  <2>1. EndInsert /\ UNCHANGED <<told, asked>> /\ pc' = "finish" /\ method' = "writeEnd"
    BY <1>3 DEF WriteEnd, Enter
  <2>. QED  BY <2>1, EndInsertLedger DEF LedgerInv, OneShot
<1>4. CASE Write \/ ResetByScript
  <2>1. UNCHANGED <<wireVars, nativeVars, told, asked>> /\ pc' \in {"rows", "reset"}
        /\ method' \notin OneShot
    BY <1>4 DEF Write, ResetByScript, Enter, OneShot
  <2>. QED
    BY <2>1 DEF wireVars, nativeVars, LedgerInv, LedgerStep, LedgerVars, OpenInserts
<1>5. CASE SetDatabase
  <2>1. state # "Inserting" /\ pc = "idle" /\ call # "end"
    BY <1>5 DEF SetDatabase, Guarded, ControlInv, GuardIsHeld, RestIsTracked, ScriptRuns
  <2>. QED
    BY <1>5, <2>1
       DEF SetDatabase, objVars, LedgerInv, LedgerStep, LedgerVars, OpenInserts
<1>6. CASE FreeObject
  <2>1. UNCHANGED <<told, asked, pc, method, cur, call, aborted>> /\ state' = "Idle"
        /\ pc = "idle" /\ call # "end"
    BY <1>6 DEF FreeObject, Destroy, ControlInv, GuardIsHeld
  <2>2. CASE state = "Inserting"
    <3>1. endSent' = endSent \union {cur} /\ UNCHANGED committed
      BY <1>6, <2>2, SendCommits DEF FreeObject, Destroy
    <3>2. CASE cur \in endSent
      BY <2>1, <3>1, <3>2 DEF LedgerInv, LedgerStep, LedgerVars, OpenInserts
    <3>3. CASE cur \notin endSent
      <4>1. Ledger!End(cur)
        BY <2>1, <2>2, <3>1, <3>3 DEF Ledger!End, OpenInserts
      <4>. QED  BY <2>1, <3>1, <4>1 DEF LedgerInv, LedgerStep, Ledger!LedgerNext
    <3>. QED  BY <3>2, <3>3
  <2>3. CASE state # "Inserting"
    BY <1>6, <2>1, <2>3
       DEF FreeObject, Destroy, wireVars, LedgerInv, LedgerStep, LedgerVars, OpenInserts
  <2>. QED  BY <2>2, <2>3
<1>7. CASE Construct
  BY <1>7 DEF Construct, nativeVars, LedgerInv, LedgerStep, LedgerVars, OpenInserts
<1>. QED  BY <1>1, <1>2, <1>3, <1>4, <1>5, <1>6, <1>7 DEF Script

\* A one-shot method reports the insert it ended, and on a reliable connection one that
\* the server accepted.
LEMMA FinishLedger ==
  ASSUME Known, FinishReturns
  PROVE  LedgerInv' /\ LedgerStep
<1>1. /\ At("finish") /\ ret = "ok" /\ method \in Finishers /\ cur \in Tags
      /\ told' = told \union {<<method, cur>>}
      /\ UNCHANGED <<wireVars, nativeVars, asked>> /\ pc' = "idle" /\ call' = "none"
  BY DEF FinishReturns, Leave, At, nativeVars, Known, IInv, TypeOK, NativeTypeOK, ControlInv,
         MethodPlace
<1>2. method \in OneShot => cur \in endSent /\ (Settled => cur \in committed)
  BY <1>1 DEF At, Known, LedgerInv, SessionInv, ClientSession, InsertPlace
<1>3. Ledger!Report(method, cur)
  BY <1>1, <1>2 DEF wireVars, nativeVars, Ledger!Report, OpenInserts
<1>4. LedgerInv'
  BY <1>1 DEF nativeVars, Known, LedgerInv
<1>. QED  BY <1>1, <1>3, <1>4 DEF LedgerStep, Ledger!LedgerNext

\* The other steps of a method report nothing.
LEMMA MethodLedger ==
  ASSUME Known, Method
  PROVE  LedgerInv' /\ LedgerStep
<1>. LedgerInv /\ ControlInv
  BY DEF Known, IInv
<1>1. CASE FinishReturns
  BY <1>1, FinishLedger
<1>2. CASE OpenInsertReturns
  <2>1. UNCHANGED <<wireVars, nativeVars, asked, told>> /\ call = "none"
    BY <1>2 DEF OpenInsertReturns, At, Leave, GoOn, Finishers
  <2>2. pc' = "rows" => state = "Inserting"
    BY <1>2 DEF OpenInsertReturns, At, Leave, GoOn, LedgerInv
  <2>3. pc' \in {"idle", "rows", "reset"}
    BY <1>2 DEF OpenInsertReturns, Leave, GoOn
  <2>. QED
    BY <2>1, <2>2, <2>3
       DEF wireVars, nativeVars, LedgerInv, LedgerStep, LedgerVars, OpenInserts
<1>3. CASE \/ SelectReturns \/ PingServerReturns \/ CloseReturns \/ UseDatabaseReturns
           \/ Recovered \/ Unrecovered
  <2>1. /\ UNCHANGED <<wireVars, nativeVars, asked>> /\ call = "none"
        /\ pc' \in {"idle", "reset", "recovered", "unrecovered"}
    BY <1>3 DEF SelectReturns, PingServerReturns, CloseReturns, UseDatabaseReturns, Recovered,
                Unrecovered, At, Leave, GoOn
  <2>2. \/ told' = told
        \/ told' = told \union {<<method, cur>>} /\ method \in Finishers \ OneShot
    BY <1>3 DEF SelectReturns, PingServerReturns, CloseReturns, UseDatabaseReturns, Recovered,
                Unrecovered, At, Leave, GoOn, Finishers, OneShot, LedgerInv
  <2>3. cur \in Tags
    BY DEF Known, IInv, TypeOK, NativeTypeOK
  <2>4. told' # told => Ledger!Report(method, cur) /\ method \in Finishers
    BY <2>1, <2>2 DEF wireVars, nativeVars, Ledger!Report, OpenInserts
  <2>5. LedgerStep
    BY <2>1, <2>3, <2>4
       DEF wireVars, nativeVars, LedgerStep, Ledger!LedgerNext, LedgerVars, OpenInserts
  <2>. QED  BY <2>1, <2>5 DEF nativeVars, LedgerInv
<1>4. CASE SendRows \/ SendRowsThrows
  <2>1. /\ UNCHANGED <<nativeVars, asked, told>> /\ call = "none" /\ pc = "rows"
        /\ pc' = "rows" => UNCHANGED method
        /\ pc' \in {"rows", "idle", "reset"}
    BY <1>4 DEF SendRows, SendRowsThrows, SendInsertBlock, SendInsertBlockThrows, At, Leave,
                GoOnSent, Finishers
  <2>2. UNCHANGED committed
    BY <1>4, SendCommits
       DEF SendRows, SendRowsThrows, SendInsertBlock, SendInsertBlockThrows, wireVars
  <2>. QED
    BY <2>1, <2>2 DEF nativeVars, LedgerInv, LedgerStep, LedgerVars, OpenInserts
<1>5. CASE RowsDone
  <2>1. /\ EndInsert /\ UNCHANGED <<asked, told, method>> /\ pc' = "finish" /\ pc = "rows"
        /\ method \in OneShot
    BY <1>5 DEF RowsDone, GoOn, At, OneShot
  <2>. QED  BY <2>1, EndInsertLedger DEF LedgerInv
<1>6. CASE (RowsThrow \/ FinishThrows) /\ EndInsert
  <2>1. UNCHANGED <<asked, told>> /\ pc' \in {"close", "reset"}
    BY <1>6 DEF RowsThrow, FinishThrows, Leave, GoOn, EndInsert, Finishers
  <2>. QED  BY <1>6, <2>1, EndInsertLedger DEF LedgerInv
<1>7. CASE (RowsThrow \/ FinishThrows) /\ UNCHANGED <<wireVars, nativeVars>>
  <2>1. UNCHANGED <<asked, told>> /\ pc' \in {"close", "reset"} /\ call = "none"
    BY <1>7 DEF RowsThrow, FinishThrows, At, GoOn
  <2>. QED
    BY <1>7, <2>1
       DEF wireVars, nativeVars, LedgerInv, LedgerStep, LedgerVars, OpenInserts
<1>8. CASE Reset \/ Rotate
  <2>1. /\ ResetConnection /\ UNCHANGED <<asked, told>> /\ call = "none"
        /\ pc' \in {"use", "recovered", "rotate", "unrecovered"}
    BY <1>8 DEF Reset, Rotate, ResetConnectionEndpoint, At, GoOn, AfterConnect
  <2>. QED  BY <2>1, ResetLedger DEF LedgerInv
<1>9. CASE UseDatabase
  <2>1. /\ UNCHANGED <<endSent, aborted, committed, told, asked>> /\ pc' = "using"
        /\ state = "Idle" /\ state' # "Inserting" /\ call' # "end"
    BY <1>9, SendCommits DEF UseDatabase, At, GoOn, BeginExecuteQuery
  <2>. QED  BY <2>1 DEF LedgerInv, LedgerStep, LedgerVars, OpenInserts
<1>. QED
  BY <1>1, <1>2, <1>3, <1>4, <1>5, <1>6, <1>7, <1>8, <1>9 DEF Method, RowsThrow, FinishThrows

-----------------------------------------------------------------------------
(* The refinement.                                                         *)

\* Every step of the object is a step of the ledger or leaves it alone.
LEMMA LedgerStepped ==
  ASSUME Known, [Next]_vars
  PROVE  LedgerInv' /\ LedgerStep
<1>1. CASE UNCHANGED vars
  BY <1>1 DEF vars, wireVars, nativeVars, objVars, Known, LedgerInv, LedgerStep, LedgerVars,
              OpenInserts
<1>2. CASE Native
  BY <1>2, NativeLedger DEF Known, IInv, LedgerStep
<1>. QED
  BY <1>1, <1>2, ScriptLedger, MethodLedger, EnvironmentLedger DEF Next

\* Whatever the script calls, however calls fail, connections die, timeouts expire and
\* resets are refused, the inserts of an object live as InsertLedger promises: one open at a
\* time, ended or given up once, never committed unless ended, never reported by a one-shot
\* method that did not end it (and, without timeouts, that the server did not accept).
THEOREM ObjectKeepsLedger == Spec => ImplementsLedger
<1>1. Init => Ledger!LedgerInit /\ LedgerInv
  BY DEF Init, NativeInit, WireInit, Ledger!LedgerInit, OpenInserts, LedgerInv
<1>2. Known /\ [Next]_vars => LedgerInv' /\ [Ledger!LedgerNext]_(Ledger!ledgerVars)
  BY LedgerStepped DEF LedgerStep, LedgerVars, Ledger!ledgerVars
<1>3. CASE Settled
  <2>1. Spec => []SessionOrReset
    BY <1>3, SessionIsKnown DEF Settled, Recoverable
  <2>2. IInv /\ SessionOrReset /\ LedgerInv /\ [Next]_vars
          => LedgerInv' /\ [Ledger!LedgerNext]_(Ledger!ledgerVars)
    BY <1>2, <1>3 DEF Known, SessionOrReset, Settled
  <2>. QED
    BY <1>1, <2>1, <2>2, Inductive, PTL DEF Spec, ImplementsLedger, Ledger!LedgerSpec
<1>4. CASE ~Settled
  <2>1. IInv /\ LedgerInv /\ [Next]_vars
          => LedgerInv' /\ [Ledger!LedgerNext]_(Ledger!ledgerVars)
    BY <1>2, <1>4 DEF Known
  <2>. QED  BY <1>1, <2>1, Inductive, PTL DEF Spec, ImplementsLedger, Ledger!LedgerSpec
<1>. QED  BY <1>3, <1>4

=============================================================================
