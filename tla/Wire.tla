-------------------------------- MODULE Wire --------------------------------
(***************************************************************************)
(* One TCP connection between the native client and a ClickHouse server,   *)
(* as the client code assumes it: two FIFO streams, a server session that  *)
(* executes one query at a time, and the ways a socket call can fail.      *)
(*                                                                         *)
(* The server is external to the repository.  It is modelled from what     *)
(* lib/clickhouse-cpp/clickhouse/client.cpp sends to it and expects back.  *)
(* Every packet carries the number of the query it belongs to, a history   *)
(* value that the wire format does not have: the client code cannot read   *)
(* it, the properties can.                                                 *)
(***************************************************************************)
EXTENDS Naturals, Sequences

CONSTANTS
  MaxQueries,         \* how many queries a behaviour may number
  Window,             \* bound on unread packets in each direction
  Timeouts,           \* receive_timeout / send_timeout configured (default: no)
  OldSocketSurvives   \* may the old socket still be usable when a reconnect is refused?

ASSUME WireAssumption ==
  /\ MaxQueries \in Nat
  /\ Window \in Nat \ {0}
  /\ Timeouts \in BOOLEAN
  /\ OldSocketSurvives \in BOOLEAN

VARIABLES
  alive,      \* the socket the client holds still connects it to a server
  c2s,        \* packets written by the client and not yet consumed by the server
  held,       \* how many of them, at the end, are still in the client's output buffer
  s2c,        \* packets sent by the server and not yet read by the client
  srv,        \* the server's session: what it is doing, and for which query
  committed   \* history: the inserts the server was told the end of and accepted

wireVars == <<alive, c2s, held, s2c, srv, committed>>
outbox == <<c2s, held>>

\* The number of the "USE db" query of a recovery, which is no query of the script.
UseTag == 0
Tags == 0 .. MaxQueries

ToServer == {"Query", "Insert", "Block", "End", "Cancel", "Ping", "Torn"}
ToClient == {"Data", "Info", "Exception", "EndOfStream", "Pong", "Malformed"}
Modes    == {"ready", "select", "sample", "insert", "skip"}

Packet(kind, q)  == [kind |-> kind, q |-> q]
Session(mode, q) == [mode |-> mode, q |-> q]

WireTypeOK ==
  /\ alive \in BOOLEAN
  /\ c2s \in Seq([kind : ToServer, q : Tags])
  /\ held \in 0 .. Len(c2s)
  /\ s2c \in Seq([kind : ToClient, q : Tags])
  /\ srv \in [mode : Modes, q : Tags]
  /\ committed \subseteq Tags

\* Mutant of FreshSocket: InitializeStreams leaves the old output buffer in place.
FreshSocketOldOutput ==
  /\ alive' = TRUE
  /\ c2s' = << >> /\ held' = held
  /\ s2c' = << >>
  /\ srv' = Session("ready", UseTag)

\* Mutant of FreshSocket: InitializeStreams leaves the old input buffer in place.
FreshSocketOldInput ==
  /\ alive' = TRUE
  /\ c2s' = << >> /\ held' = 0
  /\ s2c' = s2c
  /\ srv' = Session("ready", UseTag)

\* A new socket and a new server session; InitializeStreams swaps both streams.
FreshSocket ==
  /\ alive' = TRUE
  /\ c2s' = << >> /\ held' = 0
  /\ s2c' = << >>
  /\ srv' = Session("ready", UseTag)

WireInit ==
  /\ alive = TRUE
  /\ c2s = << >> /\ held = 0
  /\ s2c = << >>
  /\ srv = Session("ready", UseTag)
  /\ committed = {}

-----------------------------------------------------------------------------
(* What a socket call of the client does to the wire.                      *)

\* A send that returns has flushed the output buffer.  On a dead connection the
\* kernel may still take the bytes.
Send(kind, q) ==
  /\ Len(c2s) < Window
  /\ c2s' = IF alive THEN Append(c2s, Packet(kind, q)) ELSE c2s
  /\ held' = 0
  /\ UNCHANGED <<alive, s2c, srv, committed>>

\* A send that throws because the peer is gone.
SendMeetsDeadPeer == ~alive /\ UNCHANGED wireVars

\* A send whose timeout expired before a byte was taken: DoFlush leaves the bytes in
\* its buffer, and the next flush on this connection sends them first.  A packet that
\* takes more than one flush is only in part in the buffer, or may have sent on its
\* way those that were held before it.
SendIsHeld(kind, q) ==
  /\ Timeouts /\ alive
  /\ Len(c2s) < Window
  /\ \E part \in {kind, "Torn"} : c2s' = Append(c2s, Packet(part, q))
  /\ held' \in {1, held + 1}
  /\ UNCHANGED <<alive, s2c, srv, committed>>

\* A send whose timeout expired in the middle of a packet, the new one or one held
\* before it.  The server can decode nothing of what follows.
SendIsTorn(q) ==
  /\ Timeouts /\ alive
  /\ Len(c2s) < Window
  /\ \E unsent \in 0 .. held :
       c2s' = Append(SubSeq(c2s, 1, Len(c2s) - unsent), Packet("Torn", q))
  /\ held' = 0
  /\ UNCHANGED <<alive, s2c, srv, committed>>

SendFails(kind, q) == SendMeetsDeadPeer \/ SendIsHeld(kind, q) \/ SendIsTorn(q)

\* One packet is read.  Bytes that arrived before the connection died are readable.
\* Input that cannot be decoded is never passed: the reader does not know its length.
Receive ==
  /\ s2c # << >>
  /\ s2c' = IF Head(s2c).kind = "Malformed" THEN s2c ELSE Tail(s2c)
  /\ UNCHANGED <<alive, outbox, srv, committed>>

\* A receive that throws: the connection is at its end, nothing came within the
\* timeout, or only a part of a packet did, whose rest will be read as a new packet.
ReceiveFails ==
  \/ /\ s2c = << >>
     /\ ~alive \/ Timeouts
     /\ UNCHANGED wireVars
  \/ /\ s2c # << >>
     /\ Timeouts
     /\ s2c' = <<Packet("Malformed", Head(s2c).q)>>
     /\ UNCHANGED <<alive, outbox, srv, committed>>

\* A refused connect() keeps the old socket.  Whether that socket still works, or at
\* least still holds unread input, is up to the reason of the refusal.
ConnectRefused ==
  /\ \/ /\ OldSocketSurvives
        /\ UNCHANGED <<alive, outbox, s2c, srv>>
     \/ /\ alive' = FALSE
        /\ c2s' = << >> /\ held' = 0
        /\ s2c' = << >>
        /\ srv' = Session("ready", UseTag)
  /\ UNCHANGED committed

\* connect() succeeds and the Hello exchange does not: the new socket has replaced
\* the old one and its input is not a packet the client can decode.
HandshakeFails ==
  /\ alive' \in BOOLEAN
  /\ c2s' = << >> /\ held' = 0
  /\ s2c' = <<Packet("Malformed", UseTag)>>
  /\ srv' = Session("ready", UseTag)
  /\ UNCHANGED committed

-----------------------------------------------------------------------------
(* The server and the network.                                             *)

\* What follows input that cannot be decoded is never read as a packet of its own.
Answer(kind, q) ==
  s2c' = IF s2c # << >> /\ s2c[Len(s2c)].kind = "Malformed" THEN s2c
                                                            ELSE Append(s2c, Packet(kind, q))
Reply(kind) == Answer(kind, srv.q)
Consume(kind) == /\ alive
                 /\ held < Len(c2s)
                 /\ Head(c2s).kind = kind
                 /\ c2s' = Tail(c2s)
                 /\ UNCHANGED held

\* The connection dies; what the server had not consumed is lost, and unless the peer
\* closed it in order so is what the client had not read.
Break ==
  /\ alive
  /\ alive' = FALSE
  /\ c2s' = << >> /\ held' = 0
  /\ s2c' \in {s2c, << >>}
  /\ srv' = Session("ready", UseTag)
  /\ UNCHANGED committed

ServerTakesQuery ==
  /\ Consume("Query")
  /\ srv.mode = "ready"
  /\ srv' = Session("select", Head(c2s).q)
  /\ UNCHANGED <<alive, s2c, committed>>

\* A block of the result, a Progress / ProfileInfo / Log / ProfileEvents packet, or
\* one the client cannot decode (an unsupported column type).  "USE db" has no result.
ServerSendsRows ==
  /\ alive
  /\ srv.mode \in {"select", "sample"}
  /\ Len(s2c) < Window
  /\ \E kind \in (IF srv.mode = "select" /\ srv.q # UseTag
                     THEN {"Data", "Info", "Malformed"} ELSE {"Info"}) : Reply(kind)
  /\ UNCHANGED <<alive, outbox, srv, committed>>

ServerEndsQuery ==
  /\ alive
  /\ srv.mode = "select"
  /\ \E kind \in {"EndOfStream", "Exception"} : Reply(kind)
  /\ srv' = Session("ready", srv.q)
  /\ UNCHANGED <<alive, outbox, committed>>

ServerTakesCancel ==
  /\ Consume("Cancel")
  /\ IF srv.mode = "select"
       THEN Reply("EndOfStream") /\ srv' = Session("ready", srv.q)
       ELSE UNCHANGED <<s2c, srv>>
  /\ UNCHANGED <<alive, committed>>

ServerTakesPing ==
  /\ Consume("Ping")
  /\ srv.mode \in {"ready", "insert", "skip"}
  /\ Len(s2c) < Window
  /\ Answer("Pong", Head(c2s).q)
  /\ UNCHANGED <<alive, srv, committed>>

ServerTakesInsert ==
  /\ Consume("Insert")
  /\ srv.mode = "ready"
  /\ srv' = Session("sample", Head(c2s).q)
  /\ UNCHANGED <<alive, s2c, committed>>

\* An insert is refused, or answered with the sample block of its columns.
ServerOpensInsert ==
  /\ alive
  /\ srv.mode = "sample"
  /\ \/ /\ Reply("Exception")
        /\ srv' = Session("ready", srv.q)
     \/ /\ Reply("Data")
        /\ srv' = Session("insert", srv.q)
  /\ UNCHANGED <<alive, outbox, committed>>

\* A block of rows is stored, or refused; after a refusal the rest is skipped.
ServerTakesBlock ==
  /\ Consume("Block")
  /\ \/ /\ srv.mode \in {"insert", "skip"}
        /\ UNCHANGED <<s2c, srv>>
     \/ /\ srv.mode = "insert"
        /\ Reply("Exception")
        /\ srv' = Session("skip", srv.q)
  /\ UNCHANGED <<alive, committed>>

\* The empty block that ends an insert: it is accepted, or refused as a whole.
ServerTakesEnd ==
  /\ Consume("End")
  /\ \/ /\ srv.mode = "insert"
        /\ Reply("EndOfStream")
        /\ committed' = committed \union {srv.q}
     \/ /\ srv.mode = "insert"
        /\ Reply("Exception")
        /\ UNCHANGED committed
     \/ /\ srv.mode = "skip"
        /\ UNCHANGED <<s2c, committed>>
  /\ srv' = Session("ready", srv.q)
  /\ UNCHANGED alive

\* A packet the server does not expect where it is: it answers with an exception
\* and closes the connection.
Unexpected(kind) ==
  \/ kind = "Torn"
  \/ srv.mode = "ready" /\ kind \in {"Block", "End"}
  \/ srv.mode \in {"insert", "skip"} /\ kind \in {"Query", "Insert"}

ServerHangsUp ==
  /\ alive
  /\ held < Len(c2s)
  /\ Unexpected(Head(c2s).kind)
  /\ Answer("Exception", Head(c2s).q)
  /\ alive' = FALSE
  /\ c2s' = << >> /\ held' = 0
  /\ srv' = Session("ready", UseTag)
  /\ UNCHANGED committed

Server ==
  \/ ServerTakesQuery \/ ServerSendsRows \/ ServerEndsQuery
  \/ ServerTakesCancel \/ ServerTakesPing \/ ServerTakesInsert
  \/ ServerOpensInsert \/ ServerTakesBlock \/ ServerTakesEnd
  \/ ServerHangsUp
=============================================================================
