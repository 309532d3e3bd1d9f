-------------------------- MODULE SessionInvariant --------------------------
(***************************************************************************)
(* What the client may assume of the server's session. SessionInv is an    *)
(* inductive invariant, together with IInv, when no timeout can expire and *)
(* a refused reconnect ends the old socket; with timeouts SessionOrReset   *)
(* is, for the methods that reset after every throw. AnswersAreOwn,        *)
(* NothingLeftBehind, StreamIsServersInsert and OneShotSuccessIsCommitted  *)
(* follow from it.                                                         *)
(***************************************************************************)
EXTENDS ObjectInvariant

Kinds(s) == {s[i].kind : i \in 1 .. Len(s)}

\* No packet of the queue has one of the kinds.
Lacks(s, kinds) == \A k \in kinds : k \notin Kinds(s)

\* What has one of the kinds is of query q.
AllOf(s, kinds, q) == \A i \in 1 .. Len(s) : s[i].kind \in kinds => s[i].q = q

\* No packet of a kind in after follows one of a kind in before.
NoneAfter(s, before, after) ==
  \A i, j \in 1 .. Len(s) : i < j /\ s[i].kind \in before => s[j].kind \notin after

\* The packets that make the server work, and the answers that end what it does.
Work == {"Query", "Insert", "Block", "End"}
Opens == {"Query", "Insert"}
Ends == {"EndOfStream", "Exception"}

\* Nothing of an earlier call is under way.
Quiet == srv.mode = "ready" /\ Lacks(c2s, Work) /\ Lacks(s2c, Answers)

-----------------------------------------------------------------------------
(* The wire.                                                               *)

WholePackets == "Torn" \notin Kinds(c2s) /\ held = 0

DeadIsEmpty == ~alive => Lacks(c2s, ToServer) /\ srv.mode = "ready"

MalformedIsLast == NoneAfter(s2c, {"Malformed"}, ToClient)

\* Work on the wire, in the server, and its answers, are of the query last sent.
IsCurrent ==
  /\ AllOf(c2s, Work, cur)
  /\ srv.mode # "ready" => srv.q = cur
  /\ AllOf(s2c, Answers, cur)

\* A query is the only work on the wire, and so is the opening of an insert.
OpensAlone == NoneAfter(c2s, Opens, Work) /\ NoneAfter(c2s, Work, Opens)

-----------------------------------------------------------------------------
(* What each state of the client knows of the session.                     *)

\* With no call running, unless the next step is a reset.
IdleIsQuiet ==
  /\ client /\ call = "none" /\ state = "Idle" /\ pc # "reset" /\ ~(pc = "query" /\ ret = "error")
       => Quiet
  /\ call = "pong" => Quiet

\* The end of a query is its last answer.
SelectSession ==
  state = "Selecting" =>
    /\ Lacks(c2s, {"Insert", "Block", "End"})
    /\ srv.mode \in {"ready", "select"}
    /\ "Query" \in Kinds(c2s) => srv.mode = "ready" /\ Lacks(s2c, Answers)
    /\ srv.mode = "select" => Lacks(s2c, Ends)
    /\ NoneAfter(s2c, Ends, Answers)

\* The USE of a recovery meets a new connection, and has no callbacks.
UseSession ==
  /\ pc \in {"use", "using"} => "Malformed" \notin Kinds(s2c)
  /\ pc = "using" => cur = UseTag /\ ~stopped /\ call \in {"none", "select"}

Opening == pc \in {"open", "reset"}

\* The server is asked for an insert, and opens or refuses it.
OpenSession ==
  state = "Inserting" =>
    /\ "Query" \notin Kinds(c2s) /\ srv.mode # "select"
    /\ "Insert" \in Kinds(c2s) => Opening /\ srv.mode = "ready" /\ Lacks(s2c, Answers)
    /\ srv.mode = "sample" =>
         Opening /\ Lacks(c2s, Work) /\ Lacks(s2c, Ends \union {"Data"})
    /\ "Malformed" \in Kinds(s2c) => Opening /\ Lacks(s2c, Answers)
    /\ pc = "open" =>
         /\ Lacks(c2s, {"Block", "End"}) /\ srv.mode # "skip"
         /\ "Data" \in Kinds(s2c) /\ alive => srv.mode = "insert"
    /\ pc = "open" /\ call = "none" /\ ret = "ok" =>
         (alive => srv.mode = "insert") /\ "Malformed" \notin Kinds(s2c)

\* Rows, and the end of them.
InsertSession ==
  state = "Inserting" =>
    /\ srv.mode = "insert" =>
         /\ Lacks(s2c, Ends)
         /\ "End" \in Kinds(c2s) => call = "end"
         /\ NoneAfter(c2s, {"End"}, Work)
    /\ "Exception" \in Kinds(s2c) => srv.mode \in {"ready", "skip"}
    /\ "EndOfStream" \in Kinds(s2c) =>
         /\ call = "end" /\ cur \in committed
         /\ srv.mode = "ready" /\ Lacks(c2s, Work)
         /\ "Exception" \notin Kinds(s2c)
         /\ NoneAfter(s2c, {"EndOfStream"}, Answers)
    /\ pc \in {"rows", "idle"} /\ alive =>
         srv.mode \in {"insert", "skip"} /\ "End" \notin Kinds(c2s)
    /\ pc \in {"finish", "close"} /\ call = "none" => srv.mode \in {"ready", "skip"}

\* What the object's places say of the insert.
InsertPlace ==
  /\ pc = "open" \/ (pc = "rows" /\ method \in OneShot) => state = "Inserting"
  /\ state = "Inserting" /\ has_insert_block => insert_query = cur
  /\ pc \in {"query", "pong"} => method \notin OneShot
  /\ pc = "finish" /\ call = "none" /\ ret = "ok" /\ method \in OneShot => cur \in committed
  /\ OneShotSuccessIsCommitted

WireSession == WholePackets /\ DeadIsEmpty /\ MalformedIsLast /\ IsCurrent /\ OpensAlone

ClientSession ==
  IdleIsQuiet /\ SelectSession /\ UseSession /\ OpenSession /\ InsertSession /\ InsertPlace

SessionInv == WireSession /\ ClientSession

-----------------------------------------------------------------------------
(* A timeout leaves a part of a packet behind, and what is known of the    *)
(* session is lost until a reset, which is then the next that happens.     *)

\* A refused reconnect ends the old socket, and with timeouts every throw is followed by
\* a reset: ping() does none, insertFromStream() ends an empty insert twice instead, and
\* a USE that fails leaves the recovery without one.
Recoverable ==
  /\ ~OldSocketSurvives
  /\ Timeouts => ~ReapplyDatabase /\ Methods \intersect {"ping", "insertFromStream"} = {}

\* The method is on its way to a reset, or there is no client.
ResetIsNext ==
  \/ ~client
  \/ pc = "reset"
  \/ call = "none" /\ ret = "error" /\ pc \in {"query", "open", "finish", "close"}

\* A ping, or the USE of a recovery, does not run.
Plain == pc \notin {"pong", "use", "using"}

\* What the client assumes of the session is true, or a timeout has expired and the method
\* that met it (selectWithCallback, insert or a stream's, clickhouse.cpp) goes on to reset.
SessionOrReset ==
  /\ InsertPlace
  /\ SessionInv \/ (Timeouts /\ ResetIsNext)
  /\ Timeouts => Plain
=============================================================================
