-------------------------- MODULE ObjectInvariant --------------------------
(***************************************************************************)
(* The inductive invariant of ClickHouseObject: TLC checks it on a small   *)
(* instance and ClickHouseObject_proofs proves it.                         *)
(***************************************************************************)
EXTENDS ClickHouseObject

-----------------------------------------------------------------------------
(* Where the script, the method and the packet loop are.                   *)

GuardIsHeld ==
  /\ query_active = (method # "none")
  /\ method = "none" <=> pc = "idle"
  /\ call # "none" => method # "none"
  /\ ~client => method = "none"

\* Which state_ a packet loop runs in.
LoopState ==
  /\ call \in {"select", "onData", "cancel"} => state = "Selecting"
  /\ call \in {"sample", "end"} => state = "Inserting"
  /\ call = "onProgress" => state # "Idle"
  /\ call = "pong" => state = "Idle"
  /\ call = "none" => state # "Selecting"

\* Which packet loop the places of a method wait for.
LoopPlace ==
  call # "none" =>
    /\ pc \in {"query", "using", "open", "finish", "close", "pong"}
    /\ pc \in {"query", "using"} <=> state = "Selecting"
    /\ pc = "open" => call \in {"sample", "onProgress"}
    /\ pc \in {"finish", "close"} <=> call = "end"
    /\ pc = "pong" <=> call = "pong"

\* The places at which no insert of the method is open on the native client.
Closed ==
  call = "none" =>
    /\ pc \in {"query", "pong", "rotate", "use", "using", "recovered", "unrecovered"}
         => state = "Idle"
    /\ pc \in {"finish", "close"} /\ ret = "ok" => state = "Idle"

MethodPlace ==
  /\ pc = "open" => method \in InsertMethods
  /\ pc = "rows" => method \in {"insert", "insertFromStream", "write"}
  /\ method = "write" /\ pc = "rows" => has_insert_block
  /\ pc = "finish" => method \in Finishers

FreedIsIdle == ~client => state = "Idle"

ControlInv ==
  /\ GuardIsHeld /\ LoopState /\ LoopPlace /\ Closed /\ MethodPlace /\ FreedIsIdle
  /\ RestIsTracked

-----------------------------------------------------------------------------
(* Which insert the packets on the wire belong to.                         *)

\* Numbers are fresh: nothing on record is numbered above asked.
Numbered ==
  /\ cur <= asked
  /\ \A q \in aborted : q <= asked

InsertPackets == {"Insert", "Block", "End", "Torn"}

\* A block or an end marker belongs to the insert of the packet before it, and the
\* first one on the wire to the insert the server has open.
Follows ==
  \A i \in 1 .. Len(c2s) : c2s[i].kind \in {"Block", "End"} =>
    IF i = 1 THEN c2s[i].q = srv.q
             ELSE c2s[i].q = c2s[i-1].q /\ c2s[i-1].kind \in InsertPackets

\* While the client inserts, what it would send next continues its own insert.
WriterContinues ==
  state = "Inserting" /\ alive =>
    IF c2s = << >> THEN srv.q = cur
                   ELSE c2s[Len(c2s)].q = cur /\ c2s[Len(c2s)].kind \in InsertPackets

\* End markers are of inserts that were ended, and so is every commit.
EndsAreSent ==
  /\ \A i \in 1 .. Len(c2s) : c2s[i].kind = "End" => c2s[i].q \in endSent
  /\ committed \subseteq endSent

\* No insert is both given up and ended, and the open one was not given up.
AbortedIsFinal ==
  /\ aborted \intersect endSent = {}
  /\ state = "Inserting" => cur \notin aborted

WireInv == Numbered /\ Follows /\ WriterContinues /\ EndsAreSent /\ AbortedIsFinal

IInv == TypeOK /\ ControlInv /\ WireInv

-----------------------------------------------------------------------------
(* What the refinement of InsertLedger needs besides IInv.                 *)

LedgerInv ==
  /\ \A q \in endSent : q <= asked
  /\ pc = "open" \/ (pc = "rows" /\ method \in OneShot) => state = "Inserting"
  /\ pc \in {"query", "pong"} => method \notin OneShot
  /\ call = "end" \/ (pc = "finish" /\ method \in OneShot) => cur \in endSent
=============================================================================
