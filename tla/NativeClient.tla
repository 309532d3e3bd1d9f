---------------------------- MODULE NativeClient ----------------------------
(***************************************************************************)
(* Client::Impl of the vendored clickhouse-cpp: the state machine that     *)
(* owns the socket.  Its public operations are blocking calls; each is     *)
(* modelled as the step that starts it and one step per packet it reads,   *)
(* so that the server and the network interleave with it.                  *)
(*                                                                         *)
(* call says which packet loop is running and ret how the last one ended:  *)
(* "ok", "serverError" (a ServerException) or "error" (any other throw).   *)
(***************************************************************************)
EXTENDS Wire

VARIABLES
  state,      \* state_: Idle, Selecting or Inserting
  call,       \* the packet loop, or the callback, in which the client is
  ret,        \* how the last native call returned
  cur,        \* the number of the query last sent
  stopped,    \* the query's OnDataCancelable callback answers false
  endSent,    \* history: the inserts whose end marker was given to the output stream
  aborted     \* history: the inserts given up by a reset before their end marker

nativeVars == <<state, call, ret, cur, stopped, endSent, aborted>>

NativeTypeOK ==
  /\ state \in {"Idle", "Selecting", "Inserting"}
  /\ call \in {"none", "select", "onData", "onProgress", "cancel", "sample", "end", "pong"}
  /\ ret \in {"ok", "serverError", "error"}
  /\ cur \in Tags
  /\ stopped \in BOOLEAN
  /\ endSent \subseteq Tags
  /\ aborted \subseteq Tags

NativeInit ==
  /\ state = "Idle" /\ call = "none" /\ ret = "ok"
  /\ cur = UseTag /\ stopped = FALSE
  /\ endSent = {} /\ aborted = {}

\* Does the running query have user callbacks?  "USE db" is sent without any.
UserCallbacks == cur # UseTag

\* The running call returns or throws.  NextBlock and BeginExecuteQuery run
\* ResetState on the way out; the insert calls leave state_ as it is.
Unwind(r) ==
  /\ state' = IF state = "Selecting" THEN "Idle" ELSE state
  /\ call' = "none"
  /\ ret' = r
  /\ UNCHANGED <<cur, stopped, endSent, aborted>>

Goto(c) ==
  /\ call' = c
  /\ UNCHANGED <<state, ret, cur, stopped, endSent, aborted>>

Read(kinds) == Receive /\ Head(s2c).kind \in kinds

-----------------------------------------------------------------------------
(* Queries: BeginExecuteQuery, then NextBlock until it has no block.       *)

BeginExecuteQuery(q) ==
  /\ state = "Idle"
  /\ cur' = q
  /\ stopped' = FALSE
  /\ UNCHANGED <<endSent, aborted>>
  /\ \/ Send("Query", q) /\ state' = "Selecting" /\ call' = "select" /\ UNCHANGED ret
     \/ SendFails("Query", q) /\ state' = "Idle" /\ call' = "none" /\ ret' = "error"

\* ReceiveData hands the block to OnData and then asks OnDataCancelable; a query
\* that was stopped sends another Cancel for every block still in flight.
NextBlockData ==
  /\ call = "select"
  /\ Read({"Data"})
  /\ Goto(IF stopped THEN "cancel" ELSE IF UserCallbacks THEN "onData" ELSE "select")

NextBlockInfo ==
  /\ call = "select"
  /\ Read({"Info"})
  /\ Goto(IF UserCallbacks THEN "onProgress" ELSE "select")

NextBlockSkips  == call = "select" /\ Read({"Pong"}) /\ Goto("select")

\* Mutant of NextBlockEnds: a stopped query is waited on past its end.
NextBlockEndsUnlessStopped ==
  call = "select" /\ Read({"EndOfStream"}) /\ IF stopped THEN Goto("select") ELSE Unwind("ok")

NextBlockEnds   == call = "select" /\ Read({"EndOfStream"}) /\ Unwind("ok")

\* A verbose callback told of the server's exception may throw in its place.
NextBlockThrows ==
  /\ call = "select"
  /\ \/ Read({"Exception"}) /\ Unwind("serverError")
     \/ Read({"Exception"}) /\ UserCallbacks /\ Unwind("error")
     \/ Read({"Malformed"}) /\ Unwind("error")

\* User code called from the packet loop returns true, returns false, or throws.
CallbackContinues ==
  /\ call \in {"onData", "onProgress"}
  /\ Goto(IF state = "Selecting" THEN "select" ELSE "sample")
  /\ UNCHANGED wireVars

\* Mutant of CallbackStops: a callback that returns false ends the loop at once.
CallbackStopsReading ==
  /\ call = "onData"
  /\ Unwind("ok")
  /\ UNCHANGED wireVars

CallbackStops ==
  /\ call = "onData"
  /\ stopped' = TRUE
  /\ call' = "cancel"
  /\ UNCHANGED <<state, ret, cur, endSent, aborted>>
  /\ UNCHANGED wireVars

CallbackThrows ==
  /\ call \in {"onData", "onProgress"}
  /\ Unwind("error")
  /\ UNCHANGED wireVars

SendCancel ==
  /\ call = "cancel"
  /\ \/ Send("Cancel", cur) /\ Goto("select")
     \/ SendFails("Cancel", cur) /\ Unwind("error")

-----------------------------------------------------------------------------
(* Inserts: BeginInsert, SendInsertBlock, EndInsert.                       *)

BeginInsert(q) ==
  /\ state = "Idle"
  /\ cur' = q
  /\ state' = "Inserting"
  /\ UNCHANGED <<stopped, endSent, aborted>>
  /\ \/ Send("Insert", q) /\ call' = "sample" /\ UNCHANGED ret
     \/ SendFails("Insert", q) /\ call' = "none" /\ ret' = "error"

SampleSkips  == call = "sample" /\ Read({"Pong"}) /\ Goto("sample")
SampleInfo   == call = "sample" /\ Read({"Info"}) /\ Goto("onProgress")
SampleReturns == call = "sample" /\ Read({"Data"}) /\ Unwind("ok")

\* Mutant of SampleThrows: an Exception packet does not make BeginInsert throw.
SampleThrowsNotOnException ==
  /\ call = "sample"
  /\ \/ Read({"Exception"}) /\ Unwind("ok")
     \/ Read({"EndOfStream", "Malformed"}) /\ Unwind("error")

SampleThrows ==
  /\ call = "sample"
  /\ \/ Read({"Exception"}) /\ Unwind("serverError")
     \/ Read({"EndOfStream", "Malformed"}) /\ Unwind("error")

\* SendInsertBlock is a single send; it throws ValidationError when not inserting.
SendInsertBlock ==
  /\ call = "none"
  /\ state = "Inserting"
  /\ Send("Block", cur)
  /\ UNCHANGED nativeVars

SendInsertBlockThrows ==
  /\ call = "none"
  /\ IF state = "Inserting" THEN SendFails("Block", cur) ELSE UNCHANGED wireVars
  /\ UNCHANGED nativeVars

\* EndInsert returns at once, and silently, when the client is not inserting.
EndInsert ==
  /\ call = "none"
  /\ UNCHANGED <<state, cur, stopped, aborted>>
  /\ IF state # "Inserting"
       THEN /\ ret' = "ok"
            /\ UNCHANGED <<call, endSent>>
            /\ UNCHANGED wireVars
       ELSE /\ endSent' = endSent \union {cur}
            /\ \/ Send("End", cur) /\ call' = "end" /\ UNCHANGED ret
               \/ SendFails("End", cur) /\ ret' = "error" /\ UNCHANGED call

EndSkips   == call = "end" /\ Read({"Data", "Info", "Pong"}) /\ Goto("end")

\* Mutant of EndReturns: the insert ends with whatever packet ends the loop.
EndReturnsOnException ==
  /\ call = "end"
  /\ Read({"EndOfStream", "Exception"})
  /\ state' = "Idle" /\ call' = "none" /\ ret' = "ok"
  /\ UNCHANGED <<cur, stopped, endSent, aborted>>

EndReturns ==
  /\ call = "end"
  /\ Read({"EndOfStream"})
  /\ state' = "Idle" /\ call' = "none" /\ ret' = "ok"
  /\ UNCHANGED <<cur, stopped, endSent, aborted>>
EndThrows ==
  /\ call = "end"
  /\ \/ Read({"Exception"}) /\ Unwind("serverError")
     \/ Read({"Malformed"}) /\ Unwind("error")

-----------------------------------------------------------------------------
(* Ping, a receive that throws, and the reconnects.                        *)

Ping ==
  /\ state = "Idle"
  /\ UNCHANGED <<state, cur, stopped, endSent, aborted>>
  /\ \/ Send("Ping", cur) /\ call' = "pong" /\ UNCHANGED ret
     \/ SendFails("Ping", cur) /\ call' = "none" /\ ret' = "error"

PongReturns == call = "pong" /\ Read({"Pong"}) /\ Unwind("ok")
PongThrows ==
  /\ call = "pong"
  /\ \/ Read({"Exception"}) /\ Unwind("serverError")
     \/ Read({"Data", "Info", "EndOfStream", "Malformed"}) /\ Unwind("error")

ReceiveThrows ==
  /\ call \in {"select", "sample", "end", "pong"}
  /\ ReceiveFails
  /\ Unwind("error")

\* Mutant of ResetConnection: state_ is cleared after the connect, when it succeeded.
ResetConnectionClearsLate ==
  /\ aborted' = IF state = "Inserting" /\ cur \notin endSent
                  THEN aborted \union {cur} ELSE aborted
  /\ UNCHANGED <<call, cur, stopped, endSent>>
  /\ \/ FreshSocket /\ ret' = "ok" /\ state' = "Idle" /\ UNCHANGED committed
     \/ ConnectRefused /\ ret' = "error" /\ UNCHANGED state
     \/ HandshakeFails /\ ret' = "error" /\ UNCHANGED state

\* state_ is cleared before the connect, so that a refused one does not leave an
\* insert open for the destructor to finish; the old streams stay until a new
\* socket replaces them.
ResetConnection ==
  /\ aborted' = IF state = "Inserting" /\ cur \notin endSent
                  THEN aborted \union {cur} ELSE aborted
  /\ state' = "Idle"
  /\ UNCHANGED <<call, cur, stopped, endSent>>
  /\ \/ FreshSocket /\ ret' = "ok" /\ UNCHANGED committed
     \/ ConnectRefused /\ ret' = "error"
     \/ HandshakeFails /\ ret' = "error"

\* The attempts on the other endpoints end as one ResetConnection ends: with the
\* first handshake that succeeds, or as the last attempt failed.
ResetConnectionEndpoint == ResetConnection

\* ~Impl finishes an insert that is still open and swallows what goes wrong.  What
\* the server answers within the teardown deadline is read by no one.
Destroy ==
  /\ state' = "Idle"
  /\ UNCHANGED <<call, ret, cur, stopped, aborted>>
  /\ IF state # "Inserting"
       THEN UNCHANGED wireVars /\ UNCHANGED endSent
       ELSE /\ endSent' = endSent \union {cur}
            /\ Send("End", cur) \/ SendFails("End", cur)

\* The packet loops, and the user code they call.
PacketLoop ==
  \/ NextBlockData \/ NextBlockInfo \/ NextBlockSkips \/ NextBlockEnds \/ NextBlockThrows
  \/ SendCancel
  \/ SampleSkips \/ SampleInfo \/ SampleReturns \/ SampleThrows
  \/ EndSkips \/ EndReturns \/ EndThrows
  \/ PongReturns \/ PongThrows
  \/ ReceiveThrows

Callback == CallbackContinues \/ CallbackStops \/ CallbackThrows
=============================================================================
