-------------------------- MODULE ClickHouseObject --------------------------
(***************************************************************************)
(* The PHP object ClickHouse on top of the native client: the methods of a *)
(* script, their QueryActiveGuard, the streaming-insert flag, and what     *)
(* each method does to the connection when a native call throws.           *)
(*                                                                         *)
(* "select" stands for every method that runs prepareQuery and then        *)
(* Execute or Select (execute, select*, selectStream*, the metadata        *)
(* helpers); "insert" for insert and insertAssoc.                          *)
(***************************************************************************)
EXTENDS NativeClient

CONSTANTS
  Methods,           \* the methods the script calls
  ReapplyDatabase    \* the object has a database other than "default"

QueryMethods == {"select"}
InsertMethods == {"insert", "insertFromStream", "writeStart"}
AllMethods == QueryMethods \union InsertMethods
                \union {"write", "writeEnd", "ping", "resetConnection", "setDatabase"}

\* The methods whose success tells the script that an insert is finished.
Finishers == {"insert", "insertFromStream", "writeEnd"}

\* Those of them that open the insert, too.
OneShot == {"insert", "insertFromStream"}

ASSUME ObjectAssumption ==
  /\ Methods \subseteq AllMethods
  /\ ReapplyDatabase \in BOOLEAN

VARIABLES
  client,             \* the native client exists
  query_active,       \* held by the QueryActiveGuard of a running method
  has_insert_block,   \* a writeStart() insert is open
  insert_query,       \* insert_query_id: which insert that is
  method,             \* the method that runs, or "none"
  pc,                 \* where in the method
  sent,               \* block_sent / sent_any_block / block_send_started
  asked,              \* how many queries were numbered
  told                \* history: <<m, q>>, m reported insert q as finished

objVars == <<client, query_active, has_insert_block, insert_query, method, pc, sent,
             asked, told>>
vars == <<wireVars, nativeVars, objVars>>

Places == {"idle", "query", "open", "rows", "finish", "close", "pong",
           "reset", "rotate", "use", "using", "recovered", "unrecovered"}

TypeOK ==
  /\ WireTypeOK
  /\ NativeTypeOK
  /\ client \in BOOLEAN
  /\ query_active \in BOOLEAN
  /\ has_insert_block \in BOOLEAN
  /\ insert_query \in Tags
  /\ method \in Methods \union {"none"}
  /\ pc \in Places
  /\ sent \in BOOLEAN
  /\ asked \in Tags
  /\ told \subseteq (Finishers \X Tags)

Init ==
  /\ WireInit
  /\ NativeInit
  /\ client = TRUE
  /\ query_active = FALSE
  /\ has_insert_block = FALSE
  /\ insert_query = UseTag
  /\ method = "none"
  /\ pc = "idle"
  /\ sent = FALSE
  /\ asked = 0
  /\ told = {}

-----------------------------------------------------------------------------
(* Entering and leaving a method.                                          *)

\* The script has control between methods and inside a callback of a running one.
ScriptRuns == client /\ (method = "none" \/ call \in {"onData", "onProgress"})

\* QueryActiveGuard: a call on a busy object throws and touches nothing.
Guarded(m) == m \in Methods /\ ScriptRuns /\ ~query_active

Enter(m, place) ==
  /\ Guarded(m)
  /\ method' = m
  /\ pc' = place
  /\ query_active' = TRUE
  /\ sent' = FALSE

\* The method leaves; ok says whether it returned or threw.
Leave(ok) ==
  /\ method' = "none"
  /\ pc' = "idle"
  /\ query_active' = FALSE
  /\ sent' = FALSE
  /\ told' = IF ok /\ method \in Finishers THEN told \union {<<method, cur>>} ELSE told

At(place) == pc = place /\ call = "none"
GoOn(place) == pc' = place /\ UNCHANGED <<method, query_active, sent, told>>
GoOnSent(place) == pc' = place /\ sent' = TRUE /\ UNCHANGED <<method, query_active, told>>
ClearInsertState == has_insert_block' = FALSE /\ insert_query' = UseTag

-----------------------------------------------------------------------------
(* Queries and ping.                                                       *)

NextNumber == asked < MaxQueries /\ asked' = asked + 1

Select ==
  /\ Enter("select", "query")
  /\ ~has_insert_block
  /\ NextNumber
  /\ BeginExecuteQuery(asked + 1)
  /\ UNCHANGED <<client, has_insert_block, insert_query, told>>

\* Mutant of SelectReturns: no throw resets the connection.
SelectReturnsNoReset ==
  /\ At("query")
  /\ Leave(ret = "ok")
  /\ UNCHANGED <<wireVars, nativeVars, client, has_insert_block, insert_query, asked>>

\* A ServerException leaves the wire clean; any other throw resets the connection.
SelectReturns ==
  /\ At("query")
  /\ IF ret = "error" THEN GoOn("reset") ELSE Leave(ret = "ok")
  /\ UNCHANGED <<wireVars, nativeVars, client, has_insert_block, insert_query, asked>>

PingServer ==
  /\ Enter("ping", "pong")
  /\ ~has_insert_block
  /\ Ping
  /\ UNCHANGED <<client, has_insert_block, insert_query, asked, told>>

PingServerReturns ==
  /\ At("pong")
  /\ Leave(ret = "ok")
  /\ UNCHANGED <<wireVars, nativeVars, client, has_insert_block, insert_query, asked>>

-----------------------------------------------------------------------------
(* Inserts.                                                                *)

OpenInsert ==
  /\ \E m \in InsertMethods : Enter(m, "open")
  /\ ~has_insert_block
  /\ NextNumber
  /\ BeginInsert(asked + 1)
  /\ UNCHANGED <<client, has_insert_block, insert_query, told>>

\* BeginInsert returned the sample block, or threw, a server exception included.
OpenInsertReturns ==
  /\ At("open")
  /\ \/ /\ ret = "ok" /\ method = "writeStart"
        /\ has_insert_block' = TRUE /\ insert_query' = cur
        /\ Leave(TRUE)
     \/ /\ ret = "ok" /\ method # "writeStart"
        /\ GoOn("rows")
        /\ UNCHANGED <<has_insert_block, insert_query>>
     \/ /\ ret # "ok"
        /\ GoOn("reset")
        /\ UNCHANGED <<has_insert_block, insert_query>>
  /\ UNCHANGED <<wireVars, nativeVars, client, asked>>

Write ==
  /\ Enter("write", "rows")
  /\ has_insert_block
  /\ UNCHANGED <<wireVars, nativeVars, client, has_insert_block, insert_query, asked, told>>

\* insert() and write() send one block per call, insertFromStream() one per batch.
SendRows ==
  /\ At("rows")
  /\ method # "insertFromStream" => ~sent
  /\ SendInsertBlock
  /\ IF method = "write" THEN Leave(TRUE) ELSE GoOnSent("rows")
  /\ UNCHANGED <<client, has_insert_block, insert_query, asked>>

SendRowsThrows ==
  /\ At("rows")
  /\ method # "insertFromStream" => ~sent
  /\ SendInsertBlockThrows
  /\ GoOnSent("reset")
  /\ UNCHANGED <<client, has_insert_block, insert_query, asked>>

\* The block went out (insert), or the stream is at its end (insertFromStream).
RowsDone ==
  /\ At("rows")
  /\ method = "insertFromStream" \/ (method = "insert" /\ sent)
  /\ EndInsert
  /\ GoOn("finish")
  /\ UNCHANGED <<client, has_insert_block, insert_query, asked>>

\* A value cannot be converted, a row is malformed, the stream cannot be read.  With
\* nothing sent the insert is closed on the healthy wire, else the connection is reset.
RowsThrow ==
  /\ At("rows")
  /\ method # "insertFromStream" => ~sent
  /\ IF sent THEN GoOn("reset") /\ UNCHANGED <<wireVars, nativeVars>>
             ELSE GoOn("close") /\ EndInsert
  /\ UNCHANGED <<client, has_insert_block, insert_query, asked>>

WriteEnd ==
  /\ Enter("writeEnd", "finish")
  /\ has_insert_block
  /\ EndInsert
  /\ UNCHANGED <<client, has_insert_block, insert_query, asked, told>>

\* EndInsert returned on the success path.
FinishReturns ==
  /\ At("finish")
  /\ ret = "ok"
  /\ Leave(TRUE)
  /\ IF method = "writeEnd" THEN ClearInsertState
                            ELSE UNCHANGED <<has_insert_block, insert_query>>
  /\ UNCHANGED <<wireVars, nativeVars, client, asked>>

\* Mutant of FinishThrows: writeEnd() clears its flag and leaves the connection alone.
FinishThrowsNoReset ==
  /\ At("finish")
  /\ ret # "ok"
  /\ IF method = "writeEnd"
       THEN ClearInsertState /\ Leave(FALSE)
       ELSE GoOn("reset") /\ UNCHANGED <<has_insert_block, insert_query>>
  /\ UNCHANGED <<wireVars, nativeVars, client, asked>>

\* EndInsert threw on the success path.  writeEnd() clears the flag before it resets;
\* insertFromStream() without a block sent runs the catch that calls EndInsert again.
FinishThrows ==
  /\ At("finish")
  /\ ret # "ok"
  /\ IF method = "writeEnd" THEN ClearInsertState
                            ELSE UNCHANGED <<has_insert_block, insert_query>>
  /\ IF method = "insertFromStream" /\ ~sent
       THEN GoOn("close") /\ EndInsert
       ELSE GoOn("reset") /\ UNCHANGED <<wireVars, nativeVars>>
  /\ UNCHANGED <<client, asked>>

\* EndInsert returned on the error path: the method throws its first error.
CloseReturns ==
  /\ At("close")
  /\ IF ret = "ok"
       THEN /\ Leave(FALSE)
            /\ IF method = "write" THEN ClearInsertState
                                   ELSE UNCHANGED <<has_insert_block, insert_query>>
       ELSE GoOn("reset") /\ UNCHANGED <<has_insert_block, insert_query>>
  /\ UNCHANGED <<wireVars, nativeVars, client, asked>>

-----------------------------------------------------------------------------
(* Recovery: resetConnectionReapplyDatabase, on its own and in the methods *)
(* above.                                                                  *)

ResetByScript ==
  /\ Enter("resetConnection", "reset")
  /\ ClearInsertState
  /\ UNCHANGED <<wireVars, nativeVars, client, asked, told>>

AfterConnect == IF ReapplyDatabase THEN "use" ELSE "recovered"

Reset ==
  /\ At("reset")
  /\ ResetConnection
  /\ GoOn(IF ret' = "ok" THEN AfterConnect ELSE "rotate")
  /\ UNCHANGED <<client, has_insert_block, insert_query, asked>>

Rotate ==
  /\ At("rotate")
  /\ ResetConnectionEndpoint
  /\ GoOn(IF ret' = "ok" THEN AfterConnect ELSE "unrecovered")
  /\ UNCHANGED <<client, has_insert_block, insert_query, asked>>

UseDatabase ==
  /\ At("use")
  /\ BeginExecuteQuery(UseTag)
  /\ GoOn("using")
  /\ UNCHANGED <<client, has_insert_block, insert_query, asked>>

UseDatabaseReturns ==
  /\ At("using")
  /\ GoOn(IF ret = "ok" THEN "recovered" ELSE "unrecovered")
  /\ UNCHANGED <<wireVars, nativeVars, client, has_insert_block, insert_query, asked>>

\* writeStart() and write() clear the streaming state only when the recovery succeeded.
Recovered ==
  /\ At("recovered")
  /\ Leave(method = "resetConnection")
  /\ IF method \in {"writeStart", "write"}
       THEN ClearInsertState
       ELSE UNCHANGED <<has_insert_block, insert_query>>
  /\ UNCHANGED <<wireVars, nativeVars, client, asked>>

Unrecovered ==
  /\ At("unrecovered")
  /\ Leave(FALSE)
  /\ UNCHANGED <<wireVars, nativeVars, client, has_insert_block, insert_query, asked>>

-----------------------------------------------------------------------------
(* The client itself: replaced by setDatabase(), freed with the object.    *)

\* setDatabase() connects a new client before it deletes the old one, so a refused
\* connect changes nothing.  The guard is taken and released within the call.
SetDatabase ==
  /\ Guarded("setDatabase")
  /\ ~has_insert_block
  /\ FreshSocket
  /\ state' = "Idle"
  /\ UNCHANGED <<committed, call, ret, cur, stopped, endSent, aborted, objVars>>

\* free_obj clears the streaming state; deleting the client finishes an open insert.
FreeObject ==
  /\ client
  /\ method = "none"
  /\ Destroy
  /\ client' = FALSE
  /\ ClearInsertState
  /\ UNCHANGED <<query_active, method, pc, sent, asked, told>>

Construct ==
  /\ ~client
  /\ client' = TRUE
  /\ FreshSocket
  /\ UNCHANGED <<committed, nativeVars, query_active, has_insert_block, insert_query,
                 method, pc, sent, asked, told>>

-----------------------------------------------------------------------------
Script ==
  \/ Select \/ PingServer \/ OpenInsert \/ Write \/ WriteEnd \/ ResetByScript
  \/ SetDatabase \/ FreeObject \/ Construct

Method ==
  \/ SelectReturns \/ PingServerReturns \/ OpenInsertReturns
  \/ SendRows \/ SendRowsThrows \/ RowsDone \/ RowsThrow
  \/ FinishReturns \/ FinishThrows \/ CloseReturns
  \/ Reset \/ Rotate \/ UseDatabase \/ UseDatabaseReturns \/ Recovered \/ Unrecovered

Native      == (PacketLoop \/ Callback) /\ UNCHANGED objVars
Environment == (Server \/ Break) /\ UNCHANGED <<nativeVars, objVars>>

Next == Script \/ Method \/ Native \/ Environment

Spec == Init /\ [][Next]_vars

\* The PHP thread runs on while a method runs, user callbacks return, an input stream
\* comes to its end, and the server goes on consuming and in the end answers a query.
\* Nothing is assumed of the script, which may never call again, nor of the network.
ServerAnswers == ServerEndsQuery \/ ServerOpensInsert

FairSpec ==
  /\ Spec
  /\ WF_vars(Server /\ UNCHANGED <<nativeVars, objVars>>)
  /\ WF_vars(ServerAnswers /\ UNCHANGED <<nativeVars, objVars>>)
  /\ WF_vars(Native)
  /\ WF_vars(Method)
  /\ SF_vars(RowsDone)

-----------------------------------------------------------------------------
(* Properties.                                                             *)

\* An insert that a recovery gave up before its end marker was sent is never finished:
\* no later call, and not the destructor either, ends it on a connection on which the
\* server would commit the partial data (ResetConnection's early state_ = Idle).
AbandonedNeverCommitted == committed \intersect aborted = {}

\* Between two calls the native client is idle, or it is inside the streaming insert the
\* object knows of.  Otherwise every later query would be refused by the native guard
\* and freeing the object would finish an insert no flag announced.
RestIsTracked ==
  client /\ method = "none" => \/ state = "Idle"
                               \/ state = "Inserting" /\ has_insert_block

\* What a packet loop takes as its answer was sent for the query it is running: no
\* rows, error or end of an earlier query of the connection (the resets after a throw).
Answers == {"Data", "Info", "Exception", "EndOfStream"}
AnswersAreOwn ==
  call \in {"select", "sample", "end"} /\ s2c # << >> =>
    (Head(s2c).kind \in Answers => Head(s2c).q = cur)

\* When the script has control and no insert is open, the server is not still working
\* for it: no query of an earlier call runs, or waits to run, on the connection, and
\* none of its answers is left unread.
NothingLeftBehind ==
  client /\ method = "none" /\ state = "Idle" /\ alive =>
    /\ srv.mode = "ready"
    /\ \A i \in 1 .. Len(c2s) : c2s[i].kind \notin {"Query", "Insert", "Block", "End"}
    /\ \A i \in 1 .. Len(s2c) : s2c[i].kind \notin Answers

\* The insert the object holds open between two calls is the one the server has open.
StreamIsServersInsert ==
  client /\ method = "none" /\ state = "Inserting" /\ alive =>
    srv.q = insert_query /\ srv.mode \in {"insert", "skip"}

\* insert(), insertAssoc() and insertFromStream() report success only for an insert
\* whose end the server accepted.
OneShotSuccessIsCommitted ==
  \A t \in told : t[1] \in OneShot => t[2] \in committed

\* writeEnd() reports success only for an insert whose end the server accepted.
WriteEndSuccessIsCommitted ==
  \A t \in told : t[1] = "writeEnd" => t[2] \in committed

\* The object keeps the promise of InsertLedger about its inserts: whatever fails, one is
\* open at a time and each ends once, by its end marker or by the reset that gives it up.
Settled == ~Timeouts /\ ~OldSocketSurvives
OpenInserts == IF state = "Inserting" /\ cur \notin endSent THEN {cur} ELSE {}
Ledger == INSTANCE InsertLedger
            WITH Inserts <- Tags, Reports <- Finishers, Reliable <- Settled,
                 open <- OpenInserts, ended <- endSent, abandoned <- aborted
ImplementsLedger == Ledger!LedgerSpec

\* Every call of the script returns.
EveryCallReturns == method # "none" ~> method = "none"
=============================================================================
