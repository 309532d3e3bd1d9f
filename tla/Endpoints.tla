------------------------------ MODULE Endpoints ------------------------------
(***************************************************************************)
(* How Client::Impl finds an endpoint: the round-robin iterator, the       *)
(* rotation of ResetConnectionEndpoint, the constructor's CreateConnection *)
(* around it, the reset of the extension, and the RetryGuard that          *)
(* ping_before_query puts before every query.  One step per attempt, so    *)
(* that endpoints come and go between two of them.                         *)
(***************************************************************************)
EXTENDS Naturals

CONSTANTS
  N,             \* options_.endpoints.size()
  Retries        \* the values of options_.send_retries ("retry_count") considered

ASSUME EndpointsAssumption == N \in Nat \ {0} /\ Retries \subseteq Nat

EndpointIds == 0 .. N - 1
None == N                             \* std::nullopt

Conditions == {"serves", "down", "babbles", "rejects"}
Errors     == {"none", "system_error", "ProtocolError", "ServerException"}

VARIABLES
  sendRetries,   \* options_.send_retries
  condition,     \* what a connect to each endpoint meets; the environment's
  live,          \* the socket is connected and answers
  socket,        \* the endpoint socket_ was opened to
  current,       \* current_endpoint_
  index,         \* endpoints_iterator's current_index
  built,         \* the client was constructed
  pc,            \* "rest", or which attempt or ping is next
  caller,        \* on whose behalf the attempts are made
  tries,         \* the loop counter i of the rotation or of the failover
  round,         \* the loop counter i of CreateConnection or of RetryGuard's first loop
  thrown,        \* the exception of the last attempt
  first,         \* history: the iterator's position when the rotation began
  failed,        \* history: the endpoints that failed since the rotation began
  link,          \* history: the socket since the reset began, as in Reconnect
  threw,         \* history: the last call threw
  pinged         \* history: the function of the last RetryGuard succeeded

envVars  == <<sendRetries, condition>>
loopVars == <<tries, round, failed, first>>
clientVars == <<socket, current, index, built, pc, caller, loopVars, thrown, link,
                threw, pinged>>
vars == <<envVars, live, clientVars>>

Places  == {"rest", "rotate", "direct", "ping", "reconnect", "failover", "failoverPing"}
Callers == {"none", "create", "reset", "fallback", "guard"}

\* The loop counter of RetryGuard is unbounded; past sendRetries all values are alike.
RoundBound == sendRetries + 1

Init ==
  /\ sendRetries \in Retries
  /\ condition \in [EndpointIds -> Conditions]
  /\ live = FALSE
  /\ socket = None
  /\ current = None
  /\ index = N - 1
  /\ built = FALSE
  /\ pc = "rest"
  /\ caller = "none"
  /\ tries = 0
  /\ round = 0
  /\ thrown = "none"
  /\ first = N - 1
  /\ failed = {}
  /\ link = "old"
  /\ threw = FALSE
  /\ pinged = FALSE

-----------------------------------------------------------------------------
(* One attempt.                                                            *)

\* Mutant of NextEndpoint: it wraps one endpoint early.
NextEndpointWrapsEarly == IF index + 2 >= N THEN 0 ELSE index + 1

\* RoundRobinEndpointsIterator::Next, (current_index + 1) % size.
NextEndpoint == IF index + 1 = N THEN 0 ELSE index + 1

Serves(e) == condition[e] = "serves"

Thrown == [serves |-> "none", down |-> "system_error",
           babbles |-> "ProtocolError", rejects |-> "ServerException"]

\* ResetConnection on an endpoint: a refused connect() keeps the old socket, a failed
\* handshake has already replaced it.
Attempt(e) ==
  /\ IF condition[e] = "down"
       THEN UNCHANGED <<live, socket>>
       ELSE socket' = e /\ live' = Serves(e)
  /\ thrown' = Thrown[condition[e]]

\* What the attempt makes of the connection a reset began with.
Relinks(e) ==
  link' = IF Serves(e) THEN "fresh"
          ELSE IF condition[e] = "down" THEN link ELSE "unshaken"

\* The call returns, or throws.
Ends(throws) ==
  /\ pc' = "rest"
  /\ caller' = "none"
  /\ tries' = 0
  /\ round' = 0
  /\ threw' = throws

-----------------------------------------------------------------------------
(* ResetConnectionEndpoint and its callers.                                *)

BeginRotation(c) ==
  /\ pc' = "rotate"
  /\ caller' = c
  /\ current' = None
  /\ tries' = 0
  /\ first' = index'
  /\ failed' = {}
  /\ UNCHANGED threw

TrySucceeds ==
  /\ pc = "rotate"
  /\ Serves(NextEndpoint)
  /\ Attempt(NextEndpoint)
  /\ Relinks(NextEndpoint)
  /\ index' = NextEndpoint
  /\ current' = NextEndpoint
  /\ built' = TRUE
  /\ Ends(FALSE)
  /\ UNCHANGED <<envVars, first, failed, pinged>>

\* Mutant of TryFails: the catch goes on without asking whether that was the last one.
TryFailsPastTheLast ==
  /\ pc = "rotate"
  /\ ~Serves(NextEndpoint)
  /\ Attempt(NextEndpoint)
  /\ Relinks(NextEndpoint)
  /\ index' = NextEndpoint
  /\ current' = NextEndpoint
  /\ failed' = failed \union {NextEndpoint}
  /\ tries' = tries + 1
  /\ UNCHANGED <<envVars, built, pc, caller, round, first, threw, pinged>>

TryFails ==
  /\ pc = "rotate"
  /\ ~Serves(NextEndpoint)
  /\ tries + 1 < N
  /\ Attempt(NextEndpoint)
  /\ Relinks(NextEndpoint)
  /\ index' = NextEndpoint
  /\ current' = NextEndpoint
  /\ failed' = failed \union {NextEndpoint}
  /\ tries' = tries + 1
  /\ UNCHANGED <<envVars, built, pc, caller, round, first, threw, pinged>>

\* CreateConnection makes one round even when no retry is configured.
MaxRounds == IF sendRetries = 0 THEN 1 ELSE sendRetries

\* A rotation that gives up leaves no current endpoint.
GivesUp ==
  /\ Ends(TRUE)
  /\ current' = None
  /\ failed' = failed \union {NextEndpoint}
  /\ UNCHANGED first

\* Mutant of RotationThrows: the catch rethrows without current_endpoint_.reset().
RotationThrowsKeepingCurrent ==
  /\ pc = "rotate"
  /\ ~Serves(NextEndpoint)
  /\ tries + 1 = N
  /\ Attempt(NextEndpoint)
  /\ Relinks(NextEndpoint)
  /\ index' = NextEndpoint
  /\ Ends(TRUE)
  /\ current' = NextEndpoint
  /\ failed' = failed \union {NextEndpoint}
  /\ UNCHANGED <<envVars, built, pinged, first>>

\* The last endpoint failed too.  The constructor starts another round or throws; the
\* extension answers a throw of its ResetConnection with one rotation of its own.
RotationThrows ==
  /\ pc = "rotate"
  /\ ~Serves(NextEndpoint)
  /\ tries + 1 = N
  /\ Attempt(NextEndpoint)
  /\ Relinks(NextEndpoint)
  /\ index' = NextEndpoint
  /\ \/ caller = "create" /\ round + 1 < MaxRounds
        /\ BeginRotation("create") /\ round' = round + 1
     \/ caller = "reset" /\ BeginRotation("fallback") /\ UNCHANGED round
     \/ caller = "create" /\ round + 1 >= MaxRounds /\ GivesUp
     \/ caller = "fallback" /\ GivesUp
  /\ UNCHANGED <<envVars, built, pinged>>

\* Every construction makes a Client::Impl, and an iterator, of its own.
CreateConnection ==
  /\ pc = "rest"
  /\ ~built
  /\ live' = FALSE
  /\ socket' = None
  /\ index' = N - 1
  /\ BeginRotation("create")
  /\ round' = 0
  /\ link' = "old"
  /\ thrown' = "none"
  /\ UNCHANGED <<envVars, built, pinged>>

\* resetConnectionReapplyDatabase: ResetConnection itself rotates when there is no
\* current endpoint.
ResetByExtension ==
  /\ pc = "rest"
  /\ built
  /\ link' = "old"
  /\ thrown' = "none"
  /\ round' = 0
  /\ UNCHANGED index
  /\ IF current = None
       THEN BeginRotation("reset")
       ELSE /\ pc' = "direct"
            /\ caller' = "reset"
            /\ UNCHANGED <<current, tries, failed, first, threw>>
  /\ UNCHANGED <<envVars, live, socket, built, pinged>>

\* Mutant of DirectReset: the extension takes a failed reset for a recovered connection.
DirectResetSwallows ==
  /\ pc = "direct"
  /\ Attempt(current)
  /\ Relinks(current)
  /\ Ends(FALSE)
  /\ UNCHANGED <<envVars, current, index, failed, first, built, pinged>>

DirectReset ==
  /\ pc = "direct"
  /\ Attempt(current)
  /\ Relinks(current)
  /\ UNCHANGED index
  /\ IF Serves(current)
       THEN Ends(FALSE) /\ UNCHANGED <<current, failed, first>>
       ELSE BeginRotation("fallback") /\ UNCHANGED round
  /\ UNCHANGED <<envVars, built, pinged>>

-----------------------------------------------------------------------------
(* RetryGuard around Ping, before a query.                                 *)

GuardedQuery ==
  /\ pc = "rest"
  /\ built
  /\ caller' = "guard"
  /\ pc' = IF current = None THEN "failover" ELSE "ping"
  /\ tries' = 0
  /\ round' = 0
  /\ first' = index
  /\ failed' = {}
  /\ thrown' = "none"
  /\ pinged' = FALSE
  /\ UNCHANGED <<envVars, live, socket, current, index, built, link, threw>>

\* The function returns, or throws what makes the guard reconnect.
GuardPing ==
  /\ pc = "ping"
  /\ pinged' = live
  /\ IF live
       THEN Ends(FALSE)
       ELSE pc' = "reconnect" /\ UNCHANGED <<caller, tries, round, threw>>
  /\ UNCHANGED <<envVars, live, socket, current, index, built, thrown, failed, first, link>>

\* The guard leaves this loop only by a reconnect that fails in the round numbered
\* send_retries: a reconnect that succeeds there leaves the loop without a bound.
GuardReconnect ==
  /\ pc = "reconnect"
  /\ Attempt(current)
  /\ IF ~Serves(current) /\ round = sendRetries
       THEN pc' = "failover" /\ UNCHANGED round
       ELSE pc' = "ping" /\ round' = IF round < RoundBound THEN round + 1 ELSE round
  /\ UNCHANGED <<envVars, current, index, built, caller, tries, failed, first, link,
                 threw, pinged>>

\* Mutant of ConnectionAttempts: the first attempt counted as one of the retries.
ConnectionAttemptsLess == IF sendRetries = 0 THEN 0 ELSE N * (sendRetries - 1)
ConnectionAttempts == N * sendRetries

\* No attempt is configured: the guard returns as if the function had succeeded.
GuardReturnsUntried ==
  /\ pc = "failover"
  /\ tries = ConnectionAttempts
  /\ Ends(FALSE)
  /\ UNCHANGED <<envVars, live, socket, current, index, built, thrown, failed, first,
                 link, pinged>>

GuardFailover ==
  /\ pc = "failover"
  /\ tries < ConnectionAttempts
  /\ Attempt(NextEndpoint)
  /\ index' = NextEndpoint
  /\ \/ /\ Serves(NextEndpoint)
        /\ pc' = "failoverPing"
        /\ current' = NextEndpoint
        /\ UNCHANGED <<caller, tries, round, failed, first, threw>>
     \/ /\ ~Serves(NextEndpoint)
        /\ tries + 1 = ConnectionAttempts
        /\ GivesUp
     \/ /\ ~Serves(NextEndpoint)
        /\ tries + 1 < ConnectionAttempts
        /\ tries' = tries + 1
        /\ current' = NextEndpoint
        /\ failed' = failed \union {NextEndpoint}
        /\ UNCHANGED <<pc, caller, round, first, threw>>
  /\ UNCHANGED <<envVars, built, link, pinged>>

GuardFailoverPing ==
  /\ pc = "failoverPing"
  /\ pinged' = live
  /\ \/ /\ live
        /\ Ends(FALSE)
        /\ UNCHANGED <<current, failed, thrown>>
     \/ /\ ~live
        /\ failed' = failed \union {current}
        /\ thrown' = "system_error"
        /\ IF tries + 1 = ConnectionAttempts
             THEN Ends(TRUE) /\ current' = None
             ELSE /\ pc' = "failover"
                  /\ tries' = tries + 1
                  /\ UNCHANGED <<caller, round, current, threw>>
  /\ UNCHANGED <<envVars, live, socket, index, built, first, link>>

-----------------------------------------------------------------------------
(* The environment.                                                        *)

\* An endpoint changes; a server that goes away takes its connections with it.
Changes ==
  \E e \in EndpointIds, c \in Conditions :
    /\ condition' = [condition EXCEPT ![e] = c]
    /\ live' = (live /\ (socket = e => c \in {"serves", "rejects"}))
    /\ UNCHANGED <<sendRetries, clientVars>>

Disconnects ==
  /\ live
  /\ live' = FALSE
  /\ UNCHANGED <<envVars, clientVars>>

Next ==
  \/ CreateConnection \/ ResetByExtension \/ GuardedQuery
  \/ TrySucceeds \/ TryFails \/ RotationThrows \/ DirectReset
  \/ GuardPing \/ GuardReconnect \/ GuardReturnsUntried
  \/ GuardFailover \/ GuardFailoverPing
  \/ Changes \/ Disconnects

Spec == Init /\ [][Next]_vars

-----------------------------------------------------------------------------
(* Properties.                                                             *)

EndpointsOK ==
  /\ condition \in [EndpointIds -> Conditions]
  /\ socket \in EndpointIds \union {None}
  /\ current \in EndpointIds \union {None}
  /\ index \in EndpointIds
  /\ first \in EndpointIds
  /\ failed \subseteq EndpointIds

CountersOK ==
  /\ sendRetries \in Retries
  /\ round \in 0 .. RoundBound
  /\ tries \in Nat
  /\ pc = "rotate" => tries < N
  /\ pc = "failoverPing" => tries < ConnectionAttempts

LabelsOK ==
  /\ pc \in Places
  /\ caller \in Callers
  /\ thrown \in Errors
  /\ link \in {"old", "fresh", "unshaken"}

FlagsOK ==
  /\ live \in BOOLEAN
  /\ built \in BOOLEAN
  /\ threw \in BOOLEAN
  /\ pinged \in BOOLEAN

\* The variables have the types of the code's fields, and the counters stay within the
\* bounds of their loops (client.cpp:282-285, 665-719, 1295-1363).
TypeOK == EndpointsOK /\ CountersOK /\ LabelsOK /\ FlagsOK

\* Between calls, an endpoint that is reported as the current one, and that the next
\* reset goes back to, is the one the socket was opened to; after a call that gave up
\* there is none (client.cpp:645-692, 1336-1363).
CurrentIsTheSockets == pc = "rest" /\ current # None => current = socket

\* A construction, a reset or a guard throws only after every configured endpoint has
\* failed since its last rotation began (client.cpp:665-692, 1336-1363), whatever the
\* position of the iterator and however the endpoints change meanwhile.
GiveUpHasTriedAll == pc = "rest" /\ threw => failed = EndpointIds

\* With a retry configured, a guard that returns normally has seen the ping succeed on
\* the current connection (client.cpp:1295-1363).
\* (With none it may return untried.)
ReturnedIsPinged ==
  [][caller = "guard" /\ pc' = "rest" /\ sendRetries > 0 => threw' \/ pinged']_vars

\* Every reset, with its rotations, is one reconnect of the abstract specification.
Resetting == caller \in {"create", "reset", "fallback"}
Abstract == INSTANCE Reconnect WITH busy <- Resetting
ImplementsReconnect == Abstract!AbsSpec

=============================================================================
