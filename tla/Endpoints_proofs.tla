--------------------------- MODULE Endpoints_proofs ---------------------------
(***************************************************************************)
(* For every number of endpoints and every send_retries: the types, that   *)
(* giving up means every endpoint was tried, that the current endpoint is  *)
(* the socket's, and that the reset implements Reconnect.  The argument    *)
(* counts the iterator's steps from where the rotation began, so that no   *)
(* remainder has to be reasoned about.                                     *)
(***************************************************************************)
EXTENDS Endpoints, TLAPS

\* The iterator's position k <= N steps after the rotation began.
Place(k) == IF first + k < N THEN first + k ELSE first + k - N

\* The step of the rotation that reaches endpoint e.
StepOf(e) == IF e > first THEN e - first ELSE e - first + N

\* The first k steps have all failed.
FailedSoFar(k) == \A e \in EndpointIds : StepOf(e) <= k => e \in failed

CallersInv ==
  /\ pc = "rest" => caller = "none"
  /\ pc = "rotate" => caller \in {"create", "reset", "fallback"}
  /\ pc = "direct" => caller = "reset"
  /\ pc \in {"ping", "reconnect", "failover", "failoverPing"} => caller = "guard"
  /\ pc \in {"direct", "ping", "reconnect"} => current \in EndpointIds

RotationInv ==
  /\ pc = "rotate" => index = Place(tries) /\ FailedSoFar(tries)
  /\ pc \in {"ping", "reconnect"} => tries = 0 /\ index = first
  /\ pc = "failover" =>
       /\ tries <= N => index = Place(tries)
       /\ FailedSoFar(tries)
       /\ IF sendRetries = 0 THEN tries = 0 ELSE tries < ConnectionAttempts
  /\ pc = "failoverPing" =>
       /\ tries + 1 <= N => index = Place(tries + 1)
       /\ FailedSoFar(tries)
       /\ current = index
       /\ sendRetries # 0

SocketInv ==
  /\ pc \in {"rest", "direct", "ping", "reconnect", "failoverPing"} =>
       current \in {None, socket}
  /\ pc = "failover" /\ tries = 0 => current \in {None, socket}

LinkInv == Resetting => link \in {"old", "unshaken"}

EInv ==
  /\ TypeOK
  /\ CallersInv
  /\ RotationInv
  /\ GiveUpHasTriedAll
  /\ SocketInv
  /\ LinkInv

-----------------------------------------------------------------------------
(* Lemmas.                                                                 *)

\* How many attempts a failover makes (client.cpp:282-285): none without a retry, and
\* otherwise at least one on every endpoint.
LEMMA AttemptsBound ==
  ASSUME TypeOK
  PROVE  /\ ConnectionAttempts \in Nat
         /\ sendRetries = 0 => ConnectionAttempts = 0
         /\ sendRetries # 0 => ConnectionAttempts >= N
<1>1. N \in Nat /\ N >= 1 /\ sendRetries \in Nat
  BY EndpointsAssumption DEF TypeOK, CountersOK
<1>2. ConnectionAttempts \in Nat /\ (sendRetries = 0 => ConnectionAttempts = 0)
  BY <1>1 DEF ConnectionAttempts
<1>3. ASSUME sendRetries # 0 PROVE ConnectionAttempts >= N
  <2>1. PICK r \in Nat : sendRetries = r + 1
    <3>1. sendRetries - 1 \in Nat /\ sendRetries = (sendRetries - 1) + 1
      BY <1>1, <1>3
    <3> QED BY <3>1
  <2>2. N * sendRetries = N * r + N
    BY <2>1, <1>1
  <2>3. N * r \in Nat
    BY <2>1, <1>1
  <2> QED BY <2>2, <2>3, <1>1 DEF ConnectionAttempts
<1> QED BY <1>2, <1>3

\* The iterator takes one step (endpoints_iterator.cpp:12-16): the endpoint it reaches is
\* the only one of that step, so when it fails too, all the steps up to it have failed.
LEMMA Advance ==
  ASSUME TypeOK, NEW k \in Nat, k < N, index = Place(k)
  PROVE  /\ NextEndpoint \in EndpointIds
         /\ NextEndpoint = Place(k + 1)
         /\ \A e \in EndpointIds : StepOf(e) <= k + 1 => StepOf(e) <= k \/ e = NextEndpoint
<1> USE EndpointsAssumption DEF TypeOK, EndpointsOK, EndpointIds, Place, StepOf, NextEndpoint
<1>1. NextEndpoint \in EndpointIds /\ NextEndpoint = Place(k + 1)
  OBVIOUS
<1>2. ASSUME NEW e \in EndpointIds, StepOf(e) <= k + 1, ~(StepOf(e) <= k)
      PROVE  e = NextEndpoint
  BY <1>2
<1> QED BY <1>1, <1>2

\* From any position, the next endpoint is one of the configured ones.
LEMMA NextIsAnEndpoint ==
  ASSUME TypeOK
  PROVE  NextEndpoint \in EndpointIds
BY EndpointsAssumption DEF TypeOK, EndpointsOK, EndpointIds, NextEndpoint

\* N failed steps in a row are all the endpoints.
LEMMA FullTurn ==
  ASSUME TypeOK, NEW k \in Nat, k >= N, NEW F, F \subseteq EndpointIds,
         \A e \in EndpointIds : StepOf(e) <= k => e \in F
  PROVE  F = EndpointIds
<1>1. \A e \in EndpointIds : StepOf(e) <= N
  BY EndpointsAssumption DEF TypeOK, EndpointsOK, EndpointIds, StepOf
<1>2. \A e \in EndpointIds : StepOf(e) <= k
  BY <1>1, EndpointsAssumption DEF TypeOK, EndpointsOK, EndpointIds, StepOf
<1> QED BY <1>2

\* A rotation or a failover that begins has walked no step.
LEMMA Beginning ==
  ASSUME TypeOK
  PROVE  /\ \A e \in EndpointIds : ~(IF e > index THEN e - index ELSE e - index + N) <= 0
         /\ (IF index + 0 < N THEN index + 0 ELSE index + 0 - N) = index
BY EndpointsAssumption DEF TypeOK, EndpointsOK, EndpointIds

\* An attempt keeps the types of what it assigns (client.cpp:645-663).
LEMMA AttemptTypes ==
  ASSUME TypeOK, NEW e \in EndpointIds, Attempt(e)
  PROVE  /\ live' \in BOOLEAN
         /\ socket' \in EndpointIds \union {None}
         /\ thrown' \in Errors
         /\ socket' \in {socket, e}
         /\ Serves(e) => socket' = e
<1>1. condition[e] \in Conditions
  BY DEF TypeOK, EndpointsOK
<1>2. live' \in BOOLEAN
  BY DEF TypeOK, FlagsOK, Attempt, Serves
<1>3. socket' \in EndpointIds \union {None} /\ socket' \in {socket, e} /\ (Serves(e) => socket' = e)
  BY DEF TypeOK, EndpointsOK, Attempt, Serves
<1>4. thrown' \in Errors
  BY <1>1 DEF Attempt, Thrown, Conditions, Errors
<1> QED BY <1>2, <1>3, <1>4

-----------------------------------------------------------------------------
(* The inductive invariant.                                                *)

\* The constructor's state satisfies the inductive invariant.
LEMMA InitEInv == Init => EInv
<1> SUFFICES ASSUME Init PROVE EInv
  OBVIOUS
<1>1. N \in Nat /\ N >= 1 /\ sendRetries \in Nat
  BY EndpointsAssumption DEF Init
<1>2. EndpointsOK
  BY <1>1 DEF Init, EndpointsOK, EndpointIds
<1>3. CountersOK
  BY <1>1 DEF Init, CountersOK, RoundBound
<1>4. LabelsOK
  BY DEF Init, LabelsOK, Places, Callers, Errors
<1>5. FlagsOK
  BY DEF Init, FlagsOK
<1> QED
  BY <1>2, <1>3, <1>4, <1>5 DEF Init, EInv, TypeOK, CallersInv, RotationInv,
     GiveUpHasTriedAll, SocketInv, LinkInv, Resetting

\* What every step may use of the state it starts in.
LEMMA Facts ==
  ASSUME EInv
  PROVE  /\ N \in Nat /\ N >= 1 /\ sendRetries \in Nat
         /\ TypeOK /\ EndpointsOK /\ CountersOK /\ LabelsOK /\ FlagsOK
         /\ CallersInv /\ RotationInv /\ GiveUpHasTriedAll /\ SocketInv /\ LinkInv
         /\ ConnectionAttempts \in Nat
         /\ sendRetries = 0 => ConnectionAttempts = 0
         /\ sendRetries # 0 => ConnectionAttempts >= N
         /\ NextEndpoint \in EndpointIds
BY AttemptsBound, NextIsAnEndpoint, EndpointsAssumption
   DEF EInv, TypeOK, CountersOK

\* The options are those of the construction, so the bounds of the loops are constant.
LEMMA BoundsConstant ==
  ASSUME sendRetries' = sendRetries
  PROVE  ConnectionAttempts' = ConnectionAttempts /\ RoundBound' = RoundBound
BY DEF ConnectionAttempts, RoundBound

\* A construction starts the first round (client.cpp:694-719).
LEMMA CreateConnectionEInv == ASSUME EInv, CreateConnection PROVE EInv'
<1>1. ConnectionAttempts' = ConnectionAttempts /\ RoundBound' = RoundBound
  BY BoundsConstant DEF CreateConnection, envVars
<1>2. EndpointsOK'
  BY Facts DEF EndpointsOK, RotationInv, EndpointIds, CreateConnection, BeginRotation, envVars, loopVars
<1>3. CountersOK'
  BY Facts, <1>1 DEF CountersOK, RotationInv, RoundBound, MaxRounds, CreateConnection, BeginRotation, envVars, loopVars
<1>4. LabelsOK'
  BY Facts DEF LabelsOK, Places, Callers, Errors, CreateConnection, BeginRotation, envVars, loopVars
<1>5. FlagsOK'
  BY Facts DEF FlagsOK, CreateConnection, BeginRotation, envVars, loopVars
<1>6. CallersInv'
  BY Facts DEF EndpointsOK, CallersInv, CreateConnection, BeginRotation, envVars, loopVars
<1>7. RotationInv'
  BY Facts DEF RotationInv, FailedSoFar, Place, StepOf, EndpointIds, CreateConnection,
     BeginRotation
<1>8. GiveUpHasTriedAll'
  BY Facts DEF GiveUpHasTriedAll, CallersInv, CreateConnection, BeginRotation, envVars, loopVars
<1>9. SocketInv'
  BY Facts DEF SocketInv, CallersInv, RotationInv, CreateConnection, BeginRotation, envVars, loopVars
<1>10. LinkInv'
  BY Facts DEF LinkInv, Resetting, CallersInv, CreateConnection, BeginRotation, envVars, loopVars
<1> QED
  BY <1>2, <1>3, <1>4, <1>5, <1>6, <1>7, <1>8, <1>9, <1>10 DEF EInv, TypeOK

\* The reset of the extension begins (clickhouse.cpp:1324-1344).
LEMMA ResetByExtensionEInv == ASSUME EInv, ResetByExtension PROVE EInv'
<1>1. ConnectionAttempts' = ConnectionAttempts /\ RoundBound' = RoundBound
  BY BoundsConstant DEF ResetByExtension, envVars
<1>2. EndpointsOK'
  BY Facts DEF EndpointsOK, RotationInv, EndpointIds, ResetByExtension, BeginRotation, envVars, loopVars
<1>3. CountersOK'
  BY Facts, <1>1 DEF CountersOK, RotationInv, RoundBound, MaxRounds, ResetByExtension, BeginRotation, envVars, loopVars
<1>4. LabelsOK'
  BY Facts DEF LabelsOK, Places, Callers, Errors, ResetByExtension, BeginRotation, envVars, loopVars
<1>5. FlagsOK'
  BY Facts DEF FlagsOK, ResetByExtension, BeginRotation, envVars, loopVars
<1>6. CallersInv'
  BY Facts DEF EndpointsOK, CallersInv, ResetByExtension, BeginRotation, envVars, loopVars
<1>7. RotationInv'
  BY Facts, <1>1, Beginning DEF RotationInv, CountersOK, CallersInv, FailedSoFar, Place, StepOf,
     ResetByExtension, BeginRotation, envVars, loopVars
<1>8. GiveUpHasTriedAll'
  BY Facts DEF GiveUpHasTriedAll, CallersInv, ResetByExtension, BeginRotation, envVars, loopVars
<1>9. SocketInv'
  BY Facts DEF SocketInv, CallersInv, RotationInv, ResetByExtension, BeginRotation, envVars, loopVars
<1>10. LinkInv'
  BY Facts DEF LinkInv, Resetting, CallersInv, ResetByExtension, BeginRotation, envVars, loopVars
<1> QED
  BY <1>2, <1>3, <1>4, <1>5, <1>6, <1>7, <1>8, <1>9, <1>10 DEF EInv, TypeOK

\* A guarded query begins (client.cpp:1295-1300, 1336-1340).
LEMMA GuardedQueryEInv == ASSUME EInv, GuardedQuery PROVE EInv'
<1>1. ConnectionAttempts' = ConnectionAttempts /\ RoundBound' = RoundBound
  BY BoundsConstant DEF GuardedQuery, envVars
<1>2. EndpointsOK'
  BY Facts DEF EndpointsOK, RotationInv, EndpointIds, GuardedQuery, envVars, loopVars
<1>3. CountersOK'
  BY Facts, <1>1 DEF CountersOK, RotationInv, RoundBound, MaxRounds, GuardedQuery, envVars, loopVars
<1>4. LabelsOK'
  BY Facts DEF LabelsOK, Places, Callers, Errors, GuardedQuery, envVars, loopVars
<1>5. FlagsOK'
  BY Facts DEF FlagsOK, GuardedQuery, envVars, loopVars
<1>6. CallersInv'
  BY Facts DEF EndpointsOK, CallersInv, GuardedQuery, envVars, loopVars
<1>7. RotationInv'
  BY Facts, <1>1, Beginning DEF RotationInv, CountersOK, CallersInv, FailedSoFar, Place, StepOf,
     GuardedQuery, envVars, loopVars
<1>8. GiveUpHasTriedAll'
  BY Facts DEF GiveUpHasTriedAll, CallersInv, GuardedQuery, envVars, loopVars
<1>9. SocketInv'
  BY Facts DEF SocketInv, CallersInv, RotationInv, GuardedQuery, envVars, loopVars
<1>10. LinkInv'
  BY Facts DEF LinkInv, Resetting, CallersInv, GuardedQuery, envVars, loopVars
<1> QED
  BY <1>2, <1>3, <1>4, <1>5, <1>6, <1>7, <1>8, <1>9, <1>10 DEF EInv, TypeOK

\* An attempt of the rotation succeeds (client.cpp:665-674).
LEMMA TrySucceedsEInv == ASSUME EInv, TrySucceeds PROVE EInv'
<1>1. /\ live' \in BOOLEAN
      /\ socket' \in EndpointIds \union {None}
      /\ thrown' \in Errors
      /\ socket' \in {socket, NextEndpoint}
      /\ Serves(NextEndpoint) => socket' = NextEndpoint
  BY Facts, AttemptTypes DEF TrySucceeds
<1>2. ConnectionAttempts' = ConnectionAttempts /\ RoundBound' = RoundBound
  BY BoundsConstant DEF TrySucceeds, envVars
<1>3. EndpointsOK'
  BY Facts, <1>1 DEF EndpointsOK, RotationInv, EndpointIds, TrySucceeds, Ends, envVars, loopVars
<1>4. CountersOK'
  BY Facts, <1>1, <1>2 DEF CountersOK, RotationInv, RoundBound, MaxRounds, TrySucceeds, Ends, envVars, loopVars
<1>5. LabelsOK'
  BY Facts, <1>1 DEF LabelsOK, Places, Callers, Errors, TrySucceeds, Ends, envVars, loopVars, Relinks
<1>6. FlagsOK'
  BY Facts, <1>1 DEF FlagsOK, TrySucceeds, Ends, envVars, loopVars
<1>7. CallersInv'
  BY Facts, <1>1 DEF EndpointsOK, CallersInv, TrySucceeds, Ends, envVars, loopVars
<1>8. RotationInv'
  BY Facts, <1>1, <1>2, Beginning DEF RotationInv, CountersOK, CallersInv, FailedSoFar, Place, StepOf,
     TrySucceeds, Ends, envVars, loopVars
<1>9. GiveUpHasTriedAll'
  BY Facts, <1>1 DEF GiveUpHasTriedAll, CallersInv, TrySucceeds, Ends, envVars, loopVars
<1>10. SocketInv'
  BY Facts, <1>1 DEF SocketInv, CallersInv, RotationInv, TrySucceeds, Ends, envVars, loopVars
<1>11. LinkInv'
  BY Facts, <1>1 DEF LinkInv, Resetting, CallersInv, TrySucceeds, Ends, envVars, loopVars, Relinks
<1> QED
  BY <1>3, <1>4, <1>5, <1>6, <1>7, <1>8, <1>9, <1>10, <1>11 DEF EInv, TypeOK

\* An attempt of the rotation fails and is not the last (client.cpp:675-691).
LEMMA TryFailsEInv == ASSUME EInv, TryFails PROVE EInv'
<1>1. /\ live' \in BOOLEAN
      /\ socket' \in EndpointIds \union {None}
      /\ thrown' \in Errors
      /\ socket' \in {socket, NextEndpoint}
      /\ Serves(NextEndpoint) => socket' = NextEndpoint
  BY Facts, AttemptTypes DEF TryFails
<1>2. tries \in Nat /\ tries < N /\ index = Place(tries) /\ FailedSoFar(tries)
  BY Facts DEF TryFails, CountersOK, RotationInv
<1>3. /\ NextEndpoint = Place(tries + 1)
      /\ \A e \in EndpointIds : StepOf(e) <= tries + 1 => StepOf(e) <= tries \/ e = NextEndpoint
  BY Facts, <1>2, Advance
<1>4. ConnectionAttempts' = ConnectionAttempts /\ RoundBound' = RoundBound
  BY BoundsConstant DEF TryFails, envVars
<1>5. EndpointsOK'
  BY Facts, <1>1, <1>2, <1>3 DEF EndpointsOK, RotationInv, EndpointIds, TryFails, envVars, loopVars
<1>6. CountersOK'
  BY Facts, <1>1, <1>2, <1>3, <1>4 DEF CountersOK, RotationInv, RoundBound, MaxRounds, TryFails, envVars, loopVars
<1>7. LabelsOK'
  BY Facts, <1>1, <1>2, <1>3 DEF LabelsOK, Places, Callers, Errors, TryFails, envVars, loopVars, Relinks
<1>8. FlagsOK'
  BY Facts, <1>1, <1>2, <1>3 DEF FlagsOK, TryFails, envVars, loopVars
<1>9. CallersInv'
  BY Facts, <1>1, <1>2, <1>3 DEF EndpointsOK, CallersInv, TryFails, envVars, loopVars
<1>10. RotationInv'
  <2>1. (index = Place(tries))'
    BY <1>2, <1>3 DEF TryFails, Place
  <2>2. FailedSoFar(tries)'
    BY <1>2, <1>3 DEF TryFails, FailedSoFar, StepOf
  <2> QED BY <2>1, <2>2, Facts DEF TryFails, RotationInv, FailedSoFar, Place, StepOf
<1>11. GiveUpHasTriedAll'
  BY Facts, <1>1, <1>2, <1>3 DEF GiveUpHasTriedAll, CallersInv, TryFails, envVars, loopVars
<1>12. SocketInv'
  BY Facts, <1>1, <1>2, <1>3 DEF SocketInv, CallersInv, RotationInv, TryFails, envVars, loopVars
<1>13. LinkInv'
  BY Facts, <1>1, <1>2, <1>3 DEF LinkInv, Resetting, CallersInv, TryFails, envVars, loopVars, Relinks
<1> QED
  BY <1>5, <1>6, <1>7, <1>8, <1>9, <1>10, <1>11, <1>12, <1>13 DEF EInv, TypeOK

\* The last attempt of the rotation fails (client.cpp:675-691).
LEMMA RotationThrowsEInv == ASSUME EInv, RotationThrows PROVE EInv'
<1>1. /\ live' \in BOOLEAN
      /\ socket' \in EndpointIds \union {None}
      /\ thrown' \in Errors
      /\ socket' \in {socket, NextEndpoint}
      /\ Serves(NextEndpoint) => socket' = NextEndpoint
  BY Facts, AttemptTypes DEF RotationThrows
<1>2. tries \in Nat /\ tries < N /\ index = Place(tries) /\ FailedSoFar(tries)
  BY Facts DEF RotationThrows, CountersOK, RotationInv
<1>3. \A e \in EndpointIds : StepOf(e) <= tries + 1 => StepOf(e) <= tries \/ e = NextEndpoint
  BY Facts, <1>2, Advance
<1>4. failed \union {NextEndpoint} = EndpointIds
  <2>1. \A e \in EndpointIds : StepOf(e) <= tries + 1 => e \in failed \union {NextEndpoint}
    BY <1>2, <1>3 DEF FailedSoFar
  <2>2. failed \union {NextEndpoint} \subseteq EndpointIds
    BY Facts DEF EndpointsOK
  <2>3. tries + 1 \in Nat /\ tries + 1 >= N
    BY <1>2, Facts DEF RotationThrows
  <2> QED BY <2>1, <2>2, <2>3, Facts, FullTurn
<1>5. ConnectionAttempts' = ConnectionAttempts /\ RoundBound' = RoundBound
  BY BoundsConstant DEF RotationThrows, envVars
<1>6. EndpointsOK'
  BY Facts, <1>1, <1>2, <1>3, <1>4 DEF EndpointsOK, RotationInv, EndpointIds, RotationThrows, BeginRotation, Ends, GivesUp, envVars, loopVars
<1>7. CountersOK'
  BY Facts, <1>1, <1>2, <1>3, <1>4, <1>5 DEF CountersOK, RotationInv, RoundBound, MaxRounds, RotationThrows, BeginRotation, Ends, GivesUp, envVars, loopVars
<1>8. LabelsOK'
  BY Facts, <1>1, <1>2, <1>3, <1>4 DEF LabelsOK, Places, Callers, Errors, RotationThrows, BeginRotation, Ends, GivesUp, envVars, loopVars, Relinks
<1>9. FlagsOK'
  BY Facts, <1>1, <1>2, <1>3, <1>4 DEF FlagsOK, RotationThrows, BeginRotation, Ends, GivesUp, envVars, loopVars
<1>10. CallersInv'
  BY Facts, <1>1, <1>2, <1>3, <1>4 DEF EndpointsOK, CallersInv, RotationThrows, BeginRotation, Ends, GivesUp, envVars, loopVars
<1>11. RotationInv'
  <2>1. CASE \E c \in Callers : BeginRotation(c)
    BY <2>1, Facts DEF RotationThrows, BeginRotation, RotationInv, FailedSoFar, Place, StepOf,
       EndpointIds
  <2>2. CASE GivesUp
    BY <2>2 DEF GivesUp, Ends, RotationInv
  <2> QED BY <2>1, <2>2 DEF RotationThrows, Callers
<1>12. GiveUpHasTriedAll'
  BY <1>4 DEF GiveUpHasTriedAll, RotationThrows, BeginRotation, GivesUp, Ends
<1>13. SocketInv'
  BY Facts, <1>1, <1>2, <1>3, <1>4 DEF SocketInv, CallersInv, RotationInv, RotationThrows, BeginRotation, Ends, GivesUp, envVars, loopVars
<1>14. LinkInv'
  BY Facts, <1>1, <1>2, <1>3, <1>4 DEF LinkInv, Resetting, CallersInv, RotationThrows, BeginRotation, Ends, GivesUp, envVars, loopVars, Relinks
<1> QED
  BY <1>6, <1>7, <1>8, <1>9, <1>10, <1>11, <1>12, <1>13, <1>14 DEF EInv, TypeOK

\* A reset on the current endpoint (client.cpp:645-663).
LEMMA DirectResetEInv == ASSUME EInv, DirectReset PROVE EInv'
<1>1. current \in EndpointIds
  BY Facts DEF DirectReset, CallersInv
<1>2. /\ live' \in BOOLEAN
      /\ socket' \in EndpointIds \union {None}
      /\ thrown' \in Errors
      /\ socket' \in {socket, current}
      /\ Serves(current) => socket' = current
  BY <1>1, Facts, AttemptTypes DEF DirectReset
<1>3. ConnectionAttempts' = ConnectionAttempts /\ RoundBound' = RoundBound
  BY BoundsConstant DEF DirectReset, envVars
<1>4. EndpointsOK'
  BY Facts, <1>1, <1>2 DEF EndpointsOK, RotationInv, EndpointIds, DirectReset, BeginRotation, Ends, envVars, loopVars
<1>5. CountersOK'
  BY Facts, <1>1, <1>2, <1>3 DEF CountersOK, RotationInv, RoundBound, MaxRounds, DirectReset, BeginRotation, Ends, envVars, loopVars
<1>6. LabelsOK'
  BY Facts, <1>1, <1>2 DEF LabelsOK, Places, Callers, Errors, DirectReset, BeginRotation, Ends, envVars, loopVars, Relinks
<1>7. FlagsOK'
  BY Facts, <1>1, <1>2 DEF FlagsOK, DirectReset, BeginRotation, Ends, envVars, loopVars
<1>8. CallersInv'
  BY Facts, <1>1, <1>2 DEF EndpointsOK, CallersInv, DirectReset, BeginRotation, Ends, envVars, loopVars
<1>9. RotationInv'
  BY Facts, <1>1, <1>2, <1>3, Beginning DEF RotationInv, CountersOK, CallersInv, FailedSoFar, Place, StepOf,
     DirectReset, BeginRotation, Ends, envVars, loopVars
<1>10. GiveUpHasTriedAll'
  BY Facts, <1>1, <1>2 DEF GiveUpHasTriedAll, CallersInv, DirectReset, BeginRotation, Ends, envVars, loopVars
<1>11. SocketInv'
  BY Facts, <1>1, <1>2 DEF SocketInv, CallersInv, RotationInv, DirectReset, BeginRotation, Ends, envVars, loopVars
<1>12. LinkInv'
  BY Facts, <1>1, <1>2 DEF LinkInv, Resetting, CallersInv, DirectReset, BeginRotation, Ends, envVars, loopVars, Relinks
<1> QED
  BY <1>4, <1>5, <1>6, <1>7, <1>8, <1>9, <1>10, <1>11, <1>12 DEF EInv, TypeOK

\* The guard calls its function (client.cpp:1300-1304).
LEMMA GuardPingEInv == ASSUME EInv, GuardPing PROVE EInv'
<1>1. ConnectionAttempts' = ConnectionAttempts /\ RoundBound' = RoundBound
  BY BoundsConstant DEF GuardPing, envVars
<1>2. EndpointsOK'
  BY Facts DEF EndpointsOK, RotationInv, EndpointIds, GuardPing, Ends, envVars, loopVars
<1>3. CountersOK'
  BY Facts, <1>1 DEF CountersOK, RotationInv, RoundBound, MaxRounds, GuardPing, Ends, envVars, loopVars
<1>4. LabelsOK'
  BY Facts DEF LabelsOK, Places, Callers, Errors, GuardPing, Ends, envVars, loopVars
<1>5. FlagsOK'
  BY Facts DEF FlagsOK, GuardPing, Ends, envVars, loopVars
<1>6. CallersInv'
  BY Facts DEF EndpointsOK, CallersInv, GuardPing, Ends, envVars, loopVars
<1>7. RotationInv'
  BY Facts, <1>1, Beginning DEF RotationInv, CountersOK, CallersInv, FailedSoFar, Place, StepOf,
     GuardPing, Ends, envVars, loopVars
<1>8. GiveUpHasTriedAll'
  BY Facts DEF GiveUpHasTriedAll, CallersInv, GuardPing, Ends, envVars, loopVars
<1>9. SocketInv'
  BY Facts DEF SocketInv, CallersInv, RotationInv, GuardPing, Ends, envVars, loopVars
<1>10. LinkInv'
  BY Facts DEF LinkInv, Resetting, CallersInv, GuardPing, Ends, envVars, loopVars
<1> QED
  BY <1>2, <1>3, <1>4, <1>5, <1>6, <1>7, <1>8, <1>9, <1>10 DEF EInv, TypeOK

\* The guard reconnects to the current endpoint (client.cpp:1304-1334).
LEMMA GuardReconnectEInv == ASSUME EInv, GuardReconnect PROVE EInv'
<1>1. current \in EndpointIds
  BY Facts DEF GuardReconnect, CallersInv
<1>2. /\ live' \in BOOLEAN
      /\ socket' \in EndpointIds \union {None}
      /\ thrown' \in Errors
      /\ socket' \in {socket, current}
      /\ Serves(current) => socket' = current
  BY <1>1, Facts, AttemptTypes DEF GuardReconnect
<1>3. ConnectionAttempts' = ConnectionAttempts /\ RoundBound' = RoundBound
  BY BoundsConstant DEF GuardReconnect, envVars
<1>4. EndpointsOK'
  BY Facts, <1>1, <1>2 DEF EndpointsOK, RotationInv, EndpointIds, GuardReconnect, envVars, loopVars
<1>5. CountersOK'
  BY Facts, <1>1, <1>2, <1>3 DEF CountersOK, RotationInv, RoundBound, MaxRounds, GuardReconnect, envVars, loopVars
<1>6. LabelsOK'
  BY Facts, <1>1, <1>2 DEF LabelsOK, Places, Callers, Errors, GuardReconnect, envVars, loopVars
<1>7. FlagsOK'
  BY Facts, <1>1, <1>2 DEF FlagsOK, GuardReconnect, envVars, loopVars
<1>8. CallersInv'
  BY Facts, <1>1, <1>2 DEF EndpointsOK, CallersInv, GuardReconnect, envVars, loopVars
<1>9. RotationInv'
  BY Facts, <1>1, <1>2, <1>3, Beginning DEF RotationInv, CountersOK, CallersInv, FailedSoFar, Place, StepOf,
     GuardReconnect, envVars, loopVars
<1>10. GiveUpHasTriedAll'
  BY Facts, <1>1, <1>2 DEF GiveUpHasTriedAll, CallersInv, GuardReconnect, envVars, loopVars
<1>11. SocketInv'
  BY Facts, <1>1, <1>2 DEF SocketInv, CallersInv, RotationInv, GuardReconnect, envVars, loopVars
<1>12. LinkInv'
  BY Facts, <1>1, <1>2 DEF LinkInv, Resetting, CallersInv, GuardReconnect, envVars, loopVars
<1> QED
  BY <1>4, <1>5, <1>6, <1>7, <1>8, <1>9, <1>10, <1>11, <1>12 DEF EInv, TypeOK

\* The guard is left without an attempt (client.cpp:1336-1363).
LEMMA GuardReturnsUntriedEInv == ASSUME EInv, GuardReturnsUntried PROVE EInv'
<1>1. ConnectionAttempts' = ConnectionAttempts /\ RoundBound' = RoundBound
  BY BoundsConstant DEF GuardReturnsUntried, envVars
<1>2. EndpointsOK'
  BY Facts DEF EndpointsOK, RotationInv, EndpointIds, GuardReturnsUntried, Ends, envVars, loopVars
<1>3. CountersOK'
  BY Facts, <1>1 DEF CountersOK, RotationInv, RoundBound, MaxRounds, GuardReturnsUntried, Ends, envVars, loopVars
<1>4. LabelsOK'
  BY Facts DEF LabelsOK, Places, Callers, Errors, GuardReturnsUntried, Ends, envVars, loopVars
<1>5. FlagsOK'
  BY Facts DEF FlagsOK, GuardReturnsUntried, Ends, envVars, loopVars
<1>6. CallersInv'
  BY Facts DEF EndpointsOK, CallersInv, GuardReturnsUntried, Ends, envVars, loopVars
<1>7. RotationInv'
  BY Facts, <1>1, Beginning DEF RotationInv, CountersOK, CallersInv, FailedSoFar, Place, StepOf,
     GuardReturnsUntried, Ends, envVars, loopVars
<1>8. GiveUpHasTriedAll'
  BY Facts DEF GiveUpHasTriedAll, CallersInv, GuardReturnsUntried, Ends, envVars, loopVars
<1>9. SocketInv'
  BY Facts DEF SocketInv, CallersInv, RotationInv, GuardReturnsUntried, Ends, envVars, loopVars
<1>10. LinkInv'
  BY Facts DEF LinkInv, Resetting, CallersInv, GuardReturnsUntried, Ends, envVars, loopVars
<1> QED
  BY <1>2, <1>3, <1>4, <1>5, <1>6, <1>7, <1>8, <1>9, <1>10 DEF EInv, TypeOK

\* The guard tries another endpoint (client.cpp:1340-1363).
LEMMA GuardFailoverEInv == ASSUME EInv, GuardFailover PROVE EInv'
<1>1. /\ live' \in BOOLEAN
      /\ socket' \in EndpointIds \union {None}
      /\ thrown' \in Errors
      /\ socket' \in {socket, NextEndpoint}
      /\ Serves(NextEndpoint) => socket' = NextEndpoint
  BY Facts, AttemptTypes DEF GuardFailover
<1>2. /\ tries \in Nat /\ tries < ConnectionAttempts /\ FailedSoFar(tries)
      /\ tries <= N => index = Place(tries)
      /\ sendRetries # 0
  BY Facts DEF GuardFailover, CountersOK, RotationInv
<1>3. /\ tries + 1 <= N => NextEndpoint = Place(tries + 1)
      /\ \A e \in EndpointIds : StepOf(e) <= tries + 1 => e \in failed \union {NextEndpoint}
  <2>1. CASE tries < N
    BY <2>1, <1>2, Facts, Advance DEF FailedSoFar
  <2>2. CASE tries >= N
    <3>1. failed = EndpointIds
      BY <2>2, <1>2, Facts, FullTurn DEF FailedSoFar, EndpointsOK
    <3> QED BY <3>1, <2>2, <1>2, Facts
  <2> QED BY <2>1, <2>2, <1>2, Facts
<1>4. ConnectionAttempts' = ConnectionAttempts /\ RoundBound' = RoundBound
  BY BoundsConstant DEF GuardFailover, envVars
<1>5. EndpointsOK'
  BY Facts, <1>1, <1>2, <1>3 DEF EndpointsOK, RotationInv, EndpointIds, GuardFailover, Ends, GivesUp, envVars, loopVars
<1>6. CountersOK'
  BY Facts, <1>1, <1>2, <1>3, <1>4 DEF CountersOK, RotationInv, RoundBound, MaxRounds, GuardFailover, Ends, GivesUp, envVars, loopVars
<1>7. LabelsOK'
  BY Facts, <1>1, <1>2, <1>3 DEF LabelsOK, Places, Callers, Errors, GuardFailover, Ends, GivesUp, envVars, loopVars
<1>8. FlagsOK'
  BY Facts, <1>1, <1>2, <1>3 DEF FlagsOK, GuardFailover, Ends, GivesUp, envVars, loopVars
<1>9. CallersInv'
  BY Facts, <1>1, <1>2, <1>3 DEF EndpointsOK, CallersInv, GuardFailover, Ends, GivesUp, envVars, loopVars
<1>10. RotationInv'
  <2>1. CASE pc' = "failoverPing"
    <3>1. (tries + 1 <= N => index = Place(tries + 1))'
      BY <2>1, <1>3 DEF GuardFailover, GivesUp, Ends, Place
    <3>2. FailedSoFar(tries)'
      BY <2>1, <1>2 DEF GuardFailover, GivesUp, Ends, FailedSoFar, StepOf
    <3> QED BY <3>1, <3>2, <2>1, <1>2 DEF GuardFailover, GivesUp, Ends, RotationInv, Place,
               FailedSoFar, StepOf, envVars
  <2>2. CASE pc' = "failover"
    <3>1. (tries <= N => index = Place(tries))'
      BY <2>2, <1>3 DEF GuardFailover, GivesUp, Ends, Place
    <3>2. FailedSoFar(tries)'
      BY <2>2, <1>3 DEF GuardFailover, GivesUp, Ends, FailedSoFar, StepOf
    <3> QED BY <3>1, <3>2, <2>2, <1>2, <1>4 DEF GuardFailover, GivesUp, Ends, RotationInv,
               Place, FailedSoFar, StepOf, envVars
  <2>3. CASE pc' = "rest"
    BY <2>3 DEF RotationInv
  <2> QED BY <2>1, <2>2, <2>3 DEF GuardFailover, GivesUp, Ends
<1>11. GiveUpHasTriedAll'
  <2>1. ASSUME tries + 1 = ConnectionAttempts PROVE failed \union {NextEndpoint} = EndpointIds
    <3>1. tries + 1 \in Nat /\ tries + 1 >= N
      BY <2>1, <1>2, Facts
    <3>2. failed \union {NextEndpoint} \subseteq EndpointIds
      BY Facts DEF EndpointsOK
    <3> QED BY <3>1, <3>2, <1>3, Facts, FullTurn
  <2> QED BY <2>1 DEF GiveUpHasTriedAll, GuardFailover, GivesUp, Ends
<1>12. SocketInv'
  BY <1>1, <1>2 DEF SocketInv, GuardFailover, GivesUp, Ends
<1>13. LinkInv'
  BY Facts, <1>1, <1>2, <1>3 DEF LinkInv, Resetting, CallersInv, GuardFailover, Ends, GivesUp, envVars, loopVars
<1> QED
  BY <1>5, <1>6, <1>7, <1>8, <1>9, <1>10, <1>11, <1>12, <1>13 DEF EInv, TypeOK

\* The guard calls its function there (client.cpp:1346-1363).
LEMMA GuardFailoverPingEInv == ASSUME EInv, GuardFailoverPing PROVE EInv'
<1>1. /\ tries \in Nat /\ tries < ConnectionAttempts /\ FailedSoFar(tries)
      /\ tries + 1 <= N => index = Place(tries + 1)
      /\ current = index /\ sendRetries # 0 /\ index \in EndpointIds
  BY Facts DEF GuardFailoverPing, CountersOK, RotationInv, EndpointsOK
<1>2. \A e \in EndpointIds : StepOf(e) <= tries + 1 => e \in failed \union {current}
  <2>1. CASE tries < N
    <3>1. \A e \in EndpointIds : StepOf(e) = tries + 1 => e = index
      BY <2>1, <1>1, Facts DEF Place, StepOf, EndpointIds, EndpointsOK
    <3>2. \A e \in EndpointIds : StepOf(e) <= tries + 1 => StepOf(e) <= tries \/ StepOf(e) = tries + 1
      BY <1>1, Facts DEF StepOf, EndpointIds, EndpointsOK
    <3> QED BY <3>1, <3>2, <1>1 DEF FailedSoFar
  <2>2. CASE tries >= N
    BY <2>2, <1>1, Facts, FullTurn DEF FailedSoFar, EndpointsOK
  <2> QED BY <2>1, <2>2, <1>1, Facts
<1>3. ConnectionAttempts' = ConnectionAttempts /\ RoundBound' = RoundBound
  BY BoundsConstant DEF GuardFailoverPing, envVars
<1>4. EndpointsOK'
  BY Facts, <1>1, <1>2 DEF EndpointsOK, RotationInv, EndpointIds, GuardFailoverPing, Ends, envVars, loopVars
<1>5. CountersOK'
  BY Facts, <1>1, <1>2, <1>3 DEF CountersOK, RotationInv, RoundBound, MaxRounds, GuardFailoverPing, Ends, envVars, loopVars
<1>6. LabelsOK'
  BY Facts, <1>1, <1>2 DEF LabelsOK, Places, Callers, Errors, GuardFailoverPing, Ends, envVars, loopVars
<1>7. FlagsOK'
  BY Facts, <1>1, <1>2 DEF FlagsOK, GuardFailoverPing, Ends, envVars, loopVars
<1>8. CallersInv'
  BY Facts, <1>1, <1>2 DEF EndpointsOK, CallersInv, GuardFailoverPing, Ends, envVars, loopVars
<1>9. RotationInv'
  <2>1. CASE pc' = "failover"
    <3>1. (tries <= N => index = Place(tries))'
      BY <2>1, <1>1 DEF GuardFailoverPing, Ends, Place
    <3>2. FailedSoFar(tries)'
      BY <2>1, <1>2 DEF GuardFailoverPing, Ends, FailedSoFar, StepOf
    <3> QED BY <3>1, <3>2, <2>1, <1>1, <1>3, Facts DEF GuardFailoverPing, Ends, RotationInv,
               Place, FailedSoFar, StepOf, envVars
  <2>2. CASE pc' = "rest"
    BY <2>2 DEF RotationInv
  <2> QED BY <2>1, <2>2 DEF GuardFailoverPing, Ends
<1>10. GiveUpHasTriedAll'
  <2>1. ASSUME tries + 1 = ConnectionAttempts PROVE failed \union {current} = EndpointIds
    <3>1. tries + 1 \in Nat /\ tries + 1 >= N
      BY <2>1, <1>1, Facts
    <3>2. failed \union {current} \subseteq EndpointIds
      BY <1>1, Facts DEF EndpointsOK
    <3> QED BY <3>1, <3>2, <1>2, Facts, FullTurn
  <2> QED BY <2>1 DEF GiveUpHasTriedAll, GuardFailoverPing, Ends
<1>11. SocketInv'
  BY Facts, <1>1, <1>2 DEF SocketInv, CallersInv, RotationInv, GuardFailoverPing, Ends, envVars, loopVars
<1>12. LinkInv'
  BY Facts, <1>1, <1>2 DEF LinkInv, Resetting, CallersInv, GuardFailoverPing, Ends, envVars, loopVars
<1> QED
  BY <1>4, <1>5, <1>6, <1>7, <1>8, <1>9, <1>10, <1>11, <1>12 DEF EInv, TypeOK

\* An endpoint changes.
LEMMA ChangesEInv == ASSUME EInv, Changes PROVE EInv'
<1>1. ConnectionAttempts' = ConnectionAttempts /\ RoundBound' = RoundBound
  BY BoundsConstant DEF Changes, envVars, clientVars
<1>2. EndpointsOK'
  BY Facts DEF EndpointsOK, RotationInv, EndpointIds, Changes, clientVars, envVars, loopVars
<1>3. CountersOK'
  BY Facts, <1>1 DEF CountersOK, RotationInv, RoundBound, MaxRounds, Changes, clientVars, envVars, loopVars
<1>4. LabelsOK'
  BY Facts DEF LabelsOK, Places, Callers, Errors, Changes, clientVars, envVars, loopVars
<1>5. FlagsOK'
  BY Facts DEF FlagsOK, Changes, clientVars, envVars, loopVars
<1>6. CallersInv'
  BY Facts DEF EndpointsOK, CallersInv, Changes, clientVars, envVars, loopVars
<1>7. RotationInv'
  BY Facts, <1>1, Beginning DEF RotationInv, CountersOK, CallersInv, FailedSoFar, Place, StepOf,
     Changes, clientVars, envVars, loopVars
<1>8. GiveUpHasTriedAll'
  BY Facts DEF GiveUpHasTriedAll, CallersInv, Changes, clientVars, envVars, loopVars
<1>9. SocketInv'
  BY Facts DEF SocketInv, CallersInv, RotationInv, Changes, clientVars, envVars, loopVars
<1>10. LinkInv'
  BY Facts DEF LinkInv, Resetting, CallersInv, Changes, clientVars, envVars, loopVars
<1> QED
  BY <1>2, <1>3, <1>4, <1>5, <1>6, <1>7, <1>8, <1>9, <1>10 DEF EInv, TypeOK

\* The connection is lost.
LEMMA DisconnectsEInv == ASSUME EInv, Disconnects PROVE EInv'
<1>1. ConnectionAttempts' = ConnectionAttempts /\ RoundBound' = RoundBound
  BY BoundsConstant DEF Disconnects, envVars, clientVars
<1>2. EndpointsOK'
  BY Facts DEF EndpointsOK, RotationInv, EndpointIds, Disconnects, clientVars, envVars, loopVars
<1>3. CountersOK'
  BY Facts, <1>1 DEF CountersOK, RotationInv, RoundBound, MaxRounds, Disconnects, clientVars, envVars, loopVars
<1>4. LabelsOK'
  BY Facts DEF LabelsOK, Places, Callers, Errors, Disconnects, clientVars, envVars, loopVars
<1>5. FlagsOK'
  BY Facts DEF FlagsOK, Disconnects, clientVars, envVars, loopVars
<1>6. CallersInv'
  BY Facts DEF EndpointsOK, CallersInv, Disconnects, clientVars, envVars, loopVars
<1>7. RotationInv'
  BY Facts, <1>1, Beginning DEF RotationInv, CountersOK, CallersInv, FailedSoFar, Place, StepOf,
     Disconnects, clientVars, envVars, loopVars
<1>8. GiveUpHasTriedAll'
  BY Facts DEF GiveUpHasTriedAll, CallersInv, Disconnects, clientVars, envVars, loopVars
<1>9. SocketInv'
  BY Facts DEF SocketInv, CallersInv, RotationInv, Disconnects, clientVars, envVars, loopVars
<1>10. LinkInv'
  BY Facts DEF LinkInv, Resetting, CallersInv, Disconnects, clientVars, envVars, loopVars
<1> QED
  BY <1>2, <1>3, <1>4, <1>5, <1>6, <1>7, <1>8, <1>9, <1>10 DEF EInv, TypeOK

-----------------------------------------------------------------------------
(* The theorems.                                                           *)

\* A step in which nothing changes keeps the inductive invariant.
LEMMA StutterEInv == ASSUME EInv, UNCHANGED vars PROVE EInv'
BY DEF EInv, TypeOK, EndpointsOK, CountersOK, LabelsOK, FlagsOK, CallersInv, RotationInv,
       GiveUpHasTriedAll, SocketInv, LinkInv, Resetting, FailedSoFar, Place, StepOf,
       RoundBound, ConnectionAttempts, vars, clientVars, envVars, loopVars

\* The invariant of the reconnecting client (client.cpp:643-719, 1295-1363) holds for every
\* number of endpoints, every send_retries and every way the endpoints come and go.
THEOREM EndpointsInductive == Spec => []EInv
<1>1. EInv /\ [Next]_vars => EInv'
  <2> SUFFICES ASSUME EInv, [Next]_vars PROVE EInv'
    OBVIOUS
  <2>1. CASE CreateConnection BY <2>1, CreateConnectionEInv
  <2>2. CASE ResetByExtension BY <2>2, ResetByExtensionEInv
  <2>3. CASE GuardedQuery BY <2>3, GuardedQueryEInv
  <2>4. CASE TrySucceeds BY <2>4, TrySucceedsEInv
  <2>5. CASE TryFails BY <2>5, TryFailsEInv
  <2>6. CASE RotationThrows BY <2>6, RotationThrowsEInv
  <2>7. CASE DirectReset BY <2>7, DirectResetEInv
  <2>8. CASE GuardPing BY <2>8, GuardPingEInv
  <2>9. CASE GuardReconnect BY <2>9, GuardReconnectEInv
  <2>10. CASE GuardReturnsUntried BY <2>10, GuardReturnsUntriedEInv
  <2>11. CASE GuardFailover BY <2>11, GuardFailoverEInv
  <2>12. CASE GuardFailoverPing BY <2>12, GuardFailoverPingEInv
  <2>13. CASE Changes BY <2>13, ChangesEInv
  <2>14. CASE Disconnects BY <2>14, DisconnectsEInv
  <2>15. CASE UNCHANGED vars BY <2>15, StutterEInv
  <2> QED
    BY <2>1, <2>2, <2>3, <2>4, <2>5, <2>6, <2>7, <2>8, <2>9, <2>10, <2>11, <2>12, <2>13,
       <2>14, <2>15 DEF Next
<1> QED BY InitEInv, <1>1, PTL DEF Spec

\* Counters and fields keep their types: no loop runs past its bound (client.cpp:665-719).
THEOREM EndpointsTypeCorrect == Spec => []TypeOK
<1>1. EInv => TypeOK
  BY DEF EInv
<1> QED BY <1>1, EndpointsInductive, PTL

\* A construction, a reset or a guard that throws has tried every configured endpoint
\* (client.cpp:665-692, 1336-1363), wherever the iterator stood.
THEOREM GivesUpAfterAll == Spec => []GiveUpHasTriedAll
<1>1. EInv => GiveUpHasTriedAll
  BY DEF EInv
<1> QED BY <1>1, EndpointsInductive, PTL

\* Between calls the reported endpoint is the one the socket is open to
\* (client.cpp:645-692, 1336-1363).
THEOREM CurrentIsAlwaysTheSockets == Spec => []CurrentIsTheSockets
<1>1. EInv => CurrentIsTheSockets
  BY DEF EInv, SocketInv, CurrentIsTheSockets
<1> QED BY <1>1, EndpointsInductive, PTL

\* A guard with a retry configured does not return before a ping has succeeded
\* (client.cpp:1295-1363).
THEOREM GuardReturnsPinged == Spec => ReturnedIsPinged
<1>1. EInv /\ [Next]_vars
        => [caller = "guard" /\ pc' = "rest" /\ sendRetries > 0 => threw' \/ pinged']_vars
  <2> SUFFICES ASSUME EInv, Next, caller = "guard", pc' = "rest", sendRetries > 0
               PROVE  threw' \/ pinged'
    OBVIOUS
  <2>1. /\ sendRetries # 0 /\ pc # "rotate" /\ pc # "direct" /\ pc # "rest"
        /\ pc = "failover" => tries < ConnectionAttempts
    BY Facts DEF CallersInv, RotationInv
  <2>2. CASE GuardPing
    BY <2>2 DEF GuardPing
  <2>3. CASE GuardFailoverPing
    BY <2>3 DEF GuardFailoverPing, Ends
  <2>4. CASE GuardFailover
    BY <2>4 DEF GuardFailover, GivesUp, Ends
  <2>5. ~GuardReturnsUntried
    <3>1. tries \in Nat /\ ConnectionAttempts \in Nat
      BY Facts DEF CountersOK
    <3>2. ~(pc = "failover" /\ tries = ConnectionAttempts)
      BY <2>1, <3>1
    <3> QED BY <3>2 DEF GuardReturnsUntried
  <2> QED
    BY <2>1, <2>2, <2>3, <2>4, <2>5 DEF Next, CreateConnection, ResetByExtension,
       GuardedQuery, TrySucceeds, TryFails, RotationThrows, DirectReset, GuardReconnect,
       Changes, Disconnects, clientVars
<1> QED BY <1>1, EndpointsInductive, PTL DEF Spec, ReturnedIsPinged

\* However many endpoints a construction or a reset goes through, it is one reconnect to its
\* caller: a new connection with its handshake completed, or an exception and the old socket
\* or an unshaken one (client.cpp:643-719, clickhouse.cpp:1336-1344).
THEOREM ResetImplementsReconnect == Spec => ImplementsReconnect
<1> USE DEF Abstract!AbsInit, Resetting
<1>1. Init => Abstract!AbsInit
  BY DEF Init
<1>2. EInv /\ [Next]_vars => [Abstract!AbsNext]_(Abstract!absVars)
  <2> SUFFICES ASSUME EInv, [Next]_vars
               PROVE  Abstract!AbsNext \/ UNCHANGED <<Resetting, link, threw>>
    BY DEF Abstract!absVars
  <2>1. CASE CreateConnection
    BY <2>1, Facts DEF CallersInv, CreateConnection, BeginRotation, Abstract!AbsNext, Abstract!Begin
  <2>2. CASE ResetByExtension
    BY <2>2, Facts DEF CallersInv, ResetByExtension, BeginRotation, Abstract!AbsNext, Abstract!Begin
  <2>3. CASE TrySucceeds
    BY <2>3, Facts DEF CallersInv, TrySucceeds, Relinks, Ends, Abstract!AbsNext, Abstract!Settle
  <2>4. CASE TryFails
    BY <2>4, Facts DEF CallersInv, TryFails, Relinks, Abstract!AbsNext, Abstract!Try
  <2>5. CASE RotationThrows
    <3>1. link' \in {link, "unshaken"} /\ Resetting
      BY <2>5, Facts DEF CallersInv, RotationThrows, Relinks
    <3>2. CASE \E c \in {"create", "fallback"} : BeginRotation(c)
      BY <3>1, <3>2 DEF BeginRotation, Abstract!AbsNext, Abstract!Try
    <3>3. CASE GivesUp
      BY <3>1, <3>3 DEF GivesUp, Ends, Abstract!AbsNext, Abstract!Fail
    <3> QED BY <2>5, <3>2, <3>3 DEF RotationThrows
  <2>6. CASE DirectReset
    <3>1. CASE Serves(current)
      BY <2>6, <3>1, Facts DEF CallersInv, DirectReset, Relinks, Ends, Abstract!AbsNext,
         Abstract!Settle
    <3>2. CASE ~Serves(current)
      BY <2>6, <3>2, Facts DEF CallersInv, DirectReset, Relinks, BeginRotation,
         Abstract!AbsNext, Abstract!Try
    <3> QED BY <3>1, <3>2
  <2>7. CASE GuardedQuery
    BY <2>7, Facts DEF CallersInv, GuardedQuery
  <2>8. CASE GuardPing \/ GuardReturnsUntried
    <3>1. threw' \in BOOLEAN
      BY <2>8, GuardPingEInv, GuardReturnsUntriedEInv DEF EInv, TypeOK, FlagsOK
    <3>2. ~Resetting /\ ~Resetting' /\ link' = link
      BY <2>8, Facts DEF CallersInv, GuardPing, GuardReturnsUntried, Ends
    <3> QED BY <3>1, <3>2 DEF Abstract!AbsNext, Abstract!Other
  <2>9. CASE GuardReconnect
    BY <2>9, Facts DEF CallersInv, GuardReconnect
  <2>10. CASE GuardFailover \/ GuardFailoverPing
    <3>1. threw' \in BOOLEAN
      BY <2>10, GuardFailoverEInv, GuardFailoverPingEInv DEF EInv, TypeOK, FlagsOK
    <3>2. ~Resetting /\ ~Resetting' /\ link' = link
      BY <2>10, Facts DEF CallersInv, GuardFailover, GuardFailoverPing, GivesUp, Ends
    <3> QED BY <3>1, <3>2 DEF Abstract!AbsNext, Abstract!Other
  <2>11. CASE Changes \/ Disconnects \/ UNCHANGED vars
    BY <2>11 DEF Changes, Disconnects, vars, clientVars
  <2> QED
    BY <2>1, <2>2, <2>3, <2>4, <2>5, <2>6, <2>7, <2>8, <2>9, <2>10, <2>11 DEF Next
<1> QED
  BY <1>1, <1>2, EndpointsInductive, PTL DEF Spec, ImplementsReconnect, Abstract!AbsSpec
=============================================================================
