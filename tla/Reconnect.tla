------------------------------ MODULE Reconnect ------------------------------
(***************************************************************************)
(* What the rest of the client may assume of a reconnect, however many     *)
(* endpoints it goes through: it ends with a new connection whose          *)
(* handshake was completed, or it throws and leaves behind the old socket  *)
(* or a new one whose handshake was not.  NativeClient's ResetConnection   *)
(* and ResetConnectionEndpoint are written from this specification.        *)
(***************************************************************************)
VARIABLES
  busy,       \* a call that reconnects is running
  link,       \* the socket since that call began: "old", "fresh" or "unshaken"
  threw       \* the last call threw

absVars == <<busy, link, threw>>

AbsInit == ~busy /\ link = "old" /\ ~threw

Begin  == ~busy /\ busy' /\ link' = "old" /\ UNCHANGED threw
Try    == busy /\ link' \in {link, "unshaken"} /\ UNCHANGED <<busy, threw>>
Settle == busy /\ ~busy' /\ link' = "fresh" /\ ~threw'
Fail   == busy /\ ~busy' /\ link' \in {link, "unshaken"} /\ threw'

\* A guarded query may come and go in between.
Other  == ~busy /\ threw' \in BOOLEAN /\ UNCHANGED <<busy, link>>

AbsNext == Begin \/ Try \/ Settle \/ Fail \/ Other

AbsSpec == AbsInit /\ [][AbsNext]_absVars
=============================================================================
