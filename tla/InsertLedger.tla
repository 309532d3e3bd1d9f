---------------------------- MODULE InsertLedger ----------------------------
(***************************************************************************)
(* What a script may assume of its inserts, however calls, resets and lost *)
(* connections interleave: one insert is open at a time, it ends by its    *)
(* end marker or it is given up, only an ended one can be committed, and a *)
(* one-shot method reports no insert that it did not end.  On a reliable   *)
(* connection the report means the commit, and commits do not overtake the *)
(* insert that is opened next.                                             *)
(***************************************************************************)
CONSTANTS
  Inserts,    \* the numbers of the inserts
  Reports,    \* the methods that can report an insert as finished
  OneShot,    \* those of them that open and end the insert themselves
  Reliable    \* no timeout expires and no dead socket comes back to life

VARIABLES
  open,       \* the insert the client is sending, as a set of at most one
  ended,      \* the inserts whose end marker was written
  abandoned,  \* the inserts given up before it
  committed,  \* the inserts the server accepted
  told        \* <<m, q>>: method m reported insert q as finished

ledgerVars == <<open, ended, abandoned, committed, told>>

LedgerInit == open = {} /\ ended = {} /\ abandoned = {} /\ committed = {} /\ told = {}

Open(q) ==
  /\ open = {} /\ q \notin ended \union abandoned
  /\ open' = {q}
  /\ UNCHANGED <<ended, abandoned, committed, told>>

End(q) ==
  /\ q \in open
  /\ open' = {} /\ ended' = ended \union {q}
  /\ UNCHANGED <<abandoned, committed, told>>

GiveUp(q) ==
  /\ q \in open
  /\ open' = {} /\ abandoned' = abandoned \union {q}
  /\ UNCHANGED <<ended, committed, told>>

Commit(q) ==
  /\ q \in ended \ abandoned
  /\ Reliable => open = {}
  /\ committed' = committed \union {q}
  /\ UNCHANGED <<open, ended, abandoned, told>>

Report(m, q) ==
  /\ m \in OneShot => q \in ended /\ (Reliable => q \in committed)
  /\ told' = told \union {<<m, q>>}
  /\ UNCHANGED <<open, ended, abandoned, committed>>

LedgerNext ==
  \/ \E q \in Inserts : Open(q) \/ End(q) \/ GiveUp(q) \/ Commit(q)
  \/ \E m \in Reports, q \in Inserts : Report(m, q)

LedgerSpec == LedgerInit /\ [][LedgerNext]_ledgerVars
=============================================================================
