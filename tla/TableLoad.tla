------------------------------ MODULE TableLoad ------------------------------
(***************************************************************************)
(* What a bulk load promises: some input comes in, and either all the rows *)
(* it means are kept, once, or none.  A load that fails keeps nothing,     *)
(* unless it was only the answer to the last step that it missed.          *)
(***************************************************************************)
CONSTANTS
  RowsOf(_),    \* the rows an input means
  Acceptable(_) \* whether an input can be loaded

VARIABLES input, kept, status

Init == kept = << >> /\ status = "loading"

Receive == status = "loading" /\ UNCHANGED <<kept, status>>

Keep ==
  /\ status = "loading" /\ status' \in {"done", "unconfirmed"}
  /\ Acceptable(input) /\ kept' = RowsOf(input)
  /\ UNCHANGED input

Fail ==
  /\ status \in {"loading", "unconfirmed"} /\ status' = "failed"
  /\ UNCHANGED <<input, kept>>

Next == Receive \/ Keep \/ Fail

Spec == Init /\ [][Next]_<<input, kept, status>>

=============================================================================
