------------------------- MODULE MCClickHouseObject -------------------------
(***************************************************************************)
(* Small instances of ClickHouseObject for TLC.                            *)
(***************************************************************************)
EXTENDS SessionInvariant

\* Every method that runs a recovery on each throw that leaves input or output behind:
\* ping() does not, and insertFromStream() ends an empty insert twice instead.
RecoveringMethods == AllMethods \ {"ping", "insertFromStream"}
=============================================================================
