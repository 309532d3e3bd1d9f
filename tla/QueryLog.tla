------------------------------- MODULE QueryLog -------------------------------
(***************************************************************************)
(* The query log of an object (query_log.cpp): while it is enabled, every  *)
(* call that completes appends an entry, the oldest making room at the     *)
(* limit, and getLogQueries() takes all of them.                           *)
(***************************************************************************)
EXTENDS Naturals, Sequences

CONSTANT LogMax   \* CLICKHOUSE_QUERY_LOG_MAX

ASSUME LogMaxIsPositive == LogMax \in Nat \ {0}

VARIABLES
  query_log,    \* query_log
  log_enabled,  \* log_enabled
  recorded      \* every entry made since the log was last taken

logVars == <<query_log, log_enabled, recorded>>

LogInit == query_log = << >> /\ log_enabled = FALSE /\ recorded = << >>

\* Mutant of appendQueryLogCapped: the limit is passed by one.
appendQueryLogPastCap(entry) ==
  query_log' = Append(IF Len(query_log) > LogMax THEN Tail(query_log) ELSE query_log, entry)

appendQueryLogCapped(entry) ==
  query_log' = Append(IF Len(query_log) >= LogMax THEN Tail(query_log) ELSE query_log, entry)

\* recordQuerySuccess and recordQueryError: what the call was and how it ended.
recordQuery(entry) ==
  IF log_enabled
  THEN appendQueryLogCapped(entry) /\ recorded' = Append(recorded, entry) /\ UNCHANGED log_enabled
  ELSE UNCHANGED logVars

\* Turning the log off does not empty it.
enableLogQueries ==
  /\ \E enabled \in BOOLEAN : log_enabled' = enabled
  /\ UNCHANGED <<query_log, recorded>>

getLogQueries == query_log' = << >> /\ recorded' = << >> /\ UNCHANGED log_enabled

\* getLogQueries() returns the latest entries made while the log was enabled and
\* since it was last taken, in order and each once, up to the limit
\* (query_log.cpp:131-136 and :150-156).
Latest(s) == IF Len(s) <= LogMax THEN s ELSE SubSeq(s, Len(s) - LogMax + 1, Len(s))

LogKeepsLatest == query_log = Latest(recorded)

=============================================================================
