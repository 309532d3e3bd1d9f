----------------------------- MODULE StreamExport -----------------------------
(***************************************************************************)
(* selectToStream() (clickhouse.cpp:2853-3008): each data block of the     *)
(* result is written as text into a buffer, before the first of them the   *)
(* header, and the buffer into the script's stream, in as many writes as   *)
(* the stream makes of it.                                                 *)
(***************************************************************************)
EXTENDS StreamText

CONSTANTS
  Source(_),  \* the result sets of a job: sequences of blocks, each a sequence of rows
  WritesOf(_) \* how many bytes of n a stream may take in one write

VARIABLES
  blocks,     \* the blocks of the result that are still to come
  header,     \* header_written
  buf,        \* buf
  file,       \* what the stream holds
  exported,   \* the rows the callback was given
  export      \* where the call is

exportVars == <<blocks, header, buf, file, exported, export>>

ExportInit(job) ==
  /\ blocks \in Source(job)
  /\ header = FALSE /\ buf = << >> /\ file = << >> /\ exported = << >>
  /\ export = "running"

Exporting == export = "running" /\ buf = << >>

\* Mutant of DataBlock: the header goes before every block.
DataBlockRepeatsHeader(job) ==
  /\ Exporting /\ blocks # << >>
  /\ buf' = HeaderText(job.names, job.fmt) \o RowsText(Head(blocks), job.fmt)
  /\ header' = TRUE
  /\ exported' = exported \o Head(blocks) /\ blocks' = Tail(blocks)
  /\ UNCHANGED <<file, export>>

\* The OnData callback; the first block of a result often has no rows.
DataBlock(job) ==
  /\ Exporting /\ blocks # << >>
  /\ buf' = (IF header THEN << >> ELSE HeaderText(job.names, job.fmt))
            \o RowsText(Head(blocks), job.fmt)
  /\ header' = TRUE
  /\ exported' = exported \o Head(blocks) /\ blocks' = Tail(blocks)
  /\ UNCHANGED <<file, export>>

\* One round of flushStreamBuf's loop.
WriteSome ==
  /\ export = "running" /\ buf # << >>
  /\ \E n \in WritesOf(Len(buf)) \cap 1 .. Len(buf) :
       file' = file \o SubSeq(buf, 1, n) /\ buf' = SubSeq(buf, n + 1, Len(buf))
  /\ UNCHANGED <<blocks, header, exported, export>>

\* The stream was closed or takes nothing, the query fails, or a value cannot be converted.
ExportThrows ==
  /\ export = "running"
  /\ export' = "threw" /\ buf' = << >>
  /\ UNCHANGED <<blocks, header, file, exported>>

ExportReturns ==
  /\ Exporting /\ blocks = << >>
  /\ export' = "returned"
  /\ UNCHANGED <<blocks, header, buf, file, exported>>

ExportNext(job) == DataBlock(job) \/ WriteSome \/ ExportThrows \/ ExportReturns

=============================================================================
