---------------------------- MODULE StreamTransfer ----------------------------
(***************************************************************************)
(* The two ends of a text stream together.  The text that insertFromStream *)
(* reads is either any text at all, or what selectToStream has written     *)
(* before; what becomes of its rows is compared with the meaning of the    *)
(* text (StreamGrammar) and with the rows that were exported.              *)
(***************************************************************************)
EXTENDS StreamImport, StreamExport, StreamGrammar

\* A result has a cell for each of the job's columns in every row, and NULL only where
\* the column takes it.
ResultRows(j) == {row \in Rows(j) : Fits(row, j)}
ASSUME SourcesAreRows == \A j \in Jobs : Source(j) \subseteq Seq(Seq(ResultRows(j)))

VARIABLE origin   \* where the text comes from

vars == <<origin, exportVars, importVars>>

Init ==
  /\ ImportInit /\ ExportInit(job)
  /\ origin \in {"any", "export"}
  /\ origin = "any" => blocks = << >>

(* A line feed after a carriage return and nothing but separators is taken *)
(* for the second half of a line end (clickhouse.cpp:3570), so that texts  *)
(* with such mixed line ends have no agreed meaning.                       *)
MixesLineEnds(t) ==
  \E i \in DOMAIN t, j \in DOMAIN t :
    /\ t[i] = "cr" /\ t[j] = "lf" /\ i + 1 < j
    /\ \A k \in i + 1 .. j - 1 : t[k] = "sep"

FromAnywhere ==
  /\ origin = "any"
  /\ BetweenChunks
  /\ \E chunk \in Chunks(job.fmt) :
       /\ Len(read) + Len(chunk) <= MaxText
       /\ ~MixesLineEnds(read \o chunk)
       /\ Receive(chunk)

FromExport ==
  /\ origin = "export" /\ export = "returned"
  /\ \E n \in 1 .. MaxChunk :
       /\ Len(read) + n <= Len(file)
       /\ Receive(SubSeq(file, Len(read) + 1, Len(read) + n))

\* The end of the stream.
EndOfText == (origin = "export" => export = "returned" /\ read = file) /\ EndOfStream

Exports == origin = "export" /\ ExportNext(job) /\ UNCHANGED importVars

Imports ==
  /\ \/ FromAnywhere \/ FromExport
     \/ Feed \/ EndOfText \/ StreamFails \/ Sending \/ Recovering
  /\ origin = "export" => export = "returned"
  /\ UNCHANGED exportVars

Next == (Exports \/ Imports) /\ UNCHANGED origin

Spec == Init /\ [][Next]_vars

------------------------------------------------------------------------------

\* A text is refused only when it is malformed as far as it was parsed: no split
\* of it into chunks makes a good text bad (tests/131.phpt and 138.phpt).
RejectedOnlyIfMalformed == cause = "text" => ~Accepts(SubSeq(read, 1, pos), job)

\* What the table holds of the stream, and what the call says.
Kept == IF server = "ended" THEN sent ELSE << >>

LoadStatus ==
  IF phase = "returned" THEN "done"
  ELSE IF phase = "threw" THEN "failed"
  ELSE IF phase = "throwing" /\ cause = "end" /\ server = "ended" THEN "unconfirmed"
  ELSE "loading"

\* The load keeps all the rows that the text means, or none.
Load == INSTANCE TableLoad WITH
  input <- <<job, read>>, kept <- Kept, status <- LoadStatus,
  RowsOf <- LAMBDA i : DataRows(i[2], i[1]),
  Acceptable <- LAMBDA i : Accepts(i[2], i[1])

\* insertFromStream() implements a load that is all or nothing, of the rows that
\* the text means: the batches it sends are a detail of it.
ImplementsLoad == Load!Spec

\* A row of one empty string is a blank line of the text.
IsBlank(row) == row = << << >> >>

NotBlank(rows) == FlattenSeq([r \in DOMAIN rows |-> IF IsBlank(rows[r]) THEN << >> ELSE <<rows[r]>>])

\* What was exported comes back as it was, whatever its bytes, except for the
\* rows that are blank lines, and it is never refused.
RoundTrip ==
  origin = "export" =>
    /\ cause # "text"
    /\ phase = "returned" => sent = NotBlank(exported)

\* What an export has written is the text of what it was given so far, whole
\* when it returns, with one header, however the stream splits the writes.
ExportIsWhole ==
  LET text == (IF header THEN HeaderText(job.names, job.fmt) ELSE << >>)
              \o RowsText(exported, job.fmt)
  IN  /\ IsPrefix(file, text)
      /\ export = "returned" => file = text

=============================================================================
