----------------------------- MODULE StreamImport -----------------------------
(***************************************************************************)
(* insertFromStream() (clickhouse.cpp:3328-3917): a text is read in chunks *)
(* of the stream's choosing, parsed byte by byte into rows, and the rows   *)
(* are sent in batches on an insert that is open at the server.  The       *)
(* module has one action per branch of InsertStreamParser::feed(), and the *)
(* steps of flush_batch, of EndInsert() and of the recovery.               *)
(*                                                                         *)
(* `read` is what the stream has given and `pos` how much of it feed() has *)
(* consumed; the next chunk is read when the last one is used up, so the   *)
(* end of `read` is the end of the current chunk.  `server` is what became *)
(* of the insert: open, ended by the client (its blocks are kept), or      *)
(* dropped by a reset.  pending_empty_rows is only ever reset and has no   *)
(* effect, so the model does without it.                                   *)
(***************************************************************************)
EXTENDS StreamText

CONSTANTS
  Jobs,       \* formats and target columns: [fmt, names, nullable], the last two per column
  BatchRows,  \* batch_rows
  MaxText,    \* bound: bytes of a stream
  MaxChunk,   \* bound: bytes of one read
  Alphabet    \* the bytes that a stream of each format may hold

JobAssumption ==
  \A job \in Jobs :
    /\ job.fmt \in Formats
    /\ job.names \in Seq(Seq(Bytes)) /\ Len(job.names) > 0
    /\ \A c \in DOMAIN job.names : job.names[c] # << >>
    /\ job.nullable \in [1 .. Len(job.names) -> BOOLEAN]

ASSUME JobsAreJobs == JobAssumption
ASSUME BatchIsPositive == BatchRows \in Nat \ {0}
ASSUME BoundsAreNat == MaxText \in Nat /\ MaxChunk \in Nat
ASSUME AlphabetIsBytes == Alphabet \in [Formats -> SUBSET Bytes]

VARIABLES
  job,        \* the arguments of the call
  read,       \* the bytes read so far
  pos,        \* how many of them are parsed
  p,          \* InsertStreamParser
  batch,      \* col_zvals: the rows not yet sent
  total,      \* total_rows
  dirty,      \* block_dirty
  sentAny,    \* sent_any_block
  phase,      \* where insertFromStream() is
  cause,      \* why it throws
  sent,       \* the rows in the blocks that reached the server
  server      \* the server's insert

parseVars == <<job, read, pos, p, cause>>
sendVars  == <<batch, total, dirty, sentAny, sent>>
importVars == <<parseVars, sendVars, phase, server>>

States == {"CellStart", "InCell", "InQuoted", "QuotePending"}
Rows(j) == {row \in Seq(Cells) : Len(row) = Len(j.names)}

Parsers ==
  [state : States, cell : Seq(Bytes), quoted : BOOLEAN, null : BOOLEAN, row : Seq(Cells),
   headerSeen : BOOLEAN, cr : BOOLEAN, escape : BOOLEAN]

FreshParser ==
  [state |-> "CellStart", cell |-> << >>, quoted |-> FALSE, null |-> FALSE, row |-> << >>,
   headerSeen |-> FALSE, cr |-> FALSE, escape |-> FALSE]

ImportInit ==
  /\ job \in Jobs
  /\ read = << >> /\ pos = 0 /\ p = FreshParser
  /\ batch = << >> /\ total = 0 /\ dirty = FALSE /\ sentAny = FALSE /\ sent = << >>
  /\ phase = "reading" /\ cause = "none" /\ server = "open"

csv == streamFormatIsCSV(job.fmt)

------------------------------------------------------------------------------
(* Cells and rows. *)

\* The batch is full: on_row calls flush_batch before the parser goes on.
BatchIsDue == Len(batch) >= BatchRows \/ (phase = "finishing" /\ batch # << >>)

Throw(why) == phase' = "throwing" /\ cause' = why

\* The value of the cell that ends.
CellValue(q) ==
  IF q.null \/ (csv /\ ~q.quoted /\ q.cell = NullMarker) THEN Null ELSE q.cell

\* Mutant of finishCell: the cell that ended leaves its quotes to the next.
finishCellKeepsQuoted(q) ==
  [q EXCEPT !.row = Append(@, CellValue(q)), !.cell = << >>, !.null = FALSE]

finishCell(q) ==
  [q EXCEPT !.row = Append(@, CellValue(q)), !.cell = << >>, !.quoted = FALSE, !.null = FALSE]

IsHeader(q) == streamFormatHasHeader(job.fmt) /\ ~q.headerSeen

\* acceptsNullCell: the type of the column takes NULL.
acceptsNullCell(c) == job.nullable[c]

\* Mutant of RowIsTaken: the width of a row is not compared.
RowIsTakenAnyWidth(q) ==
  IF IsHeader(q) THEN q.row = job.names
  ELSE \A c \in DOMAIN q.row : q.row[c] = Null /\ c <= Len(job.names) => acceptsNullCell(c)

RowIsTaken(q) ==
  IF IsHeader(q) THEN q.row = job.names
  ELSE /\ Len(q.row) = Len(job.names)
       /\ \A c \in DOMAIN q.row : q.row[c] = Null => acceptsNullCell(c)

\* finishRow and on_row: a header is compared and dropped, a row joins the batch.
finishRow(q, next) ==
  IF RowIsTaken(q)
  THEN /\ p' = [q EXCEPT !.row = << >>, !.state = "CellStart", !.headerSeen = @ \/ IsHeader(q)]
       /\ batch' = IF IsHeader(q) THEN batch ELSE Append(batch, q.row)
       /\ total' = IF IsHeader(q) THEN total ELSE total + 1
       /\ phase' = next /\ UNCHANGED cause
  ELSE Throw("text") /\ p' = q /\ UNCHANGED <<batch, total>>

------------------------------------------------------------------------------
(* feed(): one action per branch of its loop. *)

Byte == read[pos + 1]

Parsing == phase = "reading" /\ pos < Len(read) /\ ~BatchIsDue

Consumes(n) == pos' = pos + n

\* The parser takes a byte and stays within its row.
Within(q) ==
  /\ Consumes(1) /\ p' = q
  /\ UNCHANGED <<job, read, cause, sendVars, phase, server>>

\* What the letters mean after a backslash; any other byte stands for itself.
EscapeLetters == [bs |-> "bs", t |-> "sep", n |-> "lf", r |-> "cr"]

Unescaped(b) == IF b \in DOMAIN EscapeLetters THEN EscapeLetters[b] ELSE b

\* decode_escape_byte: after a cell's first bytes "\N" is not NULL, and both bytes are kept.
decode_escape_byte(q, b) ==
  IF b # "N" THEN [q EXCEPT !.cell = Append(@, Unescaped(b))]
  ELSE [q EXCEPT !.cell = @ \o NullMarker, !.null = (q.cell = << >>)]

InCell(q) == [q EXCEPT !.state = IF @ = "CellStart" THEN "InCell" ELSE @]

\* The first byte of a chunk is what the backslash at the end of the last one escapes.
ResumeEscape ==
  /\ Parsing /\ p.escape
  /\ Within(decode_escape_byte([InCell(p) EXCEPT !.escape = FALSE], Byte))

CsvByte == Parsing /\ ~p.escape /\ csv

InQuotes ==
  /\ CsvByte /\ p.state = "InQuoted"
  /\ Within(IF Byte = "quote" THEN [p EXCEPT !.state = "QuotePending"]
                              ELSE [p EXCEPT !.cell = Append(@, Byte)])

QuoteInQuotes ==
  /\ CsvByte /\ p.state = "QuotePending" /\ Byte = "quote"
  /\ Within([p EXCEPT !.cell = Append(@, "quote"), !.state = "InQuoted"])

ByteAfterQuotes ==
  /\ CsvByte /\ p.state = "QuotePending" /\ Byte \notin LineEnds \cup {"quote", "sep"}
  /\ Consumes(1) /\ Throw("text") /\ UNCHANGED <<job, read, p, sendVars, server>>

\* The byte is outside quotes.
OutsideQuotes ==
  /\ Parsing /\ ~p.escape /\ p.state # "InQuoted"
  /\ p.state = "QuotePending" => Byte \in LineEnds \cup {"sep"}

Separator ==
  /\ OutsideQuotes /\ Byte = "sep"
  /\ Within([finishCell(p) EXCEPT !.state = "CellStart"])

SwallowLF ==
  /\ OutsideQuotes /\ Byte = "lf" /\ p.cr
  /\ Within([p EXCEPT !.cr = FALSE])

EndsLine == OutsideQuotes /\ Byte \in LineEnds /\ ~(Byte = "lf" /\ p.cr)

AtRowStart(q) == q.state = "CellStart" /\ q.row = << >> /\ q.cell = << >>

BlankLine ==
  /\ EndsLine /\ AtRowStart(p)
  /\ Within([p EXCEPT !.cr = (Byte = "cr")])

RowEnd ==
  /\ EndsLine /\ ~AtRowStart(p)
  /\ finishRow(finishCell([p EXCEPT !.cr = (Byte = "cr")]), "reading")
  /\ Consumes(1)
  /\ UNCHANGED <<job, read, dirty, sentAny, sent, server>>

Plain == OutsideQuotes /\ Byte \notin LineEnds \cup {"sep"}

\* What every byte of a cell does first.
Seen == [InCell(p) EXCEPT !.cr = FALSE]

ByteAfterNull ==
  /\ Plain /\ p.null
  /\ Consumes(1) /\ Throw("text") /\ UNCHANGED <<job, read, p, sendVars, server>>

OpenQuotes ==
  /\ Plain /\ ~p.null /\ csv /\ p.state = "CellStart" /\ Byte = "quote"
  /\ Within([p EXCEPT !.state = "InQuoted", !.quoted = TRUE, !.cr = FALSE])

Backslash == Plain /\ ~p.null /\ ~csv /\ Byte = "bs"

EscapeInChunk ==
  /\ Backslash /\ pos + 1 < Len(read)
  /\ Consumes(2) /\ p' = decode_escape_byte(Seen, read[pos + 2])
  /\ UNCHANGED <<job, read, cause, sendVars, phase, server>>

\* Mutant of EscapeAtEnd: a backslash at the end of a chunk stands for itself.
EscapeAtEndIsLiteral ==
  /\ Backslash /\ pos + 1 = Len(read)
  /\ Within([Seen EXCEPT !.cell = Append(@, "bs")])

EscapeAtEnd ==
  /\ Backslash /\ pos + 1 = Len(read)
  /\ Within([Seen EXCEPT !.escape = TRUE])

Ordinary ==
  /\ Plain /\ ~p.null
  /\ ~(csv /\ p.state = "CellStart" /\ Byte = "quote") /\ ~Backslash
  /\ Within([Seen EXCEPT !.cell = Append(@, Byte)])

Feed ==
  \/ ResumeEscape \/ InQuotes \/ QuoteInQuotes \/ ByteAfterQuotes \/ Separator
  \/ SwallowLF \/ BlankLine \/ RowEnd \/ ByteAfterNull \/ OpenQuotes
  \/ EscapeInChunk \/ EscapeAtEnd \/ Ordinary

------------------------------------------------------------------------------
(* The stream. *)

BetweenChunks == phase = "reading" /\ pos = Len(read) /\ ~BatchIsDue

Chunks(fmt) == UNION {[1 .. n -> Alphabet[fmt]] : n \in 1 .. MaxChunk}

Receive(chunk) ==
  /\ BetweenChunks
  /\ read' = read \o chunk
  /\ UNCHANGED <<job, pos, p, cause, sendVars, phase, server>>

\* finish(): what the end of the stream makes of an unfinished escape or cell.
Finished ==
  IF p.escape THEN [InCell(p) EXCEPT !.cell = Append(@, "bs"), !.escape = FALSE]
  ELSE [p EXCEPT !.state = IF @ = "QuotePending" THEN "InCell" ELSE @]

HasRow(q) == q.cell # << >> \/ q.row # << >> \/ q.quoted

EndOfStream ==
  /\ BetweenChunks
  /\ IF p.state = "InQuoted"
     THEN Throw("text") /\ UNCHANGED <<p, batch, total>>
     ELSE IF HasRow(Finished)
     THEN finishRow(finishCell(Finished), "finishing")
     ELSE p' = Finished /\ phase' = "finishing" /\ UNCHANGED <<batch, total, cause>>
  /\ UNCHANGED <<job, read, pos, dirty, sentAny, sent, server>>

\* A read that fails or gives no byte before the end, a stream that was closed,
\* and a cell that exceeds the memory limit.
StreamFails ==
  /\ phase = "reading" /\ ~BatchIsDue
  /\ Throw("stream") /\ UNCHANGED <<job, read, pos, p, sendVars, server>>

------------------------------------------------------------------------------
(* flush_batch, EndInsert and the catch. *)

Flushing == phase \in {"reading", "finishing"} /\ BatchIsDue

Flush ==
  /\ Flushing
  /\ sent' = sent \o batch /\ batch' = << >>
  /\ dirty' = FALSE /\ sentAny' = TRUE
  /\ UNCHANGED <<parseVars, total, phase, server>>

\* zvalToBlock refuses a value before anything is sent.
FlushRefusesValue ==
  /\ Flushing
  /\ Throw("value") /\ UNCHANGED <<job, read, pos, p, sendVars, server>>

\* SendInsertBlock() throws: the block may have arrived or not.
FlushThrows ==
  /\ Flushing
  /\ sent' \in {sent, sent \o batch} /\ dirty' = TRUE
  /\ Throw("send") /\ UNCHANGED <<job, read, pos, p, batch, total, sentAny, server>>

Closing == phase = "finishing" /\ ~BatchIsDue

EndInsert ==
  /\ Closing
  /\ server' = "ended" /\ phase' = "returned"
  /\ UNCHANGED <<parseVars, sendVars>>

\* The end was not sent, was refused, or its answer was lost.
EndInsertThrows ==
  /\ Closing
  /\ server' \in {"open", "ended"}
  /\ Throw("end") /\ UNCHANGED <<job, read, pos, p, sendVars>>

Catching == phase = "throwing" /\ phase' = "threw"

\* tryResetConnectionReapplyDatabase: whether the reconnect succeeds or is refused,
\* the native client is no longer in the insert and nothing will end it.
Reset == server' \in IF server = "open" THEN {"open", "reset"} ELSE {server}

\* Mutant of RecoverSent: only the block in flight counts, not those before it.
RecoverDirtyOnly ==
  /\ Catching
  /\ IF dirty THEN Reset ELSE server' = "ended"
  /\ UNCHANGED <<parseVars, sendVars>>

RecoverSent ==
  /\ Catching /\ (dirty \/ sentAny)
  /\ Reset
  /\ UNCHANGED <<parseVars, sendVars>>

\* Nothing was sent: the empty insert is ended, and the connection reset only if that throws.
RecoverEmpty ==
  /\ Catching /\ ~dirty /\ ~sentAny
  /\ Reset \/ server' = "ended"
  /\ UNCHANGED <<parseVars, sendVars>>

Sending == Flush \/ FlushRefusesValue \/ FlushThrows \/ EndInsert \/ EndInsertThrows

Recovering == RecoverSent \/ RecoverEmpty

ImportNext ==
  \/ \E chunk \in Chunks(job.fmt) : Len(read) + Len(chunk) <= MaxText /\ Receive(chunk)
  \/ Feed \/ EndOfStream \/ StreamFails \/ Sending \/ Recovering

ImportSpec == ImportInit /\ [][ImportNext]_importVars

------------------------------------------------------------------------------
(* Properties. *)

\* Every variable is of its type; the rows of the batch and of the blocks have
\* one cell per declared column, which zvalToBlock takes for granted
\* (clickhouse.cpp:3825, "guaranteed by InsertStreamParser").
TypeOK ==
  /\ job \in Jobs /\ read \in Seq(Bytes) /\ pos \in 0 .. Len(read)
  /\ p \in Parsers
  /\ batch \in Seq(Rows(job)) /\ sent \in Seq(Rows(job))
  /\ total \in Nat /\ dirty \in BOOLEAN /\ sentAny \in BOOLEAN
  /\ phase \in {"reading", "finishing", "throwing", "returned", "threw"}
  /\ cause \in {"none", "text", "stream", "value", "send", "end"}
  /\ server \in {"open", "ended", "reset"}

\* The insert of a call is ended with nothing in it or with every row of the
\* stream, whatever fails in between; a call that returns has sent the rows it
\* counts (the catch of clickhouse.cpp:3885-3904, and RETURN_LONG at 3915).
EndedIsWhole ==
  /\ server = "ended" => sent = << >> \/ (cause \in {"none", "end"} /\ Len(sent) = total)
  /\ phase = "returned" => server = "ended" /\ Len(sent) = total

=============================================================================
