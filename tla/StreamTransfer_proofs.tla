------------------------- MODULE StreamTransfer_proofs -------------------------
(***************************************************************************)
(* For every set of jobs, every batch size and every text: an import keeps *)
(* its types, which includes that every row it passes on is as wide as the *)
(* column list, and it never ends an insert that holds a part of the rows. *)
(* For every result, in any blocks, an export writes the text of its rows; *)
(* and for every split of that text into writes and reads, what an export  *)
(* has written is read back as it was.                                     *)
(***************************************************************************)
EXTENDS StreamTransfer, DataInduction

\* The counter and the flags tell what was sent, until a send throws.
Counted ==
  /\ cause # "send" => total = Len(sent) + Len(batch)
  /\ sent # << >> => dirty \/ sentAny

\* Where the call is tells how the insert stands at the server.
ServerByPhase ==
  /\ phase \in {"reading", "finishing"} => cause = "none" /\ server = "open"
  /\ phase = "throwing" => server = "open" \/ (server = "ended" /\ cause = "end")
  /\ cause = "end" => batch = << >>
  /\ phase = "returned" => cause = "none" /\ server = "ended" /\ batch = << >>

IInv == TypeOK /\ Counted /\ ServerByPhase /\ EndedIsWhole

USE JobsAreJobs, BatchIsPositive, BoundsAreNat, AlphabetIsBytes

------------------------------------------------------------------------------
(* The parser's operators. *)

\* The mark of NULL is bytes.
LEMMA MarkerIsBytes == NullMarker \in Seq(Bytes)
BY DEF NullMarker, Bytes

\* The empty sequence is one of anything.
LEMMA EmptyIsSeq == ASSUME NEW S PROVE << >> \in Seq(S)
OBVIOUS

\* The byte at hand is a byte.
LEMMA ByteType ==
  ASSUME TypeOK, pos < Len(read)
  PROVE  Byte \in Bytes
BY DEF TypeOK, Byte

\* An escape leaves the parser a parser.
LEMMA DecodeType ==
  ASSUME NEW q \in Parsers, NEW b \in Bytes
  PROVE  decode_escape_byte(q, b) \in Parsers
<1>1. Unescaped(b) \in Bytes
  BY DEF Unescaped, EscapeLetters, Bytes
<1>2. q.cell \in Seq(Bytes)
  BY DEF Parsers
<1>3. Append(q.cell, Unescaped(b)) \in Seq(Bytes) /\ q.cell \o NullMarker \in Seq(Bytes)
  BY <1>1, <1>2, MarkerIsBytes
<1> QED BY <1>3 DEF decode_escape_byte, Parsers

\* A byte that joins the cell.
LEMMA PutType ==
  ASSUME NEW q \in Parsers, NEW b \in Bytes
  PROVE  [q EXCEPT !.cell = Append(@, b)] \in Parsers
<1>1. q.cell \in Seq(Bytes)
  BY DEF Parsers
<1>2. Append(q.cell, b) \in Seq(Bytes)
  BY <1>1
<1> QED BY <1>2 DEF Parsers

\* Entering a cell leaves the parser a parser.
LEMMA InCellType ==
  ASSUME NEW q \in Parsers
  PROVE  InCell(q) \in Parsers
BY DEF InCell, Parsers, States

\* Ending a cell makes the row one cell longer.
LEMMA FinishCellType ==
  ASSUME NEW q \in Parsers
  PROVE  finishCell(q) \in Parsers
<1>1. CellValue(q) \in Cells
  BY DEF CellValue, Cells, Parsers
<1>2. q.row \in Seq(Cells)
  BY DEF Parsers
<1>3. Append(q.row, CellValue(q)) \in Seq(Cells)
  BY <1>1, <1>2
<1> QED BY <1>3, EmptyIsSeq DEF finishCell, Parsers

\* What finishRow does to the state: the row joins the batch, or it was the
\* header, or it is refused.
LEMMA FinishRowEffect ==
  ASSUME TypeOK, NEW q \in Parsers, NEW next, finishRow(q, next)
  PROVE  \/ /\ p' \in Parsers /\ phase' = next /\ cause' = cause
            /\ \/ batch' = batch /\ total' = total
               \/ batch' = Append(batch, q.row) /\ q.row \in Rows(job) /\ total' = total + 1
         \/ p' \in Parsers /\ phase' = "throwing" /\ cause' = "text" /\ batch' = batch /\ total' = total
<1>1. CASE RowIsTaken(q)
  <2>1. p' \in Parsers
    <3> DEFINE seen == q.headerSeen \/ IsHeader(q)
    <3>1. p' = [q EXCEPT !.row = << >>, !.state = "CellStart", !.headerSeen = seen]
      BY <1>1 DEF finishRow
    <3>2. seen \in BOOLEAN
      OBVIOUS
    <3> HIDE DEF seen
    <3>3. << >> \in Seq(Cells) /\ "CellStart" \in States
      BY EmptyIsSeq DEF States
    <3> QED BY <3>1, <3>2, <3>3 DEF Parsers
  <2>2. ~IsHeader(q) => q.row \in Rows(job)
    BY <1>1 DEF RowIsTaken, Rows, Parsers
  <2> QED BY <1>1, <2>1, <2>2 DEF finishRow
<1>2. CASE ~RowIsTaken(q)
  BY <1>2 DEF finishRow, Throw
<1> QED BY <1>1, <1>2

------------------------------------------------------------------------------
(* Steps of one kind keep the invariant. *)

\* A call begins with nothing read, nothing sent and an open insert.
LEMMA InitKeeps == ImportInit => IInv
<1> SUFFICES ASSUME ImportInit PROVE IInv
  OBVIOUS
<1>1. FreshParser \in Parsers
  BY EmptyIsSeq DEF FreshParser, Parsers, States
<1>2. TypeOK
  <2>1. /\ read \in Seq(Bytes) /\ batch \in Seq(Rows(job)) /\ sent \in Seq(Rows(job))
        /\ pos \in 0 .. Len(read)
    BY EmptyIsSeq DEF ImportInit
  <2> QED BY <1>1, <2>1 DEF ImportInit, TypeOK
<1>3. Counted /\ ServerByPhase /\ EndedIsWhole
  BY DEF ImportInit, Counted, ServerByPhase, EndedIsWhole
<1> QED BY <1>2, <1>3 DEF IInv

\* A byte that stays within its row.
LEMMA WithinKeeps ==
  ASSUME IInv, Parsing, NEW q \in Parsers, Within(q)
  PROVE  IInv'
<1>1. TypeOK'
  BY DEF IInv, TypeOK, Parsing, Within, Consumes, sendVars
<1>2. (Counted /\ ServerByPhase /\ EndedIsWhole)'
  BY DEF IInv, Counted, ServerByPhase, EndedIsWhole, Within, sendVars
<1> QED BY <1>1, <1>2 DEF IInv

\* A throw before anything of the batch is sent.
LEMMA ThrowKeeps ==
  ASSUME IInv, phase \in {"reading", "finishing"},
         NEW why \in {"text", "stream", "value"}, Throw(why),
         pos' \in 0 .. Len(read), p' = p, UNCHANGED <<job, read, sendVars, server>>
  PROVE  IInv'
<1>1. TypeOK'
  BY DEF IInv, TypeOK, Throw, sendVars
<1>2. (Counted /\ ServerByPhase /\ EndedIsWhole)'
  BY DEF IInv, Counted, ServerByPhase, EndedIsWhole, Throw, sendVars
<1> QED BY <1>1, <1>2 DEF IInv

\* A row more in the batch.
LEMMA LongerBatch ==
  ASSUME NEW S, NEW rows \in Seq(S), NEW row \in S
  PROVE  Append(rows, row) \in Seq(S) /\ Len(Append(rows, row)) = Len(rows) + 1
OBVIOUS

\* The end of a row, whether it is taken or not.
LEMMA RowKeeps ==
  ASSUME IInv, phase = "reading", NEW q \in Parsers,
         NEW next \in {"reading", "finishing"}, finishRow(q, next),
         pos' \in 0 .. Len(read), UNCHANGED <<job, read, dirty, sentAny, sent, server>>
  PROVE  IInv'
<1>1. TypeOK /\ batch \in Seq(Rows(job)) /\ total \in Nat
  BY DEF IInv, TypeOK
<1>2. CASE /\ p' \in Parsers /\ phase' = next /\ cause' = cause
           /\ \/ batch' = batch /\ total' = total
              \/ batch' = Append(batch, q.row) /\ q.row \in Rows(job) /\ total' = total + 1
  <2>1. \/ batch' = batch /\ total' = total
        \/ /\ batch' \in Seq(Rows(job)) /\ total' = total + 1
           /\ Len(batch') = Len(batch) + 1
    BY <1>1, <1>2, LongerBatch
  <2>2. batch' \in Seq(Rows(job)) /\ total' \in Nat
    BY <1>1, <2>1
  <2>3. TypeOK'
    BY <1>2, <2>2 DEF IInv, TypeOK
  <2>4. Counted'
    <3>1. Len(batch) \in Nat /\ Len(sent) \in Nat
      BY DEF IInv, TypeOK
    <3>2. cause' # "send" => total' = Len(sent) + Len(batch')
      BY <1>1, <1>2, <2>1, <3>1 DEF IInv, Counted
    <3> QED BY <3>2 DEF IInv, Counted
  <2>5. (ServerByPhase /\ EndedIsWhole)'
    BY <1>2 DEF IInv, ServerByPhase, EndedIsWhole
  <2> QED BY <2>3, <2>4, <2>5 DEF IInv
<1>3. CASE p' \in Parsers /\ phase' = "throwing" /\ cause' = "text" /\ batch' = batch /\ total' = total
  <2>1. TypeOK'
    BY <1>3 DEF IInv, TypeOK
  <2>2. (Counted /\ ServerByPhase /\ EndedIsWhole)'
    BY <1>3 DEF IInv, Counted, ServerByPhase, EndedIsWhole
  <2> QED BY <2>1, <2>2 DEF IInv
<1> QED BY <1>1, <1>2, <1>3, FinishRowEffect

------------------------------------------------------------------------------
(* The actions. *)

\* Every branch of feed() keeps the invariant.
LEMMA FeedKeeps == ASSUME IInv, Feed PROVE IInv'
<1>1. /\ TypeOK /\ p \in Parsers /\ p.cell \in Seq(Bytes) /\ Parsing /\ phase = "reading"
      /\ pos \in Nat /\ Len(read) \in Nat /\ pos < Len(read) /\ Byte \in Bytes
  BY ByteType DEF IInv, TypeOK, Parsers, Feed, ResumeEscape, InQuotes, QuoteInQuotes, ByteAfterQuotes,
    CsvByte, Separator, SwallowLF, BlankLine, RowEnd, EndsLine, ByteAfterNull, OpenQuotes,
    EscapeInChunk, EscapeAtEnd, Backslash, Ordinary, Plain, OutsideQuotes, Parsing
<1>2. Seen \in Parsers
  BY <1>1, InCellType DEF Seen, Parsers
<1>3. CASE ResumeEscape
  <2>1. [InCell(p) EXCEPT !.escape = FALSE] \in Parsers
    BY <1>1, InCellType DEF Parsers
  <2> QED BY <1>1, <1>3, <2>1, DecodeType, WithinKeeps DEF ResumeEscape
<1>4. CASE InQuotes
  <2>1. [p EXCEPT !.state = "QuotePending"] \in Parsers
    BY <1>1 DEF Parsers, States
  <2>2. [p EXCEPT !.cell = Append(@, Byte)] \in Parsers
    BY <1>1, PutType
  <2> QED BY <1>1, <1>4, <2>1, <2>2, WithinKeeps DEF InQuotes
<1>5. CASE QuoteInQuotes
  <2>1. "quote" \in Bytes
    BY DEF Bytes
  <2>2. Append(p.cell, "quote") \in Seq(Bytes)
    BY <1>1, <2>1
  <2>3. [p EXCEPT !.cell = Append(@, "quote"), !.state = "InQuoted"] \in Parsers
    BY <1>1, <2>2 DEF Parsers, States
  <2> QED BY <1>1, <1>5, <2>3, WithinKeeps DEF QuoteInQuotes
<1>6. CASE ByteAfterQuotes
  BY <1>1, <1>6, ThrowKeeps DEF ByteAfterQuotes, Consumes
<1>7. CASE Separator
  <2>1. [finishCell(p) EXCEPT !.state = "CellStart"] \in Parsers
    BY <1>1, FinishCellType DEF Parsers, States
  <2> QED BY <1>1, <1>7, <2>1, WithinKeeps DEF Separator
<1>8. CASE SwallowLF \/ BlankLine
  <2>1. [p EXCEPT !.cr = FALSE] \in Parsers /\ [p EXCEPT !.cr = (Byte = "cr")] \in Parsers
    BY <1>1 DEF Parsers
  <2> QED BY <1>1, <1>8, <2>1, WithinKeeps DEF SwallowLF, BlankLine
<1>9. CASE RowEnd
  <2>1. [p EXCEPT !.cr = (Byte = "cr")] \in Parsers
    BY <1>1 DEF Parsers
  <2> QED BY <1>1, <1>9, <2>1, FinishCellType, RowKeeps DEF RowEnd, Consumes
<1>10. CASE ByteAfterNull
  BY <1>1, <1>10, ThrowKeeps DEF ByteAfterNull, Consumes
<1>11. CASE OpenQuotes
  <2>1. [p EXCEPT !.state = "InQuoted", !.quoted = TRUE, !.cr = FALSE] \in Parsers
    BY <1>1 DEF Parsers, States
  <2> QED BY <1>1, <1>11, <2>1, WithinKeeps DEF OpenQuotes
<1>12. CASE EscapeInChunk
  <2>1. read[pos + 2] \in Bytes /\ pos' \in 0 .. Len(read)
    BY <1>1, <1>12 DEF EscapeInChunk, Consumes, TypeOK
  <2>2. p' \in Parsers
    BY <1>2, <1>12, <2>1, DecodeType DEF EscapeInChunk
  <2>3. TypeOK'
    BY <1>1, <1>12, <2>1, <2>2 DEF TypeOK, EscapeInChunk, sendVars
  <2>4. (Counted /\ ServerByPhase /\ EndedIsWhole)'
    BY <1>12 DEF IInv, Counted, ServerByPhase, EndedIsWhole, EscapeInChunk, sendVars
  <2> QED BY <2>3, <2>4 DEF IInv
<1>13. CASE EscapeAtEnd
  <2>1. [Seen EXCEPT !.escape = TRUE] \in Parsers
    BY <1>2 DEF Parsers
  <2> QED BY <1>1, <1>13, <2>1, WithinKeeps DEF EscapeAtEnd
<1>14. CASE Ordinary
  <2>1. [Seen EXCEPT !.cell = Append(@, Byte)] \in Parsers
    BY <1>1, <1>2, PutType
  <2> QED BY <1>1, <1>14, <2>1, WithinKeeps DEF Ordinary
<1> QED BY <1>3, <1>4, <1>5, <1>6, <1>7, <1>8, <1>9, <1>10, <1>11, <1>12, <1>13, <1>14 DEF Feed

\* What a stream gives at once is bytes.
LEMMA ChunkIsBytes ==
  ASSUME TypeOK, NEW chunk \in Chunks(job.fmt)
  PROVE  chunk \in Seq(Bytes)
<1>1. Alphabet[job.fmt] \subseteq Bytes
  BY DEF TypeOK, JobAssumption
<1>2. PICK n \in 1 .. MaxChunk : chunk \in [1 .. n -> Bytes]
  BY <1>1 DEF Chunks
<1> QED BY <1>2, FunctionIsSeq

\* So does another chunk, of any bytes.
LEMMA ReceiveKeeps ==
  ASSUME IInv, NEW chunk \in Seq(Bytes), Receive(chunk)
  PROVE  IInv'
<1>1. read \in Seq(Bytes) /\ pos \in 0 .. Len(read)
  BY DEF IInv, TypeOK
<1>3. read' \in Seq(Bytes) /\ pos' \in 0 .. Len(read')
  BY <1>1 DEF Receive
<1>4. TypeOK'
  BY <1>3 DEF IInv, TypeOK, Receive, sendVars
<1>5. (Counted /\ ServerByPhase /\ EndedIsWhole)'
  BY DEF IInv, Counted, ServerByPhase, EndedIsWhole, Receive, sendVars
<1> QED BY <1>4, <1>5 DEF IInv

\* So does finish(), with an escape, a quote or a cell left open.
LEMMA EndOfStreamKeeps == ASSUME IInv, EndOfStream PROVE IInv'
<1>1. /\ TypeOK /\ p \in Parsers /\ phase = "reading" /\ pos \in 0 .. Len(read)
      /\ pos' = pos /\ UNCHANGED <<job, read, dirty, sentAny, sent, server>>
  BY DEF IInv, TypeOK, EndOfStream, BetweenChunks
<1>2. Finished \in Parsers
  <2>1. InCell(p) \in Parsers /\ InCell(p).cell \in Seq(Bytes) /\ "bs" \in Bytes
    BY <1>1, InCellType DEF Parsers, Bytes
  <2>2. Append(InCell(p).cell, "bs") \in Seq(Bytes)
    BY <2>1
  <2>3. [InCell(p) EXCEPT !.cell = Append(@, "bs"), !.escape = FALSE] \in Parsers
    BY <2>1, <2>2 DEF Parsers
  <2>4. [p EXCEPT !.state = IF @ = "QuotePending" THEN "InCell" ELSE @] \in Parsers
    BY <1>1 DEF Parsers, States
  <2> QED BY <2>3, <2>4 DEF Finished
<1>3. CASE p.state = "InQuoted"
  BY <1>1, <1>3, ThrowKeeps DEF EndOfStream, sendVars
<1>4. CASE p.state # "InQuoted" /\ HasRow(Finished)
  <2>1. finishRow(finishCell(Finished), "finishing")
    BY <1>4 DEF EndOfStream
  <2> QED BY <1>1, <1>2, <2>1, FinishCellType, RowKeeps
<1>5. CASE p.state # "InQuoted" /\ ~HasRow(Finished)
  <2>1. p' = Finished /\ phase' = "finishing" /\ UNCHANGED <<batch, total, cause>>
    BY <1>5 DEF EndOfStream
  <2>2. TypeOK'
    BY <1>1, <1>2, <2>1 DEF TypeOK
  <2>3. (Counted /\ ServerByPhase /\ EndedIsWhole)'
    BY <1>1, <2>1 DEF IInv, Counted, ServerByPhase, EndedIsWhole
  <2> QED BY <2>2, <2>3 DEF IInv
<1> QED BY <1>3, <1>4, <1>5

\* So do a flush and the end of the insert, whether they return or throw.
LEMMA SendingKeeps == ASSUME IInv, Sending PROVE IInv'
<1>1. /\ TypeOK /\ batch \in Seq(Rows(job)) /\ sent \in Seq(Rows(job)) /\ phase \in {"reading", "finishing"}
      /\ total \in Nat /\ cause = "none" /\ server = "open" /\ total = Len(sent) + Len(batch)
  BY DEF IInv, TypeOK, Counted, ServerByPhase, Sending, Flush, FlushRefusesValue, FlushThrows, Flushing,
    EndInsert, EndInsertThrows, Closing
<1>2. CASE Flush
  <2>1. sent' \in Seq(Rows(job)) /\ batch' \in Seq(Rows(job)) /\ Len(sent') + Len(batch') = total
    BY <1>1, <1>2, EmptyIsSeq DEF Flush
  <2>2. TypeOK'
    BY <1>1, <1>2, <2>1 DEF TypeOK, Flush, parseVars
  <2>3. (Counted /\ ServerByPhase /\ EndedIsWhole)'
    BY <1>1, <1>2, <2>1 DEF Counted, ServerByPhase, EndedIsWhole, Flush, parseVars
  <2> QED BY <2>2, <2>3 DEF IInv
<1>3. CASE FlushRefusesValue
  BY <1>1, <1>3, ThrowKeeps DEF FlushRefusesValue, TypeOK
<1>4. CASE FlushThrows
  <2>1. sent' \in Seq(Rows(job))
    <3>1. sent \o batch \in Seq(Rows(job))
      BY <1>1
    <3> QED BY <1>1, <1>4, <3>1 DEF FlushThrows
  <2>2. TypeOK'
    BY <1>1, <1>4, <2>1 DEF TypeOK, FlushThrows, Throw
  <2>3. (Counted /\ ServerByPhase /\ EndedIsWhole)'
    BY <1>1, <1>4 DEF IInv, Counted, ServerByPhase, EndedIsWhole, FlushThrows, Throw
  <2> QED BY <2>2, <2>3 DEF IInv
<1>5. CASE EndInsert
  <2>1. batch = << >> /\ Len(batch) = 0
    BY <1>1, <1>5 DEF EndInsert, Closing, BatchIsDue
  <2>2. TypeOK'
    BY <1>1, <1>5 DEF TypeOK, EndInsert, parseVars, sendVars
  <2>3. (Counted /\ ServerByPhase /\ EndedIsWhole)'
    BY <1>1, <1>5, <2>1 DEF IInv, TypeOK, Counted, ServerByPhase, EndedIsWhole, EndInsert, parseVars, sendVars
  <2> QED BY <2>2, <2>3 DEF IInv
<1>6. CASE EndInsertThrows
  <2>1. batch = << >> /\ Len(batch) = 0
    BY <1>1, <1>6 DEF EndInsertThrows, Closing, BatchIsDue
  <2>2. TypeOK'
    BY <1>1, <1>6 DEF TypeOK, EndInsertThrows, Throw, sendVars
  <2>3. (Counted /\ ServerByPhase /\ EndedIsWhole)'
    BY <1>1, <1>6, <2>1 DEF IInv, TypeOK, Counted, ServerByPhase, EndedIsWhole, EndInsertThrows, Throw, sendVars
  <2> QED BY <2>2, <2>3 DEF IInv
<1> QED BY <1>2, <1>3, <1>4, <1>5, <1>6 DEF Sending

\* The catch: an insert that holds a part of the rows is not ended.
LEMMA RecoveringKeeps == ASSUME IInv, Recovering PROVE IInv'
<1>1. /\ phase = "throwing" /\ phase' = "threw" /\ UNCHANGED <<parseVars, sendVars>>
      /\ server' \in {server, "reset"} \/ (server' = "ended" /\ ~dirty /\ ~sentAny)
  BY DEF Recovering, RecoverSent, RecoverEmpty, Catching, Reset
<1>2. server \in {"open", "ended", "reset"}
  BY DEF IInv, TypeOK
<1>3. TypeOK'
  BY <1>1, <1>2 DEF IInv, TypeOK, parseVars, sendVars
<1>4. (Counted /\ ServerByPhase)'
  BY <1>1 DEF IInv, Counted, ServerByPhase, parseVars, sendVars
<1>5. EndedIsWhole'
  BY <1>1 DEF IInv, Counted, EndedIsWhole, parseVars, sendVars
<1> QED BY <1>3, <1>4, <1>5 DEF IInv

\* So does every step of an import.
LEMMA NextKeeps == IInv /\ [ImportNext]_importVars => IInv'
<1> SUFFICES ASSUME IInv, [ImportNext]_importVars PROVE IInv'
  OBVIOUS
<1>1. CASE UNCHANGED importVars
  BY <1>1 DEF IInv, TypeOK, Counted, ServerByPhase, EndedIsWhole, importVars, parseVars, sendVars
<1>2. CASE StreamFails
  BY <1>2, ThrowKeeps DEF StreamFails, IInv, TypeOK
<1>3. CASE \E chunk \in Chunks(job.fmt) : Receive(chunk)
  BY <1>3, ReceiveKeeps, ChunkIsBytes DEF IInv
<1> QED BY <1>1, <1>2, <1>3, FeedKeeps, EndOfStreamKeeps, SendingKeeps, RecoveringKeeps DEF ImportNext

------------------------------------------------------------------------------
(* Writing is of bytes, and what is written of rows one after the other is what is *)
(* written of them together.                                                       *)

\* What is written of a cell as TSV is bytes.
LEMMA EscapedIsBytes ==
  ASSUME NEW s \in Seq(Bytes)
  PROVE  tsvAppendEscaped(s) \in Seq(Bytes)
<1> DEFINE f == [i \in DOMAIN s |->
                   IF s[i] \in DOMAIN TsvEscapes THEN <<"bs", TsvEscapes[s[i]]>> ELSE <<s[i]>>]
<1>1. Len(s) \in Nat /\ DOMAIN s = 1 .. Len(s) /\ \A i \in 1 .. Len(s) : s[i] \in Bytes
  BY LenProperties
<1>2. \A i \in DOMAIN s : f[i] \in Seq(Bytes)
  <2> SUFFICES ASSUME NEW i \in DOMAIN s PROVE f[i] \in Seq(Bytes)
    OBVIOUS
  <2>1. CASE s[i] \in DOMAIN TsvEscapes
    <3>1. TsvEscapes[s[i]] \in Bytes /\ "bs" \in Bytes
      BY <2>1 DEF TsvEscapes, Bytes
    <3> QED BY <2>1, <3>1
  <2>2. CASE s[i] \notin DOMAIN TsvEscapes
    BY <1>1, <2>2
  <2> QED BY <2>1, <2>2
<1>3. f \in [1 .. Len(s) -> Seq(Bytes)]
  BY <1>1, <1>2
<1> HIDE DEF f
<1>4. FlattenSeq(f) \in Seq(Bytes)
  BY <1>1, <1>3, FunctionIsSeq, FlattenType
<1> QED BY <1>4 DEF f, tsvAppendEscaped

\* What is written of a cell in quotes is bytes.
LEMMA QuotedIsBytes ==
  ASSUME NEW s \in Seq(Bytes)
  PROVE  Quoted(s) \in Seq(Bytes)
<1> DEFINE f == [i \in DOMAIN s |-> IF s[i] = "quote" THEN <<"quote", "quote">> ELSE <<s[i]>>]
<1>1. Len(s) \in Nat /\ DOMAIN s = 1 .. Len(s) /\ \A i \in 1 .. Len(s) : s[i] \in Bytes
  BY LenProperties
<1>2. "quote" \in Bytes
  BY DEF Bytes
<1>3. <<"quote", "quote">> \in Seq(Bytes) /\ <<"quote">> \in Seq(Bytes)
  BY <1>2
<1>4. \A i \in DOMAIN s : f[i] \in Seq(Bytes)
  BY <1>1, <1>3
<1>5. f \in [1 .. Len(s) -> Seq(Bytes)]
  BY <1>1, <1>4
<1> DEFINE text == FlattenSeq(f)
<1>6. Quoted(s) = <<"quote">> \o text \o <<"quote">>
  BY DEF Quoted
<1> HIDE DEF f
<1>7. text \in Seq(Bytes)
  BY <1>1, <1>5, FunctionIsSeq, FlattenType
<1> HIDE DEF text
<1> QED BY <1>3, <1>6, <1>7

\* What is written of a cell is bytes, in every format.
LEMMA CellIsBytes ==
  ASSUME NEW cell \in Cells, NEW fmt
  PROVE  appendCellForStream(cell, fmt) \in Seq(Bytes)
BY EscapedIsBytes, QuotedIsBytes, MarkerIsBytes DEF Cells, appendCellForStream, csvAppendEscaped

\* What is written of a row is bytes.
LEMMA RowIsBytes ==
  ASSUME NEW row \in Seq(Cells), NEW fmt
  PROVE  RowText(row, fmt) \in Seq(Bytes)
<1> DEFINE f == [c \in DOMAIN row |->
                   (IF c > 1 THEN <<"sep">> ELSE << >>) \o appendCellForStream(row[c], fmt)]
<1>1. Len(row) \in Nat /\ DOMAIN row = 1 .. Len(row) /\ \A i \in 1 .. Len(row) : row[i] \in Cells
  BY LenProperties
<1>2. "sep" \in Bytes /\ "cr" \in Bytes /\ "lf" \in Bytes
  BY DEF Bytes
<1>3. RowTerm(fmt) \in Seq(Bytes) /\ <<"sep">> \in Seq(Bytes) /\ << >> \in Seq(Bytes)
  BY <1>2, EmptyIsSeq DEF RowTerm
<1>4. \A c \in DOMAIN row : f[c] \in Seq(Bytes)
  <2> SUFFICES ASSUME NEW c \in DOMAIN row PROVE f[c] \in Seq(Bytes)
    OBVIOUS
  <2> DEFINE text == appendCellForStream(row[c], fmt)
  <2>1. text \in Seq(Bytes)
    BY <1>1, CellIsBytes
  <2>2. f[c] = (IF c > 1 THEN <<"sep">> ELSE << >>) \o text
    OBVIOUS
  <2> HIDE DEF text, f
  <2> QED BY <1>3, <2>1, <2>2
<1>5. f \in [1 .. Len(row) -> Seq(Bytes)]
  BY <1>1, <1>4
<1> DEFINE text == FlattenSeq(f)
<1>6. RowText(row, fmt) = text \o RowTerm(fmt)
  BY DEF RowText
<1> HIDE DEF f
<1>7. text \in Seq(Bytes)
  BY <1>1, <1>5, FunctionIsSeq, FlattenType
<1> HIDE DEF text
<1> QED BY <1>3, <1>6, <1>7

\* The texts of some rows, of which RowsText is all in one.
TextsOf(rows, fmt) == [r \in DOMAIN rows |-> RowText(rows[r], fmt)]

\* There is one text for each row, in order.
LEMMA TextsAreSeq ==
  ASSUME NEW rows \in Seq(Seq(Cells)), NEW fmt
  PROVE  /\ TextsOf(rows, fmt) \in Seq(Seq(Bytes)) /\ Len(TextsOf(rows, fmt)) = Len(rows)
         /\ \A r \in 1 .. Len(rows) : TextsOf(rows, fmt)[r] = RowText(rows[r], fmt)
<1>1. Len(rows) \in Nat /\ DOMAIN rows = 1 .. Len(rows) /\ \A i \in 1 .. Len(rows) : rows[i] \in Seq(Cells)
  BY LenProperties
<1>2. TextsOf(rows, fmt) \in [1 .. Len(rows) -> Seq(Bytes)]
  BY <1>1, RowIsBytes DEF TextsOf
<1> QED BY <1>1, <1>2, FunctionIsSeq DEF TextsOf

\* The text of some rows and of others behind them is both texts, one after the other.
LEMMA RowsTextJoins ==
  ASSUME NEW a \in Seq(Seq(Cells)), NEW b \in Seq(Seq(Cells)), NEW fmt
  PROVE  /\ RowsText(a, fmt) \in Seq(Bytes) /\ RowsText(b, fmt) \in Seq(Bytes)
         /\ Joins(RowsText(a, fmt), RowsText(b, fmt), RowsText(a \o b, fmt))
<1> DEFINE ta == TextsOf(a, fmt)
<1> DEFINE tb == TextsOf(b, fmt)
<1> DEFINE tc == TextsOf(a \o b, fmt)
<1>1. /\ Len(a) \in Nat /\ Len(b) \in Nat /\ a \o b \in Seq(Seq(Cells)) /\ Len(a \o b) = Len(a) + Len(b)
      /\ \A i \in 1 .. Len(a) + Len(b) : (a \o b)[i] = IF i <= Len(a) THEN a[i] ELSE b[i - Len(a)]
  BY ConcatProperties, LenProperties
<1>2. /\ ta \in Seq(Seq(Bytes)) /\ Len(ta) = Len(a) /\ \A r \in 1 .. Len(a) : ta[r] = RowText(a[r], fmt)
      /\ tb \in Seq(Seq(Bytes)) /\ Len(tb) = Len(b) /\ \A r \in 1 .. Len(b) : tb[r] = RowText(b[r], fmt)
  BY TextsAreSeq
<1>3. /\ tc \in Seq(Seq(Bytes)) /\ Len(tc) = Len(a) + Len(b)
      /\ \A r \in 1 .. Len(a) + Len(b) : tc[r] = RowText((a \o b)[r], fmt)
  BY <1>1, TextsAreSeq
<1>4. RowsText(a, fmt) = FlattenSeq(ta) /\ RowsText(b, fmt) = FlattenSeq(tb)
      /\ RowsText(a \o b, fmt) = FlattenSeq(tc)
  BY DEF RowsText, TextsOf
<1> HIDE DEF ta, tb, tc
<1>5. tc = ta \o tb
  <2>1. /\ ta \o tb \in Seq(Seq(Bytes)) /\ Len(ta \o tb) = Len(a) + Len(b)
        /\ \A i \in 1 .. Len(a) + Len(b) : (ta \o tb)[i] = IF i <= Len(a) THEN ta[i] ELSE tb[i - Len(a)]
    <3>1. /\ ta \o tb \in Seq(Seq(Bytes)) /\ Len(ta \o tb) = Len(ta) + Len(tb)
          /\ \A i \in 1 .. Len(ta) + Len(tb) :
               (ta \o tb)[i] = IF i <= Len(ta) THEN ta[i] ELSE tb[i - Len(ta)]
      <4>1. ta \in Seq(Seq(Bytes)) /\ tb \in Seq(Seq(Bytes))
        BY <1>2
      <4> QED BY <4>1, ConcatProperties
    <3>2. Len(ta) = Len(a) /\ Len(tb) = Len(b)
      BY <1>2
    <3> QED BY <3>1, <3>2
  <2>2. \A i \in 1 .. Len(a) + Len(b) : tc[i] = (ta \o tb)[i]
    <3> SUFFICES ASSUME NEW i \in 1 .. Len(a) + Len(b) PROVE tc[i] = (ta \o tb)[i]
      OBVIOUS
    <3>1. CASE i <= Len(a)
      BY <1>1, <1>2, <1>3, <2>1, <3>1
    <3>2. CASE ~(i <= Len(a))
      <4>1. i - Len(a) \in 1 .. Len(b)
        BY <1>1, <3>2
      <4> QED BY <1>1, <1>2, <1>3, <2>1, <3>2, <4>1
    <3> QED BY <3>1, <3>2
  <2> QED BY <1>3, <2>1, <2>2, SeqEqual
<1>6. FlattenSeq(tc) = FlattenSeq(ta) \o FlattenSeq(tb)
  BY <1>2, <1>5, FlattenConcat
<1> QED BY <1>2, <1>4, <1>6, FlattenType DEF Joins

------------------------------------------------------------------------------
(* The export. *)

\* The text of what the callback was given.
Written == (IF header THEN HeaderText(job.names, job.fmt) ELSE << >>) \o RowsText(exported, job.fmt)

ExportType ==
  /\ blocks \in Seq(Seq(ResultRows(job))) /\ exported \in Seq(ResultRows(job))
  /\ header \in BOOLEAN /\ buf \in Seq(Bytes) /\ file \in Seq(Bytes)
  /\ export \in {"running", "returned", "threw"}

\* What is written and what waits in the buffer join to the text, and the call
\* returns with nothing waiting; before the header there is nothing.
ExportInv ==
  /\ ExportType
  /\ ~header => exported = << >> /\ file = << >>
  /\ export = "running" => Joins(file, buf, Written)
  /\ ExportIsWhole

\* A text that is another with more behind it begins with it.
LEMMA JoinedIsPrefix ==
  ASSUME NEW s \in Seq(Bytes), NEW t \in Seq(Bytes), NEW all, Joins(s, t, all)
  PROVE  IsPrefix(s, all) /\ all \in Seq(Bytes) /\ (t = << >> => s = all)
<1>1. /\ Len(s) \in Nat /\ Len(t) \in Nat /\ all \in Seq(Bytes) /\ Len(all) = Len(s) + Len(t)
      /\ \A i \in 1 .. Len(s) : all[i] = s[i]
  BY ConcatProperties, LenProperties DEF Joins
<1>2. Len(s) \in 0 .. Len(all) /\ Len(s) \in 0 .. Len(s)
  BY <1>1
<1>3. /\ SubSeq(s, 1, Len(s)) = s
      /\ SubSeq(all, 1, Len(s)) \in Seq(Bytes) /\ Len(SubSeq(all, 1, Len(s))) = Len(s)
      /\ \A i \in 1 .. Len(s) : SubSeq(all, 1, Len(s))[i] = all[i]
  BY <1>1, <1>2, PrefixIs
<1>4. SubSeq(all, 1, Len(s)) = s
  BY <1>1, <1>3, SeqEqual
<1>5. IsPrefix(s, all)
  BY <1>1, <1>3, <1>4 DEF IsPrefix
<1> QED BY <1>1, <1>5, ConcatEmptySeq DEF Joins

\* Some bytes of the buffer move to the file.
LEMMA MovedBytes ==
  ASSUME NEW s \in Seq(Bytes), NEW t \in Seq(Bytes), NEW all, Joins(s, t, all), NEW n \in 1 .. Len(t)
  PROVE  /\ s \o SubSeq(t, 1, n) \in Seq(Bytes) /\ SubSeq(t, n + 1, Len(t)) \in Seq(Bytes)
         /\ Joins(s \o SubSeq(t, 1, n), SubSeq(t, n + 1, Len(t)), all)
<1> DEFINE a == SubSeq(t, 1, n)
<1> DEFINE b == SubSeq(t, n + 1, Len(t))
<1>1. n \in 0 .. Len(t)
  OBVIOUS
<1>2. a \in Seq(Bytes) /\ b \in Seq(Bytes) /\ t = a \o b
  BY <1>1, PrefixIs DEF Rest, Joins
<1> HIDE DEF a, b
<1>3. s \o (a \o b) = (s \o a) \o b
  BY <1>2, ConcatAssociative, SMTT(30)
<1>4. s \o a \in Seq(Bytes)
  BY <1>2
<1> QED BY <1>2, <1>3, <1>4 DEF Joins, a, b

\* What is in front of a text may be in front of its first part.
LEMMA ThreeJoin ==
  ASSUME NEW a \in Seq(Bytes), NEW b \in Seq(Bytes), NEW c \in Seq(Bytes), NEW all, Joins(b, c, all)
  PROVE  Joins(a \o b, c, a \o all)
BY ConcatAssociative, SMTT(30) DEF Joins

\* The header is bytes.
LEMMA HeaderIsBytes ==
  ASSUME TypeOK
  PROVE  HeaderText(job.names, job.fmt) \in Seq(Bytes)
<1>1. job.names \in Seq(Seq(Bytes))
  BY DEF TypeOK, JobAssumption
<1>2. job.names \in Seq(Cells)
  BY <1>1 DEF Cells
<1> QED BY <1>2, RowIsBytes, EmptyIsSeq DEF HeaderText

\* Rows of a job are sequences of cells.
LEMMA RowsAreCells ==
  ASSUME NEW j
  PROVE  Seq(ResultRows(j)) \subseteq Seq(Seq(Cells))
BY DEF ResultRows, Rows

\* No rows have no text.
LEMMA NoRowsNoText ==
  ASSUME NEW fmt
  PROVE  RowsText(<< >>, fmt) = << >>
<1>1. [r \in DOMAIN << >> |-> RowText(<< >>[r], fmt)] = << >>
  OBVIOUS
<1> QED BY <1>1, FlattenEmpty DEF RowsText

\* An export begins with nothing written.
LEMMA ExportStarts == Init => ExportInv
<1> SUFFICES ASSUME Init PROVE ExportInv
  OBVIOUS
<1>1. job \in Jobs /\ blocks \in Source(job)
  BY DEF Init, ImportInit, ExportInit
<1>2. blocks \in Seq(Seq(ResultRows(job)))
  BY <1>1, SourcesAreRows
<1>3. ExportType
  BY <1>2, EmptyIsSeq DEF Init, ExportInit, ExportType
<1>4. Written = << >> \o RowsText(<< >>, job.fmt)
  BY DEF Init, ExportInit, Written
<1>5. Written = << >>
  BY <1>4, NoRowsNoText, ConcatEmptySeq, EmptyIsSeq
<1>6. << >> \in Seq(Bytes) /\ Joins(<< >>, << >>, << >>)
  BY EmptyIsSeq, ConcatEmptySeq DEF Joins
<1>7. IsPrefix(<< >>, << >>)
  BY <1>6, JoinedIsPrefix
<1>8. file = << >> /\ buf = << >> /\ export = "running" /\ exported = << >>
  BY DEF Init, ExportInit
<1> QED BY <1>3, <1>5, <1>6, <1>7, <1>8 DEF ExportInv, ExportIsWhole, Written

\* A block of rows more.
LEMMA BlockKeeps ==
  ASSUME TypeOK, ExportInv, DataBlock(job), job' = job
  PROVE  ExportInv'
<1> DEFINE H == HeaderText(job.names, job.fmt)
<1> DEFINE B == Head(blocks)
<1> DEFINE R == RowsText(B, job.fmt)
<1> DEFINE E == RowsText(exported, job.fmt)
<1> DEFINE N == RowsText(exported \o B, job.fmt)
<1>1. /\ B \in Seq(ResultRows(job)) /\ Tail(blocks) \in Seq(Seq(ResultRows(job)))
      /\ exported \in Seq(ResultRows(job)) /\ file \in Seq(Bytes) /\ header \in BOOLEAN
  <2>1. blocks \in Seq(Seq(ResultRows(job))) /\ blocks # << >>
    BY DEF ExportInv, ExportType, DataBlock
  <2> QED BY <2>1, HeadTailProperties DEF ExportInv, ExportType
<1>2. exported \o B \in Seq(ResultRows(job))
  BY <1>1
<1>3. H \in Seq(Bytes) /\ R \in Seq(Bytes) /\ E \in Seq(Bytes) /\ Joins(E, R, N)
  BY <1>1, RowsAreCells, RowsTextJoins, HeaderIsBytes
<1>4. /\ buf' = (IF header THEN << >> ELSE H) \o R /\ header' = TRUE /\ exported' = exported \o B
      /\ blocks' = Tail(blocks) /\ file' = file /\ export' = "running" /\ export = "running" /\ buf = << >>
  BY DEF DataBlock, Exporting
<1>5. Written' = H \o N
  BY <1>4 DEF Written
<1>6. Joins(file, << >>, Written) /\ (~header => exported = << >> /\ file = << >>)
  BY <1>4 DEF ExportInv
<1>7. Written = (IF header THEN H ELSE << >>) \o E
  BY DEF Written
<1>8. ~header => E = << >>
  BY <1>6, NoRowsNoText
<1> HIDE DEF H, B, R, E, N
<1>9. H \o E \in Seq(Bytes) /\ Joins(H \o E, R, H \o N)
  BY <1>3, ThreeJoin
<1>10. buf' \in Seq(Bytes) /\ Joins(file, buf', Written')
  <2>1. CASE header
    <3>1. buf' = R /\ file = H \o E
      BY <1>1, <1>3, <1>4, <1>6, <1>7, <2>1, ConcatEmptySeq DEF Joins
    <3> QED BY <1>3, <1>5, <1>9, <3>1
  <2>2. CASE ~header
    <3>1. buf' = H \o R /\ file = << >> /\ H \o E = H
      BY <1>3, <1>4, <1>6, <1>8, <2>2, ConcatEmptySeq
    <3>2. H \o R \in Seq(Bytes)
      BY <1>3
    <3> QED BY <1>3, <1>5, <1>9, <3>1, <3>2, ConcatEmptySeq DEF Joins
  <2> QED BY <2>1, <2>2
<1>11. IsPrefix(file, Written')
  BY <1>1, <1>10, JoinedIsPrefix
<1>12. ExportType'
  BY <1>1, <1>2, <1>4, <1>10 DEF ExportType
<1>13. ExportIsWhole'
  BY <1>4, <1>11 DEF ExportIsWhole, Written
<1> QED BY <1>4, <1>10, <1>12, <1>13 DEF ExportInv

\* The stream takes some of the buffer, as many bytes as it likes.
LEMMA WriteKeeps ==
  ASSUME TypeOK, ExportInv, WriteSome, job' = job
  PROVE  ExportInv'
<1>1. PICK n \in 1 .. Len(buf) : file' = file \o SubSeq(buf, 1, n) /\ buf' = SubSeq(buf, n + 1, Len(buf))
  BY DEF WriteSome
<1>2. /\ file \in Seq(Bytes) /\ buf \in Seq(Bytes) /\ export = "running" /\ export' = "running" 
      /\ UNCHANGED <<blocks, header, exported>> /\ Joins(file, buf, Written)
  BY DEF ExportInv, ExportType, WriteSome
<1>3. Written' = Written
  BY <1>2 DEF Written
<1>4. file' \in Seq(Bytes) /\ buf' \in Seq(Bytes) /\ Joins(file', buf', Written)
  BY <1>1, <1>2, MovedBytes
<1>5. IsPrefix(file', Written')
  BY <1>3, <1>4, JoinedIsPrefix
<1>6. ExportType'
  BY <1>2, <1>4 DEF ExportInv, ExportType
<1>7. ~header => exported = << >> /\ file' = << >>
  <2> SUFFICES ASSUME ~header PROVE exported = << >> /\ file' = << >>
    OBVIOUS
  <2>1. exported = << >> /\ file = << >>
    BY DEF ExportInv
  <2>2. Written = << >>
    BY <2>1, NoRowsNoText, ConcatEmptySeq, EmptyIsSeq DEF Written
  <2>3. Len(buf) = 0
    BY <1>2, <2>1, <2>2, ConcatEmptySeq DEF Joins
  <2> QED BY <1>1, <2>3
<1> QED BY <1>2, <1>3, <1>4, <1>5, <1>6, <1>7 DEF ExportInv, ExportIsWhole, Written

\* The export returns with an empty buffer, or throws and drops it.
LEMMA ExportEndKeeps ==
  ASSUME TypeOK, ExportInv, ExportThrows \/ ExportReturns, job' = job
  PROVE  ExportInv'
<1>1. /\ UNCHANGED <<blocks, header, file, exported>> /\ export = "running" /\ export' \in {"returned", "threw"}
      /\ buf' = << >> /\ (export' = "returned" => buf = << >>)
  BY DEF ExportThrows, ExportReturns, Exporting
<1>2. Written' = Written
  BY <1>1 DEF Written
<1>3. file \in Seq(Bytes) /\ buf \in Seq(Bytes) /\ Joins(file, buf, Written)
  BY <1>1 DEF ExportInv, ExportType
<1>4. IsPrefix(file, Written) /\ (buf = << >> => file = Written)
  BY <1>3, JoinedIsPrefix
<1>5. ExportType'
  BY <1>1, EmptyIsSeq DEF ExportInv, ExportType
<1>6. ExportIsWhole'
  BY <1>1, <1>2, <1>4 DEF ExportIsWhole, Written
<1> QED BY <1>1, <1>5, <1>6 DEF ExportInv

\* What the export has is not touched by anything else.
LEMMA OtherKeeps ==
  ASSUME ExportInv, UNCHANGED exportVars, job' = job
  PROVE  ExportInv'
BY DEF ExportInv, ExportType, ExportIsWhole, Written, exportVars

------------------------------------------------------------------------------
(* Both together. *)

TransferInv == IInv /\ ExportInv

\* The arguments of the call stay what they are.
LEMMA SameJob == ASSUME Next PROVE job' = job
BY DEF Next, Exports, Imports, importVars, parseVars, FromAnywhere, FromExport, Receive, Feed,
  ResumeEscape, InQuotes, QuoteInQuotes, ByteAfterQuotes, Separator, SwallowLF, BlankLine, RowEnd,
  ByteAfterNull, OpenQuotes, EscapeInChunk, EscapeAtEnd, Ordinary, Within, EndOfText, EndOfStream,
  StreamFails, Sending, Flush, FlushRefusesValue, FlushThrows, EndInsert, EndInsertThrows, Recovering,
  RecoverSent, RecoverEmpty

\* A part of a text.
LEMMA PartIsBytes ==
  ASSUME NEW s \in Seq(Bytes), NEW i \in Nat, NEW n \in Nat, i + n <= Len(s)
  PROVE  SubSeq(s, i + 1, i + n) \in Seq(Bytes)
<1>1. \A k \in i + 1 .. i + n : s[k] \in Bytes
  BY LenProperties
<1> QED BY <1>1, SubSeqProperties

\* Every step of either call keeps what is true of both.
LEMMA TransferKeeps == TransferInv /\ [Next]_vars => TransferInv'
<1> SUFFICES ASSUME TransferInv, [Next]_vars PROVE TransferInv'
  OBVIOUS
<1>1. IInv /\ TypeOK /\ ExportInv
  BY DEF TransferInv, IInv
<1>2. CASE UNCHANGED vars
  <2>1. UNCHANGED importVars /\ UNCHANGED exportVars /\ job' = job
    BY <1>2 DEF vars, importVars, parseVars
  <2> QED BY <1>1, <2>1, NextKeeps, OtherKeeps DEF TransferInv
<1>3. CASE Next /\ Exports
  <2>1. ExportNext(job) /\ UNCHANGED importVars /\ job' = job
    BY <1>3, SameJob DEF Exports
  <2>2. IInv'
    BY <1>1, <2>1, NextKeeps
  <2>3. ExportInv'
    BY <1>1, <2>1, BlockKeeps, WriteKeeps, ExportEndKeeps DEF ExportNext
  <2> QED BY <2>2, <2>3 DEF TransferInv
<1>4. CASE Next /\ Imports
  <2>1. UNCHANGED exportVars /\ job' = job
    BY <1>4, SameJob DEF Imports
  <2>2. ExportInv'
    BY <1>1, <2>1, OtherKeeps
  <2>3. CASE FromAnywhere
    <3>1. PICK chunk \in Chunks(job.fmt) : Receive(chunk)
      BY <2>3 DEF FromAnywhere
    <3> QED BY <1>1, <2>2, <3>1, ChunkIsBytes, ReceiveKeeps DEF TransferInv
  <2>4. CASE FromExport
    <3>1. PICK n \in 1 .. MaxChunk : /\ Len(read) + n <= Len(file)
                                     /\ Receive(SubSeq(file, Len(read) + 1, Len(read) + n))
      BY <2>4 DEF FromExport
    <3>2. Len(read) \in Nat /\ file \in Seq(Bytes)
      BY <1>1 DEF TypeOK, ExportInv, ExportType
    <3>3. SubSeq(file, Len(read) + 1, Len(read) + n) \in Seq(Bytes)
      BY <3>1, <3>2, PartIsBytes
    <3> QED BY <1>1, <2>2, <3>1, <3>3, ReceiveKeeps DEF TransferInv
  <2>5. CASE Feed \/ EndOfText \/ StreamFails \/ Sending \/ Recovering
    <3>1. ImportNext
      BY <2>5 DEF ImportNext, EndOfText
    <3> QED BY <1>1, <2>2, <3>1, NextKeeps DEF TransferInv
  <2> QED BY <1>4, <2>3, <2>4, <2>5 DEF Imports
<1> QED BY <1>2, <1>3, <1>4 DEF Next

\* Both calls begin as they should.
LEMMA TransferStarts == Init => TransferInv
BY InitKeeps, ExportStarts DEF Init, TransferInv

------------------------------------------------------------------------------
(* The theorems. *)

\* Types, and the width of every row, hold for every job, batch size and text.
THEOREM ImportTypeCorrect == ImportSpec => []TypeOK
<1>1. IInv => TypeOK
  BY DEF IInv
<1> QED BY <1>1, InitKeeps, NextKeeps, PTL DEF ImportSpec

\* An insert is ended only empty or with every row that was counted, and a call
\* returns only with all of them ended: the flags block_dirty and sent_any_block
\* tell enough for the catch to decide.
THEOREM ImportEndsWhole == ImportSpec => []EndedIsWhole
<1>1. IInv => EndedIsWhole
  BY DEF IInv
<1> QED BY <1>1, InitKeeps, NextKeeps, PTL DEF ImportSpec

\* What an export has written is the text of the rows that its callback was given, with
\* one header before them, however the stream takes it: all of it when the call returns,
\* a beginning when it throws. For every result, in any blocks.
THEOREM ExportIsAlwaysWhole == Spec => []ExportIsWhole
<1>1. TransferInv => ExportIsWhole
  BY DEF TransferInv, ExportInv
<1> QED BY <1>1, TransferStarts, TransferKeeps, PTL DEF Spec

\* The import is all or nothing also where it reads what an export has written.
THEOREM TransferEndsWhole == Spec => [](TypeOK /\ EndedIsWhole)
<1>1. TransferInv => TypeOK /\ EndedIsWhole
  BY DEF TransferInv, IInv
<1> QED BY <1>1, TransferStarts, TransferKeeps, PTL DEF Spec

------------------------------------------------------------------------------
(* The round trip.  The proof follows the parser through the text of a     *)
(* value, of a row and of all rows: in every state, what is left of the    *)
(* file is the rest of what was written for the cell the parser is in, and *)
(* what was written behind it.                                             *)

\* s with t behind it: \o, and nothing else is known of it unless it is asked for.
s ++ t == s \o t

------------------------------------------------------------------------------
(* What is left of the text. *)

\* What is written for each byte of a value: in TSV, and inside the quotes of CSV.
EscapesOf(v) ==
  [i \in DOMAIN v |-> IF v[i] \in DOMAIN TsvEscapes THEN <<"bs", TsvEscapes[v[i]]>> ELSE <<v[i]>>]

QuotesOf(v) == [i \in DOMAIN v |-> IF v[i] = "quote" THEN <<"quote", "quote">> ELSE <<v[i]>>]

\* What is written for each cell of a row.
CellTexts(row, fmt) ==
  [c \in DOMAIN row |->
    (IF c > 1 THEN <<"sep">> ELSE << >>) ++ appendCellForStream(row[c], fmt)]

\* Texts without the first k, one behind the other.
From(texts, k) == FlattenSeq(Rest(texts, k))

\* What stands behind cell c of line k.
Behind(lines, fmt, k, c) ==
  From(CellTexts(lines[k], fmt), c) ++ (RowTerm(fmt) ++ From(TextsOf(lines, fmt), k))

------------------------------------------------------------------------------
(* Where the parser is in the text of a value v, with the text t behind it: `all` is *)
(* what is left, and the cell holds what was read.                                   *)

AtStart(q) == q.state = "CellStart" /\ q.cell = << >> /\ ~q.quoted /\ ~q.null /\ ~q.escape

\* Of the value i bytes are read.
Part(q, v, i) == i \in 0 .. Len(v) /\ q.cell = SubSeq(v, 1, i)
Begun(q, i) == q.state = IF i = 0 THEN "CellStart" ELSE "InCell"
Bare(q) == ~q.quoted /\ ~q.null /\ ~q.escape

\* TSV: between two bytes, and behind the backslash of an escape.
TsvPlain(q, v, t, all, i) ==
  /\ Part(q, v, i) /\ Begun(q, i) /\ Bare(q)
  /\ all = From(EscapesOf(v), i) ++ t

TsvEscape(q, v, t, all, i) ==
  /\ i < Len(v) /\ Part(q, v, i) /\ q.state = "InCell" /\ ~q.quoted /\ ~q.null /\ q.escape
  /\ v[i + 1] \in DOMAIN TsvEscapes
  /\ all = <<TsvEscapes[v[i + 1]]>> ++ (From(EscapesOf(v), i + 1) ++ t)

\* TSV: the mark of NULL is an escape, too.
TsvNull(q, t, all) ==
  \/ AtStart(q) /\ all = NullMarker ++ t
  \/ /\ q.state = "InCell" /\ q.cell = << >> /\ ~q.quoted /\ ~q.null /\ q.escape
     /\ all = <<"N">> ++ t
  \/ /\ q.state = "InCell" /\ q.cell = NullMarker /\ ~q.quoted /\ q.null /\ ~q.escape
     /\ all = t

\* CSV: a value without quotes.
CsvPlain(q, v, t, all, i) ==
  /\ Part(q, v, i) /\ Begun(q, i) /\ Bare(q)
  /\ all = Rest(v, i) ++ t

\* CSV: before the opening quote, and behind it: between two bytes, between the two
\* quotes that stand for one, and behind the closing quote.
CsvOpens(q, v, t, all) == AtStart(q) /\ all = Quoted(v) ++ t

CsvQuoted(q, v, t, all, i) ==
  /\ Part(q, v, i) /\ q.quoted /\ ~q.null /\ ~q.escape
  /\ \/ q.state = "InQuoted" /\ all = From(QuotesOf(v), i) ++ (<<"quote">> ++ t)
     \/ /\ q.state = "QuotePending" /\ i < Len(v) /\ v[i + 1] = "quote"
        /\ all = <<"quote">> ++ (From(QuotesOf(v), i + 1) ++ (<<"quote">> ++ t))
     \/ q.state = "QuotePending" /\ i = Len(v) /\ all = t

\* Where the parser is in a cell.
CellLeft(q, v, t, all, fmt) ==
  IF ~streamFormatIsCSV(fmt)
  THEN IF v = Null THEN TsvNull(q, t, all)
       ELSE \E i \in 0 .. Len(v) : TsvPlain(q, v, t, all, i) \/ TsvEscape(q, v, t, all, i)
  ELSE IF v = Null \/ ~NeedsQuoting(v)
       THEN LET w == IF v = Null THEN NullMarker ELSE v IN
            \E i \in 0 .. Len(w) : CsvPlain(q, w, t, all, i)
       ELSE CsvOpens(q, v, t, all) \/ \E i \in 0 .. Len(v) : CsvQuoted(q, v, t, all, i)

------------------------------------------------------------------------------
(* Where the import is in the text of an export. *)

\* The header and the rows of the export, a line each.
Lines == (IF header /\ streamFormatHasHeader(job.fmt) THEN <<job.names>> ELSE << >>) \o exported

\* What of the file is not yet parsed.
Left == Rest(file, pos)

\* In cell c of line k.
AtCell(k, c) ==
  /\ k \in 1 .. Len(Lines) /\ c \in 1 .. Len(Lines[k])
  /\ p.row = SubSeq(Lines[k], 1, c - 1) /\ ~p.cr
  /\ CellLeft(p, Lines[k][c], Behind(Lines, job.fmt, k, c), Left, job.fmt)

\* Behind line k; of a line end of CSV the line feed may be left.
Between(k) ==
  /\ AtStart(p) /\ p.row = << >>
  /\ \/ ~p.cr /\ Left = From(TextsOf(Lines, job.fmt), k)
     \/ csv /\ p.cr /\ Left = <<"lf">> ++ From(TextsOf(Lines, job.fmt), k)

\* What a line gives: its row, unless it is the header or blank.
Taken(lines, fmt) ==
  [i \in DOMAIN lines |->
    IF (streamFormatHasHeader(fmt) /\ i = 1) \/ IsBlank(lines[i]) THEN << >> ELSE <<lines[i]>>]

\* The first k lines are taken: their rows are sent or wait.
Done(k) ==
  /\ sent \o batch = FlattenSeq(SubSeq(Taken(Lines, job.fmt), 1, k))
  /\ streamFormatHasHeader(job.fmt) => (p.headerSeen <=> k > 0)

\* The import has taken m lines and is before or within the next.
Reads(m) == Done(m) /\ (Between(m) \/ \E c \in 1 .. Len(job.names) : AtCell(m + 1, c))

\* Before the export returns the import has not begun; then it has read a part of the
\* file, and unless it throws it is in some line with all those before it taken, at the
\* end of the last one when the stream ends.
ReadInv ==
  /\ cause # "text"
  /\ export # "returned" =>
       /\ read = << >> /\ pos = 0 /\ p = FreshParser
       /\ batch = << >> /\ sent = << >> /\ phase = "reading"
  /\ export = "returned" =>
       /\ Len(read) <= Len(file) /\ read = SubSeq(file, 1, Len(read))
       /\ cause = "none" =>
            \E m \in 0 .. Len(Lines) :
              IF phase = "reading" THEN Reads(m) ELSE m = Len(Lines) /\ Done(m)

ReadsBack == origin = "export" => ReadInv

------------------------------------------------------------------------------
(* Sequences. *)

\* An element in front of a sequence.
LEMMA ConsIs ==
  ASSUME NEW A, NEW x \in A, NEW r \in Seq(A)
  PROVE  /\ <<x>> \o r \in Seq(A) /\ Len(<<x>> \o r) = 1 + Len(r) /\ (<<x>> \o r)[1] = x
         /\ \A i \in 1 .. Len(r) : (<<x>> \o r)[i + 1] = r[i]
<1> DEFINE c == <<x>>
<1>1. c \in Seq(A) /\ Len(c) = 1 /\ c[1] = x /\ Len(r) \in Nat
  BY LenProperties
<1> HIDE DEF c
<1>2. /\ c \o r \in Seq(A) /\ Len(c \o r) = Len(c) + Len(r)
      /\ \A i \in 1 .. Len(c) + Len(r) : (c \o r)[i] = IF i <= Len(c) THEN c[i] ELSE r[i - Len(c)]
  BY <1>1, ConcatProperties
<1>3. (c \o r)[1] = x
  <2>1. 1 \in 1 .. Len(c) + Len(r) /\ 1 <= Len(c)
    BY <1>1
  <2> QED BY <1>1, <1>2, <2>1
<1>4. ASSUME NEW i \in 1 .. Len(r) PROVE (c \o r)[i + 1] = r[i]
  <2>1. i + 1 \in 1 .. Len(c) + Len(r) /\ ~(i + 1 <= Len(c)) /\ (i + 1) - Len(c) = i
    BY <1>1
  <2>2. (c \o r)[i + 1] = r[(i + 1) - Len(c)]
    BY <1>2, <2>1
  <2> QED BY <2>1, <2>2
<1>5. Len(c \o r) = 1 + Len(r)
  BY <1>1, <1>2
<1> QED BY <1>2, <1>3, <1>4, <1>5 DEF c

\* A sequence is its first element with the others behind it.
LEMMA IsCons ==
  ASSUME NEW A, NEW s \in Seq(A), NEW x \in A, NEW r \in Seq(A),
         Len(s) = 1 + Len(r), s[1] = x, \A i \in 1 .. Len(r) : s[i + 1] = r[i]
  PROVE  s = <<x>> \o r
<1> DEFINE t == <<x>> \o r
<1>1. t \in Seq(A) /\ Len(t) = 1 + Len(r) /\ t[1] = x /\ \A i \in 1 .. Len(r) : t[i + 1] = r[i]
  BY ConsIs
<1>2. Len(r) \in Nat
  BY LenProperties
<1> HIDE DEF t
<1>3. ASSUME NEW i \in 1 .. Len(s) PROVE s[i] = t[i]
  <2>1. CASE i = 1
    BY <1>1, <2>1
  <2>2. CASE i # 1
    <3>1. i - 1 \in 1 .. Len(r) /\ (i - 1) + 1 = i
      BY <1>2, <2>2
    <3>2. s[(i - 1) + 1] = r[i - 1] /\ t[(i - 1) + 1] = r[i - 1]
      BY <1>1, <3>1
    <3> QED BY <3>1, <3>2
  <2> QED BY <2>1, <2>2
<1>4. s = t
  BY <1>1, <1>3, SeqEqual
<1> QED BY <1>4 DEF t

\* Two sequences of some set joined are one of it.
LEMMA JoinType ==
  ASSUME NEW A, NEW a \in Seq(A), NEW b \in Seq(A)
  PROVE  a ++ b \in Seq(A)
BY DEF ++

\* Which two of three are joined first makes no difference.
LEMMA JoinAssoc ==
  ASSUME NEW A, NEW a \in Seq(A), NEW b \in Seq(A), NEW c \in Seq(A)
  PROVE  (a ++ b) ++ c = a ++ (b ++ c)
BY ConcatAssociative, SMTT(30) DEF ++

\* Nothing adds nothing.
LEMMA JoinEmpty ==
  ASSUME NEW A, NEW a \in Seq(A)
  PROVE  << >> ++ a = a /\ a ++ << >> = a
BY ConcatEmptySeq DEF ++

\* Two elements are one behind the other.
LEMMA JoinPair ==
  ASSUME NEW A, NEW b \in A, NEW c \in A
  PROVE  <<b, c>> = <<b>> ++ <<c>> /\ <<b>> \in Seq(A) /\ <<c>> \in Seq(A)
<1>1. <<b>> \in Seq(A) /\ <<c>> \in Seq(A)
  OBVIOUS
<1>2. <<b, c>> \in Seq(A) /\ Len(<<b, c>>) = 1 + Len(<<c>>) /\ <<b, c>>[1] = b
      /\ \A i \in 1 .. Len(<<c>>) : <<b, c>>[i + 1] = <<c>>[i]
  OBVIOUS
<1>3. <<b, c>> = <<b>> \o <<c>>
  BY <1>1, <1>2, IsCons
<1> QED BY <1>1, <1>3 DEF ++

\* The elements that are left, one by one.
LEMMA RestNext ==
  ASSUME NEW A, NEW s \in Seq(A), NEW i \in 0 .. Len(s)
  PROVE  /\ Rest(s, i) \in Seq(A)
         /\ i < Len(s) => s[i + 1] \in A /\ Rest(s, i + 1) \in Seq(A)
                          /\ Rest(s, i) = <<s[i + 1]>> ++ Rest(s, i + 1)
         /\ i = Len(s) => Rest(s, i) = << >>
         /\ Rest(s, 0) = s
<1>1. Len(s) \in Nat /\ i \in Nat /\ 0 \in 0 .. Len(s)
  BY LenProperties
<1>2. /\ Rest(s, i) \in Seq(A) /\ Len(Rest(s, i)) = Len(s) - i
      /\ \A k \in 1 .. Len(s) - i : Rest(s, i)[k] = s[i + k]
  BY PrefixIs
<1>3. ASSUME i < Len(s)
      PROVE  s[i + 1] \in A /\ Rest(s, i + 1) \in Seq(A) /\ Rest(s, i) = <<s[i + 1]>> ++ Rest(s, i + 1)
  <2> DEFINE x == s[i + 1]
  <2> DEFINE r == Rest(s, i + 1)
  <2> DEFINE q == Rest(s, i)
  <2>1. i + 1 \in 0 .. Len(s) /\ i + 1 \in 1 .. Len(s)
    BY <1>1, <1>3
  <2>2. x \in A
    BY <2>1, LenProperties
  <2>3. r \in Seq(A) /\ Len(r) = Len(s) - (i + 1) /\ \A k \in 1 .. Len(s) - (i + 1) : r[k] = s[i + 1 + k]
    BY <2>1, PrefixIs
  <2>4. q \in Seq(A) /\ Len(q) = Len(s) - i /\ \A k \in 1 .. Len(s) - i : q[k] = s[i + k]
    BY <1>2
  <2> HIDE DEF q, r
  <2>5. Len(q) = 1 + Len(r) /\ 1 \in 1 .. Len(s) - i
    BY <1>1, <1>3, <2>3, <2>4
  <2>6. q[1] = x
    BY <2>4, <2>5
  <2>7. ASSUME NEW k \in 1 .. Len(r) PROVE q[k + 1] = r[k]
    <3>1. k \in 1 .. Len(s) - (i + 1) /\ k + 1 \in 1 .. Len(s) - i /\ i + 1 + k = i + (k + 1)
      BY <1>1, <1>3, <2>3
    <3>2. r[k] = s[i + 1 + k] /\ q[k + 1] = s[i + (k + 1)]
      BY <2>3, <2>4, <3>1
    <3> QED BY <3>1, <3>2
  <2> HIDE DEF x
  <2>8. q = <<x>> \o r
    BY <2>2, <2>3, <2>4, <2>5, <2>6, <2>7, IsCons
  <2> QED BY <2>2, <2>3, <2>8 DEF q, r, x, ++
<1>4. Rest(s, 0) = s
  <2>1. SubSeq(s, 1, 0) = << >> /\ Joins(SubSeq(s, 1, 0), Rest(s, 0), s) /\ Rest(s, 0) \in Seq(A)
    BY <1>1, PrefixIs
  <2> QED BY <2>1, ConcatEmptySeq DEF Joins
<1>5. i = Len(s) => Rest(s, i) = << >>
  BY <1>1, <1>2, EmptySeq
<1> QED BY <1>2, <1>3, <1>4, <1>5

\* All of it is left at first, and nothing at the end.
LEMMA RestEnds ==
  ASSUME NEW A, NEW s \in Seq(A)
  PROVE  Rest(s, 0) = s /\ Rest(s, Len(s)) = << >>
<1>1. Len(s) \in Nat /\ 0 \in 0 .. Len(s) /\ Len(s) \in 0 .. Len(s)
  BY LenProperties
<1>2. Rest(s, 0) = s
  BY <1>1, RestNext
<1>3. Rest(s, Len(s)) = << >>
  <2>1. Rest(s, Len(s)) \in Seq(A) /\ Len(Rest(s, Len(s))) = Len(s) - Len(s)
    BY <1>1, PrefixIs
  <2> QED BY <1>1, <2>1, EmptySeq
<1> QED BY <1>2, <1>3

\* What is left has the next element in front.
LEMMA RestStep ==
  ASSUME NEW A, NEW s \in Seq(A), NEW i \in 0 .. Len(s), i < Len(s)
  PROVE  /\ s[i + 1] \in A /\ Rest(s, i + 1) \in Seq(A)
         /\ Rest(s, i) = <<s[i + 1]>> ++ Rest(s, i + 1)
BY RestNext

\* The first of the parts that are left is in front of the others.
LEMMA FromNext ==
  ASSUME NEW A, NEW texts \in Seq(Seq(A)), NEW k \in 0 .. Len(texts), k < Len(texts)
  PROVE  /\ texts[k + 1] \in Seq(A) /\ From(texts, k + 1) \in Seq(A)
         /\ From(texts, k) = texts[k + 1] ++ From(texts, k + 1)
<1> DEFINE x == texts[k + 1]
<1> DEFINE r == Rest(texts, k + 1)
<1> DEFINE S == Seq(A)
<1>1. x \in S /\ r \in Seq(S) /\ Rest(texts, k) = <<x>> \o r
  <2>1. texts \in Seq(S)
    OBVIOUS
  <2> HIDE DEF S
  <2> QED BY <2>1, RestStep DEF ++
<1>2. From(texts, k) = FlattenSeq(Rest(texts, k)) /\ From(texts, k + 1) = FlattenSeq(r)
  BY DEF From
<1> HIDE DEF x, r
<1>3. FlattenSeq(<<x>>) = x
  <2>1. Append(<< >>, x) = <<x>>
    BY <1>1
  <2>2. FlattenSeq(Append(<< >>, x)) = FlattenSeq(<< >>) \o x
    <3>1. << >> \in Seq(Seq(A))
      BY EmptyIsSeq
    <3> QED BY <1>1, <3>1, FlattenAppend
  <2> QED BY <1>1, <2>1, <2>2, FlattenEmpty, ConcatEmptySeq
<1>4. FlattenSeq(<<x>> \o r) = FlattenSeq(<<x>>) \o FlattenSeq(r)
  <2>1. <<x>> \in Seq(Seq(A))
    BY <1>1
  <2> QED BY <1>1, <2>1, FlattenConcat
<1>5. FlattenSeq(r) \in Seq(A)
  BY <1>1, FlattenType
<1> QED BY <1>1, <1>2, <1>3, <1>4, <1>5 DEF x, ++

\* All of them are left at first, none of them at the end.
LEMMA FromEnds ==
  ASSUME NEW A, NEW texts \in Seq(Seq(A))
  PROVE  /\ From(texts, 0) = FlattenSeq(texts) /\ From(texts, Len(texts)) = << >>
         /\ \A k \in 0 .. Len(texts) : From(texts, k) \in Seq(A)
<1>1. 0 \in 0 .. Len(texts) /\ Len(texts) \in 0 .. Len(texts)
  BY LenProperties
<1>2. \A k \in 0 .. Len(texts) : Rest(texts, k) \in Seq(Seq(A))
  BY PrefixIs
<1>3. Rest(texts, 0) = texts /\ Rest(texts, Len(texts)) = << >>
  <2> DEFINE S == Seq(A)
  <2>1. texts \in Seq(S)
    OBVIOUS
  <2> HIDE DEF S
  <2> QED BY <2>1, RestEnds
<1>4. \A k \in 0 .. Len(texts) : FlattenSeq(Rest(texts, k)) \in Seq(A)
  BY <1>2, FlattenType
<1> QED BY <1>3, <1>4, FlattenEmpty DEF From

\* The next element of what is left.
LEMMA NextIs ==
  ASSUME NEW A, NEW s \in Seq(A), NEW i \in 0 .. Len(s), NEW b \in A, NEW w \in Seq(A),
         Rest(s, i) = <<b>> ++ w
  PROVE  i < Len(s) /\ s[i + 1] = b /\ Rest(s, i + 1) = w
<1>1. Len(s) \in Nat /\ i \in Nat /\ Len(w) \in Nat
  BY LenProperties
<1>2. /\ Len(<<b>> \o w) = 1 + Len(w) /\ (<<b>> \o w)[1] = b
      /\ \A k \in 1 .. Len(w) : (<<b>> \o w)[k + 1] = w[k]
  BY ConsIs
<1>3. i < Len(s)
  <2>1. Len(Rest(s, i)) = Len(s) - i
    BY PrefixIs
  <2>2. Rest(s, i) = <<b>> \o w
    BY DEF ++
  <2> QED BY <1>1, <1>2, <2>1, <2>2
<1> DEFINE x == s[i + 1]
<1> DEFINE r == Rest(s, i + 1)
<1>4. x \in A /\ r \in Seq(A) /\ <<b>> \o w = <<x>> \o r
  <2>1. x \in A /\ r \in Seq(A) /\ <<b>> ++ w = <<x>> ++ r
    BY <1>3, RestStep
  <2> QED BY <2>1 DEF ++
<1> HIDE DEF x, r
<1>5. /\ Len(<<x>> \o r) = 1 + Len(r) /\ (<<x>> \o r)[1] = x
      /\ \A k \in 1 .. Len(r) : (<<x>> \o r)[k + 1] = r[k]
  BY <1>4, ConsIs
<1>6. Len(r) \in Nat
  BY <1>4, LenProperties
<1>7. x = b /\ Len(r) = Len(w) /\ \A k \in 1 .. Len(r) : r[k] = w[k]
  BY <1>1, <1>2, <1>4, <1>5, <1>6
<1>8. r = w
  BY <1>4, <1>7, SeqEqual
<1> QED BY <1>3, <1>7, <1>8 DEF x, r

\* Four texts, one after the other.
LEMMA FourJoin ==
  ASSUME NEW A, NEW a \in Seq(A), NEW b \in Seq(A), NEW c \in Seq(A), NEW d \in Seq(A)
  PROVE  /\ ((a ++ b) ++ c) ++ d = a ++ (b ++ (c ++ d))
         /\ a ++ (b ++ (c ++ d)) \in Seq(A) /\ b ++ (c ++ d) \in Seq(A)
<1>1. a ++ b \in Seq(A) /\ c ++ d \in Seq(A)
  BY JoinType
<1>2. ((a ++ b) ++ c) ++ d = (a ++ b) ++ (c ++ d)
  BY <1>1, JoinAssoc
<1>3. (a ++ b) ++ (c ++ d) = a ++ (b ++ (c ++ d))
  BY <1>1, JoinAssoc
<1>4. b ++ (c ++ d) \in Seq(A)
  BY <1>1, JoinType
<1> QED BY <1>2, <1>3, <1>4, JoinType

\* Two elements, and what is behind them.
LEMMA TwoThen ==
  ASSUME NEW A, NEW b \in A, NEW c \in A, NEW x \in Seq(A), NEW t \in Seq(A)
  PROVE  (<<b, c>> ++ x) ++ t = <<b>> ++ (<<c>> ++ (x ++ t)) /\ <<c>> ++ (x ++ t) \in Seq(A)
<1> DEFINE bb == <<b>>
<1> DEFINE cc == <<c>>
<1>1. <<b, c>> = bb ++ cc /\ bb \in Seq(A) /\ cc \in Seq(A)
  BY JoinPair
<1> HIDE DEF bb, cc
<1>2. ((bb ++ cc) ++ x) ++ t = bb ++ (cc ++ (x ++ t)) /\ cc ++ (x ++ t) \in Seq(A)
  BY <1>1, FourJoin
<1> QED BY <1>1, <1>2 DEF bb, cc

\* One element, and what is behind it.
LEMMA OneThen ==
  ASSUME NEW A, NEW b \in A, NEW x \in Seq(A), NEW t \in Seq(A)
  PROVE  (<<b>> ++ x) ++ t = <<b>> ++ (x ++ t) /\ x ++ t \in Seq(A)
<1> DEFINE bb == <<b>>
<1>1. bb \in Seq(A)
  OBVIOUS
<1> HIDE DEF bb
<1>2. (bb ++ x) ++ t = bb ++ (x ++ t) /\ x ++ t \in Seq(A)
  BY <1>1, JoinAssoc, JoinType
<1> QED BY <1>2 DEF bb

\* The pieces that a cell is written in, one for each of its bytes.
LEMMA EscapesAreSeq ==
  ASSUME NEW v \in Seq(Bytes)
  PROVE  /\ EscapesOf(v) \in Seq(Seq(Bytes)) /\ Len(EscapesOf(v)) = Len(v)
         /\ \A i \in 1 .. Len(v) :
              EscapesOf(v)[i] = IF v[i] \in DOMAIN TsvEscapes THEN <<"bs", TsvEscapes[v[i]]>>
                                                              ELSE <<v[i]>>
<1>1. Len(v) \in Nat /\ DOMAIN v = 1 .. Len(v) /\ \A i \in 1 .. Len(v) : v[i] \in Bytes
  BY LenProperties
<1>2. \A b \in Bytes : (IF b \in DOMAIN TsvEscapes THEN <<"bs", TsvEscapes[b]>> ELSE <<b>>) \in Seq(Bytes)
  <2> SUFFICES ASSUME NEW b \in Bytes
               PROVE  (IF b \in DOMAIN TsvEscapes THEN <<"bs", TsvEscapes[b]>> ELSE <<b>>) \in Seq(Bytes)
    OBVIOUS
  <2>1. CASE b \in DOMAIN TsvEscapes
    <3>1. TsvEscapes[b] \in Bytes /\ "bs" \in Bytes
      BY <2>1 DEF TsvEscapes, Bytes
    <3> QED BY <2>1, <3>1
  <2> QED BY <2>1
<1>3. EscapesOf(v) \in [1 .. Len(v) -> Seq(Bytes)]
  BY <1>1, <1>2 DEF EscapesOf
<1> QED BY <1>1, <1>3, FunctionIsSeq DEF EscapesOf

\* The same for the bytes inside quotes.
LEMMA QuotesAreSeq ==
  ASSUME NEW v \in Seq(Bytes)
  PROVE  /\ QuotesOf(v) \in Seq(Seq(Bytes)) /\ Len(QuotesOf(v)) = Len(v)
         /\ \A i \in 1 .. Len(v) :
              QuotesOf(v)[i] = IF v[i] = "quote" THEN <<"quote", "quote">> ELSE <<v[i]>>
<1>1. Len(v) \in Nat /\ DOMAIN v = 1 .. Len(v) /\ \A i \in 1 .. Len(v) : v[i] \in Bytes
  BY LenProperties
<1>2. <<"quote", "quote">> \in Seq(Bytes)
  BY DEF Bytes
<1>3. QuotesOf(v) \in [1 .. Len(v) -> Seq(Bytes)]
  BY <1>1, <1>2 DEF QuotesOf
<1> QED BY <1>1, <1>3, FunctionIsSeq DEF QuotesOf

\* The same for the cells of a row.
LEMMA CellTextsAreSeq ==
  ASSUME NEW row \in Seq(Cells), NEW fmt
  PROVE  /\ CellTexts(row, fmt) \in Seq(Seq(Bytes)) /\ Len(CellTexts(row, fmt)) = Len(row)
         /\ \A c \in 1 .. Len(row) :
              /\ appendCellForStream(row[c], fmt) \in Seq(Bytes)
              /\ CellTexts(row, fmt)[c] = (IF c > 1 THEN <<"sep">> ELSE << >>) ++ appendCellForStream(row[c], fmt)
<1>1. Len(row) \in Nat /\ DOMAIN row = 1 .. Len(row) /\ \A i \in 1 .. Len(row) : row[i] \in Cells
  BY LenProperties
<1>2. \A c \in 1 .. Len(row) : appendCellForStream(row[c], fmt) \in Seq(Bytes)
  BY <1>1, CellIsBytes
<1>3. \A c \in 1 .. Len(row) : CellTexts(row, fmt)[c] \in Seq(Bytes)
  <2> SUFFICES ASSUME NEW c \in 1 .. Len(row) PROVE CellTexts(row, fmt)[c] \in Seq(Bytes)
    OBVIOUS
  <2> DEFINE text == appendCellForStream(row[c], fmt)
  <2>1. text \in Seq(Bytes) /\ CellTexts(row, fmt)[c] = (IF c > 1 THEN <<"sep">> ELSE << >>) ++ text
    BY <1>1, <1>2 DEF CellTexts
  <2>2. <<"sep">> \in Seq(Bytes) /\ << >> \in Seq(Bytes)
    BY EmptyIsSeq DEF Bytes
  <2> HIDE DEF text
  <2> QED BY <2>1, <2>2, JoinType
<1>4. CellTexts(row, fmt) \in [1 .. Len(row) -> Seq(Bytes)]
  <2>1. CellTexts(row, fmt) = [c \in 1 .. Len(row) |-> CellTexts(row, fmt)[c]]
    BY <1>1 DEF CellTexts
  <2> QED BY <1>3, <2>1
<1> QED BY <1>1, <1>2, <1>4, FunctionIsSeq DEF CellTexts

\* The end of a line is bytes.
LEMMA RowTermIsBytes ==
  ASSUME NEW fmt
  PROVE  RowTerm(fmt) \in Seq(Bytes)
<1>1. <<"cr", "lf">> \in Seq(Bytes) /\ <<"lf">> \in Seq(Bytes)
  BY DEF Bytes
<1> QED BY <1>1 DEF RowTerm

------------------------------------------------------------------------------
(* What is left of a line. *)

\* The text of a line, and what is behind it.
LEMMA LineText ==
  ASSUME NEW lines \in Seq(Seq(Cells)), NEW fmt, NEW k \in 0 .. Len(lines), k < Len(lines),
         Len(lines[k + 1]) > 0
  PROVE  /\ lines[k + 1] \in Seq(Cells) /\ k + 1 \in 1 .. Len(lines) /\ lines[k + 1][1] \in Cells
         /\ appendCellForStream(lines[k + 1][1], fmt) \in Seq(Bytes)
         /\ Behind(lines, fmt, k + 1, 1) \in Seq(Bytes)
         /\ From(TextsOf(lines, fmt), k)
              = appendCellForStream(lines[k + 1][1], fmt) ++ Behind(lines, fmt, k + 1, 1)
<1> DEFINE row == lines[k + 1]
<1> DEFINE cells == CellTexts(row, fmt)
<1> DEFINE texts == TextsOf(lines, fmt)
<1> DEFINE head == appendCellForStream(row[1], fmt)
<1> DEFINE more == From(cells, 1)
<1> DEFINE z == From(texts, k + 1)
<1>1. /\ Len(lines) \in Nat /\ k + 1 \in 1 .. Len(lines) /\ row \in Seq(Cells) /\ Len(row) \in Nat
      /\ 1 \in 1 .. Len(row) /\ row[1] \in Cells
  BY LenProperties
<1>2. /\ cells \in Seq(Seq(Bytes)) /\ Len(cells) = Len(row) /\ head \in Seq(Bytes)
      /\ cells[1] = << >> ++ head
  <2>1. cells \in Seq(Seq(Bytes)) /\ Len(cells) = Len(row)
    BY <1>1, CellTextsAreSeq
  <2>2. head \in Seq(Bytes)
    BY <1>1, CellIsBytes
  <2>3. cells[1] = << >> ++ head
    BY <1>1, LenProperties DEF CellTexts, ++
  <2> QED BY <2>1, <2>2, <2>3
<1>3. /\ texts \in Seq(Seq(Bytes)) /\ Len(texts) = Len(lines) /\ texts[k + 1] = RowText(row, fmt)
  BY <1>1, TextsAreSeq
<1>4. RowText(row, fmt) = FlattenSeq(cells) ++ RowTerm(fmt)
  BY DEF RowText, CellTexts, ++
<1>5. Behind(lines, fmt, k + 1, 1) = more ++ (RowTerm(fmt) ++ z)
  BY DEF Behind
<1>6. RowTerm(fmt) \in Seq(Bytes)
  BY RowTermIsBytes
<1> HIDE DEF row, cells, texts, head, more, z
<1>7. FlattenSeq(cells) = head ++ more /\ more \in Seq(Bytes)
  <2>1. 0 \in 0 .. Len(cells) /\ 0 < Len(cells) /\ 0 + 1 = 1
    BY <1>1, <1>2
  <2>2. From(cells, 0) = cells[1] ++ From(cells, 1) /\ From(cells, 1) \in Seq(Bytes)
    BY <1>2, <2>1, FromNext
  <2>3. From(cells, 0) = FlattenSeq(cells)
    BY <1>2, FromEnds
  <2> QED BY <1>2, <2>2, <2>3, JoinEmpty DEF more
<1>8. From(texts, k) = RowText(row, fmt) ++ z /\ z \in Seq(Bytes)
  <2>1. k \in 0 .. Len(texts) /\ k < Len(texts)
    BY <1>3
  <2> QED BY <1>3, <2>1, FromNext DEF z
<1> DEFINE e == RowTerm(fmt)
<1>9. ((head ++ more) ++ e) ++ z = head ++ (more ++ (e ++ z))
  BY <1>2, <1>6, <1>7, <1>8, FourJoin
<1>10. more ++ (e ++ z) \in Seq(Bytes)
  BY <1>6, <1>7, <1>8, JoinType
<1>11. From(texts, k) = head ++ (more ++ (e ++ z))
  BY <1>4, <1>7, <1>8, <1>9
<1> QED BY <1>1, <1>2, <1>5, <1>10, <1>11 DEF row, head, texts

\* Behind a cell is the separator with the next cell, or the end of the line.
LEMMA CellBehind ==
  ASSUME NEW lines \in Seq(Seq(Cells)), NEW fmt, NEW k \in 1 .. Len(lines), NEW c \in 1 .. Len(lines[k])
  PROVE  /\ lines[k] \in Seq(Cells) /\ lines[k][c] \in Cells /\ Behind(lines, fmt, k, c) \in Seq(Bytes)
         /\ From(TextsOf(lines, fmt), k) \in Seq(Bytes)
         /\ c < Len(lines[k]) =>
              /\ c + 1 \in 1 .. Len(lines[k]) /\ lines[k][c + 1] \in Cells
              /\ appendCellForStream(lines[k][c + 1], fmt) \in Seq(Bytes)
              /\ Behind(lines, fmt, k, c + 1) \in Seq(Bytes)
              /\ Behind(lines, fmt, k, c)
                   = <<"sep">> ++ (appendCellForStream(lines[k][c + 1], fmt) ++ Behind(lines, fmt, k, c + 1))
         /\ c = Len(lines[k]) =>
              Behind(lines, fmt, k, c) = RowTerm(fmt) ++ From(TextsOf(lines, fmt), k)
<1> DEFINE row == lines[k]
<1> DEFINE cells == CellTexts(row, fmt)
<1> DEFINE texts == TextsOf(lines, fmt)
<1> DEFINE z == From(texts, k)
<1> DEFINE e == RowTerm(fmt)
<1>1. /\ Len(lines) \in Nat /\ row \in Seq(Cells) /\ Len(row) \in Nat
      /\ \A i \in 1 .. Len(row) : row[i] \in Cells
  BY LenProperties
<1>2. /\ cells \in Seq(Seq(Bytes)) /\ Len(cells) = Len(row)
      /\ \A i \in 1 .. Len(row) :
              /\ appendCellForStream(row[i], fmt) \in Seq(Bytes)
              /\ cells[i] = (IF i > 1 THEN <<"sep">> ELSE << >>) ++ appendCellForStream(row[i], fmt)
  BY <1>1, CellTextsAreSeq
<1>3. texts \in Seq(Seq(Bytes)) /\ Len(texts) = Len(lines)
  BY TextsAreSeq
<1>4. e \in Seq(Bytes)
  BY RowTermIsBytes
<1>5. \A i \in 1 .. Len(row) : Behind(lines, fmt, k, i) = From(cells, i) ++ (e ++ z)
  BY DEF Behind
<1> HIDE DEF row, cells, texts, z, e
<1>6. z \in Seq(Bytes)
  <2>1. k \in 0 .. Len(texts)
    BY <1>1, <1>3
  <2> QED BY <1>3, <2>1, FromEnds DEF z
<1> DEFINE ez == e ++ z
<1>7. ez \in Seq(Bytes)
  BY <1>4, <1>6, JoinType
<1> HIDE DEF ez
<1>8. \A i \in 0 .. Len(row) : From(cells, i) \in Seq(Bytes)
  BY <1>2, FromEnds
<1>9. \A i \in 1 .. Len(row) : From(cells, i) ++ ez \in Seq(Bytes)
  <2> SUFFICES ASSUME NEW i \in 1 .. Len(row) PROVE From(cells, i) ++ ez \in Seq(Bytes)
    OBVIOUS
  <2>1. From(cells, i) \in Seq(Bytes)
    BY <1>1, <1>8
  <2> QED BY <1>7, <2>1, JoinType
<1>10. c \in 1 .. Len(row) /\ row[c] \in Cells
  BY <1>1 DEF row
<1>11. ASSUME c < Len(row)
       PROVE  /\ c + 1 \in 1 .. Len(row) /\ appendCellForStream(row[c + 1], fmt) \in Seq(Bytes)
              /\ From(cells, c) ++ ez = <<"sep">> ++ (appendCellForStream(row[c + 1], fmt) ++ (From(cells, c + 1) ++ ez))
  <2> DEFINE t == appendCellForStream(row[c + 1], fmt)
  <2> DEFINE m == From(cells, c + 1)
  <2> DEFINE sep == <<"sep">>
  <2>1. c + 1 \in 1 .. Len(row) /\ c + 1 > 1 /\ c \in 0 .. Len(cells) /\ c < Len(cells)
    BY <1>1, <1>2, <1>10, <1>11
  <2>2. t \in Seq(Bytes) /\ cells[c + 1] = <<"sep">> ++ t
    BY <1>2, <2>1
  <2>3. From(cells, c) = cells[c + 1] ++ m /\ m \in Seq(Bytes)
    BY <1>2, <2>1, FromNext
  <2>4. "sep" \in Bytes
    BY DEF Bytes
  <2> HIDE DEF t, m
  <2>5. ((sep ++ t) ++ m) ++ ez = sep ++ (t ++ (m ++ ez))
    <3>1. sep \in Seq(Bytes)
      BY <2>4
    <3> HIDE DEF sep
    <3> QED BY <1>7, <2>2, <2>3, <3>1, FourJoin
  <2>8. From(cells, c) ++ ez = <<"sep">> ++ (t ++ (m ++ ez))
    BY <2>2, <2>3, <2>5
  <2> QED BY <2>1, <2>2, <2>8 DEF t, m
<1>12. c = Len(row) => From(cells, c) ++ ez = ez
  <2>1. From(cells, Len(row)) = << >>
    BY <1>2, FromEnds
  <2> QED BY <1>7, <2>1, JoinEmpty
<1>13. Behind(lines, fmt, k, c) = From(cells, c) ++ ez
  BY <1>5, <1>10 DEF ez
<1>14. c < Len(row) => Behind(lines, fmt, k, c + 1) = From(cells, c + 1) ++ ez
  BY <1>5, <1>11 DEF ez
<1>15. c < Len(row) => row[c + 1] \in Cells
  BY <1>1, <1>11
<1>16. /\ lines[k] = row /\ From(TextsOf(lines, fmt), k) = z /\ RowTerm(fmt) ++ z = ez
  BY DEF row, z, texts, e, ez
<1> QED BY <1>1, <1>6, <1>9, <1>10, <1>11, <1>12, <1>13, <1>14, <1>15, <1>16

------------------------------------------------------------------------------
(* Which branch of feed() a byte takes. *)

InText == p.state \in {"CellStart", "InCell"} /\ ~p.escape /\ ~p.null

\* A byte that means nothing to the format joins the cell.
LEMMA OrdinaryFed ==
  ASSUME Feed, InText, Byte \notin {"sep", "lf", "cr"}, csv => Byte # "quote", ~csv => Byte # "bs"
  PROVE  Ordinary
BY DEF Feed, InText, ResumeEscape, InQuotes, QuoteInQuotes, ByteAfterQuotes, Separator, SwallowLF,
  BlankLine, RowEnd, ByteAfterNull, OpenQuotes, EscapeInChunk, EscapeAtEnd, CsvByte, OutsideQuotes,
  Plain, EndsLine, Backslash, LineEnds

\* A backslash of TSV begins an escape.
LEMMA BackslashFed ==
  ASSUME Feed, InText, ~csv, Byte = "bs"
  PROVE  EscapeInChunk \/ EscapeAtEnd
BY DEF Feed, InText, ResumeEscape, InQuotes, QuoteInQuotes, ByteAfterQuotes, Separator, SwallowLF,
  BlankLine, RowEnd, ByteAfterNull, OpenQuotes, Ordinary, CsvByte, OutsideQuotes,
  Plain, EndsLine, Backslash, LineEnds

\* The byte after it ends the escape.
LEMMA EscapeFed ==
  ASSUME Feed, p.escape
  PROVE  ResumeEscape
BY DEF Feed, InQuotes, QuoteInQuotes, ByteAfterQuotes, Separator, SwallowLF,
  BlankLine, RowEnd, ByteAfterNull, OpenQuotes, EscapeInChunk, EscapeAtEnd, Ordinary, CsvByte, OutsideQuotes,
  Plain, EndsLine, Backslash

\* A quote at the start of a cell of CSV.
LEMMA OpeningFed ==
  ASSUME Feed, InText, csv, p.state = "CellStart", Byte = "quote"
  PROVE  OpenQuotes
BY DEF Feed, InText, ResumeEscape, InQuotes, QuoteInQuotes, ByteAfterQuotes, Separator, SwallowLF,
  BlankLine, RowEnd, ByteAfterNull, Ordinary, EscapeInChunk, EscapeAtEnd, CsvByte, OutsideQuotes,
  Plain, EndsLine, Backslash, LineEnds

\* A byte inside quotes.
LEMMA QuotedFed ==
  ASSUME Feed, csv, ~p.escape, p.state = "InQuoted"
  PROVE  InQuotes
BY DEF Feed, ResumeEscape, QuoteInQuotes, ByteAfterQuotes, Separator, SwallowLF,
  BlankLine, RowEnd, ByteAfterNull, OpenQuotes, Ordinary, EscapeInChunk, EscapeAtEnd, CsvByte,
  OutsideQuotes, Plain, EndsLine, Backslash

\* The second of two quotes.
LEMMA DoubledFed ==
  ASSUME Feed, csv, ~p.escape, p.state = "QuotePending", Byte = "quote"
  PROVE  QuoteInQuotes
BY DEF Feed, ResumeEscape, InQuotes, ByteAfterQuotes, Separator, SwallowLF,
  BlankLine, RowEnd, ByteAfterNull, OpenQuotes, Ordinary, EscapeInChunk, EscapeAtEnd, CsvByte,
  OutsideQuotes, Plain, EndsLine, Backslash, LineEnds

\* A separator behind a cell.
LEMMA SeparatorFed ==
  ASSUME Feed, ~p.escape, p.state # "InQuoted", Byte = "sep"
  PROVE  Separator
BY DEF Feed, ResumeEscape, InQuotes, QuoteInQuotes, ByteAfterQuotes, SwallowLF,
  BlankLine, RowEnd, ByteAfterNull, OpenQuotes, Ordinary, EscapeInChunk, EscapeAtEnd, CsvByte,
  OutsideQuotes, Plain, EndsLine, Backslash, LineEnds

\* The end of a line, and the line feed that belongs to it.
LEMMA LineEndFed ==
  ASSUME Feed, ~p.escape, p.state # "InQuoted", Byte \in LineEnds
  PROVE  IF Byte = "lf" /\ p.cr THEN SwallowLF ELSE IF AtRowStart(p) THEN BlankLine ELSE RowEnd
BY DEF Feed, ResumeEscape, InQuotes, QuoteInQuotes, ByteAfterQuotes, Separator, SwallowLF,
  BlankLine, RowEnd, ByteAfterNull, OpenQuotes, Ordinary, EscapeInChunk, EscapeAtEnd, CsvByte,
  OutsideQuotes, Plain, EndsLine, Backslash, LineEnds

------------------------------------------------------------------------------
(* Parsers. *)

\* What a byte makes of the parser.
LEMMA PutIs ==
  ASSUME p \in Parsers, InText, NEW b \in Bytes, p' = [[InCell(p) EXCEPT !.cr = FALSE] EXCEPT !.cell = Append(@, b)]
  PROVE  /\ p'.cell = Append(p.cell, b) /\ p'.state = "InCell"
         /\ p'.quoted = p.quoted /\ ~p'.null /\ p'.row = p.row /\ p'.headerSeen = p.headerSeen
         /\ ~p'.cr /\ ~p'.escape
BY DEF InCell, Parsers, InText

\* What a backslash at the end of a chunk makes of the parser.
LEMMA PendIs ==
  ASSUME p \in Parsers, InText, p' = [[InCell(p) EXCEPT !.cr = FALSE] EXCEPT !.escape = TRUE]
  PROVE  /\ p'.cell = p.cell /\ p'.state = "InCell"
         /\ p'.quoted = p.quoted /\ ~p'.null /\ p'.row = p.row /\ p'.headerSeen = p.headerSeen
         /\ ~p'.cr /\ p'.escape
BY DEF InCell, Parsers, InText

\* A letter after a backslash stands for what was escaped.
LEMMA LetterIs ==
  ASSUME NEW b \in DOMAIN TsvEscapes
  PROVE  TsvEscapes[b] \in Bytes /\ TsvEscapes[b] # "N" /\ Unescaped(TsvEscapes[b]) = b /\ b \in Bytes
BY DEF TsvEscapes, Unescaped, EscapeLetters, Bytes

\* What the byte after a backslash makes of the parser.
LEMMA DecodeIs ==
  ASSUME NEW q \in Parsers, NEW b \in Bytes, p' = decode_escape_byte(q, b)
  PROVE  /\ b # "N" => p'.cell = Append(q.cell, Unescaped(b)) /\ p'.null = q.null
         /\ b = "N" /\ q.cell = << >> => p'.cell = NullMarker /\ p'.null
         /\ p'.state = q.state /\ p'.quoted = q.quoted /\ p'.row = q.row /\ p'.headerSeen = q.headerSeen
         /\ p'.cr = q.cr /\ p'.escape = q.escape
<1>1. << >> \o NullMarker = NullMarker
  BY MarkerIsBytes, ConcatEmptySeq
<1> QED BY <1>1 DEF decode_escape_byte, Parsers

------------------------------------------------------------------------------
(* A byte of a cell. *)

\* The import reads what the export has written.
Follows == file \in Seq(Bytes) /\ Len(read) <= Len(file) /\ read = SubSeq(file, 1, Len(read))

\* The byte at hand is the first of what is left.
LEMMA ByteIs ==
  ASSUME TypeOK, Follows, pos < Len(read), NEW b \in Bytes, NEW w \in Seq(Bytes), Left = <<b>> ++ w
  PROVE  Byte = b /\ Rest(file, pos + 1) = w
<1>1. /\ Len(read) \in Nat /\ Len(file) \in Nat /\ pos \in Nat /\ pos \in 0 .. Len(file)
      /\ Len(read) \in 0 .. Len(file) /\ pos + 1 \in 1 .. Len(read)
  BY LenProperties DEF TypeOK, Follows
<1>2. file[pos + 1] = b /\ Rest(file, pos + 1) = w
  BY <1>1, NextIs DEF Left, Follows
<1>3. \A i \in 1 .. Len(read) : SubSeq(file, 1, Len(read))[i] = file[i]
  BY <1>1, PrefixIs DEF Follows
<1>4. read[pos + 1] = file[pos + 1]
  BY <1>1, <1>3 DEF Follows
<1> QED BY <1>2, <1>4 DEF Byte

\* So is the next one, where the chunk has it.
LEMMA SecondIs ==
  ASSUME TypeOK, Follows, pos + 1 < Len(read), NEW b \in Bytes, NEW c \in Bytes, NEW w \in Seq(Bytes),
         <<c>> ++ w \in Seq(Bytes), Left = <<b>> ++ (<<c>> ++ w)
  PROVE  read[pos + 2] = c /\ Rest(file, pos + 2) = w
<1>1. /\ Len(read) \in Nat /\ Len(file) \in Nat /\ pos \in Nat /\ pos + 1 \in 0 .. Len(file)
      /\ Len(read) \in 0 .. Len(file) /\ pos + 2 \in 1 .. Len(read) /\ pos < Len(read)
      /\ (pos + 1) + 1 = pos + 2
  BY LenProperties DEF TypeOK, Follows
<1> DEFINE x == <<c>> ++ w
<1>2. Rest(file, pos + 1) = x
  <2>1. x \in Seq(Bytes) /\ Left = <<b>> ++ x
    OBVIOUS
  <2> HIDE DEF x
  <2> QED BY <1>1, <2>1, ByteIs
<1>3. file[(pos + 1) + 1] = c /\ Rest(file, (pos + 1) + 1) = w
  BY <1>1, <1>2, NextIs DEF Follows
<1>4. \A i \in 1 .. Len(read) : SubSeq(file, 1, Len(read))[i] = file[i]
  BY <1>1, PrefixIs DEF Follows
<1>5. read[pos + 2] = file[pos + 2]
  BY <1>1, <1>4 DEF Follows
<1> QED BY <1>1, <1>3, <1>5

\* What a byte within a cell leaves as it is.
Stays ==
  /\ p'.row = p.row /\ p'.headerSeen = p.headerSeen /\ ~p'.cr
  /\ UNCHANGED <<job, read, cause, sendVars, phase, server>>

\* What has come of a value is one byte longer.
LEMMA PartGrows ==
  ASSUME NEW v \in Seq(Bytes), NEW i \in 0 .. Len(v), i < Len(v)
  PROVE  /\ i + 1 \in 0 .. Len(v) /\ i + 1 # 0 /\ v[i + 1] \in Bytes
         /\ SubSeq(v, 1, i + 1) = Append(SubSeq(v, 1, i), v[i + 1])
<1>1. Len(v) \in Nat /\ i \in Nat /\ i + 1 \in 1 .. Len(v)
  BY LenProperties
<1>2. v[i + 1] \in Bytes
  BY <1>1, LenProperties
<1>3. SubSeq(v, 1, i + 1) = Append(SubSeq(v, 1, i), v[i + 1])
  BY <1>1, PrefixGrows
<1> QED BY <1>1, <1>2, <1>3

\* A cell has begun with its first byte.
LEMMA BegunIs ==
  ASSUME NEW q, NEW i \in Nat, Begun(q, i)
  PROVE  q.state \in {"CellStart", "InCell"} /\ (i = 0 <=> q.state = "CellStart")
BY DEF Begun

\* The escapes of a value that are left.
LEMMA EscapesLeft ==
  ASSUME NEW v \in Seq(Bytes), NEW t \in Seq(Bytes), NEW i \in 0 .. Len(v), i < Len(v)
  PROVE  /\ From(EscapesOf(v), i + 1) \in Seq(Bytes) /\ From(EscapesOf(v), i + 1) ++ t \in Seq(Bytes)
         /\ v[i + 1] \notin DOMAIN TsvEscapes =>
              From(EscapesOf(v), i) ++ t = <<v[i + 1]>> ++ (From(EscapesOf(v), i + 1) ++ t)
         /\ v[i + 1] \in DOMAIN TsvEscapes =>
              /\ <<TsvEscapes[v[i + 1]]>> ++ (From(EscapesOf(v), i + 1) ++ t) \in Seq(Bytes)
              /\ From(EscapesOf(v), i) ++ t
                   = <<"bs">> ++ (<<TsvEscapes[v[i + 1]]>> ++ (From(EscapesOf(v), i + 1) ++ t))
<1> DEFINE b == v[i + 1]
<1> DEFINE x == From(EscapesOf(v), i + 1)
<1>1. Len(v) \in Nat /\ i + 1 \in 1 .. Len(v) /\ b \in Bytes
  BY PartGrows, LenProperties
<1>2. /\ EscapesOf(v) \in Seq(Seq(Bytes)) /\ Len(EscapesOf(v)) = Len(v)
      /\ EscapesOf(v)[i + 1] = IF b \in DOMAIN TsvEscapes THEN <<"bs", TsvEscapes[b]>> ELSE <<b>>
  BY <1>1, EscapesAreSeq
<1>3. x \in Seq(Bytes) /\ From(EscapesOf(v), i) = EscapesOf(v)[i + 1] ++ x
  <2>1. i \in 0 .. Len(EscapesOf(v)) /\ i < Len(EscapesOf(v))
    BY <1>2
  <2> QED BY <1>2, <2>1, FromNext
<1>4. "bs" \in Bytes
  BY DEF Bytes
<1> DEFINE f == From(EscapesOf(v), i)
<1> DEFINE l == TsvEscapes[b]
<1>5. b \in DOMAIN TsvEscapes => l \in Bytes /\ f = <<"bs", l>> ++ x
  BY <1>2, <1>3, LetterIs
<1>6. b \notin DOMAIN TsvEscapes => f = <<b>> ++ x
  BY <1>2, <1>3
<1>7. b \in DOMAIN TsvEscapes => <<TsvEscapes[b]>> = <<l>>
  OBVIOUS
<1> HIDE DEF b, x, f, l
<1>8. x ++ t \in Seq(Bytes)
  BY <1>3, JoinType
<1>9. b \notin DOMAIN TsvEscapes => f ++ t = <<b>> ++ (x ++ t)
  BY <1>1, <1>3, <1>6, OneThen
<1>10. b \in DOMAIN TsvEscapes => f ++ t = <<"bs">> ++ (<<l>> ++ (x ++ t)) /\ <<l>> ++ (x ++ t) \in Seq(Bytes)
  BY <1>3, <1>4, <1>5, TwoThen
<1> QED BY <1>3, <1>8, <1>9, <1>10 DEF b, x, f, l

\* TSV: within a value.
LEMMA TsvPlainFeeds ==
  ASSUME TypeOK, Follows, Feed, file' = file, ~csv, NEW v \in Seq(Bytes), NEW t \in Seq(Bytes),
         NEW i \in 0 .. Len(v), i < Len(v), TsvPlain(p, v, t, Left, i)
  PROVE  Stays /\ (TsvPlain(p', v, t, Left', i + 1) \/ TsvEscape(p', v, t, Left', i))
<1> DEFINE b == v[i + 1]
<1> DEFINE x == From(EscapesOf(v), i + 1) ++ t
<1>1. /\ i + 1 \in 0 .. Len(v) /\ i + 1 # 0 /\ b \in Bytes /\ i \in Nat
      /\ SubSeq(v, 1, i + 1) = Append(SubSeq(v, 1, i), b)
  BY PartGrows
<1>2. /\ InText /\ ~p.quoted /\ p \in Parsers /\ p.cell = SubSeq(v, 1, i) /\ Left = From(EscapesOf(v), i) ++ t
  BY <1>1, BegunIs DEF TsvPlain, Bare, InText, Part, TypeOK
<1>3. x \in Seq(Bytes)
  BY EscapesLeft
<1>4. pos < Len(read)
  BY DEF Feed, ResumeEscape, InQuotes, QuoteInQuotes, ByteAfterQuotes, Separator, SwallowLF,
    BlankLine, RowEnd, ByteAfterNull, OpenQuotes, EscapeInChunk, EscapeAtEnd, Ordinary, CsvByte, OutsideQuotes,
    Plain, EndsLine, Backslash, Parsing
<1>5. CASE b \notin DOMAIN TsvEscapes
  <2>1. Left = <<b>> ++ x
    BY <1>2, <1>5, EscapesLeft
  <2> HIDE DEF x
  <2>2. Byte = b /\ Rest(file, pos + 1) = x
    BY <1>1, <1>3, <1>4, <2>1, ByteIs
  <2>3. Ordinary
    BY <1>2, <1>5, <2>2, OrdinaryFed DEF TsvEscapes
  <2>4. /\ p' = [[InCell(p) EXCEPT !.cr = FALSE] EXCEPT !.cell = Append(@, b)] /\ pos' = pos + 1
        /\ UNCHANGED <<job, read, cause, sendVars, phase, server>>
    BY <2>2, <2>3 DEF Ordinary, Within, Consumes, Seen
  <2>5. /\ p'.cell = Append(p.cell, b) /\ p'.state = "InCell" /\ ~p'.quoted /\ ~p'.null /\ p'.row = p.row
        /\ p'.headerSeen = p.headerSeen /\ ~p'.cr /\ ~p'.escape
    BY <1>1, <1>2, <2>4, PutIs
  <2>6. Left' = x
    BY <2>2, <2>4 DEF Left
  <2>7. TsvPlain(p', v, t, Left', i + 1)
    BY <1>1, <1>2, <2>5, <2>6 DEF TsvPlain, Part, Begun, Bare, x
  <2> QED BY <2>4, <2>5, <2>7 DEF Stays
<1>6. CASE b \in DOMAIN TsvEscapes
  <2> DEFINE l == TsvEscapes[b]
  <2>1. Left = <<"bs">> ++ (<<l>> ++ x) /\ <<l>> ++ x \in Seq(Bytes)
    BY <1>2, <1>6, EscapesLeft
  <2>2. l \in Bytes /\ l # "N" /\ Unescaped(l) = b /\ "bs" \in Bytes
    BY <1>6, LetterIs DEF Bytes
  <2> HIDE DEF x, l
  <2>3. Byte = "bs" /\ Rest(file, pos + 1) = <<l>> ++ x
    BY <1>4, <2>1, <2>2, ByteIs
  <2>4. CASE EscapeInChunk
    <3>1. /\ pos + 1 < Len(read) /\ pos' = pos + 2 /\ p' = decode_escape_byte(Seen, read[pos + 2])
          /\ UNCHANGED <<job, read, cause, sendVars, phase, server>>
      BY <2>4 DEF EscapeInChunk, Consumes
    <3>2. read[pos + 2] = l /\ Rest(file, pos + 2) = x
      BY <1>3, <2>1, <2>2, <3>1, SecondIs
    <3> DEFINE s == [InCell(p) EXCEPT !.cr = FALSE]
    <3>3. Seen = s
      BY DEF Seen
    <3>4. /\ s \in Parsers /\ s.cell = p.cell /\ s.state = "InCell" /\ s.quoted = p.quoted /\ s.null = p.null
          /\ s.row = p.row /\ s.headerSeen = p.headerSeen /\ ~s.cr /\ s.escape = p.escape
      BY <1>2 DEF InText, InCell, Parsers, States
    <3> HIDE DEF s
    <3>5. p' = decode_escape_byte(s, l)
      BY <3>1, <3>2, <3>3
    <3>6. /\ p'.cell = Append(p.cell, b) /\ p'.state = "InCell" /\ ~p'.quoted /\ ~p'.null /\ p'.row = p.row
          /\ p'.headerSeen = p.headerSeen /\ ~p'.cr /\ ~p'.escape
      <4>1. /\ p'.cell = Append(s.cell, Unescaped(l)) /\ p'.null = s.null /\ p'.state = s.state
            /\ p'.quoted = s.quoted /\ p'.row = s.row /\ p'.headerSeen = s.headerSeen
            /\ p'.cr = s.cr /\ p'.escape = s.escape
        BY <2>2, <3>4, <3>5, DecodeIs
      <4> QED BY <1>2, <2>2, <3>4, <4>1 DEF InText
    <3>7. Left' = x
      BY <3>1, <3>2 DEF Left
    <3>8. TsvPlain(p', v, t, Left', i + 1)
      BY <1>1, <1>2, <3>6, <3>7 DEF TsvPlain, Part, Begun, Bare, x
    <3> QED BY <3>1, <3>6, <3>8 DEF Stays
  <2>5. CASE EscapeAtEnd
    <3>1. /\ p' = [[InCell(p) EXCEPT !.cr = FALSE] EXCEPT !.escape = TRUE] /\ pos' = pos + 1
          /\ UNCHANGED <<job, read, cause, sendVars, phase, server>>
      BY <2>5 DEF EscapeAtEnd, Within, Consumes, Seen
    <3>2. /\ p'.cell = p.cell /\ p'.state = "InCell" /\ ~p'.quoted /\ ~p'.null /\ p'.row = p.row
          /\ p'.headerSeen = p.headerSeen /\ ~p'.cr /\ p'.escape
      BY <1>2, <3>1, PendIs
    <3>3. Left' = <<l>> ++ x
      BY <2>3, <3>1 DEF Left
    <3>4. TsvEscape(p', v, t, Left', i)
      BY <1>1, <1>2, <1>6, <3>2, <3>3 DEF TsvEscape, Part, x, l
    <3> QED BY <3>1, <3>2, <3>4 DEF Stays
  <2> QED BY <1>2, <2>3, <2>4, <2>5, BackslashFed
<1> QED BY <1>5, <1>6

\* A byte is parsed while there is one and no batch waits.
LEMMA FeedParses ==
  ASSUME Feed
  PROVE  pos < Len(read) /\ phase = "reading" /\ ~BatchIsDue
BY DEF Feed, ResumeEscape, InQuotes, QuoteInQuotes, ByteAfterQuotes, Separator, SwallowLF,
    BlankLine, RowEnd, ByteAfterNull, OpenQuotes, EscapeInChunk, EscapeAtEnd, Ordinary, CsvByte, OutsideQuotes,
    Plain, EndsLine, Backslash, Parsing

\* TSV: the letter of an escape whose backslash ended a chunk.
LEMMA TsvEscapeFeeds ==
  ASSUME TypeOK, Follows, Feed, file' = file, ~p.cr, NEW v \in Seq(Bytes), NEW t \in Seq(Bytes),
         NEW i \in 0 .. Len(v), TsvEscape(p, v, t, Left, i)
  PROVE  Stays /\ i + 1 \in 0 .. Len(v) /\ TsvPlain(p', v, t, Left', i + 1)
<1> DEFINE b == v[i + 1]
<1> DEFINE l == TsvEscapes[b]
<1> DEFINE x == From(EscapesOf(v), i + 1) ++ t
<1>1. /\ i < Len(v) /\ p.cell = SubSeq(v, 1, i) /\ p.state = "InCell" /\ ~p.quoted /\ ~p.null /\ p.escape
      /\ b \in DOMAIN TsvEscapes /\ Left = <<l>> ++ x
  BY DEF TsvEscape, Part
<1>2. /\ i + 1 \in 0 .. Len(v) /\ i + 1 # 0 /\ b \in Bytes
      /\ SubSeq(v, 1, i + 1) = Append(SubSeq(v, 1, i), b)
  BY <1>1, PartGrows
<1>3. x \in Seq(Bytes)
  BY <1>1, EscapesLeft
<1>4. l \in Bytes /\ l # "N" /\ Unescaped(l) = b
  BY <1>1, LetterIs
<1>5. pos < Len(read)
  BY FeedParses
<1> HIDE DEF x, l
<1>6. Byte = l /\ Rest(file, pos + 1) = x
  BY <1>1, <1>3, <1>4, <1>5, ByteIs
<1>7. ResumeEscape
  BY <1>1, EscapeFed
<1> DEFINE s == [InCell(p) EXCEPT !.escape = FALSE]
<1>8. /\ p' = decode_escape_byte(s, l) /\ pos' = pos + 1
      /\ UNCHANGED <<job, read, cause, sendVars, phase, server>>
  BY <1>6, <1>7 DEF ResumeEscape, Within, Consumes
<1>9. /\ s \in Parsers /\ s.cell = p.cell /\ s.state = "InCell" /\ ~s.quoted /\ ~s.null
      /\ s.row = p.row /\ s.headerSeen = p.headerSeen /\ s.cr = p.cr /\ ~s.escape
  <2>1. p \in Parsers
    BY DEF TypeOK
  <2> QED BY <1>1, <2>1 DEF InCell, Parsers
<1> HIDE DEF s
<1>10. /\ p'.cell = Append(s.cell, Unescaped(l)) /\ p'.null = s.null /\ p'.state = s.state
       /\ p'.quoted = s.quoted /\ p'.row = s.row /\ p'.headerSeen = s.headerSeen
       /\ p'.cr = s.cr /\ p'.escape = s.escape
  BY <1>4, <1>8, <1>9, DecodeIs
<1>11. Left' = x
  BY <1>6, <1>8 DEF Left
<1>12. TsvPlain(p', v, t, Left', i + 1)
  BY <1>1, <1>2, <1>4, <1>9, <1>10, <1>11 DEF TsvPlain, Part, Begun, Bare, x
<1> QED BY <1>2, <1>8, <1>9, <1>10, <1>12 DEF Stays

\* TSV: the marker of NULL.
LEMMA TsvNullFeeds ==
  ASSUME TypeOK, Follows, Feed, file' = file, ~p.cr, ~csv, NEW t \in Seq(Bytes), TsvNull(p, t, Left)
  PROVE  \/ p.state = "InCell" /\ p.null /\ ~p.escape /\ Left = t
         \/ Stays /\ TsvNull(p', t, Left')
<1>1. p \in Parsers /\ "bs" \in Bytes /\ "N" \in Bytes /\ pos < Len(read)
  BY FeedParses DEF TypeOK, Bytes
<1> DEFINE x == <<"N">> ++ t
<1>2. x \in Seq(Bytes) /\ NullMarker ++ t = <<"bs">> ++ x
  <2> DEFINE e == << >>
  <2>1. e \in Seq(Bytes) /\ e ++ t = t /\ NullMarker ++ e = NullMarker
    BY EmptyIsSeq, MarkerIsBytes, JoinEmpty
  <2> HIDE DEF e
  <2>2. (<<"bs", "N">> ++ e) ++ t = <<"bs">> ++ (<<"N">> ++ (e ++ t)) /\ <<"N">> ++ (e ++ t) \in Seq(Bytes)
    BY <1>1, <2>1, TwoThen
  <2> QED BY <2>1, <2>2 DEF NullMarker
<1>3. CASE AtStart(p) /\ Left = NullMarker ++ t
  <2>1. p.state = "CellStart" /\ p.cell = << >> /\ ~p.quoted /\ ~p.null /\ ~p.escape /\ InText
    BY <1>3 DEF AtStart, InText
  <2>2. Left = <<"bs">> ++ x
    BY <1>2, <1>3
  <2> DEFINE xx == x
  <2> HIDE DEF xx
  <2>3. Byte = "bs" /\ Rest(file, pos + 1) = x
    <3> HIDE DEF x
    <3> QED BY <1>1, <1>2, <2>2, ByteIs
  <2>4. CASE EscapeInChunk
    <3>1. /\ pos + 1 < Len(read) /\ pos' = pos + 2 /\ p' = decode_escape_byte(Seen, read[pos + 2])
          /\ UNCHANGED <<job, read, cause, sendVars, phase, server>>
      BY <2>4 DEF EscapeInChunk, Consumes
    <3>2. read[pos + 2] = "N" /\ Rest(file, pos + 2) = t
      BY <1>1, <1>2, <2>2, <3>1, SecondIs
    <3> DEFINE s == [InCell(p) EXCEPT !.cr = FALSE]
    <3>3. Seen = s
      BY DEF Seen
    <3>4. /\ s \in Parsers /\ s.cell = << >> /\ s.state = "InCell" /\ ~s.quoted
          /\ s.row = p.row /\ s.headerSeen = p.headerSeen /\ ~s.cr /\ ~s.escape
      BY <1>1, <2>1 DEF InCell, Parsers, States
    <3> HIDE DEF s
    <3>5. p' = decode_escape_byte(s, "N")
      BY <3>1, <3>2, <3>3
    <3>6. /\ p'.cell = NullMarker /\ p'.null /\ p'.state = "InCell" /\ ~p'.quoted /\ p'.row = p.row
          /\ p'.headerSeen = p.headerSeen /\ ~p'.cr /\ ~p'.escape
      BY <1>1, <3>4, <3>5, DecodeIs
    <3>7. Left' = t
      BY <3>1, <3>2 DEF Left
    <3> QED BY <3>1, <3>6, <3>7 DEF Stays, TsvNull
  <2>5. CASE EscapeAtEnd
    <3>1. /\ p' = [[InCell(p) EXCEPT !.cr = FALSE] EXCEPT !.escape = TRUE] /\ pos' = pos + 1
          /\ UNCHANGED <<job, read, cause, sendVars, phase, server>>
      BY <2>5 DEF EscapeAtEnd, Within, Consumes, Seen
    <3>2. /\ p'.cell = p.cell /\ p'.state = "InCell" /\ ~p'.quoted /\ ~p'.null /\ p'.row = p.row
          /\ p'.headerSeen = p.headerSeen /\ ~p'.cr /\ p'.escape
      BY <1>1, <2>1, <3>1, PendIs
    <3>3. Left' = x
      BY <2>3, <3>1 DEF Left
    <3> QED BY <2>1, <3>1, <3>2, <3>3 DEF Stays, TsvNull
  <2> QED BY <2>1, <2>3, <2>4, <2>5, BackslashFed
<1>4. CASE /\ p.state = "InCell" /\ p.cell = << >> /\ ~p.quoted /\ ~p.null /\ p.escape
           /\ Left = <<"N">> ++ t
  <2>1. Byte = "N" /\ Rest(file, pos + 1) = t
    BY <1>1, <1>4, ByteIs
  <2>2. ResumeEscape
    BY <1>4, EscapeFed
  <2> DEFINE s == [InCell(p) EXCEPT !.escape = FALSE]
  <2>3. /\ p' = decode_escape_byte(s, "N") /\ pos' = pos + 1
        /\ UNCHANGED <<job, read, cause, sendVars, phase, server>>
    BY <2>1, <2>2 DEF ResumeEscape, Within, Consumes
  <2>4. /\ s \in Parsers /\ s.cell = << >> /\ s.state = "InCell" /\ ~s.quoted
        /\ s.row = p.row /\ s.headerSeen = p.headerSeen /\ s.cr = p.cr /\ ~s.escape
    BY <1>1, <1>4 DEF InCell, Parsers
  <2> HIDE DEF s
  <2>5. /\ p'.cell = NullMarker /\ p'.null /\ p'.state = "InCell" /\ ~p'.quoted /\ p'.row = p.row
        /\ p'.headerSeen = p.headerSeen /\ ~p'.cr /\ ~p'.escape
    BY <1>1, <2>3, <2>4, DecodeIs
  <2>6. Left' = t
    BY <2>1, <2>3 DEF Left
  <2> QED BY <2>3, <2>5, <2>6 DEF Stays, TsvNull
<1>5. CASE p.state = "InCell" /\ p.null /\ ~p.escape /\ Left = t
  BY <1>5
<1> QED BY <1>3, <1>4, <1>5 DEF TsvNull

\* CSV: within a cell that is not quoted.
LEMMA CsvPlainFeeds ==
  ASSUME TypeOK, Follows, Feed, file' = file, csv, NEW v \in Seq(Bytes), NEW t \in Seq(Bytes),
         \A j \in 1 .. Len(v) : v[j] \notin {"quote", "sep", "lf", "cr"},
         NEW i \in 0 .. Len(v), i < Len(v), CsvPlain(p, v, t, Left, i)
  PROVE  Stays /\ i + 1 \in 0 .. Len(v) /\ CsvPlain(p', v, t, Left', i + 1)
<1> DEFINE b == v[i + 1]
<1> DEFINE x == Rest(v, i + 1) ++ t
<1>1. /\ i + 1 \in 0 .. Len(v) /\ i + 1 # 0 /\ b \in Bytes /\ i \in Nat /\ i + 1 \in 1 .. Len(v)
      /\ SubSeq(v, 1, i + 1) = Append(SubSeq(v, 1, i), b)
  BY PartGrows, LenProperties
<1>2. /\ InText /\ ~p.quoted /\ p \in Parsers /\ p.cell = SubSeq(v, 1, i) /\ Left = Rest(v, i) ++ t
  BY <1>1, BegunIs DEF CsvPlain, Bare, InText, Part, TypeOK
<1>3. Left = <<b>> ++ x /\ x \in Seq(Bytes)
  <2>1. Rest(v, i + 1) \in Seq(Bytes) /\ Rest(v, i) = <<b>> ++ Rest(v, i + 1)
    BY RestStep
  <2> QED BY <1>1, <1>2, <2>1, OneThen
<1>4. b \notin {"quote", "sep", "lf", "cr"}
  BY <1>1
<1>5. pos < Len(read)
  BY FeedParses
<1> HIDE DEF x
<1>6. Byte = b /\ Rest(file, pos + 1) = x
  BY <1>1, <1>3, <1>5, ByteIs
<1>7. Ordinary
  BY <1>2, <1>4, <1>6, OrdinaryFed
<1>8. /\ p' = [[InCell(p) EXCEPT !.cr = FALSE] EXCEPT !.cell = Append(@, b)] /\ pos' = pos + 1
      /\ UNCHANGED <<job, read, cause, sendVars, phase, server>>
  BY <1>6, <1>7 DEF Ordinary, Within, Consumes, Seen
<1>9. /\ p'.cell = Append(p.cell, b) /\ p'.state = "InCell" /\ ~p'.quoted /\ ~p'.null /\ p'.row = p.row
      /\ p'.headerSeen = p.headerSeen /\ ~p'.cr /\ ~p'.escape
  BY <1>1, <1>2, <1>8, PutIs
<1>10. Left' = x
  BY <1>6, <1>8 DEF Left
<1>11. CsvPlain(p', v, t, Left', i + 1)
  BY <1>1, <1>2, <1>9, <1>10 DEF CsvPlain, Part, Begun, Bare, x
<1> QED BY <1>1, <1>8, <1>9, <1>11 DEF Stays

\* The bytes of a quoted value that are left.
LEMMA QuotesLeft ==
  ASSUME NEW v \in Seq(Bytes), NEW t \in Seq(Bytes), NEW i \in 0 .. Len(v), i < Len(v)
  PROVE  /\ From(QuotesOf(v), i + 1) ++ t \in Seq(Bytes)
         /\ v[i + 1] # "quote" =>
              From(QuotesOf(v), i) ++ t = <<v[i + 1]>> ++ (From(QuotesOf(v), i + 1) ++ t)
         /\ v[i + 1] = "quote" =>
              /\ <<"quote">> ++ (From(QuotesOf(v), i + 1) ++ t) \in Seq(Bytes)
              /\ From(QuotesOf(v), i) ++ t
                   = <<"quote">> ++ (<<"quote">> ++ (From(QuotesOf(v), i + 1) ++ t))
<1> DEFINE b == v[i + 1]
<1> DEFINE x == From(QuotesOf(v), i + 1)
<1> DEFINE f == From(QuotesOf(v), i)
<1>1. Len(v) \in Nat /\ i + 1 \in 1 .. Len(v) /\ b \in Bytes
  BY PartGrows, LenProperties
<1>2. /\ QuotesOf(v) \in Seq(Seq(Bytes)) /\ Len(QuotesOf(v)) = Len(v)
      /\ QuotesOf(v)[i + 1] = IF b = "quote" THEN <<"quote", "quote">> ELSE <<b>>
  BY <1>1, QuotesAreSeq
<1>3. x \in Seq(Bytes) /\ f = QuotesOf(v)[i + 1] ++ x
  <2>1. i \in 0 .. Len(QuotesOf(v)) /\ i < Len(QuotesOf(v))
    BY <1>2
  <2> QED BY <1>2, <2>1, FromNext
<1>4. "quote" \in Bytes
  BY DEF Bytes
<1> DEFINE l == "quote"
<1>5. b = l => f = <<l, l>> ++ x
  BY <1>2, <1>3
<1>6. b # l => f = <<b>> ++ x
  BY <1>2, <1>3
<1> HIDE DEF b, x, f
<1>8. x ++ t \in Seq(Bytes)
  BY <1>3, JoinType
<1>9. b # l => f ++ t = <<b>> ++ (x ++ t)
  BY <1>1, <1>3, <1>6, OneThen
<1>10. (<<l, l>> ++ x) ++ t = <<l>> ++ (<<l>> ++ (x ++ t)) /\ <<l>> ++ (x ++ t) \in Seq(Bytes)
  <2>1. l \in Bytes
    BY <1>4
  <2> HIDE DEF l
  <2> QED BY <1>3, <2>1, TwoThen
<1> QED BY <1>3, <1>5, <1>8, <1>9, <1>10 DEF b, x, f, l

\* CSV: the quote that opens a cell.
LEMMA CsvOpensFeeds ==
  ASSUME TypeOK, Follows, Feed, file' = file, csv, NEW v \in Seq(Bytes), NEW t \in Seq(Bytes),
         CsvOpens(p, v, t, Left)
  PROVE  Stays /\ CsvQuoted(p', v, t, Left', 0)
<1> DEFINE u == From(QuotesOf(v), 0)
<1> DEFINE q == <<"quote">>
<1> DEFINE x == u ++ (q ++ t)
<1>1. /\ p.state = "CellStart" /\ p.cell = << >> /\ ~p.quoted /\ ~p.null /\ ~p.escape /\ InText
      /\ p \in Parsers /\ Left = Quoted(v) ++ t /\ pos < Len(read) /\ "quote" \in Bytes
  BY FeedParses DEF CsvOpens, AtStart, InText, TypeOK, Bytes
<1>2. u \in Seq(Bytes) /\ q \in Seq(Bytes) /\ u = FlattenSeq(QuotesOf(v))
  <2>1. QuotesOf(v) \in Seq(Seq(Bytes)) /\ 0 \in 0 .. Len(QuotesOf(v))
    BY QuotesAreSeq, LenProperties
  <2> QED BY <1>1, <2>1, FromEnds
<1>3. Quoted(v) = (q ++ u) ++ q
  BY <1>2 DEF Quoted, QuotesOf, ++
<1> HIDE DEF u, q
<1>4. Left = q ++ x /\ x \in Seq(Bytes)
  BY <1>1, <1>2, <1>3, FourJoin
<1> HIDE DEF x
<1>5. Byte = "quote" /\ Rest(file, pos + 1) = x
  <2>1. Left = <<"quote">> ++ x
    BY <1>4 DEF q
  <2> QED BY <1>1, <1>4, <2>1, ByteIs
<1>6. OpenQuotes
  BY <1>1, <1>5, OpeningFed
<1>7. /\ p' = [p EXCEPT !.state = "InQuoted", !.quoted = TRUE, !.cr = FALSE] /\ pos' = pos + 1
      /\ UNCHANGED <<job, read, cause, sendVars, phase, server>>
  BY <1>6 DEF OpenQuotes, Within, Consumes
<1>8. /\ p'.state = "InQuoted" /\ p'.quoted /\ ~p'.cr /\ p'.cell = << >> /\ ~p'.null /\ ~p'.escape
      /\ p'.row = p.row /\ p'.headerSeen = p.headerSeen
  BY <1>1, <1>7 DEF Parsers
<1>9. Left' = x
  BY <1>5, <1>7 DEF Left
<1>10. 0 \in 0 .. Len(v) /\ SubSeq(v, 1, 0) = << >>
  BY LenProperties, SubSeqEmpty
<1>11. CsvQuoted(p', v, t, Left', 0)
  BY <1>8, <1>9, <1>10 DEF CsvQuoted, Part, x, u, q
<1> QED BY <1>7, <1>8, <1>11 DEF Stays

\* CSV: a byte of a quoted cell.
LEMMA CsvQuotedFeeds ==
  ASSUME TypeOK, Follows, Feed, file' = file, ~p.cr, csv, NEW v \in Seq(Bytes), NEW t \in Seq(Bytes),
         NEW i \in 0 .. Len(v), CsvQuoted(p, v, t, Left, i)
  PROVE  \/ p.state = "QuotePending" /\ i = Len(v) /\ Left = t
         \/ Stays /\ \E j \in 0 .. Len(v) : CsvQuoted(p', v, t, Left', j)
<1> DEFINE q == <<"quote">>
<1> DEFINE tt == q ++ t
<1> DEFINE x == From(QuotesOf(v), i + 1) ++ tt
<1>1. /\ p.cell = SubSeq(v, 1, i) /\ p.quoted /\ ~p.null /\ ~p.escape
      /\ p \in Parsers /\ pos < Len(read) /\ "quote" \in Bytes
  BY FeedParses DEF CsvQuoted, Part, TypeOK, Bytes
<1>2. q \in Seq(Bytes) /\ Len(v) \in Nat
  BY <1>1, LenProperties
<1>3. tt \in Seq(Bytes)
  <2> HIDE DEF q
  <2> QED BY <1>2, JoinType
<1>4. i < Len(v) => /\ i + 1 \in 0 .. Len(v) /\ v[i + 1] \in Bytes
                    /\ SubSeq(v, 1, i + 1) = Append(SubSeq(v, 1, i), v[i + 1])
  BY PartGrows
<1>5. i < Len(v) => /\ x \in Seq(Bytes) /\ (v[i + 1] # "quote" => From(QuotesOf(v), i) ++ tt = <<v[i + 1]>> ++ x)
                    /\ v[i + 1] = "quote" => From(QuotesOf(v), i) ++ tt = <<"quote">> ++ (<<"quote">> ++ x)
                                             /\ <<"quote">> ++ x \in Seq(Bytes)
  <2> HIDE DEF tt
  <2> QED BY <1>3, QuotesLeft
<1> HIDE DEF tt, x
<1>6. CASE p.state = "InQuoted" /\ Left = From(QuotesOf(v), i) ++ tt
  <2>1. InQuotes
    BY <1>1, <1>6, QuotedFed
  <2>2. /\ p' = (IF Byte = "quote" THEN [p EXCEPT !.state = "QuotePending"] ELSE [p EXCEPT !.cell = Append(@, Byte)])
        /\ pos' = pos + 1 /\ UNCHANGED <<job, read, cause, sendVars, phase, server>>
    BY <2>1 DEF InQuotes, Within, Consumes
  <2>3. CASE i = Len(v)
    <3>1. Left = tt
      <4>1. QuotesOf(v) \in Seq(Seq(Bytes)) /\ Len(QuotesOf(v)) = Len(v)
        BY QuotesAreSeq
      <4>2. From(QuotesOf(v), i) = << >>
        BY <2>3, <4>1, FromEnds
      <4> QED BY <1>3, <1>6, <4>2, JoinEmpty
    <3>2. Byte = "quote" /\ Rest(file, pos + 1) = t
      <4>1. Left = <<"quote">> ++ t
        BY <3>1 DEF tt
      <4> QED BY <1>1, <4>1, ByteIs
    <3>3. /\ p'.state = "QuotePending" /\ p'.quoted /\ ~p'.null /\ ~p'.escape /\ p'.cell = p.cell /\ ~p'.cr
          /\ p'.row = p.row /\ p'.headerSeen = p.headerSeen
      BY <1>1, <2>2, <3>2 DEF Parsers
    <3>4. Left' = t
      BY <2>2, <3>2 DEF Left
    <3>5. CsvQuoted(p', v, t, Left', i)
      BY <1>1, <2>3, <3>3, <3>4 DEF CsvQuoted, Part
    <3> QED BY <2>2, <3>3, <3>5 DEF Stays
  <2>4. CASE i < Len(v) /\ v[i + 1] # "quote"
    <3> DEFINE b == v[i + 1]
    <3>1. Byte = b /\ Rest(file, pos + 1) = x
      <4>1. b \in Bytes /\ x \in Seq(Bytes) /\ Left = <<b>> ++ x
        BY <1>4, <1>5, <1>6, <2>4
      <4> HIDE DEF b
      <4> QED BY <1>1, <4>1, ByteIs
    <3>2. /\ p'.state = "InQuoted" /\ p'.quoted /\ ~p'.null /\ ~p'.escape /\ p'.cell = Append(p.cell, b) /\ ~p'.cr
          /\ p'.row = p.row /\ p'.headerSeen = p.headerSeen
      BY <1>1, <1>6, <2>2, <2>4, <3>1 DEF Parsers
    <3>3. Left' = x
      BY <2>2, <3>1 DEF Left
    <3>4. CsvQuoted(p', v, t, Left', i + 1)
      BY <1>1, <1>4, <2>4, <3>2, <3>3 DEF CsvQuoted, Part, x, tt, q
    <3> QED BY <1>4, <2>2, <2>4, <3>2, <3>4 DEF Stays
  <2>5. CASE i < Len(v) /\ v[i + 1] = "quote"
    <3> DEFINE y == <<"quote">> ++ x
    <3>1. Byte = "quote" /\ Rest(file, pos + 1) = y
      <4>1. y \in Seq(Bytes) /\ Left = <<"quote">> ++ y
        BY <1>5, <1>6, <2>5
      <4> HIDE DEF y
      <4> QED BY <1>1, <4>1, ByteIs
    <3>2. /\ p'.state = "QuotePending" /\ p'.quoted /\ ~p'.null /\ ~p'.escape /\ p'.cell = p.cell /\ ~p'.cr
          /\ p'.row = p.row /\ p'.headerSeen = p.headerSeen
      BY <1>1, <2>2, <3>1 DEF Parsers
    <3>3. Left' = y
      BY <2>2, <3>1 DEF Left
    <3>4. CsvQuoted(p', v, t, Left', i)
      BY <1>1, <2>5, <3>2, <3>3 DEF CsvQuoted, Part, x, y, tt, q
    <3> QED BY <2>2, <3>2, <3>4 DEF Stays
  <2> QED BY <1>2, <2>3, <2>4, <2>5
<1>7. CASE p.state = "QuotePending" /\ i < Len(v) /\ v[i + 1] = "quote" /\ Left = <<"quote">> ++ x
  <2>1. Byte = "quote" /\ Rest(file, pos + 1) = x
    BY <1>1, <1>5, <1>7, ByteIs
  <2>2. QuoteInQuotes
    BY <1>1, <1>7, <2>1, DoubledFed
  <2>3. /\ p' = [p EXCEPT !.cell = Append(@, "quote"), !.state = "InQuoted"]
        /\ pos' = pos + 1 /\ UNCHANGED <<job, read, cause, sendVars, phase, server>>
    BY <2>2 DEF QuoteInQuotes, Within, Consumes
  <2>4. /\ p'.state = "InQuoted" /\ p'.quoted /\ ~p'.null /\ ~p'.escape /\ p'.cell = Append(p.cell, "quote") /\ ~p'.cr
        /\ p'.row = p.row /\ p'.headerSeen = p.headerSeen
    BY <1>1, <2>3 DEF Parsers
  <2>5. Left' = x
    BY <2>1, <2>3 DEF Left
  <2>6. CsvQuoted(p', v, t, Left', i + 1)
    BY <1>1, <1>4, <1>7, <2>4, <2>5 DEF CsvQuoted, Part, x, tt, q
  <2> QED BY <1>4, <1>7, <2>3, <2>4, <2>6 DEF Stays
<1>8. CASE p.state = "QuotePending" /\ i = Len(v) /\ Left = t
  BY <1>8
<1> QED BY <1>6, <1>7, <1>8 DEF CsvQuoted, x, tt, q

\* The text of a value is read to its end.
CellEnds(q, v, t, all) ==
  /\ all = t /\ ~q.escape /\ q.state # "InQuoted" /\ CellValue(q) = v
  /\ q.state = "CellStart" /\ q.cell = << >> <=> v = << >>
  /\ q.state = "CellStart" => ~q.quoted /\ ~q.null

\* Nothing of NULL needs quotes, nor of a value that has none.
LEMMA NothingQuoted ==
  ASSUME NEW v \in Cells, v = Null \/ ~NeedsQuoting(v)
  PROVE  LET w == IF v = Null THEN NullMarker ELSE v
         IN  w \in Seq(Bytes) /\ \A j \in 1 .. Len(w) : w[j] \notin {"quote", "sep", "lf", "cr"}
<1>1. CASE v = Null
  <2>1. Len(NullMarker) = 2 /\ NullMarker[1] = "bs" /\ NullMarker[2] = "N"
    BY DEF NullMarker
  <2>2. \A j \in 1 .. 2 : j = 1 \/ j = 2
    OBVIOUS
  <2> QED BY <1>1, <2>1, <2>2, MarkerIsBytes
<1>2. CASE v # Null
  <2>1. v \in Seq(Bytes) /\ ~NeedsQuoting(v)
    BY <1>2 DEF Cells
  <2>2. \A j \in 1 .. Len(v) : v[j] \in ToSet(v)
    BY <2>1, LenProperties DEF ToSet
  <2> QED BY <1>2, <2>1, <2>2 DEF NeedsQuoting
<1> QED BY <1>1, <1>2

\* A cell begins with its text in front of the parser.
LEMMA CellStarts ==
  ASSUME NEW q, AtStart(q), NEW v \in Cells, NEW t \in Seq(Bytes), NEW fmt
  PROVE  CellLeft(q, v, t, appendCellForStream(v, fmt) ++ t, fmt)
<1>1. /\ q.state = "CellStart" /\ q.cell = << >> /\ ~q.quoted /\ ~q.null /\ ~q.escape
  BY DEF AtStart
<1>2. CASE ~streamFormatIsCSV(fmt) /\ v = Null
  BY <1>2 DEF CellLeft, TsvNull, appendCellForStream
<1>3. CASE ~streamFormatIsCSV(fmt) /\ v # Null
  <2>1. v \in Seq(Bytes)
    BY <1>3 DEF Cells
  <2>2. 0 \in 0 .. Len(v) /\ SubSeq(v, 1, 0) = << >>
    BY <2>1, LenProperties, SubSeqEmpty
  <2>3. EscapesOf(v) \in Seq(Seq(Bytes))
    BY <2>1, EscapesAreSeq
  <2>4. appendCellForStream(v, fmt) = From(EscapesOf(v), 0)
    BY <1>3, <2>3, FromEnds DEF appendCellForStream, tsvAppendEscaped, EscapesOf
  <2>5. TsvPlain(q, v, t, appendCellForStream(v, fmt) ++ t, 0)
    BY <1>1, <2>2, <2>4 DEF TsvPlain, Part, Begun, Bare
  <2> QED BY <1>3, <2>2, <2>5 DEF CellLeft
<1>4. CASE streamFormatIsCSV(fmt) /\ (v = Null \/ ~NeedsQuoting(v))
  <2> DEFINE w == IF v = Null THEN NullMarker ELSE v
  <2>1. w \in Seq(Bytes) /\ appendCellForStream(v, fmt) = w
    BY <1>4, NothingQuoted DEF appendCellForStream, csvAppendEscaped
  <2> HIDE DEF w
  <2>2. 0 \in 0 .. Len(w) /\ SubSeq(w, 1, 0) = << >>
    BY <2>1, LenProperties, SubSeqEmpty
  <2>3. Rest(w, 0) = w
    BY <2>1, RestEnds
  <2>4. CsvPlain(q, w, t, appendCellForStream(v, fmt) ++ t, 0)
    BY <1>1, <2>1, <2>2, <2>3 DEF CsvPlain, Part, Begun, Bare
  <2> QED BY <1>4, <2>2, <2>4 DEF CellLeft, w
<1>5. CASE streamFormatIsCSV(fmt) /\ v # Null /\ NeedsQuoting(v)
  <2>1. appendCellForStream(v, fmt) = Quoted(v)
    BY <1>5 DEF appendCellForStream, csvAppendEscaped
  <2> QED BY <1>5, <2>1 DEF CellLeft, CsvOpens
<1> QED BY <1>2, <1>3, <1>4, <1>5

\* A value that is read is the value of the cell.
LEMMA WholeIs ==
  ASSUME NEW v \in Seq(Bytes)
  PROVE  SubSeq(v, 1, Len(v)) = v /\ (Len(v) = 0 <=> v = << >>) /\ Len(v) \in Nat /\ v # Null
<1>1. v # Null
  <2>1. Null[1] = "NULL" /\ 1 \in 1 .. Len(Null)
    BY DEF Null
  <2>2. "NULL" \notin Bytes
    BY DEF Bytes
  <2> QED BY <2>1, <2>2, LenProperties
<1>2. SubSeq(v, 1, Len(v)) = v
  BY SubSeqFull
<1> QED BY <1>1, <1>2, LenProperties

\* A byte of a cell either belongs to it or stands behind it.
LEMMA CellFeeds ==
  ASSUME TypeOK, Follows, Feed, file' = file, ~p.cr, NEW v \in Cells, NEW t \in Seq(Bytes),
         CellLeft(p, v, t, Left, job.fmt)
  PROVE  \/ CellEnds(p, v, t, Left)
         \/ Stays /\ CellLeft(p', v, t, Left', job.fmt)
<1>1. CASE ~csv /\ v = Null
  <2>1. TsvNull(p, t, Left)
    BY <1>1 DEF CellLeft, csv
  <2>2. Null # << >>
    BY DEF Null
  <2>3. ASSUME p.state = "InCell" /\ p.null /\ ~p.escape /\ Left = t PROVE CellEnds(p, v, t, Left)
    BY <1>1, <2>2, <2>3 DEF CellEnds, CellValue
  <2> QED BY <1>1, <2>1, <2>3, TsvNullFeeds DEF CellLeft, csv
<1>2. CASE ~csv /\ v # Null
  <2>1. v \in Seq(Bytes)
    BY <1>2 DEF Cells
  <2>2. PICK i \in 0 .. Len(v) : TsvPlain(p, v, t, Left, i) \/ TsvEscape(p, v, t, Left, i)
    BY <1>2 DEF CellLeft, csv
  <2>3. SubSeq(v, 1, Len(v)) = v /\ (Len(v) = 0 <=> v = << >>) /\ Len(v) \in Nat
    BY <2>1, WholeIs
  <2>4. CASE TsvEscape(p, v, t, Left, i)
    BY <1>2, <2>1, <2>4, TsvEscapeFeeds DEF CellLeft, csv
  <2>5. CASE TsvPlain(p, v, t, Left, i) /\ i < Len(v)
    <3>1. Stays /\ (TsvPlain(p', v, t, Left', i + 1) \/ TsvEscape(p', v, t, Left', i)) /\ i + 1 \in 0 .. Len(v)
      BY <1>2, <2>1, <2>5, TsvPlainFeeds, PartGrows
    <3> QED BY <1>2, <3>1 DEF CellLeft, csv
  <2>6. CASE TsvPlain(p, v, t, Left, i) /\ i = Len(v)
    <3>1. EscapesOf(v) \in Seq(Seq(Bytes)) /\ Len(EscapesOf(v)) = Len(v)
      BY <2>1, EscapesAreSeq
    <3>2. From(EscapesOf(v), i) = << >>
      BY <2>6, <3>1, FromEnds
    <3>3. Left = t
      BY <2>6, <3>2, JoinEmpty DEF TsvPlain
    <3>4. p.cell = v /\ ~p.null /\ ~p.escape /\ p.state = IF v = << >> THEN "CellStart" ELSE "InCell"
      BY <2>3, <2>6 DEF TsvPlain, Part, Begun, Bare
    <3>5. CellValue(p) = v
      BY <1>2, <3>4 DEF CellValue
    <3>6. p.state = "CellStart" /\ p.cell = << >> <=> v = << >>
      BY <3>4
    <3>7. p.state # "InQuoted" /\ ~p.quoted
      BY <2>6, <3>4 DEF TsvPlain, Bare
    <3> QED BY <3>3, <3>4, <3>5, <3>6, <3>7 DEF CellEnds
  <2>7. i < Len(v) \/ i = Len(v)
    BY <2>1, LenProperties
  <2> QED BY <2>2, <2>4, <2>5, <2>6, <2>7
<1>3. CASE csv /\ (v = Null \/ ~NeedsQuoting(v))
  <2> DEFINE w == IF v = Null THEN NullMarker ELSE v
  <2>1. w \in Seq(Bytes) /\ \A j \in 1 .. Len(w) : w[j] \notin {"quote", "sep", "lf", "cr"}
    BY <1>3, NothingQuoted
  <2>2. PICK i \in 0 .. Len(w) : CsvPlain(p, w, t, Left, i)
    BY <1>3 DEF CellLeft, csv
  <2>3. v = Null => w = NullMarker
    OBVIOUS
  <2>4. v # Null => w = v /\ w # NullMarker
    BY <1>3 DEF NeedsQuoting
  <2>5. ASSUME \E j \in 0 .. Len(w) : CsvPlain(p', w, t, Left', j)
        PROVE  CellLeft(p', v, t, Left', job.fmt)
    BY <1>3, <2>5 DEF CellLeft, csv
  <2> HIDE DEF w
  <2>6. SubSeq(w, 1, Len(w)) = w /\ (Len(w) = 0 <=> w = << >>) /\ Len(w) \in Nat
    BY <2>1, WholeIs
  <2>7. CASE i < Len(w)
    BY <1>3, <2>1, <2>2, <2>5, <2>7, CsvPlainFeeds
  <2>8. CASE i = Len(w)
    <3>1. Rest(w, i) = << >>
      BY <2>1, <2>8, RestEnds
    <3>2. Left = t
      BY <2>2, <3>1, JoinEmpty DEF CsvPlain
    <3>3. p.cell = w /\ ~p.quoted /\ ~p.null /\ ~p.escape /\ p.state = IF w = << >> THEN "CellStart" ELSE "InCell"
      BY <2>2, <2>6, <2>8 DEF CsvPlain, Part, Begun, Bare
    <3>4. NullMarker # << >> /\ Null # << >>
      BY DEF NullMarker, Null
    <3>5. CellValue(p) = v
      BY <1>3, <2>3, <2>4, <3>3 DEF CellValue
    <3>6. w = << >> <=> v = << >>
      BY <2>3, <2>4, <3>4
    <3>7. p.state # "InQuoted" /\ (p.state = "CellStart" /\ p.cell = << >> <=> v = << >>)
      BY <3>3, <3>6
    <3> QED BY <3>2, <3>3, <3>5, <3>7 DEF CellEnds
  <2>9. i < Len(w) \/ i = Len(w)
    BY <2>1, LenProperties
  <2> QED BY <2>7, <2>8, <2>9
<1>4. CASE csv /\ v # Null /\ NeedsQuoting(v)
  <2>1. v \in Seq(Bytes) /\ v # << >>
    <3>1. ToSet(<< >>) = {}
      BY DEF ToSet
    <3>2. << >> # NullMarker
      BY DEF NullMarker
    <3> QED BY <1>4, <3>1, <3>2 DEF Cells, NeedsQuoting
  <2>2. CASE CsvOpens(p, v, t, Left)
    <3>1. 0 \in 0 .. Len(v)
      BY <2>1, LenProperties
    <3> QED BY <1>4, <2>1, <2>2, <3>1, CsvOpensFeeds DEF CellLeft, csv
  <2>3. CASE \E i \in 0 .. Len(v) : CsvQuoted(p, v, t, Left, i)
    <3>1. PICK i \in 0 .. Len(v) : CsvQuoted(p, v, t, Left, i)
      BY <2>3
    <3>2. CASE p.state = "QuotePending" /\ i = Len(v) /\ Left = t
      <4>1. p.cell = v /\ p.quoted /\ ~p.null /\ ~p.escape
        BY <2>1, <3>1, <3>2, WholeIs DEF CsvQuoted, Part
      <4> QED BY <2>1, <3>2, <4>1 DEF CellEnds, CellValue
    <3>3. CASE Stays /\ \E j \in 0 .. Len(v) : CsvQuoted(p', v, t, Left', j)
      BY <1>4, <3>3 DEF CellLeft, csv
    <3> QED BY <1>4, <2>1, <3>1, <3>2, <3>3, CsvQuotedFeeds
  <2> QED BY <1>4, <2>2, <2>3 DEF CellLeft, csv
<1> QED BY <1>1, <1>2, <1>3, <1>4

------------------------------------------------------------------------------
(* Lines. *)

\* Every line has a cell per column; it is the header or a row that fits.
LinesAre ==
  /\ Lines \in Seq(Seq(Cells))
  /\ \A k \in 1 .. Len(Lines) :
       /\ Len(Lines[k]) = Len(job.names) /\ Len(Lines[k]) > 0
       /\ IF streamFormatHasHeader(job.fmt) /\ k = 1
          THEN Lines[k] = job.names /\ ~IsBlank(Lines[k]) ELSE Fits(Lines[k], job)

\* The header is a row, and no blank line.
LEMMA NamesAre ==
  ASSUME TypeOK
  PROVE  job.names \in Seq(Cells) /\ Len(job.names) \in Nat /\ Len(job.names) > 0 /\ ~IsBlank(job.names)
<1>1. job.names \in Seq(Seq(Bytes)) /\ Len(job.names) > 0 /\ \A c \in DOMAIN job.names : job.names[c] # << >>
  <2>1. job \in Jobs
    BY DEF TypeOK
  <2>2. JobAssumption
    BY JobsAreJobs
  <2>3. job.names \in Seq(Seq(Bytes)) /\ Len(job.names) > 0
    BY <2>1, <2>2 DEF JobAssumption
  <2>4. \A c \in DOMAIN job.names : job.names[c] # << >>
    BY <2>1, <2>2, Zenon DEF JobAssumption
  <2> QED BY <2>3, <2>4
<1>2. job.names \in Seq(Cells) /\ Len(job.names) \in Nat
  BY <1>1, LenProperties DEF Cells
<1>3. ~IsBlank(job.names)
  <2>1. SUFFICES ASSUME job.names = << << >> >> PROVE FALSE
    BY DEF IsBlank
  <2>2. 1 \in DOMAIN << << >> >> /\ << << >> >>[1] = << >>
    OBVIOUS
  <2> QED BY <1>1, <2>1, <2>2
<1> QED BY <1>1, <1>2, <1>3

\* The header has a cell per column, and so has every row that was exported.
LEMMA LinesType ==
  ASSUME TypeOK, ExportInv
  PROVE  LinesAre
<1>1. /\ exported \in Seq(Seq(Cells)) /\ exported \in Seq(ResultRows(job)) /\ (~header => exported = << >>)
  BY RowsAreCells DEF ExportInv, ExportType
<1>2. \A k \in 1 .. Len(exported) : Len(exported[k]) = Len(job.names) /\ Fits(exported[k], job)
  <2>1. \A k \in 1 .. Len(exported) : exported[k] \in ResultRows(job)
    BY <1>1, LenProperties
  <2> QED BY <2>1 DEF ResultRows, Fits
<1>3. job.names \in Seq(Cells) /\ Len(job.names) \in Nat /\ Len(job.names) > 0 /\ ~IsBlank(job.names)
  BY NamesAre
<1>4. CASE header /\ streamFormatHasHeader(job.fmt)
  <2> DEFINE S == Seq(Cells)
  <2> DEFINE n == job.names
  <2> DEFINE l == <<n>> \o exported
  <2>1. Lines = l
    BY <1>4 DEF Lines
  <2>2. n \in S /\ exported \in Seq(S) /\ Len(exported) \in Nat
    BY <1>1, <1>3, LenProperties
  <2> HIDE DEF S
  <2>3. /\ l \in Seq(S) /\ Len(l) = 1 + Len(exported) /\ l[1] = n
        /\ \A i \in 1 .. Len(exported) : l[i + 1] = exported[i]
    <3> HIDE DEF n
    <3> QED BY <2>2, ConsIs
  <2>4. \A k \in 1 .. Len(l) : k # 1 => k - 1 \in 1 .. Len(exported) /\ l[k] = exported[k - 1]
    <3> SUFFICES ASSUME NEW k \in 1 .. Len(l), k # 1
                 PROVE  k - 1 \in 1 .. Len(exported) /\ l[k] = exported[k - 1]
      OBVIOUS
    <3> HIDE DEF l
    <3>1. k - 1 \in 1 .. Len(exported) /\ (k - 1) + 1 = k
      BY <2>2, <2>3
    <3> QED BY <2>3, <3>1
  <2> HIDE DEF l
  <2>5. \A k \in 1 .. Len(l) :
          /\ Len(l[k]) = Len(job.names) /\ Len(l[k]) > 0
          /\ IF streamFormatHasHeader(job.fmt) /\ k = 1
             THEN l[k] = job.names /\ ~IsBlank(l[k]) ELSE Fits(l[k], job)
    BY <1>2, <1>3, <1>4, <2>3, <2>4
  <2> QED BY <2>1, <2>3, <2>5 DEF LinesAre, S
<1>5. CASE ~(header /\ streamFormatHasHeader(job.fmt))
  <2>1. Lines = exported
    BY <1>1, <1>5, ConcatEmptySeq DEF Lines
  <2>2. CASE exported = << >>
    BY <1>1, <2>1, <2>2 DEF LinesAre
  <2>3. CASE exported # << >>
    <3>1. ~streamFormatHasHeader(job.fmt)
      BY <1>1, <1>5, <2>3
    <3> QED BY <1>1, <1>2, <1>3, <2>1, <3>1 DEF LinesAre
  <2> QED BY <2>2, <2>3
<1> QED BY <1>4, <1>5

\* What the import takes of the lines.
LEMMA TakenIs ==
  ASSUME NEW lines \in Seq(Seq(Cells)), NEW fmt
  PROVE  /\ Taken(lines, fmt) \in Seq(Seq(Seq(Cells))) /\ Len(Taken(lines, fmt)) = Len(lines)
         /\ \A i \in 1 .. Len(lines) :
              Taken(lines, fmt)[i] = IF (streamFormatHasHeader(fmt) /\ i = 1) \/ IsBlank(lines[i])
                                     THEN << >> ELSE <<lines[i]>>
<1> DEFINE S == Seq(Cells)
<1>1. Len(lines) \in Nat /\ DOMAIN lines = 1 .. Len(lines) /\ \A i \in 1 .. Len(lines) : lines[i] \in S
  BY LenProperties
<1> HIDE DEF S
<1>2. Taken(lines, fmt) \in [1 .. Len(lines) -> Seq(S)]
  BY <1>1 DEF Taken
<1> QED BY <1>1, <1>2, FunctionIsSeq DEF Taken, S

\* One line more.
LEMMA LineTaken ==
  ASSUME NEW lines \in Seq(Seq(Cells)), NEW fmt, NEW k \in 0 .. Len(lines), k < Len(lines)
  PROVE  LET took(n) == FlattenSeq(SubSeq(Taken(lines, fmt), 1, n))
         IN  /\ took(k) \in Seq(Seq(Cells))
             /\ took(k + 1) = IF (streamFormatHasHeader(fmt) /\ k = 0) \/ IsBlank(lines[k + 1])
                              THEN took(k) ELSE Append(took(k), lines[k + 1])
<1> DEFINE T == Taken(lines, fmt)
<1> DEFINE S == Seq(Cells)
<1>1. Len(lines) \in Nat /\ k + 1 \in 1 .. Len(lines) /\ k \in Nat /\ lines[k + 1] \in S
  BY LenProperties
<1>2. /\ T \in Seq(Seq(S)) /\ Len(T) = Len(lines)
      /\ T[k + 1] = IF (streamFormatHasHeader(fmt) /\ k + 1 = 1) \/ IsBlank(lines[k + 1])
                    THEN << >> ELSE <<lines[k + 1]>>
  BY <1>1, TakenIs
<1> HIDE DEF T, S
<1> DEFINE B == SubSeq(T, 1, k)
<1> DEFINE x == T[k + 1]
<1>3. B \in Seq(Seq(S)) /\ SubSeq(T, 1, k + 1) = Append(B, x) /\ x \in Seq(S)
  <2>1. k \in 0 .. Len(T) /\ k < Len(T) /\ k + 1 \in 1 .. Len(T)
    BY <1>1, <1>2
  <2>2. SubSeq(T, 1, k + 1) = Append(B, x) /\ B \in Seq(Seq(S))
    <3> DEFINE SS == Seq(S)
    <3>1. T \in Seq(SS)
      BY <1>2
    <3> HIDE DEF SS
    <3>2. SubSeq(T, 1, k + 1) = Append(B, x) /\ B \in Seq(SS)
      BY <2>1, <3>1, PrefixGrows, PrefixIs
    <3> QED BY <3>2 DEF SS
  <2> QED BY <1>2, <2>1, <2>2, LenProperties
<1> HIDE DEF B
<1>4. FlattenSeq(Append(B, x)) = FlattenSeq(B) \o x /\ FlattenSeq(B) \in Seq(S)
  <2> HIDE DEF x
  <2> QED BY <1>3, FlattenAppend, FlattenType
<1> DEFINE f == FlattenSeq(B)
<1>5. f \in Seq(S) /\ FlattenSeq(SubSeq(T, 1, k + 1)) = f \o x
  BY <1>3, <1>4
<1>6. CASE (streamFormatHasHeader(fmt) /\ k = 0) \/ IsBlank(lines[k + 1])
  <2>1. x = << >>
    BY <1>1, <1>2, <1>6
  <2> HIDE DEF f, x
  <2>2. f \o x = f
    BY <1>5, <2>1, ConcatEmptySeq
  <2> QED BY <1>5, <1>6, <2>2 DEF f, T, S, B
<1>7. CASE ~((streamFormatHasHeader(fmt) /\ k = 0) \/ IsBlank(lines[k + 1]))
  <2> DEFINE l == lines[k + 1]
  <2>1. x = <<l>>
    BY <1>1, <1>2, <1>7
  <2>2. l \in S
    BY <1>1
  <2> HIDE DEF f, x, l
  <2>3. f \o x = Append(f, l)
    BY <1>5, <2>1, <2>2, AppendIsConcat
  <2> QED BY <1>5, <1>7, <2>3 DEF f, T, S, B, l
<1> QED BY <1>6, <1>7

\* The lines stay what they are while they are read.
LEMMA SameLines ==
  ASSUME UNCHANGED exportVars, job' = job
  PROVE  /\ Lines' = Lines /\ csv' = csv /\ file' = file
         /\ TextsOf(Lines, job.fmt)' = TextsOf(Lines, job.fmt)
         /\ \A k, c : Behind(Lines, job.fmt, k, c)' = Behind(Lines, job.fmt, k, c)
BY DEF exportVars, Lines, csv, Behind, TextsOf

\* A byte of a cell leaves the parser in the cell.
LEMMA CellByte ==
  ASSUME TypeOK, Follows, LinesAre, Feed, UNCHANGED exportVars, NEW k, NEW c, AtCell(k, c)
  PROVE  \/ CellEnds(p, Lines[k][c], Behind(Lines, job.fmt, k, c), Left)
         \/ AtCell(k, c)' /\ Stays
<1> DEFINE t == Behind(Lines, job.fmt, k, c)
<1> DEFINE v == Lines[k][c]
<1>1. k \in 1 .. Len(Lines) /\ c \in 1 .. Len(Lines[k]) /\ ~p.cr /\ p.row = SubSeq(Lines[k], 1, c - 1)
      /\ CellLeft(p, v, t, Left, job.fmt) /\ file' = file
  BY DEF AtCell, exportVars
<1>2. v \in Cells /\ t \in Seq(Bytes)
  BY <1>1, CellBehind DEF LinesAre
<1> HIDE DEF t, v
<1>3. CASE Stays /\ CellLeft(p', v, t, Left', job.fmt)
  <2>1. Lines' = Lines /\ job' = job /\ \A i, j : Behind(Lines, job.fmt, i, j)' = Behind(Lines, job.fmt, i, j)
    BY <1>3, SameLines DEF Stays
  <2>2. p'.row = p.row /\ ~p'.cr
    BY <1>3 DEF Stays
  <2>3. AtCell(k, c)'
    BY <1>1, <1>3, <2>1, <2>2 DEF AtCell, t, v
  <2> QED BY <1>3, <2>3
<1>4. CellEnds(p, v, t, Left) \/ (Stays /\ CellLeft(p', v, t, Left', job.fmt))
  BY <1>1, <1>2, CellFeeds
<1> QED BY <1>3, <1>4 DEF t, v

\* What finishCell makes of the parser.
LEMMA FinishedCellIs ==
  ASSUME NEW q \in Parsers
  PROVE  LET r == finishCell(q)
         IN  /\ r.row = Append(q.row, CellValue(q)) /\ r.cell = << >> /\ ~r.quoted /\ ~r.null
             /\ r.state = q.state /\ r.headerSeen = q.headerSeen /\ r.cr = q.cr /\ r.escape = q.escape
BY DEF finishCell, Parsers

\* What is left of a row is one cell more.
LEMMA RowGrows ==
  ASSUME LinesAre, NEW k, NEW c, AtCell(k, c),
         CellEnds(p, Lines[k][c], Behind(Lines, job.fmt, k, c), Left)
  PROVE  /\ c \in 1 .. Len(Lines[k]) /\ k \in 1 .. Len(Lines) /\ Lines[k] \in Seq(Cells)
         /\ Append(p.row, CellValue(p)) = SubSeq(Lines[k], 1, c)
         /\ ~p.cr /\ ~p.escape /\ p.state # "InQuoted" /\ Left = Behind(Lines, job.fmt, k, c)
<1>1. k \in 1 .. Len(Lines) /\ c \in 1 .. Len(Lines[k]) /\ ~p.cr /\ p.row = SubSeq(Lines[k], 1, c - 1)
  BY DEF AtCell
<1>2. Lines[k] \in Seq(Cells)
  BY <1>1, CellBehind DEF LinesAre
<1>3. c - 1 \in 0 .. Len(Lines[k]) /\ c - 1 < Len(Lines[k]) /\ (c - 1) + 1 = c
  BY <1>1, <1>2, LenProperties
<1>4. SubSeq(Lines[k], 1, (c - 1) + 1) = Append(SubSeq(Lines[k], 1, c - 1), Lines[k][(c - 1) + 1])
  BY <1>2, <1>3, PrefixGrows
<1> QED BY <1>1, <1>2, <1>3, <1>4 DEF CellEnds

\* A separator begins the next cell.
LEMMA CellSeparated ==
  ASSUME TypeOK, Follows, LinesAre, Feed, UNCHANGED exportVars, NEW k, NEW c, AtCell(k, c),
         CellEnds(p, Lines[k][c], Behind(Lines, job.fmt, k, c), Left), c < Len(Lines[k])
  PROVE  /\ AtCell(k, c + 1)' /\ c + 1 \in 1 .. Len(Lines[k]) /\ p'.headerSeen = p.headerSeen
         /\ UNCHANGED <<job, read, cause, sendVars, phase, server>>
<1>1. /\ c \in 1 .. Len(Lines[k]) /\ k \in 1 .. Len(Lines) /\ Lines[k] \in Seq(Cells)
      /\ Append(p.row, CellValue(p)) = SubSeq(Lines[k], 1, c)
      /\ ~p.cr /\ ~p.escape /\ p.state # "InQuoted" /\ Left = Behind(Lines, job.fmt, k, c)
  BY RowGrows
<1> DEFINE v == Lines[k][c + 1]
<1> DEFINE t == Behind(Lines, job.fmt, k, c + 1)
<1> DEFINE x == appendCellForStream(v, job.fmt) ++ t
<1>2. c + 1 \in 1 .. Len(Lines[k]) /\ v \in Cells /\ t \in Seq(Bytes) /\ Left = <<"sep">> ++ x
      /\ appendCellForStream(v, job.fmt) \in Seq(Bytes)
  BY <1>1, CellBehind DEF LinesAre
<1>3. x \in Seq(Bytes)
  <2> DEFINE a == appendCellForStream(v, job.fmt)
  <2>1. a \in Seq(Bytes) /\ x = a ++ t
    BY <1>2
  <2> HIDE DEF a, t, x
  <2> QED BY <1>2, <2>1, JoinType
<1> HIDE DEF x
<1>4. Byte = "sep" /\ Rest(file, pos + 1) = x
  <2>1. "sep" \in Bytes /\ pos < Len(read)
    BY FeedParses DEF Bytes
  <2> QED BY <1>2, <1>3, <2>1, ByteIs
<1>5. Separator
  BY <1>1, <1>4, SeparatorFed
<1> DEFINE r == finishCell(p)
<1>6. p' = [r EXCEPT !.state = "CellStart"] /\ pos' = pos + 1
      /\ UNCHANGED <<job, read, cause, sendVars, phase, server>>
  BY <1>5 DEF Separator, Within, Consumes
<1>7. /\ p'.row = SubSeq(Lines[k], 1, c) /\ p'.cell = << >> /\ ~p'.quoted /\ ~p'.null
      /\ p'.state = "CellStart" /\ p'.headerSeen = p.headerSeen /\ ~p'.cr /\ ~p'.escape
  BY <1>1, <1>6 DEF finishCell, Parsers, TypeOK
<1> HIDE DEF r
<1>8. Left' = x
  BY <1>4, <1>6 DEF Left, exportVars
<1>9. CellLeft(p', v, t, Left', job.fmt)
  <2>1. AtStart(p')
    BY <1>7 DEF AtStart
  <2> HIDE DEF v, t
  <2> QED BY <1>2, <1>8, <2>1, CellStarts DEF x
<1>10. Lines' = Lines /\ job' = job /\ Behind(Lines, job.fmt, k, c + 1)' = t
  BY <1>6, SameLines
<1>11. AtCell(k, c + 1)'
  <2>1. (c + 1) - 1 = c
    BY <1>1
  <2> QED BY <1>1, <1>2, <1>7, <1>9, <1>10, <2>1 DEF AtCell
<1> QED BY <1>2, <1>6, <1>7, <1>11

\* The byte that ends a line.
LEMMA LineEndByte ==
  ASSUME TypeOK, Follows, LinesAre, Feed, UNCHANGED exportVars, NEW k, NEW c, AtCell(k, c),
         CellEnds(p, Lines[k][c], Behind(Lines, job.fmt, k, c), Left), c = Len(Lines[k])
  PROVE  /\ Byte \in LineEnds /\ (Byte = "cr" <=> csv)
         /\ Rest(file, pos + 1) = (IF csv THEN <<"lf">> ++ From(TextsOf(Lines, job.fmt), k)
                                          ELSE From(TextsOf(Lines, job.fmt), k))
         /\ IF AtRowStart(p) THEN BlankLine ELSE RowEnd
         /\ Append(p.row, CellValue(p)) = Lines[k]
         /\ k \in 1 .. Len(Lines) /\ Lines[k] \in Seq(Cells)
         /\ AtRowStart(p) <=> IsBlank(Lines[k])
<1>1. /\ c \in 1 .. Len(Lines[k]) /\ k \in 1 .. Len(Lines) /\ Lines[k] \in Seq(Cells)
      /\ Append(p.row, CellValue(p)) = SubSeq(Lines[k], 1, c)
      /\ ~p.cr /\ ~p.escape /\ p.state # "InQuoted" /\ Left = Behind(Lines, job.fmt, k, c)
  BY RowGrows
<1> DEFINE z == From(TextsOf(Lines, job.fmt), k)
<1>2. Left = RowTerm(job.fmt) ++ z /\ z \in Seq(Bytes)
  BY <1>1, CellBehind DEF LinesAre
<1>3. "cr" \in Bytes /\ "lf" \in Bytes /\ pos < Len(read)
  BY FeedParses DEF Bytes
<1> HIDE DEF z
<1>4. /\ Byte \in LineEnds /\ (Byte = "cr" <=> csv)
      /\ Rest(file, pos + 1) = (IF csv THEN <<"lf">> ++ z ELSE z)
  <2>1. CASE csv
    <3>1. Left = <<"cr">> ++ (<<"lf">> ++ z) /\ <<"lf">> ++ z \in Seq(Bytes)
      <4> DEFINE a == "cr"
      <4> DEFINE b == "lf"
      <4> DEFINE e == << >>
      <4>1. a \in Bytes /\ b \in Bytes /\ e \in Seq(Bytes) /\ Left = <<a, b>> ++ z /\ <<a, b>> \in Seq(Bytes)
        BY <1>2, <1>3, <2>1, EmptyIsSeq, RowTermIsBytes DEF csv, RowTerm
      <4> HIDE DEF a, b
      <4>2. <<a, b>> ++ e = <<a, b>> /\ e ++ z = z
        BY <1>2, <4>1, JoinEmpty
      <4> HIDE DEF e
      <4>3. (<<a, b>> ++ e) ++ z = <<a>> ++ (<<b>> ++ (e ++ z)) /\ <<b>> ++ (e ++ z) \in Seq(Bytes)
        BY <1>2, <4>1, TwoThen
      <4> QED BY <4>1, <4>2, <4>3 DEF a, b
    <3> DEFINE y == <<"lf">> ++ z
    <3> HIDE DEF y
    <3>2. Byte = "cr" /\ Rest(file, pos + 1) = y
      <4>1. Left = <<"cr">> ++ y /\ y \in Seq(Bytes)
        BY <3>1 DEF y
      <4> QED BY <1>3, <4>1, ByteIs
    <3> QED BY <2>1, <3>2 DEF y, LineEnds, csv, streamFormatIsCSV
  <2>2. CASE ~csv
    <3>1. Left = <<"lf">> ++ z
      BY <1>2, <2>2 DEF csv, RowTerm
    <3>2. Byte = "lf" /\ Rest(file, pos + 1) = z
      BY <1>2, <1>3, <3>1, ByteIs
    <3> QED BY <2>2, <3>2 DEF LineEnds, csv, streamFormatIsCSV
  <2> QED BY <2>1, <2>2
<1>5. IF AtRowStart(p) THEN BlankLine ELSE RowEnd
  BY <1>1, <1>4, LineEndFed
<1>6. Append(p.row, CellValue(p)) = Lines[k]
  BY <1>1, SubSeqFull
<1>7. AtRowStart(p) <=> IsBlank(Lines[k])
  <2> DEFINE v == Lines[k][c]
  <2>1. v = CellValue(p) /\ (p.state = "CellStart" /\ p.cell = << >> <=> v = << >>)
    BY DEF CellEnds
  <2>2. p.row \in Seq(Cells)
    BY DEF TypeOK, Parsers
  <2>3. ASSUME AtRowStart(p) PROVE IsBlank(Lines[k])
    <3>1. p.row = << >> /\ v = << >>
      BY <2>1, <2>3 DEF AtRowStart
    <3>2. Lines[k] = Append(<< >>, << >>)
      BY <1>6, <2>1, <3>1
    <3>3. Append(<< >>, << >>) = << << >> >>
      OBVIOUS
    <3> QED BY <3>2, <3>3 DEF IsBlank
  <2>4. ASSUME IsBlank(Lines[k]) PROVE AtRowStart(p)
    <3>1. Lines[k] = << << >> >>
      BY <2>4 DEF IsBlank
    <3>2. Len(Lines[k]) = 1 /\ Lines[k][1] = << >>
      BY <3>1
    <3>3. v = << >> /\ c = 1
      BY <1>1, <3>2
    <3>4. p.row = << >>
      <4>1. p.row = SubSeq(Lines[k], 1, 0)
        BY <3>3 DEF AtCell
      <4> QED BY <1>1, <4>1, LenProperties, PrefixIs
    <3> QED BY <2>1, <3>3, <3>4 DEF AtRowStart
  <2> QED BY <2>3, <2>4
<1> QED BY <1>1, <1>4, <1>5, <1>6, <1>7 DEF z

\* What is appended to the second of two sequences is behind both.
LEMMA AppendOfJoined ==
  ASSUME NEW A, NEW s \in Seq(A), NEW r \in Seq(A), NEW x \in A
  PROVE  s \o Append(r, x) = Append(s \o r, x)
<1>1. Append(r, x) = r \o <<x>> /\ <<x>> \in Seq(A)
  BY AppendIsConcat
<1> DEFINE e == <<x>>
<1>2. e \in Seq(A) /\ s \o r \in Seq(A)
  BY <1>1
<1>3. Append(s \o r, x) = (s \o r) \o e
  BY <1>2, AppendIsConcat
<1> HIDE DEF e
<1>4. s \o (r \o e) = (s \o r) \o e
  BY <1>2, ConcatAssociative, SMTT(30)
<1> QED BY <1>1, <1>3, <1>4 DEF e

\* The end of a line takes its row, if there is one to take.
LEMMA LineDone ==
  ASSUME TypeOK, Follows, LinesAre, Feed, UNCHANGED exportVars,
         NEW k \in 0 .. Len(Lines), k < Len(Lines), NEW c, AtCell(k + 1, c),
         CellEnds(p, Lines[k + 1][c], Behind(Lines, job.fmt, k + 1, c), Left), c = Len(Lines[k + 1]),
         Done(k)
  PROVE  Between(k + 1)' /\ Done(k + 1)' /\ UNCHANGED <<job, read, cause, phase>>
<1> DEFINE l == Lines[k + 1]
<1> DEFINE z == From(TextsOf(Lines, job.fmt), k + 1)
<1> DEFINE took(n) == FlattenSeq(SubSeq(Taken(Lines, job.fmt), 1, n))
<1>1. /\ Byte \in LineEnds /\ (Byte = "cr" <=> csv)
      /\ Rest(file, pos + 1) = (IF csv THEN <<"lf">> ++ z ELSE z)
      /\ IF AtRowStart(p) THEN BlankLine ELSE RowEnd
      /\ Append(p.row, CellValue(p)) = l
      /\ k + 1 \in 1 .. Len(Lines) /\ l \in Seq(Cells)
      /\ AtRowStart(p) <=> IsBlank(l)
  BY LineEndByte
<1>2. /\ took(k) \in Seq(Seq(Cells))
      /\ took(k + 1) = IF (streamFormatHasHeader(job.fmt) /\ k = 0) \/ IsBlank(l)
                       THEN took(k) ELSE Append(took(k), l)
  BY LineTaken DEF LinesAre
<1>3. /\ sent \o batch = took(k)
      /\ streamFormatHasHeader(job.fmt) => (p.headerSeen <=> k > 0)
  BY DEF Done
<1>4. /\ p \in Parsers /\ batch \in Seq(Rows(job)) /\ sent \in Seq(Rows(job)) /\ k \in Nat
  BY LenProperties DEF TypeOK, LinesAre
<1>5. /\ Len(l) = Len(job.names)
      /\ IF streamFormatHasHeader(job.fmt) /\ k = 0 THEN l = job.names /\ ~IsBlank(l) ELSE Fits(l, job)
  <2>1. k + 1 = 1 <=> k = 0
    BY <1>4
  <2> QED BY <1>1, <2>1 DEF LinesAre
<1>6. ~p.escape /\ (p.state = "CellStart" => ~p.quoted /\ ~p.null)
  BY DEF CellEnds
<1> HIDE DEF took, z, l
<1>7. ASSUME p'.state = "CellStart" /\ p'.cell = << >> /\ ~p'.quoted /\ ~p'.null /\ ~p'.escape,
             p'.row = << >>, p'.cr = (Byte = "cr"), pos' = pos + 1, job' = job
      PROVE  Between(k + 1)'
  <2>1. Left' = IF csv THEN <<"lf">> ++ z ELSE z
    BY <1>1, <1>7 DEF Left, exportVars
  <2>2. TextsOf(Lines, job.fmt)' = TextsOf(Lines, job.fmt) /\ csv' = csv
    BY <1>7, SameLines
  <2>3. From(TextsOf(Lines, job.fmt), k + 1)' = z
    BY <2>2 DEF z, From
  <2> QED BY <1>1, <1>7, <2>1, <2>2, <2>3 DEF Between, AtStart
<1>8. ASSUME sent' \o batch' = took(k + 1), job' = job,
             streamFormatHasHeader(job.fmt) => p'.headerSeen
      PROVE  Done(k + 1)'
  <2>1. Lines' = Lines /\ k + 1 > 0
    BY <1>4, <1>8, SameLines
  <2>2. took(k + 1) = FlattenSeq(SubSeq(Taken(Lines', job'.fmt), 1, k + 1))
    BY <1>8, <2>1 DEF took
  <2> QED BY <1>8, <2>1, <2>2 DEF Done
<1>9. CASE AtRowStart(p)
  <2>1. BlankLine
    BY <1>1, <1>9
  <2>2. p' = [p EXCEPT !.cr = (Byte = "cr")] /\ pos' = pos + 1
        /\ UNCHANGED <<job, read, cause, sendVars, phase, server>>
    BY <2>1 DEF BlankLine, Within, Consumes
  <2>3. /\ p'.state = "CellStart" /\ p'.cell = << >> /\ ~p'.quoted /\ ~p'.null /\ ~p'.escape
        /\ p'.row = << >> /\ p'.cr = (Byte = "cr") /\ p'.headerSeen = p.headerSeen
    BY <1>4, <1>6, <1>9, <2>2 DEF AtRowStart, Parsers
  <2>4. Between(k + 1)'
    BY <1>7, <2>2, <2>3
  <2>5. IsBlank(l) /\ took(k + 1) = took(k)
    BY <1>1, <1>2, <1>9
  <2>6. streamFormatHasHeader(job.fmt) => p.headerSeen
    BY <1>3, <1>4, <1>5, <2>5
  <2>7. sent' \o batch' = took(k + 1)
    BY <1>3, <2>2, <2>5 DEF sendVars
  <2>8. Done(k + 1)'
    BY <1>8, <2>2, <2>3, <2>6, <2>7
  <2> QED BY <2>2, <2>4, <2>8
<1>10. CASE ~AtRowStart(p)
  <2> DEFINE q == finishCell([p EXCEPT !.cr = (Byte = "cr")])
  <2>1. RowEnd
    BY <1>1, <1>10
  <2>2. finishRow(q, "reading") /\ pos' = pos + 1 /\ UNCHANGED <<job, read, dirty, sentAny, sent, server>>
        /\ phase = "reading"
    BY <2>1 DEF RowEnd, Consumes, EndsLine, OutsideQuotes, Parsing
  <2>3. /\ q.row = l /\ q.cell = << >> /\ ~q.quoted /\ ~q.null /\ q.cr = (Byte = "cr") /\ ~q.escape
        /\ q.headerSeen = p.headerSeen /\ q \in Parsers
    <3> DEFINE r == [p EXCEPT !.cr = (Byte = "cr")]
    <3>1. /\ r \in Parsers /\ r.row = p.row /\ r.cell = p.cell /\ r.null = p.null /\ r.quoted = p.quoted
          /\ r.cr = (Byte = "cr") /\ ~r.escape /\ r.headerSeen = p.headerSeen
      BY <1>4, <1>6 DEF Parsers
    <3>2. CellValue(r) = CellValue(p)
      BY <3>1 DEF CellValue
    <3> HIDE DEF r
    <3>3. /\ finishCell(r).row = Append(r.row, CellValue(r)) /\ finishCell(r).cell = << >>
          /\ ~finishCell(r).quoted /\ ~finishCell(r).null
          /\ finishCell(r).headerSeen = r.headerSeen /\ finishCell(r).cr = r.cr
          /\ finishCell(r).escape = r.escape /\ finishCell(r) \in Parsers
      BY <3>1, FinishedCellIs, FinishCellType
    <3>4. q = finishCell(r)
      BY DEF r
    <3> HIDE DEF q
    <3> QED BY <1>1, <3>1, <3>2, <3>3, <3>4
  <2> HIDE DEF q
  <2>4. IsHeader(q) <=> streamFormatHasHeader(job.fmt) /\ k = 0
    BY <1>3, <1>4, <2>3 DEF IsHeader, streamFormatHasHeader
  <2>5. RowIsTaken(q)
    BY <1>5, <2>3, <2>4 DEF RowIsTaken, Fits, acceptsNullCell
  <2>6. /\ p' = [q EXCEPT !.row = << >>, !.state = "CellStart", !.headerSeen = @ \/ IsHeader(q)]
        /\ batch' = IF IsHeader(q) THEN batch ELSE Append(batch, q.row)
        /\ phase' = "reading" /\ cause' = cause
    BY <2>2, <2>5 DEF finishRow
  <2>7. /\ p'.state = "CellStart" /\ p'.cell = << >> /\ ~p'.quoted /\ ~p'.null /\ ~p'.escape
        /\ p'.row = << >> /\ p'.cr = (Byte = "cr") /\ (p'.headerSeen <=> q.headerSeen \/ IsHeader(q))
    BY <2>3, <2>6 DEF Parsers
  <2>8. Between(k + 1)'
    BY <1>7, <2>2, <2>7
  <2>9. streamFormatHasHeader(job.fmt) => p'.headerSeen
    BY <1>3, <1>4, <2>3, <2>4, <2>7
  <2>10. sent' \o batch' = took(k + 1)
    <3>1. CASE IsHeader(q)
      BY <1>2, <1>3, <2>2, <2>4, <2>6, <3>1
    <3>2. CASE ~IsHeader(q)
      <4>1. took(k + 1) = Append(sent \o batch, l)
        BY <1>1, <1>2, <1>3, <1>10, <2>4, <3>2
      <4>2. l \in Rows(job)
        BY <1>1, <1>5 DEF Rows
      <4>3. sent \o Append(batch, l) = Append(sent \o batch, l)
        BY <1>4, <4>2, AppendOfJoined
      <4> QED BY <2>2, <2>3, <2>6, <3>2, <4>1, <4>3
    <3> QED BY <3>1, <3>2
  <2>11. Done(k + 1)'
    BY <1>8, <2>2, <2>9, <2>10
  <2> QED BY <2>2, <2>6, <2>8, <2>11
<1> QED BY <1>9, <1>10

\* What is done stays done.
LEMMA DoneStays ==
  ASSUME NEW k, Done(k), UNCHANGED exportVars, job' = job, sent' \o batch' = sent \o batch,
         p'.headerSeen = p.headerSeen
  PROVE  Done(k)'
BY SameLines DEF Done

\* Where one line ends the next begins, if there is one.
LEMMA LineBegins ==
  ASSUME LinesAre, NEW k \in 0 .. Len(Lines), k < Len(Lines), Between(k), ~p.cr
  PROVE  AtCell(k + 1, 1)
<1> DEFINE v == Lines[k + 1][1]
<1> DEFINE t == Behind(Lines, job.fmt, k + 1, 1)
<1>1. Len(Lines) \in Nat /\ k + 1 \in 1 .. Len(Lines) /\ Len(Lines[k + 1]) > 0
  BY LenProperties DEF LinesAre
<1>2. /\ Lines[k + 1] \in Seq(Cells) /\ v \in Cells /\ t \in Seq(Bytes)
      /\ From(TextsOf(Lines, job.fmt), k) = appendCellForStream(v, job.fmt) ++ t
  BY <1>1, LineText DEF LinesAre
<1>3. AtStart(p) /\ p.row = << >> /\ Left = appendCellForStream(v, job.fmt) ++ t
  BY <1>2 DEF Between
<1> HIDE DEF v, t
<1>4. CellLeft(p, v, t, Left, job.fmt)
  BY <1>2, <1>3, CellStarts
<1>5. SubSeq(Lines[k + 1], 1, 1 - 1) = << >> /\ 1 \in 1 .. Len(Lines[k + 1])
  <2>1. Len(Lines[k + 1]) \in Nat /\ 1 - 1 = 0 /\ 0 \in 0 .. Len(Lines[k + 1])
    BY <1>1, <1>2, LenProperties
  <2>2. SubSeq(Lines[k + 1], 1, 0) = << >>
    BY <1>2, <2>1, PrefixIs
  <2> QED BY <1>1, <2>1, <2>2
<1> QED BY <1>1, <1>3, <1>4, <1>5 DEF AtCell, v, t

\* A byte within a line.
LEMMA LineByte ==
  ASSUME TypeOK, Follows, LinesAre, Feed, UNCHANGED exportVars,
         NEW k \in 0 .. Len(Lines), NEW c, AtCell(k + 1, c), Done(k)
  PROVE  (\E m \in 0 .. Len(Lines) : Reads(m)') /\ UNCHANGED <<job, read, cause, phase>>
<1> DEFINE t == Behind(Lines, job.fmt, k + 1, c)
<1> DEFINE v == Lines[k + 1][c]
<1>1. /\ Len(Lines) \in Nat /\ k + 1 \in 1 .. Len(Lines) /\ k < Len(Lines) /\ k + 1 \in 0 .. Len(Lines)
      /\ c \in 1 .. Len(Lines[k + 1]) /\ Len(Lines[k + 1]) = Len(job.names)
  BY LenProperties DEF AtCell, LinesAre
<1>2. CASE AtCell(k + 1, c)' /\ Stays
  <2>1. p'.headerSeen = p.headerSeen /\ job' = job /\ sent' \o batch' = sent \o batch
    BY <1>2 DEF Stays, sendVars
  <2>2. Done(k)'
    BY <2>1, DoneStays
  <2> QED BY <1>1, <1>2, <2>1, <2>2 DEF Stays, Reads
<1>3. CASE CellEnds(p, v, t, Left) /\ c < Len(Lines[k + 1])
  <2>1. /\ AtCell(k + 1, c + 1)' /\ c + 1 \in 1 .. Len(Lines[k + 1]) /\ p'.headerSeen = p.headerSeen
        /\ UNCHANGED <<job, read, cause, sendVars, phase, server>>
    BY <1>3, CellSeparated
  <2>2. Done(k)'
    BY <2>1, DoneStays DEF sendVars
  <2> QED BY <1>1, <2>1, <2>2 DEF Reads
<1>4. CASE CellEnds(p, v, t, Left) /\ c = Len(Lines[k + 1])
  <2>1. Between(k + 1)' /\ Done(k + 1)' /\ UNCHANGED <<job, read, cause, phase>>
    BY <1>1, <1>4, LineDone
  <2> QED BY <1>1, <2>1 DEF Reads
<1>5. CellEnds(p, v, t, Left) \/ (AtCell(k + 1, c)' /\ Stays)
  BY CellByte
<1>6. c < Len(Lines[k + 1]) \/ c = Len(Lines[k + 1])
  <2>1. Len(Lines[k + 1]) \in Nat
    BY <1>1, NamesAre
  <2> QED BY <1>1, <2>1
<1> QED BY <1>2, <1>3, <1>4, <1>5, <1>6

\* The line feed of a line that ended with the carriage return.
LEMMA LineFeedByte ==
  ASSUME TypeOK, Follows, LinesAre, Feed, UNCHANGED exportVars,
         NEW k \in 0 .. Len(Lines), Between(k), p.cr, Done(k)
  PROVE  Reads(k)' /\ UNCHANGED <<job, read, cause, phase>>
<1> DEFINE z == From(TextsOf(Lines, job.fmt), k)
<1>1. AtStart(p) /\ p.row = << >> /\ csv /\ Left = <<"lf">> ++ z
  BY DEF Between
<1>2. z \in Seq(Bytes)
  <2>1. TextsOf(Lines, job.fmt) \in Seq(Seq(Bytes)) /\ Len(TextsOf(Lines, job.fmt)) = Len(Lines)
    BY TextsAreSeq DEF LinesAre
  <2> QED BY <2>1, FromEnds
<1> HIDE DEF z
<1>3. Byte = "lf" /\ Rest(file, pos + 1) = z
  <2>1. "lf" \in Bytes /\ pos < Len(read)
    BY FeedParses DEF Bytes
  <2> QED BY <1>1, <1>2, <2>1, ByteIs
<1>4. SwallowLF
  <2>1. ~p.escape /\ p.state # "InQuoted" /\ Byte \in LineEnds
    BY <1>1, <1>3 DEF AtStart, LineEnds
  <2> QED BY <1>3, <2>1, LineEndFed
<1>5. p' = [p EXCEPT !.cr = FALSE] /\ pos' = pos + 1
      /\ UNCHANGED <<job, read, cause, sendVars, phase, server>>
  BY <1>4 DEF SwallowLF, Within, Consumes
<1>6. /\ AtStart(p') /\ p'.row = << >> /\ ~p'.cr /\ p'.headerSeen = p.headerSeen
  BY <1>1, <1>5 DEF AtStart, Parsers, TypeOK
<1>7. Left' = z
  BY <1>3, <1>5 DEF Left, exportVars
<1>8. From(TextsOf(Lines, job.fmt), k)' = z
  <2>1. TextsOf(Lines, job.fmt)' = TextsOf(Lines, job.fmt)
    BY <1>5, SameLines
  <2> QED BY <2>1 DEF z, From
<1>9. Between(k)'
  BY <1>6, <1>7, <1>8 DEF Between
<1>10. Done(k)'
  BY <1>5, <1>6, DoneStays DEF sendVars
<1> QED BY <1>5, <1>9, <1>10 DEF Reads

\* Nothing is left behind the last line.
LEMMA NothingLeft ==
  ASSUME LinesAre, NEW k \in 0 .. Len(Lines), k = Len(Lines)
  PROVE  From(TextsOf(Lines, job.fmt), k) = << >>
<1>1. TextsOf(Lines, job.fmt) \in Seq(Seq(Bytes)) /\ Len(TextsOf(Lines, job.fmt)) = Len(Lines)
  BY TextsAreSeq DEF LinesAre
<1> QED BY <1>1, FromEnds

\* Something is left where a byte is read, and nothing at the end of the file.
LEMMA SomethingLeft ==
  ASSUME TypeOK, Follows
  PROVE  /\ pos < Len(read) => Left # << >>
         /\ pos = Len(file) => Left = << >>
<1>1. file \in Seq(Bytes) /\ pos \in 0 .. Len(file) /\ Len(file) \in Nat /\ Len(read) \in Nat /\ pos \in Nat
  BY LenProperties DEF TypeOK, Follows
<1>2. Left \in Seq(Bytes) /\ Len(Left) = Len(file) - pos
  BY <1>1, PrefixIs DEF Left
<1>3. Len(<< >>) = 0
  OBVIOUS
<1> QED BY <1>1, <1>2, <1>3, LenProperties DEF Follows

\* A byte is read back as what it was written for.
LEMMA ByteReads ==
  ASSUME TypeOK, Follows, LinesAre, Feed, UNCHANGED exportVars, NEW k \in 0 .. Len(Lines), Reads(k)
  PROVE  (\E m \in 0 .. Len(Lines) : Reads(m)') /\ UNCHANGED <<job, read, cause, phase>>
<1>1. CASE \E c \in 1 .. Len(job.names) : AtCell(k + 1, c)
  BY <1>1, LineByte DEF Reads
<1>2. CASE Between(k) /\ p.cr
  BY <1>2, LineFeedByte DEF Reads
<1>3. CASE Between(k) /\ ~p.cr
  <2>1. k < Len(Lines)
    <3>1. Left = From(TextsOf(Lines, job.fmt), k)
      BY <1>3 DEF Between
    <3>2. Left # << >>
      BY FeedParses, SomethingLeft
    <3>3. k # Len(Lines)
      BY <3>1, <3>2, NothingLeft
    <3> QED BY <3>3, LenProperties DEF LinesAre
  <2>2. AtCell(k + 1, 1)
    BY <1>3, <2>1, LineBegins
  <2> QED BY <2>2, LineByte DEF Reads
<1> QED BY <1>1, <1>2, <1>3 DEF Reads

\* Two sequences are joined to nothing only if both are nothing.
LEMMA JoinNotEmpty ==
  ASSUME NEW A, NEW a \in Seq(A), NEW b \in Seq(A), a # << >> \/ b # << >>
  PROVE  a ++ b # << >>
<1>1. Len(a \o b) = Len(a) + Len(b) /\ Len(a) \in Nat /\ Len(b) \in Nat
  BY ConcatProperties, LenProperties
<1>2. Len(a) > 0 \/ Len(b) > 0
  BY <1>1, LenProperties
<1>3. Len(a ++ b) > 0
  BY <1>1, <1>2 DEF ++
<1> QED BY <1>3

\* A byte in front of a text makes a text that is not empty.
LEMMA OneMore ==
  ASSUME NEW b \in Bytes, NEW w \in Seq(Bytes)
  PROVE  <<b>> ++ w # << >> /\ <<b>> ++ w \in Seq(Bytes)
<1> DEFINE e == <<b>>
<1>1. e \in Seq(Bytes) /\ e # << >>
  OBVIOUS
<1> HIDE DEF e
<1>2. e ++ w # << >> /\ e ++ w \in Seq(Bytes)
  BY <1>1, JoinNotEmpty, JoinType
<1> QED BY <1>2 DEF e

\* While a cell is read there is something left.
LEMMA MoreLeft ==
  ASSUME NEW q, NEW v \in Cells, NEW t \in Seq(Bytes), NEW all, NEW fmt,
         CellLeft(q, v, t, all, fmt), t # << >>
  PROVE  all # << >>
<1>1. "bs" \in Bytes /\ "N" \in Bytes /\ "quote" \in Bytes /\ NullMarker \in Seq(Bytes)
  BY MarkerIsBytes DEF Bytes
<1>2. \A s \in Seq(Bytes) : s ++ t # << >>
  BY JoinNotEmpty
<1>3. \A b \in Bytes : \A s \in Seq(Bytes) : <<b>> ++ s # << >> /\ <<b>> ++ s \in Seq(Bytes)
  BY OneMore
<1>4. CASE ~streamFormatIsCSV(fmt) /\ v = Null
  BY <1>1, <1>2, <1>3, <1>4 DEF CellLeft, TsvNull
<1>5. CASE ~streamFormatIsCSV(fmt) /\ v # Null
  <2>1. v \in Seq(Bytes)
    BY <1>5 DEF Cells
  <2>2. EscapesOf(v) \in Seq(Seq(Bytes)) /\ Len(EscapesOf(v)) = Len(v)
    BY <2>1, EscapesAreSeq
  <2>3. PICK i \in 0 .. Len(v) : TsvPlain(q, v, t, all, i) \/ TsvEscape(q, v, t, all, i)
    BY <1>5 DEF CellLeft
  <2>4. CASE TsvPlain(q, v, t, all, i)
    <3>1. From(EscapesOf(v), i) \in Seq(Bytes) /\ all = From(EscapesOf(v), i) ++ t
      BY <2>2, <2>4, FromEnds DEF TsvPlain
    <3> QED BY <1>2, <3>1
  <2>5. CASE TsvEscape(q, v, t, all, i)
    <3>1. /\ i < Len(v) /\ v[i + 1] \in DOMAIN TsvEscapes
          /\ all = <<TsvEscapes[v[i + 1]]>> ++ (From(EscapesOf(v), i + 1) ++ t)
      BY <2>5 DEF TsvEscape
    <3>2. From(EscapesOf(v), i + 1) ++ t \in Seq(Bytes) /\ TsvEscapes[v[i + 1]] \in Bytes
      BY <2>1, <3>1, EscapesLeft, LetterIs
    <3> QED BY <1>3, <3>1, <3>2
  <2> QED BY <2>3, <2>4, <2>5
<1>6. CASE streamFormatIsCSV(fmt) /\ (v = Null \/ ~NeedsQuoting(v))
  <2> DEFINE w == IF v = Null THEN NullMarker ELSE v
  <2>1. w \in Seq(Bytes)
    BY <1>6, NothingQuoted
  <2>2. PICK i \in 0 .. Len(w) : CsvPlain(q, w, t, all, i)
    BY <1>6 DEF CellLeft
  <2> HIDE DEF w
  <2>3. Rest(w, i) \in Seq(Bytes) /\ all = Rest(w, i) ++ t
    BY <2>1, <2>2, RestNext DEF CsvPlain
  <2> QED BY <1>2, <2>3
<1>7. CASE streamFormatIsCSV(fmt) /\ v # Null /\ NeedsQuoting(v)
  <2>1. v \in Seq(Bytes)
    BY <1>7 DEF Cells
  <2>2. CASE CsvOpens(q, v, t, all)
    BY <1>2, <2>1, <2>2, QuotedIsBytes DEF CsvOpens
  <2>3. CASE \E i \in 0 .. Len(v) : CsvQuoted(q, v, t, all, i)
    <3>1. PICK i \in 0 .. Len(v) : CsvQuoted(q, v, t, all, i)
      BY <2>3
    <3> DEFINE tt == <<"quote">> ++ t
    <3>2. tt \in Seq(Bytes) /\ tt # << >>
      BY <1>1, <1>3
    <3>3. QuotesOf(v) \in Seq(Seq(Bytes)) /\ Len(QuotesOf(v)) = Len(v)
      BY <2>1, QuotesAreSeq
    <3>4. CASE all = From(QuotesOf(v), i) ++ tt
      <4>1. From(QuotesOf(v), i) \in Seq(Bytes)
        BY <3>3, FromEnds
      <4> HIDE DEF tt
      <4> QED BY <3>2, <3>4, <4>1, JoinNotEmpty
    <3>5. CASE i < Len(v) /\ all = <<"quote">> ++ (From(QuotesOf(v), i + 1) ++ tt)
      <4> HIDE DEF tt
      <4>1. From(QuotesOf(v), i + 1) ++ tt \in Seq(Bytes)
        BY <2>1, <3>2, <3>5, QuotesLeft
      <4> QED BY <1>1, <1>3, <3>5, <4>1
    <3> QED BY <3>1, <3>4, <3>5 DEF CsvQuoted
  <2> QED BY <1>7, <2>2, <2>3 DEF CellLeft
<1> QED BY <1>4, <1>5, <1>6, <1>7

\* Behind a cell there is at least the end of its line.
LEMMA BehindIsMore ==
  ASSUME NEW lines \in Seq(Seq(Cells)), NEW fmt, NEW k \in 1 .. Len(lines), NEW c \in 1 .. Len(lines[k])
  PROVE  Behind(lines, fmt, k, c) \in Seq(Bytes) /\ Behind(lines, fmt, k, c) # << >>
<1> DEFINE B == Behind(lines, fmt, k, c)
<1>1. lines[k] \in Seq(Cells) /\ B \in Seq(Bytes) /\ Len(lines[k]) \in Nat
  BY CellBehind, LenProperties
<1>2. CASE c < Len(lines[k])
  <2> DEFINE a == appendCellForStream(lines[k][c + 1], fmt)
  <2> DEFINE z == Behind(lines, fmt, k, c + 1)
  <2>1. a \in Seq(Bytes) /\ z \in Seq(Bytes) /\ B = <<"sep">> ++ (a ++ z)
    BY <1>2, CellBehind
  <2> HIDE DEF a, z
  <2>2. a ++ z \in Seq(Bytes) /\ "sep" \in Bytes
    BY <2>1, JoinType DEF Bytes
  <2>3. <<"sep">> ++ (a ++ z) # << >>
    BY <2>2, OneMore
  <2> QED BY <1>1, <2>1, <2>3
<1>3. CASE c = Len(lines[k])
  <2> DEFINE z == From(TextsOf(lines, fmt), k)
  <2>1. B = RowTerm(fmt) ++ z /\ z \in Seq(Bytes)
    BY <1>3, CellBehind
  <2>2. RowTerm(fmt) # << >> /\ RowTerm(fmt) \in Seq(Bytes)
    BY RowTermIsBytes DEF RowTerm
  <2> HIDE DEF z, B
  <2>3. RowTerm(fmt) ++ z # << >>
    BY <2>1, <2>2, JoinNotEmpty
  <2> QED BY <1>1, <2>1, <2>3 DEF B
<1> QED BY <1>1, <1>2, <1>3

\* Where the text ends every line is read and the parser is at the start of the next.
LEMMA TextIsRead ==
  ASSUME TypeOK, Follows, LinesAre, read = file, pos = Len(read), NEW k \in 0 .. Len(Lines), Reads(k)
  PROVE  k = Len(Lines) /\ AtStart(p) /\ p.row = << >>
<1>1. Left = << >>
  BY SomethingLeft
<1>2. ~ \E c \in 1 .. Len(job.names) : AtCell(k + 1, c)
  <2> SUFFICES ASSUME NEW c \in 1 .. Len(job.names), AtCell(k + 1, c) PROVE FALSE
    OBVIOUS
  <2> DEFINE t == Behind(Lines, job.fmt, k + 1, c)
  <2> DEFINE v == Lines[k + 1][c]
  <2>1. k + 1 \in 1 .. Len(Lines) /\ c \in 1 .. Len(Lines[k + 1]) /\ CellLeft(p, v, t, Left, job.fmt)
    BY DEF AtCell
  <2>2. t \in Seq(Bytes) /\ t # << >> /\ v \in Cells
    BY <2>1, BehindIsMore, CellBehind DEF LinesAre
  <2> HIDE DEF t, v
  <2> QED BY <1>1, <2>1, <2>2, MoreLeft
<1> DEFINE z == From(TextsOf(Lines, job.fmt), k)
<1>3. Between(k)
  BY <1>2 DEF Reads
<1>4. Left = z
  <2>1. z \in Seq(Bytes)
    <3>1. TextsOf(Lines, job.fmt) \in Seq(Seq(Bytes)) /\ Len(TextsOf(Lines, job.fmt)) = Len(Lines)
      BY TextsAreSeq DEF LinesAre
    <3> QED BY <3>1, FromEnds
  <2>2. Left # <<"lf">> ++ z
    <3>1. "lf" \in Bytes
      BY DEF Bytes
    <3> HIDE DEF z
    <3> QED BY <1>1, <2>1, <3>1, OneMore
  <2> QED BY <1>3, <2>2 DEF Between
<1>5. ~(k < Len(Lines))
  <2> SUFFICES ASSUME k < Len(Lines) PROVE FALSE
    OBVIOUS
  <2> DEFINE t == Behind(Lines, job.fmt, k + 1, 1)
  <2> DEFINE a == appendCellForStream(Lines[k + 1][1], job.fmt)
  <2>1. Len(Lines[k + 1]) > 0 /\ k + 1 \in 1 .. Len(Lines) /\ 1 \in 1 .. Len(Lines[k + 1])
    <3>1. k + 1 \in 1 .. Len(Lines)
      BY LenProperties DEF LinesAre
    <3>2. Lines[k + 1] \in Seq(Cells) /\ Len(Lines[k + 1]) > 0
      BY <3>1, LenProperties DEF LinesAre
    <3> QED BY <3>1, <3>2, LenProperties
  <2>2. t \in Seq(Bytes) /\ t # << >>
    BY <2>1, BehindIsMore DEF LinesAre
  <2>3. a \in Seq(Bytes) /\ z = a ++ t
    BY <2>1, LineText DEF LinesAre
  <2> HIDE DEF a, t, z
  <2> QED BY <1>1, <1>4, <2>2, <2>3, JoinNotEmpty
<1> QED BY <1>3, <1>5, LenProperties DEF Between, LinesAre

\* The text of one row.
LEMMA RowAlone ==
  ASSUME NEW row \in Seq(Cells), NEW fmt
  PROVE  RowsText(<<row>>, fmt) = RowText(row, fmt)
<1> DEFINE x == RowText(row, fmt)
<1>1. [r \in DOMAIN <<row>> |-> RowText(<<row>>[r], fmt)] = <<x>>
  OBVIOUS
<1>2. x \in Seq(Bytes)
  BY RowIsBytes
<1>3. RowsText(<<row>>, fmt) = FlattenSeq(<<x>>)
  BY <1>1 DEF RowsText
<1> HIDE DEF x
<1>4. Append(<< >>, x) = <<x>> /\ << >> \in Seq(Seq(Bytes)) /\ << >> \o x = x
  BY <1>2, ConcatEmptySeq
<1>5. FlattenSeq(Append(<< >>, x)) = FlattenSeq(<< >>) \o x
  BY <1>2, <1>4, FlattenAppend
<1> QED BY <1>3, <1>4, <1>5, FlattenEmpty DEF x

\* What the export has written is the text of the lines.
LEMMA WrittenLines ==
  ASSUME TypeOK, ExportInv, LinesAre
  PROVE  Written = FlattenSeq(TextsOf(Lines, job.fmt))
<1>1. exported \in Seq(Seq(Cells))
  BY RowsAreCells DEF ExportInv, ExportType
<1>2. FlattenSeq(TextsOf(Lines, job.fmt)) = RowsText(Lines, job.fmt)
  BY DEF RowsText, TextsOf
<1> DEFINE R == RowsText(exported, job.fmt)
<1>3. R \in Seq(Bytes)
  BY <1>1, RowsTextJoins
<1>4. CASE header /\ streamFormatHasHeader(job.fmt)
  <2> DEFINE n == job.names
  <2> DEFINE one == <<n>>
  <2>1. n \in Seq(Cells)
    BY NamesAre
  <2>2. Written = RowText(n, job.fmt) \o R /\ Lines = one \o exported
    BY <1>4 DEF Written, HeaderText, Lines
  <2>3. RowsText(one, job.fmt) = RowText(n, job.fmt) /\ one \in Seq(Seq(Cells))
    <3> HIDE DEF n
    <3> QED BY <2>1, RowAlone
  <2> HIDE DEF n, one
  <2>4. RowsText(one \o exported, job.fmt) = RowsText(one, job.fmt) \o R
    BY <1>1, <2>3, RowsTextJoins DEF Joins
  <2> QED BY <1>2, <2>2, <2>3, <2>4
<1>5. CASE ~(header /\ streamFormatHasHeader(job.fmt))
  <2>1. Lines = exported
    BY <1>1, <1>5, ConcatEmptySeq DEF Lines
  <2>2. Written = << >> \o R
    BY <1>5 DEF Written, HeaderText
  <2> HIDE DEF R
  <2>3. << >> \o R = R
    BY <1>3, ConcatEmptySeq
  <2> QED BY <1>2, <2>1, <2>2, <2>3 DEF R
<1> QED BY <1>4, <1>5

\* Nothing is read and nothing taken before the import begins.
LEMMA ReadingBegins ==
  ASSUME TypeOK, ExportInv, LinesAre, file = Written, pos = 0, p = FreshParser,
         batch = << >>, sent = << >>
  PROVE  Reads(0) /\ 0 \in 0 .. Len(Lines)
<1>1. file \in Seq(Bytes) /\ Lines \in Seq(Seq(Cells))
  BY DEF ExportInv, ExportType, LinesAre
<1>2. Left = file
  BY <1>1, RestEnds DEF Left
<1>3. From(TextsOf(Lines, job.fmt), 0) = FlattenSeq(TextsOf(Lines, job.fmt))
  BY <1>1, TextsAreSeq, FromEnds
<1>4. Left = From(TextsOf(Lines, job.fmt), 0)
  BY <1>2, <1>3, WrittenLines
<1>5. AtStart(p) /\ p.row = << >> /\ ~p.cr /\ ~p.headerSeen
  BY DEF AtStart, FreshParser
<1>6. Between(0)
  BY <1>4, <1>5 DEF Between
<1>7. SubSeq(Taken(Lines, job.fmt), 1, 0) = << >>
  BY SubSeqEmpty
<1>8. sent \o batch = FlattenSeq(SubSeq(Taken(Lines, job.fmt), 1, 0))
  <2>1. << >> \o << >> = << >>
    OBVIOUS
  <2> QED BY <1>7, <2>1, FlattenEmpty
<1>9. Done(0)
  BY <1>5, <1>8 DEF Done
<1>10. 0 \in 0 .. Len(Lines)
  BY <1>1, LenProperties
<1> QED BY <1>6, <1>9, <1>10 DEF Reads

\* An export touches nothing of the import, which begins where it returns.
LEMMA ExportReads ==
  ASSUME IInv, ExportInv, ExportInv', ReadInv, ExportNext(job), UNCHANGED importVars
  PROVE  ReadInv'
<1>1. export = "running"
  BY DEF ExportNext, DataBlock, WriteSome, ExportThrows, ExportReturns, Exporting
<1>2. /\ cause # "text" /\ read = << >> /\ pos = 0 /\ p = FreshParser
      /\ batch = << >> /\ sent = << >> /\ phase = "reading"
  BY <1>1 DEF ReadInv
<1>3. UNCHANGED <<job, read, pos, p, cause, batch, sent, phase>>
  BY DEF importVars, parseVars, sendVars
<1>4. CASE export' # "returned"
  BY <1>2, <1>3, <1>4 DEF ReadInv
<1>5. CASE export' = "returned"
  <2>1. TypeOK'
    BY NextKeeps DEF IInv
  <2>2. LinesAre'
    <3>1. (TypeOK /\ ExportInv => LinesAre)'
      BY LinesType, PTL
    <3> QED BY <2>1, <3>1
  <2>7. (file = Written)'
    BY <1>5 DEF ExportInv, ExportIsWhole, Written
  <2>8. (pos = 0)' /\ (p = FreshParser)' /\ (batch = << >>)' /\ (sent = << >>)'
    BY <1>2, <1>3 DEF FreshParser
  <2>3. (TypeOK /\ ExportInv /\ LinesAre /\ file = Written /\ pos = 0 /\ p = FreshParser /\ batch = << >> /\ sent = << >>
           => Reads(0) /\ 0 \in 0 .. Len(Lines))'
    BY ReadingBegins, PTL
  <2>4. Reads(0)' /\ 0 \in 0 .. Len(Lines')
    BY <2>1, <2>2, <2>3, <2>7, <2>8
  <2>5. read' = << >> /\ Len(read') = 0 /\ Len(file') \in Nat
    BY <1>2, <1>3, LenProperties DEF ExportInv, ExportType
  <2>6. SubSeq(file', 1, 0) = << >>
    BY SubSeqEmpty
  <2> QED BY <1>2, <1>3, <1>5, <2>4, <2>5, <2>6 DEF ReadInv
<1> QED BY <1>4, <1>5

\* Rows that are not blank, as NotBlank joins them.
LEMMA NotBlankIs ==
  ASSUME NEW rows \in Seq(Seq(Cells))
  PROVE  LET pieces == [r \in DOMAIN rows |-> IF IsBlank(rows[r]) THEN << >> ELSE <<rows[r]>>]
         IN  /\ pieces \in Seq(Seq(Seq(Cells))) /\ Len(pieces) = Len(rows)
             /\ \A i \in 1 .. Len(rows) : pieces[i] = IF IsBlank(rows[i]) THEN << >> ELSE <<rows[i]>>
             /\ NotBlank(rows) = FlattenSeq(pieces)
<1> DEFINE S == Seq(Cells)
<1> DEFINE pieces == [r \in DOMAIN rows |-> IF IsBlank(rows[r]) THEN << >> ELSE <<rows[r]>>]
<1>1. Len(rows) \in Nat /\ DOMAIN rows = 1 .. Len(rows) /\ \A i \in 1 .. Len(rows) : rows[i] \in S
  BY LenProperties
<1> HIDE DEF S
<1>2. pieces \in [1 .. Len(rows) -> Seq(S)]
  BY <1>1
<1>3. pieces \in Seq(Seq(S)) /\ Len(pieces) = Len(rows)
  <2> HIDE DEF pieces
  <2> QED BY <1>1, <1>2, FunctionIsSeq
<1> QED BY <1>1, <1>3 DEF S, NotBlank

\* What is taken of all lines is what was exported, without its blank rows.
LEMMA AllTaken ==
  ASSUME TypeOK, ExportInv, LinesAre
  PROVE  FlattenSeq(SubSeq(Taken(Lines, job.fmt), 1, Len(Lines))) = NotBlank(exported)
<1> DEFINE T == Taken(Lines, job.fmt)
<1> DEFINE P == [r \in DOMAIN exported |-> IF IsBlank(exported[r]) THEN << >> ELSE <<exported[r]>>]
<1> DEFINE S == Seq(Cells)
<1> DEFINE SS == Seq(S)
<1>1. exported \in Seq(S) /\ Lines \in Seq(S) /\ (~header => exported = << >>)
  BY RowsAreCells DEF ExportInv, ExportType, LinesAre
<1>2. /\ P \in Seq(SS) /\ Len(P) = Len(exported) /\ NotBlank(exported) = FlattenSeq(P)
      /\ \A i \in 1 .. Len(exported) : P[i] = IF IsBlank(exported[i]) THEN << >> ELSE <<exported[i]>>
  BY <1>1, NotBlankIs
<1>3. /\ T \in Seq(SS) /\ Len(T) = Len(Lines)
      /\ \A i \in 1 .. Len(Lines) :
           T[i] = IF (streamFormatHasHeader(job.fmt) /\ i = 1) \/ IsBlank(Lines[i]) THEN << >> ELSE <<Lines[i]>>
  BY <1>1, TakenIs
<1> HIDE DEF T, P, SS
<1>4. SubSeq(T, 1, Len(Lines)) = T
  BY <1>3, SubSeqFull
<1>5. Len(exported) \in Nat /\ Len(Lines) \in Nat
  BY <1>1, LenProperties
<1>6. CASE header /\ streamFormatHasHeader(job.fmt)
  <2> DEFINE n == job.names
  <2>1. n \in S /\ Lines = <<n>> \o exported
    BY <1>6, NamesAre DEF Lines
  <2> HIDE DEF n
  <2>2. Len(Lines) = 1 + Len(exported) /\ \A i \in 1 .. Len(exported) : Lines[i + 1] = exported[i]
    <3> HIDE DEF S
    <3> QED BY <1>1, <2>1, ConsIs
  <2> DEFINE e == << >>
  <2>3. e \in SS
    BY DEF SS
  <2>4. T[1] = e /\ \A i \in 1 .. Len(exported) : T[i + 1] = P[i]
    <3>1. 1 \in 1 .. Len(Lines)
      BY <1>5, <2>2
    <3>2. T[1] = e
      BY <1>3, <1>6, <3>1
    <3>3. ASSUME NEW i \in 1 .. Len(exported) PROVE T[i + 1] = P[i]
      <4>1. i + 1 \in 1 .. Len(Lines) /\ i + 1 # 1
        BY <1>5, <2>2
      <4> QED BY <1>2, <1>3, <2>2, <4>1
    <3> QED BY <3>2, <3>3
  <2> HIDE DEF e
  <2>5. T = <<e>> \o P
    BY <1>2, <1>3, <2>2, <2>3, <2>4, IsCons
  <2>6. FlattenSeq(<<e>>) = e /\ <<e>> \in Seq(SS)
    <3>1. Append(<< >>, e) = <<e>> /\ << >> \in Seq(SS) /\ << >> \o e = e
      BY <2>3, ConcatEmptySeq DEF SS
    <3>2. FlattenSeq(Append(<< >>, e)) = FlattenSeq(<< >>) \o e
      BY <2>3, <3>1, FlattenAppend DEF SS
    <3>3. <<e>> \in Seq(SS)
      BY <2>3
    <3> QED BY <3>1, <3>2, <3>3, FlattenEmpty
  <2> DEFINE one == <<e>>
  <2>7. FlattenSeq(one \o P) = FlattenSeq(one) \o FlattenSeq(P) /\ FlattenSeq(P) \in Seq(S)
    <3>1. one \in Seq(Seq(S)) /\ P \in Seq(Seq(S))
      BY <1>2, <2>6 DEF SS
    <3> HIDE DEF one
    <3> QED BY <3>1, FlattenConcat, FlattenType
  <2>8. e \o FlattenSeq(P) = FlattenSeq(P)
    BY <2>7, ConcatEmptySeq DEF e
  <2> QED BY <1>2, <1>4, <2>5, <2>6, <2>7, <2>8 DEF T
<1>7. CASE ~(header /\ streamFormatHasHeader(job.fmt))
  <2>1. Lines = exported
    BY <1>1, <1>7, ConcatEmptySeq DEF Lines
  <2>2. \A i \in 1 .. Len(exported) : ~streamFormatHasHeader(job.fmt)
    BY <1>1, <1>7
  <2>3. T = P
    <3>1. Len(T) = Len(P) /\ \A i \in 1 .. Len(T) : T[i] = P[i]
      BY <1>2, <1>3, <2>1, <2>2
    <3> QED BY <1>2, <1>3, <3>1, SeqEqual
  <2> QED BY <1>2, <1>4, <2>3 DEF T
<1> QED BY <1>6, <1>7

\* What was read stays read while the parser rests.
LEMMA ReadsStays ==
  ASSUME UNCHANGED exportVars, UNCHANGED <<job, pos, p>>, sent' \o batch' = sent \o batch
  PROVE  Lines' = Lines /\ \A k : (Done(k) => Done(k)') /\ (Reads(k) => Reads(k)')
<1>1. Lines' = Lines /\ csv' = csv /\ Left' = Left
  BY SameLines DEF Left, exportVars
<1>2. TextsOf(Lines, job.fmt)' = TextsOf(Lines, job.fmt)
      /\ \A k, c : Behind(Lines, job.fmt, k, c)' = Behind(Lines, job.fmt, k, c)
  BY SameLines
<1>3. \A k : Done(k) => Done(k)'
  BY DoneStays
<1>4. \A k : Between(k) => Between(k)'
  BY <1>1, <1>2 DEF Between, From
<1>5. \A k, c : AtCell(k, c) => AtCell(k, c)'
  BY <1>1, <1>2 DEF AtCell
<1> QED BY <1>1, <1>3, <1>4, <1>5 DEF Reads

------------------------------------------------------------------------------
(* The steps of both calls. *)

\* A beginning of a sequence and what comes next in it.
LEMMA PrefixAndNext ==
  ASSUME NEW A, NEW s \in Seq(A), NEW i \in Nat, NEW n \in Nat, i + n <= Len(s)
  PROVE  SubSeq(s, 1, i) \o SubSeq(s, i + 1, i + n) = SubSeq(s, 1, i + n)
<1>1. 1 \in 1 .. Len(s) + 1 /\ i \in 1 - 1 .. Len(s) /\ i + n \in i .. Len(s)
  BY LenProperties
<1> QED BY <1>1, ConcatAdjacentSubSeq

\* What is read of an export is read from its file.
LEMMA ReadFollows ==
  ASSUME ExportInv, ReadInv, export = "returned"
  PROVE  Follows
BY DEF ExportInv, ExportType, ReadInv, Follows

\* The next chunk is what the file has next.
LEMMA ChunkReads ==
  ASSUME IInv, ExportInv, ReadInv, FromExport, UNCHANGED exportVars
  PROVE  ReadInv'
<1>1. PICK n \in 1 .. MaxChunk : /\ Len(read) + n <= Len(file)
                                 /\ Receive(SubSeq(file, Len(read) + 1, Len(read) + n))
  BY DEF FromExport
<1>2. export = "returned" /\ export' = export /\ file' = file /\ phase = "reading"
  BY <1>1 DEF FromExport, exportVars, Receive, BetweenChunks
<1>3. file \in Seq(Bytes) /\ Len(read) \in Nat /\ Len(file) \in Nat /\ n \in Nat
      /\ Len(read) <= Len(file) /\ read = SubSeq(file, 1, Len(read)) /\ Len(read) + n <= Len(file)
  BY <1>1, <1>2, LenProperties DEF ExportInv, ExportType, ReadInv, IInv, TypeOK
<1>4. read' = SubSeq(file, 1, Len(read) + n)
  <2>1. read' = read \o SubSeq(file, Len(read) + 1, Len(read) + n)
    BY <1>1 DEF Receive
  <2> QED BY <1>3, <2>1, PrefixAndNext
<1>5. Len(read') = Len(read) + n
  <2>1. Len(read) + n \in 0 .. Len(file)
    BY <1>3
  <2> QED BY <1>3, <1>4, <2>1, PrefixIs
<1>6. read' = SubSeq(file', 1, Len(read')) /\ Len(read') <= Len(file')
  BY <1>2, <1>3, <1>4, <1>5
<1>7. UNCHANGED <<job, pos, p, cause, sent, batch, phase>>
  BY <1>1 DEF Receive, sendVars
<1>8. Lines' = Lines /\ \A k : (Done(k) => Done(k)') /\ (Reads(k) => Reads(k)')
  BY <1>7, ReadsStays
<1> QED BY <1>2, <1>6, <1>7, <1>8 DEF ReadInv

\* So does a byte.
LEMMA FeedReads ==
  ASSUME IInv, ExportInv, ReadInv, Feed, export = "returned", UNCHANGED exportVars
  PROVE  ReadInv'
<1>1. TypeOK /\ Follows /\ LinesAre
  BY ReadFollows, LinesType DEF IInv
<1>2. phase = "reading" /\ cause = "none"
  BY FeedParses DEF IInv, ServerByPhase
<1>3. PICK k \in 0 .. Len(Lines) : Reads(k)
  BY <1>2 DEF ReadInv
<1>4. (\E m \in 0 .. Len(Lines) : Reads(m)') /\ UNCHANGED <<job, read, cause, phase>>
  BY <1>1, <1>3, ByteReads
<1>5. Lines' = Lines /\ export' = export /\ file' = file
  BY <1>4, SameLines DEF exportVars
<1> QED BY <1>2, <1>4, <1>5 DEF ReadInv

\* At the end of the text every line is taken.
LEMMA EndReads ==
  ASSUME IInv, ExportInv, ReadInv, EndOfText, origin = "export", UNCHANGED exportVars
  PROVE  ReadInv'
<1>1. /\ export = "returned" /\ read = file /\ EndOfStream /\ phase = "reading" /\ pos = Len(read)
      /\ UNCHANGED <<job, read, pos, sent>> /\ file' = file /\ export' = export
  BY DEF EndOfText, EndOfStream, BetweenChunks, exportVars
<1>2. TypeOK /\ Follows /\ LinesAre /\ cause = "none"
  BY <1>1, ReadFollows, LinesType DEF IInv, ServerByPhase
<1>3. PICK k \in 0 .. Len(Lines) : Reads(k)
  BY <1>1, <1>2 DEF ReadInv
<1>4. k = Len(Lines) /\ AtStart(p) /\ p.row = << >> /\ Done(k)
  BY <1>1, <1>2, <1>3, TextIsRead DEF Reads
<1>5. Finished.row = << >> /\ Finished.cell = << >> /\ ~Finished.quoted /\ Finished.headerSeen = p.headerSeen
  BY <1>2, <1>4 DEF Finished, AtStart, TypeOK, Parsers
<1>6. p' = Finished /\ phase' = "finishing" /\ UNCHANGED <<batch, total, cause>>
  BY <1>1, <1>4, <1>5 DEF EndOfStream, HasRow, AtStart
<1>7. Done(k)'
  BY <1>1, <1>4, <1>5, <1>6, DoneStays
<1>8. Lines' = Lines
  BY <1>1, SameLines
<1> QED BY <1>1, <1>2, <1>3, <1>4, <1>6, <1>7, <1>8 DEF ReadInv

\* Sending changes where the rows are, and a failure is not the text's.
LEMMA SendReads ==
  ASSUME IInv, ReadInv, Sending \/ StreamFails \/ Recovering, export = "returned", UNCHANGED exportVars
  PROVE  ReadInv'
<1>1. UNCHANGED <<job, read, pos, p>> /\ export' = "returned" /\ file' = file
  BY DEF Sending, Flush, FlushRefusesValue, FlushThrows, EndInsert, EndInsertThrows, StreamFails, Recovering,
    RecoverSent, RecoverEmpty, parseVars, exportVars
<1>2. cause # "text" /\ Len(read) <= Len(file) /\ read = SubSeq(file, 1, Len(read))
  BY DEF ReadInv
<1>3. CASE FlushRefusesValue \/ FlushThrows \/ EndInsertThrows \/ StreamFails
  <2>1. cause' \in {"value", "send", "end", "stream"}
    BY <1>3 DEF FlushRefusesValue, FlushThrows, EndInsertThrows, StreamFails, Throw
  <2> QED BY <1>1, <1>2, <2>1 DEF ReadInv
<1>4. CASE Flush \/ EndInsert \/ Recovering
  <2>1. cause' = cause /\ (phase' = "reading" <=> phase = "reading") /\ sent' \o batch' = sent \o batch
    <3>1. CASE Flush
      <4>1. sent' = sent \o batch /\ batch' = << >> /\ cause' = cause /\ phase' = phase
        BY <3>1 DEF Flush, parseVars
      <4>2. sent \o batch \in Seq(Rows(job))
        BY DEF IInv, TypeOK
      <4> QED BY <4>1, <4>2, ConcatEmptySeq
    <3>2. CASE EndInsert \/ Recovering
      BY <3>2 DEF EndInsert, Closing, Recovering, RecoverSent, RecoverEmpty, Catching, parseVars, sendVars
    <3> QED BY <1>4, <3>1, <3>2
  <2>2. Lines' = Lines /\ \A k : (Done(k) => Done(k)') /\ (Reads(k) => Reads(k)')
    BY <1>1, <2>1, ReadsStays
  <2> QED BY <1>1, <1>2, <2>1, <2>2 DEF ReadInv
<1> QED BY <1>3, <1>4 DEF Sending

------------------------------------------------------------------------------
(* Both together. *)

RoundInv == TransferInv /\ ReadsBack

\* Every step of either call keeps what is true of both and of the text between them.
LEMMA RoundKeeps == RoundInv /\ [Next]_vars => RoundInv'
<1> SUFFICES ASSUME RoundInv, [Next]_vars PROVE RoundInv'
  OBVIOUS
<1>1. TransferInv' /\ IInv /\ ExportInv /\ ExportInv' /\ ReadsBack
  BY TransferKeeps DEF RoundInv, TransferInv
<1>2. origin' = origin
  BY DEF Next, vars
<1>3. SUFFICES ASSUME origin = "export" PROVE ReadInv'
  BY <1>1, <1>2 DEF RoundInv, ReadsBack
<1>4. ReadInv
  BY <1>1, <1>3 DEF ReadsBack
<1>5. CASE UNCHANGED vars
  <2>1. UNCHANGED exportVars /\ UNCHANGED <<job, pos, p>> /\ sent' \o batch' = sent \o batch
        /\ read' = read /\ cause' = cause /\ phase' = phase /\ batch' = batch /\ sent' = sent
    BY <1>5 DEF vars, importVars, parseVars, sendVars
  <2>2. Lines' = Lines /\ \A k : (Done(k) => Done(k)') /\ (Reads(k) => Reads(k)')
    BY <2>1, ReadsStays
  <2>3. export' = export /\ file' = file
    BY <2>1 DEF exportVars
  <2> QED BY <1>4, <2>1, <2>2, <2>3 DEF ReadInv
<1>6. CASE Exports
  BY <1>1, <1>4, <1>6, ExportReads DEF Exports
<1>7. CASE Imports
  <2>1. export = "returned" /\ UNCHANGED exportVars
    BY <1>3, <1>7 DEF Imports
  <2>2. ~FromAnywhere
    BY <1>3 DEF FromAnywhere
  <2> QED BY <1>1, <1>3, <1>4, <1>7, <2>1, <2>2, ChunkReads, FeedReads, EndReads, SendReads DEF Imports
<1> QED BY <1>5, <1>6, <1>7 DEF Next

\* Nothing is exported and nothing read at first.
LEMMA RoundStarts == Init => RoundInv
<1> SUFFICES ASSUME Init PROVE RoundInv
  OBVIOUS
<1>1. TransferInv
  BY TransferStarts
<1>2. ReadInv
  BY DEF Init, ImportInit, ExportInit, ReadInv
<1> QED BY <1>1, <1>2 DEF RoundInv, ReadsBack

\* What selectToStream has written, insertFromStream reads back: whatever the bytes of the
\* values, however the stream splits the writes and the reads, and however many rows are in
\* a batch, the text is never refused, and a call that returns has sent the rows that were
\* exported, in order, without those that are blank lines. For every job and every result.
THEOREM RoundTripHolds == Spec => []RoundTrip
<1>1. RoundInv => RoundTrip
  <2> SUFFICES ASSUME RoundInv, origin = "export"
               PROVE  cause # "text" /\ (phase = "returned" => sent = NotBlank(exported))
    BY DEF RoundTrip
  <2>1. ReadInv /\ IInv /\ ExportInv
    BY DEF RoundInv, TransferInv, ReadsBack
  <2>2. cause # "text"
    BY <2>1 DEF ReadInv
  <2>3. ASSUME phase = "returned" PROVE sent = NotBlank(exported)
    <3>1. cause = "none" /\ batch = << >> /\ export = "returned" /\ sent \in Seq(Rows(job))
      BY <2>1, <2>3 DEF IInv, ServerByPhase, ReadInv, TypeOK
    <3>2. Done(Len(Lines))
      BY <2>1, <2>3, <3>1 DEF ReadInv
    <3>3. sent \o batch = FlattenSeq(SubSeq(Taken(Lines, job.fmt), 1, Len(Lines)))
      BY <3>2 DEF Done
    <3>4. FlattenSeq(SubSeq(Taken(Lines, job.fmt), 1, Len(Lines))) = NotBlank(exported)
      BY <2>1, LinesType, AllTaken DEF IInv
    <3>5. sent \o batch = sent
      BY <3>1, ConcatEmptySeq
    <3> QED BY <3>3, <3>4, <3>5
  <2> QED BY <2>2, <2>3
<1> QED BY <1>1, RoundStarts, RoundKeeps, PTL DEF Spec

=============================================================================
