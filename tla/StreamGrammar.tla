---------------------------- MODULE StreamGrammar ----------------------------
(***************************************************************************)
(* What a text of one of the formats means, stated over the whole text and *)
(* by positions, without a parser's states: where a cell ends, what its    *)
(* value is, which cells make a row and which rows a stream holds.  It is  *)
(* the reference that the chunk-by-chunk parser is checked against.        *)
(***************************************************************************)
EXTENDS StreamText

\* The backslashes right before position k of a cell that starts at i.
RunBefore(t, i, k) ==
  k - 1 - Max({i - 1} \cup {j \in i .. k - 1 : t[j] # "bs"})

Escaped(t, i, k) == RunBefore(t, i, k) % 2 = 1

TsvEnd(t, i) ==
  Min({Len(t) + 1} \cup
      {k \in i .. Len(t) : t[k] \in LineEnds \cup {"sep"} /\ ~Escaped(t, i, k)})

\* The byte a letter stands for after a backslash; any other stands for itself.
Unescape(c) ==
  IF \E b \in DOMAIN TsvEscapes : TsvEscapes[b] = c
  THEN CHOOSE b \in DOMAIN TsvEscapes : TsvEscapes[b] = c
  ELSE c

\* What the byte at k of a raw TSV cell adds to its value.
TsvPiece(raw, k) ==
  IF raw[k] = "bs" /\ ~Escaped(raw, 1, k)
  THEN IF k = Len(raw) THEN <<"bs">> ELSE << >>
  ELSE IF ~Escaped(raw, 1, k) THEN <<raw[k]>>
  ELSE IF raw[k] = "N" THEN NullMarker
  ELSE <<Unescape(raw[k])>>

TsvValue(raw) ==
  IF raw = NullMarker THEN Null ELSE FlattenSeq([k \in DOMAIN raw |-> TsvPiece(raw, k)])

TsvCell(t, i) ==
  LET e == TsvEnd(t, i)
      raw == SubSeq(t, i, e - 1)
  IN  [end |-> e, value |-> TsvValue(raw),
       ok |-> IsPrefix(NullMarker, raw) => raw = NullMarker]

\* The closing quotes of a cell that opens at i: the quotes that follow it up to
\* a closing one are odd in number, and the next byte is none.
Closings(t, i) ==
  {k \in i + 1 .. Len(t) :
     /\ t[k] = "quote"
     /\ k < Len(t) => t[k + 1] # "quote"
     /\ Cardinality({j \in i + 1 .. k : t[j] = "quote"}) % 2 = 1}

\* The bytes between the quotes, each pair of quotes once.
Unquoted(t, from, to) ==
  FlattenSeq([n \in 1 .. to - from + 1 |->
    LET k == from + n - 1 IN
    IF t[k] = "quote" /\ Cardinality({j \in from .. k : t[j] = "quote"}) % 2 = 0
    THEN << >> ELSE <<t[k]>>])

CsvCell(t, i) ==
  IF i <= Len(t) /\ t[i] = "quote"
  THEN IF Closings(t, i) = {}
       THEN [end |-> Len(t) + 1, value |-> << >>, ok |-> FALSE]
       ELSE LET k == Min(Closings(t, i)) IN
            [end |-> k + 1, value |-> Unquoted(t, i + 1, k - 1),
             ok |-> k < Len(t) => t[k + 1] \in LineEnds \cup {"sep"}]
  ELSE LET e == Min({Len(t) + 1} \cup {k \in i .. Len(t) : t[k] \in LineEnds \cup {"sep"}})
           raw == SubSeq(t, i, e - 1)
       IN  [end |-> e, value |-> IF raw = NullMarker THEN Null ELSE raw, ok |-> TRUE]

CellAt(t, i, fmt) == IF streamFormatIsCSV(fmt) THEN CsvCell(t, i) ELSE TsvCell(t, i)

\* The row that starts at i: its cells, the position after it, and whether it is well-formed.
RowAt(t, i, fmt) ==
  LET row[k \in 1 .. Len(t) + 1] ==
        LET c == CellAt(t, k, fmt) IN
        IF c.ok /\ c.end <= Len(t) /\ t[c.end] = "sep"
        THEN [row[c.end + 1] EXCEPT !.cells = <<c.value>> \o @]
        ELSE [end |-> c.end, cells |-> <<c.value>>, ok |-> c.ok]
  IN row[i]

\* The rows of a text from each position on; a line without a byte is none, and nothing is
\* read after a malformed row.
RowsFrom(t, fmt) ==
  LET rows[i \in 1 .. Len(t) + 2] ==
        IF i > Len(t) THEN << >>
        ELSE IF t[i] \in LineEnds THEN rows[i + 1]
        ELSE LET r == RowAt(t, i, fmt) IN
             IF r.ok THEN <<r>> \o rows[r.end + 1] ELSE <<r>>
  IN rows

RowsIn(t, fmt) == RowsFrom(t, fmt)[1]

\* What a stream of this text is to an import into these columns: the rows it
\* holds, and whether all of it can be taken.
DataRows(t, job) ==
  LET rows == RowsIn(t, job.fmt)
      all == [r \in DOMAIN rows |-> rows[r].cells]
  IN  IF streamFormatHasHeader(job.fmt) /\ all # << >> THEN Tail(all) ELSE all

Fits(row, job) ==
  /\ Len(row) = Len(job.names)
  /\ \A c \in DOMAIN row : row[c] = Null => job.nullable[c]

Accepts(t, job) ==
  LET rows == RowsIn(t, job.fmt) IN
  /\ \A r \in ToSet(rows) : r.ok
  /\ streamFormatHasHeader(job.fmt) /\ rows # << >> => rows[1].cells = job.names
  /\ \A row \in ToSet(DataRows(t, job)) : Fits(row, job)

=============================================================================
