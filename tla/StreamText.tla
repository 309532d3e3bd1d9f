------------------------------ MODULE StreamText ------------------------------
(***************************************************************************)
(* The text formats that selectToStream() writes and insertFromStream()    *)
(* reads (clickhouse.cpp:2642-2851).  A byte is one of the classes that    *)
(* the formats tell apart: the cell separator of the format ("," or tab),  *)
(* the two line ends, the quote, the backslash, and the letters that mean  *)
(* something after one.  "N" also stands for any ordinary byte, and the   *)
(* control characters other than these are left out: each is escaped and   *)
(* read back as they are.                                                  *)
(***************************************************************************)
EXTENDS Naturals, Sequences, SequencesExt

Formats == {"TSV", "TSVWithNames", "CSV", "CSVWithNames"}

Bytes == {"sep", "lf", "cr", "quote", "bs", "N", "n", "r", "t"}
LineEnds == {"lf", "cr"}

\* A cell is its bytes or NULL, which is no sequence of bytes.
Null  == <<"NULL">>
Cells == Seq(Bytes) \cup {Null}

streamFormatIsCSV(fmt)     == fmt \in {"CSV", "CSVWithNames"}
streamFormatHasHeader(fmt) == fmt \in {"TSVWithNames", "CSVWithNames"}

NullMarker == <<"bs", "N">>

------------------------------------------------------------------------------
(* Writing a cell. *)

\* The letter that stands for a byte after a backslash.
TsvEscapes == [bs |-> "bs", sep |-> "t", lf |-> "n", cr |-> "r"]

tsvAppendEscaped(s) ==
  FlattenSeq([i \in DOMAIN s |->
    IF s[i] \in DOMAIN TsvEscapes THEN <<"bs", TsvEscapes[s[i]]>> ELSE <<s[i]>>])

\* Mutant of NeedsQuoting: a string that looks like NULL is not quoted.
NeedsQuotingNoNull(s) == ToSet(s) \cap {"quote", "sep", "lf", "cr"} # {}

NeedsQuoting(s) == s = NullMarker \/ ToSet(s) \cap {"quote", "sep", "lf", "cr"} # {}

Quoted(s) ==
  <<"quote">> \o FlattenSeq([i \in DOMAIN s |->
    IF s[i] = "quote" THEN <<"quote", "quote">> ELSE <<s[i]>>]) \o <<"quote">>

csvAppendEscaped(s) == IF NeedsQuoting(s) THEN Quoted(s) ELSE s

appendCellForStream(cell, fmt) ==
  IF cell = Null THEN NullMarker
  ELSE IF streamFormatIsCSV(fmt) THEN csvAppendEscaped(cell) ELSE tsvAppendEscaped(cell)

RowTerm(fmt) == IF streamFormatIsCSV(fmt) THEN <<"cr", "lf">> ELSE <<"lf">>

RowText(row, fmt) ==
  FlattenSeq([c \in DOMAIN row |->
    (IF c > 1 THEN <<"sep">> ELSE << >>) \o appendCellForStream(row[c], fmt)]) \o RowTerm(fmt)

RowsText(rows, fmt) == FlattenSeq([r \in DOMAIN rows |-> RowText(rows[r], fmt)])

HeaderText(names, fmt) ==
  IF streamFormatHasHeader(fmt) THEN RowText(names, fmt) ELSE << >>

=============================================================================
