------------------------------- MODULE MCStream -------------------------------
(* Jobs, texts and result sets for TLC. *)
EXTENDS StreamTransfer

Job(fmt, names, nullable) == [fmt |-> fmt, names |-> names, nullable |-> nullable]

One == << <<"N">> >>
Two == << <<"N">>, <<"n">> >>

MCJobs ==
  {Job(fmt, One, <<b>>) : fmt \in Formats, b \in BOOLEAN}
  \cup {Job(fmt, Two, <<b, FALSE>>) : fmt \in Formats, b \in {TRUE}}
  \cup {Job(fmt, <<name>>, <<TRUE>>) : fmt \in {"TSVWithNames", "CSVWithNames"},
                                       name \in {<<"sep">>, <<"bs", "N">>, <<"quote", "cr">>}}

\* Every class of bytes that the format's reader tells apart.
MCAlphabet ==
  [fmt \in Formats |->
    IF streamFormatIsCSV(fmt) THEN {"sep", "lf", "cr", "quote", "bs", "N"}
                              ELSE {"sep", "lf", "cr", "bs", "N"}]

MCCells ==
  {<< >>, <<"bs">>, <<"bs", "N">>, <<"quote">>, <<"cr">>, <<"lf">>, <<"sep">>, <<"N", "t">>, Null}

\* One row of two cells, or up to two rows of one in one block or two, with a block without rows.
MCSource(j) ==
  LET cell(c) == IF j.nullable[c] THEN MCCells ELSE MCCells \ {Null}
      ones == {<<v>> : v \in cell(1)}
  IN IF Len(j.names) = 2
     THEN {<< << >>, << <<v, w>> >> >> : v \in cell(1), w \in cell(2)}
     ELSE {<< >>, << << >> >>} \cup {<< <<r>>, <<s>> >> : r \in ones, s \in ones}
          \cup {<< <<r, s>> >> : r \in ones, s \in {<< <<"N", "t">> >>, << << >> >>}}

\* A byte, or all.
MCWrites(n) == {1, n}

=============================================================================
