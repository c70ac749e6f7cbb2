------------------------------- MODULE CsvText -------------------------------
(***************************************************************************)
(* How a CSV text becomes rows: parseCsv of csv-imports.service.ts, which  *)
(* intelligent-import-ai.service.ts repeats word for word, against the     *)
(* text that RFC 4180 writes for a table.  A text is a sequence of tokens: *)
(* a letter, a delimiter, a quote, a line feed.                            *)
(*                                                                         *)
(* splitCsvRecords drops the quotes it reads, so that parseCsvRecord       *)
(* splits a field at a delimiter it should have kept; only line feeds are  *)
(* protected.                                                              *)
(***************************************************************************)
EXTENDS Naturals, Sequences, SequencesExt, Functions, TLC

CONSTANT CsvTables      \* tables, as sequences of records of fields

VARIABLE table          \* the table, and the delimiter it is written with

QuoteSign == "q"
LineFeed == "n"
Separators == <<",", ";">>

-----------------------------------------------------------------------------

\* What both scanners do with a quote: two within quotes are one, another one
\* begins or ends a quotation.  st.skip marks the second of two.
OnQuote(st, next) ==
    IF st.quoted /\ next = QuoteSign
    THEN [st EXCEPT !.cur = Append(@, QuoteSign), !.skip = TRUE]
    ELSE [st EXCEPT !.quoted = ~@]

\* Reads text, cutting at cut outside quotations.
Scan(text, cut) ==
    LET Step(st, i) ==
          IF st.skip THEN [st EXCEPT !.skip = FALSE]
          ELSE IF text[i] = QuoteSign
          THEN OnQuote(st, IF i < Len(text) THEN text[i + 1] ELSE cut)
          ELSE IF text[i] = cut /\ ~st.quoted
          THEN [st EXCEPT !.out = Append(@, st.cur), !.cur = <<>>]
          ELSE [st EXCEPT !.cur = Append(@, text[i])]
    IN  FoldLeft(Step, [cur |-> <<>>, out |-> <<>>, quoted |-> FALSE, skip |-> FALSE],
                 [i \in 1..Len(text) |-> i])

\* Mutant: a line feed ends the record in quotations too.
SplitRecordsAlways(text) ==
    LET st == FoldLeft(LAMBDA s, x : IF x = LineFeed
                         THEN [s EXCEPT !.out = Append(@, s.cur), !.cur = <<>>]
                         ELSE [s EXCEPT !.cur = Append(@, x)],
                       [cur |-> <<>>, out |-> <<>>], text)
    IN  IF st.cur = <<>> THEN st.out ELSE Append(st.out, st.cur)

\* splitCsvRecords.
SplitRecords(text) ==
    LET st == Scan(text, LineFeed)
    IN  IF st.cur = <<>> THEN st.out ELSE Append(st.out, st.cur)

\* parseCsvRecord.
ParseRecord(record, delimiter) ==
    LET st == Scan(record, delimiter) IN Append(st.out, st.cur)

\* detectDelimiter: the first of those that cut the header into most fields.
DetectDelimiter(header) ==
    FoldLeft(LAMBDA best, d :
        IF Len(ParseRecord(header, d)) > Len(ParseRecord(header, best)) THEN d ELSE best,
        Separators[1], Separators)

\* Mutant: repeated names are left as they are.
NormalizeHeadersPlain(header) ==
    [i \in 1..Len(header) |->
        IF header[i] = <<>> THEN <<"coluna", ToString(i)>> ELSE header[i]]

\* normalizeHeaders: the second column of a name is called name_2.
NormalizeHeaders(header) ==
    LET base == [i \in 1..Len(header) |->
                   IF header[i] = <<>> THEN <<"coluna", ToString(i)>> ELSE header[i]]
        Nth(i) == Len(SelectSeq(SubSeq(base, 1, i), LAMBDA b : b = base[i]))
    IN  [i \in 1..Len(base) |->
           IF Nth(i) = 1 THEN base[i] ELSE Append(base[i], "_" \o ToString(Nth(i)))]

\* parseCsv up to buildRow: blank records and rows without any value are left out.
ParseText(text) ==
    LET records == SelectSeq(SplitRecords(text), LAMBDA r : r # <<>>)
        delimiter == DetectDelimiter(records[1])
        rows == [i \in 1..Len(records) |-> ParseRecord(records[i], delimiter)]
    IN  IF records = <<>> THEN <<>>
        ELSE SelectSeq(rows, LAMBDA row : \E i \in 1..Len(row) : row[i] # <<>>)

\* buildRow: the values under the names of the columns, the last one of a name.
BuildRow(names, values) ==
    [n \in Range(names) |->
        LET i == CHOOSE i \in 1..Len(names) :
                    names[i] = n /\ \A j \in i + 1..Len(names) : names[j] # n
        IN  IF i <= Len(values) THEN values[i] ELSE <<>>]

\* The text as the analysis of intelligent imports reads it: the same parser.
ParseForAnalysis(text) == ParseText(text)

-----------------------------------------------------------------------------
(* RFC 4180 *)

Special == {QuoteSign, LineFeed} \cup Range(Separators)

Quoted(field) ==
    <<QuoteSign>>
      \o FlattenSeq([i \in 1..Len(field) |->
            IF field[i] = QuoteSign THEN <<QuoteSign, QuoteSign>> ELSE <<field[i]>>])
      \o <<QuoteSign>>

WriteField(field) ==
    IF Range(field) \cap Special # {} THEN Quoted(field) ELSE field

Joined(parts, between) ==
    FoldLeft(LAMBDA text, i : IF i = 1 THEN parts[i] ELSE text \o <<between>> \o parts[i],
             <<>>, [i \in 1..Len(parts) |-> i])

WriteTable(t) ==
    Joined([i \in 1..Len(t.rows) |->
        Joined([j \in 1..Len(t.rows[i]) |-> WriteField(t.rows[i][j])], t.delimiter)],
        LineFeed)

-----------------------------------------------------------------------------

TextInit == table \in [rows : CsvTables, delimiter : Range(Separators)]

HoldsToken(t, x) ==
    \E i \in 1..Len(t.rows) : \E j \in 1..Len(t.rows[i]) : Contains(t.rows[i][j], x)
Blank(record) == \A j \in 1..Len(record) : record[j] = <<>>

\* A table comes back as it was written, without its blank records, whatever its
\* delimiter, if no field holds a delimiter or a quote; line feeds in fields are kept.
\* Where fields hold its delimiter each record is still found, but its fields are cut;
\* where they hold another one, that one may be taken for the delimiter.
CsvReadsBack ==
    LET rows == ParseText(WriteTable(table))
        expected == SelectSeq(table.rows, LAMBDA record : ~Blank(record))
        held == {x \in Special : HoldsToken(table, x)}
    IN  held \subseteq {LineFeed, table.delimiter} =>
          /\ Len(rows) = Len(expected)
          /\ table.delimiter \notin held => rows = expected

\* Each column's value is found under a name of its own, however often the header
\* repeats a name or leaves it out, unless it holds a name like name_2 itself.
CsvColumnsKept ==
    LET names == NormalizeHeaders(table.rows[1])
        values == table.rows[2]
    IN  ~HoldsToken(table, "_2") =>
          \A i \in 1..Len(names) : BuildRow(names, values)[names[i]] = values[i]
=============================================================================
