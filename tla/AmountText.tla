------------------------------ MODULE AmountText ------------------------------
(***************************************************************************)
(* How amounts of money in texts become numbers.  The code has three kinds *)
(* of readers: parseNumber of csv-imports.service.ts and its copies in     *)
(* intelligent imports and in the dashboard; extractAmount of              *)
(* attendant-data-extraction.service.ts, which reads chat messages;        *)
(* extractPriceFromHtml of market-intelligence.service.ts, which reads the *)
(* pages of competitors.                                                   *)
(*                                                                         *)
(* A text is a sequence of "d" (a digit), "." and ",".  The readers take   *)
(* the digits as they come, so that what they read is how many of them     *)
(* they take and how many of those are decimals.                           *)
(***************************************************************************)
EXTENDS Naturals, Integers, Sequences, SequencesExt, FiniteSetsExt

CONSTANT MaxDigits      \* digits before the decimals

ASSUME AmountAssumption == MaxDigits \in Nat \ {0}

VARIABLE amount         \* an amount and how it is written

-----------------------------------------------------------------------------
(* JavaScript *)

Without(text, x) == SelectSeq(text, LAMBDA y : y # x)
Has(text, x) == Contains(text, x)
Places(text, x) == {i \in 1..Len(text) : text[i] = x}
FirstPlace(text, x) == Min(Places(text, x))
LastPlace(text, x) == Max(Places(text, x) \cup {0})

\* text.replace(x, y) of two strings: the first one only.
ReplaceFirst(text, x, y) ==
    IF Has(text, x) THEN [text EXCEPT ![FirstPlace(text, x)] = y] ELSE text

NaN == [digits |-> 0, decimals |-> -1]

\* Number(text).
Numeric(text) ==
    IF Has(text, ",") \/ Cardinality(Places(text, ".")) > 1 THEN NaN
    ELSE [digits |-> Cardinality(Places(text, "d")),
          decimals |-> IF Has(text, ".") THEN Len(text) - FirstPlace(text, ".") ELSE 0]

-----------------------------------------------------------------------------
(* The readers *)

\* Mutant: a dot before a comma is taken for the decimals.
NormalizedSwapped(text) ==
    LET comma == LastPlace(text, ",") dot == LastPlace(text, ".")
    IN  IF comma > 0 /\ dot > 0
        THEN IF comma < dot THEN ReplaceFirst(Without(text, "."), ",", ".")
             ELSE Without(text, ",")
        ELSE ReplaceFirst(text, ",", ".")

\* Of two kinds of separators the later one is the decimal one.
Normalized(text) ==
    LET comma == LastPlace(text, ",") dot == LastPlace(text, ".")
    IN  IF comma > 0 /\ dot > 0
        THEN IF comma > dot THEN ReplaceFirst(Without(text, "."), ",", ".")
             ELSE Without(text, ",")
        ELSE ReplaceFirst(text, ",", ".")

ParseNumber(text) == Numeric(Normalized(text))

\* parseMetricValue, toNumber and jsonNumber take away what is left of the commas.
ParseMetricValue(text) == Numeric(Without(Normalized(text), ","))
ToNumber(text) == Numeric(Without(Normalized(text), ","))
JsonNumber(text) ==
    LET n == Numeric(Without(Normalized(text), ","))
    IN  IF n = NaN THEN [digits |-> 0, decimals |-> 0] ELSE n

DigitsFrom(text, i) ==
    LET others == {j \in i..Len(text) : text[j] # "d"}
    IN  IF others = {} THEN Len(text) - i + 1 ELSE Min(others) - i

\* Where \d{1,3}(\.\d{3})* ends, greedily.
GroupsEnd(text) ==
    LET head == Min({3, DigitsFrom(text, 1)})
        IsGroup(i) == i <= Len(text) /\ text[i] = "." /\ DigitsFrom(text, i + 1) >= 3
        Ends == {k \in 0..Len(text) : \A g \in 0..k - 1 : IsGroup(head + 4 * g + 1)}
    IN  head + 4 * Max(Ends)

\* extractAmount, for a text after "R$": the first alternative of its pattern always
\* matches, with the first three digits if nothing else.
ExtractAmount(text) ==
    LET end == GroupsEnd(text)
        raw == IF end < Len(text) /\ text[end + 1] = "," /\ DigitsFrom(text, end + 2) >= 2
               THEN SubSeq(text, 1, end + 3) ELSE SubSeq(text, 1, end)
    IN  Numeric(IF Has(raw, ",") THEN ReplaceFirst(Without(raw, "."), ",", ".") ELSE raw)

\* extractPriceFromHtml: digits, one separator, two digits; all that is a dot is
\* taken away.
ExtractPrice(text) ==
    LET n == DigitsFrom(text, 1)
    IN  IF n = Len(text) THEN NaN
        ELSE Numeric(ReplaceFirst(Without(SubSeq(text, 1, n + 3), "."), ",", "."))

-----------------------------------------------------------------------------
(* Amounts as people write them *)

Digits(n) == [i \in 1..n |-> "d"]

\* n digits in groups of three.
Grouped(n, mark) ==
    LET head == ((n - 1) % 3) + 1
    IN  FoldLeft(LAMBDA t, g : t \o <<mark>> \o Digits(3), Digits(head),
                 [g \in 1..(n - head) \div 3 |-> g])

Write(a) ==
    (IF a.grouped THEN Grouped(a.whole, IF a.mark = "," THEN "." ELSE ",")
     ELSE Digits(a.whole))
      \o (IF a.cents THEN <<a.mark>> \o Digits(2) ELSE <<>>)

Meant(a) == [digits |-> a.whole + IF a.cents THEN 2 ELSE 0,
             decimals |-> IF a.cents THEN 2 ELSE 0]

AmountInit ==
    amount \in [whole : 1..MaxDigits, cents : BOOLEAN, grouped : BOOLEAN, mark : {",", "."}]

-----------------------------------------------------------------------------
(* Properties *)

\* Files, imported tables and figures kept as text: amounts with cents are read as they
\* are meant whatever the separators, and those without if they have no thousands
\* separator, by parseNumber and by the three that go on taking away commas.  In chats that holds for Brazilian
\* amounts with cents and separated thousands and for amounts of up to three digits,
\* on pages for Brazilian prices with cents and without separated thousands: 1500 is
\* read as 150 in a chat, 1.299,90 as 129 and 49.90 as 4990 on a page.
AmountsReadBack ==
    LET text == Write(amount) meant == Meant(amount)
        short == amount.whole <= 3
        brazilian == amount.mark = ","
        readings == {ParseNumber(text), ParseMetricValue(text), ToNumber(text), JsonNumber(text)}
    IN  /\ amount.cents \/ short \/ ~amount.grouped => readings = {meant}
        /\ (IF amount.cents THEN brazilian /\ (short \/ amount.grouped) ELSE short)
           => ExtractAmount(text) = meant
        /\ amount.cents /\ brazilian /\ (short \/ ~amount.grouped)
           => ExtractPrice(text) = meant
=============================================================================
