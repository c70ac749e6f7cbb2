----------------------------- MODULE MCBackOffice ------------------------------
(***************************************************************************)
(* Small instances, for TLC, of what serves a company's own people: the    *)
(* imports by which records enter its books and their sign-ins.  The       *)
(* modules share no variable: each behaviour is one of them, chosen at the *)
(* start, so that their states add up.                                     *)
(***************************************************************************)
EXTENDS ImportReview, CsvImport, CsvText, AmountText, Sessions

CONSTANTS i1, i2, o1, o2, k1, k2, p1, p2, p3, f1, f2

\* Two entities are the same order with different amounts, two costs have one name and
\* amount, two customers have no name, and there is a product.
KindOfEntity ==
    [e \in {o1, o2} |-> "order"] @@ [e \in {k1, k2} |-> "cost"] @@ [e \in {p1, p2, p3} |-> "contact"]
KeyOf ==
    [e \in {o1, o2} |-> "order"] @@ [e \in {k1, k2} |-> "cost"] @@ [e \in {p1, p2, p3} |-> "other"]
MarksOf ==
    p1 :> {"importado", "a@x"} @@ p2 :> {"importado", "b@x"} @@ p3 :> {"mug"}
      @@ [e \in {o1, o2, k1, k2} |-> {}]
ColumnOf == "importado" :> "name" @@ "a@x" :> "email" @@ "b@x" :> "email" @@ "mug" :> "product"

\* One mapping makes a line unreadable; under the other only the first line finds the second.
ReadingOf == f1 :> <<"u", "invalid">> @@ f2 :> <<"w", "v">>

\* u and v have one e-mail, which w has not: it has only the name of v.
Findings == {<<"u", "u">>, <<"v", "v">>, <<"w", "w">>, <<"u", "v">>, <<"v", "u">>, <<"w", "v">>}

SomeExtractions == {{}, {o1, k1, k2}, {o1, o2, p1, p2, p3}}

FieldsOfTables == {<<>>, <<"a">>, <<"a", "_2">>, <<"a", "n", "a">>, <<"a", ",", "a">>, <<"q">>}
Tables == [1..2 -> [1..2 -> FieldsOfTables]]

BackOfficeSymmetry == Permutations(ImportCalls)

VARIABLE part
pureVars == <<table, amount>>

SomeTable == [rows |-> CHOOSE t \in CsvTables : TRUE, delimiter |-> ","]
SomeAmount == [whole |-> 1, cents |-> FALSE, grouped |-> FALSE, mark |-> ","]

MCInit ==
    /\ part \in {"review", "csv", "text", "amount", "sessions"}
    /\ ImportInit /\ CsvInit /\ SessionsInit
    /\ IF part = "text" THEN TextInit ELSE table = SomeTable
    /\ IF part = "amount" THEN AmountInit ELSE amount = SomeAmount

MCNext ==
    \/ part = "review" /\ ImportNext
       /\ UNCHANGED <<part, csvVars, pureVars, sessionVars>>
    \/ part = "csv" /\ CsvNext
       /\ UNCHANGED <<part, importVars, pureVars, sessionVars>>
    \/ part = "sessions" /\ SessionsNext
       /\ UNCHANGED <<part, importVars, csvVars, pureVars>>

MCSpec == MCInit /\ [][MCNext]_<<part, importVars, csvVars, pureVars, sessionVars>>

\* A text becomes the rows and the numbers it was written for: every table comes back,
\* each value under the header it was written under, and the amounts the readers know
\* how to read: AmountsReadBack names those they do not.
TextsReadBack == CsvReadsBack /\ CsvColumnsKept /\ AmountsReadBack
=============================================================================
