------------------------------- MODULE MCCompany -------------------------------
(***************************************************************************)
(* Small instances, for TLC, of a company's books and of its set-up.  They *)
(* share no variable: each behaviour is one of them, chosen at the start,  *)
(* so that their states add up.                                            *)
(***************************************************************************)
EXTENDS Books, CompanySetup, TLC

CONSTANTS t1, t2, c1, c2, dash, prod

\* One thing may happen at the end of the day before last or of a year's first
\* day, the other on the last tick of a day.
TwoTimes == t1 :> {20, 23} @@ t2 :> {23}
OneAmount == t1 :> {1} @@ t2 :> {2}

\* Of the second a person may credit more than it was worth.
OneClaim == t1 :> {} @@ t2 :> {5}

\* A report on the last day but one of the figures.
OneReport == {[key |-> "revenue", from |-> 20, to |-> 23, value |-> 3],
              [key |-> "losses", from |-> 20, to |-> 23, value |-> 4],
              [key |-> "costs", from |-> 20, to |-> 23, value |-> 1]}

TwoLayouts == {{"m1"}, {"m2"}}
LastOnly == {<<{}, {prod}>>, <<{prod}, {prod}>>}
NoneOrAll == {{}, {dash, prod}}

CompanySymmetry == Permutations(SetupCalls)

VARIABLE part

MCInit ==
    /\ part \in {"books", "setup"}
    /\ BooksInit /\ (part # "books" => now = 23)
    /\ SetupInit /\ (part # "setup" => ~legacy)

MCNext ==
    \/ part = "books" /\ BooksNext /\ UNCHANGED <<part, setupVars>>
    \/ part = "setup" /\ SetupNext /\ UNCHANGED <<part, bookVars>>

MCSpec == MCInit /\ [][MCNext]_<<part, bookVars, setupVars>>

\* The properties of the books, evaluated in their part only.

\* Every figure of the dashboard and of the metrics counts what happened in its
\* period once, but for what is booked twice, its curve adds up to it, and what is
\* credited to the attendant is a sale in the books, with its date, and with its amount
\* or the one stated for the credit.
FiguresAddUp == part = "books" => BooksAddUp /\ TimelineAddsUp /\ CreditsAreSales

\* What the metrics and the sales page show as today they show as yesterday, and as
\* the period compared with, a day later; and the arrows beside the figures tell
\* which way they went, but from zero.
FiguresCompare == part = "books" => DaysChain /\ ArrowTells
=============================================================================
