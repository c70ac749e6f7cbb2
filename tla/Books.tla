------------------------------- MODULE Books -------------------------------
(***************************************************************************)
(* The company's books: the rows of sales, financial transactions,         *)
(* operational costs and ad spend that every way of taking in a record     *)
(* writes, and the figures that the dashboard, the metrics and the sales   *)
(* page compute from them.  A sale that comes from a channel is written    *)
(* twice, as a sale and as an income; the figures are to count it once.    *)
(*                                                                         *)
(* Time is in ticks of local time.  A day is two buckets of the timeline,  *)
(* a month MonthLen days and a year YearLen months.  The database keeps    *)
(* instants: local time is Zone ticks behind them.                         *)
(***************************************************************************)
EXTENDS Integers, FiniteSets, Functions

CONSTANTS
    Things,      \* what may happen and be recorded: a sale, a cost, ...
    Times,       \* when each may happen, in ticks of local time
    Nows,        \* when the figures are looked at
    Amounts,     \* what each may be worth, positive
    Claims,      \* revenue of each that a person may state for the attendant
    DayTicks,    \* ticks of a day, even
    WeekDays,    \* days of the week's figures, 7 in the code
    ThirtyDays,  \* days of the month's figures, 30 in the code
    MonthLen,    \* days of a calendar month
    YearLen,     \* months of a year, 12 in the code
    Zone,        \* ticks that local time is behind UTC
    Imports,     \* figures that an imported report states
    MaxBooked    \* bound: things taken in

ASSUME BooksAssumption ==
    /\ IsFiniteSet(Things) /\ MaxBooked \in Nat
    /\ Times \in [Things -> SUBSET Nat] /\ Nows \subseteq Nat
    /\ Amounts \in [Things -> SUBSET (Nat \ {0})] /\ Claims \in [Things -> SUBSET Nat]
    /\ DayTicks \in Nat \ {0} /\ DayTicks % 2 = 0
    /\ {WeekDays, ThirtyDays, MonthLen, YearLen} \subseteq Nat \ {0}
    /\ Zone \in Nat
    /\ IsFiniteSet(Imports)
    /\ \A f \in Imports : {f.from, f.to, f.value} \subseteq Int

VARIABLES
    rows,     \* what the tables hold
    credits,  \* SaleAIAttribution: the sales credited to the attendant
    imported, \* ImportedMetric: the figures of the report, once confirmed
    unitCost, \* cost, tax and shipping of the one product in the catalogue
    real,     \* history: what happened
    again,    \* history: what was booked once more than it happened
    changed,  \* history: sales changed or booked again after their credit
    now

bookVars == <<rows, credits, imported, unitCost, real, again, changed, now>>

Tables == {"sale", "income", "expense", "cost", "ad"}
\* The sources that isSaleBackedIncomeTransaction knows, and none.
Channels == {"mercadolivre", "whatsapp", "instagram", "intelligent_import"}

Instants == UNION {Times[i] : i \in Things}
Values == UNION {Amounts[i] : i \in Things}
Stateable == UNION {Claims[i] : i \in Things}
Row == [table : Tables, id : Things, copy : Nat, source : Channels \cup {"none"},
        at : Instants, amount : Values]
Happening == [id : Things, way : {"in", "out"}, copy : Nat, at : Instants, amount : Values]

BooksTypeOK ==
    /\ rows \subseteq Row
    /\ credits \subseteq [id : Things, copy : Nat, at : Instants, amount : Values \cup Stateable]
    /\ imported \subseteq Imports
    /\ unitCost \in 0..1
    /\ real \subseteq Happening
    /\ again \subseteq Happening
    /\ changed \subseteq Things
    /\ now \in Nows

Total(S) == SumFunction([r \in S |-> r.amount])
-----------------------------------------------------------------------------
(* Periods.  Both ends are included: an end is the last tick before it.    *)

DayStart(t) == (t \div DayTicks) * DayTicks
DayEnd(t) == DayStart(t) + DayTicks - 1
MonthOf(t) == t \div (DayTicks * MonthLen)
MonthStart(m) == m * DayTicks * MonthLen
Back(t, days) == DayStart(t) - days * DayTicks
Span(from, to) == [from |-> from, to |-> to]

\* resolvePeriodRange: today ends now, everything else at the end of a day.
SummaryRange(p, n) ==
    CASE p = "today" -> Span(DayStart(n), n)
      [] p = "yesterday" -> Span(Back(n, 1), DayEnd(Back(n, 1)))
      [] p = "week" -> Span(Back(n, WeekDays - 1), DayEnd(n))
      [] p = "month" -> Span(Back(n, ThirtyDays - 1), DayEnd(n))
      [] p = "year" -> Span(MonthStart(MonthOf(n) - (YearLen - 1)), DayEnd(n))

SummaryPeriods == {"today", "yesterday", "week", "month", "year"}

\* resolveMetricsPeriod: month and year are those of the calendar.
MetricsRange(p, n) ==
    CASE p = "today" -> Span(DayStart(n), DayEnd(n))
      [] p = "yesterday" -> Span(Back(n, 1), DayEnd(Back(n, 1)))
      [] p = "7d" -> Span(Back(n, WeekDays - 1), DayEnd(n))
      [] p = "30d" -> Span(Back(n, ThirtyDays - 1), DayEnd(n))
      [] p = "month" -> Span(MonthStart(MonthOf(n)), DayEnd(n))
      [] p = "year" -> Span(MonthStart((MonthOf(n) \div YearLen) * YearLen), DayEnd(n))

MetricsPeriods == {"today", "yesterday", "7d", "30d", "month", "year"}

\* Mutant: of the same length but for the two ends.
PreviousShort(s) == Span(s.from - (s.to - s.from), s.from - 1)

\* The period before, of the same length.
Previous(s) == Span(s.from - 1 - (s.to - s.from), s.from - 1)

\* The sales page counts in UTC: its yesterday ends where today starts.
UtcDayStart(n) == DayStart(n + Zone) - Zone
SalesToday(n) == Span(UtcDayStart(n), UtcDayStart(n) + DayTicks - 1)
SalesYesterday(n) == Span(UtcDayStart(n) - DayTicks, UtcDayStart(n))

In(s) == {r \in rows : s.from <= r.at /\ r.at <= s.to}
-----------------------------------------------------------------------------
(* Figures.                                                                *)

\* Mutant: only the market's incomes are known to have a sale.
SaleBackedMarket(r) == r.table = "income" /\ r.source = "mercadolivre"

SaleBacked(r) == r.table = "income" /\ r.source \in Channels
RevenueRows(s) ==
    {r \in In(s) : r.table = "sale" \/ (r.table = "income" /\ ~SaleBacked(r))}
LossRows(s) == {r \in In(s) : r.table \in {"expense", "ad", "cost"}}

\* getSummary.
Revenue(s) == Total(RevenueRows(s))
Losses(s) == Total(LossRows(s))

SalesIn(s) == {r \in In(s) : r.table = "sale"}
TableIn(t, s) == Total({r \in In(s) : r.table = t})

\* A figure that nothing is booked for is taken from the reports whose period
\* touches s, however much longer theirs is.
Stated(key, s) ==
    LET touching == {f \in imported : f.key = key /\ f.from <= s.to /\ s.from <= f.to}
    IN  SumFunction([f \in touching |-> f.value])
OrStated(booked, key, s) == IF booked > 0 THEN booked ELSE Stated(key, s)

\* calculateMetricTotals: income less what is backed by a sale, and every sale
\* costs its product once.
Metrics(s) ==
    LET income == {r \in In(s) : r.table = "income"}
        backed == {r \in In(s) : SaleBacked(r)}
        revenue == OrStated(Total(SalesIn(s)) + Total(income) - Total(backed), "revenue", s)
        costs == OrStated(TableIn("cost", s), "costs", s)
        expenses == OrStated(TableIn("expense", s), "expenses", s)
        cashOut == expenses + costs + TableIn("ad", s)
        outflows == OrStated(cashOut + unitCost * Cardinality(SalesIn(s)), "losses", s)
        sales == Cardinality(SalesIn(s)) + Cardinality(income) - Cardinality(backed)
    IN  [revenue |-> revenue,
         outflows |-> outflows,
         profit |-> IF revenue > 0 \/ outflows > 0 THEN revenue - outflows ELSE Stated("profit", s),
         cash |-> IF \E booked \in {revenue, expenses, costs, TableIn("ad", s)} : booked > 0
                  THEN revenue - cashOut ELSE Stated("cash", s),
         sales |-> OrStated(sales, "orders", s)]

\* Mutant: the change is taken of the signed figure before.
DirectionSigned(value, before) ==
    IF before = 0 THEN (IF value = 0 THEN "flat" ELSE "up")
    ELSE IF before * (value - before) > 0 THEN "up"
    ELSE IF before * (value - before) < 0 THEN "down" ELSE "flat"

\* buildComparison: the change in hundredths of a percent, rounded, of the figure
\* before, whose sign is dropped.
Direction(value, before) ==
    LET size == IF before < 0 THEN -before ELSE before
        change == (20000 * (value - before) + size) \div (2 * size)
    IN  IF before = 0 THEN (IF value = 0 THEN "flat" ELSE "up")
        ELSE IF change > 0 THEN "up" ELSE IF change < 0 THEN "down" ELSE "flat"

\* getMetrics: the figures of a period and of the one before.
Compared(p, n) ==
    LET s == MetricsRange(p, n) IN [this |-> Metrics(s), before |-> Metrics(Previous(s))]

\* Where the timeline puts an instant, and the labels it draws.
Label(p, t) ==
    CASE p \in {"today", "yesterday"} -> (t % DayTicks) \div (DayTicks \div 2)
      [] p = "year" -> MonthOf(t) % YearLen
      [] OTHER -> t \div DayTicks
Labels(p, s) ==
    CASE p \in {"today", "yesterday"} -> {0, 1}
      [] p = "year" -> {(MonthOf(s.from) + i) % YearLen : i \in 0..(YearLen - 1)}
      [] OTHER -> (s.from \div DayTicks)..(s.to \div DayTicks)

\* Mutant: incomes that a sale backs are drawn too.
TimelineUnbacked(p, s) ==
    [l \in Labels(p, s) |->
        [inflow |-> Total({r \in In(s) : r.table \in {"sale", "income"} /\ Label(p, r.at) = l}),
         outflow |-> Total({r \in LossRows(s) : Label(p, r.at) = l})]]

\* buildTimeline: rows whose label is not drawn are left out.
Timeline(p, s) ==
    [l \in Labels(p, s) |->
        [inflow |-> Total({r \in RevenueRows(s) : Label(p, r.at) = l}),
         outflow |-> Total({r \in LossRows(s) : Label(p, r.at) = l})]]

\* sumByUserInPeriod, and the sums of getDashboardAggregates.
SalesSum(s) == Total(SalesIn(s))
-----------------------------------------------------------------------------
(* Taking things in.                                                       *)

NewRow(table, i, copy, source, at, a) ==
    [table |-> table, id |-> i, copy |-> copy, source |-> source, at |-> at, amount |-> a]
Event(i, way, copy, at, a) ==
    [id |-> i, way |-> way, copy |-> copy, at |-> at, amount |-> a]

Of(S, i) == {r \in S : r.id = i}
Without(S, i) == S \ Of(S, i)
Sales(i) == {r \in Of(rows, i) : r.table = "sale"}
MayBook(i) == Of(real, i) = {} /\ Cardinality({r.id : r \in rows} \cup {i}) <= MaxBooked

\* The rows of i in the tables of new, replaced by new.
Upsert(i, new) == {r \in rows : r.id # i \/ r.table \notin {n.table : n \in new}} \cup new

\* A credit of r, worth w.
Credit(r, w) == [id |-> r.id, copy |-> r.copy, at |-> r.at, amount |-> w]

\* Something that happened once and is written once.
Take(i, way, new, at, a) ==
    /\ MayBook(i)
    /\ rows' = Upsert(i, new)
    /\ real' = real \cup {Event(i, way, 0, at, a)}

\* SalesService.create: the sale is stored, then its credit, worth what the person
\* states or else the sale, then the event that tells of it.  When the credit is
\* refused or the event fails so does the request, but what was stored stays, and
\* the user may enter the sale again.
EnterSale(i, at, a) ==
    LET copy == Cardinality(Sales(i))
        sale == NewRow("sale", i, copy, "none", at, a)
        entered == Event(i, "in", copy, at, a)
    IN  /\ MayBook(i) /\ Of(rows, i) = Sales(i) /\ copy < 2
        /\ \A r \in Sales(i) : r.at = at /\ r.amount = a
        /\ rows' = rows \cup {sale}
        /\ \/ credits' = credits
           \/ \E w \in {a} \cup Claims[i] : credits' = credits \cup {Credit(sale, w)}
        /\ \/ real' = real \cup {entered} /\ UNCHANGED again
           \/ again' = again \cup {entered} /\ UNCHANGED real
        /\ UNCHANGED <<imported, unitCost, changed, now>>

AttributeSale(i) ==
    /\ \E r \in Sales(i) : \E w \in {r.amount} \cup Claims[i] :
          credits' = {c \in credits : c.id # i \/ c.copy # r.copy} \cup {Credit(r, w)}
    /\ changed' = IF Cardinality(Sales(i)) = 1 THEN changed \ {i} ELSE changed
    /\ UNCHANGED <<rows, imported, unitCost, real, again, now>>

\* SalesService.update: the credit keeps the amount and the date it had.
ChangeSale(i, at, a) ==
    /\ Of(again, i) = {}
    /\ \E r \in Sales(i) : rows' = (rows \ {r}) \cup {[r EXCEPT !.at = at, !.amount = a]}
    /\ real' = Without(real, i) \cup {Event(i, "in", 0, at, a)}
    /\ changed' = changed \cup {i}
    /\ UNCHANGED <<credits, imported, unitCost, again, now>>

\* Mutant: the credit stays.
RemoveSaleOnly(i) ==
    /\ Of(again, i) = {}
    /\ \E r \in Sales(i) : rows' = rows \ {r}
    /\ real' = Without(real, i)
    /\ UNCHANGED <<credits, imported, unitCost, again, changed, now>>

\* SalesService.remove, with the cascade to the credit.
RemoveSale(i) ==
    /\ Of(again, i) = {}
    /\ \E r \in Sales(i) :
          /\ rows' = rows \ {r}
          /\ credits' = {c \in credits : c.id # i \/ c.copy # r.copy}
    /\ real' = Without(real, i)
    /\ UNCHANGED <<imported, unitCost, again, changed, now>>

\* FinanceService.createTransaction.
EnterTransaction(i, at, a) ==
    /\ Of(rows, i) = {}
    /\ \/ Take(i, "in", {NewRow("income", i, 0, "none", at, a)}, at, a)
       \/ Take(i, "out", {NewRow("expense", i, 0, "none", at, a)}, at, a)
    /\ UNCHANGED <<credits, imported, unitCost, again, changed, now>>

\* CostsService.create, update and remove.
EnterCost(i, at, a) ==
    /\ Of(rows, i) = {}
    /\ Take(i, "out", {NewRow("cost", i, 0, "none", at, a)}, at, a)
    /\ UNCHANGED <<credits, imported, unitCost, again, changed, now>>

ChangeCost(i, at, a) ==
    /\ Of(again, i) = {}
    /\ \E r \in Of(rows, i) :
          /\ r.table = "cost"
          /\ rows' = (rows \ {r}) \cup {[r EXCEPT !.at = at, !.amount = a]}
    /\ real' = Without(real, i) \cup {Event(i, "out", 0, at, a)}
    /\ UNCHANGED <<credits, imported, unitCost, again, changed, now>>

RemoveCost(i) ==
    /\ Of(again, i) = {}
    /\ \E r \in Of(rows, i) : r.table = "cost" /\ rows' = rows \ {r}
    /\ real' = Without(real, i)
    /\ UNCHANGED <<credits, imported, unitCost, again, changed, now>>

\* A line of a CSV file: refused when an equal row is there already.
ImportLine(i, at, a, table) ==
    /\ Of(rows, i) = {}
    /\ ~\E r \in rows : r.table = table /\ r.at = at /\ r.amount = a
    /\ Take(i, IF table = "sale" THEN "in" ELSE "out", {NewRow(table, i, 0, "none", at, a)}, at, a)
    /\ UNCHANGED <<credits, imported, unitCost, again, changed, now>>

\* A sale of a channel, written or brought up to date: an order of the market, a
\* sale booked by the attendant, which is credited, or an imported order.
Both(i, source, at, a) ==
    {NewRow("sale", i, 0, source, at, a), NewRow("income", i, 0, source, at, a)}

Channel(i, source, at, a) ==
    /\ Of(again, i) = {}
    /\ \A r \in Of(rows, i) : r.source = source
    /\ Cardinality({r.id : r \in rows} \cup {i}) <= MaxBooked
    /\ rows' = Upsert(i, Both(i, source, at, a))
    /\ real' = Without(real, i) \cup {Event(i, "in", 0, at, a)}

SyncOrder(i, at, a) ==
    /\ Channel(i, "mercadolivre", at, a)
    /\ changed' = changed \cup {c.id : c \in Of(credits, i)}
    /\ UNCHANGED <<credits, imported, unitCost, again, now>>

BookAttended(i, source, at, a) ==
    /\ Channel(i, source, at, a)
    /\ credits' = Without(credits, i) \cup {Credit(NewRow("sale", i, 0, source, at, a), a)}
    /\ changed' = changed \ {i}
    /\ UNCHANGED <<imported, unitCost, again, now>>

ImportOrder(i, at, a) ==
    /\ Channel(i, "intelligent_import", at, a)
    /\ changed' = changed \cup {c.id : c \in Of(credits, i)}
    /\ UNCHANGED <<credits, imported, unitCost, again, now>>

\* An imported cost is an operational cost and an expense: it is lost twice.
ImportCost(i, at, a) ==
    /\ Of(rows, i) = {}
    /\ Take(i, "out", {NewRow("cost", i, 0, "intelligent_import", at, a),
                       NewRow("expense", i, 0, "intelligent_import", at, a)}, at, a)
    /\ again' = again \cup {Event(i, "out", 1, at, a)}
    /\ UNCHANGED <<credits, imported, unitCost, changed, now>>

\* The webhook of Shopify writes a sale for every delivery, of the order's
\* creation as of its changes; that of Meta a spend, dated when it arrives.
Repeated(i, table, way, at, a) ==
    LET copy == Cardinality(Of(rows, i))
    IN  /\ Cardinality({r.id : r \in rows} \cup {i}) <= MaxBooked /\ copy < 2
        /\ \A r \in Of(rows, i) : r.table = table /\ r.source = "none"
        /\ copy = 1 => Of(real, i) # {}
        /\ rows' = rows \cup {NewRow(table, i, copy, "none", at, a)}
        /\ IF copy = 0
           THEN real' = real \cup {Event(i, way, 0, at, a)} /\ UNCHANGED again
           ELSE again' = again \cup {Event(i, way, copy, at, a)} /\ UNCHANGED real
        /\ UNCHANGED <<credits, imported, unitCost, changed, now>>

ShopifyOrder(i, at, a) ==
    /\ \A r \in Of(rows, i) : r.at = at
    /\ Repeated(i, "sale", "in", at, a)
MetaSpend(i, a) == now \in Times[i] /\ Repeated(i, "ad", "out", now, a)

\* ProductsService.create, update and remove of the product that is sold.
EditProduct ==
    /\ unitCost' \in 0..1 \ {unitCost}
    /\ UNCHANGED <<rows, credits, imported, real, again, changed, now>>

Pass ==
    /\ now' \in {n \in Nows : n > now}
    /\ UNCHANGED <<rows, credits, imported, unitCost, real, again, changed>>

\* A report is confirmed: the figures it states are kept, of the period it names.
ConfirmReport ==
    /\ imported = {} /\ imported' = Imports
    /\ UNCHANGED <<rows, credits, unitCost, real, again, changed, now>>

BooksInit ==
    /\ rows = {} /\ credits = {} /\ imported = {} /\ unitCost = 0
    /\ real = {} /\ again = {} /\ changed = {}
    /\ now \in Nows

BooksNext ==
    \/ \E i \in Things : \E at \in Times[i], a \in Amounts[i] :
          \/ EnterSale(i, at, a) \/ ChangeSale(i, at, a)
          \/ EnterTransaction(i, at, a)
          \/ EnterCost(i, at, a) \/ ChangeCost(i, at, a)
          \/ SyncOrder(i, at, a) \/ ImportOrder(i, at, a) \/ ImportCost(i, at, a)
          \/ ShopifyOrder(i, at, a) \/ MetaSpend(i, a)
          \/ \E t \in {"sale", "cost", "ad"} : ImportLine(i, at, a, t)
          \/ \E c \in {"whatsapp", "instagram"} : BookAttended(i, c, at, a)
    \/ \E i \in Things : AttributeSale(i) \/ RemoveSale(i) \/ RemoveCost(i)
    \/ EditProduct \/ ConfirmReport \/ Pass
-----------------------------------------------------------------------------
(* Properties.                                                             *)

Truth(way, s) ==
    Total({e \in real \cup again : e.way = way /\ s.from <= e.at /\ e.at <= s.to})
Filled(table, key, s) == IF TableIn(table, s) > 0 THEN 0 ELSE Stated(key, s)

\* In every period the dashboard and the metrics show what happened in it, each
\* thing once whichever way it was taken in, and nothing is shown twice but what
\* is booked twice: a sale kept although its request failed, an imported
\* cost, and an order or a spend of a webhook delivered again.  The metrics show
\* what a report states only where nothing happened, and count the costs and the
\* expenses it states only where none is booked.
BooksAddUp ==
    /\ \A p \in SummaryPeriods :
          LET s == SummaryRange(p, now) IN Revenue(s) = Truth("in", s) /\ Losses(s) = Truth("out", s)
    /\ \A p \in MetricsPeriods :
          LET s == MetricsRange(p, now)
              figures == Metrics(s)
              earned == Truth("in", s)
              spent == Truth("out", s) + Filled("expense", "expenses", s)
                           + Filled("cost", "costs", s) + unitCost * Cardinality(SalesIn(s))
          IN  /\ figures.revenue = (IF earned > 0 THEN earned ELSE Stated("revenue", s))
              /\ figures.outflows = (IF spent > 0 THEN spent ELSE Stated("losses", s))

\* The curve of every period adds up to the figures above it: every row of the
\* period falls on a label that is drawn.
TimelineAddsUp ==
    \A p \in SummaryPeriods :
        LET s == SummaryRange(p, now)
            line == Timeline(p, s)
        IN  /\ SumFunction([l \in DOMAIN line |-> line[l].inflow]) = Revenue(s)
            /\ SumFunction([l \in DOMAIN line |-> line[l].outflow]) = Losses(s)

\* What the metrics show for a day is what they show the next day as yesterday,
\* and as the period that today is compared with; the sales page shows as
\* yesterday the sales of the first instant of today besides.
DaysChain ==
    LET next == now + DayTicks
    IN  /\ Metrics(MetricsRange("today", now)) = Metrics(MetricsRange("yesterday", next))
        /\ Metrics(MetricsRange("today", now)) = Metrics(Previous(MetricsRange("today", next)))
        /\ SalesSum(SalesYesterday(next)) =
              SalesSum(SalesToday(now)) + SalesSum(Span(UtcDayStart(next), UtcDayStart(next)))

\* Half of a hundredth of a percent, the least change that is not rounded away.
Noticed(value, before) ==
    \E change \in {value - before, before - value} :
        20000 * change > before /\ 20000 * change > -before

\* The arrow beside a figure never points up when it fell nor down when it rose,
\* figures below zero included, and is missing only beside a change too small to
\* be written; from zero a fall is drawn as a rise.
ArrowTells ==
    \A p \in {"today", "month"} :
        LET c == Compared(p, now)
        IN  \A k \in {"revenue", "profit", "cash"} :
                LET arrow == Direction(c.this[k], c.before[k])
                IN  /\ arrow = "up" => c.this[k] > c.before[k] \/ c.before[k] = 0
                    /\ arrow = "down" => c.this[k] < c.before[k]
                    /\ arrow = "flat" => ~Noticed(c.this[k], c.before[k])

\* The revenue credited to the attendant is revenue, whatever else becomes of the
\* sale: each credit is of a sale in the books, one that was removed has none, and
\* dated as it.  It is worth the sale, or what a person stated for it in place of
\* that, as in the repository's own check (900 of a sale of 1200).  Date and worth
\* stay behind only when the sale is changed, or its channel books it anew, without
\* being credited again.
CreditsAreSales ==
    \A c \in credits :
        \E r \in rows :
            /\ r.table = "sale" /\ r.id = c.id /\ r.copy = c.copy
            /\ c.id \notin changed => r.at = c.at
            /\ c.id \notin changed /\ c.amount \notin Claims[c.id] => c.amount = r.amount
=============================================================================
