------------------------- MODULE MercadoLivreOrders -------------------------
(***************************************************************************)
(* How orders of a Mercado Livre seller become sales and financial         *)
(* transactions (mercado-livre/mercado-livre-sync.service.ts, its webhook  *)
(* and cron services).  Mercado Livre is external: orders are created,     *)
(* paid and cancelled there, each time with a notification, which may come *)
(* again.  A notification makes one handler fetch one order and store it;  *)
(* the manual and the daily synchronisation list orders and do the same    *)
(* one after the other.  Handlers interleave at every await, and no        *)
(* transaction or lock spans the writes of one order.                      *)
(*                                                                         *)
(* Sale and FinancialTransaction are upserted by (company, channel, order) *)
(* keys, so an order has at most one of each: they are functions of the    *)
(* order, and a saved id is the fact that the order row links to it.       *)
(* Orders have one item; shipments, products, questions and reviews are    *)
(* left out, as is the access token (MercadoLivreToken).                   *)
(***************************************************************************)
EXTENDS Integers, FiniteSets

CONSTANTS
    NumOrders,      \* bound on orders, numbered as they are created
    Handlers,       \* deliveries and synchronisations served at a time
    Intakes,        \* in use: "webhook", "manual" (syncAll), "daily" (the cron)
    Redelivery,     \* notifications may come again
    MaxFaults       \* bound on failed calls and restarts

ASSUME MercadoLivreAssumption ==
    /\ NumOrders \in Nat \ {0} /\ MaxFaults \in Nat
    /\ Redelivery \in BOOLEAN
    /\ Intakes \subseteq {"webhook", "manual", "daily"}

Orders == 1..NumOrders

VARIABLES
    remote,     \* the orders at Mercado Livre
    due,        \* orders with a notification that has not come yet
    row,        \* mercadoLivreOrder rows, with their links
    items,      \* orders with their mercadoLivreOrderItem row
    sale, tx,   \* amounts of the Sale and the FinancialTransaction of an order
    covered,    \* orders created before the token's lastSyncAt
    handler,    \* deliveries and synchronisations in progress
    faults,     \* failed calls and restarts so far
    settled,    \* history: orders whose last processing ran alone, to its end,
                \* on the order as it still is
    gap         \* history: orders created while a synchronisation ran

stored == <<row, items, sale, tx>>
vars == <<remote, due, stored, covered, handler, faults, settled, gap>>

-----------------------------------------------------------------------------
(* Orders and rows *)

Missing == -1       \* no Sale or FinancialTransaction
Total == 1          \* total_amount of an order
PaidTotal == 2      \* the sum of its payments, with what the total leaves out

NoOrder == [status |-> "none", approved |-> FALSE, amount |-> 0]
OrderType == [status : {"none", "payment_required", "confirmed", "paid", "cancelled"},
              approved : BOOLEAN, amount : {0, Total, PaidTotal}]
NoRow == [status |-> "none", saleId |-> FALSE, txId |-> FALSE]
RowType == [status : {"none", "payment_required", "confirmed", "paid", "cancelled"},
            saleId : BOOLEAN, txId : BOOLEAN]
Amounts == {Missing, 0, Total, PaidTotal}

\* isRevenueOrder
IsRevenue(s) ==
    /\ s.amount > 0
    /\ s.status \notin {"cancelled", "payment_required"}
    /\ s.approved \/ s.status \in {"paid", "confirmed"}

Created == {o \in Orders : remote[o].status # "none"}

Pcs == {"idle", "fetch", "read", "sale", "tx", "zero", "row", "clear", "item", "stamp"}
Idle == [pc |-> "idle", intake |-> "none", order |-> 1, snap |-> NoOrder,
         saleId |-> FALSE, txId |-> FALSE, todo |-> {}, rest |-> {}, alone |-> FALSE]
HandlerType ==
    [pc : Pcs, intake : Intakes \cup {"none"}, order : Orders, snap : OrderType,
     saleId : BOOLEAN, txId : BOOLEAN, todo : SUBSET {"sale", "tx"},
     rest : SUBSET Orders, alone : BOOLEAN]

\* A handler has fetched an order and is storing it.
Storing(h) == handler[h].pc \in {"read", "sale", "tx", "zero", "row", "clear", "item"}

Set(h, r) == handler' = [handler EXCEPT ![h] = r]
Goto(h, pc) == Set(h, [handler[h] EXCEPT !.pc = pc])

Init ==
    /\ remote = [o \in Orders |-> NoOrder]
    /\ due = {} /\ covered = {} /\ settled = {} /\ gap = {} /\ faults = 0
    /\ row = [o \in Orders |-> NoRow]
    /\ items = {}
    /\ sale = [o \in Orders |-> Missing] /\ tx = [o \in Orders |-> Missing]
    /\ handler = [h \in Handlers |-> Idle]

-----------------------------------------------------------------------------
(* Mercado Livre *)

Change(o, s) ==
    /\ remote' = [remote EXCEPT ![o] = s]
    /\ due' = due \cup {o}
    /\ settled' = settled \ {o}
    /\ UNCHANGED <<stored, covered, handler, faults>>

CreateOrder(o) ==
    /\ Created = 1..(o - 1)
    /\ \E status \in {"payment_required", "confirmed"} :
         Change(o, [status |-> status, approved |-> FALSE, amount |-> Total])
    /\ gap' = IF \E h \in Handlers : handler[h].intake \in {"manual", "daily"}
              THEN gap \cup {o} ELSE gap

PayOrder(o) ==
    /\ remote[o].status \in {"payment_required", "confirmed"}
    /\ Change(o, [status |-> "paid", approved |-> TRUE, amount |-> PaidTotal])
    /\ UNCHANGED gap

\* A cancelled order keeps its payments, refunded later on.
CancelOrder(o) ==
    /\ remote[o].status \in {"payment_required", "confirmed", "paid"}
    /\ Change(o, [remote[o] EXCEPT !.status = "cancelled"])
    /\ UNCHANGED gap

-----------------------------------------------------------------------------
(* Taking up work *)

\* MercadoLivreWebhookService.processEvent for an order.
Deliver(h, o) ==
    /\ handler[h].pc = "idle" /\ "webhook" \in Intakes
    /\ IF Redelivery THEN o \in Created ELSE o \in due
    /\ due' = due \ {o}
    /\ Set(h, [Idle EXCEPT !.pc = "fetch", !.intake = "webhook", !.order = o])
    /\ UNCHANGED <<remote, stored, covered, faults, settled, gap>>

\* On to the next order of a list, newest first, or to the end of the loop.
TakeNext(h, intake, os) ==
    \/ /\ os = {}
       /\ Set(h, [Idle EXCEPT !.pc = "stamp", !.intake = intake])
    \/ \E o \in os :
         /\ \A p \in os : p <= o
         /\ Set(h, [Idle EXCEPT !.pc = "fetch", !.intake = intake,
                                !.order = o, !.rest = os \ {o}])

\* syncOrders: every recent order for the manual synchronisation, the orders
\* created since lastSyncAt for the daily one.
ListOrders(h, intake) ==
    /\ handler[h].pc = "idle" /\ intake \in Intakes \cap {"manual", "daily"}
    /\ TakeNext(h, intake, IF intake = "daily" THEN Created \ covered ELSE Created)
    /\ UNCHANGED <<remote, due, stored, covered, faults, settled, gap>>

\* lastSyncAt is the time at which the synchronisation ends.
Stamp(h) ==
    /\ handler[h].pc = "stamp"
    /\ covered' = Created
    /\ Set(h, Idle)
    /\ UNCHANGED <<remote, due, stored, faults, settled, gap>>

-----------------------------------------------------------------------------
(* syncOrderById and upsertOrder *)

\* GET /orders/id.  Whoever is storing the same order is no longer alone.
FetchOrder(h) ==
    /\ handler[h].pc = "fetch"
    /\ LET o == handler[h].order
           others == {g \in Handlers \ {h} : Storing(g) /\ handler[g].order = o}
       IN  /\ handler' = [g \in Handlers |->
                CASE g = h -> [handler[h] EXCEPT
                        !.pc = "read", !.snap = remote[o], !.alone = others = {}]
                  [] g \in others -> [handler[g] EXCEPT !.alone = FALSE]
                  [] OTHER -> handler[g]]
           /\ settled' = settled \ {o}
    /\ UNCHANGED <<remote, due, stored, covered, faults, gap>>

\* Mutant: an order without revenue is stored without zeroing its records.
ReadRowNoZero(h) ==
    /\ handler[h].pc = "read"
    /\ LET r == handler[h]
       IN  Set(h, [r EXCEPT !.saleId = row[r.order].saleId, !.txId = row[r.order].txId,
                            !.pc = IF IsRevenue(r.snap) THEN "sale" ELSE "row"])
    /\ UNCHANGED <<remote, due, stored, covered, faults, settled, gap>>

\* The links are read from the order row; an order without revenue has the
\* records zeroed that the row links to.
ReadRow(h) ==
    /\ handler[h].pc = "read"
    /\ LET r == handler[h]
           links == row[r.order]
           linked == {t \in {"sale"} : links.saleId} \cup {t \in {"tx"} : links.txId}
       IN  Set(h, [r EXCEPT
             !.saleId = links.saleId, !.txId = links.txId,
             !.todo = IF IsRevenue(r.snap) THEN {} ELSE linked,
             !.pc = IF IsRevenue(r.snap) THEN "sale"
                    ELSE IF linked = {} THEN "row" ELSE "zero"])
    /\ UNCHANGED <<remote, due, stored, covered, faults, settled, gap>>

UpsertSale(h) ==
    /\ handler[h].pc = "sale"
    /\ sale' = [sale EXCEPT ![handler[h].order] = handler[h].snap.amount]
    /\ Set(h, [handler[h] EXCEPT !.pc = "tx", !.saleId = TRUE])
    /\ UNCHANGED <<remote, due, row, items, tx, covered, faults, settled, gap>>

\* Mutant: the transaction is only created, never updated.
UpsertTxCreates(h) ==
    /\ handler[h].pc = "tx"
    /\ tx' = [tx EXCEPT ![handler[h].order] =
         IF @ = Missing THEN handler[h].snap.amount ELSE @]
    /\ Set(h, [handler[h] EXCEPT !.pc = "row", !.txId = TRUE])
    /\ UNCHANGED <<remote, due, row, items, sale, covered, faults, settled, gap>>

UpsertTx(h) ==
    /\ handler[h].pc = "tx"
    /\ tx' = [tx EXCEPT ![handler[h].order] = handler[h].snap.amount]
    /\ Set(h, [handler[h] EXCEPT !.pc = "row", !.txId = TRUE])
    /\ UNCHANGED <<remote, due, row, items, sale, covered, faults, settled, gap>>

\* zeroRevenueRecords: two updates started together.
ZeroRecord(h, t) ==
    /\ handler[h].pc = "zero" /\ t \in handler[h].todo
    /\ sale' = IF t = "sale" THEN [sale EXCEPT ![handler[h].order] = 0] ELSE sale
    /\ tx' = IF t = "tx" THEN [tx EXCEPT ![handler[h].order] = 0] ELSE tx
    /\ Set(h, [handler[h] EXCEPT
         !.todo = @ \ {t}, !.pc = IF handler[h].todo = {t} THEN "row" ELSE "zero"])
    /\ UNCHANGED <<remote, due, row, items, covered, faults, settled, gap>>

\* The row is written with the links as read, or as just created.
UpsertRow(h) ==
    /\ handler[h].pc = "row"
    /\ row' = [row EXCEPT ![handler[h].order] =
         [status |-> handler[h].snap.status,
          saleId |-> handler[h].saleId, txId |-> handler[h].txId]]
    /\ Goto(h, "clear")
    /\ UNCHANGED <<remote, due, items, sale, tx, covered, faults, settled, gap>>

ClearItems(h) ==
    /\ handler[h].pc = "clear"
    /\ items' = items \ {handler[h].order}
    /\ Goto(h, "item")
    /\ UNCHANGED <<remote, due, row, sale, tx, covered, faults, settled, gap>>

\* Mutant: a synchronisation that failed sets lastSyncAt too.
AfterStamps(h, ok) ==
    IF handler[h].intake = "webhook" THEN Set(h, Idle)
    ELSE TakeNext(h, handler[h].intake, IF ok THEN handler[h].rest ELSE {})

\* A notification is done; a synchronisation goes on with its list, unless an
\* order failed: then it ends, without a stamp.
After(h, ok) ==
    IF ok /\ handler[h].intake # "webhook"
    THEN TakeNext(h, handler[h].intake, handler[h].rest) ELSE Set(h, Idle)

\* (orderId, mlItemId) is unique: the item another handler has just created
\* makes this one fail.
AddItem(h) ==
    /\ handler[h].pc = "item"
    /\ LET r == handler[h]
           ok == r.order \notin items
       IN  /\ items' = items \cup {r.order}
           /\ settled' = IF ok /\ r.alone /\ r.snap = remote[r.order]
                         THEN settled \cup {r.order} ELSE settled
           /\ After(h, ok)
    /\ UNCHANGED <<remote, due, row, sale, tx, covered, faults, gap>>

\* Some call fails, or the process restarts with this work in progress.
CallFails(h) ==
    /\ faults < MaxFaults /\ handler[h].pc # "idle"
    /\ faults' = faults + 1
    /\ After(h, FALSE)
    /\ UNCHANGED <<remote, due, stored, covered, settled, gap>>

-----------------------------------------------------------------------------

Serve(h) ==
    \/ Stamp(h) \/ FetchOrder(h) \/ ReadRow(h) \/ UpsertSale(h) \/ UpsertTx(h)
    \/ \E t \in {"sale", "tx"} : ZeroRecord(h, t)
    \/ UpsertRow(h) \/ ClearItems(h) \/ AddItem(h)

Next ==
    \/ \E o \in Orders : CreateOrder(o) \/ PayOrder(o) \/ CancelOrder(o)
    \/ \E h \in Handlers :
         \/ Serve(h) \/ CallFails(h)
         \/ \E o \in Orders : Deliver(h, o)
         \/ \E intake \in {"manual", "daily"} : ListOrders(h, intake)

Spec == Init /\ [][Next]_vars

\* Work in progress goes on, and the cron runs every day.
FairSpec ==
    /\ Spec
    /\ \A h \in Handlers : WF_vars(Serve(h))
    /\ SF_vars(\E h \in Handlers : ListOrders(h, "daily"))
-----------------------------------------------------------------------------
(* Properties *)

\* Types of the rows of mercado-livre-sync.service.ts.
TypeOK ==
    /\ remote \in [Orders -> OrderType]
    /\ due \cup items \cup covered \cup settled \cup gap \subseteq Orders
    /\ row \in [Orders -> RowType]
    /\ sale \in [Orders -> Amounts] /\ tx \in [Orders -> Amounts]
    /\ handler \in [Handlers -> HandlerType]
    /\ faults \in 0..MaxFaults

\* What processing an order once, by itself, leaves stored.
StoredOnce(o) == o \in items /\ row[o].status = remote[o].status
CountedOnce(o) ==
    LET s == remote[o]
    IN  IF IsRevenue(s)
        THEN sale[o] = s.amount /\ tx[o] = s.amount /\ row[o].saleId /\ row[o].txId
        ELSE {sale[o], tx[o]} \subseteq {Missing, 0}

\* Whatever stale snapshots, lost links and half-written records races,
\* failures and restarts have left behind: once upsertOrder runs to its end on
\* the order as it is, with nobody else storing it, the row and the items are
\* right, and the revenue is counted if there is any.
SoloRunRepairs ==
    \A o \in settled : StoredOnce(o) /\ (IsRevenue(remote[o]) => CountedOnce(o))

\* docs/SECURITY_NOTES.md: processing is idempotent, so that processing an
\* order again leaves what processing it once would have: in particular no
\* revenue for a cancelled order.
ProcessingIsIdempotent == \A o \in settled : StoredOnce(o) /\ CountedOnce(o)

\* An order created while no synchronisation ran is stored in the end although
\* its notification is lost, for the daily synchronisation lists it.
OrderIsImported ==
    \A o \in Orders : o \in Created /\ o \notin gap ~> row[o].status # "none"
=============================================================================
