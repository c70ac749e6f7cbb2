---------------------- MODULE MercadoLivreOrdersProofs ----------------------
(***************************************************************************)
(* Proofs about MercadoLivreOrders, for any number of orders and handlers: *)
(* whatever races and failures leave behind, a processing of an order that *)
(* runs alone to its end repairs it; and while nothing fails or overlaps,  *)
(* processing an order again leaves what processing it once would have.    *)
(***************************************************************************)
EXTENDS MCMercadoLivreOrders, TLAPS

USE MercadoLivreAssumption

-----------------------------------------------------------------------------
(* Type correctness *)

LEMMA IdleType == Idle \in HandlerType
<1>1. 1 \in Orders
  BY DEF Orders
<1>2. NoOrder \in OrderType
  BY DEF NoOrder, OrderType
<1> QED BY <1>1, <1>2 DEF Idle, HandlerType, Pcs

\* Replacing one handler's record.
LEMMA SetHandler ==
  ASSUME TypeOK, NEW h \in Handlers, NEW r \in HandlerType, Set(h, r)
  PROVE  /\ handler' \in [Handlers -> HandlerType]
         /\ handler'[h] = r
         /\ \A g \in Handlers \ {h} : handler'[g] = handler[g]
  BY DEF Set, TypeOK

\* Going on with a list stores nothing by itself.
LEMMA TakeNextType ==
  ASSUME TypeOK, NEW h \in Handlers, NEW intake \in Intakes \cup {"none"},
         NEW os \in SUBSET Orders, TakeNext(h, intake, os)
  PROVE  /\ handler' \in [Handlers -> HandlerType]
         /\ handler'[h].pc \in {"fetch", "stamp"}
         /\ \A g \in Handlers \ {h} : handler'[g] = handler[g]
<1>1. CASE os = {} /\ Set(h, [Idle EXCEPT !.pc = "stamp", !.intake = intake])
  <2>1. [Idle EXCEPT !.pc = "stamp", !.intake = intake] \in HandlerType
    BY IdleType DEF HandlerType, Pcs
  <2>2. [Idle EXCEPT !.pc = "stamp", !.intake = intake].pc = "stamp"
    BY DEF Idle
  <2> QED BY <1>1, <2>1, <2>2, SetHandler
<1>2. ASSUME NEW o \in os,
             Set(h, [Idle EXCEPT !.pc = "fetch", !.intake = intake,
                                 !.order = o, !.rest = os \ {o}])
      PROVE  /\ handler' \in [Handlers -> HandlerType]
             /\ handler'[h].pc \in {"fetch", "stamp"}
             /\ \A g \in Handlers \ {h} : handler'[g] = handler[g]
  <2> DEFINE r == [Idle EXCEPT !.pc = "fetch", !.intake = intake,
                               !.order = o, !.rest = os \ {o}]
  <2>1. r \in HandlerType
    BY IdleType DEF HandlerType, Pcs
  <2>2. r.pc = "fetch"
    BY DEF Idle
  <2> QED BY <1>2, <2>1, <2>2, SetHandler
<1> QED BY <1>1, <1>2 DEF TakeNext

LEMMA AfterType ==
  ASSUME TypeOK, NEW h \in Handlers, NEW ok \in BOOLEAN, After(h, ok)
  PROVE  /\ handler' \in [Handlers -> HandlerType]
         /\ handler'[h].pc \in {"fetch", "stamp", "idle"}
         /\ \A g \in Handlers \ {h} : handler'[g] = handler[g]
<1>1. handler[h] \in HandlerType
  BY DEF TypeOK
<1>2. handler[h].intake \in Intakes \cup {"none"} /\ handler[h].rest \in SUBSET Orders
  BY <1>1 DEF HandlerType
<1>3. CASE TakeNext(h, handler[h].intake, handler[h].rest)
  BY <1>2, <1>3, TakeNextType
<1>4. CASE Set(h, Idle)
  <2>1. Idle.pc = "idle"
    BY DEF Idle
  <2> QED BY <1>4, <2>1, IdleType, SetHandler
<1> QED BY <1>3, <1>4 DEF After

LEMMA InitType == Init => TypeOK
<1> SUFFICES ASSUME Init PROVE TypeOK
  OBVIOUS
<1>1. remote \in [Orders -> OrderType]
  BY DEF Init, NoOrder, OrderType
<1>2. row \in [Orders -> RowType]
  BY DEF Init, NoRow, RowType
<1>3. sale \in [Orders -> Amounts] /\ tx \in [Orders -> Amounts]
  BY DEF Init, Amounts
<1>4. handler \in [Handlers -> HandlerType]
  BY IdleType DEF Init
<1>5. faults \in 0..MaxFaults
  BY DEF Init
<1> QED BY <1>1, <1>2, <1>3, <1>4, <1>5 DEF Init, TypeOK

\* The steps that store one order leave the handler with a typed record of the
\* same order, still storing it.
StoringStep(h) ==
    \/ ReadRow(h) \/ UpsertSale(h) \/ UpsertTx(h) \/ UpsertRow(h) \/ ClearItems(h)
    \/ \E t \in {"sale", "tx"} : ZeroRecord(h, t)

LEMMA StoringType ==
  ASSUME TypeOK, NEW h \in Handlers, StoringStep(h)
  PROVE  /\ handler' \in [Handlers -> HandlerType]
         /\ \A g \in Handlers \ {h} : handler'[g] = handler[g]
         /\ handler'[h].order = handler[h].order
         /\ handler'[h].snap = handler[h].snap
         /\ handler'[h].alone = handler[h].alone
         /\ handler'[h].pc \in {"sale", "tx", "zero", "row", "clear", "item"}
         /\ handler[h].pc \in {"read", "sale", "tx", "zero", "row", "clear"}
<1>1. handler[h] \in HandlerType /\ handler[h].order \in Orders
  BY DEF TypeOK, HandlerType
<1>2. row[handler[h].order] \in RowType
  BY <1>1 DEF TypeOK
<1>3. CASE ReadRow(h)
  <2> DEFINE q == handler[h]
             links == row[q.order]
             linked == {t \in {"sale"} : links.saleId} \cup {t \in {"tx"} : links.txId}
             r == [q EXCEPT
               !.saleId = links.saleId, !.txId = links.txId,
               !.todo = IF IsRevenue(q.snap) THEN {} ELSE linked,
               !.pc = IF IsRevenue(q.snap) THEN "sale"
                      ELSE IF linked = {} THEN "row" ELSE "zero"]
  <2>1. Set(h, r) /\ q.pc = "read"
    BY <1>3 DEF ReadRow
  <2>2. links.saleId \in BOOLEAN /\ links.txId \in BOOLEAN
    BY <1>2 DEF RowType
  <2>3. linked \in SUBSET {"sale", "tx"}
    OBVIOUS
  <2>4. /\ r \in HandlerType
        /\ r.order = q.order /\ r.snap = q.snap /\ r.alone = q.alone
        /\ r.pc \in {"sale", "row", "zero"}
    BY <1>1, <2>2, <2>3 DEF HandlerType, Pcs
  <2> HIDE DEF r
  <2> QED BY <2>1, <2>4, SetHandler
<1>4. CASE UpsertSale(h)
  <2> DEFINE r == [handler[h] EXCEPT !.pc = "tx", !.saleId = TRUE]
  <2>1. /\ r \in HandlerType
        /\ r.order = handler[h].order /\ r.snap = handler[h].snap
        /\ r.alone = handler[h].alone /\ r.pc = "tx"
    BY <1>1 DEF HandlerType, Pcs
  <2>2. Set(h, r) /\ handler[h].pc = "sale"
    BY <1>4 DEF UpsertSale
  <2> HIDE DEF r
  <2> QED BY <2>1, <2>2, SetHandler
<1>5. CASE UpsertTx(h)
  <2> DEFINE r == [handler[h] EXCEPT !.pc = "row", !.txId = TRUE]
  <2>1. /\ r \in HandlerType
        /\ r.order = handler[h].order /\ r.snap = handler[h].snap
        /\ r.alone = handler[h].alone /\ r.pc = "row"
    BY <1>1 DEF HandlerType, Pcs
  <2>2. Set(h, r) /\ handler[h].pc = "tx"
    BY <1>5 DEF UpsertTx
  <2> HIDE DEF r
  <2> QED BY <2>1, <2>2, SetHandler
<1>6. CASE UpsertRow(h)
  <2> DEFINE r == [handler[h] EXCEPT !.pc = "clear"]
  <2>1. /\ r \in HandlerType
        /\ r.order = handler[h].order /\ r.snap = handler[h].snap
        /\ r.alone = handler[h].alone /\ r.pc = "clear"
    BY <1>1 DEF HandlerType, Pcs
  <2>2. Set(h, r) /\ handler[h].pc = "row"
    BY <1>6 DEF UpsertRow, Goto
  <2> HIDE DEF r
  <2> QED BY <2>1, <2>2, SetHandler
<1>7. CASE ClearItems(h)
  <2> DEFINE r == [handler[h] EXCEPT !.pc = "item"]
  <2>1. /\ r \in HandlerType
        /\ r.order = handler[h].order /\ r.snap = handler[h].snap
        /\ r.alone = handler[h].alone /\ r.pc = "item"
    BY <1>1 DEF HandlerType, Pcs
  <2>2. Set(h, r) /\ handler[h].pc = "clear"
    BY <1>7 DEF ClearItems, Goto
  <2> HIDE DEF r
  <2> QED BY <2>1, <2>2, SetHandler
<1>8. ASSUME NEW t \in {"sale", "tx"}, ZeroRecord(h, t)
      PROVE  /\ handler' \in [Handlers -> HandlerType]
             /\ \A g \in Handlers \ {h} : handler'[g] = handler[g]
             /\ handler'[h].order = handler[h].order
             /\ handler'[h].snap = handler[h].snap
             /\ handler'[h].alone = handler[h].alone
             /\ handler'[h].pc \in {"sale", "tx", "zero", "row", "clear", "item"}
             /\ handler[h].pc \in {"read", "sale", "tx", "zero", "row", "clear"}
  <2> DEFINE r == [handler[h] EXCEPT
         !.todo = @ \ {t}, !.pc = IF handler[h].todo = {t} THEN "row" ELSE "zero"]
  <2>1. /\ r \in HandlerType
        /\ r.order = handler[h].order /\ r.snap = handler[h].snap
        /\ r.alone = handler[h].alone /\ r.pc \in {"row", "zero"}
    BY <1>1 DEF HandlerType, Pcs
  <2>2. Set(h, r) /\ handler[h].pc = "zero"
    BY <1>8 DEF ZeroRecord
  <2> HIDE DEF r
  <2> QED BY <2>1, <2>2, SetHandler
<1> QED BY <1>3, <1>4, <1>5, <1>6, <1>7, <1>8 DEF StoringStep

\* A fetch leaves a typed record of the order, and marks who is not alone.
LEMMA FetchType ==
  ASSUME TypeOK, NEW h \in Handlers, FetchOrder(h)
  PROVE  /\ handler' \in [Handlers -> HandlerType]
         /\ handler'[h].pc = "read" /\ handler'[h].order = handler[h].order
         /\ handler'[h].alone =>
              \A g \in Handlers \ {h} : Storing(g) => handler[g].order # handler[h].order
         /\ \A g \in Handlers \ {h} :
              /\ handler'[g].pc = handler[g].pc
              /\ handler'[g].order = handler[g].order
              /\ handler'[g] # handler[g] => ~handler'[g].alone
              /\ Storing(g) /\ handler[g].order = handler[h].order => ~handler'[g].alone
<1> DEFINE o == handler[h].order
           others == {g \in Handlers \ {h} : Storing(g) /\ handler[g].order = o}
           r == [handler[h] EXCEPT !.pc = "read", !.snap = remote[o], !.alone = others = {}]
<1>1. handler[h] \in HandlerType /\ o \in Orders /\ remote[o] \in OrderType
  BY DEF TypeOK, HandlerType
<1>2. /\ r \in HandlerType /\ r.pc = "read" /\ r.order = o
      /\ r.alone <=> others = {}
  BY <1>1 DEF HandlerType, Pcs
<1>3. handler' = [g \in Handlers |->
         CASE g = h -> r
           [] g \in others -> [handler[g] EXCEPT !.alone = FALSE]
           [] OTHER -> handler[g]]
  BY DEF FetchOrder
<1>4. \A g \in Handlers : [handler[g] EXCEPT !.alone = FALSE] \in HandlerType
  <2> SUFFICES ASSUME NEW g \in Handlers
               PROVE  [handler[g] EXCEPT !.alone = FALSE] \in HandlerType
    OBVIOUS
  <2>1. handler[g] \in HandlerType
    BY DEF TypeOK
  <2> QED BY <2>1 DEF HandlerType
<1>5. \A g \in Handlers : /\ [handler[g] EXCEPT !.alone = FALSE].pc = handler[g].pc
                          /\ [handler[g] EXCEPT !.alone = FALSE].order = handler[g].order
                          /\ ~[handler[g] EXCEPT !.alone = FALSE].alone
  <2> SUFFICES ASSUME NEW g \in Handlers
               PROVE  /\ [handler[g] EXCEPT !.alone = FALSE].pc = handler[g].pc
                      /\ [handler[g] EXCEPT !.alone = FALSE].order = handler[g].order
                      /\ ~[handler[g] EXCEPT !.alone = FALSE].alone
    OBVIOUS
  <2>1. handler[g] \in HandlerType
    BY DEF TypeOK
  <2> QED BY <2>1 DEF HandlerType
<1>6. h \notin others
  OBVIOUS
<1>7. handler'[h] = r
  BY <1>3
<1>8. \A g \in others : handler'[g] = [handler[g] EXCEPT !.alone = FALSE]
  BY <1>3, <1>6
<1>9. \A g \in Handlers \ {h} : g \notin others => handler'[g] = handler[g]
  BY <1>3
<1>10. handler' \in [Handlers -> HandlerType]
  BY <1>2, <1>3, <1>4, <1>7, <1>8, <1>9 DEF TypeOK
<1> HIDE DEF r
<1>11. handler'[h].alone => \A g \in Handlers \ {h} : Storing(g) => handler[g].order # o
  BY <1>2, <1>7
<1> QED BY <1>2, <1>5, <1>7, <1>8, <1>9, <1>10, <1>11

LEMMA TypeStep == TypeOK /\ [Next]_vars => TypeOK'
<1> SUFFICES ASSUME TypeOK, [Next]_vars PROVE TypeOK'
  OBVIOUS
<1> USE DEF stored
<1>1. CASE UNCHANGED vars
  BY <1>1 DEF vars, TypeOK
<1>2. ASSUME NEW o \in Orders, CreateOrder(o) \/ PayOrder(o) \/ CancelOrder(o)
      PROVE TypeOK'
  <2>1. ASSUME NEW s \in OrderType, Change(o, s), gap' \subseteq gap \cup {o}
        PROVE  TypeOK'
    BY <2>1 DEF Change, TypeOK
  <2>2. CASE CreateOrder(o)
    <3>1. PICK status \in {"payment_required", "confirmed"} :
            Change(o, [status |-> status, approved |-> FALSE, amount |-> Total])
      BY <2>2 DEF CreateOrder
    <3>2. [status |-> status, approved |-> FALSE, amount |-> Total] \in OrderType
      BY DEF OrderType
    <3>3. gap' \subseteq gap \cup {o}
      BY <2>2 DEF CreateOrder
    <3> QED BY <2>1, <3>1, <3>2, <3>3
  <2>3. CASE PayOrder(o)
    <3>1. [status |-> "paid", approved |-> TRUE, amount |-> PaidTotal] \in OrderType
      BY DEF OrderType
    <3> QED BY <2>1, <2>3, <3>1 DEF PayOrder
  <2>4. CASE CancelOrder(o)
    <3>1. [remote[o] EXCEPT !.status = "cancelled"] \in OrderType
      BY DEF TypeOK, OrderType
    <3> QED BY <2>1, <2>4, <3>1 DEF CancelOrder
  <2> QED BY <1>2, <2>2, <2>3, <2>4
<1>3. ASSUME NEW h \in Handlers, NEW o \in Orders, Deliver(h, o) PROVE TypeOK'
  <2>1. [Idle EXCEPT !.pc = "fetch", !.intake = "webhook", !.order = o] \in HandlerType
    BY <1>3, IdleType DEF HandlerType, Pcs, Deliver
  <2>2. handler' \in [Handlers -> HandlerType]
    BY <1>3, <2>1, SetHandler DEF Deliver
  <2> QED BY <1>3, <2>2 DEF Deliver, TypeOK
<1>4. ASSUME NEW h \in Handlers, NEW intake \in {"manual", "daily"},
             ListOrders(h, intake)
      PROVE TypeOK'
  <2>1. (IF intake = "daily" THEN Created \ covered ELSE Created) \in SUBSET Orders
    BY DEF Created
  <2>2. handler' \in [Handlers -> HandlerType]
    BY <1>4, <2>1, TakeNextType DEF ListOrders
  <2> QED BY <1>4, <2>2 DEF ListOrders, TypeOK
<1>5. ASSUME NEW h \in Handlers, CallFails(h) PROVE TypeOK'
  <2>1. handler' \in [Handlers -> HandlerType]
    BY <1>5, AfterType DEF CallFails
  <2> QED BY <1>5, <2>1 DEF CallFails, TypeOK
<1>6. ASSUME NEW h \in Handlers, Stamp(h) PROVE TypeOK'
  <2>1. handler' \in [Handlers -> HandlerType]
    BY <1>6, IdleType, SetHandler DEF Stamp
  <2> QED BY <1>6, <2>1 DEF Stamp, TypeOK, Created
<1>7. ASSUME NEW h \in Handlers, FetchOrder(h) PROVE TypeOK'
  BY <1>7, FetchType DEF FetchOrder, TypeOK
<1>8. ASSUME NEW h \in Handlers, AddItem(h) PROVE TypeOK'
  <2>1. handler[h].order \in Orders
    BY DEF TypeOK, HandlerType
  <2>2. handler' \in [Handlers -> HandlerType]
    BY <1>8, AfterType DEF AddItem
  <2> QED BY <1>8, <2>1, <2>2 DEF AddItem, TypeOK
<1>9. ASSUME NEW h \in Handlers, StoringStep(h) PROVE TypeOK'
  <2>1. handler' \in [Handlers -> HandlerType]
    BY <1>9, StoringType
  <2>2. handler[h] \in HandlerType
    BY DEF TypeOK
  <2>3. handler[h].snap.amount \in Amounts
    BY <2>2 DEF HandlerType, OrderType, Amounts
  <2>4. [status |-> handler[h].snap.status,
         saleId |-> handler[h].saleId, txId |-> handler[h].txId] \in RowType
    BY <2>2 DEF HandlerType, OrderType, RowType
  <2>5. CASE ReadRow(h)
    BY <2>1, <2>5 DEF ReadRow, TypeOK
  <2>6. CASE UpsertSale(h)
    BY <2>1, <2>3, <2>6 DEF UpsertSale, TypeOK
  <2>7. CASE UpsertTx(h)
    BY <2>1, <2>3, <2>7 DEF UpsertTx, TypeOK
  <2>8. CASE UpsertRow(h)
    BY <2>1, <2>4, <2>8 DEF UpsertRow, TypeOK
  <2>9. CASE ClearItems(h)
    BY <2>1, <2>9 DEF ClearItems, TypeOK
  <2>10. CASE \E t \in {"sale", "tx"} : ZeroRecord(h, t)
    <3>1. 0 \in Amounts
      BY DEF Amounts
    <3>2. sale' \in [Orders -> Amounts] /\ tx' \in [Orders -> Amounts]
      <4>1. PICK t \in {"sale", "tx"} : ZeroRecord(h, t)
        BY <2>10
      <4>2. /\ sale' = sale \/ sale' = [sale EXCEPT ![handler[h].order] = 0]
            /\ tx' = tx \/ tx' = [tx EXCEPT ![handler[h].order] = 0]
        BY <4>1 DEF ZeroRecord
      <4> QED BY <3>1, <4>2 DEF TypeOK
    <3> QED BY <2>1, <2>10, <3>2 DEF ZeroRecord, TypeOK
  <2> QED BY <1>9, <2>5, <2>6, <2>7, <2>8, <2>9, <2>10 DEF StoringStep
<1> QED BY <1>1, <1>2, <1>3, <1>4, <1>5, <1>6, <1>7, <1>8, <1>9
        DEF Next, Serve, StoringStep

-----------------------------------------------------------------------------
(* A processing that runs alone repairs the order *)

\* Two handlers that are alone never store the same order as anybody else.
AloneInv ==
    \A h \in Handlers : Storing(h) /\ handler[h].alone =>
        \A g \in Handlers \ {h} : Storing(g) => handler[g].order # handler[h].order

\* What a handler that is alone has stored so far of its order.
Progress(h) ==
    LET q == handler[h]
    IN  Storing(h) /\ q.alone =>
          /\ q.pc \in {"sale", "tx"} => IsRevenue(q.snap)
          /\ q.pc = "zero" => ~IsRevenue(q.snap)
          /\ IsRevenue(q.snap) /\ q.pc \in {"tx", "row", "clear", "item"} =>
               sale[q.order] = q.snap.amount /\ q.saleId
          /\ IsRevenue(q.snap) /\ q.pc \in {"row", "clear", "item"} =>
               tx[q.order] = q.snap.amount /\ q.txId
          /\ q.pc \in {"clear", "item"} =>
               row[q.order] = [status |-> q.snap.status, saleId |-> q.saleId, txId |-> q.txId]

\* A settled order is repaired, and nobody is storing it.
Repaired(o) == StoredOnce(o) /\ (IsRevenue(remote[o]) => CountedOnce(o))
SettledInv ==
    \A o \in settled : /\ Repaired(o)
                       /\ \A h \in Handlers : Storing(h) => handler[h].order # o

RepairInv == AloneInv /\ (\A h \in Handlers : Progress(h)) /\ SettledInv

LEMMA RepairInit == Init => RepairInv
  BY DEF Init, RepairInv, AloneInv, Progress, SettledInv, Storing, Idle

\* A handler that stops storing, or was not, disturbs nothing.
LEMMA Leaving ==
  ASSUME TypeOK, RepairInv, NEW h \in Handlers,
         handler'[h].pc \in {"idle", "fetch", "stamp"},
         \A g \in Handlers \ {h} : handler'[g] = handler[g],
         UNCHANGED <<remote, row, items, sale, tx, settled>>
  PROVE  RepairInv'
<1>1. \A g \in Handlers : Storing(g)' => Storing(g) /\ handler'[g] = handler[g]
  BY DEF Storing
<1>2. AloneInv'
  BY <1>1 DEF RepairInv, AloneInv
<1>3. \A g \in Handlers : Progress(g)'
  BY <1>1 DEF RepairInv, Progress
<1>4. SettledInv'
  BY <1>1 DEF RepairInv, SettledInv, Repaired, StoredOnce, CountedOnce
<1> QED BY <1>2, <1>3, <1>4 DEF RepairInv

\* A storing step disturbs no other order and nobody who is alone.
LEMMA StoringElsewhere ==
  ASSUME TypeOK, RepairInv, NEW h \in Handlers, StoringStep(h),
         UNCHANGED <<remote, settled>>,
         \A o \in Orders \ {handler[h].order} :
            /\ row'[o] = row[o] /\ sale'[o] = sale[o] /\ tx'[o] = tx[o]
            /\ o \in items' <=> o \in items,
         Progress(h)'
  PROVE  RepairInv'
<1>1. /\ \A g \in Handlers \ {h} : handler'[g] = handler[g]
      /\ handler'[h].order = handler[h].order /\ handler'[h].alone = handler[h].alone
      /\ Storing(h)
  BY StoringType DEF Storing
<1>2. \A g \in Handlers : /\ Storing(g)' => Storing(g)
                          /\ handler'[g].order = handler[g].order
                          /\ handler'[g].alone = handler[g].alone
  BY <1>1 DEF Storing
<1>3. AloneInv'
  BY <1>2 DEF RepairInv, AloneInv
<1>4. \A g \in Handlers : Progress(g)'
  <2> SUFFICES ASSUME NEW g \in Handlers \ {h}, Storing(g), handler[g].alone
               PROVE  Progress(g)'
    BY <1>1, <1>2 DEF Progress
  <2>1. handler[g].order # handler[h].order
    BY <1>1 DEF RepairInv, AloneInv
  <2>2. handler[g].order \in Orders
    BY DEF TypeOK, HandlerType
  <2>3. handler'[g] = handler[g]
    BY <1>1
  <2> QED BY <2>1, <2>2, <2>3 DEF RepairInv, Progress, Storing
<1>5. SettledInv'
  <2>1. \A o \in settled : o \in Orders /\ o # handler[h].order
    BY <1>1 DEF RepairInv, SettledInv, TypeOK
  <2> QED BY <1>2, <2>1 DEF RepairInv, SettledInv, Repaired, StoredOnce, CountedOnce
<1> QED BY <1>3, <1>4, <1>5 DEF RepairInv

\* Each storing step takes the handler on with what it has to show.
LEMMA StoringProgress ==
  ASSUME TypeOK, RepairInv, NEW h \in Handlers, StoringStep(h)
  PROVE  RepairInv'
<1> DEFINE q == handler[h]
<1>1. /\ q \in HandlerType /\ q.order \in Orders
      /\ q.alone => Progress(h)
  BY DEF TypeOK, HandlerType, RepairInv
<1>2. /\ handler'[h].order = q.order /\ handler'[h].snap = q.snap
      /\ handler'[h].alone = q.alone
  BY StoringType
<1>3. CASE ReadRow(h)
  <2>1. /\ handler'[h].pc = "sale" => IsRevenue(q.snap)
        /\ handler'[h].pc = "zero" => ~IsRevenue(q.snap)
        /\ handler'[h].pc = "row" => ~IsRevenue(q.snap)
        /\ handler'[h].pc \in {"sale", "zero", "row"}
    <3> DEFINE links == row[q.order]
               linked == {t \in {"sale"} : links.saleId} \cup {t \in {"tx"} : links.txId}
               r == [q EXCEPT
                 !.saleId = links.saleId, !.txId = links.txId,
                 !.todo = IF IsRevenue(q.snap) THEN {} ELSE linked,
                 !.pc = IF IsRevenue(q.snap) THEN "sale"
                        ELSE IF linked = {} THEN "row" ELSE "zero"]
    <3>1. handler' = [handler EXCEPT ![h] = r]
      BY <1>3 DEF ReadRow, Set
    <3>2. r.pc = IF IsRevenue(q.snap) THEN "sale"
                 ELSE IF linked = {} THEN "row" ELSE "zero"
      BY <1>1 DEF HandlerType
    <3> HIDE DEF r
    <3>3. handler'[h] = r
      BY <3>1 DEF TypeOK
    <3> QED BY <3>2, <3>3
  <2>2. Progress(h)'
    BY <1>2, <2>1 DEF Progress, IsRevenue
  <2>3. UNCHANGED <<remote, settled, row, sale, tx, items>>
    BY <1>3 DEF ReadRow, stored
  <2> QED BY <2>2, <2>3, StoringElsewhere DEF StoringStep
<1>4. CASE UpsertSale(h)
  <2>1. handler' = [handler EXCEPT ![h] = [q EXCEPT !.pc = "tx", !.saleId = TRUE]]
    BY <1>4 DEF UpsertSale, Set
  <2>2. [q EXCEPT !.pc = "tx", !.saleId = TRUE].pc = "tx"
        /\ [q EXCEPT !.pc = "tx", !.saleId = TRUE].saleId
    BY <1>1 DEF HandlerType
  <2>3. handler'[h].pc = "tx" /\ handler'[h].saleId
    BY <2>1, <2>2 DEF TypeOK
  <2>4. sale'[q.order] = q.snap.amount
    BY <1>1, <1>4 DEF UpsertSale, TypeOK
  <2>5. q.alone => IsRevenue(q.snap)
    BY <1>1, <1>4 DEF Progress, Storing, UpsertSale
  <2>6. Progress(h)'
    BY <1>2, <2>3, <2>4, <2>5 DEF Progress, IsRevenue
  <2>7. /\ UNCHANGED <<remote, settled, row, tx, items>>
        /\ \A o \in Orders \ {q.order} : sale'[o] = sale[o]
    BY <1>4 DEF UpsertSale, TypeOK
  <2> QED BY <1>4, <2>6, <2>7, StoringElsewhere DEF StoringStep
<1>5. CASE UpsertTx(h)
  <2>1. handler' = [handler EXCEPT ![h] = [q EXCEPT !.pc = "row", !.txId = TRUE]]
    BY <1>5 DEF UpsertTx, Set
  <2>2. [q EXCEPT !.pc = "row", !.txId = TRUE].pc = "row"
        /\ [q EXCEPT !.pc = "row", !.txId = TRUE].txId
        /\ [q EXCEPT !.pc = "row", !.txId = TRUE].saleId = q.saleId
    BY <1>1 DEF HandlerType
  <2>3. handler'[h].pc = "row" /\ handler'[h].txId /\ handler'[h].saleId = q.saleId
    BY <2>1, <2>2 DEF TypeOK
  <2>4. tx'[q.order] = q.snap.amount /\ sale' = sale
    BY <1>1, <1>5 DEF UpsertTx, TypeOK
  <2>5. q.alone => IsRevenue(q.snap) /\ sale[q.order] = q.snap.amount /\ q.saleId
    BY <1>1, <1>5 DEF Progress, Storing, UpsertTx
  <2>6. Progress(h)'
    BY <1>2, <2>3, <2>4, <2>5 DEF Progress, IsRevenue
  <2>7. /\ UNCHANGED <<remote, settled, row, sale, items>>
        /\ \A o \in Orders \ {q.order} : tx'[o] = tx[o]
    BY <1>5 DEF UpsertTx, TypeOK
  <2> QED BY <1>5, <2>6, <2>7, StoringElsewhere DEF StoringStep
<1>6. CASE UpsertRow(h)
  <2>1. handler' = [handler EXCEPT ![h] = [q EXCEPT !.pc = "clear"]]
    BY <1>6 DEF UpsertRow, Goto, Set
  <2>2. [q EXCEPT !.pc = "clear"].pc = "clear"
        /\ [q EXCEPT !.pc = "clear"].txId = q.txId
        /\ [q EXCEPT !.pc = "clear"].saleId = q.saleId
    BY <1>1 DEF HandlerType
  <2>3. handler'[h].pc = "clear" /\ handler'[h].txId = q.txId
        /\ handler'[h].saleId = q.saleId
    BY <2>1, <2>2 DEF TypeOK
  <2>4. /\ row'[q.order] = [status |-> q.snap.status, saleId |-> q.saleId, txId |-> q.txId]
        /\ sale' = sale /\ tx' = tx
    BY <1>1, <1>6 DEF UpsertRow, TypeOK
  <2>5. q.alone /\ IsRevenue(q.snap) =>
          /\ sale[q.order] = q.snap.amount /\ q.saleId
          /\ tx[q.order] = q.snap.amount /\ q.txId
    BY <1>1, <1>6 DEF Progress, Storing, UpsertRow
  <2>6. Progress(h)'
    BY <1>2, <2>3, <2>4, <2>5 DEF Progress, IsRevenue
  <2>7. /\ UNCHANGED <<remote, settled, sale, tx, items>>
        /\ \A o \in Orders \ {q.order} : row'[o] = row[o]
    BY <1>6 DEF UpsertRow, TypeOK
  <2> QED BY <1>6, <2>6, <2>7, StoringElsewhere DEF StoringStep
<1>7. CASE ClearItems(h)
  <2>1. handler' = [handler EXCEPT ![h] = [q EXCEPT !.pc = "item"]]
    BY <1>7 DEF ClearItems, Goto, Set
  <2>2. [q EXCEPT !.pc = "item"].pc = "item"
        /\ [q EXCEPT !.pc = "item"].txId = q.txId
        /\ [q EXCEPT !.pc = "item"].saleId = q.saleId
    BY <1>1 DEF HandlerType
  <2>3. handler'[h].pc = "item" /\ handler'[h].txId = q.txId
        /\ handler'[h].saleId = q.saleId
    BY <2>1, <2>2 DEF TypeOK
  <2>4. UNCHANGED <<remote, settled, row, sale, tx>>
    BY <1>7 DEF ClearItems
  <2>5. q.alone =>
          /\ row[q.order] = [status |-> q.snap.status, saleId |-> q.saleId, txId |-> q.txId]
          /\ IsRevenue(q.snap) =>
               /\ sale[q.order] = q.snap.amount /\ q.saleId
               /\ tx[q.order] = q.snap.amount /\ q.txId
    BY <1>1, <1>7 DEF Progress, Storing, ClearItems
  <2>6. Progress(h)'
    BY <1>2, <2>3, <2>4, <2>5 DEF Progress, IsRevenue
  <2>7. \A o \in Orders \ {q.order} : o \in items' <=> o \in items
    BY <1>7 DEF ClearItems
  <2> QED BY <1>7, <2>4, <2>6, <2>7, StoringElsewhere DEF StoringStep
<1>8. ASSUME NEW t \in {"sale", "tx"}, ZeroRecord(h, t) PROVE RepairInv'
  <2>1. q.pc = "zero"
    BY <1>8 DEF ZeroRecord
  <2>2. q.alone => ~IsRevenue(q.snap)
    BY <1>1, <2>1 DEF Progress, Storing
  <2>3. handler'[h].pc \in {"row", "zero"}
    <3> DEFINE r == [q EXCEPT !.todo = @ \ {t},
                              !.pc = IF q.todo = {t} THEN "row" ELSE "zero"]
    <3>1. r.pc \in {"row", "zero"}
      BY <1>1 DEF HandlerType
    <3>2. handler' = [handler EXCEPT ![h] = r]
      BY <1>8 DEF ZeroRecord, Set
    <3> HIDE DEF r
    <3> QED BY <3>1, <3>2 DEF TypeOK
  <2>4. Progress(h)'
    BY <1>2, <2>2, <2>3 DEF Progress, IsRevenue
  <2>5. /\ UNCHANGED <<remote, settled, row, items>>
        /\ \A o \in Orders \ {q.order} : sale'[o] = sale[o] /\ tx'[o] = tx[o]
    BY <1>8 DEF ZeroRecord, TypeOK
  <2> QED BY <1>8, <2>4, <2>5, StoringElsewhere DEF StoringStep
<1> QED BY <1>3, <1>4, <1>5, <1>6, <1>7, <1>8 DEF StoringStep

LEMMA FetchRepair ==
  ASSUME TypeOK, RepairInv, NEW h \in Handlers, FetchOrder(h)
  PROVE  RepairInv'
<1>1. handler[h].pc = "fetch"
  BY DEF FetchOrder
<1>2. /\ UNCHANGED <<remote, row, items, sale, tx>>
      /\ settled' = settled \ {handler[h].order}
  BY DEF FetchOrder, stored
<1>3. \A g \in Handlers \ {h} : /\ Storing(g)' <=> Storing(g)
                                /\ handler'[g].order = handler[g].order
                                /\ handler'[g].alone => handler'[g] = handler[g]
  BY FetchType DEF Storing
<1>4. AloneInv'
  <2> SUFFICES ASSUME NEW g \in Handlers, NEW f \in Handlers \ {g},
                      Storing(g)', handler'[g].alone, Storing(f)'
               PROVE  handler'[f].order # handler'[g].order
    BY DEF AloneInv
  <2>1. CASE g = h
    BY <1>3, <2>1, FetchType
  <2>2. CASE f = h
    BY <1>3, <2>2, FetchType
  <2>3. CASE g # h /\ f # h
    BY <1>3, <2>3 DEF RepairInv, AloneInv
  <2> QED BY <2>1, <2>2, <2>3
<1>5. \A g \in Handlers : Progress(g)'
  <2>1. Progress(h)'
    BY FetchType DEF Progress
  <2>2. ASSUME NEW g \in Handlers \ {h} PROVE Progress(g)'
    <3> SUFFICES ASSUME Storing(g), handler'[g].alone
                 PROVE  Progress(g)'
      BY <1>3 DEF Progress
    <3>1. handler'[g] = handler[g]
      BY <1>3
    <3> QED BY <1>2, <3>1 DEF RepairInv, Progress, Storing
  <2> QED BY <2>1, <2>2
<1>6. SettledInv'
  <2>1. \A o \in settled' : o # handler[h].order /\ o \in settled
    BY <1>2
  <2>2. handler'[h].order = handler[h].order
    BY FetchType
  <2> QED BY <1>2, <1>3, <2>1, <2>2
          DEF RepairInv, SettledInv, Repaired, StoredOnce, CountedOnce
<1> QED BY <1>4, <1>5, <1>6 DEF RepairInv

LEMMA AddItemRepair ==
  ASSUME TypeOK, RepairInv, NEW h \in Handlers, AddItem(h)
  PROVE  RepairInv'
<1> DEFINE q == handler[h]
           ok == q.order \notin items
<1>1. /\ q.pc = "item" /\ Storing(h)
      /\ q \in HandlerType /\ q.order \in Orders
  BY DEF AddItem, Storing, TypeOK, HandlerType
<1>2. /\ items' = items \cup {q.order}
      /\ settled' = IF ok /\ q.alone /\ q.snap = remote[q.order]
                    THEN settled \cup {q.order} ELSE settled
      /\ UNCHANGED <<remote, row, sale, tx>>
      /\ After(h, ok)
  BY DEF AddItem
<1>3. /\ handler'[h].pc \in {"fetch", "stamp", "idle"}
      /\ \A g \in Handlers \ {h} : handler'[g] = handler[g]
  BY <1>2, AfterType
<1>4. \A g \in Handlers : Storing(g)' => g # h /\ Storing(g) /\ handler'[g] = handler[g]
  BY <1>3 DEF Storing
<1>5. AloneInv'
  BY <1>4 DEF RepairInv, AloneInv
<1>6. \A g \in Handlers : Progress(g)'
  BY <1>2, <1>4 DEF RepairInv, Progress
<1>7. SettledInv'
  <2>1. ASSUME NEW o \in settled
        PROVE  Repaired(o)' /\ \A g \in Handlers : Storing(g)' => handler'[g].order # o
    BY <1>2, <1>4, <2>1
       DEF RepairInv, SettledInv, Repaired, StoredOnce, CountedOnce
  <2>2. ASSUME NEW o \in {q.order}, q.alone, q.snap = remote[o]
        PROVE  Repaired(o)' /\ \A g \in Handlers : Storing(g)' => handler'[g].order # o
    <3>1. /\ row[o] = [status |-> q.snap.status, saleId |-> q.saleId, txId |-> q.txId]
          /\ IsRevenue(q.snap) =>
               /\ sale[o] = q.snap.amount /\ q.saleId
               /\ tx[o] = q.snap.amount /\ q.txId
      BY <1>1, <2>2 DEF RepairInv, Progress
    <3>2. /\ row[o].status = remote[o].status
          /\ row[o].saleId = q.saleId /\ row[o].txId = q.txId
      BY <2>2, <3>1
    <3>3. Repaired(o)'
      BY <1>2, <2>2, <3>1, <3>2 DEF Repaired, StoredOnce, CountedOnce, IsRevenue
    <3>4. \A g \in Handlers : Storing(g)' => handler'[g].order # o
      BY <1>1, <1>4, <2>2 DEF RepairInv, AloneInv
    <3> QED BY <3>3, <3>4
  <2> QED BY <1>2, <2>1, <2>2 DEF SettledInv
<1> QED BY <1>5, <1>6, <1>7 DEF RepairInv

LEMMA RepairNext == TypeOK /\ RepairInv /\ [Next]_vars => RepairInv'
<1> SUFFICES ASSUME TypeOK, RepairInv, [Next]_vars PROVE RepairInv'
  OBVIOUS
<1>1. CASE UNCHANGED vars
  BY <1>1 DEF vars, stored, RepairInv, AloneInv, Progress, SettledInv, Storing,
              Repaired, StoredOnce, CountedOnce
<1>2. ASSUME NEW o \in Orders, NEW s, Change(o, s) PROVE RepairInv'
  <2>1. /\ UNCHANGED <<row, items, sale, tx, handler>>
        /\ settled' = settled \ {o}
        /\ \A p \in Orders \ {o} : remote'[p] = remote[p]
    BY <1>2 DEF Change, stored, TypeOK
  <2>2. AloneInv' /\ \A h \in Handlers : Progress(h)'
    BY <2>1 DEF RepairInv, AloneInv, Progress, Storing
  <2>3. \A p \in settled' : p \in settled /\ remote'[p] = remote[p]
    BY <2>1 DEF TypeOK
  <2>4. SettledInv'
    BY <2>1, <2>3
       DEF RepairInv, SettledInv, Repaired, StoredOnce, CountedOnce, Storing
  <2> QED BY <2>2, <2>4 DEF RepairInv
<1>3. ASSUME NEW o \in Orders, CreateOrder(o) \/ PayOrder(o) \/ CancelOrder(o)
      PROVE  RepairInv'
  BY <1>2, <1>3 DEF CreateOrder, PayOrder, CancelOrder
<1>4. ASSUME NEW h \in Handlers, NEW o \in Orders, Deliver(h, o) PROVE RepairInv'
  <2> DEFINE r == [Idle EXCEPT !.pc = "fetch", !.intake = "webhook", !.order = o]
  <2>1. r \in HandlerType /\ r.pc = "fetch"
    BY <1>4, IdleType DEF HandlerType, Pcs, Deliver
  <2>2. Set(h, r) /\ UNCHANGED <<remote, row, items, sale, tx, settled>>
    BY <1>4 DEF Deliver, stored
  <2> HIDE DEF r
  <2> QED BY <2>1, <2>2, SetHandler, Leaving
<1>5. ASSUME NEW h \in Handlers, NEW intake \in {"manual", "daily"},
             ListOrders(h, intake)
      PROVE RepairInv'
  <2>1. (IF intake = "daily" THEN Created \ covered ELSE Created) \in SUBSET Orders
    BY DEF Created
  <2> QED BY <1>5, <2>1, TakeNextType, Leaving DEF ListOrders, stored
<1>6. ASSUME NEW h \in Handlers, CallFails(h) PROVE RepairInv'
  BY <1>6, AfterType, Leaving DEF CallFails, stored
<1>7. ASSUME NEW h \in Handlers, Stamp(h) PROVE RepairInv'
  <2>1. Idle.pc = "idle"
    BY DEF Idle
  <2> QED BY <1>7, <2>1, IdleType, SetHandler, Leaving DEF Stamp, stored
<1> QED BY <1>1, <1>3, <1>4, <1>5, <1>6, <1>7, StoringProgress, FetchRepair, AddItemRepair
        DEF Next, Serve, StoringStep

-----------------------------------------------------------------------------
(* Processing that neither fails nor overlaps is idempotent *)

\* A sale or transaction that counts is linked by the order's row, or by the handler that
\* is about to write that row.
SaleLinked(o) ==
    sale[o] > 0 => \/ row[o].saleId
                   \/ \E h \in Handlers :
                        handler[h].pc \in {"tx", "row"} /\ handler[h].order = o /\ handler[h].saleId
TxLinked(o) ==
    tx[o] > 0 => \/ row[o].txId
                 \/ \E h \in Handlers :
                      handler[h].pc = "row" /\ handler[h].order = o /\ handler[h].txId

\* What a handler knows of the links, and what is left to zero.
Knows(q) ==
    /\ q.pc \in {"sale", "tx"} => IsRevenue(q.snap)
    /\ q.pc \in {"sale", "tx", "zero", "row"} =>
         (row[q.order].saleId => q.saleId) /\ (row[q.order].txId => q.txId)
    /\ q.pc = "zero" =>
         /\ ~IsRevenue(q.snap)
         /\ sale[q.order] > 0 => "sale" \in q.todo
         /\ tx[q.order] > 0 => "tx" \in q.todo
    /\ q.pc \in {"row", "clear", "item"} /\ ~IsRevenue(q.snap) =>
         sale[q.order] <= 0 /\ tx[q.order] <= 0

Uncounted(o) == IsRevenue(remote[o]) \/ (sale[o] <= 0 /\ tx[o] <= 0)

LinkInv ==
    /\ \A o \in Orders : SaleLinked(o) /\ TxLinked(o)
    /\ \A h \in Handlers : Knows(handler[h])
    /\ \A o \in settled : Uncounted(o)

\* A handler that has nothing of an order in its hands changes no link.
LEMMA LeavingLinks ==
  ASSUME TypeOK, LinkInv, NEW h \in Handlers,
         handler[h].pc \notin {"tx", "row"},
         handler'[h].pc \in {"idle", "fetch", "stamp", "read"},
         \A g \in Handlers \ {h} : handler'[g] = handler[g],
         UNCHANGED <<remote, row, sale, tx>>,
         \A o \in settled' : o \in settled \/ Uncounted(o)
  PROVE  LinkInv'
<1>1. ASSUME NEW o \in Orders PROVE SaleLinked(o)' /\ TxLinked(o)'
  <2>1. SaleLinked(o) /\ TxLinked(o)
    BY DEF LinkInv
  <2>2. \A g \in Handlers : handler[g].pc \in {"tx", "row"} => handler'[g] = handler[g]
    OBVIOUS
  <2> QED BY <2>1, <2>2 DEF SaleLinked, TxLinked
<1>2. ASSUME NEW g \in Handlers PROVE Knows(handler[g])'
  BY DEF LinkInv, Knows
<1>3. ASSUME NEW o \in settled' PROVE Uncounted(o)'
  BY DEF LinkInv, Uncounted
<1> QED BY <1>1, <1>2, <1>3 DEF LinkInv

\* A step of the only busy handler keeps the links if it keeps those of its order.
LEMMA StoringLinks ==
  ASSUME TypeOK, RepairInv, LinkInv, OneBusy, NEW h \in Handlers, StoringStep(h),
         UNCHANGED <<remote, settled>>,
         NEW order \in Orders, order = handler[h].order,
         \A o \in Orders \ {order} :
            row'[o] = row[o] /\ sale'[o] = sale[o] /\ tx'[o] = tx[o],
         SaleLinked(order)', TxLinked(order)', Knows(handler[h])'
  PROVE  LinkInv'
<1> DEFINE q == handler[h]
<1>1. /\ q.pc \in {"read", "sale", "tx", "zero", "row", "clear"} /\ Storing(h)
      /\ \A g \in Handlers \ {h} : handler'[g] = handler[g]
      /\ handler'[h].order = q.order
  BY StoringType DEF Storing
<1>2. \A g \in Handlers \ {h} : handler[g].pc = "idle"
  BY <1>1 DEF OneBusy
<1>3. ASSUME NEW o \in Orders \ {order} PROVE SaleLinked(o)' /\ TxLinked(o)'
  <2>1. SaleLinked(o) /\ TxLinked(o)
    BY DEF LinkInv
  <2>2. \A g \in Handlers : handler[g].order = o /\ handler[g].pc # "idle" => FALSE
    BY <1>2
  <2>3. row'[o] = row[o] /\ sale'[o] = sale[o] /\ tx'[o] = tx[o]
    OBVIOUS
  <2> QED BY <2>1, <2>2, <2>3 DEF SaleLinked, TxLinked
<1>4. ASSUME NEW g \in Handlers PROVE Knows(handler[g])'
  <2>1. CASE g # h
    BY <1>1, <1>2, <2>1 DEF Knows
  <2> QED BY <2>1
<1>5. ASSUME NEW o \in settled' PROVE Uncounted(o)'
  <2>1. o \in Orders /\ o # q.order /\ Uncounted(o)
    BY <1>1 DEF RepairInv, SettledInv, LinkInv, TypeOK
  <2> QED BY <2>1 DEF Uncounted
<1> QED BY <1>3, <1>4, <1>5 DEF LinkInv

LEMMA ReadLinks ==
  ASSUME TypeOK, RepairInv, LinkInv, OneBusy, NEW h \in Handlers, ReadRow(h)
  PROVE  LinkInv'
<1> DEFINE q == handler[h]
           links == row[q.order]
           linked == {t \in {"sale"} : links.saleId} \cup {t \in {"tx"} : links.txId}
           r == [q EXCEPT
             !.saleId = links.saleId, !.txId = links.txId,
             !.todo = IF IsRevenue(q.snap) THEN {} ELSE linked,
             !.pc = IF IsRevenue(q.snap) THEN "sale"
                    ELSE IF linked = {} THEN "row" ELSE "zero"]
<1>1. q \in HandlerType /\ q.order \in Orders /\ q.pc = "read" /\ links \in RowType
  BY DEF TypeOK, HandlerType, ReadRow
<1>o. PICK order \in Orders : order = q.order
  BY <1>1
<1>2. /\ r.pc = IF IsRevenue(q.snap) THEN "sale" ELSE IF linked = {} THEN "row" ELSE "zero"
      /\ r.todo = IF IsRevenue(q.snap) THEN {} ELSE linked
      /\ r.saleId = links.saleId /\ r.txId = links.txId
      /\ r.snap = q.snap /\ r.order = q.order
  BY <1>1 DEF HandlerType
<1>3. handler' = [handler EXCEPT ![h] = r] /\ UNCHANGED <<remote, row, sale, tx, settled>>
  BY DEF ReadRow, Set, stored
<1> HIDE DEF r
<1>4. handler'[h] = r
  BY <1>3 DEF TypeOK
<1>5. \A g \in Handlers : handler[g].pc \notin {"tx", "row"}
  BY <1>1 DEF OneBusy
<1>6. (sale[q.order] > 0 => links.saleId) /\ (tx[q.order] > 0 => links.txId)
  BY <1>1, <1>5 DEF LinkInv, SaleLinked, TxLinked
<1>7. sale[q.order] \in Int /\ tx[q.order] \in Int
  BY <1>1 DEF TypeOK, Amounts, Missing, Total, PaidTotal
<1>8. (links.saleId <=> "sale" \in linked) /\ (links.txId <=> "tx" \in linked)
  OBVIOUS
<1> HIDE DEF linked
<1>9. Knows(handler[h])'
  <2> QED BY <1>2, <1>3, <1>4, <1>6, <1>7, <1>8 DEF Knows, IsRevenue
<1>10. SaleLinked(order)' /\ TxLinked(order)'
  BY <1>o, <1>3, <1>6 DEF SaleLinked, TxLinked
<1> QED BY <1>3, <1>9, <1>10, <1>o, StoringLinks DEF StoringStep

LEMMA UpsertLinks ==
  ASSUME TypeOK, RepairInv, LinkInv, OneBusy, NEW h \in Handlers, UpsertSale(h) \/ UpsertTx(h)
  PROVE  LinkInv'
<1> DEFINE q == handler[h]
<1>1. q \in HandlerType /\ q.order \in Orders /\ Knows(q)
  BY DEF TypeOK, HandlerType, LinkInv
<1>o. PICK order \in Orders : order = q.order
  BY <1>1
<1>2. CASE UpsertSale(h)
  <2> DEFINE r == [q EXCEPT !.pc = "tx", !.saleId = TRUE]
  <2>1. /\ r.pc = "tx" /\ r.saleId /\ r.txId = q.txId
        /\ r.snap = q.snap /\ r.order = q.order
    BY <1>1 DEF HandlerType
  <2>2. /\ handler' = [handler EXCEPT ![h] = r] /\ q.pc = "sale"
        /\ UNCHANGED <<remote, row, tx, settled>>
        /\ sale' = [sale EXCEPT ![q.order] = q.snap.amount]
    BY <1>2 DEF UpsertSale, Set
  <2> HIDE DEF r
  <2>3. handler'[h] = r
    BY <2>2 DEF TypeOK
  <2>4. \A g \in Handlers : handler[g].pc # "row"
    BY <2>2 DEF OneBusy
  <2>5. SaleLinked(order)' /\ TxLinked(order)'
    BY <1>o, <1>1, <2>1, <2>2, <2>3, <2>4 DEF LinkInv, SaleLinked, TxLinked
  <2>6. Knows(handler[h])'
    BY <1>1, <2>1, <2>2, <2>3 DEF Knows, IsRevenue
  <2>7. \A o \in Orders \ {q.order} : sale'[o] = sale[o]
    BY <2>2 DEF TypeOK
  <2> QED BY <1>2, <2>2, <2>5, <2>6, <2>7, <1>o, StoringLinks DEF StoringStep
<1>3. CASE UpsertTx(h)
  <2> DEFINE r == [q EXCEPT !.pc = "row", !.txId = TRUE]
  <2>1. /\ r.pc = "row" /\ r.saleId = q.saleId /\ r.txId
        /\ r.snap = q.snap /\ r.order = q.order
    BY <1>1 DEF HandlerType
  <2>2. /\ handler' = [handler EXCEPT ![h] = r] /\ q.pc = "tx"
        /\ UNCHANGED <<remote, row, sale, settled>>
        /\ tx' = [tx EXCEPT ![q.order] = q.snap.amount]
    BY <1>3 DEF UpsertTx, Set
  <2> HIDE DEF r
  <2>3. handler'[h] = r
    BY <2>2 DEF TypeOK
  <2>4. \A g \in Handlers : handler[g].pc # "idle" => g = h
    BY <2>2 DEF OneBusy
  <2>5. sale[q.order] > 0 => row[q.order].saleId \/ q.saleId
    BY <1>1, <2>4 DEF LinkInv, SaleLinked
  <2>6. SaleLinked(order)' /\ TxLinked(order)'
    BY <1>o, <1>1, <2>1, <2>2, <2>3, <2>5 DEF SaleLinked, TxLinked
  <2>7. Knows(handler[h])'
    BY <1>1, <2>1, <2>2, <2>3 DEF Knows, IsRevenue
  <2>8. \A o \in Orders \ {q.order} : tx'[o] = tx[o]
    BY <2>2 DEF TypeOK
  <2> QED BY <1>3, <2>2, <2>6, <2>7, <2>8, <1>o, StoringLinks DEF StoringStep
<1> QED BY <1>2, <1>3

LEMMA ZeroLinks ==
  ASSUME TypeOK, RepairInv, LinkInv, OneBusy, NEW h \in Handlers, NEW t \in {"sale", "tx"},
         ZeroRecord(h, t)
  PROVE  LinkInv'
<1> DEFINE q == handler[h]
           r == [q EXCEPT !.todo = @ \ {t}, !.pc = IF q.todo = {t} THEN "row" ELSE "zero"]
<1>1. q \in HandlerType /\ q.order \in Orders /\ Knows(q) /\ q.pc = "zero"
  BY DEF TypeOK, HandlerType, LinkInv, ZeroRecord
<1>o. PICK order \in Orders : order = q.order
  BY <1>1
<1>2. /\ r.pc = IF q.todo = {t} THEN "row" ELSE "zero"
      /\ r.todo = q.todo \ {t} /\ r.saleId = q.saleId /\ r.txId = q.txId
      /\ r.snap = q.snap /\ r.order = q.order
  BY <1>1 DEF HandlerType
<1>3. /\ handler' = [handler EXCEPT ![h] = r]
      /\ UNCHANGED <<remote, row, settled>>
      /\ sale' = IF t = "sale" THEN [sale EXCEPT ![q.order] = 0] ELSE sale
      /\ tx' = IF t = "tx" THEN [tx EXCEPT ![q.order] = 0] ELSE tx
  BY DEF ZeroRecord, Set
<1> HIDE DEF r
<1>4. handler'[h] = r
  BY <1>3 DEF TypeOK
<1>5. \A g \in Handlers : handler[g].pc \notin {"tx", "row"}
  BY <1>1 DEF OneBusy
<1>6. (sale[q.order] > 0 => row[q.order].saleId) /\ (tx[q.order] > 0 => row[q.order].txId)
  BY <1>1, <1>5 DEF LinkInv, SaleLinked, TxLinked
<1>7. /\ sale'[q.order] = IF t = "sale" THEN 0 ELSE sale[q.order]
      /\ tx'[q.order] = IF t = "tx" THEN 0 ELSE tx[q.order]
      /\ sale[q.order] \in Int /\ tx[q.order] \in Int
      /\ \A o \in Orders \ {q.order} : sale'[o] = sale[o] /\ tx'[o] = tx[o]
  BY <1>1, <1>3 DEF TypeOK, Amounts, Missing, Total, PaidTotal
<1>8. SaleLinked(order)' /\ TxLinked(order)'
  BY <1>o, <1>3, <1>6, <1>7 DEF SaleLinked, TxLinked
<1>9. Knows(handler[h])'
  <2>1. (sale'[q.order] > 0 => "sale" \in q.todo \ {t}) /\ (tx'[q.order] > 0 => "tx" \in q.todo \ {t})
    BY <1>1, <1>7 DEF Knows
  <2>2. q.todo = {t} => sale'[q.order] <= 0 /\ tx'[q.order] <= 0
    BY <1>7, <2>1
  <2>3. r.pc = "row" => q.todo = {t}
    BY <1>2
  <2>4. ~IsRevenue(r.snap)
    BY <1>1, <1>2 DEF Knows
  <2> QED BY <1>1, <1>2, <1>3, <1>4, <2>1, <2>2, <2>3, <2>4 DEF Knows, IsRevenue
<1> QED BY <1>3, <1>7, <1>8, <1>9, <1>o, StoringLinks DEF StoringStep

LEMMA RowLinks ==
  ASSUME TypeOK, RepairInv, LinkInv, OneBusy, NEW h \in Handlers, UpsertRow(h) \/ ClearItems(h)
  PROVE  LinkInv'
<1> DEFINE q == handler[h]
           pc == IF q.pc = "row" THEN "clear" ELSE "item"
           r == [q EXCEPT !.pc = pc]
<1>1. q \in HandlerType /\ q.order \in Orders /\ Knows(q) /\ q.pc \in {"row", "clear"}
  BY DEF TypeOK, HandlerType, LinkInv, UpsertRow, ClearItems
<1>o. PICK order \in Orders : order = q.order
  BY <1>1
<1>2. r.pc = pc /\ r.snap = q.snap /\ r.order = q.order
  BY <1>1 DEF HandlerType
<1>3. handler' = [handler EXCEPT ![h] = r] /\ UNCHANGED <<remote, sale, tx, settled>>
  BY DEF UpsertRow, ClearItems, Goto, Set
<1> HIDE DEF r
<1>4. handler'[h] = r
  BY <1>3 DEF TypeOK
<1>5. \A g \in Handlers : handler[g].pc \in {"tx", "row"} => g = h
  BY <1>1 DEF OneBusy
<1>6. /\ \A o \in Orders \ {q.order} : row'[o] = row[o]
      /\ sale[q.order] > 0 => row'[q.order].saleId
      /\ tx[q.order] > 0 => row'[q.order].txId
  <2>1. SaleLinked(q.order) /\ TxLinked(q.order)
    BY <1>1 DEF LinkInv
  <2>2. CASE UpsertRow(h)
    <3>1. q.pc = "row" /\ row' = [row EXCEPT ![q.order] =
             [status |-> q.snap.status, saleId |-> q.saleId, txId |-> q.txId]]
      BY <2>2 DEF UpsertRow
    <3>2. row'[q.order].saleId = q.saleId /\ row'[q.order].txId = q.txId
      BY <1>1, <3>1 DEF TypeOK
    <3>3. (sale[q.order] > 0 => q.saleId) /\ (tx[q.order] > 0 => q.txId)
      BY <1>1, <1>5, <2>1, <3>1 DEF Knows, SaleLinked, TxLinked
    <3> QED BY <3>1, <3>2, <3>3 DEF TypeOK
  <2>3. CASE ClearItems(h)
    <3>1. row' = row /\ q.pc = "clear"
      BY <2>3 DEF ClearItems
    <3> QED BY <1>5, <2>1, <3>1 DEF SaleLinked, TxLinked
  <2> QED BY <2>2, <2>3
<1>7. SaleLinked(order)' /\ TxLinked(order)'
  BY <1>o, <1>3, <1>6 DEF SaleLinked, TxLinked
<1>8. Knows(handler[h])'
  <2>1. ~IsRevenue(q.snap) => sale[q.order] <= 0 /\ tx[q.order] <= 0
    BY <1>1 DEF Knows
  <2> QED BY <1>2, <1>3, <1>4, <2>1 DEF Knows, IsRevenue
<1> QED BY <1>3, <1>6, <1>7, <1>8, <1>o, StoringLinks DEF StoringStep

LEMMA LinksNext ==
  ASSUME TypeOK, RepairInv, LinkInv, OneBusy, faults' = 0, [Next]_vars PROVE LinkInv'
<1>1. CASE UNCHANGED vars
  BY <1>1 DEF vars, stored, LinkInv, SaleLinked, TxLinked, Knows, IsRevenue, Uncounted
<1>2. ASSUME NEW o \in Orders, CreateOrder(o) \/ PayOrder(o) \/ CancelOrder(o) PROVE LinkInv'
  <2>1. PICK s : Change(o, s)
    BY <1>2 DEF CreateOrder, PayOrder, CancelOrder
  <2>2. /\ UNCHANGED <<row, sale, tx, handler>> /\ settled' = settled \ {o}
        /\ \A p \in Orders \ {o} : remote'[p] = remote[p]
    BY <2>1 DEF Change, stored, TypeOK
  <2>3. ASSUME NEW p \in settled' PROVE Uncounted(p)'
    <3>1. p \in settled /\ p \in Orders \ {o} /\ Uncounted(p)
      BY <2>2 DEF LinkInv, TypeOK
    <3> QED BY <2>2, <3>1 DEF Uncounted, IsRevenue
  <2> QED BY <2>2, <2>3 DEF LinkInv, SaleLinked, TxLinked, Knows, IsRevenue
<1>3. ASSUME NEW h \in Handlers, NEW o \in Orders, Deliver(h, o) PROVE LinkInv'
  <2> DEFINE r == [Idle EXCEPT !.pc = "fetch", !.intake = "webhook", !.order = o]
  <2>1. r \in HandlerType /\ r.pc = "fetch"
    BY <1>3, IdleType DEF HandlerType, Pcs, Deliver
  <2>2. Set(h, r) /\ UNCHANGED <<remote, row, sale, tx, settled>> /\ handler[h].pc = "idle"
    BY <1>3 DEF Deliver, stored
  <2> HIDE DEF r
  <2> QED BY <2>1, <2>2, SetHandler, LeavingLinks
<1>4. ASSUME NEW h \in Handlers, NEW intake \in {"manual", "daily"}, ListOrders(h, intake)
      PROVE LinkInv'
  <2>1. (IF intake = "daily" THEN Created \ covered ELSE Created) \in SUBSET Orders
    BY DEF Created
  <2>2. UNCHANGED <<remote, row, sale, tx, settled>> /\ handler[h].pc = "idle"
    BY <1>4 DEF ListOrders, stored
  <2> QED BY <1>4, <2>1, <2>2, TakeNextType, LeavingLinks DEF ListOrders
<1>5. ASSUME NEW h \in Handlers, CallFails(h) PROVE LinkInv'
  BY <1>5 DEF CallFails, TypeOK
<1>6. ASSUME NEW h \in Handlers, Stamp(h) PROVE LinkInv'
  <2>1. Idle.pc = "idle"
    BY DEF Idle
  <2> QED BY <1>6, <2>1, IdleType, SetHandler, LeavingLinks DEF Stamp, stored
<1>7. ASSUME NEW h \in Handlers, FetchOrder(h) PROVE LinkInv'
  <2>1. handler[h].pc = "fetch" /\ \A g \in Handlers \ {h} : handler[g].pc = "idle"
    BY <1>7 DEF FetchOrder, OneBusy
  <2>2. handler'[h].pc = "read" /\ \A g \in Handlers \ {h} : handler'[g] = handler[g]
    <3>1. {g \in Handlers \ {h} : Storing(g) /\ handler[g].order = handler[h].order} = {}
      BY <2>1 DEF Storing
    <3>2. \A g \in Handlers \ {h} : handler'[g] = handler[g]
      BY <1>7, <3>1 DEF FetchOrder
    <3> QED BY <1>7, <3>2, FetchType
  <2>3. UNCHANGED <<remote, row, sale, tx>> /\ settled' \subseteq settled
    BY <1>7 DEF FetchOrder, stored
  <2> QED BY <2>1, <2>2, <2>3, LeavingLinks
<1>8. ASSUME NEW h \in Handlers, AddItem(h) PROVE LinkInv'
  <2> DEFINE q == handler[h]
  <2>1. /\ q.pc = "item" /\ UNCHANGED <<remote, row, sale, tx>>
        /\ After(h, q.order \notin items)
        /\ \A o \in settled' : o \in settled \/ (o = q.order /\ q.snap = remote[q.order])
    BY <1>8 DEF AddItem
  <2>2. \A o \in settled' : o \in settled \/ Uncounted(o)
    <3>1. Knows(q)
      BY DEF LinkInv
    <3> QED BY <2>1, <3>1 DEF Knows, Uncounted
  <2>3. /\ handler'[h].pc \in {"fetch", "stamp", "idle"}
        /\ \A g \in Handlers \ {h} : handler'[g] = handler[g]
    BY <2>1, AfterType
  <2> QED BY <2>1, <2>2, <2>3, LeavingLinks
<1> QED BY <1>1, <1>2, <1>3, <1>4, <1>5, <1>6, <1>7, <1>8, ReadLinks, UpsertLinks, ZeroLinks, RowLinks
        DEF Next, Serve

LEMMA FaultsGrow == [Next]_vars => faults' = faults \/ faults' = faults + 1
BY DEF Next, vars, CreateOrder, PayOrder, CancelOrder, Change, Serve, Stamp, FetchOrder, ReadRow,
       UpsertSale, UpsertTx, ZeroRecord, UpsertRow, ClearItems, AddItem, CallFails, Deliver,
       ListOrders

-----------------------------------------------------------------------------
(* The theorems *)

\* The rows of the synchronisation are of their types.
THEOREM OrderTypesHold == Spec => []TypeOK
BY InitType, TypeStep, PTL DEF Spec

\* upsertOrder run alone, to its end, on the order as it still is leaves the
\* row, the items and the counted revenue right, whatever races, failures and
\* restarts left behind.
THEOREM SoloRunsRepair == Spec => []SoloRunRepairs
<1>1. RepairInv => SoloRunRepairs
  BY DEF RepairInv, SettledInv, Repaired, SoloRunRepairs
<1> QED BY <1>1, InitType, TypeStep, RepairInit, RepairNext, PTL DEF Spec

\* As long as nothing fails and orders are processed one after the other, processing an
\* order again leaves what processing it once would have, and no revenue for a cancelled
\* one: whatever counts is linked by the row, or by the handler that is about to write it.
THEOREM UndisturbedRunsAreIdempotent == MCSpec => []UndisturbedIsIdempotent
<1> DEFINE Undisturbed == apart /\ faults = 0 => OneBusy /\ LinkInv
<1>1. MCInit => TypeOK /\ RepairInv /\ Undisturbed
  <2> SUFFICES ASSUME MCInit PROVE OneBusy /\ LinkInv
    BY InitType, RepairInit DEF MCInit
  <2>1. Idle.pc = "idle"
    BY DEF Idle
  <2>2. \A h \in Handlers : handler[h].pc = "idle"
    BY <2>1 DEF MCInit, Init
  <2>3. \A o \in Orders : ~(sale[o] > 0) /\ ~(tx[o] > 0)
    BY DEF MCInit, Init, Missing
  <2>4. OneBusy
    BY <2>2 DEF MCInit, OneBusy, Init
  <2> QED BY <2>2, <2>3, <2>4 DEF LinkInv, SaleLinked, TxLinked, Knows, MCInit, Init
<1>2. TypeOK /\ RepairInv /\ Undisturbed /\ [MCNext]_<<vars, apart>> =>
        TypeOK' /\ RepairInv' /\ Undisturbed'
  <2> SUFFICES ASSUME TypeOK, RepairInv, Undisturbed, [MCNext]_<<vars, apart>>
               PROVE  TypeOK' /\ RepairInv' /\ Undisturbed'
    OBVIOUS
  <2>1. [Next]_vars
    BY DEF MCNext
  <2>2. TypeOK' /\ RepairInv'
    BY <2>1, TypeStep, RepairNext
  <2>3. ASSUME apart', faults' = 0 PROVE OneBusy' /\ LinkInv'
    <3>1. faults = 0
      <4>1. faults' = faults \/ faults' = faults + 1
        BY <2>1, FaultsGrow
      <4> QED BY <2>3, <4>1 DEF TypeOK
    <3>2. CASE MCNext
      BY <2>1, <2>3, <3>1, <3>2, LinksNext DEF MCNext
    <3>3. CASE UNCHANGED <<vars, apart>>
      <4>1. OneBusy /\ apart
        BY <2>3, <3>1, <3>3
      <4>2. OneBusy'
        BY <3>3, <4>1 DEF OneBusy, vars
      <4> QED BY <2>1, <2>3, <3>1, <4>1, <4>2, LinksNext
    <3> QED BY <3>2, <3>3
  <2> QED BY <2>2, <2>3
<1>3. TypeOK /\ RepairInv /\ Undisturbed => UndisturbedIsIdempotent
  <2> SUFFICES ASSUME TypeOK, RepairInv, LinkInv, NEW o \in settled
               PROVE  StoredOnce(o) /\ CountedOnce(o)
    BY DEF UndisturbedIsIdempotent, ProcessingIsIdempotent
  <2>1. StoredOnce(o) /\ (IsRevenue(remote[o]) => CountedOnce(o)) /\ Uncounted(o) /\ o \in Orders
    BY DEF RepairInv, SettledInv, Repaired, LinkInv, TypeOK
  <2>2. ASSUME ~IsRevenue(remote[o]) PROVE CountedOnce(o)
    <3>1. sale[o] \in {Missing, 0} /\ tx[o] \in {Missing, 0}
      BY <2>1, <2>2 DEF Uncounted, TypeOK, Amounts, Missing, Total, PaidTotal
    <3> QED BY <2>2, <3>1 DEF CountedOnce
  <2> QED BY <2>1, <2>2
<1> HIDE DEF Undisturbed
<1> QED BY <1>1, <1>2, <1>3, PTL DEF MCSpec
=============================================================================
