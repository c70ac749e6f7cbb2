---------------------------- MODULE BillingProofs ----------------------------
(***************************************************************************)
(* Proofs about billing.service.ts with Stripe around it, for any plans,   *)
(* checkouts, handlers, events, failures and restarts.  Four invariants:   *)
(*                                                                         *)
(*   TypeInv    every record has its type, a delivery in progress is of an *)
(*              event that happened, and a handler about to work on a row  *)
(*              knows which row.                                           *)
(*   InboxInv   an event in work is stored, only one delivery works on it, *)
(*              and its effect happens once, where the handler applies it: *)
(*              what makes the webhook an at-most-once inbox (Inbox).      *)
(*   BoughtInv  whatever plan a session, Stripe, a row, an event under way *)
(*              or a handler knows has been sold or paid for; so is, then, *)
(*              the plan copied to the user and the tier of the instance.  *)
(*   SettleInv  (while nothing has failed, and things happen one after the *)
(*              other) the last event of a subscription says what it is    *)
(*              now, and the row, the user and the tier say the same once  *)
(*              it is handled: what makes a company at rest agree with     *)
(*              Stripe.                                                    *)
(***************************************************************************)
EXTENDS Billing, WellFoundedInduction, TLAPS

(* The newest row of some *)

LEMMA NatIsWellFounded ==
  ASSUME NEW T, T \subseteq Nat, T # {}
  PROVE  \E x \in T : \A y \in T : ~(y < x)
<1>1. \E x \in T : \A y \in T : ~(<<y, x>> \in OpToRel(<, Nat))
  BY NatLessThanWellFounded, WFMin
<1>2. PICK x \in T : \A y \in T : ~(<<y, x>> \in OpToRel(<, Nat))
  BY <1>1
<1>3. ASSUME NEW y \in T PROVE ~(y < x)
  BY <1>2, <1>3 DEF OpToRel
<1> QED BY <1>3

LEMMA NewestExists ==
  ASSUME NEW T, T \subseteq Checkouts, T # {}
  PROVE  \E k \in T : \A j \in T : j <= k
<1> DEFINE U == {NumCheckouts - k : k \in T}
<1>1. NumCheckouts \in Nat /\ T \subseteq Nat /\ (\A k \in T : k <= NumCheckouts)
  BY BoundsAssumption DEF Checkouts
<1>2. U \subseteq Nat /\ U # {}
  <2>1. ASSUME NEW k \in T PROVE NumCheckouts - k \in Nat
    <3>1. k \in Nat /\ NumCheckouts \in Nat /\ k <= NumCheckouts BY <1>1
    <3> QED BY <3>1
  <2> QED BY <2>1
<1>3. PICK x \in U : \A y \in U : ~(y < x) BY <1>2, NatIsWellFounded
<1>4. PICK k \in T : x = NumCheckouts - k BY <1>3
<1>5. ASSUME NEW j \in T PROVE j <= k
  <2>1. NumCheckouts - j \in U OBVIOUS
  <2>2. ~(NumCheckouts - j < NumCheckouts - k) BY <2>1, <1>3, <1>4
  <2>3. j \in Nat /\ k \in Nat BY <1>1
  <2> QED BY <2>2, <2>3, <1>1
<1> QED BY <1>4, <1>5

-----------------------------------------------------------------------------
(* Type correctness *)

SessionType == [state : {"none", "open", "complete"}, plan : Plans]

\* A delivery in progress is of an event that happened, and a handler about to work on a
\* row knows which.
AtRow == {"apply", "changeAt", "pick", "flag", "openSession"}
WebhookPcs == {"find", "store", "process", "apply", "syncUser", "syncTier", "mark", "markFailed"}
CallKnown(r, evs) ==
    /\ r.op = "webhook" => r.pc \in WebhookPcs /\ r.e \in 1..Len(evs) /\ r.k = evs[r.e].k
    /\ r.pc \in {"find", "store", "process", "mark", "markFailed"} => r.op = "webhook"
    /\ r.pc \in AtRow => r.k \in Checkouts

TypeInv == TypeOK /\ \A h \in Handlers : CallKnown(handler[h], events)

LEMMA IdleTyped ==
  /\ NoStripe \in StripeType /\ NoRow \in RowType
  /\ IdleHandler \in HandlerType /\ \A evs : CallKnown(IdleHandler, evs)
BY BoundsAssumption, PlansAssumption
   DEF IdleHandler, NoStripe, NoRow, StripeType, RowType, StripeStatus, RowStatus, HandlerType,
       Pcs, CallKnown, AtRow

LEMMA TypesBegin == Init => TypeInv
<1> SUFFICES ASSUME Init PROVE TypeInv
  OBVIOUS
<1>1. NoStripe \in StripeType /\ NoRow \in RowType
      /\ IdleHandler \in HandlerType /\ \A evs : CallKnown(IdleHandler, evs)
  BY IdleTyped
<1> HIDE DEF NoStripe, NoRow, IdleHandler
<1>2. TypeOK BY <1>1, BoundsAssumption, PlansAssumption DEF Init, TypeOK
<1> QED BY <1>1, <1>2 DEF Init, TypeInv

\* A handler goes on, and the others stay where they are.
LEMMA HandlerMoves ==
  ASSUME NEW h \in Handlers, NEW n, Set(h, n), handler \in [Handlers -> HandlerType],
         n \in HandlerType
  PROVE  /\ handler' \in [Handlers -> HandlerType]
         /\ handler'[h] = n
         /\ \A g \in Handlers \ {h} : handler'[g] = handler[g]
BY DEF Set

LEMMA KnownMoves ==
  ASSUME NEW h \in Handlers, NEW n, Set(h, n), TypeInv, n \in HandlerType,
         CallKnown(n, events'), events' = events
  PROVE  /\ handler' \in [Handlers -> HandlerType]
         /\ \A g \in Handlers : CallKnown(handler'[g], events')
<1>1. handler \in [Handlers -> HandlerType] BY DEF TypeInv, TypeOK
<1>2. /\ handler' \in [Handlers -> HandlerType] /\ handler'[h] = n
      /\ \A g \in Handlers \ {h} : handler'[g] = handler[g]
  BY <1>1, HandlerMoves
<1> QED BY <1>2 DEF TypeInv

LEMMA Appended ==
  ASSUME NEW S, NEW s \in Seq(S), NEW t \in Seq(S)
  PROVE  /\ s \o t \in Seq(S) /\ Len(s \o t) = Len(s) + Len(t)
         /\ \A i \in 1..Len(s) : (s \o t)[i] = s[i]
         /\ \A i \in 1..Len(s \o t) : i > Len(s) => (s \o t)[i] = t[i - Len(s)]
OBVIOUS

\* Events are appended.
LEMMA EventsSent ==
  ASSUME NEW types \in Seq(AllEventTypes), NEW k \in Checkouts, NEW snap \in StripeType,
         Emit(types, k, snap), TypeOK
  PROVE  /\ events' \in Seq(EventType) /\ Len(events') <= MaxEvents
         /\ Len(events) <= Len(events')
         /\ \A i \in 1..Len(events) : events'[i] = events[i]
         /\ \A i \in 1..Len(events') :
              i > Len(events) =>
                \E j \in 1..Len(types) : events'[i] = [type |-> types[j], k |-> k, snap |-> snap]
<1> DEFINE more == [i \in 1..Len(types) |-> [type |-> types[i], k |-> k, snap |-> snap]]
<1>1. events \in Seq(EventType) /\ Len(types) \in Nat BY DEF TypeOK
<1>2. more \in Seq(EventType) /\ Len(more) = Len(types)
  BY <1>1 DEF EventType
<1>3. events' = events \o more /\ Len(events) + Len(types) <= MaxEvents BY DEF Emit
<1>4. \A i \in 1..Len(types) : more[i] = [type |-> types[i], k |-> k, snap |-> snap]
  OBVIOUS
<1> HIDE DEF more
<1>5. /\ events' \in Seq(EventType) /\ Len(events') = Len(events) + Len(types)
      /\ \A i \in 1..Len(events) : events'[i] = events[i]
      /\ \A i \in 1..Len(events') : i > Len(events) => events'[i] = more[i - Len(events)]
  <2>1. /\ events \o more \in Seq(EventType) /\ Len(events \o more) = Len(events) + Len(more)
        /\ \A i \in 1..Len(events) : (events \o more)[i] = events[i]
        /\ \A i \in 1..Len(events \o more) :
             i > Len(events) => (events \o more)[i] = more[i - Len(events)]
    BY <1>1, <1>2, Appended, Zenon
  <2> QED BY <2>1, <1>2, <1>3, Zenon
<1>6. ASSUME NEW i \in 1..Len(events'), i > Len(events)
      PROVE  i - Len(events) \in 1..Len(types)
  BY <1>1, <1>5, <1>6
<1>7. \A i \in 1..Len(events') : i > Len(events) =>
        \E j \in 1..Len(types) : events'[i] = [type |-> types[j], k |-> k, snap |-> snap]
  BY <1>4, <1>5, <1>6
<1>8. Len(events') <= MaxEvents /\ Len(events) <= Len(events')
  <2>1. Len(events) \in Nat /\ Len(events') = Len(events) + Len(types) BY <1>1, <1>5
  <2> QED BY <2>1, <1>1, <1>3
<1> QED BY <1>5, <1>7, <1>8, Zenon

LEMMA SentTypes ==
  /\ \A t \in AllEventTypes : Sent(t) \in Seq(AllEventTypes)
  /\ \A s, t \in Seq(AllEventTypes) : s \o t \in Seq(AllEventTypes)
BY DEF Sent

\* More events leave what is known of a call as it was.
LEMMA KnownStays ==
  ASSUME NEW r, NEW evs, NEW more, CallKnown(r, evs), evs \in Seq(EventType),
         more \in Seq(EventType), Len(evs) <= Len(more), \A i \in 1..Len(evs) : more[i] = evs[i]
  PROVE  CallKnown(r, more)
<1>1. \A e : e \in 1..Len(evs) => e \in 1..Len(more) /\ more[e] = evs[e] OBVIOUS
<1> QED BY <1>1 DEF CallKnown

\* The calls as they begin.
LEMMA DeliveryBegins ==
  ASSUME NEW k \in Checkouts, NEW e \in EventIds
  PROVE  LET n == [IdleHandler EXCEPT !.pc = "find", !.op = "webhook", !.k = k, !.e = e]
         IN  /\ n \in HandlerType
             /\ n.pc = "find" /\ n.op = "webhook" /\ n.k = k /\ n.e = e
<1>1. k \in 0..NumCheckouts /\ e \in 0..MaxEvents
  BY BoundsAssumption DEF Checkouts, EventIds
<1>2. NoStripe \in StripeType /\ FreePlan \in Plans /\ "none" \in RowStatus
  BY IdleTyped, PlansAssumption DEF RowStatus
<1> HIDE DEF NoStripe
<1> QED BY <1>1, <1>2 DEF HandlerType, Pcs, IdleHandler

LEMMA RequestBegins ==
  ASSUME NEW k \in 0..NumCheckouts, NEW pc \in Pcs, NEW op \in Ops, NEW p \in Plans
  PROVE  LET n == [IdleHandler EXCEPT !.pc = pc, !.op = op, !.k = k, !.plan = p]
         IN  /\ n \in HandlerType
             /\ n.pc = pc /\ n.op = op /\ n.k = k /\ n.plan = p
<1>1. 0 \in 0..MaxEvents BY BoundsAssumption
<1>2. NoStripe \in StripeType /\ "none" \in RowStatus BY IdleTyped DEF RowStatus
<1> HIDE DEF NoStripe
<1> QED BY <1>1, <1>2 DEF HandlerType, IdleHandler

LEMMA ReadingBegins ==
  ASSUME NEW k \in Checkouts, NEW snap \in StripeType, "status" \in Ops
  PROVE  LET n == [IdleHandler EXCEPT !.pc = "apply", !.op = "status", !.k = k,
                                      !.snap = snap, !.withSession = TRUE]
         IN  /\ n \in HandlerType
             /\ n.pc = "apply" /\ n.op = "status" /\ n.k = k /\ n.snap = snap /\ n.over = "none"
<1>1. k \in 0..NumCheckouts /\ 0 \in 0..MaxEvents BY BoundsAssumption DEF Checkouts
<1>2. NoStripe \in StripeType /\ FreePlan \in Plans /\ "none" \in RowStatus
  BY IdleTyped, PlansAssumption DEF RowStatus
<1> HIDE DEF NoStripe
<1> QED BY <1>1, <1>2 DEF HandlerType, Pcs, IdleHandler

LEMMA RowBegins ==
  ASSUME NEW p \in Plans
  PROVE  LET n == [NoRow EXCEPT !.status = "PENDING", !.plan = p]
         IN  n \in RowType /\ n.status = "PENDING" /\ n.plan = p
<1>1. 0 \in 0..(Horizon + 1) BY BoundsAssumption
<1> QED BY <1>1 DEF RowType, RowStatus, NoRow

\* A call that goes to its next step.
LEMMA NextStep ==
  ASSUME NEW r \in HandlerType, NEW pc \in Pcs
  PROVE  LET n == [r EXCEPT !.pc = pc]
         IN  /\ n \in HandlerType
             /\ n.pc = pc /\ n.op = r.op /\ n.k = r.k /\ n.e = r.e /\ n.plan = r.plan
             /\ n.snap = r.snap /\ n.over = r.over
BY DEF HandlerType

LEMMA CallGoesOn ==
  ASSUME NEW h \in Handlers, NEW pc \in Pcs, Goto(h, pc), TypeInv,
         handler[h].op = "webhook" => pc \in WebhookPcs,
         pc \in {"find", "store", "process", "mark", "markFailed"} => handler[h].op = "webhook",
         pc \in AtRow => handler[h].k \in Checkouts,
         events' = events
  PROVE  /\ handler' \in [Handlers -> HandlerType]
         /\ \A g \in Handlers : CallKnown(handler'[g], events')
<1> DEFINE n == [handler[h] EXCEPT !.pc = pc]
<1>1. handler[h] \in HandlerType /\ CallKnown(handler[h], events) BY DEF TypeInv, TypeOK
<1>2. /\ n \in HandlerType
      /\ n.pc = pc /\ n.op = handler[h].op /\ n.k = handler[h].k /\ n.e = handler[h].e
  BY <1>1, NextStep
<1>3. Set(h, n) BY DEF Goto
<1> HIDE DEF n
<1>4. CallKnown(n, events') BY <1>1, <1>2 DEF CallKnown
<1> QED BY <1>2, <1>3, <1>4, KnownMoves

LEMMA CallEnds ==
  ASSUME NEW h \in Handlers, Done(h), TypeInv, events' = events
  PROVE  /\ handler' \in [Handlers -> HandlerType]
         /\ \A g \in Handlers : CallKnown(handler'[g], events')
BY IdleTyped, KnownMoves DEF Done

LEMMA MapStatusIs ==
  ASSUME NEW s \in StripeStatus
  PROVE  /\ MapStatus(s) \in RowStatus \ {"none"}
         /\ MapStatus(s) = "ACTIVE" <=> s = "active"
BY DEF MapStatus, StripeStatus, RowStatus

\* The row a snapshot is written to.
LEMMA SnapshotIsRow ==
  ASSUME TypeOK, NEW r \in HandlerType, r.k \in Checkouts
  PROVE  /\ SnapshotRow(r) \in RowType
         /\ SnapshotRow(r).status = SnapshotStatus(r) /\ SnapshotRow(r).plan = SnapshotPlan(r)
         /\ SnapshotRow(r).status # "none"
         /\ SnapshotRow(r).status = "ACTIVE" =>
              r.over = "ACTIVE" \/ (r.over = "none" /\ r.snap.status = "active")
         /\ SnapshotRow(r).plan \in {session[r.k].plan, r.snap.meta}
<1>1. /\ r.snap \in StripeType /\ r.over \in RowStatus /\ session[r.k].plan \in Plans
  BY DEF TypeOK, HandlerType
<1>2. /\ r.snap.status \in StripeStatus /\ r.snap.meta \in Plans /\ r.snap.ends \in BOOLEAN
      /\ r.snap.until \in 0..(Horizon + 1)
  BY <1>1 DEF StripeType
<1>3. /\ MapStatus(r.snap.status) \in RowStatus \ {"none"}
      /\ MapStatus(r.snap.status) = "ACTIVE" <=> r.snap.status = "active"
  BY <1>2, MapStatusIs
<1>4. /\ SnapshotStatus(r) \in RowStatus \ {"none"}
      /\ SnapshotStatus(r) = "ACTIVE" =>
           r.over = "ACTIVE" \/ (r.over = "none" /\ r.snap.status = "active")
  BY <1>1, <1>3 DEF SnapshotStatus
<1>5. SnapshotPlan(r) \in Plans /\ SnapshotPlan(r) \in {session[r.k].plan, r.snap.meta}
  BY <1>1, <1>2 DEF SnapshotPlan
<1>6. (IF PeriodEndKnown THEN r.snap.until ELSE 0) \in 0..(Horizon + 1)
  BY <1>2, BoundsAssumption
<1>7. SnapshotRow(r) \in RowType
  BY <1>2, <1>4, <1>5, <1>6 DEF SnapshotRow, RowType
<1> QED BY <1>4, <1>5, <1>7 DEF SnapshotRow

\* The row that is current is a row.
LEMMA CurrentIsActive == Current # 0 => Current \in Checkouts /\ IsActive(sub[Current])
<1> DEFINE active == {k \in Checkouts : IsActive(sub[k])}
<1>1. CASE active = {} BY <1>1 DEF Current
<1>2. CASE active # {}
  <2>1. \E k \in active : \A j \in active : j <= k BY <1>2, NewestExists
  <2>2. Current = CHOOSE k \in active : \A j \in active : j <= k BY <1>2 DEF Current
  <2> HIDE DEF active
  <2>3. Current \in active BY <2>1, <2>2, Zenon
  <2> QED BY <2>3 DEF active
<1> QED BY <1>1, <1>2

RestOfTypes ==
    /\ sub \in [Checkouts -> RowType]
    /\ {user, tier} \subseteq Plans
    /\ stored \in [EventIds -> {"none", "stored", "processed", "failed"}]
    /\ session \in [Checkouts -> SessionType]
    /\ stripe \in [Checkouts -> StripeType]
    /\ acked \subseteq EventIds
    /\ now \in 0..Horizon /\ faults \in 0..MaxFaults
    /\ applied \in [EventIds -> Nat]
    /\ sold \in [Checkouts -> SUBSET Plans]
    /\ paid \subseteq Checkouts

EventsTyped == events \in Seq(EventType) /\ Len(events) <= MaxEvents

HandlersKnown ==
    /\ handler \in [Handlers -> HandlerType]
    /\ \A h \in Handlers : CallKnown(handler[h], events)

LEMMA TypesSplit == TypeInv <=> RestOfTypes /\ EventsTyped /\ HandlersKnown
BY DEF TypeInv, TypeOK, RestOfTypes, EventsTyped, HandlersKnown, SessionType

LEMMA EventIsKnown ==
  ASSUME TypeInv, NEW e \in 1..Len(events)
  PROVE  e \in EventIds /\ events[e] \in EventType /\ events[e].k \in Checkouts
<1>1. events \in Seq(EventType) /\ Len(events) <= MaxEvents BY DEF TypeInv, TypeOK
<1>2. MaxEvents \in Nat BY BoundsAssumption
<1>3. e \in EventIds BY <1>1, <1>2 DEF EventIds
<1>4. events[e] \in EventType BY <1>1
<1> QED BY <1>3, <1>4 DEF EventType

LEMMA DeliverTyped == ASSUME TypeInv, NEW h \in Handlers, NEW e \in EventIds, Deliver(h, e)
                      PROVE TypeInv'
<1> DEFINE n == [IdleHandler EXCEPT !.pc = "find", !.op = "webhook", !.k = events[e].k, !.e = e]
<1>1. /\ Set(h, n) /\ e \in 1..Len(events)
      /\ UNCHANGED <<local, external, acked, now, faults, history>>
  BY DEF Deliver
<1>2. e \in EventIds /\ events[e].k \in Checkouts BY <1>1, EventIsKnown
<1>3. n \in HandlerType /\ n.pc = "find" /\ n.op = "webhook" /\ n.k = events[e].k /\ n.e = e
  BY <1>2, DeliveryBegins DEF IdleHandler
<1> HIDE DEF n
<1>4. events' = events BY <1>1 DEF external
<1>5. CallKnown(n, events') BY <1>1, <1>3, <1>4 DEF CallKnown, AtRow, WebhookPcs
<1>6. HandlersKnown' BY <1>1, <1>3, <1>4, <1>5, KnownMoves DEF HandlersKnown
<1>7. RestOfTypes' /\ EventsTyped'
  BY <1>1, TypesSplit DEF RestOfTypes, EventsTyped, local, external, history
<1> QED BY <1>6, <1>7, TypesSplit, PTL

LEMMA FindTyped == ASSUME TypeInv, NEW h \in Handlers, FindEvent(h) PROVE TypeInv'
<1>1. handler[h].op = "webhook" /\ handler[h].e \in 1..Len(events) /\ handler[h].pc = "find"
  BY DEF TypeInv, CallKnown, FindEvent
<1>2. handler[h].e \in EventIds BY <1>1, EventIsKnown
<1>3. events' = events BY DEF FindEvent, external
<1>4. HandlersKnown'
  <2>1. CASE Done(h) BY <2>1, <1>3, CallEnds DEF HandlersKnown
  <2>2. CASE Goto(h, "store")
    BY <2>2, <1>1, <1>3, CallGoesOn DEF HandlersKnown, Pcs, AtRow, WebhookPcs
  <2> QED BY <2>1, <2>2 DEF FindEvent
<1>5. RestOfTypes' /\ EventsTyped'
  BY <1>2, TypesSplit DEF FindEvent, RestOfTypes, EventsTyped, local, external, history
<1> QED BY <1>4, <1>5, TypesSplit, PTL

LEMMA StoreTyped == ASSUME TypeInv, NEW h \in Handlers, StoreEvent(h) PROVE TypeInv'
<1>1. handler[h].op = "webhook" /\ handler[h].e \in 1..Len(events) /\ handler[h].pc = "store"
  BY DEF TypeInv, CallKnown, StoreEvent
<1>3. events' = events BY DEF StoreEvent, external
<1>4. HandlersKnown'
  <2>1. CASE Done(h) BY <2>1, <1>3, CallEnds DEF HandlersKnown
  <2>2. CASE Goto(h, "process")
    BY <2>2, <1>1, <1>3, CallGoesOn DEF HandlersKnown, Pcs, AtRow, WebhookPcs
  <2> QED BY <2>1, <2>2 DEF StoreEvent
<1>5. RestOfTypes' /\ EventsTyped'
  BY TypesSplit DEF StoreEvent, RestOfTypes, EventsTyped, external, history
<1> QED BY <1>4, <1>5, TypesSplit, PTL

\* What a delivery is about to apply.
LEMMA ProcessedAs ==
  ASSUME TypeInv, NEW h \in Handlers, ProcessEvent(h)
  PROVE  \E n \in HandlerType :
           /\ Set(h, n)
           /\ n.pc = "apply" /\ n.op = "webhook" /\ n.k = handler[h].k /\ n.e = handler[h].e
           /\ n.snap \in {events[n.e].snap, stripe[n.k]}
           /\ n.over = "ACTIVE" => events[n.e].type = "invoice.paid"
<1> DEFINE r == handler[h]
           ev == events[r.e]
           snap == IF ev.type \in {"created", "updated", "deleted"} THEN ev.snap ELSE stripe[ev.k]
           over == CASE ev.type = "invoice.paid" -> "ACTIVE"
                     [] ev.type = "invoice.failed" -> "PAST_DUE"
                     [] OTHER -> "none"
           with == ev.type = "checkout.completed"
           n == [r EXCEPT !.pc = "apply", !.snap = snap, !.over = over, !.withSession = with]
<1>1. /\ r \in HandlerType /\ r.op = "webhook" /\ r.e \in 1..Len(events) /\ r.k = ev.k
  BY DEF TypeInv, TypeOK, CallKnown, ProcessEvent
<1>2. ev \in EventType /\ ev.k \in Checkouts /\ stripe[ev.k] \in StripeType
  BY <1>1, EventIsKnown DEF TypeInv, TypeOK
<1>3. /\ snap \in StripeType /\ snap \in {ev.snap, stripe[r.k]}
      /\ over \in RowStatus /\ (over = "ACTIVE" => ev.type = "invoice.paid")
      /\ with \in BOOLEAN
  <2>1. snap \in StripeType /\ snap \in {ev.snap, stripe[r.k]} BY <1>1, <1>2 DEF EventType
  <2>2. over \in RowStatus /\ (over = "ACTIVE" => ev.type = "invoice.paid") BY DEF RowStatus
  <2> QED BY <2>1, <2>2
<1>4. Set(h, n) BY DEF ProcessEvent
<1> HIDE DEF snap, over, with
<1>5. /\ n \in HandlerType
      /\ n.pc = "apply" /\ n.op = r.op /\ n.k = r.k /\ n.e = r.e /\ n.snap = snap /\ n.over = over
  BY <1>1, <1>3 DEF HandlerType, Pcs
<1> HIDE DEF n
<1> QED BY <1>1, <1>3, <1>4, <1>5

LEMMA ProcessTyped == ASSUME TypeInv, NEW h \in Handlers, ProcessEvent(h) PROVE TypeInv'
<1>1. PICK n \in HandlerType :
        /\ Set(h, n)
        /\ n.pc = "apply" /\ n.op = "webhook" /\ n.k = handler[h].k /\ n.e = handler[h].e
  BY ProcessedAs
<1>2. /\ handler[h].op = "webhook" /\ handler[h].e \in 1..Len(events)
      /\ handler[h].k = events[handler[h].e].k
  BY DEF TypeInv, CallKnown, ProcessEvent
<1>3. handler[h].k \in Checkouts BY <1>2, EventIsKnown
<1>4. events' = events BY DEF ProcessEvent, external
<1>5. CallKnown(n, events') BY <1>1, <1>2, <1>3, <1>4 DEF CallKnown, WebhookPcs
<1>6. HandlersKnown' BY <1>1, <1>4, <1>5, KnownMoves DEF HandlersKnown
<1>7. RestOfTypes' /\ EventsTyped'
  BY TypesSplit DEF ProcessEvent, RestOfTypes, EventsTyped, local, external, history
<1> QED BY <1>6, <1>7, TypesSplit, PTL

LEMMA CloseTyped ==
  ASSUME TypeInv, NEW h \in Handlers, MarkEvent(h) \/ MarkFailed(h) PROVE TypeInv'
<1>1. handler[h].op = "webhook" /\ handler[h].e \in 1..Len(events)
  BY DEF TypeInv, CallKnown, MarkEvent, MarkFailed
<1>2. handler[h].e \in EventIds BY <1>1, EventIsKnown
<1>3. events' = events /\ Done(h) BY DEF MarkEvent, MarkFailed, external
<1>4. HandlersKnown' BY <1>3, CallEnds DEF HandlersKnown
<1>5. RestOfTypes' /\ EventsTyped'
  BY <1>2, TypesSplit DEF MarkEvent, MarkFailed, RestOfTypes, EventsTyped, external, history
<1> QED BY <1>4, <1>5, TypesSplit, PTL

LEMMA ApplyTyped == ASSUME TypeInv, NEW h \in Handlers, Apply(h) PROVE TypeInv'
<1> DEFINE r == handler[h]
           row == SnapshotRow(r)
<1>1. r \in HandlerType /\ CallKnown(r, events) /\ r.pc = "apply" /\ r.k \in Checkouts
  BY DEF TypeInv, TypeOK, CallKnown, Apply, AtRow
<1>2. row \in RowType BY <1>1, SnapshotIsRow DEF TypeInv
<1>3. /\ sub' = [sub EXCEPT ![r.k] = row]
      /\ \/ \E p \in Plans : Set(h, [r EXCEPT !.pc = "syncUser", !.plan = p])
         \/ Goto(h, "mark") /\ r.op = "webhook"
         \/ Done(h)
      /\ applied' = IF r.op = "webhook" THEN [applied EXCEPT ![r.e] = @ + 1] ELSE applied
      /\ UNCHANGED <<user, tier, stored, external, acked, now, faults, sold, paid>>
  <2>1. row.plan \in Plans /\ FreePlan \in Plans BY <1>2, PlansAssumption DEF RowType
  <2> HIDE DEF row
  <2> QED BY <2>1 DEF Apply, AfterApply, row
<1> HIDE DEF row
<1>4. events' = events BY <1>3 DEF external
<1>5. HandlersKnown'
  <2>1. ASSUME NEW p \in Plans, Set(h, [r EXCEPT !.pc = "syncUser", !.plan = p])
        PROVE  HandlersKnown'
    <3> DEFINE n == [r EXCEPT !.pc = "syncUser", !.plan = p]
    <3>1. /\ n \in HandlerType /\ n.pc = "syncUser" /\ n.op = r.op /\ n.k = r.k /\ n.e = r.e
      BY <1>1 DEF HandlerType, Pcs
    <3>2. Set(h, n) BY <2>1
    <3> HIDE DEF n
    <3>3. CallKnown(n, events') BY <1>1, <1>4, <3>1 DEF CallKnown, AtRow, WebhookPcs
    <3> QED BY <3>1, <3>2, <3>3, <1>4, KnownMoves DEF HandlersKnown
  <2>2. CASE Goto(h, "mark") /\ r.op = "webhook"
    BY <2>2, <1>1, <1>4, CallGoesOn DEF HandlersKnown, Pcs, AtRow, WebhookPcs
  <2>3. CASE Done(h) BY <2>3, <1>4, CallEnds DEF HandlersKnown
  <2> QED BY <1>3, <2>1, <2>2, <2>3
<1>6. RestOfTypes' /\ EventsTyped'
  <2>1. sub' \in [Checkouts -> RowType] BY <1>2, <1>3, TypesSplit DEF RestOfTypes
  <2>2. applied' \in [EventIds -> Nat]
    <3>1. applied \in [EventIds -> Nat] BY DEF TypeInv, TypeOK
    <3>2. CASE r.op = "webhook"
      <4>1. r.e \in EventIds BY <3>2, <1>1, EventIsKnown DEF CallKnown
      <4>2. applied[r.e] + 1 \in Nat BY <3>1, <4>1
      <4>3. \A m \in Nat : [applied EXCEPT ![r.e] = m] \in [EventIds -> Nat] BY <3>1
      <4> QED BY <4>2, <4>3, <3>2, <1>3
    <3>3. CASE r.op # "webhook" BY <3>1, <3>3, <1>3
    <3> QED BY <3>2, <3>3
  <2> QED BY <2>1, <2>2, <1>3, TypesSplit DEF RestOfTypes, EventsTyped, external
<1> QED BY <1>5, <1>6, TypesSplit, PTL

LEMMA SyncTyped ==
  ASSUME TypeInv, NEW h \in Handlers, SyncUser(h) \/ SyncTier(h) PROVE TypeInv'
<1>1. handler[h] \in HandlerType /\ handler[h].plan \in Plans
      /\ handler[h].pc \in {"syncUser", "syncTier"}
  BY DEF TypeInv, TypeOK, HandlerType, SyncUser, SyncTier
<1>2. events' = events BY DEF SyncUser, SyncTier, external
<1>3. HandlersKnown'
  <2>1. CASE Goto(h, "syncTier")
    BY <2>1, <1>1, <1>2, CallGoesOn DEF HandlersKnown, Pcs, AtRow, WebhookPcs
  <2>2. CASE Goto(h, "mark") /\ handler[h].op = "webhook"
    BY <2>2, <1>1, <1>2, CallGoesOn DEF HandlersKnown, Pcs, AtRow, WebhookPcs
  <2>3. CASE Done(h) BY <2>3, <1>2, CallEnds DEF HandlersKnown
  <2> QED BY <2>1, <2>2, <2>3 DEF SyncUser, SyncTier, AfterApply
<1>4. RestOfTypes' /\ EventsTyped'
  BY <1>1, TypesSplit DEF SyncUser, SyncTier, RestOfTypes, EventsTyped, external, history
<1> QED BY <1>3, <1>4, TypesSplit, PTL

LEMMA BeginTyped ==
  ASSUME TypeInv, NEW h \in Handlers, NEW op \in {"checkout", "change", "cancel"},
         NEW pc \in {"create", "changeAt", "pick"}, NEW k \in 0..NumCheckouts, NEW p \in Plans,
         pc # "create" => k \in Checkouts, Begin(h, op, pc, k, p)
  PROVE  TypeInv'
<1> DEFINE n == [IdleHandler EXCEPT !.pc = pc, !.op = op, !.k = k, !.plan = p]
<1>1. Set(h, n) /\ op \in Ops /\ UNCHANGED <<local, external, acked, now, faults, history>>
  BY DEF Begin
<1>2. n \in HandlerType /\ n.pc = pc /\ n.op = op /\ n.k = k /\ n.plan = p
  <2>1. pc \in Pcs BY DEF Pcs
  <2> QED BY <1>1, <2>1, RequestBegins DEF IdleHandler
<1> HIDE DEF n
<1>3. events' = events BY <1>1 DEF external
<1>4. CallKnown(n, events') BY <1>2 DEF CallKnown, AtRow, WebhookPcs
<1>5. HandlersKnown' BY <1>1, <1>2, <1>3, <1>4, KnownMoves DEF HandlersKnown
<1>6. RestOfTypes' /\ EventsTyped'
  BY <1>1, TypesSplit DEF RestOfTypes, EventsTyped, local, external, history
<1> QED BY <1>5, <1>6, TypesSplit, PTL

LEMMA RequestTyped ==
  ASSUME TypeInv, NEW h \in Handlers, NEW p \in Plans,
         BeginCheckout(h, p) \/ BeginChange(h, p) \/ BeginCancel(h)
  PROVE  TypeInv'
<1>1. 0 \in 0..NumCheckouts /\ \A k \in Checkouts : k \in 0..NumCheckouts
  BY BoundsAssumption DEF Checkouts
<1>2. CASE BeginCheckout(h, p)
  BY <1>1, <1>2, BeginTyped DEF BeginCheckout
<1>3. CASE BeginChange(h, p)
  <2>1. Current \in Checkouts BY <1>3, CurrentIsActive DEF BeginChange
  <2>2. Begin(h, "change", "changeAt", Current, p) BY <1>3 DEF BeginChange
  <2> QED BY <1>1, <2>1, <2>2, BeginTyped
<1>4. CASE BeginCancel(h)
  <2>1. PICK k \in Checkouts : Begin(h, "cancel", "pick", k, FreePlan)
    BY <1>4 DEF BeginCancel
  <2> QED BY <1>1, <2>1, BeginTyped, PlansAssumption
<1> QED BY <1>2, <1>3, <1>4

LEMMA ReadingTyped ==
  ASSUME TypeInv, NEW h \in Handlers, NEW k \in Checkouts, ReadSession(h, k) PROVE TypeInv'
<1> DEFINE n == [IdleHandler EXCEPT !.pc = "apply", !.op = "status", !.k = k,
                                    !.snap = stripe[k], !.withSession = TRUE]
<1>1. Set(h, n) /\ "status" \in Ops
      /\ UNCHANGED <<local, external, acked, now, faults, history>>
  BY DEF ReadSession
<1>2. stripe[k] \in StripeType BY DEF TypeInv, TypeOK
<1>3. n \in HandlerType /\ n.pc = "apply" /\ n.op = "status" /\ n.k = k
  BY <1>1, <1>2, ReadingBegins DEF IdleHandler
<1> HIDE DEF n
<1>4. events' = events BY <1>1 DEF external
<1>5. CallKnown(n, events') BY <1>3 DEF CallKnown, AtRow, WebhookPcs
<1>6. HandlersKnown' BY <1>1, <1>3, <1>4, <1>5, KnownMoves DEF HandlersKnown
<1>7. RestOfTypes' /\ EventsTyped'
  BY <1>1, TypesSplit DEF RestOfTypes, EventsTyped, local, external, history
<1> QED BY <1>6, <1>7, TypesSplit, PTL

\* A handler goes on while events may be appended.
LEMMA KnownMovesOn ==
  ASSUME NEW h \in Handlers, NEW n, Set(h, n), TypeInv, n \in HandlerType,
         CallKnown(n, events'), events' \in Seq(EventType), Len(events) <= Len(events'),
         \A i \in 1..Len(events) : events'[i] = events[i]
  PROVE  HandlersKnown'
<1>1. handler \in [Handlers -> HandlerType] /\ events \in Seq(EventType) BY DEF TypeInv, TypeOK
<1>2. /\ handler' \in [Handlers -> HandlerType] /\ handler'[h] = n
      /\ \A g \in Handlers \ {h} : handler'[g] = handler[g]
  BY <1>1, HandlerMoves
<1>3. ASSUME NEW g \in Handlers \ {h} PROVE CallKnown(handler'[g], events')
  <2>1. CallKnown(handler[g], events) BY DEF TypeInv
  <2>2. CallKnown(handler[g], events') BY <2>1, <1>1, KnownStays
  <2> QED BY <2>2, <1>2
<1> QED BY <1>2, <1>3 DEF HandlersKnown

LEMMA KnownStaysOn ==
  ASSUME TypeInv, handler' = handler, events' \in Seq(EventType), Len(events) <= Len(events'),
         \A i \in 1..Len(events) : events'[i] = events[i]
  PROVE  HandlersKnown'
<1>1. handler \in [Handlers -> HandlerType] /\ events \in Seq(EventType) BY DEF TypeInv, TypeOK
<1>2. ASSUME NEW g \in Handlers PROVE CallKnown(handler'[g], events')
  <2>1. CallKnown(handler[g], events) BY DEF TypeInv
  <2> QED BY <2>1, <1>1, KnownStays
<1> QED BY <1>1, <1>2 DEF HandlersKnown

LEMMA CreateTyped == ASSUME TypeInv, NEW h \in Handlers, CreateRow(h) PROVE TypeInv'
<1> DEFINE r == handler[h]
<1>1. r \in HandlerType /\ r.pc = "create" /\ r.op # "webhook" /\ r.plan \in Plans
  BY DEF TypeInv, TypeOK, HandlerType, CreateRow, CallKnown, WebhookPcs
<1>2. PICK k \in Checkouts :
        /\ sub' = [sub EXCEPT ![k] = [NoRow EXCEPT !.status = "PENDING", !.plan = r.plan]]
        /\ Set(h, [r EXCEPT !.pc = "openSession", !.k = k])
  BY DEF CreateRow
<1> DEFINE n == [r EXCEPT !.pc = "openSession", !.k = k]
           row == [NoRow EXCEPT !.status = "PENDING", !.plan = r.plan]
<1>3. k \in 0..NumCheckouts BY BoundsAssumption DEF Checkouts
<1>4. /\ n \in HandlerType /\ n.pc = "openSession" /\ n.op = r.op /\ n.k = k
  BY <1>1, <1>3 DEF HandlerType, Pcs
<1>5. row \in RowType BY <1>1, RowBegins DEF NoRow
<1>6. Set(h, n) /\ sub' = [sub EXCEPT ![k] = row] BY <1>2
<1> HIDE DEF n, row
<1>7. events' = events BY DEF CreateRow, external
<1>8. CallKnown(n, events') BY <1>1, <1>4 DEF CallKnown
<1>9. HandlersKnown' BY <1>4, <1>6, <1>7, <1>8, KnownMoves DEF HandlersKnown
<1>10. RestOfTypes' /\ EventsTyped'
  BY <1>5, <1>6, TypesSplit DEF CreateRow, RestOfTypes, EventsTyped, external, history
<1> QED BY <1>9, <1>10, TypesSplit, PTL

LEMMA OpenTyped == ASSUME TypeInv, NEW h \in Handlers, OpenSession(h) PROVE TypeInv'
<1>1. handler[h].k \in Checkouts /\ handler[h].plan \in Plans
  BY DEF TypeInv, TypeOK, HandlerType, CallKnown, AtRow, OpenSession
<1>2. HandlersKnown' BY CallEnds DEF HandlersKnown, OpenSession
<1>3. RestOfTypes' /\ EventsTyped'
  BY <1>1, TypesSplit
     DEF OpenSession, RestOfTypes, EventsTyped, SessionType, local, history
<1> QED BY <1>2, <1>3, TypesSplit, PTL

LEMMA FlagTyped == ASSUME TypeInv, NEW h \in Handlers, FlagRow(h) PROVE TypeInv'
<1>1. events' = events /\ Done(h) BY DEF FlagRow, external
<1>2. HandlersKnown' BY <1>1, CallEnds DEF HandlersKnown
<1>3. sub' \in [Checkouts -> RowType] BY TypesSplit DEF FlagRow, RestOfTypes, RowType
<1>4. RestOfTypes' /\ EventsTyped'
  BY <1>3, TypesSplit DEF FlagRow, RestOfTypes, EventsTyped, external, history
<1> QED BY <1>2, <1>4, TypesSplit, PTL

LEMMA UpdatedIsSent ==
  /\ Sent("updated") \in Seq(AllEventTypes) /\ Sent("deleted") \in Seq(AllEventTypes)
  /\ \A i \in 1..Len(Sent("updated")) : Sent("updated")[i] # "invoice.paid"
<1>1. /\ "updated" \in AllEventTypes /\ "deleted" \in AllEventTypes BY DEF AllEventTypes
<1>2. ASSUME NEW i \in 1..Len(Sent("updated")) PROVE Sent("updated")[i] # "invoice.paid"
  <2>1. CASE Sent("updated") = <<"updated">> BY <2>1
  <2>2. CASE Sent("updated") = <<>> BY <2>2
  <2> QED BY <2>1, <2>2 DEF Sent
<1> QED BY <1>1, <1>2, SentTypes

\* What is about to be changed at Stripe, and how it is then applied.
LEMMA ChangedAs ==
  ASSUME TypeInv, NEW h \in Handlers, ChangeAtStripe(h)
  PROVE  \/ Done(h) /\ UNCHANGED <<external, sold>>
         \/ \E k \in Checkouts, p \in Plans, t \in StripeType, n \in HandlerType :
              /\ k = handler[h].k /\ p = handler[h].plan
              /\ t = stripe'[k] /\ t.status = stripe[k].status /\ t.meta = p
              /\ stripe' \in [Checkouts -> StripeType]
              /\ \A j \in Checkouts \ {k} : stripe'[j] = stripe[j]
              /\ sold' = [sold EXCEPT ![k] = @ \cup {p}] /\ session' = session
              /\ Emit(Sent("updated"), k, t) /\ Set(h, n)
              /\ n.pc = "apply" /\ n.op = handler[h].op /\ n.k = k /\ n.snap = t
              /\ n.over = handler[h].over
<1> DEFINE r == handler[h]
           k == r.k
           p == r.plan
<1>1. r \in HandlerType /\ r.pc = "changeAt" /\ k \in Checkouts /\ p \in Plans
  BY DEF TypeInv, TypeOK, HandlerType, CallKnown, AtRow, ChangeAtStripe
<1>2. CASE Done(h) /\ UNCHANGED <<external, sold>> BY <1>2
<1>3. CASE /\ stripe' = [stripe EXCEPT ![k].price = p, ![k].meta = p]
           /\ sold' = [sold EXCEPT ![k] = @ \cup {p}]
           /\ Emit(Sent("updated"), k, stripe'[k])
           /\ Set(h, [r EXCEPT !.pc = "apply", !.snap = stripe'[k]])
           /\ UNCHANGED session
  <2>1. /\ stripe' \in [Checkouts -> StripeType]
        /\ stripe'[k].status = stripe[k].status /\ stripe'[k].meta = p
        /\ \A j \in Checkouts \ {k} : stripe'[j] = stripe[j]
    <3>1. stripe \in [Checkouts -> StripeType] BY DEF TypeInv, TypeOK
    <3>2. PICK u : u = [stripe[k] EXCEPT !.price = p, !.meta = p] OBVIOUS
    <3>3. u \in StripeType /\ u.status = stripe[k].status /\ u.meta = p
      BY <1>1, <3>1, <3>2 DEF StripeType
    <3>4. stripe' = [stripe EXCEPT ![k] = u] BY <1>1, <1>3, <3>1, <3>2
    <3> QED BY <1>1, <3>1, <3>3, <3>4
  <2>2. PICK t \in StripeType : t = stripe'[k] BY <1>1, <2>1
  <2> DEFINE n == [r EXCEPT !.pc = "apply", !.snap = t]
  <2>3. /\ n \in HandlerType /\ n.pc = "apply" /\ n.op = r.op /\ n.k = k /\ n.snap = t
        /\ n.over = r.over
    BY <1>1 DEF HandlerType, Pcs
  <2>4. Set(h, n) /\ Emit(Sent("updated"), k, t) BY <1>3, <2>2
  <2> HIDE DEF n
  <2>5. t = stripe'[k] /\ t.status = stripe[k].status /\ t.meta = p BY <2>1, <2>2
  <2>6. /\ sold' = [sold EXCEPT ![k] = @ \cup {p}] /\ session' = session BY <1>3
  <2> HIDE DEF k, p
  <2>7. k = handler[h].k /\ p = handler[h].plan BY DEF k, p
  <2> QED BY <1>1, <2>1, <2>3, <2>4, <2>5, <2>6, <2>7
<1> QED BY <1>2, <1>3 DEF ChangeAtStripe

LEMMA ChangeTyped == ASSUME TypeInv, NEW h \in Handlers, ChangeAtStripe(h) PROVE TypeInv'
<1>1. CASE Done(h) /\ UNCHANGED <<external, sold>>
  <2>1. events' = events BY <1>1 DEF external
  <2>2. HandlersKnown' BY <1>1, <2>1, CallEnds DEF HandlersKnown
  <2>3. RestOfTypes' /\ EventsTyped'
    BY <1>1, TypesSplit DEF ChangeAtStripe, RestOfTypes, EventsTyped, local, external
  <2> QED BY <2>2, <2>3, TypesSplit, PTL
<1>2. ASSUME NEW k \in Checkouts, NEW p \in Plans, NEW t \in StripeType, NEW n \in HandlerType,
             k = handler[h].k,
             stripe' \in [Checkouts -> StripeType],
             sold' = [sold EXCEPT ![k] = @ \cup {p}], session' = session,
             Emit(Sent("updated"), k, t), Set(h, n),
             n.pc = "apply", n.op = handler[h].op, n.k = k
      PROVE  TypeInv'
  <2>1. /\ events' \in Seq(EventType) /\ Len(events') <= MaxEvents
        /\ Len(events) <= Len(events')
        /\ \A i \in 1..Len(events) : events'[i] = events[i]
    BY <1>2, UpdatedIsSent, EventsSent DEF TypeInv
  <2>2. n.op # "webhook"
    BY <1>2 DEF TypeInv, CallKnown, WebhookPcs, ChangeAtStripe
  <2>3. CallKnown(n, events') BY <1>2, <2>2 DEF CallKnown
  <2>4. HandlersKnown' BY <1>2, <2>1, <2>3, KnownMovesOn
  <2>5. sold' \in [Checkouts -> SUBSET Plans] BY <1>2, TypesSplit DEF RestOfTypes
  <2>6. RestOfTypes' /\ EventsTyped'
    BY <1>2, <2>1, <2>5, TypesSplit DEF ChangeAtStripe, RestOfTypes, EventsTyped, local
  <2> QED BY <2>4, <2>6, TypesSplit, PTL
<1> QED BY <1>1, <1>2, ChangedAs

\* The same of a cancellation.
LEMMA CancelledAs ==
  ASSUME TypeInv, NEW h \in Handlers, CancelAtStripe(h)
  PROVE  \/ Done(h) /\ UNCHANGED external
         \/ \E k \in Checkouts, t \in StripeType :
              /\ k = handler[h].k
              /\ t = stripe'[k] /\ t.status = stripe[k].status /\ t.meta = stripe[k].meta
              /\ stripe' \in [Checkouts -> StripeType]
              /\ \A j \in Checkouts \ {k} : stripe'[j] = stripe[j]
              /\ session' = session
              /\ Emit(Sent("updated"), k, t) /\ Goto(h, "flag")
<1> DEFINE k == handler[h].k
<1>1. k \in Checkouts
  BY DEF TypeInv, TypeOK, CallKnown, AtRow, CancelAtStripe
<1>2. CASE Done(h) /\ UNCHANGED external BY <1>2
<1>3. CASE /\ stripe' = [stripe EXCEPT ![k].ends = TRUE]
           /\ Emit(Sent("updated"), k, stripe'[k])
           /\ Goto(h, "flag")
           /\ UNCHANGED session
  <2>1. /\ stripe' \in [Checkouts -> StripeType]
        /\ stripe'[k].status = stripe[k].status /\ stripe'[k].meta = stripe[k].meta
        /\ \A j \in Checkouts \ {k} : stripe'[j] = stripe[j]
    BY <1>1, <1>3 DEF TypeInv, TypeOK, StripeType
  <2>2. PICK t \in StripeType : t = stripe'[k] BY <1>1, <2>1
  <2>3. /\ t = stripe'[k] /\ t.status = stripe[k].status /\ t.meta = stripe[k].meta
        /\ Emit(Sent("updated"), k, t)
    BY <1>3, <2>1, <2>2
  <2> QED BY <1>1, <1>3, <2>1, <2>3
<1> QED BY <1>2, <1>3 DEF CancelAtStripe

LEMMA CancelTyped == ASSUME TypeInv, NEW h \in Handlers, CancelAtStripe(h) PROVE TypeInv'
<1>1. CASE Done(h) /\ UNCHANGED external
  <2>1. events' = events BY <1>1 DEF external
  <2>2. HandlersKnown' BY <1>1, <2>1, CallEnds DEF HandlersKnown
  <2>3. RestOfTypes' /\ EventsTyped'
    BY <1>1, TypesSplit DEF CancelAtStripe, RestOfTypes, EventsTyped, local, external, history
  <2> QED BY <2>2, <2>3, TypesSplit, PTL
<1>2. ASSUME NEW k \in Checkouts, NEW t \in StripeType, k = handler[h].k,
             stripe' \in [Checkouts -> StripeType], session' = session,
             Emit(Sent("updated"), k, t), Goto(h, "flag")
      PROVE  TypeInv'
  <2> DEFINE n == [handler[h] EXCEPT !.pc = "flag"]
  <2>1. /\ events' \in Seq(EventType) /\ Len(events') <= MaxEvents
        /\ Len(events) <= Len(events')
        /\ \A i \in 1..Len(events) : events'[i] = events[i]
    BY <1>2, UpdatedIsSent, EventsSent DEF TypeInv
  <2>2. handler[h] \in HandlerType /\ handler[h].op # "webhook" /\ "flag" \in Pcs
    BY DEF TypeInv, TypeOK, CallKnown, WebhookPcs, CancelAtStripe, Pcs
  <2>3. n \in HandlerType /\ n.pc = "flag" /\ n.op = handler[h].op /\ n.k = k
    BY <1>2, <2>2, NextStep
  <2>4. Set(h, n) BY <1>2 DEF Goto
  <2> HIDE DEF n
  <2>5. CallKnown(n, events') BY <2>2, <2>3 DEF CallKnown
  <2>6. HandlersKnown' BY <2>1, <2>3, <2>4, <2>5, KnownMovesOn
  <2>7. RestOfTypes' /\ EventsTyped'
    BY <1>2, <2>1, TypesSplit DEF CancelAtStripe, RestOfTypes, EventsTyped, local, history
  <2> QED BY <2>6, <2>7, TypesSplit, PTL
<1> QED BY <1>1, <1>2, CancelledAs

LEMMA FailureTyped ==
  ASSUME TypeInv, (\E h \in Handlers : CallFails(h)) \/ Restart PROVE TypeInv'
<1>1. events' = events BY DEF CallFails, Restart, external
<1>2. faults' \in 0..MaxFaults
  <2>1. faults \in 0..MaxFaults /\ faults < MaxFaults /\ faults' = faults + 1
    BY TypesSplit DEF RestOfTypes, CallFails, Restart
  <2> QED BY <2>1, BoundsAssumption
<1>3. HandlersKnown'
  <2>1. CASE Restart BY <2>1, IdleTyped DEF Restart, HandlersKnown
  <2>2. ASSUME NEW h \in Handlers, CallFails(h) PROVE HandlersKnown'
    <3>1. CASE Done(h) BY <3>1, <1>1, CallEnds DEF HandlersKnown
    <3>2. CASE Goto(h, "markFailed") /\ handler[h].op = "webhook"
      BY <3>2, <1>1, CallGoesOn DEF HandlersKnown, Pcs, AtRow, WebhookPcs
    <3> QED BY <2>2, <3>1, <3>2 DEF CallFails
  <2> QED BY <2>1, <2>2
<1>4. RestOfTypes' /\ EventsTyped'
  BY <1>2, TypesSplit
     DEF CallFails, Restart, RestOfTypes, EventsTyped, local, external, history
<1> QED BY <1>3, <1>4, TypesSplit, PTL

\* What happens at Stripe: the subscription becomes t, of which events of the given types
\* tell, and whoever is active was paid for.
Happens(k, t, types) ==
    /\ t \in StripeType /\ types \in Seq(AllEventTypes) /\ Emit(types, k, t)
    /\ stripe' \in [Checkouts -> StripeType] /\ stripe'[k] = t /\ t.status # "none"
    /\ \A j \in Checkouts \ {k} : stripe'[j] = stripe[j]
    /\ paid \subseteq paid' /\ paid' \subseteq paid \cup {k}
    /\ t.status = "active" \/ (\E i \in 1..Len(types) : types[i] = "invoice.paid") =>
         k \in paid' \/ stripe[k].status = "active"
    /\ UNCHANGED <<local, handler, acked, faults, applied>>

\* A subscription that was there goes on; one that was not is started.
Continues(k, t) ==
    /\ stripe[k].status # "none" /\ t.meta = stripe[k].meta
    /\ session' = session
    /\ sold' \in [Checkouts -> SUBSET Plans] /\ sold[k] \subseteq sold'[k]
    /\ \A j \in Checkouts \ {k} : sold'[j] = sold[j]

Starts(k, t) ==
    /\ session[k].state = "open" /\ t.meta = session[k].plan
    /\ session' = [session EXCEPT ![k].state = "complete"]
    /\ sold' = [sold EXCEPT ![k] = {session[k].plan}]

LEMMA StripeTyped ==
  ASSUME TypeInv, NEW k \in Checkouts, NEW t, NEW types, Happens(k, t, types),
         Continues(k, t) \/ Starts(k, t), now' = now
  PROVE  TypeInv'
<1>1. /\ events' \in Seq(EventType) /\ Len(events') <= MaxEvents
      /\ Len(events) <= Len(events')
      /\ \A i \in 1..Len(events) : events'[i] = events[i]
  BY EventsSent DEF TypeInv, Happens
<1>2. HandlersKnown' BY <1>1, KnownStaysOn DEF Happens
<1>3. session' \in [Checkouts -> SessionType] /\ sold' \in [Checkouts -> SUBSET Plans]
  <2>1. /\ session \in [Checkouts -> SessionType] /\ sold \in [Checkouts -> SUBSET Plans]
        /\ session[k].plan \in Plans
    BY TypesSplit DEF RestOfTypes, SessionType
  <2>2. CASE Continues(k, t) BY <2>1, <2>2 DEF Continues
  <2>3. CASE Starts(k, t)
    <3>1. session' \in [Checkouts -> SessionType] BY <2>1, <2>3 DEF Starts, SessionType
    <3>2. {session[k].plan} \in SUBSET Plans BY <2>1
    <3>3. sold' \in [Checkouts -> SUBSET Plans] BY <2>1, <2>3, <3>2 DEF Starts
    <3> QED BY <3>1, <3>3
  <2> QED BY <2>2, <2>3
<1>4. RestOfTypes' /\ EventsTyped'
  BY <1>1, <1>3, TypesSplit DEF Happens, RestOfTypes, EventsTyped, local
<1> QED BY <1>2, <1>4, TypesSplit, PTL

LEMMA SentSeqs ==
  /\ \A type \in AllEventTypes : Sent(type) \in Seq(AllEventTypes)
  /\ \A type \in {"updated", "deleted"} :
       ~\E i \in 1..Len(Sent(type)) : Sent(type)[i] = "invoice.paid"
  /\ \A s, t \in {"updated", "created", "checkout.completed", "invoice.failed"} :
       /\ Sent(s) \o Sent(t) \in Seq(AllEventTypes)
       /\ ~\E i \in 1..Len(Sent(s) \o Sent(t)) : (Sent(s) \o Sent(t))[i] = "invoice.paid"
<1>1. \A type \in AllEventTypes : Sent(type) = <<>> \/ Sent(type) = <<type>> BY DEF Sent
<1>2. {"updated", "deleted", "created", "checkout.completed", "invoice.failed"}
        \subseteq AllEventTypes \ {"invoice.paid"}
  BY DEF AllEventTypes
<1>3. \A type \in {"updated", "deleted"} :
        ~\E i \in 1..Len(Sent(type)) : Sent(type)[i] = "invoice.paid"
  BY <1>1, <1>2
<1>4. ASSUME NEW s \in AllEventTypes \ {"invoice.paid"}, NEW t \in AllEventTypes \ {"invoice.paid"}
      PROVE  ~\E i \in 1..Len(Sent(s) \o Sent(t)) : (Sent(s) \o Sent(t))[i] = "invoice.paid"
  <2>1. CASE Sent(s) = <<>> /\ Sent(t) = <<>> BY <2>1
  <2>2. CASE Sent(s) = <<s>> /\ Sent(t) = <<>> BY <2>2
  <2>3. CASE Sent(s) = <<>> /\ Sent(t) = <<t>> BY <2>3
  <2>4. CASE Sent(s) = <<s>> /\ Sent(t) = <<t>> BY <2>4
  <2> QED BY <1>1, <2>1, <2>2, <2>3, <2>4
<1> DEFINE Four == {"updated", "created", "checkout.completed", "invoice.failed"}
<1>5. Four \subseteq AllEventTypes \ {"invoice.paid"} BY <1>2
<1> HIDE DEF Four
<1>6. ASSUME NEW s \in Four, NEW t \in Four
      PROVE  /\ Sent(s) \o Sent(t) \in Seq(AllEventTypes)
             /\ ~\E i \in 1..Len(Sent(s) \o Sent(t)) : (Sent(s) \o Sent(t))[i] = "invoice.paid"
  <2>1. s \in AllEventTypes \ {"invoice.paid"} /\ t \in AllEventTypes \ {"invoice.paid"} BY <1>5
  <2>2. Sent(s) \o Sent(t) \in Seq(AllEventTypes) BY <2>1, SentTypes
  <2> QED BY <2>1, <2>2, <1>4
<1>7. \A type \in AllEventTypes : Sent(type) \in Seq(AllEventTypes) BY SentTypes
<1> QED BY <1>3, <1>6, <1>7 DEF Four

LEMMA Completes ==
  ASSUME TypeInv, NEW k \in Checkouts, CompleteCheckout(k)
  PROVE  now' = now /\ \E t, types : Happens(k, t, types) /\ Starts(k, t)
<1>1. PICK async \in BOOLEAN :
        LET t == [status |-> IF async THEN "incomplete" ELSE "active",
                  price |-> session[k].plan, meta |-> session[k].plan,
                  ends |-> FALSE, until |-> now + 1]
        IN  /\ stripe' = [stripe EXCEPT ![k] = t]
            /\ paid' = IF async THEN paid ELSE paid \cup {k}
            /\ Emit(Sent("checkout.completed") \o Sent("created") \o
                     (IF async THEN <<>> ELSE Sent("invoice.paid")), k, t)
  BY DEF CompleteCheckout
<1> DEFINE t == [status |-> IF async THEN "incomplete" ELSE "active",
                 price |-> session[k].plan, meta |-> session[k].plan,
                 ends |-> FALSE, until |-> now + 1]
           first == Sent("checkout.completed") \o Sent("created")
           types == first \o (IF async THEN <<>> ELSE Sent("invoice.paid"))
<1>2. /\ session[k].plan \in Plans /\ now + 1 \in 0..(Horizon + 1)
      /\ stripe \in [Checkouts -> StripeType]
  <2>1. /\ session[k] \in SessionType /\ now \in 0..Horizon
        /\ stripe \in [Checkouts -> StripeType]
    BY DEF TypeInv, TypeOK, SessionType
  <2> QED BY <2>1, BoundsAssumption DEF SessionType
<1>3. /\ t \in StripeType /\ t.status # "none" /\ t.meta = session[k].plan
      /\ t.status = "active" => ~async
  BY <1>2 DEF StripeType, StripeStatus
<1>4. /\ first \in Seq(AllEventTypes)
      /\ ~\E i \in 1..Len(first) : first[i] = "invoice.paid"
  BY SentSeqs
<1>5. /\ types \in Seq(AllEventTypes)
      /\ (\E i \in 1..Len(types) : types[i] = "invoice.paid") => ~async
  <2>1. CASE async
    <3>1. types = first \o <<>> BY <2>1
    <3> HIDE DEF first, types
    <3>2. first \o <<>> = first BY <1>4
    <3> QED BY <1>4, <3>1, <3>2
  <2>2. CASE ~async
    <3>1. types = first \o Sent("invoice.paid") /\ "invoice.paid" \in AllEventTypes
      BY <2>2 DEF AllEventTypes
    <3>2. Sent("invoice.paid") \in Seq(AllEventTypes) BY <3>1, SentTypes
    <3> HIDE DEF first, types
    <3>3. first \o Sent("invoice.paid") \in Seq(AllEventTypes) BY <1>4, <3>2, SentTypes
    <3> QED BY <2>2, <3>1, <3>3
  <2> QED BY <2>1, <2>2
<1>6. /\ stripe' = [stripe EXCEPT ![k] = t] /\ Emit(types, k, t)
      /\ paid' = IF async THEN paid ELSE paid \cup {k}
  BY <1>1
<1> HIDE DEF t, types
<1>7. /\ stripe' \in [Checkouts -> StripeType] /\ stripe'[k] = t
      /\ \A j \in Checkouts \ {k} : stripe'[j] = stripe[j]
  BY <1>2, <1>3, <1>6
<1>8. Happens(k, t, types)
  BY <1>3, <1>5, <1>6, <1>7 DEF Happens, CompleteCheckout
<1>9. Starts(k, t) /\ now' = now BY <1>3 DEF Starts, CompleteCheckout
<1> QED BY <1>8, <1>9

\* A subscription whose status or price changes.
LEMMA GoesOn ==
  ASSUME TypeInv, NEW k \in Checkouts,
         PayInvoice(k) \/ PeriodEnds(k) \/ \E p \in Plans : PortalChange(k, p)
  PROVE  /\ stripe' \in [Checkouts -> StripeType]
         /\ \A j \in Checkouts \ {k} : stripe'[j] = stripe[j]
         /\ stripe[k].status # "none" /\ stripe'[k].status # "none"
         /\ stripe'[k].meta = stripe[k].meta
         /\ stripe'[k].status = "active" => k \in paid' \/ stripe[k].status = "active"
<1>1. /\ stripe \in [Checkouts -> StripeType] /\ now \in 0..Horizon BY DEF TypeInv, TypeOK
<1>2. now + 1 \in 0..(Horizon + 1) BY <1>1, BoundsAssumption
<1>3. /\ "active" \in StripeStatus /\ "canceled" \in StripeStatus /\ "past_due" \in StripeStatus
  BY DEF StripeStatus
<1>4. CASE PayInvoice(k) BY <1>1, <1>3, <1>4 DEF PayInvoice, StripeType
<1>5. CASE \E p \in Plans : PortalChange(k, p)
  BY <1>1, <1>3, <1>5 DEF PortalChange, StripeType
<1>6. CASE PeriodEnds(k)
  <2>0. stripe[k].status \in {"active", "past_due"} BY <1>6 DEF PeriodEnds
  <2>1. CASE stripe' = [stripe EXCEPT ![k].status = "canceled"]
    BY <1>1, <1>3, <2>0, <2>1 DEF StripeType
  <2>2. ASSUME NEW m \in 0..(Horizon + 1), stripe' = [stripe EXCEPT ![k].until = m]
        PROVE  /\ stripe' \in [Checkouts -> StripeType]
               /\ \A j \in Checkouts \ {k} : stripe'[j] = stripe[j]
               /\ stripe'[k].status = stripe[k].status /\ stripe'[k].meta = stripe[k].meta
    BY <1>1, <2>2 DEF StripeType
  <2>3. ASSUME NEW m \in 0..(Horizon + 1), NEW st \in {"past_due", "canceled"},
               stripe' = [stripe EXCEPT ![k].until = m, ![k].status = st]
        PROVE  /\ stripe' \in [Checkouts -> StripeType]
               /\ \A j \in Checkouts \ {k} : stripe'[j] = stripe[j]
               /\ stripe'[k].status = st /\ stripe'[k].meta = stripe[k].meta
    BY <1>1, <1>3, <2>3 DEF StripeType
  <2>4. \/ stripe' = [stripe EXCEPT ![k].status = "canceled"]
        \/ stripe[k].status = "active" /\ stripe' = [stripe EXCEPT ![k].until = now + 1]
        \/ \E st \in {"past_due", "canceled"} :
             stripe' = [stripe EXCEPT ![k].until = now + 1, ![k].status = st]
    <3>1. CASE stripe' = [stripe EXCEPT ![k].until = now + 1,
                 ![k].status = IF @ = "active" THEN "past_due" ELSE "canceled"]
      <4>1. CASE stripe[k].status = "active"
        <5>1. stripe' = [stripe EXCEPT ![k].until = now + 1, ![k].status = "past_due"]
          BY <1>1, <3>1, <4>1 DEF StripeType
        <5> QED BY <5>1
      <4>2. CASE stripe[k].status # "active"
        <5>1. stripe' = [stripe EXCEPT ![k].until = now + 1, ![k].status = "canceled"]
          BY <1>1, <3>1, <4>2 DEF StripeType
        <5> QED BY <5>1
      <4> QED BY <4>1, <4>2
    <3> QED BY <1>6, <3>1 DEF PeriodEnds
  <2> QED BY <2>0, <2>1, <2>2, <2>3, <2>4, <1>2
<1> QED BY <1>4, <1>5, <1>6

LEMMA EventsOfChange ==
  ASSUME TypeInv, NEW k \in Checkouts,
         PayInvoice(k) \/ PeriodEnds(k) \/ \E p \in Plans : PortalChange(k, p)
  PROVE  \E types \in Seq(AllEventTypes) :
           /\ Emit(types, k, stripe'[k])
           /\ (\E i \in 1..Len(types) : types[i] = "invoice.paid") =>
                k \in paid' \/ stripe[k].status = "active"
<1>1. /\ "updated" \in AllEventTypes /\ "deleted" \in AllEventTypes
      /\ "invoice.paid" \in AllEventTypes
  BY DEF AllEventTypes
<1>2. /\ Sent("updated") \in Seq(AllEventTypes) /\ Sent("deleted") \in Seq(AllEventTypes)
      /\ Sent("updated") \o Sent("invoice.paid") \in Seq(AllEventTypes)
  BY <1>1, SentTypes
<1>3. CASE PayInvoice(k)
  <2>1. k \in paid' /\ Emit(Sent("updated") \o Sent("invoice.paid"), k, stripe'[k])
    BY <1>3 DEF PayInvoice
  <2> QED BY <1>2, <2>1
<1>4. CASE \E p \in Plans : PortalChange(k, p)
  <2>1. Emit(Sent("updated"), k, stripe'[k]) BY <1>4 DEF PortalChange
  <2> QED BY <1>2, <2>1, SentSeqs
<1>5. CASE PeriodEnds(k)
  <2>1. CASE Emit(Sent("deleted"), k, stripe'[k]) BY <1>2, <2>1, SentSeqs
  <2>2. CASE /\ stripe[k].status = "active"
             /\ Emit(Sent("updated") \o Sent("invoice.paid"), k, stripe'[k])
    BY <1>2, <2>2
  <2>3. CASE Emit(Sent("updated") \o Sent("invoice.failed"), k, stripe'[k])
    BY <2>3, SentSeqs
  <2>4. Emit(IF stripe[k].status = "active"
             THEN Sent("updated") \o Sent("invoice.failed") ELSE Sent("deleted"), k, stripe'[k])
          => \/ Emit(Sent("deleted"), k, stripe'[k])
             \/ Emit(Sent("updated") \o Sent("invoice.failed"), k, stripe'[k])
    BY Zenon
  <2> QED BY <1>5, <2>1, <2>2, <2>3, <2>4 DEF PeriodEnds
<1> QED BY <1>3, <1>4, <1>5

LEMMA Changes ==
  ASSUME TypeInv, NEW k \in Checkouts,
         PayInvoice(k) \/ PeriodEnds(k) \/ \E p \in Plans : PortalChange(k, p)
  PROVE  now' = now /\ \E t, types : Happens(k, t, types) /\ Continues(k, t)
<1>1. PICK types \in Seq(AllEventTypes) :
        /\ Emit(types, k, stripe'[k])
        /\ (\E i \in 1..Len(types) : types[i] = "invoice.paid") =>
             k \in paid' \/ stripe[k].status = "active"
  BY EventsOfChange
<1>2. /\ stripe' \in [Checkouts -> StripeType]
      /\ \A j \in Checkouts \ {k} : stripe'[j] = stripe[j]
      /\ stripe[k].status # "none" /\ stripe'[k].status # "none"
      /\ stripe'[k].meta = stripe[k].meta
      /\ stripe'[k].status = "active" => k \in paid' \/ stripe[k].status = "active"
  BY GoesOn
<1>3. PICK t \in StripeType : t = stripe'[k] BY <1>2
<1>4. /\ UNCHANGED <<local, handler, session, acked, now, faults, applied>>
      /\ paid \subseteq paid' /\ paid' \subseteq paid \cup {k}
  BY DEF PayInvoice, PeriodEnds, PortalChange, history
<1>5. /\ sold' \in [Checkouts -> SUBSET Plans] /\ sold[k] \subseteq sold'[k]
      /\ \A j \in Checkouts \ {k} : sold'[j] = sold[j]
  <2>1. sold \in [Checkouts -> SUBSET Plans] BY TypesSplit DEF RestOfTypes
  <2>2. CASE sold' = sold BY <2>1, <2>2
  <2>3. ASSUME NEW p \in Plans, sold' = [sold EXCEPT ![k] = @ \cup {p}]
        PROVE  /\ sold' \in [Checkouts -> SUBSET Plans] /\ sold[k] \subseteq sold'[k]
               /\ \A j \in Checkouts \ {k} : sold'[j] = sold[j]
    <3>1. sold[k] \cup {p} \in SUBSET Plans BY <2>1
    <3> QED BY <2>1, <2>3, <3>1
  <2> QED BY <2>2, <2>3 DEF PayInvoice, PeriodEnds, PortalChange, history
<1>6. Emit(types, k, t) BY <1>1, <1>3
<1>7. Happens(k, t, types) BY <1>1, <1>2, <1>3, <1>4, <1>6 DEF Happens
<1>8. Continues(k, t) BY <1>2, <1>3, <1>4, <1>5 DEF Continues
<1> QED BY <1>4, <1>7, <1>8

LEMMA TypesGoOn == TypeInv /\ [Next]_vars => TypeInv'
<1> SUFFICES ASSUME TypeInv, [Next]_vars PROVE TypeInv'
  OBVIOUS
<1>1. ASSUME NEW h \in Handlers, Serve(h) PROVE TypeInv'
  BY <1>1, FindTyped, StoreTyped, ProcessTyped, CloseTyped, ApplyTyped, SyncTyped, CreateTyped,
     OpenTyped, ChangeTyped, CancelTyped, FlagTyped DEF Serve
<1>2. ASSUME NEW h \in Handlers, Request(h) PROVE TypeInv'
  <2>1. FreePlan \in Plans BY PlansAssumption
  <2> QED BY <1>2, <2>1, RequestTyped, ReadingTyped DEF Request
<1>3. ASSUME NEW h \in Handlers, NEW e \in EventIds, Deliver(h, e) PROVE TypeInv'
  BY <1>3, DeliverTyped
<1>4. CASE StripeStep
  <2>1. ASSUME NEW k \in Checkouts, CompleteCheckout(k) PROVE TypeInv'
    BY <2>1, Completes, StripeTyped
  <2>2. ASSUME NEW k \in Checkouts,
               PayInvoice(k) \/ PeriodEnds(k) \/ \E p \in Plans : PortalChange(k, p)
        PROVE  TypeInv'
    BY <2>2, Changes, StripeTyped
  <2>3. CASE Tick
    <3>1. now' \in 0..Horizon
      <4>1. now \in 0..Horizon /\ now < Horizon /\ now' = now + 1
        BY <2>3, TypesSplit DEF RestOfTypes, Tick
      <4> QED BY <4>1, BoundsAssumption
    <3>2. RestOfTypes' /\ EventsTyped' /\ HandlersKnown'
      BY <2>3, <3>1, TypesSplit
         DEF Tick, RestOfTypes, EventsTyped, HandlersKnown, local, external, history
    <3> QED BY <3>2, TypesSplit, PTL
  <2> QED BY <1>4, <2>1, <2>2, <2>3 DEF StripeStep
<1>5. CASE (\E h \in Handlers : CallFails(h)) \/ Restart BY <1>5, FailureTyped
<1>6. CASE UNCHANGED vars
  <2>1. RestOfTypes' /\ EventsTyped' /\ HandlersKnown'
    BY <1>6, TypesSplit
       DEF vars, RestOfTypes, EventsTyped, HandlersKnown, local, external, history
  <2> QED BY <2>1, TypesSplit, PTL
<1> QED BY <1>1, <1>2, <1>3, <1>4, <1>5, <1>6 DEF Next, BoundedStripeStep

\* The records of billing.service.ts and of Stripe keep their types.
THEOREM BillingTypes == Spec => []TypeOK
<1>1. TypeInv => TypeOK BY DEF TypeInv
<1> QED BY <1>1, TypesBegin, TypesGoOn, PTL DEF Spec

-----------------------------------------------------------------------------
(* The webhook is an inbox *)

\* A delivery that works on an event has its row open, is the only one that does, and
\* applies it after "process" and before "mark", once.
Works(r) ==
    r.op = "webhook" /\ r.pc \in {"process", "apply", "syncUser", "syncTier", "mark", "markFailed"}

InboxCall(r, st, ap) ==
    Works(r) => /\ st[r.e] = "stored"
                /\ r.pc \in {"process", "apply"} => ap[r.e] = 0
                /\ r.pc \in {"syncUser", "syncTier", "mark"} => ap[r.e] = 1

OneWorks ==
    \A g, h \in Handlers :
        Works(handler[g]) /\ Works(handler[h]) /\ handler[g].e = handler[h].e => g = h

AppliedOnce ==
    \A e \in EventIds : applied[e] \in {0, 1} /\ (stored[e] = "none" => applied[e] = 0)

InboxInv ==
    /\ \A h \in Handlers : InboxCall(handler[h], stored, applied)
    /\ OneWorks /\ AppliedOnce

LEMMA InboxBegins == Init => InboxInv /\ IsInbox!InboxInit
BY DEF Init, InboxInv, OneWorks, AppliedOnce, InboxCall, Works, IdleHandler, IsInbox!InboxInit

\* What a delivery works on is an event.
LEMMA WorkIsOnEvent ==
  ASSUME TypeInv, NEW h \in Handlers, handler[h].op = "webhook"
  PROVE  handler[h].e \in EventIds
BY EventIsKnown DEF TypeInv, CallKnown

LEMMA HandlersKeep ==
  ASSUME InboxInv, UNCHANGED <<stored, applied>>,
         \A h \in Handlers :
            \/ handler'[h] = handler[h] \/ ~Works(handler'[h])
            \/ /\ Works(handler[h]) /\ handler'[h].e = handler[h].e
               /\ InboxCall(handler'[h], stored, applied)
  PROVE  InboxInv'
<1>1. \A h \in Handlers : InboxCall(handler'[h], stored', applied')
  <2> TAKE h \in Handlers
  <2>1. CASE handler'[h] = handler[h] BY <2>1 DEF InboxInv
  <2>2. CASE ~Works(handler'[h]) BY <2>2 DEF InboxCall
  <2>3. CASE InboxCall(handler'[h], stored, applied) BY <2>3
  <2> QED BY <2>1, <2>2, <2>3
<1>2. OneWorks'
  <2>1. \A h \in Handlers :
          Works(handler'[h]) => Works(handler[h]) /\ handler'[h].e = handler[h].e
    OBVIOUS
  <2> QED BY <2>1 DEF InboxInv, OneWorks
<1>3. AppliedOnce' BY DEF InboxInv, AppliedOnce
<1> QED BY <1>1, <1>2, <1>3 DEF InboxInv

LEMMA OneKeeps ==
  ASSUME InboxInv, TypeInv, NEW h \in Handlers, NEW n \in HandlerType, Set(h, n),
         UNCHANGED <<stored, applied>>,
         \/ ~Works(n)
         \/ Works(handler[h]) /\ n.e = handler[h].e /\ InboxCall(n, stored, applied)
  PROVE  InboxInv'
<1>1. handler \in [Handlers -> HandlerType] BY DEF TypeInv, TypeOK
<1>2. handler'[h] = n /\ \A g \in Handlers \ {h} : handler'[g] = handler[g]
  BY <1>1, HandlerMoves
<1> QED BY <1>2, HandlersKeep

LEMMA DoneKeeps ==
  ASSUME InboxInv, TypeInv, NEW h \in Handlers, Done(h), UNCHANGED <<stored, applied>>
  PROVE  InboxInv'
<1>1. IdleHandler \in HandlerType /\ ~Works(IdleHandler) BY IdleTyped DEF Works, IdleHandler
<1> QED BY <1>1, OneKeeps DEF Done

LEMMA GotoKeeps ==
  ASSUME InboxInv, TypeInv, NEW h \in Handlers, NEW pc \in Pcs, Goto(h, pc),
         UNCHANGED <<stored, applied>>,
         \/ handler[h].op # "webhook" \/ pc = "store"
         \/ Works(handler[h]) /\ pc = "markFailed"
         \/ handler[h].pc = "syncUser" /\ pc = "syncTier"
         \/ handler[h].pc = "syncTier" /\ pc = "mark"
  PROVE  InboxInv'
<1> DEFINE n == [handler[h] EXCEPT !.pc = pc]
<1>1. handler[h] \in HandlerType BY DEF TypeInv, TypeOK
<1>2. n \in HandlerType /\ n.pc = pc /\ n.op = handler[h].op /\ n.e = handler[h].e
  BY <1>1, NextStep
<1>3. Set(h, n) BY DEF Goto
<1> HIDE DEF n
<1>4. InboxCall(handler[h], stored, applied) BY DEF InboxInv
<1>5. \/ ~Works(n)
      \/ Works(handler[h]) /\ n.e = handler[h].e /\ InboxCall(n, stored, applied)
  BY <1>2, <1>4 DEF Works, InboxCall
<1> QED BY <1>2, <1>3, <1>5, OneKeeps

InboxStep == [IsInbox!InboxNext]_(IsInbox!inboxVars)

LEMMA FindIsAck ==
  ASSUME TypeInv, InboxInv, NEW h \in Handlers, FindEvent(h) PROVE InboxInv' /\ InboxStep
<1>1. handler[h].op = "webhook" BY DEF TypeInv, CallKnown, FindEvent
<1>2. handler[h].e \in EventIds BY <1>1, WorkIsOnEvent
<1>3. stored' = stored /\ applied' = applied BY DEF FindEvent, local, history
<1>4. CASE stored[handler[h].e] # "none"
  <2>1. Done(h) /\ acked' = acked \cup {handler[h].e} BY <1>4 DEF FindEvent
  <2>2. IsInbox!Ack(handler[h].e) BY <1>3, <1>4, <2>1 DEF IsInbox!Ack
  <2> QED BY <1>2, <1>3, <2>1, <2>2, DoneKeeps DEF InboxStep, IsInbox!InboxNext
<1>5. CASE stored[handler[h].e] = "none"
  <2>1. Goto(h, "store") /\ acked' = acked BY <1>5 DEF FindEvent
  <2>2. InboxInv' BY <1>3, <2>1, GotoKeeps DEF Pcs
  <2> QED BY <1>3, <2>1, <2>2 DEF InboxStep, IsInbox!inboxVars
<1> QED BY <1>4, <1>5

LEMMA StoreIsStore ==
  ASSUME TypeInv, InboxInv, NEW h \in Handlers, StoreEvent(h) PROVE InboxInv' /\ InboxStep
<1> DEFINE r == handler[h]
<1>1. r \in HandlerType /\ r.op = "webhook" /\ handler \in [Handlers -> HandlerType]
      /\ stored \in [EventIds -> {"none", "stored", "processed", "failed"}]
  BY DEF TypeInv, TypeOK, CallKnown, StoreEvent
<1>2. r.e \in EventIds BY <1>1, WorkIsOnEvent
<1>3. applied' = applied /\ acked' = acked BY DEF StoreEvent, history
<1>4. CASE stored[r.e] # "none"
  <2>1. Done(h) /\ stored' = stored BY <1>4 DEF StoreEvent
  <2> QED BY <1>3, <2>1, DoneKeeps DEF InboxStep, IsInbox!inboxVars
<1>5. CASE stored[r.e] = "none"
  <2> DEFINE n == [r EXCEPT !.pc = "process"]
  <2>1. stored' = [stored EXCEPT ![r.e] = "stored"] /\ Set(h, n) BY <1>5 DEF StoreEvent, Goto
  <2>2. n \in HandlerType /\ n.pc = "process" /\ n.op = "webhook" /\ n.e = r.e
    <3>1. "process" \in Pcs BY DEF Pcs
    <3> QED BY <1>1, <3>1, NextStep
  <2> HIDE DEF n
  <2>3. handler'[h] = n /\ \A g \in Handlers \ {h} : handler'[g] = handler[g]
    BY <1>1, <2>1, <2>2, HandlerMoves
  <2>4. /\ stored'[r.e] = "stored"
        /\ \A e \in EventIds \ {r.e} : stored'[e] = stored[e]
    BY <1>1, <1>2, <2>1
  <2>5. IsInbox!Store(r.e) BY <1>3, <1>5, <2>1 DEF IsInbox!Store
  <2>6. \A g \in Handlers \ {h} : Works(handler[g]) =>
           handler[g].e \in EventIds \ {r.e} /\ stored[handler[g].e] = "stored"
    BY <1>5, WorkIsOnEvent DEF InboxInv, InboxCall, Works
  <2>7. \A g \in Handlers : InboxCall(handler'[g], stored', applied')
    <3>1. applied[r.e] = 0 BY <1>2, <1>5 DEF InboxInv, AppliedOnce
    <3>2. InboxCall(n, stored', applied') BY <1>3, <2>2, <2>4, <3>1 DEF InboxCall
    <3>3. \A g \in Handlers \ {h} : InboxCall(handler[g], stored', applied')
      BY <1>3, <2>4, <2>6 DEF InboxInv, InboxCall
    <3> QED BY <2>3, <3>2, <3>3
  <2>8. OneWorks' BY <2>2, <2>3, <2>6 DEF InboxInv, OneWorks
  <2>9. AppliedOnce' BY <1>3, <2>4 DEF InboxInv, AppliedOnce
  <2> QED BY <1>2, <2>5, <2>7, <2>8, <2>9 DEF InboxInv, InboxStep, IsInbox!InboxNext
<1> QED BY <1>4, <1>5

LEMMA CloseIsClose ==
  ASSUME TypeInv, InboxInv, NEW h \in Handlers, MarkEvent(h) \/ MarkFailed(h)
  PROVE  InboxInv' /\ InboxStep
<1> DEFINE r == handler[h]
<1>1. /\ r \in HandlerType /\ r.op = "webhook" /\ handler \in [Handlers -> HandlerType]
      /\ stored \in [EventIds -> {"none", "stored", "processed", "failed"}]
      /\ r.pc \in {"mark", "markFailed"}
  BY DEF TypeInv, TypeOK, CallKnown, MarkEvent, MarkFailed
<1>2. r.e \in EventIds BY <1>1, WorkIsOnEvent
<1>3. PICK outcome \in {"processed", "failed"} :
        /\ stored' = [stored EXCEPT ![r.e] = outcome] /\ acked' = acked \cup {r.e}
        /\ outcome = "processed" => r.pc = "mark"
  BY DEF MarkEvent, MarkFailed
<1>4. applied' = applied /\ Done(h) BY DEF MarkEvent, MarkFailed, history
<1>5. /\ Works(r) /\ stored[r.e] = "stored" /\ (outcome = "processed" => applied[r.e] = 1)
  BY <1>1, <1>3 DEF InboxInv, InboxCall, Works
<1>6. IsInbox!Close(r.e, outcome) BY <1>3, <1>4, <1>5 DEF IsInbox!Close
<1>7. /\ stored'[r.e] = outcome
      /\ \A e \in EventIds \ {r.e} : stored'[e] = stored[e]
  BY <1>1, <1>2, <1>3
<1>8. handler'[h] = IdleHandler /\ \A g \in Handlers \ {h} : handler'[g] = handler[g]
  BY <1>1, <1>4, IdleTyped, HandlerMoves DEF Done
<1>9. ~Works(IdleHandler) BY DEF Works, IdleHandler
<1>10. \A g \in Handlers \ {h} : Works(handler[g]) => handler[g].e \in EventIds \ {r.e}
  BY <1>5, WorkIsOnEvent DEF InboxInv, OneWorks, Works
<1>11. \A g \in Handlers : InboxCall(handler'[g], stored', applied')
  <2>1. \A g \in Handlers \ {h} : InboxCall(handler[g], stored', applied')
    BY <1>4, <1>7, <1>10 DEF InboxInv, InboxCall
  <2> QED BY <1>8, <1>9, <2>1 DEF InboxCall
<1>12. OneWorks' BY <1>8, <1>9 DEF InboxInv, OneWorks
<1>13. AppliedOnce' BY <1>2, <1>4, <1>7 DEF InboxInv, AppliedOnce
<1> QED BY <1>2, <1>6, <1>11, <1>12, <1>13 DEF InboxInv, InboxStep, IsInbox!InboxNext

\* What a call does that has applied its snapshot.
GoesOnFrom(n, r, row) ==
    /\ \/ n.pc \in {"syncUser", "mark"} /\ n.op = r.op /\ n.e = r.e
       \/ r.op # "webhook" /\ n = IdleHandler
    /\ n.pc = "mark" => n.op = "webhook"
    /\ n.pc = "syncUser" => n.plan \in Plans
    /\ n.pc = "syncUser" /\ n.plan # FreePlan => row.status = "ACTIVE" /\ n.plan = row.plan

LEMMA AppliedAs ==
  ASSUME TypeInv, NEW h \in Handlers, Apply(h)
  PROVE  /\ \E n \in HandlerType :
              Set(h, n) /\ GoesOnFrom(n, handler[h], SnapshotRow(handler[h]))
         /\ sub' = [sub EXCEPT ![handler[h].k] = SnapshotRow(handler[h])]
         /\ applied' = IF handler[h].op = "webhook"
                       THEN [applied EXCEPT ![handler[h].e] = @ + 1] ELSE applied
<1> DEFINE r == handler[h]
           row == SnapshotRow(r)
<1>1. r \in HandlerType /\ r.pc = "apply" /\ r.k \in Checkouts
  BY DEF TypeInv, TypeOK, CallKnown, Apply, AtRow
<1>2. row.plan \in Plans /\ FreePlan \in Plans
  BY <1>1, SnapshotIsRow, PlansAssumption DEF TypeInv, RowType
<1>3. /\ "mark" \in Pcs /\ "syncUser" \in Pcs BY DEF Pcs
<1>4. \A p \in Plans :
        LET n == [r EXCEPT !.pc = "syncUser", !.plan = p]
        IN  /\ n \in HandlerType /\ n.pc = "syncUser" /\ n.op = r.op /\ n.e = r.e /\ n.plan = p
  BY <1>1, <1>3 DEF HandlerType
<1>5. LET n == [r EXCEPT !.pc = "mark"]
      IN  /\ n \in HandlerType /\ n.pc = "mark" /\ n.op = r.op /\ n.e = r.e
  BY <1>1, <1>3 DEF HandlerType
<1>6. IdleHandler \in HandlerType /\ IdleHandler.pc = "idle" BY IdleTyped DEF IdleHandler
<1>7. \/ row.status = "ACTIVE" /\ Set(h, [r EXCEPT !.pc = "syncUser", !.plan = row.plan])
      \/ Set(h, [r EXCEPT !.pc = "syncUser", !.plan = FreePlan])
      \/ r.op = "webhook" /\ Set(h, [r EXCEPT !.pc = "mark"])
      \/ r.op # "webhook" /\ Set(h, IdleHandler)
  BY DEF Apply, AfterApply, Goto, Done, ActiveStatus
<1>8. /\ sub' = [sub EXCEPT ![r.k] = row]
      /\ applied' = IF r.op = "webhook" THEN [applied EXCEPT ![r.e] = @ + 1] ELSE applied
  BY DEF Apply
<1> HIDE DEF row
<1>9. \E n \in HandlerType : Set(h, n) /\ GoesOnFrom(n, r, row)
  <2>1. CASE row.status = "ACTIVE" /\ Set(h, [r EXCEPT !.pc = "syncUser", !.plan = row.plan])
    <3> DEFINE n == [r EXCEPT !.pc = "syncUser", !.plan = row.plan]
    <3>1. n \in HandlerType /\ n.pc = "syncUser" /\ n.op = r.op /\ n.e = r.e /\ n.plan = row.plan
      BY <1>2, <1>4
    <3>2. Set(h, n) BY <2>1
    <3> HIDE DEF n
    <3>3. GoesOnFrom(n, r, row) BY <1>2, <2>1, <3>1 DEF GoesOnFrom
    <3> QED BY <3>1, <3>2, <3>3
  <2>2. CASE Set(h, [r EXCEPT !.pc = "syncUser", !.plan = FreePlan])
    <3> DEFINE n == [r EXCEPT !.pc = "syncUser", !.plan = FreePlan]
    <3>1. n \in HandlerType /\ n.pc = "syncUser" /\ n.op = r.op /\ n.e = r.e /\ n.plan = FreePlan
      BY <1>2, <1>4
    <3>2. Set(h, n) BY <2>2
    <3> HIDE DEF n
    <3>3. GoesOnFrom(n, r, row) BY <1>2, <3>1 DEF GoesOnFrom
    <3> QED BY <3>1, <3>2, <3>3
  <2>3. CASE r.op = "webhook" /\ Set(h, [r EXCEPT !.pc = "mark"])
    <3> DEFINE n == [r EXCEPT !.pc = "mark"]
    <3>1. n \in HandlerType /\ n.pc = "mark" /\ n.op = r.op /\ n.e = r.e BY <1>5
    <3>2. Set(h, n) BY <2>3
    <3> HIDE DEF n
    <3>3. GoesOnFrom(n, r, row) BY <2>3, <3>1 DEF GoesOnFrom
    <3> QED BY <3>1, <3>2, <3>3
  <2>4. CASE r.op # "webhook" /\ Set(h, IdleHandler)
    <3> HIDE DEF IdleHandler
    <3>1. GoesOnFrom(IdleHandler, r, row) BY <1>6, <2>4 DEF GoesOnFrom
    <3> QED BY <1>6, <2>4, <3>1
  <2> QED BY <1>7, <2>1, <2>2, <2>3, <2>4
<1> QED BY <1>8, <1>9 DEF row

LEMMA ApplyIsApply ==
  ASSUME TypeInv, InboxInv, NEW h \in Handlers, Apply(h) PROVE InboxInv' /\ InboxStep
<1> DEFINE r == handler[h]
<1>1. /\ r \in HandlerType /\ r.pc = "apply" /\ handler \in [Handlers -> HandlerType]
      /\ applied \in [EventIds -> Nat]
  BY DEF TypeInv, TypeOK, Apply
<1>2. stored' = stored /\ acked' = acked BY DEF Apply
<1>3. PICK n \in HandlerType :
        /\ Set(h, n)
        /\ \/ n.pc \in {"syncUser", "mark"} /\ n.op = r.op /\ n.e = r.e
           \/ r.op # "webhook" /\ n = IdleHandler
  BY AppliedAs DEF GoesOnFrom
<1>4. applied' = IF r.op = "webhook" THEN [applied EXCEPT ![r.e] = @ + 1] ELSE applied
  BY AppliedAs
<1>5. handler'[h] = n /\ \A g \in Handlers \ {h} : handler'[g] = handler[g]
  BY <1>1, <1>3, HandlerMoves
<1>6. CASE r.op # "webhook"
  <2>1. ~Works(n) BY <1>3, <1>6 DEF Works, IdleHandler
  <2> QED BY <1>2, <1>3, <1>4, <1>6, <2>1, OneKeeps DEF InboxStep, IsInbox!inboxVars
<1>7. CASE r.op = "webhook"
  <2>1. r.e \in EventIds /\ Works(r) BY <1>1, <1>7, WorkIsOnEvent DEF Works
  <2>2. stored[r.e] = "stored" /\ applied[r.e] = 0
    BY <1>1, <2>1 DEF InboxInv, InboxCall
  <2>3. applied' = [applied EXCEPT ![r.e] = 1]
    <3>1. applied' = [applied EXCEPT ![r.e] = applied[r.e] + 1] BY <1>4, <1>7
    <3>2. applied[r.e] + 1 = 1 BY <2>2
    <3> QED BY <3>1, <3>2
  <2>4. /\ applied'[r.e] = 1
        /\ \A e \in EventIds \ {r.e} : applied'[e] = applied[e]
    BY <1>1, <2>1, <2>3
  <2>5. IsInbox!ApplyOnce(r.e) BY <1>2, <2>2, <2>3 DEF IsInbox!ApplyOnce
  <2>6. \A g \in Handlers \ {h} : Works(handler[g]) => handler[g].e \in EventIds \ {r.e}
    BY <2>1, WorkIsOnEvent DEF InboxInv, OneWorks, Works
  <2>7. n.pc \in {"syncUser", "mark"} /\ n.op = "webhook" /\ n.e = r.e BY <1>3, <1>7
  <2>8. \A g \in Handlers : InboxCall(handler'[g], stored', applied')
    <3>1. InboxCall(n, stored', applied') BY <1>2, <2>2, <2>4, <2>7 DEF InboxCall
    <3>2. \A g \in Handlers \ {h} : InboxCall(handler[g], stored', applied')
      BY <1>2, <2>4, <2>6 DEF InboxInv, InboxCall
    <3> QED BY <1>5, <3>1, <3>2
  <2>9. OneWorks' BY <1>5, <2>1, <2>6, <2>7 DEF InboxInv, OneWorks
  <2>10. AppliedOnce' BY <1>2, <2>2, <2>4 DEF InboxInv, AppliedOnce
  <2> QED BY <2>1, <2>5, <2>8, <2>9, <2>10 DEF InboxInv, InboxStep, IsInbox!InboxNext
<1> QED BY <1>6, <1>7

\* Every other step leaves the inbox alone.
LEMMA ProcessKeeps ==
  ASSUME TypeInv, InboxInv, NEW h \in Handlers, ProcessEvent(h) PROVE InboxInv' /\ InboxStep
<1>1. PICK n \in HandlerType :
        /\ Set(h, n)
        /\ n.pc = "apply" /\ n.op = "webhook" /\ n.e = handler[h].e
  BY ProcessedAs
<1>2. handler[h].op = "webhook" /\ handler[h].pc = "process"
  BY DEF TypeInv, CallKnown, ProcessEvent
<1>3. stored' = stored /\ applied' = applied /\ acked' = acked
  BY DEF ProcessEvent, local, history
<1>4. InboxCall(handler[h], stored, applied) /\ Works(handler[h])
  BY <1>2 DEF InboxInv, Works
<1>5. InboxCall(n, stored, applied) BY <1>1, <1>2, <1>4 DEF InboxCall, Works
<1> QED BY <1>1, <1>3, <1>4, <1>5, OneKeeps DEF InboxStep, IsInbox!inboxVars

LEMMA SyncKeeps ==
  ASSUME TypeInv, InboxInv, NEW h \in Handlers, SyncUser(h) \/ SyncTier(h)
  PROVE  InboxInv' /\ InboxStep
<1>1. stored' = stored /\ applied' = applied /\ acked' = acked
  BY DEF SyncUser, SyncTier, history
<1>2. InboxInv'
  <2>1. CASE handler[h].pc = "syncUser" /\ Goto(h, "syncTier")
    BY <1>1, <2>1, GotoKeeps DEF Pcs
  <2>2. CASE handler[h].pc = "syncTier" /\ Goto(h, "mark") BY <1>1, <2>2, GotoKeeps DEF Pcs
  <2>3. CASE Done(h) BY <1>1, <2>3, DoneKeeps
  <2> QED BY <2>1, <2>2, <2>3 DEF SyncUser, SyncTier, AfterApply
<1> QED BY <1>1, <1>2 DEF InboxStep, IsInbox!inboxVars

\* A delivery is begun, a request is begun or goes on.
LEMMA BeginKeeps ==
  ASSUME TypeInv, InboxInv, NEW h \in Handlers,
         \/ \E e \in EventIds : Deliver(h, e)
         \/ Request(h) \/ CreateRow(h) \/ OpenSession(h) \/ ChangeAtStripe(h)
         \/ CancelAtStripe(h) \/ FlagRow(h)
  PROVE  InboxInv' /\ InboxStep
<1>1. stored' = stored /\ applied' = applied /\ acked' = acked
  BY DEF Deliver, Request, BeginCheckout, BeginChange, BeginCancel, Begin, ReadSession, CreateRow,
         OpenSession, ChangeAtStripe, CancelAtStripe, FlagRow, local, history
<1>2. TypeInv' /\ handler \in [Handlers -> HandlerType] BY TypesGoOn DEF Next, Serve, TypeInv, TypeOK
<1>3. \A g \in Handlers : handler'[g] = handler[g] \/ ~Works(handler'[g])
  <2>1. \E n : handler' = [handler EXCEPT ![h] = n] /\ ~Works(n)
    <3>1. ASSUME NEW e \in EventIds, Deliver(h, e)
          PROVE  \E n : handler' = [handler EXCEPT ![h] = n] /\ ~Works(n)
      <4> DEFINE n == [IdleHandler EXCEPT !.pc = "find", !.op = "webhook", !.k = events[e].k,
                                          !.e = e]
      <4>1. ~Works(n) BY DEF Works, IdleHandler
      <4>2. handler' = [handler EXCEPT ![h] = n] BY <3>1 DEF Deliver, Set
      <4> HIDE DEF n
      <4> QED BY <4>1, <4>2
    <3>2. CASE Request(h)
      <4>1. ASSUME NEW op \in {"checkout", "change", "cancel"}, NEW pc, NEW k, NEW p,
                   Begin(h, op, pc, k, p)
            PROVE  \E n : handler' = [handler EXCEPT ![h] = n] /\ ~Works(n)
        <5> DEFINE n == [IdleHandler EXCEPT !.pc = pc, !.op = op, !.k = k, !.plan = p]
        <5>1. ~Works(n) BY DEF Works, IdleHandler
        <5>2. handler' = [handler EXCEPT ![h] = n] BY <4>1 DEF Begin, Set
        <5> HIDE DEF n
        <5> QED BY <5>1, <5>2
      <4>2. ASSUME NEW k \in Checkouts, ReadSession(h, k)
            PROVE  \E n : handler' = [handler EXCEPT ![h] = n] /\ ~Works(n)
        <5> DEFINE n == [IdleHandler EXCEPT !.pc = "apply", !.op = "status", !.k = k,
                                            !.snap = stripe[k], !.withSession = TRUE]
        <5>1. ~Works(n) BY DEF Works, IdleHandler
        <5>2. handler' = [handler EXCEPT ![h] = n] BY <4>2 DEF ReadSession, Set
        <5> HIDE DEF n
        <5> QED BY <5>1, <5>2
      <4> QED BY <3>2, <4>1, <4>2 DEF Request, BeginCheckout, BeginChange, BeginCancel
    <3>3. CASE CreateRow(h) \/ OpenSession(h) \/ ChangeAtStripe(h) \/ CancelAtStripe(h) \/ FlagRow(h)
      <4>1. handler[h].op # "webhook" /\ handler[h] \in HandlerType
        BY <3>3 DEF TypeInv, TypeOK, CallKnown, WebhookPcs, CreateRow, OpenSession, ChangeAtStripe,
                    CancelAtStripe, FlagRow
      <4>2. ~Works(IdleHandler) BY DEF Works, IdleHandler
      <4>3. \A k : ~Works([handler[h] EXCEPT !.pc = "openSession", !.k = k])
        BY <4>1 DEF Works, HandlerType
      <4>4. \A t : ~Works([handler[h] EXCEPT !.pc = "apply", !.snap = t])
        BY <4>1 DEF Works, HandlerType
      <4>5. ~Works([handler[h] EXCEPT !.pc = "flag"])
        BY <4>1 DEF Works, HandlerType
      <4> QED BY <3>3, <4>2, <4>3, <4>4, <4>5
              DEF CreateRow, OpenSession, ChangeAtStripe, CancelAtStripe, FlagRow, Goto, Done, Set
    <3> QED BY <3>1, <3>2, <3>3
  <2> QED BY <1>2, <2>1
<1>4. InboxInv' BY <1>1, <1>3, HandlersKeep
<1> QED BY <1>1, <1>4 DEF InboxStep, IsInbox!inboxVars

LEMMA FailureKeeps ==
  ASSUME TypeInv, InboxInv, (\E h \in Handlers : CallFails(h)) \/ Restart
  PROVE  InboxInv' /\ InboxStep
<1>1. stored' = stored /\ applied' = applied /\ acked' = acked
  BY DEF CallFails, Restart, local, history
<1>2. CASE Restart
  <2>1. \A g \in Handlers : ~Works(handler'[g]) BY <1>2 DEF Restart, Works, IdleHandler
  <2> QED BY <1>1, <2>1, HandlersKeep DEF InboxStep, IsInbox!inboxVars
<1>3. ASSUME NEW h \in Handlers, CallFails(h) PROVE InboxInv' /\ InboxStep
  <2>1. CASE Done(h) BY <1>1, <2>1, DoneKeeps DEF InboxStep, IsInbox!inboxVars
  <2>2. CASE Goto(h, "markFailed") /\ Works(handler[h])
    BY <1>1, <2>2, GotoKeeps DEF InboxStep, IsInbox!inboxVars, Pcs
  <2> QED BY <1>3, <2>1, <2>2 DEF CallFails, Works
<1> QED BY <1>2, <1>3

LEMMA InboxGoesOn == TypeInv /\ InboxInv /\ [Next]_vars => InboxInv' /\ InboxStep
<1> SUFFICES ASSUME TypeInv, InboxInv, [Next]_vars PROVE InboxInv' /\ InboxStep
  OBVIOUS
<1>1. ASSUME NEW h \in Handlers, Serve(h) \/ Request(h) \/ \E e \in EventIds : Deliver(h, e)
      PROVE  InboxInv' /\ InboxStep
  BY <1>1, FindIsAck, StoreIsStore, ProcessKeeps, CloseIsClose, ApplyIsApply, SyncKeeps, BeginKeeps
     DEF Serve
<1>2. CASE StripeStep \/ UNCHANGED vars
  <2>1. UNCHANGED <<stored, applied, acked, handler>>
    BY <1>2 DEF StripeStep, CompleteCheckout, PayInvoice, PeriodEnds, PortalChange, Tick, vars,
                local, history
  <2> QED BY <2>1, HandlersKeep DEF InboxStep, IsInbox!inboxVars
<1>3. CASE (\E h \in Handlers : CallFails(h)) \/ Restart BY <1>3, FailureKeeps
<1> QED BY <1>1, <1>2, <1>3 DEF Next, BoundedStripeStep

\* handleStripeWebhook is an at-most-once inbox, for any events, handlers, failures and
\* restarts: the detailed deliveries implement the abstract intake.
THEOREM WebhookImplementsInbox == Spec => ImplementsInbox
<1>1. TypeInv /\ InboxInv /\ [Next]_vars => [IsInbox!InboxNext]_(IsInbox!inboxVars)
  BY InboxGoesOn DEF InboxStep
<1>2. Spec => [](TypeInv /\ InboxInv)
  BY TypesBegin, TypesGoOn, InboxBegins, InboxGoesOn, PTL DEF Spec
<1>3. Init => IsInbox!InboxInit BY InboxBegins
<1> QED BY <1>1, <1>2, <1>3, PTL DEF Spec, ImplementsInbox, IsInbox!InboxSpec

-----------------------------------------------------------------------------
(* The plan in use was bought *)

\* A plan that costs nothing, or that some paid checkout was priced at.
Bought(p, sl, pd) == p = FreePlan \/ \E k \in pd : p \in sl[k]

\* What a snapshot of subscription k, seen at some time, still allows to conclude.
SnapOK(snap, k, ses, sl, pd) ==
    ses[k].state = "complete" /\ snap.meta \in sl[k] /\ (snap.status = "active" => k \in pd)

EventOK(ev, ses, sl, pd) ==
    SnapOK(ev.snap, ev.k, ses, sl, pd) /\ (ev.type = "invoice.paid" => ev.k \in pd)

CallOK(r, sb, ses, sl, pd) ==
    /\ r.pc = "apply" => SnapOK(r.snap, r.k, ses, sl, pd) /\ (r.over = "ACTIVE" => r.k \in pd)
    /\ r.pc \in {"changeAt", "pick"} => r.k \in pd
    /\ r.pc = "changeAt" => r.over = "none"
    /\ r.pc \in {"syncUser", "syncTier"} => Bought(r.plan, sl, pd)
    /\ r.pc = "openSession" => ses[r.k].state = "none" /\ sb[r.k].status # "none"

CheckoutOK(k, sb, ses, st, sl, pd) ==
    /\ ses[k].state = "complete" <=> st[k].status # "none"
    /\ ses[k].state = "complete" => ses[k].plan \in sl[k] /\ SnapOK(st[k], k, ses, sl, pd)
    /\ k \in pd => ses[k].state = "complete"
    /\ ses[k].state # "none" => sb[k].status # "none"
    /\ sb[k].status = "ACTIVE" => k \in pd /\ sb[k].plan \in sl[k]

CheckoutsOK == \A k \in Checkouts : CheckoutOK(k, sub, session, stripe, sold, paid)
EventsOK == \A i \in 1..Len(events) : EventOK(events[i], session, sold, paid)
CallsOK == \A h \in Handlers : CallOK(handler[h], sub, session, sold, paid)
OneOpens ==
    \A g, h \in Handlers :
        /\ handler[g].pc = "openSession" /\ handler[h].pc = "openSession"
        /\ handler[g].k = handler[h].k
        => g = h
PlansOK == Bought(user, sold, paid) /\ Bought(tier, sold, paid)

BoughtInv == CheckoutsOK /\ EventsOK /\ CallsOK /\ OneOpens /\ PlansOK

LEMMA BoughtBegins == Init => BoughtInv
<1> SUFFICES ASSUME Init PROVE BoughtInv
  OBVIOUS
<1>1. CheckoutsOK BY DEF Init, CheckoutsOK, CheckoutOK, NoRow, NoStripe
<1>2. EventsOK BY DEF Init, EventsOK
<1>3. CallsOK /\ OneOpens BY DEF Init, CallsOK, CallOK, OneOpens, IdleHandler
<1>4. PlansOK BY DEF Init, PlansOK, Bought
<1> QED BY <1>1, <1>2, <1>3, <1>4 DEF BoughtInv

\* What the invariant says makes the property.
LEMMA BoughtIsBought == TypeInv /\ BoughtInv => PlanWasBought
<1> SUFFICES ASSUME TypeInv, BoughtInv PROVE PlanWasBought
  OBVIOUS
<1>1. ASSUME Current # 0 PROVE Current \in paid /\ sub[Current].plan \in sold[Current]
  <2>1. Current \in Checkouts /\ IsActive(sub[Current]) BY <1>1, CurrentIsActive
  <2>2. sub[Current].status = "ACTIVE" BY <2>1 DEF IsActive, ActiveStatus
  <2>3. CheckoutOK(Current, sub, session, stripe, sold, paid)
    BY <2>1 DEF BoughtInv, CheckoutsOK
  <2> QED BY <2>2, <2>3 DEF CheckoutOK
<1>2. \A p \in {user, tier} \ {FreePlan} : \E k \in paid : p \in sold[k]
  BY DEF BoughtInv, PlansOK, Bought
<1> QED BY <1>1, <1>2 DEF PlanWasBought

\* What was bought stays bought.
Grows ==
    /\ paid \subseteq paid'
    /\ \A k \in Checkouts : session[k].state = "complete" =>
          session'[k] = session[k] /\ sold[k] \subseteq sold'[k]

LEMMA BoughtStays ==
  ASSUME TypeInv, BoughtInv, Grows, NEW p, Bought(p, sold, paid)
  PROVE  Bought(p, sold', paid')
<1>1. ASSUME NEW k \in paid, p \in sold[k] PROVE \E j \in paid' : p \in sold'[j]
  <2>1. k \in Checkouts BY <1>1 DEF TypeInv, TypeOK
  <2>2. session[k].state = "complete"
    BY <1>1, <2>1 DEF BoughtInv, CheckoutsOK, CheckoutOK
  <2> QED BY <1>1, <2>1, <2>2 DEF Grows
<1> QED BY <1>1 DEF Bought

LEMMA SnapStays ==
  ASSUME Grows, NEW k \in Checkouts, NEW snap, SnapOK(snap, k, session, sold, paid)
  PROVE  SnapOK(snap, k, session', sold', paid')
BY DEF SnapOK, Grows

LEMMA CallStays ==
  ASSUME TypeInv, BoughtInv, Grows, NEW h \in Handlers,
         handler[h].pc = "openSession" =>
            session'[handler[h].k].state = "none" /\ sub'[handler[h].k].status # "none"
  PROVE  CallOK(handler[h], sub', session', sold', paid')
<1> DEFINE r == handler[h]
<1>1. CallOK(r, sub, session, sold, paid) BY DEF BoughtInv, CallsOK
<1>2. r.pc \in AtRow => r.k \in Checkouts BY DEF TypeInv, CallKnown
<1>3. r.pc = "apply" => SnapOK(r.snap, r.k, session', sold', paid')
  BY <1>1, <1>2, SnapStays DEF CallOK, AtRow
<1>4. r.pc \in {"syncUser", "syncTier"} => Bought(r.plan, sold', paid')
  BY <1>1, BoughtStays DEF CallOK
<1>5. paid \subseteq paid' BY DEF Grows
<1> QED BY <1>1, <1>3, <1>4, <1>5 DEF CallOK

LEMMA EventsStay ==
  ASSUME TypeInv, BoughtInv, Grows, NEW i \in 1..Len(events)
  PROVE  EventOK(events[i], session', sold', paid')
<1>1. events[i].k \in Checkouts BY EventIsKnown
<1>2. EventOK(events[i], session, sold, paid) BY DEF BoughtInv, EventsOK
<1> QED BY <1>1, <1>2, SnapStays DEF EventOK, Grows

LEMMA PlansStay == ASSUME TypeInv, BoughtInv, Grows, UNCHANGED <<user, tier>> PROVE PlansOK'
BY BoughtStays DEF BoughtInv, PlansOK

\* Only what a handler is about changes.
LEMMA CallsMove ==
  ASSUME TypeInv, BoughtInv,
         UNCHANGED <<sub, user, tier, session, stripe, events, sold, paid>>,
         \A h \in Handlers : \/ handler'[h] = handler[h]
                             \/ /\ handler'[h].pc # "openSession"
                                /\ CallOK(handler'[h], sub, session, sold, paid)
  PROVE  BoughtInv'
<1>1. CallsOK' BY DEF BoughtInv, CallsOK
<1>2. OneOpens' BY DEF BoughtInv, OneOpens
<1>3. CheckoutsOK' /\ EventsOK' /\ PlansOK'
  BY DEF BoughtInv, CheckoutsOK, EventsOK, PlansOK
<1> QED BY <1>1, <1>2, <1>3 DEF BoughtInv

LEMMA CallMoves ==
  ASSUME TypeInv, BoughtInv, NEW h \in Handlers, NEW n \in HandlerType, Set(h, n),
         UNCHANGED <<sub, user, tier, session, stripe, events, sold, paid>>,
         n.pc # "openSession", CallOK(n, sub, session, sold, paid)
  PROVE  BoughtInv'
<1>1. handler \in [Handlers -> HandlerType] BY DEF TypeInv, TypeOK
<1>2. handler'[h] = n /\ \A g \in Handlers \ {h} : handler'[g] = handler[g]
  BY <1>1, HandlerMoves
<1> QED BY <1>2, CallsMove

LEMMA CallRests ==
  ASSUME NEW r, r.pc \notin {"apply", "changeAt", "pick", "syncUser", "syncTier", "openSession"}
  PROVE  CallOK(r, sub, session, sold, paid) /\ CallOK(r, sub', session', sold', paid')
BY DEF CallOK

LEMMA CallStops ==
  ASSUME TypeInv, BoughtInv, NEW h \in Handlers, Done(h),
         UNCHANGED <<sub, user, tier, session, stripe, events, sold, paid>>
  PROVE  BoughtInv'
<1>1. IdleHandler \in HandlerType /\ IdleHandler.pc = "idle" BY IdleTyped DEF IdleHandler
<1> HIDE DEF IdleHandler
<1> QED BY <1>1, CallRests, CallMoves DEF Done

LEMMA CallWaits ==
  ASSUME TypeInv, BoughtInv, NEW h \in Handlers,
         NEW pc \in {"store", "process", "mark", "markFailed"}, Goto(h, pc),
         UNCHANGED <<sub, user, tier, session, stripe, events, sold, paid>>
  PROVE  BoughtInv'
<1> DEFINE n == [handler[h] EXCEPT !.pc = pc]
<1>1. handler[h] \in HandlerType /\ pc \in Pcs BY DEF TypeInv, TypeOK, Pcs
<1>2. n \in HandlerType /\ n.pc = pc BY <1>1, NextStep
<1>3. Set(h, n) BY DEF Goto
<1> HIDE DEF n
<1>4. n.pc \notin {"apply", "changeAt", "pick", "syncUser", "syncTier", "openSession"} BY <1>2
<1> QED BY <1>2, <1>3, <1>4, CallRests, CallMoves

LEMMA DeliveryBought ==
  ASSUME TypeInv, BoughtInv, NEW h \in Handlers,
         (\E e \in EventIds : Deliver(h, e)) \/ FindEvent(h) \/ StoreEvent(h)
           \/ MarkEvent(h) \/ MarkFailed(h)
  PROVE  BoughtInv'
<1>1. UNCHANGED <<sub, user, tier, session, stripe, events, sold, paid>>
  BY DEF Deliver, FindEvent, StoreEvent, MarkEvent, MarkFailed, local, external, history
<1>2. ASSUME NEW e \in EventIds, Deliver(h, e) PROVE BoughtInv'
  <2> DEFINE n == [IdleHandler EXCEPT !.pc = "find", !.op = "webhook", !.k = events[e].k, !.e = e]
  <2>1. Set(h, n) /\ e \in 1..Len(events) BY <1>2 DEF Deliver
  <2>2. events[e].k \in Checkouts BY <2>1, EventIsKnown
  <2>3. n \in HandlerType /\ n.pc = "find" BY <2>2, DeliveryBegins DEF IdleHandler
  <2> HIDE DEF n
  <2>4. n.pc \notin {"apply", "changeAt", "pick", "syncUser", "syncTier", "openSession"} BY <2>3
  <2> QED BY <1>1, <2>1, <2>3, <2>4, CallRests, CallMoves
<1>3. CASE Done(h) BY <1>1, <1>3, CallStops
<1>4. CASE Goto(h, "store") \/ Goto(h, "process") BY <1>1, <1>4, CallWaits
<1> QED BY <1>2, <1>3, <1>4 DEF FindEvent, StoreEvent, MarkEvent, MarkFailed

LEMMA ProcessBought ==
  ASSUME TypeInv, BoughtInv, NEW h \in Handlers, ProcessEvent(h) PROVE BoughtInv'
<1>1. PICK n \in HandlerType :
        /\ Set(h, n)
        /\ n.pc = "apply" /\ n.k = handler[h].k /\ n.e = handler[h].e
        /\ n.snap \in {events[n.e].snap, stripe[n.k]}
        /\ n.over = "ACTIVE" => events[n.e].type = "invoice.paid"
  BY ProcessedAs
<1>2. handler[h].e \in 1..Len(events) /\ handler[h].k = events[handler[h].e].k
  BY DEF TypeInv, CallKnown, ProcessEvent
<1>3. EventOK(events[n.e], session, sold, paid) /\ n.k = events[n.e].k /\ n.k \in Checkouts
  BY <1>1, <1>2, EventIsKnown DEF BoughtInv, EventsOK
<1>4. CheckoutOK(n.k, sub, session, stripe, sold, paid) BY <1>3 DEF BoughtInv, CheckoutsOK
<1>5. SnapOK(n.snap, n.k, session, sold, paid)
  BY <1>1, <1>3, <1>4 DEF EventOK, CheckoutOK, SnapOK
<1>6. CallOK(n, sub, session, sold, paid) BY <1>1, <1>3, <1>5 DEF CallOK, EventOK
<1>7. UNCHANGED <<sub, user, tier, session, stripe, events, sold, paid>>
  BY DEF ProcessEvent, local, external, history
<1> QED BY <1>1, <1>6, <1>7, CallMoves

LEMMA BeginBought ==
  ASSUME TypeInv, BoughtInv, NEW h \in Handlers, NEW op \in {"checkout", "change", "cancel"},
         NEW pc \in {"create", "changeAt", "pick"}, NEW k \in 0..NumCheckouts, NEW p \in Plans,
         pc # "create" => k \in paid, Begin(h, op, pc, k, p)
  PROVE  BoughtInv'
<1> DEFINE n == [IdleHandler EXCEPT !.pc = pc, !.op = op, !.k = k, !.plan = p]
<1>1. /\ Set(h, n) /\ op \in Ops
      /\ UNCHANGED <<sub, user, tier, session, stripe, events, sold, paid>>
  BY DEF Begin, local, external, history
<1>2. pc \in Pcs BY DEF Pcs
<1>3. n \in HandlerType /\ n.pc = pc /\ n.k = k BY <1>1, <1>2, RequestBegins DEF IdleHandler
<1>4. n.over = "none" BY DEF IdleHandler
<1> HIDE DEF n
<1>5. CallOK(n, sub, session, sold, paid) BY <1>3, <1>4 DEF CallOK
<1> QED BY <1>1, <1>3, <1>5, CallMoves

LEMMA RequestBought ==
  ASSUME TypeInv, BoughtInv, NEW h \in Handlers, Request(h) PROVE BoughtInv'
<1>1. 0 \in 0..NumCheckouts /\ (\A k \in Checkouts : k \in 0..NumCheckouts)
      /\ FreePlan \in Plans
  BY BoundsAssumption, PlansAssumption DEF Checkouts
<1>2. ASSUME NEW p \in Plans, BeginCheckout(h, p) PROVE BoughtInv'
  BY <1>1, <1>2, BeginBought DEF BeginCheckout
<1>3. ASSUME NEW p \in Plans, BeginChange(h, p) PROVE BoughtInv'
  <2>1. Current # 0 /\ Begin(h, "change", "changeAt", Current, p) BY <1>3 DEF BeginChange
  <2>2. Current \in paid /\ Current \in Checkouts
    BY <2>1, BoughtIsBought, CurrentIsActive DEF PlanWasBought
  <2> QED BY <1>1, <2>1, <2>2, BeginBought
<1>4. CASE BeginCancel(h)
  <2>1. PICK k \in Checkouts :
          sub[k].status = "ACTIVE" /\ Begin(h, "cancel", "pick", k, FreePlan)
    BY <1>4 DEF BeginCancel, ActiveStatus
  <2>2. k \in paid BY <2>1 DEF BoughtInv, CheckoutsOK, CheckoutOK
  <2> QED BY <1>1, <2>1, <2>2, BeginBought
<1>5. ASSUME NEW k \in Checkouts, ReadSession(h, k) PROVE BoughtInv'
  <2> DEFINE n == [IdleHandler EXCEPT !.pc = "apply", !.op = "status", !.k = k,
                                      !.snap = stripe[k], !.withSession = TRUE]
  <2>1. /\ Set(h, n) /\ "status" \in Ops /\ session[k].state = "complete"
        /\ UNCHANGED <<sub, user, tier, session, stripe, events, sold, paid>>
    BY <1>5 DEF ReadSession, local, external, history
  <2>2. stripe[k] \in StripeType BY DEF TypeInv, TypeOK
  <2>3. n \in HandlerType /\ n.pc = "apply" /\ n.k = k /\ n.snap = stripe[k] /\ n.over = "none"
    BY <2>1, <2>2, ReadingBegins DEF IdleHandler
  <2> HIDE DEF n
  <2>4. SnapOK(stripe[k], k, session, sold, paid)
    BY <2>1 DEF BoughtInv, CheckoutsOK, CheckoutOK
  <2>5. CallOK(n, sub, session, sold, paid) BY <2>3, <2>4 DEF CallOK
  <2> QED BY <2>1, <2>3, <2>5, CallMoves
<1> QED BY <1>2, <1>3, <1>4, <1>5 DEF Request

LEMMA FailureBought ==
  ASSUME TypeInv, BoughtInv, (\E h \in Handlers : CallFails(h)) \/ Restart PROVE BoughtInv'
<1>1. UNCHANGED <<sub, user, tier, session, stripe, events, sold, paid>>
  BY DEF CallFails, Restart, local, external, history
<1>2. CASE Restart
  <2>1. \A g \in Handlers : handler'[g].pc = "idle" BY <1>2 DEF Restart, IdleHandler
  <2> QED BY <1>1, <2>1, CallRests, CallsMove
<1>3. ASSUME NEW h \in Handlers, CallFails(h) PROVE BoughtInv'
  BY <1>1, <1>3, CallStops, CallWaits DEF CallFails
<1> QED BY <1>2, <1>3

\* A handler moves, and with it a row, a plan, a session or a subscription.
LEMMA OthersStay ==
  ASSUME TypeInv, BoughtInv, Grows, NEW h \in Handlers, NEW n \in HandlerType, Set(h, n),
         CallOK(n, sub', session', sold', paid'), n.pc # "openSession",
         \A g \in Handlers \ {h} : handler[g].pc = "openSession" =>
            session'[handler[g].k].state = "none" /\ sub'[handler[g].k].status # "none"
  PROVE  CallsOK' /\ OneOpens'
<1>1. handler \in [Handlers -> HandlerType] BY DEF TypeInv, TypeOK
<1>2. handler'[h] = n /\ \A g \in Handlers \ {h} : handler'[g] = handler[g]
  BY <1>1, HandlerMoves
<1>3. \A g \in Handlers \ {h} : CallOK(handler'[g], sub', session', sold', paid')
  BY <1>2, CallStays
<1>4. CallsOK' BY <1>2, <1>3 DEF CallsOK
<1>5. OneOpens' BY <1>2 DEF BoughtInv, OneOpens
<1> QED BY <1>4, <1>5

LEMMA SameGrows == ASSUME UNCHANGED <<session, sold, paid>> PROVE Grows
BY DEF Grows

\* One row changes.
LEMMA RowChanges ==
  ASSUME TypeInv, BoughtInv, UNCHANGED <<session, stripe, sold, paid>>, NEW k \in Checkouts,
         NEW row \in RowType, sub' = [sub EXCEPT ![k] = row], row.status # "none",
         row.status = "ACTIVE" => k \in paid /\ row.plan \in sold[k]
  PROVE  /\ CheckoutsOK'
         /\ \A j \in Checkouts : sub[j].status # "none" => sub'[j].status # "none"
<1>1. sub \in [Checkouts -> RowType] BY DEF TypeInv, TypeOK
<1>2. sub'[k] = row /\ \A j \in Checkouts \ {k} : sub'[j] = sub[j] BY <1>1
<1>3. ASSUME NEW j \in Checkouts
      PROVE  CheckoutOK(j, sub', session', stripe', sold', paid')
  <2>1. CheckoutOK(j, sub, session, stripe, sold, paid) BY DEF BoughtInv, CheckoutsOK
  <2> QED BY <2>1, <1>2 DEF CheckoutOK
<1> QED BY <1>2, <1>3 DEF CheckoutsOK

LEMMA RowsStay ==
  ASSUME TypeInv, BoughtInv, UNCHANGED <<session, sold, paid>>,
         \A j \in Checkouts : sub[j].status # "none" => sub'[j].status # "none"
  PROVE  \A g \in Handlers : handler[g].pc = "openSession" =>
            session'[handler[g].k].state = "none" /\ sub'[handler[g].k].status # "none"
<1> TAKE g \in Handlers
<1>1. CallOK(handler[g], sub, session, sold, paid) BY DEF BoughtInv, CallsOK
<1>2. handler[g].pc = "openSession" => handler[g].k \in Checkouts
  BY DEF TypeInv, CallKnown, AtRow
<1> QED BY <1>1, <1>2 DEF CallOK

LEMMA ApplyBought ==
  ASSUME TypeInv, BoughtInv, NEW h \in Handlers, Apply(h) PROVE BoughtInv'
<1> DEFINE r == handler[h]
           row == SnapshotRow(r)
<1>1. /\ r \in HandlerType /\ r.pc = "apply" /\ r.k \in Checkouts
  BY DEF TypeInv, TypeOK, CallKnown, Apply, AtRow
<1>2. UNCHANGED <<user, tier, session, stripe, events, sold, paid>>
  BY DEF Apply, external
<1>3. PICK n \in HandlerType : Set(h, n) /\ GoesOnFrom(n, r, row) BY AppliedAs
<1>4. sub' = [sub EXCEPT ![r.k] = row] BY AppliedAs
<1>5. /\ row \in RowType /\ row.status # "none"
      /\ row.status = "ACTIVE" =>
           r.over = "ACTIVE" \/ (r.over = "none" /\ r.snap.status = "active")
      /\ row.plan \in {session[r.k].plan, r.snap.meta}
  BY <1>1, SnapshotIsRow DEF TypeInv
<1> HIDE DEF row
<1>6. CallOK(r, sub, session, sold, paid) BY DEF BoughtInv, CallsOK
<1>7. SnapOK(r.snap, r.k, session, sold, paid) /\ (r.over = "ACTIVE" => r.k \in paid)
  BY <1>1, <1>6 DEF CallOK
<1>8. CheckoutOK(r.k, sub, session, stripe, sold, paid) BY <1>1 DEF BoughtInv, CheckoutsOK
<1>9. row.plan \in sold[r.k] /\ (row.status = "ACTIVE" => r.k \in paid)
  BY <1>5, <1>7, <1>8 DEF SnapOK, CheckoutOK
<1>10. /\ CheckoutsOK'
       /\ \A j \in Checkouts : sub[j].status # "none" => sub'[j].status # "none"
  BY <1>1, <1>2, <1>4, <1>5, <1>9, RowChanges
<1>11. n.pc = "syncUser" => Bought(n.plan, sold, paid)
  BY <1>3, <1>9 DEF GoesOnFrom, Bought
<1>12. n.pc \in {"syncUser", "mark", "idle"} BY <1>3 DEF GoesOnFrom, IdleHandler
<1>13. CallOK(n, sub', session', sold', paid') BY <1>2, <1>11, <1>12 DEF CallOK
<1>14. Grows BY <1>2, SameGrows
<1>15. CallsOK' /\ OneOpens' BY <1>2, <1>3, <1>10, <1>12, <1>13, <1>14, RowsStay, OthersStay
<1>16. EventsOK' BY <1>2 DEF BoughtInv, EventsOK
<1>17. PlansOK' BY <1>2 DEF BoughtInv, PlansOK
<1> QED BY <1>10, <1>15, <1>16, <1>17 DEF BoughtInv

LEMMA SyncBought ==
  ASSUME TypeInv, BoughtInv, NEW h \in Handlers, SyncUser(h) \/ SyncTier(h) PROVE BoughtInv'
<1> DEFINE r == handler[h]
<1>1. /\ r \in HandlerType /\ r.pc \in {"syncUser", "syncTier"}
      /\ UNCHANGED <<sub, session, stripe, events, sold, paid>>
  BY DEF TypeInv, TypeOK, SyncUser, SyncTier, external, history
<1>2. Bought(r.plan, sold, paid) BY <1>1 DEF BoughtInv, CallsOK, CallOK
<1>3. PlansOK' BY <1>1, <1>2 DEF SyncUser, SyncTier, BoughtInv, PlansOK
<1>4. \E n \in HandlerType :
        /\ Set(h, n) /\ n.pc \in {"syncTier", "mark", "idle"}
        /\ n.pc = "syncTier" => n.plan = r.plan
  <2>1. CASE Goto(h, "syncTier") \/ Goto(h, "mark")
    <3>1. PICK pc \in {"syncTier", "mark"} : Goto(h, pc) BY <2>1
    <3> DEFINE n == [r EXCEPT !.pc = pc]
    <3>2. pc \in Pcs BY DEF Pcs
    <3>3. n \in HandlerType /\ n.pc = pc /\ n.plan = r.plan BY <1>1, <3>2, NextStep
    <3>4. Set(h, n) BY <3>1 DEF Goto
    <3> HIDE DEF n
    <3> QED BY <3>3, <3>4
  <2>2. CASE Done(h)
    <3>1. IdleHandler \in HandlerType /\ IdleHandler.pc = "idle" BY IdleTyped DEF IdleHandler
    <3>2. Set(h, IdleHandler) BY <2>2 DEF Done
    <3> HIDE DEF IdleHandler
    <3> QED BY <3>1, <3>2
  <2> QED BY <2>1, <2>2 DEF SyncUser, SyncTier, AfterApply
<1>5. PICK n \in HandlerType :
        /\ Set(h, n) /\ n.pc \in {"syncTier", "mark", "idle"}
        /\ n.pc = "syncTier" => n.plan = r.plan
  BY <1>4
<1>6. CallOK(n, sub', session', sold', paid') BY <1>1, <1>2, <1>5 DEF CallOK
<1>7. Grows BY <1>1, SameGrows
<1>8. CallsOK' /\ OneOpens' BY <1>1, <1>5, <1>6, <1>7, RowsStay, OthersStay
<1>9. CheckoutsOK' /\ EventsOK' BY <1>1 DEF BoughtInv, CheckoutsOK, EventsOK
<1> QED BY <1>3, <1>8, <1>9 DEF BoughtInv

LEMMA CreateBought ==
  ASSUME TypeInv, BoughtInv, NEW h \in Handlers, CreateRow(h) PROVE BoughtInv'
<1> DEFINE r == handler[h]
<1>1. /\ r \in HandlerType /\ r.plan \in Plans /\ handler \in [Handlers -> HandlerType]
      /\ sub \in [Checkouts -> RowType]
      /\ UNCHANGED <<user, tier, session, stripe, events, sold, paid>>
  BY DEF TypeInv, TypeOK, HandlerType, CreateRow, external, history
<1>2. PICK k \in Checkouts :
        /\ sub[k].status = "none"
        /\ sub' = [sub EXCEPT ![k] = [NoRow EXCEPT !.status = "PENDING", !.plan = r.plan]]
        /\ Set(h, [r EXCEPT !.pc = "openSession", !.k = k])
  BY DEF CreateRow
<1> DEFINE n == [r EXCEPT !.pc = "openSession", !.k = k]
           row == [NoRow EXCEPT !.status = "PENDING", !.plan = r.plan]
<1>3. k \in 0..NumCheckouts BY BoundsAssumption DEF Checkouts
<1>4. /\ n \in HandlerType /\ n.pc = "openSession" /\ n.k = k
  BY <1>1, <1>3 DEF HandlerType, Pcs
<1>5. row \in RowType /\ row.status = "PENDING" BY <1>1, RowBegins DEF NoRow
<1>6. Set(h, n) /\ sub' = [sub EXCEPT ![k] = row] BY <1>2
<1> HIDE DEF n, row
<1>7. /\ CheckoutsOK'
      /\ \A j \in Checkouts : sub[j].status # "none" => sub'[j].status # "none"
  BY <1>1, <1>5, <1>6, RowChanges
<1>8. sub'[k].status = "PENDING" BY <1>1, <1>5, <1>6
<1>9. session[k].state = "none" BY <1>2 DEF BoughtInv, CheckoutsOK, CheckoutOK
<1>10. CallOK(n, sub', session', sold', paid') BY <1>1, <1>4, <1>8, <1>9 DEF CallOK
<1>11. Grows BY <1>1, SameGrows
<1>12. handler'[h] = n /\ \A g \in Handlers \ {h} : handler'[g] = handler[g]
  BY <1>1, <1>4, <1>6, HandlerMoves
<1>13. \A g \in Handlers \ {h} : CallOK(handler'[g], sub', session', sold', paid')
  <2> TAKE g \in Handlers \ {h}
  <2>1. CallOK(handler[g], sub', session', sold', paid')
    BY <1>1, <1>7, <1>11, RowsStay, CallStays
  <2> QED BY <2>1, <1>12
<1>14. CallsOK' BY <1>10, <1>12, <1>13 DEF CallsOK
<1>15. \A g \in Handlers : handler[g].pc = "openSession" => handler[g].k # k
  <2> TAKE g \in Handlers
  <2>1. CallOK(handler[g], sub, session, sold, paid) BY DEF BoughtInv, CallsOK
  <2> QED BY <1>2, <2>1 DEF CallOK
<1>16. OneOpens' BY <1>4, <1>12, <1>15 DEF BoughtInv, OneOpens
<1>17. EventsOK' /\ PlansOK' BY <1>1 DEF BoughtInv, EventsOK, PlansOK
<1> QED BY <1>7, <1>14, <1>16, <1>17 DEF BoughtInv

LEMMA OpenBought ==
  ASSUME TypeInv, BoughtInv, NEW h \in Handlers, OpenSession(h) PROVE BoughtInv'
<1> DEFINE r == handler[h]
           k == r.k
<1>1. /\ r.pc = "openSession" /\ k \in Checkouts /\ Done(h)
      /\ UNCHANGED <<sub, user, tier, stripe, events, sold, paid>>
      /\ session' = [session EXCEPT ![k] = [state |-> "open", plan |-> r.plan]]
  BY DEF TypeInv, CallKnown, AtRow, OpenSession, local, history
<1>2. session \in [Checkouts -> SessionType] BY DEF TypeInv, TypeOK, SessionType
<1>3. /\ session'[k].state = "open"
      /\ \A j \in Checkouts \ {k} : session'[j] = session[j]
  BY <1>1, <1>2
<1>4. session[k].state = "none" /\ sub[k].status # "none"
  BY <1>1 DEF BoughtInv, CallsOK, CallOK
<1>5. Grows BY <1>1, <1>3, <1>4 DEF Grows
<1>6. CheckoutsOK'
  <2>1. ASSUME NEW j \in Checkouts
        PROVE  CheckoutOK(j, sub', session', stripe', sold', paid')
    <3>1. CheckoutOK(j, sub, session, stripe, sold, paid) BY DEF BoughtInv, CheckoutsOK
    <3>2. CASE j = k BY <1>1, <1>3, <1>4, <3>1, <3>2 DEF CheckoutOK
    <3>3. CASE j # k BY <1>1, <1>3, <3>1, <3>3 DEF CheckoutOK, SnapOK
    <3> QED BY <3>2, <3>3
  <2> QED BY <2>1 DEF CheckoutsOK
<1>7. \A g \in Handlers \ {h} : handler[g].pc = "openSession" =>
         session'[handler[g].k].state = "none" /\ sub'[handler[g].k].status # "none"
  <2> TAKE g \in Handlers \ {h}
  <2>1. CallOK(handler[g], sub, session, sold, paid) BY DEF BoughtInv, CallsOK
  <2>2. handler[g].pc = "openSession" => handler[g].k \in Checkouts
    BY DEF TypeInv, CallKnown, AtRow
  <2>3. handler[g].pc = "openSession" => handler[g].k # k
    BY <1>1 DEF BoughtInv, OneOpens
  <2> QED BY <1>1, <1>3, <2>1, <2>2, <2>3 DEF CallOK
<1>8. IdleHandler \in HandlerType /\ IdleHandler.pc = "idle" BY IdleTyped DEF IdleHandler
<1>9. Set(h, IdleHandler) BY <1>1 DEF Done
<1> HIDE DEF IdleHandler
<1>10. CallOK(IdleHandler, sub', session', sold', paid') BY <1>8 DEF CallOK
<1>11. CallsOK' /\ OneOpens' BY <1>5, <1>7, <1>8, <1>9, <1>10, OthersStay
<1>12. EventsOK' BY <1>1, <1>5, EventsStay DEF EventsOK
<1>13. PlansOK' BY <1>1, <1>5, PlansStay
<1> QED BY <1>6, <1>11, <1>12, <1>13 DEF BoughtInv

LEMMA FlagBought ==
  ASSUME TypeInv, BoughtInv, NEW h \in Handlers, FlagRow(h) PROVE BoughtInv'
<1> DEFINE k == handler[h].k
           row == [sub[k] EXCEPT !.ends = TRUE]
<1>1. /\ k \in Checkouts /\ Done(h)
      /\ UNCHANGED <<user, tier, session, stripe, events, sold, paid>>
  BY DEF TypeInv, CallKnown, AtRow, FlagRow, external, history
<1>2. sub \in [Checkouts -> RowType] /\ sub' = [sub EXCEPT ![k] = row]
  BY DEF TypeInv, TypeOK, FlagRow
<1>3. row \in RowType /\ row.status = sub[k].status /\ row.plan = sub[k].plan
  BY <1>1, <1>2 DEF RowType
<1> HIDE DEF row
<1>4. CheckoutsOK' /\ EventsOK' /\ PlansOK'
  <2>1. sub'[k] = row /\ \A j \in Checkouts \ {k} : sub'[j] = sub[j] BY <1>1, <1>2
  <2>2. \A j \in Checkouts : sub'[j].status = sub[j].status /\ sub'[j].plan = sub[j].plan
    BY <1>3, <2>1
  <2>3. CheckoutsOK' BY <1>1, <2>2 DEF BoughtInv, CheckoutsOK, CheckoutOK
  <2> QED BY <1>1, <2>3 DEF BoughtInv, EventsOK, PlansOK
<1>5. \A j \in Checkouts : sub[j].status # "none" => sub'[j].status # "none"
  BY <1>1, <1>2, <1>3
<1>6. IdleHandler \in HandlerType /\ IdleHandler.pc = "idle" BY IdleTyped DEF IdleHandler
<1>7. Set(h, IdleHandler) BY <1>1 DEF Done
<1> HIDE DEF IdleHandler
<1>8. CallOK(IdleHandler, sub', session', sold', paid') BY <1>6 DEF CallOK
<1>9. CallsOK' /\ OneOpens' BY <1>1, <1>5, <1>6, <1>7, <1>8, SameGrows, RowsStay, OthersStay
<1> QED BY <1>4, <1>9 DEF BoughtInv

\* Events that tell of a subscription as it has become.
LEMMA NewEvents ==
  ASSUME TypeInv, BoughtInv, Grows, NEW types \in Seq(AllEventTypes), NEW k \in Checkouts,
         NEW t \in StripeType, Emit(types, k, t), SnapOK(t, k, session', sold', paid'),
         (\E i \in 1..Len(types) : types[i] = "invoice.paid") => k \in paid'
  PROVE  EventsOK'
<1>1. /\ \A i \in 1..Len(events) : events'[i] = events[i]
      /\ \A i \in 1..Len(events') :
           i > Len(events) =>
             \E j \in 1..Len(types) : events'[i] = [type |-> types[j], k |-> k, snap |-> t]
  BY EventsSent DEF TypeInv
<1>2. events \in Seq(EventType) /\ events' \in Seq(EventType)
  BY EventsSent DEF TypeInv, TypeOK
<1>3. ASSUME NEW i \in 1..Len(events') PROVE EventOK(events'[i], session', sold', paid')
  <2>1. CASE i \in 1..Len(events) BY <1>1, <2>1, EventsStay
  <2>2. CASE i > Len(events)
    <3>1. PICK j \in 1..Len(types) : events'[i] = [type |-> types[j], k |-> k, snap |-> t]
      BY <1>1, <2>2
    <3>2. events'[i].k = k /\ events'[i].snap = t /\ events'[i].type = types[j] BY <3>1
    <3> QED BY <3>2 DEF EventOK
  <2>3. i \in 1..Len(events) \/ i > Len(events)
    <3>1. Len(events) \in Nat /\ Len(events') \in Nat /\ i \in 1..Len(events') BY <1>2
    <3> QED BY <3>1
  <2> QED BY <2>1, <2>2, <2>3
<1> QED BY <1>3 DEF EventsOK

\* The rows stay; the others' calls too.
LEMMA SessionsStay ==
  ASSUME TypeInv, BoughtInv, sub' = sub,
         \A k \in Checkouts : session[k].state = "none" => session'[k].state = "none"
  PROVE  \A g \in Handlers : handler[g].pc = "openSession" =>
            session'[handler[g].k].state = "none" /\ sub'[handler[g].k].status # "none"
<1> TAKE g \in Handlers
<1>1. CallOK(handler[g], sub, session, sold, paid) BY DEF BoughtInv, CallsOK
<1>2. handler[g].pc = "openSession" => handler[g].k \in Checkouts
  BY DEF TypeInv, CallKnown, AtRow
<1> QED BY <1>1, <1>2 DEF CallOK

LEMMA ChangeBought ==
  ASSUME TypeInv, BoughtInv, NEW h \in Handlers, ChangeAtStripe(h) PROVE BoughtInv'
<1>1. UNCHANGED <<sub, user, tier, paid>> BY DEF ChangeAtStripe, local
<1>2. CASE Done(h) /\ UNCHANGED <<external, sold>>
  BY <1>1, <1>2, CallStops DEF external
<1>3. ASSUME NEW k \in Checkouts, NEW p \in Plans, NEW t \in StripeType, NEW n \in HandlerType,
             k = handler[h].k,
             t = stripe'[k], t.status = stripe[k].status, t.meta = p,
             \A j \in Checkouts \ {k} : stripe'[j] = stripe[j],
             sold' = [sold EXCEPT ![k] = @ \cup {p}], session' = session,
             Emit(Sent("updated"), k, t), Set(h, n),
             n.pc = "apply", n.k = k, n.snap = t,
             n.over = handler[h].over
      PROVE  BoughtInv'
  <2>1. k \in paid /\ n.over = "none"
    BY <1>3 DEF BoughtInv, CallsOK, CallOK, ChangeAtStripe
  <2>2. CheckoutOK(k, sub, session, stripe, sold, paid) BY DEF BoughtInv, CheckoutsOK
  <2>3. session[k].state = "complete" BY <2>1, <2>2 DEF CheckoutOK
  <2>4. /\ p \in sold'[k] /\ sold[k] \subseteq sold'[k]
        /\ \A j \in Checkouts \ {k} : sold'[j] = sold[j]
    <3>1. sold \in [Checkouts -> SUBSET Plans] BY DEF TypeInv, TypeOK
    <3>2. sold' = [sold EXCEPT ![k] = sold[k] \cup {p}] BY <1>3
    <3>3. sold'[k] = sold[k] \cup {p} BY <3>1, <3>2
    <3>4. \A j \in Checkouts \ {k} : sold'[j] = sold[j] BY <3>1, <3>2
    <3> QED BY <3>3, <3>4
  <2>5. Grows
    <3>1. \A j \in Checkouts : sold[j] \subseteq sold'[j] BY <2>4
    <3> QED BY <1>1, <1>3, <3>1 DEF Grows
  <2>6. SnapOK(t, k, session', sold', paid')
    BY <1>1, <1>3, <2>1, <2>3, <2>4 DEF SnapOK
  <2>7. CheckoutsOK'
    <3>1. ASSUME NEW j \in Checkouts
          PROVE  CheckoutOK(j, sub', session', stripe', sold', paid')
      <4>1. CheckoutOK(j, sub, session, stripe, sold, paid) BY DEF BoughtInv, CheckoutsOK
      <4>2. CASE j = k
        BY <1>1, <1>3, <2>1, <2>3, <2>4, <2>6, <4>1, <4>2 DEF CheckoutOK
      <4>3. CASE j # k BY <1>1, <1>3, <2>4, <4>1, <4>3 DEF CheckoutOK, SnapOK
      <4> QED BY <4>2, <4>3
    <3> QED BY <3>1 DEF CheckoutsOK
  <2>8. EventsOK' BY <1>3, <2>5, <2>6, UpdatedIsSent, NewEvents
  <2>9. CallOK(n, sub', session', sold', paid') BY <1>3, <2>1, <2>6 DEF CallOK
  <2>10. CallsOK' /\ OneOpens' BY <1>1, <1>3, <2>5, <2>9, SessionsStay, OthersStay
  <2>11. PlansOK' BY <1>1, <2>5, PlansStay
  <2> QED BY <2>7, <2>8, <2>10, <2>11 DEF BoughtInv
<1> QED BY <1>2, <1>3, ChangedAs

LEMMA CancelBought ==
  ASSUME TypeInv, BoughtInv, NEW h \in Handlers, CancelAtStripe(h) PROVE BoughtInv'
<1>1. UNCHANGED <<sub, user, tier, paid, sold>> BY DEF CancelAtStripe, local, history
<1>2. CASE Done(h) /\ UNCHANGED external BY <1>1, <1>2, CallStops DEF external
<1>3. ASSUME NEW k \in Checkouts, NEW t \in StripeType, k = handler[h].k,
             t = stripe'[k], t.status = stripe[k].status, t.meta = stripe[k].meta,
             \A j \in Checkouts \ {k} : stripe'[j] = stripe[j],
             session' = session, Emit(Sent("updated"), k, t), Goto(h, "flag")
      PROVE  BoughtInv'
  <2> DEFINE n == [handler[h] EXCEPT !.pc = "flag"]
  <2>1. k \in paid BY <1>3 DEF BoughtInv, CallsOK, CallOK, CancelAtStripe
  <2>2. CheckoutOK(k, sub, session, stripe, sold, paid) BY DEF BoughtInv, CheckoutsOK
  <2>3. Grows BY <1>1, <1>3, SameGrows
  <2>4. SnapOK(t, k, session', sold', paid')
    BY <1>1, <1>3, <2>1, <2>2 DEF CheckoutOK, SnapOK
  <2>5. CheckoutsOK'
    <3>1. ASSUME NEW j \in Checkouts
          PROVE  CheckoutOK(j, sub', session', stripe', sold', paid')
      <4>1. CheckoutOK(j, sub, session, stripe, sold, paid) BY DEF BoughtInv, CheckoutsOK
      <4>2. stripe'[j].status = stripe[j].status /\ stripe'[j].meta = stripe[j].meta
        BY <1>3
      <4> QED BY <1>1, <1>3, <4>1, <4>2 DEF CheckoutOK, SnapOK
    <3> QED BY <3>1 DEF CheckoutsOK
  <2>6. EventsOK' BY <1>3, <2>3, <2>4, UpdatedIsSent, NewEvents
  <2>7. handler[h] \in HandlerType /\ "flag" \in Pcs BY DEF TypeInv, TypeOK, Pcs
  <2>8. n \in HandlerType /\ n.pc = "flag" BY <2>7, NextStep
  <2>9. Set(h, n) BY <1>3 DEF Goto
  <2> HIDE DEF n
  <2>10. CallOK(n, sub', session', sold', paid') BY <2>8 DEF CallOK
  <2>11. CallsOK' /\ OneOpens'
    BY <1>1, <1>3, <2>3, <2>8, <2>9, <2>10, SessionsStay, OthersStay
  <2>12. PlansOK' BY <1>1, <2>3, PlansStay
  <2> QED BY <2>5, <2>6, <2>11, <2>12 DEF BoughtInv
<1> QED BY <1>2, <1>3, CancelledAs

\* Nobody's call moves while something happens at Stripe.
LEMMA StripeBought ==
  ASSUME TypeInv, BoughtInv, NEW k \in Checkouts, NEW t, NEW types, Happens(k, t, types),
         Continues(k, t) \/ Starts(k, t)
  PROVE  BoughtInv'
<1>1. /\ t \in StripeType /\ types \in Seq(AllEventTypes) /\ Emit(types, k, t)
      /\ stripe'[k] = t /\ t.status # "none"
      /\ \A j \in Checkouts \ {k} : stripe'[j] = stripe[j]
      /\ paid \subseteq paid' /\ paid' \subseteq paid \cup {k}
      /\ UNCHANGED <<sub, user, tier, handler>>
  BY DEF Happens, local
<1>2. CheckoutOK(k, sub, session, stripe, sold, paid) BY DEF BoughtInv, CheckoutsOK
<1>3. /\ session \in [Checkouts -> SessionType] /\ sold \in [Checkouts -> SUBSET Plans]
  BY DEF TypeInv, TypeOK, SessionType
<1>4. /\ session'[k].state = "complete" /\ t.meta \in sold'[k] /\ session'[k].plan \in sold'[k]
      /\ session[k].state # "none"
      /\ session[k].state = "complete" => session'[k] = session[k] /\ sold[k] \subseteq sold'[k]
      /\ \A j \in Checkouts \ {k} : session'[j] = session[j] /\ sold'[j] = sold[j]
  <2>1. CASE Continues(k, t)
    BY <2>1, <1>2 DEF Continues, CheckoutOK, SnapOK
  <2>2. CASE Starts(k, t)
    <3>1. /\ session'[k].state = "complete" /\ session'[k].plan = session[k].plan
          /\ \A j \in Checkouts \ {k} : session'[j] = session[j]
      BY <2>2, <1>3 DEF Starts, SessionType
    <3>2. sold'[k] = {session[k].plan} /\ \A j \in Checkouts \ {k} : sold'[j] = sold[j]
      BY <2>2, <1>3 DEF Starts
    <3> QED BY <2>2, <3>1, <3>2 DEF Starts
  <2> QED BY <2>1, <2>2
<1>5. stripe[k].status = "active" => k \in paid
  BY <1>2 DEF CheckoutOK, SnapOK
<1>6. /\ t.status = "active" => k \in paid'
      /\ (\E i \in 1..Len(types) : types[i] = "invoice.paid") => k \in paid'
  BY <1>1, <1>5 DEF Happens
<1>7. Grows BY <1>1, <1>4 DEF Grows
<1>8. SnapOK(t, k, session', sold', paid') BY <1>4, <1>6 DEF SnapOK
<1>9. CheckoutsOK'
  <2>1. ASSUME NEW j \in Checkouts
        PROVE  CheckoutOK(j, sub', session', stripe', sold', paid')
    <3>1. CheckoutOK(j, sub, session, stripe, sold, paid) BY DEF BoughtInv, CheckoutsOK
    <3>2. CASE j = k
      <4>1. sub[k].status = "ACTIVE" => session[k].state = "complete" BY <1>2 DEF CheckoutOK
      <4> QED BY <1>1, <1>2, <1>4, <1>8, <3>2, <4>1 DEF CheckoutOK
    <3>3. CASE j # k BY <1>1, <1>4, <3>1, <3>3 DEF CheckoutOK, SnapOK
    <3> QED BY <3>2, <3>3
  <2> QED BY <2>1 DEF CheckoutsOK
<1>10. EventsOK' BY <1>1, <1>6, <1>7, <1>8, NewEvents
<1>11. \A j \in Checkouts : session[j].state = "none" => session'[j].state = "none"
  BY <1>4
<1>12. CallsOK' /\ OneOpens'
  <2>1. ASSUME NEW g \in Handlers PROVE CallOK(handler[g], sub', session', sold', paid')
    BY <1>1, <1>7, <1>11, SessionsStay, CallStays
  <2>2. CallsOK' BY <1>1, <2>1 DEF CallsOK
  <2>3. OneOpens' BY <1>1 DEF BoughtInv, OneOpens
  <2> QED BY <2>2, <2>3
<1>13. PlansOK' BY <1>1, <1>7, PlansStay
<1> QED BY <1>9, <1>10, <1>12, <1>13 DEF BoughtInv

LEMMA BoughtGoesOn == TypeInv /\ BoughtInv /\ [Next]_vars => BoughtInv'
<1> SUFFICES ASSUME TypeInv, BoughtInv, [Next]_vars PROVE BoughtInv'
  OBVIOUS
<1>1. ASSUME NEW h \in Handlers, Serve(h) \/ Request(h) \/ \E e \in EventIds : Deliver(h, e)
      PROVE  BoughtInv'
  BY <1>1, DeliveryBought, ProcessBought, ApplyBought, SyncBought, CreateBought, OpenBought,
     ChangeBought, CancelBought, FlagBought, RequestBought DEF Serve
<1>2. CASE StripeStep
  <2>1. ASSUME NEW k \in Checkouts, CompleteCheckout(k) PROVE BoughtInv'
    BY <2>1, Completes, StripeBought
  <2>2. ASSUME NEW k \in Checkouts,
               PayInvoice(k) \/ PeriodEnds(k) \/ \E p \in Plans : PortalChange(k, p)
        PROVE  BoughtInv'
    BY <2>2, Changes, StripeBought
  <2>3. CASE Tick
    <3>1. UNCHANGED <<sub, user, tier, session, stripe, events, sold, paid, handler>>
      BY <2>3 DEF Tick, local, external, history
    <3> QED BY <3>1, CallsMove
  <2> QED BY <1>2, <2>1, <2>2, <2>3 DEF StripeStep
<1>3. CASE (\E h \in Handlers : CallFails(h)) \/ Restart BY <1>3, FailureBought
<1>4. CASE UNCHANGED vars
  <2>1. UNCHANGED <<sub, user, tier, session, stripe, events, sold, paid, handler>>
    BY <1>4 DEF vars, local, external, history
  <2> QED BY <2>1, CallsMove
<1> QED BY <1>1, <1>2, <1>3, <1>4 DEF Next, BoundedStripeStep

\* No interleaving of checkouts, plan changes, portal changes, the success page and late or
\* repeated events lets a company use a plan, or keeps a tier, that it has not bought, for
\* any plans, checkouts, handlers, events and failures.
THEOREM PlansAreBought == Spec => []PlanWasBought
<1>1. Spec => [](TypeInv /\ BoughtInv)
  BY TypesBegin, TypesGoOn, BoughtBegins, BoughtGoesOn, PTL DEF Spec
<1> QED BY <1>1, BoughtIsBought, PTL

-----------------------------------------------------------------------------
(* What is settled mirrors Stripe *)

\* The setting: requests and deliveries are served one after the other, Stripe sends every
\* kind of event, in order, with the end of the period, and plans are changed here only.
Orderly ==
    /\ \A g, h \in Handlers : g = h
    /\ InOrder /\ PeriodEndKnown
    /\ "portal" \notin StripeMoves /\ "status" \notin Ops
    /\ AllEventTypes \subseteq EventTypes

OneCheckout == \A j, k \in Checkouts : j = k

\* Event i is the last one of subscription k.
IsLast(k, i, evs) ==
    /\ i \in 1..Len(evs) /\ evs[i].k = k
    /\ \A j \in 1..Len(evs) : j > i => evs[j].k # k

\* An event of this type, handled while the subscription is s, leaves the status of s.
Fits(type, s) ==
    \/ type \in {"created", "updated", "deleted"}
    \/ type = "invoice.paid" /\ s.status = "active"
    \/ type = "invoice.failed" /\ s.status = "past_due"

Mirrors(row, s) ==
    /\ row.status = MapStatus(s.status)
    /\ row.plan = s.meta /\ row.ends = s.ends /\ row.until = s.until

PlanOf(s) == IF s.status = "active" THEN s.meta ELSE FreePlan

\* The last event of a subscription says what it is now.
StripeTold ==
    \A k \in Checkouts :
        /\ stripe[k].price = stripe[k].meta
        /\ k \in paid => stripe[k].status # "none"
        /\ stripe[k].status # "none" =>
             \E i \in EventIds : /\ IsLast(k, i, events)
                                 /\ events[i].snap = stripe[k]
                                 /\ Fits(events[i].type, stripe[k])

\* Events are stored in order, each by a delivery that is still working on it or has
\* applied it.
StoredInOrder ==
    \A i \in EventIds :
        /\ i > Len(events) => stored[i] = "none"
        /\ i \in acked => stored[i] # "none"
        /\ stored[i] # "failed"
        /\ stored[i] = "stored" => \E h \in Handlers : Works(handler[h]) /\ handler[h].e = i
        /\ stored[i] = "processed" => applied[i] # 0
        /\ stored[i] # "none" => \A d \in EventIds : d < i => stored[d] = "processed"

\* Once its last event is applied, a row mirrors its subscription; once it is processed,
\* the plan of the user and the tier follow.
RowsMirror ==
    \A k \in Checkouts, i \in EventIds :
        stripe[k].status # "none" /\ IsLast(k, i, events) /\ applied[i] # 0 =>
            Mirrors(sub[k], stripe[k])

TierFollows ==
    OneCheckout =>
        \A k \in Checkouts, i \in EventIds :
            stripe[k].status # "none" /\ IsLast(k, i, events) /\ stored[i] = "processed" =>
                user = PlanOf(stripe[k]) /\ tier = PlanOf(stripe[k])

\* A delivery of the last event is about to make the row, the user and the tier so; a
\* request that changes any of them has left an event behind that will.
LastSays(r, evs, strp, u, t) ==
    r.op = "webhook" /\ IsLast(r.k, r.e, evs) /\ strp[r.k].status # "none" =>
        /\ r.pc = "apply" => /\ r.snap = strp[r.k] /\ ~r.withSession
                             /\ SnapshotStatus(r) = MapStatus(r.snap.status)
        /\ r.pc \in {"syncUser", "syncTier"} => r.plan = PlanOf(strp[r.k])
        /\ r.pc \in {"syncTier", "mark"} => u = PlanOf(strp[r.k])
        /\ r.pc = "mark" => t = PlanOf(strp[r.k])

WillBeTold(r, evs, st) ==
    r.op # "webhook" /\ r.pc \in {"apply", "syncUser", "syncTier", "flag"} =>
        \E i \in EventIds : IsLast(r.k, i, evs) /\ st[i] = "none"

CallSettles(r, evs, st, strp, u, t) ==
    /\ LastSays(r, evs, strp, u, t)
    /\ WillBeTold(r, evs, st)
    /\ r.op = "webhook" => \A d \in EventIds : d < r.e => st[d] = "processed"
    /\ r.pc # "markFailed"

CallsSettle == \A h \in Handlers : CallSettles(handler[h], events, stored, stripe, user, tier)

SettleInv == StripeTold /\ StoredInOrder /\ RowsMirror /\ TierFollows /\ CallsSettle

LEMMA LastIsOne ==
  ASSUME NEW k, NEW i, NEW j, NEW evs \in Seq(EventType), IsLast(k, i, evs), IsLast(k, j, evs)
  PROVE  i = j
<1>1. Len(evs) \in Nat OBVIOUS
<1>2. i \in Nat /\ j \in Nat /\ ~(i > j) /\ ~(j > i) BY <1>1 DEF IsLast
<1> QED BY <1>2

\* The only call there is goes on.
LEMMA CallsKeep ==
  ASSUME Orderly, TypeInv, NEW h \in Handlers, NEW n \in HandlerType, Set(h, n),
         CallSettles(n, events', stored', stripe', user', tier')
  PROVE  CallsSettle'
<1>1. handler \in [Handlers -> HandlerType] BY DEF TypeInv, TypeOK
<1>2. handler'[h] = n BY <1>1, HandlerMoves
<1>3. \A g \in Handlers : g = h BY DEF Orderly
<1> QED BY <1>2, <1>3 DEF CallsSettle

LEMMA StoredKeeps ==
  ASSUME StoredInOrder, events \in Seq(EventType), events' \in Seq(EventType),
         stored' = stored, Len(events) <= Len(events'),
         \A i \in EventIds : /\ applied[i] # 0 => applied'[i] # 0
                             /\ i \in acked' => i \in acked \/ stored[i] # "none",
         \A h \in Handlers : Works(handler[h]) => Works(handler'[h]) /\ handler'[h].e = handler[h].e
  PROVE  StoredInOrder'
<1>1. Len(events) \in Nat /\ Len(events') \in Nat /\ EventIds \subseteq Int BY DEF EventIds
<1>2. ASSUME NEW i \in EventIds, i > Len(events') PROVE stored'[i] = "none"
  <2>1. i > Len(events) BY <1>1, <1>2
  <2> QED BY <2>1 DEF StoredInOrder
<1>3. ASSUME NEW i \in EventIds, stored[i] = "stored"
      PROVE  \E h \in Handlers : Works(handler'[h]) /\ handler'[h].e = i
  BY <1>3 DEF StoredInOrder
<1> QED BY <1>2, <1>3 DEF StoredInOrder

LEMMA RowsKeep ==
  ASSUME RowsMirror, UNCHANGED <<stripe, events, applied>>,
         \A k \in Checkouts : \/ sub'[k] = sub[k]
                              \/ \A i \in EventIds : stripe[k].status # "none" /\
                                   IsLast(k, i, events) => applied[i] = 0
  PROVE  RowsMirror'
BY DEF RowsMirror

LEMMA TierKeeps ==
  ASSUME TierFollows, UNCHANGED <<stripe, events, user, tier>>,
         \A i \in EventIds : stored'[i] = "processed" => stored[i] = "processed"
  PROVE  TierFollows'
BY DEF TierFollows

LEMMA ToldKeeps ==
  ASSUME StripeTold, UNCHANGED <<stripe, events, paid>> PROVE StripeTold'
BY DEF StripeTold

\* A step that only changes where the call stands.
LEMMA CallSettlesOn ==
  ASSUME Orderly, TypeInv, SettleInv, NEW h \in Handlers, NEW n \in HandlerType, Set(h, n),
         UNCHANGED <<sub, user, tier, stored, applied, stripe, events, paid>>,
         \A i \in EventIds : i \in acked' => i \in acked \/ stored[i] # "none",
         Works(handler[h]) => Works(n) /\ n.e = handler[h].e,
         CallSettles(n, events, stored, stripe, user, tier)
  PROVE  SettleInv'
<1>1. handler \in [Handlers -> HandlerType] /\ events \in Seq(EventType)
  BY DEF TypeInv, TypeOK
<1>2. handler'[h] = n /\ \A g \in Handlers \ {h} : handler'[g] = handler[g]
  BY <1>1, HandlerMoves
<1>3. StoredInOrder'
  <2>1. \A g \in Handlers : Works(handler[g]) => Works(handler'[g]) /\ handler'[g].e = handler[g].e
    BY <1>2
  <2>2. Len(events) <= Len(events') BY <1>1
  <2> QED BY <1>1, <2>1, <2>2, StoredKeeps DEF SettleInv
<1>4. CallsSettle' BY CallsKeep
<1>5. StripeTold' /\ RowsMirror' /\ TierFollows'
  BY ToldKeeps, RowsKeep, TierKeeps DEF SettleInv
<1> QED BY <1>3, <1>4, <1>5 DEF SettleInv

LEMMA IdleSettles ==
  \A evs, st, strp, u, t : CallSettles(IdleHandler, evs, st, strp, u, t)
BY DEF CallSettles, LastSays, WillBeTold, IdleHandler

LEMMA CallEndsSettled ==
  ASSUME Orderly, TypeInv, SettleInv, NEW h \in Handlers, Done(h), ~Works(handler[h]),
         UNCHANGED <<sub, user, tier, stored, applied, stripe, events, paid>>,
         \A i \in EventIds : i \in acked' => i \in acked \/ stored[i] # "none"
  PROVE  SettleInv'
<1>1. IdleHandler \in HandlerType BY IdleTyped
<1>2. CallSettles(IdleHandler, events, stored, stripe, user, tier) BY IdleSettles
<1> QED BY <1>1, <1>2, CallSettlesOn DEF Done

LEMMA DeliverSettles ==
  ASSUME Orderly, TypeInv, SettleInv, NEW h \in Handlers, NEW e \in EventIds, Deliver(h, e)
  PROVE  SettleInv'
<1> DEFINE n == [IdleHandler EXCEPT !.pc = "find", !.op = "webhook", !.k = events[e].k, !.e = e]
<1>1. /\ Set(h, n) /\ e \in 1..Len(events) /\ handler[h].pc = "idle"
      /\ UNCHANGED <<local, external, acked, now, faults, history>>
  BY DEF Deliver
<1>2. events[e].k \in Checkouts BY <1>1, EventIsKnown
<1>3. n \in HandlerType /\ n.pc = "find" /\ n.op = "webhook" /\ n.k = events[e].k /\ n.e = e
  BY <1>2, DeliveryBegins DEF IdleHandler
<1> HIDE DEF n
<1>4. \A d \in EventIds : d < e => stored[d] = "processed"
  <2>1. \A d \in 1..(e - 1) : stored[d] \in {"processed", "failed"} BY DEF Deliver, Orderly
  <2>2. \A d \in EventIds : d < e => d \in 1..(e - 1) BY DEF EventIds
  <2> QED BY <2>1, <2>2 DEF SettleInv, StoredInOrder
<1>5. CallSettles(n, events, stored, stripe, user, tier)
  BY <1>3, <1>4 DEF CallSettles, LastSays, WillBeTold
<1>6. ~Works(handler[h]) BY <1>1 DEF Works
<1> QED BY <1>1, <1>3, <1>5, <1>6, CallSettlesOn DEF local, external, history

LEMMA FindSettles ==
  ASSUME Orderly, TypeInv, SettleInv, NEW h \in Handlers, FindEvent(h) PROVE SettleInv'
<1> DEFINE r == handler[h]
           n == [r EXCEPT !.pc = "store"]
<1>1. /\ r \in HandlerType /\ r.op = "webhook" /\ r.pc = "find" /\ ~Works(r)
      /\ CallSettles(r, events, stored, stripe, user, tier)
  BY DEF TypeInv, TypeOK, CallKnown, FindEvent, Works, SettleInv, CallsSettle
<1>2. UNCHANGED <<sub, user, tier, stored, applied, stripe, events, paid>>
  BY DEF FindEvent, local, external, history
<1>3. CASE Done(h) /\ stored[r.e] # "none" /\ acked' = acked \cup {r.e}
  BY <1>1, <1>2, <1>3, CallEndsSettled
<1>4. CASE Goto(h, "store") /\ acked' = acked
  <2>1. n \in HandlerType /\ n.pc = "store" /\ n.op = r.op /\ n.e = r.e
    <3>1. "store" \in Pcs BY DEF Pcs
    <3> QED BY <1>1, <3>1, NextStep
  <2>2. Set(h, n) BY <1>4 DEF Goto
  <2> HIDE DEF n
  <2>3. CallSettles(n, events, stored, stripe, user, tier)
    BY <1>1, <2>1 DEF CallSettles, LastSays, WillBeTold
  <2> QED BY <1>1, <1>2, <1>4, <2>1, <2>2, <2>3, CallSettlesOn
<1> QED BY <1>3, <1>4 DEF FindEvent

LEMMA StoreSettles ==
  ASSUME Orderly, TypeInv, SettleInv, NEW h \in Handlers, StoreEvent(h) PROVE SettleInv'
<1> DEFINE r == handler[h]
           n == [r EXCEPT !.pc = "process"]
<1>1. /\ r \in HandlerType /\ r.op = "webhook" /\ r.pc = "store" /\ ~Works(r)
      /\ r.e \in 1..Len(events)
      /\ CallSettles(r, events, stored, stripe, user, tier)
  BY DEF TypeInv, TypeOK, CallKnown, StoreEvent, Works, SettleInv, CallsSettle
<1>2. UNCHANGED <<sub, user, tier, applied, stripe, events, paid, acked>>
  BY DEF StoreEvent, external, history
<1>3. CASE Done(h) /\ UNCHANGED stored
  BY <1>1, <1>2, <1>3, CallEndsSettled
<1>4. CASE /\ stored[r.e] = "none" /\ Goto(h, "process")
           /\ stored' = [stored EXCEPT ![r.e] = "stored"]
  <2>1. n \in HandlerType /\ n.pc = "process" /\ n.op = r.op /\ n.e = r.e
    <3>1. "process" \in Pcs BY DEF Pcs
    <3> QED BY <1>1, <3>1, NextStep
  <2>2. Set(h, n) BY <1>4 DEF Goto
  <2> HIDE DEF n
  <2>3. /\ handler \in [Handlers -> HandlerType] /\ r.e \in EventIds
        /\ stored \in [EventIds -> {"none", "stored", "processed", "failed"}]
    BY <1>1, WorkIsOnEvent DEF TypeInv, TypeOK
  <2>4. handler'[h] = n /\ \A g \in Handlers \ {h} : handler'[g] = handler[g]
    BY <2>1, <2>2, <2>3, HandlerMoves
  <2>5. stored'[r.e] = "stored" /\ \A i \in EventIds \ {r.e} : stored'[i] = stored[i]
    BY <1>4, <2>3
  <2>6. \A d \in EventIds : d < r.e => stored[d] = "processed" /\ d # r.e
    BY <1>1, <2>3 DEF CallSettles, EventIds
  <2>7. StoredInOrder'
    <3>1. StoredInOrder BY DEF SettleInv
    <3>2. ASSUME NEW i \in EventIds \ {r.e}
          PROVE  /\ stored[i] = "stored" => \E g \in Handlers : Works(handler'[g]) /\ handler'[g].e = i
                 /\ stored[i] # "none" => \A d \in EventIds : d < i => stored'[d] = "processed"
      <4>1. stored[i] # "none" => ~(r.e < i) BY <1>4, <2>3, <3>1 DEF StoredInOrder
      <4> QED BY <1>1, <2>4, <2>5, <3>1, <4>1 DEF StoredInOrder
    <3>3. Works(n) BY <1>1, <2>1 DEF Works
    <3>4. ~(r.e > Len(events)) BY <1>1
    <3>5. ASSUME NEW i \in EventIds
          PROVE  /\ i > Len(events') => stored'[i] = "none"
                 /\ i \in acked' => stored'[i] # "none"
                 /\ stored'[i] # "failed"
                 /\ stored'[i] = "stored" => \E g \in Handlers : Works(handler'[g]) /\ handler'[g].e = i
                 /\ stored'[i] = "processed" => applied'[i] # 0
                 /\ stored'[i] # "none" => \A d \in EventIds : d < i => stored'[d] = "processed"
      <4>1. CASE i = r.e
        BY <1>2, <2>1, <2>4, <2>5, <2>6, <3>3, <3>4, <4>1
      <4>2. CASE i # r.e
        BY <1>2, <2>5, <3>1, <3>2, <4>2 DEF StoredInOrder
      <4> QED BY <4>1, <4>2
    <3> QED BY <3>5 DEF StoredInOrder
  <2>8. CallSettles(n, events, stored', stripe, user, tier)
    BY <1>1, <2>1, <2>3, <2>5, <2>6 DEF CallSettles, LastSays, WillBeTold
  <2>9. CallsSettle' BY <1>2, <2>1, <2>2, <2>8, CallsKeep
  <2>10. \A i \in EventIds : stored'[i] = "processed" => stored[i] = "processed"
    BY <2>5
  <2>11. StripeTold' /\ RowsMirror' /\ TierFollows'
    BY <1>2, <2>10, ToldKeeps, RowsKeep, TierKeeps DEF SettleInv
  <2> QED BY <2>7, <2>9, <2>11 DEF SettleInv
<1> QED BY <1>3, <1>4 DEF StoreEvent

LEMMA ProcessSettles ==
  ASSUME Orderly, TypeInv, SettleInv, NEW h \in Handlers, ProcessEvent(h) PROVE SettleInv'
<1> DEFINE r == handler[h]
           ev == events[r.e]
           snap == IF ev.type \in {"created", "updated", "deleted"} THEN ev.snap ELSE stripe[ev.k]
           over == CASE ev.type = "invoice.paid" -> "ACTIVE"
                     [] ev.type = "invoice.failed" -> "PAST_DUE"
                     [] OTHER -> "none"
           with == ev.type = "checkout.completed"
           n == [r EXCEPT !.pc = "apply", !.snap = snap, !.over = over, !.withSession = with]
<1>1. /\ r \in HandlerType /\ r.op = "webhook" /\ r.pc = "process"
      /\ r.e \in 1..Len(events) /\ r.k = ev.k
      /\ CallSettles(r, events, stored, stripe, user, tier)
  BY DEF TypeInv, TypeOK, CallKnown, ProcessEvent, SettleInv, CallsSettle
<1>2. ev \in EventType /\ ev.k \in Checkouts /\ stripe[ev.k] \in StripeType /\ r.e \in EventIds
  BY <1>1, EventIsKnown DEF TypeInv, TypeOK
<1>3. snap \in StripeType /\ over \in RowStatus /\ with \in BOOLEAN
  <2>1. over \in RowStatus BY DEF RowStatus
  <2> QED BY <1>2, <2>1 DEF EventType
<1>4. ASSUME IsLast(r.k, r.e, events), stripe[r.k].status # "none"
      PROVE  /\ snap = stripe[r.k] /\ ~with
             /\ over = "none" \/ over = MapStatus(snap.status)
  <2>1. PICK i \in EventIds : /\ IsLast(r.k, i, events) /\ events[i].snap = stripe[r.k]
                              /\ Fits(events[i].type, stripe[r.k])
    BY <1>1, <1>2, <1>4 DEF SettleInv, StripeTold
  <2>2. i = r.e BY <1>4, <2>1, LastIsOne DEF TypeInv, TypeOK
  <2>3. ev.snap = stripe[r.k] /\ Fits(ev.type, stripe[r.k]) BY <2>1, <2>2
  <2>4. MapStatus("active") = "ACTIVE" /\ MapStatus("past_due") = "PAST_DUE" BY DEF MapStatus
  <2>5. snap = stripe[r.k] BY <1>1, <2>3
  <2>6. ~with BY <2>3 DEF Fits
  <2>7. CASE ev.type \in {"created", "updated", "deleted"}
    BY <2>5, <2>6, <2>7
  <2>8. CASE ev.type = "invoice.paid" /\ stripe[r.k].status = "active"
    BY <2>4, <2>5, <2>6, <2>8
  <2>9. CASE ev.type = "invoice.failed" /\ stripe[r.k].status = "past_due"
    BY <2>4, <2>5, <2>6, <2>9
  <2> QED BY <2>3, <2>7, <2>8, <2>9 DEF Fits
<1>5. Set(h, n) /\ UNCHANGED <<sub, user, tier, stored, applied, stripe, events, paid, acked>>
  BY DEF ProcessEvent, local, external, history
<1> HIDE DEF snap, over, with
<1>6. /\ n \in HandlerType
      /\ n.pc = "apply" /\ n.op = r.op /\ n.k = r.k /\ n.e = r.e /\ n.snap = snap /\ n.over = over
      /\ n.withSession = with
  BY <1>1, <1>3 DEF HandlerType, Pcs
<1> HIDE DEF n
<1>7. CallSettles(n, events, stored, stripe, user, tier)
  <2>1. LastSays(n, events, stripe, user, tier)
    <3>1. SnapshotStatus(n) = IF over # "none" THEN over ELSE MapStatus(snap.status)
      BY <1>6 DEF SnapshotStatus
    <3> QED BY <1>1, <1>4, <1>6, <3>1 DEF LastSays
  <2> QED BY <1>1, <1>6, <2>1 DEF CallSettles, WillBeTold
<1>8. Works(n) BY <1>1, <1>6 DEF Works
<1> QED BY <1>5, <1>6, <1>7, <1>8, CallSettlesOn

\* Of a subscription a delivery works on, either its event is the last one, or the last
\* one is not stored yet.
LEMMA LastOrLater ==
  ASSUME TypeInv, InboxInv, SettleInv, NEW h \in Handlers, Works(handler[h]),
         NEW i \in EventIds, IsLast(handler[h].k, i, events)
  PROVE  i = handler[h].e \/ stored[i] = "none"
<1> DEFINE r == handler[h]
<1>1. r.op = "webhook" /\ r.e \in 1..Len(events) /\ r.k = events[r.e].k /\ stored[r.e] = "stored"
  BY DEF TypeInv, CallKnown, Works, InboxInv, InboxCall
<1>2. r.e \in EventIds BY <1>1, WorkIsOnEvent
<1>3. ~(r.e > i) BY <1>1 DEF IsLast
<1>4. r.e < i => stored[i] = "none" BY <1>1, <1>2 DEF SettleInv, StoredInOrder
<1> QED BY <1>2, <1>3, <1>4 DEF EventIds

\* What a call does that has applied its snapshot, and the plan it syncs.
LEMMA AppliedExactly ==
  ASSUME TypeInv, NEW h \in Handlers, Apply(h)
  PROVE  LET r == handler[h]
             row == SnapshotRow(r)
         IN  \E n \in HandlerType :
               /\ Set(h, n)
               /\ \/ /\ n.pc = "syncUser" /\ n.op = r.op /\ n.k = r.k /\ n.e = r.e
                     /\ n.plan = IF row.status = "ACTIVE" THEN row.plan ELSE FreePlan
                     /\ row.status = "ACTIVE" \/ row.status \in BlockingStatus
                  \/ /\ row.status # "ACTIVE" /\ row.status \notin BlockingStatus
                     /\ n.pc = "mark" /\ n.op = "webhook" /\ r.op = "webhook"
                     /\ n.k = r.k /\ n.e = r.e
                  \/ r.op # "webhook" /\ n = IdleHandler
<1> DEFINE r == handler[h]
           row == SnapshotRow(r)
<1>1. r \in HandlerType /\ r.pc = "apply" /\ r.k \in Checkouts
  BY DEF TypeInv, TypeOK, CallKnown, Apply, AtRow
<1>2. row.plan \in Plans /\ FreePlan \in Plans
  BY <1>1, SnapshotIsRow, PlansAssumption DEF TypeInv, RowType
<1>3. "mark" \in Pcs /\ "syncUser" \in Pcs BY DEF Pcs
<1>4. \A p \in Plans :
        LET n == [r EXCEPT !.pc = "syncUser", !.plan = p]
        IN  /\ n \in HandlerType /\ n.pc = "syncUser" /\ n.op = r.op /\ n.k = r.k /\ n.e = r.e
            /\ n.plan = p
  BY <1>1, <1>3 DEF HandlerType
<1>5. LET n == [r EXCEPT !.pc = "mark"]
      IN  /\ n \in HandlerType /\ n.pc = "mark" /\ n.op = r.op /\ n.k = r.k /\ n.e = r.e
  BY <1>1, <1>3 DEF HandlerType
<1>6. IdleHandler \in HandlerType BY IdleTyped
<1>7. \/ row.status = "ACTIVE" /\ Set(h, [r EXCEPT !.pc = "syncUser", !.plan = row.plan])
      \/ /\ row.status # "ACTIVE" /\ row.status \in BlockingStatus
         /\ Set(h, [r EXCEPT !.pc = "syncUser", !.plan = FreePlan])
      \/ /\ row.status # "ACTIVE" /\ row.status \notin BlockingStatus /\ r.op = "webhook"
         /\ Set(h, [r EXCEPT !.pc = "mark"])
      \/ r.op # "webhook" /\ Set(h, IdleHandler)
  BY DEF Apply, AfterApply, Goto, Done, ActiveStatus
<1> HIDE DEF row, IdleHandler
<1>8. CASE row.status = "ACTIVE" /\ Set(h, [r EXCEPT !.pc = "syncUser", !.plan = row.plan])
  <2>1. PICK n : n = [r EXCEPT !.pc = "syncUser", !.plan = row.plan]
    OBVIOUS
  <2>2. /\ n \in HandlerType /\ n.pc = "syncUser" /\ n.op = r.op /\ n.k = r.k /\ n.e = r.e
        /\ n.plan = row.plan
    BY <1>2, <1>4, <2>1
  <2>3. Set(h, n) BY <1>8, <2>1
  <2> QED BY <1>8, <2>2, <2>3 DEF row
<1>9. CASE /\ row.status # "ACTIVE" /\ row.status \in BlockingStatus
           /\ Set(h, [r EXCEPT !.pc = "syncUser", !.plan = FreePlan])
  <2>1. PICK n : n = [r EXCEPT !.pc = "syncUser", !.plan = FreePlan]
    OBVIOUS
  <2>2. /\ n \in HandlerType /\ n.pc = "syncUser" /\ n.op = r.op /\ n.k = r.k /\ n.e = r.e
        /\ n.plan = FreePlan
    BY <1>2, <1>4, <2>1
  <2>3. Set(h, n) BY <1>9, <2>1
  <2> QED BY <1>9, <2>2, <2>3 DEF row
<1>10. CASE /\ row.status # "ACTIVE" /\ row.status \notin BlockingStatus /\ r.op = "webhook"
            /\ Set(h, [r EXCEPT !.pc = "mark"])
  <2>1. PICK n : n = [r EXCEPT !.pc = "mark"]
    OBVIOUS
  <2>2. n \in HandlerType /\ n.pc = "mark" /\ n.op = r.op /\ n.k = r.k /\ n.e = r.e
    BY <1>5, <2>1
  <2>3. Set(h, n) BY <1>10, <2>1
  <2> QED BY <1>10, <2>2, <2>3 DEF row
<1>11. CASE r.op # "webhook" /\ Set(h, IdleHandler)
  BY <1>6, <1>11
<1> QED BY <1>7, <1>8, <1>9, <1>10, <1>11

LEMMA ApplySettles ==
  ASSUME Orderly, TypeInv, InboxInv, SettleInv, NEW h \in Handlers, Apply(h) PROVE SettleInv'
<1> DEFINE r == handler[h]
           row == SnapshotRow(r)
           s == stripe[r.k]
<1>1. /\ r \in HandlerType /\ r.pc = "apply" /\ r.k \in Checkouts
      /\ handler \in [Handlers -> HandlerType] /\ events \in Seq(EventType)
      /\ sub \in [Checkouts -> RowType] /\ applied \in [EventIds -> Nat]
      /\ s.status \in StripeStatus
      /\ CallSettles(r, events, stored, stripe, user, tier)
  BY DEF TypeInv, TypeOK, CallKnown, AtRow, Apply, StripeType, SettleInv, CallsSettle
<1>2. /\ UNCHANGED <<user, tier, stored, stripe, events, paid, acked>>
      /\ sub' = [sub EXCEPT ![r.k] = row]
      /\ applied' = IF r.op = "webhook" THEN [applied EXCEPT ![r.e] = @ + 1] ELSE applied
  BY DEF Apply, external
<1>3. PICK n \in HandlerType :
        /\ Set(h, n)
        /\ \/ /\ n.pc = "syncUser" /\ n.op = r.op /\ n.k = r.k /\ n.e = r.e
              /\ n.plan = IF row.status = "ACTIVE" THEN row.plan ELSE FreePlan
              /\ row.status = "ACTIVE" \/ row.status \in BlockingStatus
           \/ /\ row.status # "ACTIVE" /\ row.status \notin BlockingStatus
              /\ n.pc = "mark" /\ n.op = "webhook" /\ r.op = "webhook"
              /\ n.k = r.k /\ n.e = r.e
           \/ r.op # "webhook" /\ n = IdleHandler
  BY AppliedExactly
<1>4. handler'[h] = n /\ \A g \in Handlers \ {h} : handler'[g] = handler[g]
  BY <1>1, <1>3, HandlerMoves
<1>5. r.op = "webhook" => Works(r) /\ r.e \in EventIds /\ r.k = events[r.e].k
  BY <1>1, WorkIsOnEvent DEF Works, TypeInv, CallKnown
<1>6. ASSUME r.op = "webhook", IsLast(r.k, r.e, events), s.status # "none"
      PROVE  Mirrors(row, s)
  <2>1. r.snap = s /\ ~r.withSession /\ SnapshotStatus(r) = MapStatus(s.status)
    BY <1>1, <1>6 DEF CallSettles, LastSays
  <2> QED BY <2>1 DEF Mirrors, SnapshotRow, SnapshotPlan, Orderly
<1>7. ASSUME NEW i \in EventIds, applied[i] # 0 PROVE applied'[i] # 0
  BY <1>1, <1>2, <1>5, <1>7
<1>8. StoredInOrder'
  <2>1. \A g \in Handlers : Works(handler[g]) => Works(handler'[g]) /\ handler'[g].e = handler[g].e
    BY <1>3, <1>4 DEF Works
  <2> QED BY <1>1, <1>2, <1>7, <2>1, StoredKeeps DEF SettleInv
<1>9. RowsMirror'
  <2> SUFFICES ASSUME NEW k \in Checkouts, NEW i \in EventIds, stripe[k].status # "none",
                      IsLast(k, i, events), applied'[i] # 0
               PROVE  Mirrors(sub'[k], stripe[k])
    BY <1>2 DEF RowsMirror
  <2>1. CASE k # r.k
    <3>1. sub'[k] = sub[k] BY <1>1, <1>2, <2>1
    <3>2. applied'[i] = applied[i]
      <4>1. r.op = "webhook" => i # r.e BY <1>5, <2>1 DEF IsLast
      <4> QED BY <1>1, <1>2, <4>1
    <3> QED BY <3>1, <3>2 DEF SettleInv, RowsMirror
  <2>2. CASE k = r.k
    <3>1. stored[i] # "none"
      BY <1>1, <1>2, <1>5, <2>2, LastOrLater DEF InboxInv, AppliedOnce, InboxCall, Works
    <3>2. r.op = "webhook"
      <4>1. ASSUME NEW j \in EventIds, IsLast(r.k, j, events), stored[j] = "none" PROVE FALSE
        BY <1>1, <2>2, <3>1, <4>1, LastIsOne
      <4> QED BY <1>1, <4>1 DEF CallSettles, WillBeTold
    <3>3. i = r.e BY <1>5, <2>2, <3>1, <3>2, LastOrLater
    <3>4. Mirrors(row, s) BY <1>6, <2>2, <3>2, <3>3
    <3> QED BY <1>1, <1>2, <2>2, <3>4
  <2> QED BY <2>1, <2>2
<1>10. CallSettles(n, events, stored, stripe, user, tier)
  <2>1. LastSays(n, events, stripe, user, tier)
    <3> SUFFICES ASSUME n.op = "webhook", IsLast(n.k, n.e, events), stripe[n.k].status # "none"
                 PROVE  /\ n.pc = "syncUser" => n.plan = PlanOf(stripe[n.k])
                        /\ n.pc \in {"syncUser", "idle"}
      BY <1>3 DEF LastSays, IdleHandler
    <3>1. r.op = "webhook" /\ n.k = r.k /\ n.e = r.e
      BY <1>3 DEF IdleHandler
    <3>2. Mirrors(row, s) BY <1>6, <3>1
    <3>3. /\ row.status = "ACTIVE" <=> s.status = "active"
          /\ row.status = "ACTIVE" \/ row.status \in BlockingStatus
      BY <1>1, <3>1, <3>2 DEF Mirrors, MapStatus, StripeStatus, BlockingStatus
    <3> QED BY <1>3, <3>1, <3>2, <3>3 DEF Mirrors, PlanOf
  <2>2. CASE n = IdleHandler BY <2>2, IdleSettles
  <2>3. CASE n # IdleHandler
    <3>1. n.op = r.op /\ n.k = r.k /\ n.e = r.e /\ n.pc \in {"syncUser", "mark"} BY <1>3, <2>3
    <3> QED BY <1>1, <2>1, <3>1 DEF CallSettles, WillBeTold
  <2> QED BY <2>2, <2>3
<1>11. CallsSettle' BY <1>2, <1>3, <1>10, CallsKeep
<1>12. StripeTold' /\ TierFollows'
  BY <1>2, ToldKeeps, TierKeeps DEF SettleInv
<1> QED BY <1>8, <1>9, <1>11, <1>12 DEF SettleInv

LEMMA SyncSettles ==
  ASSUME Orderly, TypeInv, InboxInv, SettleInv, NEW h \in Handlers, SyncUser(h) \/ SyncTier(h)
  PROVE  SettleInv'
<1> DEFINE r == handler[h]
<1>1. /\ r \in HandlerType /\ r.pc \in {"syncUser", "syncTier"}
      /\ handler \in [Handlers -> HandlerType] /\ events \in Seq(EventType)
      /\ CallSettles(r, events, stored, stripe, user, tier)
  BY DEF TypeInv, TypeOK, SyncUser, SyncTier, SettleInv, CallsSettle
<1>2. UNCHANGED <<sub, stored, applied, stripe, events, paid, acked>>
  BY DEF SyncUser, SyncTier, external, history
<1>3. PICK n \in HandlerType :
        /\ Set(h, n)
        /\ \/ /\ n.op = r.op /\ n.k = r.k /\ n.e = r.e /\ n.plan = r.plan
              /\ \/ r.pc = "syncUser" /\ n.pc = "syncTier"
                 \/ r.pc = "syncTier" /\ n.pc = "mark" /\ r.op = "webhook"
           \/ r.op # "webhook" /\ n = IdleHandler
  <2>1. CASE r.pc = "syncUser" /\ Goto(h, "syncTier")
    <3>0. "syncTier" \in Pcs
      BY DEF Pcs
    <3>1. PICK n : n = [r EXCEPT !.pc = "syncTier"]
      OBVIOUS
    <3>2. /\ n \in HandlerType /\ n.pc = "syncTier" /\ n.op = r.op /\ n.k = r.k /\ n.e = r.e
          /\ n.plan = r.plan
      BY <1>1, <3>0, <3>1, NextStep
    <3> QED BY <2>1, <3>1, <3>2 DEF Goto
  <2>2. CASE r.pc = "syncTier" /\ r.op = "webhook" /\ Goto(h, "mark")
    <3>0. "mark" \in Pcs
      BY DEF Pcs
    <3>1. PICK n : n = [r EXCEPT !.pc = "mark"]
      OBVIOUS
    <3>2. /\ n \in HandlerType /\ n.pc = "mark" /\ n.op = r.op /\ n.k = r.k /\ n.e = r.e
          /\ n.plan = r.plan
      BY <1>1, <3>0, <3>1, NextStep
    <3> QED BY <2>2, <3>1, <3>2 DEF Goto
  <2>3. CASE r.op # "webhook" /\ Done(h)
    BY <2>3, IdleTyped DEF Done
  <2> QED BY <2>1, <2>2, <2>3 DEF SyncUser, SyncTier, AfterApply
<1>4. handler'[h] = n /\ \A g \in Handlers \ {h} : handler'[g] = handler[g]
  BY <1>1, <1>3, HandlerMoves
<1>5. /\ r.pc = "syncUser" => user' = r.plan /\ tier' = tier
      /\ r.pc = "syncTier" => user' = user /\ tier' = r.plan
  BY DEF SyncUser, SyncTier
<1>6. r.op = "webhook" => Works(r) /\ stored[r.e] = "stored"
  BY <1>1 DEF Works, InboxInv, InboxCall
<1>7. TierFollows'
  <2> SUFFICES ASSUME OneCheckout, NEW k \in Checkouts, NEW i \in EventIds,
                      IsLast(k, i, events), stored[i] = "processed"
               PROVE  FALSE
    BY <1>2 DEF TierFollows
  <2>1. CASE r.op = "webhook"
    <3>1. r.k \in Checkouts BY <2>1, EventIsKnown DEF TypeInv, CallKnown
    <3>2. IsLast(r.k, i, events) BY <3>1 DEF OneCheckout
    <3> QED BY <1>6, <2>1, <3>2, LastOrLater
  <2>2. CASE r.op # "webhook"
    <3>1. PICK j \in EventIds : IsLast(r.k, j, events) /\ stored[j] = "none"
      BY <1>1, <2>2 DEF CallSettles, WillBeTold
    <3>2. r.k \in Checkouts BY <3>1, EventIsKnown DEF IsLast
    <3>3. IsLast(k, j, events) BY <3>1, <3>2 DEF OneCheckout
    <3> QED BY <1>1, <3>1, <3>3, LastIsOne
  <2> QED BY <2>1, <2>2
<1>8. CallSettles(n, events, stored, stripe, user', tier')
  <2>1. CASE n = IdleHandler BY <2>1, IdleSettles
  <2>2. CASE n # IdleHandler
    <3>1. LastSays(n, events, stripe, user', tier')
      BY <1>1, <1>3, <1>5, <2>2 DEF CallSettles, LastSays
    <3> QED BY <1>1, <1>3, <2>2, <3>1 DEF CallSettles, WillBeTold
  <2> QED BY <2>1, <2>2
<1>9. CallsSettle' BY <1>2, <1>3, <1>8, CallsKeep
<1>10. StoredInOrder'
  <2>1. \A g \in Handlers : Works(handler[g]) => Works(handler'[g]) /\ handler'[g].e = handler[g].e
    BY <1>3, <1>4 DEF Works
  <2> QED BY <1>1, <1>2, <2>1, StoredKeeps DEF SettleInv
<1>11. StripeTold' /\ RowsMirror'
  BY <1>2, ToldKeeps, RowsKeep DEF SettleInv
<1> QED BY <1>7, <1>9, <1>10, <1>11 DEF SettleInv

LEMMA CloseSettles ==
  ASSUME Orderly, TypeInv, InboxInv, SettleInv, NEW h \in Handlers, MarkEvent(h) \/ MarkFailed(h)
  PROVE  SettleInv'
<1> DEFINE r == handler[h]
<1>1. /\ r \in HandlerType /\ r.pc = "mark" /\ r.op = "webhook"
      /\ handler \in [Handlers -> HandlerType] /\ events \in Seq(EventType)
      /\ CallSettles(r, events, stored, stripe, user, tier)
      /\ stored \in [EventIds -> {"none", "stored", "processed", "failed"}]
  BY DEF TypeInv, TypeOK, CallKnown, MarkEvent, MarkFailed, SettleInv, CallsSettle, CallSettles
<1>2. /\ UNCHANGED <<sub, user, tier, applied, stripe, events, paid>>
      /\ stored' = [stored EXCEPT ![r.e] = "processed"] /\ acked' = acked \cup {r.e} /\ Done(h)
  BY <1>1 DEF MarkEvent, MarkFailed, external, history
<1>3. IdleHandler \in HandlerType /\ ~Works(IdleHandler) BY IdleTyped DEF Works, IdleHandler
<1>4. handler'[h] = IdleHandler /\ \A g \in Handlers \ {h} : handler'[g] = handler[g]
  BY <1>1, <1>2, <1>3, HandlerMoves DEF Done
<1>5. r.e \in EventIds /\ r.e \in 1..Len(events) /\ stored[r.e] = "stored" /\ applied[r.e] # 0
      /\ events[r.e].k = r.k
  BY <1>1, WorkIsOnEvent DEF InboxInv, InboxCall, Works, TypeInv, CallKnown
<1>6. stored'[r.e] = "processed" /\ \A i \in EventIds \ {r.e} : stored'[i] = stored[i]
  BY <1>1, <1>2, <1>5
<1>7. StoredInOrder'
  <2>1. StoredInOrder BY DEF SettleInv
  <2>2. \A d \in EventIds : d < r.e => stored[d] = "processed"
    BY <1>1 DEF CallSettles
  <2>3. ~(r.e > Len(events)) BY <1>5
  <2>4. ASSUME NEW i \in EventIds \ {r.e}
        PROVE  /\ stored[i] # "stored"
               /\ stored[i] # "none" => \A d \in EventIds : d < i => stored'[d] = "processed"
    <3>1. \A g \in Handlers : handler[g].e = r.e BY DEF Orderly
    <3> QED BY <1>6, <2>1, <3>1 DEF StoredInOrder
  <2>5. ASSUME NEW i \in EventIds
        PROVE  /\ i > Len(events') => stored'[i] = "none"
               /\ i \in acked' => stored'[i] # "none"
               /\ stored'[i] # "failed" /\ stored'[i] # "stored"
               /\ stored'[i] = "processed" => applied'[i] # 0
               /\ stored'[i] # "none" => \A d \in EventIds : d < i => stored'[d] = "processed"
    <3>1. CASE i = r.e
      <4>1. \A d \in EventIds : d < i => stored'[d] = "processed" BY <1>6, <2>2, <3>1
      <4> QED BY <1>2, <1>5, <1>6, <2>3, <3>1, <4>1
    <3>2. CASE i # r.e BY <1>2, <1>6, <2>1, <2>4, <3>2 DEF StoredInOrder
    <3> QED BY <3>1, <3>2
  <2> QED BY <2>5 DEF StoredInOrder
<1>8. TierFollows'
  <2> SUFFICES ASSUME OneCheckout, NEW k \in Checkouts, NEW i \in EventIds,
                      stripe[k].status # "none", IsLast(k, i, events), stored'[i] = "processed"
               PROVE  user = PlanOf(stripe[k]) /\ tier = PlanOf(stripe[k])
    BY <1>2 DEF TierFollows
  <2>1. CASE i = r.e
    <3>1. k = r.k BY <1>5, <2>1 DEF IsLast
    <3> QED BY <1>1, <2>1, <3>1 DEF CallSettles, LastSays
  <2>2. CASE i # r.e BY <1>6, <2>2 DEF SettleInv, TierFollows
  <2> QED BY <2>1, <2>2
<1>9. CallsSettle'
  <2>1. CallSettles(IdleHandler, events', stored', stripe', user', tier') BY IdleSettles
  <2> QED BY <1>2, <1>3, <2>1, CallsKeep DEF Done
<1>10. StripeTold' /\ RowsMirror'
  BY <1>2, ToldKeeps, RowsKeep DEF SettleInv
<1> QED BY <1>7, <1>8, <1>9, <1>10 DEF SettleInv

\* A request begins, opens its row or its session, or flags the row it cancelled.
LEMMA BeginSettles ==
  ASSUME Orderly, TypeInv, SettleInv, NEW h \in Handlers, Request(h) PROVE SettleInv'
<1>1. ASSUME NEW op \in Ops, NEW pc \in {"create", "changeAt", "pick"}, NEW k \in 0..NumCheckouts,
             NEW p \in Plans, Begin(h, op, pc, k, p), op # "webhook"
      PROVE  SettleInv'
  <2> DEFINE n == [IdleHandler EXCEPT !.pc = pc, !.op = op, !.k = k, !.plan = p]
  <2>1. pc \in Pcs BY DEF Pcs
  <2>2. n \in HandlerType /\ n.pc = pc /\ n.op = op
    BY <2>1, RequestBegins DEF IdleHandler
  <2>3. /\ Set(h, n) /\ handler[h].pc = "idle"
        /\ UNCHANGED <<sub, user, tier, stored, applied, stripe, events, paid, acked>>
    BY <1>1 DEF Begin, local, external, history
  <2> HIDE DEF n
  <2>4. CallSettles(n, events, stored, stripe, user, tier)
    BY <1>1, <2>2 DEF CallSettles, LastSays, WillBeTold
  <2> QED BY <2>2, <2>3, <2>4, CallSettlesOn DEF Works
<1>2. 0 \in 0..NumCheckouts /\ Checkouts \subseteq 0..NumCheckouts /\ FreePlan \in Plans
  BY BoundsAssumption, PlansAssumption DEF Checkouts
<1>3. ASSUME NEW p \in Plans, BeginCheckout(h, p) PROVE SettleInv'
  BY <1>1, <1>2, <1>3 DEF BeginCheckout, Begin
<1>4. ASSUME NEW p \in Plans, BeginChange(h, p) PROVE SettleInv'
  <2>1. Current \in Checkouts BY <1>4, CurrentIsActive DEF BeginChange
  <2> QED BY <1>1, <1>2, <1>4, <2>1 DEF BeginChange, Begin
<1>5. ASSUME BeginCancel(h) PROVE SettleInv'
  <2>1. PICK k \in Checkouts : Begin(h, "cancel", "pick", k, FreePlan)
    BY <1>5 DEF BeginCancel
  <2> QED BY <1>1, <1>2, <2>1 DEF Begin
<1>6. \A k \in Checkouts : ~ReadSession(h, k) BY DEF ReadSession, Orderly
<1> QED BY <1>3, <1>4, <1>5, <1>6 DEF Request

LEMMA OpenSettles ==
  ASSUME Orderly, TypeInv, SettleInv, NEW h \in Handlers, OpenSession(h) PROVE SettleInv'
<1>1. ~Works(handler[h]) /\ Done(h) BY DEF OpenSession, Works
<1>2. UNCHANGED <<sub, user, tier, stored, applied, stripe, events, paid, acked>>
  BY DEF OpenSession, local, history
<1> QED BY <1>1, <1>2, CallEndsSettled

LEMMA RowSettles ==
  ASSUME Orderly, TypeInv, InboxInv, SettleInv, NEW h \in Handlers, CreateRow(h) \/ FlagRow(h)
  PROVE  SettleInv'
<1> DEFINE r == handler[h]
<1>1. /\ r \in HandlerType /\ r.pc \in {"create", "flag"} /\ r.op # "webhook"
      /\ handler \in [Handlers -> HandlerType] /\ events \in Seq(EventType)
      /\ sub \in [Checkouts -> RowType] /\ stripe \in [Checkouts -> StripeType]
      /\ CallSettles(r, events, stored, stripe, user, tier)
  BY DEF TypeInv, TypeOK, CallKnown, WebhookPcs, CreateRow, FlagRow, SettleInv, CallsSettle
<1>2. UNCHANGED <<user, tier, stored, applied, stripe, events, paid, acked>>
  BY DEF CreateRow, FlagRow, external, history
<1>3. PICK k \in Checkouts, n \in HandlerType :
        /\ Set(h, n) /\ ~Works(n) /\ CallSettles(n, events, stored, stripe, user, tier)
        /\ \A j \in Checkouts \ {k} : sub'[j] = sub[j]
        /\ sub[k].status = "none" \/ \E i \in EventIds : IsLast(k, i, events) /\ stored[i] = "none"
  <2>1. CASE CreateRow(h)
    <3>1. PICK k \in Checkouts :
            /\ sub[k].status = "none"
            /\ sub' = [sub EXCEPT ![k] = [NoRow EXCEPT !.status = "PENDING", !.plan = r.plan]]
            /\ Set(h, [r EXCEPT !.pc = "openSession", !.k = k])
      BY <2>1 DEF CreateRow
    <3>2. PICK n : n = [r EXCEPT !.pc = "openSession", !.k = k]
      OBVIOUS
    <3>3. k \in 0..NumCheckouts BY BoundsAssumption DEF Checkouts
    <3>4. n \in HandlerType /\ n.pc = "openSession" /\ n.op = r.op
      BY <1>1, <3>2, <3>3 DEF HandlerType, Pcs
    <3>5. ~Works(n) /\ CallSettles(n, events, stored, stripe, user, tier)
      BY <1>1, <3>4 DEF Works, CallSettles, LastSays, WillBeTold
    <3>6. \A j \in Checkouts \ {k} : sub'[j] = sub[j] BY <1>1, <3>1
    <3>7. Set(h, n) BY <3>1, <3>2
    <3> QED BY <3>1, <3>4, <3>5, <3>6, <3>7
  <2>2. CASE FlagRow(h)
    <3>1. IdleHandler \in HandlerType /\ ~Works(IdleHandler)
          /\ CallSettles(IdleHandler, events, stored, stripe, user, tier)
      BY IdleTyped, IdleSettles DEF Works, IdleHandler
    <3>2. r.k \in Checkouts BY <2>2 DEF TypeInv, CallKnown, AtRow, FlagRow
    <3>3. sub' = [sub EXCEPT ![r.k].ends = TRUE] /\ r.pc = "flag" /\ Set(h, IdleHandler)
      BY <2>2 DEF FlagRow, Done
    <3>4. \A j \in Checkouts \ {r.k} : sub'[j] = sub[j] BY <1>1, <3>3
    <3>5. \E i \in EventIds : IsLast(r.k, i, events) /\ stored[i] = "none"
      BY <1>1, <3>3 DEF CallSettles, WillBeTold
    <3> QED BY <3>1, <3>2, <3>3, <3>4, <3>5
  <2> QED BY <2>1, <2>2
<1>4. handler'[h] = n /\ \A g \in Handlers \ {h} : handler'[g] = handler[g]
  BY <1>1, <1>3, HandlerMoves
<1>5. RowsMirror'
  <2>1. ASSUME NEW i \in EventIds, stripe[k].status # "none", IsLast(k, i, events), applied[i] # 0
        PROVE  FALSE
    <3>1. CASE sub[k].status = "none"
      <4>1. Mirrors(sub[k], stripe[k]) BY <2>1 DEF SettleInv, RowsMirror
      <4>2. stripe[k].status \in StripeStatus BY <1>1 DEF StripeType
      <4> QED BY <3>1, <4>1, <4>2, MapStatusIs DEF Mirrors
    <3>2. ASSUME NEW j \in EventIds, IsLast(k, j, events), stored[j] = "none" PROVE FALSE
      <4>1. i = j BY <1>1, <2>1, <3>2, LastIsOne
      <4> QED BY <2>1, <3>2, <4>1 DEF InboxInv, AppliedOnce
    <3> QED BY <1>3, <3>1, <3>2
  <2>2. \A j \in Checkouts : \/ sub'[j] = sub[j]
                             \/ \A i \in EventIds : stripe[j].status # "none" /\
                                  IsLast(j, i, events) => applied[i] = 0
    BY <1>3, <2>1
  <2> QED BY <1>2, <2>2, RowsKeep DEF SettleInv
<1>6. StoredInOrder'
  <2>1. \A g \in Handlers : Works(handler[g]) => Works(handler'[g]) /\ handler'[g].e = handler[g].e
    BY <1>1, <1>4 DEF Works
  <2> QED BY <1>1, <1>2, <2>1, StoredKeeps DEF SettleInv
<1>7. CallsSettle' BY <1>2, <1>3, CallsKeep
<1>8. StripeTold' /\ TierFollows'
  BY <1>2, ToldKeeps, TierKeeps DEF SettleInv
<1> QED BY <1>5, <1>6, <1>7, <1>8 DEF SettleInv

-----------------------------------------------------------------------------
(* What happens at Stripe is told by a last event *)

Ends(types, s) == types \in Seq(AllEventTypes) /\ Len(types) >= 1 /\ Fits(types[Len(types)], s)

LEMMA LastMoves ==
  ASSUME TypeInv, NEW k \in Checkouts, NEW t \in StripeType, NEW types, Ends(types, t),
         Emit(types, k, t)
  PROVE  /\ events' \in Seq(EventType) /\ Len(events) < Len(events')
         /\ Len(events') \in EventIds
         /\ IsLast(k, Len(events'), events')
         /\ events'[Len(events')].snap = t /\ Fits(events'[Len(events')].type, t)
         /\ \A i \in 1..Len(events) : ~IsLast(k, i, events')
         /\ \A j, i : j # k => (IsLast(j, i, events') <=> IsLast(j, i, events))
<1> DEFINE more == [i \in 1..Len(types) |-> [type |-> types[i], k |-> k, snap |-> t]]
           m == Len(types)
           n == Len(events)
<1>1. events \in Seq(EventType) /\ n \in Nat /\ m \in Nat /\ m >= 1 /\ MaxEvents \in Nat
  BY BoundsAssumption DEF TypeInv, TypeOK, Ends
<1>2. more \in Seq(EventType) /\ Len(more) = m
  BY <1>1 DEF EventType, Ends
<1>3. events' = events \o more /\ n + m <= MaxEvents BY DEF Emit
<1>4. \A i \in 1..m : more[i].k = k /\ more[i].snap = t /\ more[i].type = types[i]
  OBVIOUS
<1> HIDE DEF more
<1>5. /\ events' \in Seq(EventType) /\ Len(events') = n + m
      /\ \A i \in 1..n : events'[i] = events[i]
      /\ \A i \in 1..(n + m) : i > n => events'[i] = more[i - n]
  <2>1. /\ events \o more \in Seq(EventType) /\ Len(events \o more) = Len(events) + Len(more)
        /\ \A i \in 1..Len(events) : (events \o more)[i] = events[i]
        /\ \A i \in 1..Len(events \o more) :
             i > Len(events) => (events \o more)[i] = more[i - Len(events)]
    BY <1>1, <1>2, Appended, Zenon
  <2> QED BY <2>1, <1>2, <1>3, Zenon
<1>6. /\ n + m \in 1..(n + m) /\ n + m > n /\ (n + m) - n = m /\ m \in 1..m
      /\ n + m \in EventIds
  BY <1>1, <1>3 DEF EventIds
<1>7. /\ events'[n + m].k = k /\ events'[n + m].snap = t /\ events'[n + m].type = types[m]
  BY <1>4, <1>5, <1>6
<1>8. IsLast(k, n + m, events')
  <2>1. \A j \in 1..(n + m) : ~(j > n + m) BY <1>1
  <2> QED BY <1>5, <1>6, <1>7, <2>1 DEF IsLast
<1>9. ASSUME NEW i \in 1..n PROVE ~IsLast(k, i, events')
  <2>1. n + m > i BY <1>1
  <2> QED BY <1>5, <1>6, <1>7, <2>1 DEF IsLast
<1>10. ASSUME NEW j, NEW i, j # k PROVE IsLast(j, i, events') <=> IsLast(j, i, events)
  <2>1. \A l \in 1..(n + m) : l > n => events'[l].k = k
    <3>1. ASSUME NEW l \in 1..(n + m), l > n PROVE events'[l].k = k
      <4>1. l - n \in 1..m BY <1>1, <3>1
      <4> QED BY <1>4, <1>5, <3>1, <4>1
    <3> QED BY <3>1
  <2>2. \A l \in 1..n : l \in 1..(n + m) BY <1>1
  <2>3. \A l \in 1..(n + m) : l \in 1..n \/ l > n BY <1>1
  <2> QED BY <1>5, <1>10, <2>1, <2>2, <2>3 DEF IsLast
<1>11. Fits(types[m], t) BY DEF Ends
<1> QED BY <1>5, <1>6, <1>7, <1>8, <1>9, <1>10, <1>11

\* A subscription becomes t and events tell it; what is known of a call that stays is as it
\* was, and a call that has just changed the subscription has left an event behind.
LEMMA MoveSettles ==
  ASSUME Orderly, TypeInv, InboxInv, SettleInv, NEW k \in Checkouts, NEW t \in StripeType,
         NEW types, Ends(types, t), Emit(types, k, t),
         stripe'[k] = t, \A j \in Checkouts \ {k} : stripe'[j] = stripe[j],
         t.price = t.meta, t.status # "none",
         UNCHANGED <<sub, user, tier, stored, applied, acked>>, paid' \subseteq paid \cup {k},
         \A h \in Handlers :
            \/ handler'[h] = handler[h]
            \/ /\ handler'[h].k = k /\ handler'[h].op # "webhook" /\ ~Works(handler[h])
               /\ handler'[h].pc # "markFailed"
  PROVE  SettleInv'
<1>1. events \in Seq(EventType) /\ Len(events) \in Nat BY DEF TypeInv, TypeOK
<1>2. /\ events' \in Seq(EventType) /\ Len(events) < Len(events')
      /\ Len(events') \in EventIds
      /\ IsLast(k, Len(events'), events')
      /\ events'[Len(events')].snap = t /\ Fits(events'[Len(events')].type, t)
      /\ \A i \in 1..Len(events) : ~IsLast(k, i, events')
      /\ \A j, i : j # k => (IsLast(j, i, events') <=> IsLast(j, i, events))
  BY LastMoves
<1>3. stored[Len(events')] = "none" /\ applied[Len(events')] = 0
  BY <1>2 DEF SettleInv, StoredInOrder, InboxInv, AppliedOnce
<1>4. \A i \in 1..Len(events) : events'[i] = events[i]
  BY EventsSent DEF Ends, TypeInv
<1>5. \A i : IsLast(k, i, events') => i = Len(events')
  BY <1>2, LastIsOne
<1>6. StripeTold'
  <2> SUFFICES ASSUME NEW j \in Checkouts
               PROVE  /\ stripe'[j].price = stripe'[j].meta
                      /\ j \in paid' => stripe'[j].status # "none"
                      /\ stripe'[j].status # "none" =>
                           \E i \in EventIds : /\ IsLast(j, i, events')
                                               /\ events'[i].snap = stripe'[j]
                                               /\ Fits(events'[i].type, stripe'[j])
    BY DEF StripeTold
  <2>1. CASE j = k BY <1>2, <2>1
  <2>2. CASE j # k
    <3>1. stripe'[j] = stripe[j] /\ (j \in paid' => j \in paid) BY <2>2
    <3>2. ASSUME NEW i \in EventIds, IsLast(j, i, events), events[i].snap = stripe[j],
                 Fits(events[i].type, stripe[j])
          PROVE  /\ IsLast(j, i, events') /\ events'[i].snap = stripe'[j]
                 /\ Fits(events'[i].type, stripe'[j])
      <4>1. i \in 1..Len(events) BY <3>2 DEF IsLast
      <4> QED BY <1>2, <1>4, <2>2, <3>1, <3>2, <4>1
    <3> QED BY <3>1, <3>2 DEF SettleInv, StripeTold
  <2> QED BY <2>1, <2>2
<1>7. StoredInOrder'
  <2>1. \A h \in Handlers : Works(handler[h]) => Works(handler'[h]) /\ handler'[h].e = handler[h].e
    OBVIOUS
  <2>2. Len(events) <= Len(events') BY <1>1, <1>2
  <2> QED BY <1>1, <1>2, <2>1, <2>2, StoredKeeps DEF SettleInv
<1>8. RowsMirror'
  <2> SUFFICES ASSUME NEW j \in Checkouts, NEW i \in EventIds, stripe'[j].status # "none",
                      IsLast(j, i, events'), applied[i] # 0
               PROVE  Mirrors(sub[j], stripe'[j])
    BY DEF RowsMirror
  <2>1. j # k BY <1>3, <1>5
  <2> QED BY <1>2, <2>1 DEF SettleInv, RowsMirror
<1>9. TierFollows'
  <2> SUFFICES ASSUME OneCheckout, NEW j \in Checkouts, NEW i \in EventIds,
                      stripe'[j].status # "none", IsLast(j, i, events'), stored[i] = "processed"
               PROVE  user = PlanOf(stripe'[j]) /\ tier = PlanOf(stripe'[j])
    BY DEF TierFollows
  <2>1. j # k BY <1>3, <1>5
  <2> QED BY <1>2, <2>1 DEF SettleInv, TierFollows
<1>10. CallsSettle'
  <2> SUFFICES ASSUME NEW h \in Handlers
               PROVE  CallSettles(handler'[h], events', stored, stripe', user, tier)
    BY DEF CallsSettle
  <2>1. \E i \in EventIds : IsLast(k, i, events') /\ stored[i] = "none"
    BY <1>2, <1>3
  <2>2. CASE handler'[h] = handler[h]
    <3> DEFINE r == handler[h]
    <3>1. CallSettles(r, events, stored, stripe, user, tier) BY DEF SettleInv, CallsSettle
    <3>2. LastSays(r, events', stripe', user, tier)
      <4> SUFFICES ASSUME r.op = "webhook", IsLast(r.k, r.e, events')
                   PROVE  LastSays(r, events', stripe', user, tier)
        BY DEF LastSays
      <4>1. r.e \in 1..Len(events) /\ r.k \in Checkouts
        BY EventIsKnown DEF TypeInv, CallKnown
      <4>2. r.k # k BY <1>2, <4>1
      <4>3. stripe'[r.k] = stripe[r.k] /\ IsLast(r.k, r.e, events) BY <1>2, <4>1, <4>2
      <4> QED BY <3>1, <4>3 DEF CallSettles, LastSays
    <3>3. WillBeTold(r, events', stored)
      <4>1. CASE r.k = k BY <2>1, <4>1 DEF WillBeTold
      <4>2. CASE r.k # k BY <1>2, <3>1, <4>2 DEF CallSettles, WillBeTold
      <4> QED BY <4>1, <4>2
    <3> QED BY <2>2, <3>1, <3>2, <3>3 DEF CallSettles
  <2>3. CASE handler'[h].k = k /\ handler'[h].op # "webhook" /\ handler'[h].pc # "markFailed"
    BY <2>1, <2>3 DEF CallSettles, LastSays, WillBeTold
  <2> QED BY <2>2, <2>3
<1> QED BY <1>6, <1>7, <1>8, <1>9, <1>10 DEF SettleInv

LEMMA EndsWith ==
  ASSUME Orderly, NEW s
  PROVE  /\ Ends(Sent("updated"), s) /\ Ends(Sent("deleted"), s)
         /\ s.status = "active" => Ends(Sent("updated") \o Sent("invoice.paid"), s)
         /\ s.status = "past_due" => Ends(Sent("updated") \o Sent("invoice.failed"), s)
         /\ Ends(Sent("checkout.completed") \o Sent("created") \o <<>>, s)
         /\ s.status = "active" =>
              Ends(Sent("checkout.completed") \o Sent("created") \o Sent("invoice.paid"), s)
<1>1. \A type \in AllEventTypes : Sent(type) = <<type>> BY DEF Sent, Orderly
<1>2. /\ Sent("updated") = <<"updated">> /\ Sent("deleted") = <<"deleted">>
      /\ Sent("invoice.paid") = <<"invoice.paid">> /\ Sent("invoice.failed") = <<"invoice.failed">>
      /\ Sent("checkout.completed") = <<"checkout.completed">> /\ Sent("created") = <<"created">>
  BY <1>1 DEF AllEventTypes
<1>3. Ends(<<"updated">>, s) /\ Ends(<<"deleted">>, s) BY DEF Ends, Fits, AllEventTypes
<1>4. s.status = "active" => Ends(<<"updated">> \o <<"invoice.paid">>, s)
  BY DEF Ends, Fits, AllEventTypes
<1>5. s.status = "past_due" => Ends(<<"updated">> \o <<"invoice.failed">>, s)
  BY DEF Ends, Fits, AllEventTypes
<1>6. Ends(<<"checkout.completed">> \o <<"created">> \o <<>>, s)
  BY DEF Ends, Fits, AllEventTypes
<1>7. s.status = "active" =>
        Ends(<<"checkout.completed">> \o <<"created">> \o <<"invoice.paid">>, s)
  BY DEF Ends, Fits, AllEventTypes
<1> QED BY <1>2, <1>3, <1>4, <1>5, <1>6, <1>7

LEMMA CompletionSettles ==
  ASSUME Orderly, TypeInv, InboxInv, SettleInv, NEW k \in Checkouts, CompleteCheckout(k)
  PROVE  SettleInv'
<1>1. PICK async \in BOOLEAN :
        LET t == [status |-> IF async THEN "incomplete" ELSE "active",
                  price |-> session[k].plan, meta |-> session[k].plan,
                  ends |-> FALSE, until |-> now + 1]
        IN  /\ stripe' = [stripe EXCEPT ![k] = t]
            /\ paid' = IF async THEN paid ELSE paid \cup {k}
            /\ Emit(Sent("checkout.completed") \o Sent("created") \o
                     (IF async THEN <<>> ELSE Sent("invoice.paid")), k, t)
  BY DEF CompleteCheckout
<1>2. PICK t : t = [status |-> IF async THEN "incomplete" ELSE "active",
                    price |-> session[k].plan, meta |-> session[k].plan,
                    ends |-> FALSE, until |-> now + 1]
  OBVIOUS
<1>3. /\ session[k].plan \in Plans /\ now + 1 \in 0..(Horizon + 1)
      /\ stripe \in [Checkouts -> StripeType]
  <2>1. /\ session[k] \in SessionType /\ now \in 0..Horizon
        /\ stripe \in [Checkouts -> StripeType]
    BY DEF TypeInv, TypeOK, SessionType
  <2> QED BY <2>1, BoundsAssumption DEF SessionType
<1>4. /\ t \in StripeType /\ t.price = t.meta /\ t.status # "none"
      /\ ~async => t.status = "active"
  BY <1>2, <1>3 DEF StripeType, StripeStatus
<1>5. /\ stripe' = [stripe EXCEPT ![k] = t] /\ paid' \subseteq paid \cup {k}
      /\ Emit(Sent("checkout.completed") \o Sent("created") \o
               (IF async THEN <<>> ELSE Sent("invoice.paid")), k, t)
  BY <1>1, <1>2
<1>6. stripe'[k] = t /\ \A j \in Checkouts \ {k} : stripe'[j] = stripe[j]
  BY <1>3, <1>5
<1>7. UNCHANGED <<sub, user, tier, stored, applied, acked, handler>>
  BY DEF CompleteCheckout, local
<1>8. CASE async
  <2>1. Emit(Sent("checkout.completed") \o Sent("created") \o <<>>, k, t) BY <1>5, <1>8
  <2> QED BY <1>4, <1>5, <1>6, <1>7, <2>1, EndsWith, MoveSettles
<1>9. CASE ~async
  <2>1. Emit(Sent("checkout.completed") \o Sent("created") \o Sent("invoice.paid"), k, t)
    BY <1>5, <1>9
  <2> QED BY <1>4, <1>5, <1>6, <1>7, <1>9, <2>1, EndsWith, MoveSettles
<1> QED BY <1>8, <1>9

LEMMA ChangeSettles ==
  ASSUME Orderly, TypeInv, InboxInv, SettleInv, NEW k \in Checkouts, PayInvoice(k) \/ PeriodEnds(k)
  PROVE  SettleInv'
<1>1. /\ stripe' \in [Checkouts -> StripeType]
      /\ \A j \in Checkouts \ {k} : stripe'[j] = stripe[j]
      /\ stripe[k].status # "none" /\ stripe'[k].status # "none"
      /\ stripe'[k].meta = stripe[k].meta
  BY GoesOn
<1>2. stripe \in [Checkouts -> StripeType] BY DEF TypeInv, TypeOK
<1>3. PICK t \in StripeType : t = stripe'[k] BY <1>1
<1>4. t.price = t.meta
  <2>1. stripe[k].price = stripe[k].meta BY DEF SettleInv, StripeTold
  <2>2. stripe'[k].price = stripe[k].price
    BY <1>2 DEF PayInvoice, PeriodEnds, StripeType
  <2> QED BY <1>1, <1>3, <2>1, <2>2
<1>5. /\ UNCHANGED <<sub, user, tier, stored, applied, acked, handler>>
      /\ paid' \subseteq paid \cup {k}
  BY DEF PayInvoice, PeriodEnds, local, history
<1>6. \E types : Ends(types, t) /\ Emit(types, k, t)
  <2>1. CASE PayInvoice(k)
    <3>1. stripe'[k].status = "active" BY <1>2, <2>1 DEF PayInvoice, StripeType
    <3> QED BY <1>3, <2>1, <3>1, EndsWith DEF PayInvoice
  <2>2. CASE PeriodEnds(k)
    <3>1. CASE Emit(Sent("deleted"), k, stripe'[k]) BY <1>3, <3>1, EndsWith
    <3>2. CASE /\ stripe[k].status = "active" /\ stripe' = [stripe EXCEPT ![k].until = now + 1]
               /\ Emit(Sent("updated") \o Sent("invoice.paid"), k, stripe'[k])
      <4>1. stripe'[k].status = "active" BY <1>2, <3>2 DEF StripeType
      <4> QED BY <1>3, <3>2, <4>1, EndsWith
    <3>3. CASE /\ stripe[k].status = "active"
               /\ stripe' = [stripe EXCEPT ![k].until = now + 1,
                               ![k].status = IF @ = "active" THEN "past_due" ELSE "canceled"]
               /\ Emit(Sent("updated") \o Sent("invoice.failed"), k, stripe'[k])
      <4>1. stripe'[k].status = "past_due" BY <1>2, <3>3 DEF StripeType
      <4> QED BY <1>3, <3>3, <4>1, EndsWith
    <3>4. Emit(IF stripe[k].status = "active"
               THEN Sent("updated") \o Sent("invoice.failed") ELSE Sent("deleted"), k, stripe'[k])
            => \/ Emit(Sent("deleted"), k, stripe'[k])
               \/ /\ stripe[k].status = "active"
                  /\ Emit(Sent("updated") \o Sent("invoice.failed"), k, stripe'[k])
      BY Zenon
    <3> QED BY <2>2, <3>1, <3>2, <3>3, <3>4 DEF PeriodEnds
  <2> QED BY <2>1, <2>2
<1> QED BY <1>1, <1>3, <1>4, <1>5, <1>6, MoveSettles

LEMMA RequestAtStripeSettles ==
  ASSUME Orderly, TypeInv, InboxInv, BoughtInv, SettleInv, NEW h \in Handlers,
         ChangeAtStripe(h) \/ CancelAtStripe(h)
  PROVE  SettleInv'
<1> DEFINE r == handler[h]
           k == r.k
<1>1. /\ r \in HandlerType /\ r.op # "webhook" /\ ~Works(r) /\ k \in Checkouts
      /\ handler \in [Handlers -> HandlerType] /\ stripe \in [Checkouts -> StripeType]
      /\ r.plan \in Plans /\ r.pc \in {"changeAt", "pick"}
  BY DEF TypeInv, TypeOK, CallKnown, WebhookPcs, AtRow, Works, HandlerType, ChangeAtStripe,
         CancelAtStripe
<1>2. UNCHANGED <<sub, user, tier, stored, applied, paid, acked>>
  BY DEF ChangeAtStripe, CancelAtStripe, local, history
<1>3. CASE Done(h) /\ UNCHANGED external
  BY <1>1, <1>2, <1>3, CallEndsSettled DEF external
<1>4. stripe[k].status # "none" /\ stripe[k].price = stripe[k].meta
  <2>1. k \in paid BY <1>1 DEF BoughtInv, CallsOK, CallOK
  <2> QED BY <1>1, <2>1 DEF SettleInv, StripeTold
<1>5. ASSUME NEW t \in StripeType, stripe' = [stripe EXCEPT ![k] = t], t.price = t.meta,
             t.status = stripe[k].status, Emit(Sent("updated"), k, t),
             NEW n \in HandlerType, Set(h, n), n.k = k, n.op = r.op, n.pc \in {"apply", "flag"}
      PROVE  SettleInv'
  <2>1. handler'[h] = n /\ \A g \in Handlers \ {h} : handler'[g] = handler[g]
    BY <1>1, <1>5, HandlerMoves
  <2>2. \A g \in Handlers :
            \/ handler'[g] = handler[g]
            \/ /\ handler'[g].k = k /\ handler'[g].op # "webhook" /\ ~Works(handler[g])
               /\ handler'[g].pc # "markFailed"
    BY <1>1, <1>5, <2>1
  <2>3. stripe'[k] = t /\ \A j \in Checkouts \ {k} : stripe'[j] = stripe[j]
    BY <1>1, <1>5
  <2>4. t.status # "none" BY <1>4, <1>5
  <2>5. Ends(Sent("updated"), t) BY EndsWith
  <2>6. paid' \subseteq paid \cup {k} BY <1>2
  <2> HIDE DEF k
  <2> QED BY <1>1, <1>2, <1>5, <2>2, <2>3, <2>4, <2>5, <2>6, MoveSettles
<1>6. CASE /\ stripe' = [stripe EXCEPT ![k].price = r.plan, ![k].meta = r.plan]
           /\ Emit(Sent("updated"), k, stripe'[k])
           /\ Set(h, [r EXCEPT !.pc = "apply", !.snap = stripe'[k]])
  <2>1. PICK t \in StripeType : t = [stripe[k] EXCEPT !.price = r.plan, !.meta = r.plan]
    BY <1>1 DEF StripeType
  <2>2. /\ t.price = t.meta /\ t.status = stripe[k].status
        /\ stripe' = [stripe EXCEPT ![k] = t] /\ stripe'[k] = t
    BY <1>1, <1>6, <2>1 DEF StripeType
  <2>3. PICK n : n = [r EXCEPT !.pc = "apply", !.snap = t]
    OBVIOUS
  <2>4. n \in HandlerType /\ n.pc = "apply" /\ n.op = r.op /\ n.k = k
    BY <1>1, <2>3 DEF HandlerType, Pcs
  <2>5. Set(h, n) /\ Emit(Sent("updated"), k, t) BY <1>6, <2>2, <2>3
  <2> QED BY <1>5, <2>2, <2>4, <2>5
<1>7. CASE /\ stripe' = [stripe EXCEPT ![k].ends = TRUE]
           /\ Emit(Sent("updated"), k, stripe'[k])
           /\ Goto(h, "flag")
  <2>1. PICK t \in StripeType : t = [stripe[k] EXCEPT !.ends = TRUE]
    BY <1>1 DEF StripeType
  <2>2. /\ t.price = t.meta /\ t.status = stripe[k].status
        /\ stripe' = [stripe EXCEPT ![k] = t] /\ stripe'[k] = t
    BY <1>1, <1>4, <1>7, <2>1 DEF StripeType
  <2>3. PICK n : n = [r EXCEPT !.pc = "flag"]
    OBVIOUS
  <2>4. n \in HandlerType /\ n.pc = "flag" /\ n.op = r.op /\ n.k = k
    BY <1>1, <2>3 DEF HandlerType, Pcs
  <2>5. Set(h, n) /\ Emit(Sent("updated"), k, t) BY <1>7, <2>2, <2>3 DEF Goto
  <2> QED BY <1>5, <2>2, <2>4, <2>5
<1> QED BY <1>3, <1>6, <1>7 DEF ChangeAtStripe, CancelAtStripe, external

-----------------------------------------------------------------------------
LEMMA SettlesBegin == Init => SettleInv
<1> SUFFICES ASSUME Init PROVE SettleInv
  OBVIOUS
<1>1. StripeTold BY DEF Init, StripeTold, NoStripe
<1>2. StoredInOrder BY DEF Init, StoredInOrder
<1>3. RowsMirror /\ TierFollows BY DEF Init, RowsMirror, TierFollows, NoStripe
<1>4. CallsSettle BY IdleSettles DEF Init, CallsSettle
<1> QED BY <1>1, <1>2, <1>3, <1>4 DEF SettleInv

\* As long as nothing fails.
LEMMA SettlesGoOn ==
  ASSUME Orderly
  PROVE  /\ TypeInv /\ InboxInv /\ BoughtInv /\ (faults = 0 => SettleInv) /\ [Next]_vars
         => (faults' = 0 => SettleInv')
<1> SUFFICES ASSUME TypeInv, InboxInv, BoughtInv, faults = 0 => SettleInv, [Next]_vars, faults' = 0
             PROVE  SettleInv'
  OBVIOUS
<1>1. ~((\E h \in Handlers : CallFails(h)) \/ Restart)
  <2>1. faults \in Nat BY BoundsAssumption DEF TypeInv, TypeOK
  <2>2. faults + 1 # 0 BY <2>1
  <2> QED BY <2>2 DEF CallFails, Restart
<1>2. CASE UNCHANGED vars
  <2>1. UNCHANGED <<sub, user, tier, stored, applied, stripe, events, paid, acked, handler, faults>>
    BY <1>2 DEF vars, local, external, history
  <2> QED BY <2>1
          DEF SettleInv, StripeTold, StoredInOrder, RowsMirror, TierFollows, CallsSettle
<1>3. CASE Next /\ faults' = faults
  <2>1. SettleInv BY <1>3
  <2>2. ASSUME NEW h \in Handlers, Serve(h) \/ Request(h) \/ \E e \in EventIds : Deliver(h, e)
        PROVE  SettleInv'
    BY <2>1, <2>2, DeliverSettles, FindSettles, StoreSettles, ProcessSettles, CloseSettles,
       ApplySettles, SyncSettles, RowSettles, OpenSettles, RequestAtStripeSettles, BeginSettles
       DEF Serve
  <2>3. CASE StripeStep
    <3>1. ASSUME NEW k \in Checkouts, CompleteCheckout(k) PROVE SettleInv'
      BY <2>1, <3>1, CompletionSettles
    <3>2. ASSUME NEW k \in Checkouts, PayInvoice(k) \/ PeriodEnds(k) PROVE SettleInv'
      BY <2>1, <3>2, ChangeSettles
    <3>3. \A k \in Checkouts, p \in Plans : ~PortalChange(k, p) BY DEF PortalChange, Orderly
    <3>4. CASE Tick
      <4>1. UNCHANGED <<sub, user, tier, stored, applied, stripe, events, paid, acked, handler>>
        BY <3>4 DEF Tick, local, external, history
      <4> QED BY <2>1, <4>1
              DEF SettleInv, StripeTold, StoredInOrder, RowsMirror, TierFollows, CallsSettle
    <3> QED BY <2>3, <3>1, <3>2, <3>3, <3>4 DEF StripeStep
  <2> QED BY <1>1, <1>3, <2>2, <2>3 DEF Next, BoundedStripeStep
<1>4. Next => faults' = faults
  <2>1. ASSUME NEW h \in Handlers, Serve(h) PROVE faults' = faults
    BY <2>1 DEF Serve, FindEvent, StoreEvent, ProcessEvent, MarkEvent, MarkFailed, Apply, SyncUser,
                SyncTier, CreateRow, OpenSession, ChangeAtStripe, CancelAtStripe, FlagRow
  <2>2. ASSUME NEW h \in Handlers, Request(h) \/ \E e \in EventIds : Deliver(h, e)
        PROVE  faults' = faults
    BY <2>2 DEF Request, BeginCheckout, BeginChange, ReadSession, BeginCancel, Begin, Deliver
  <2>3. StripeStep => faults' = faults
    BY DEF StripeStep, CompleteCheckout, PayInvoice, PeriodEnds, PortalChange, Tick
  <2> QED BY <1>1, <2>1, <2>2, <2>3 DEF Next, BoundedStripeStep
<1> QED BY <1>2, <1>3, <1>4

LEMMA LastIsMirrored ==
  ASSUME TypeInv, SettleInv, Quiet, NEW k \in Checkouts, stripe[k].status # "none"
  PROVE  /\ Mirrors(sub[k], stripe[k]) /\ stripe[k].price = stripe[k].meta
         /\ OneCheckout => user = PlanOf(stripe[k]) /\ tier = PlanOf(stripe[k])
<1>1. PICK i \in EventIds : IsLast(k, i, events)
  BY DEF SettleInv, StripeTold
<1>2. stored[i] # "none" BY <1>1 DEF IsLast, Quiet, SettleInv, StoredInOrder
<1>3. stored[i] = "processed"
  <2>1. \A h \in Handlers : ~Works(handler[h]) BY DEF Quiet, Works
  <2>2. stored[i] \in {"none", "stored", "processed", "failed"} BY DEF TypeInv, TypeOK
  <2> QED BY <1>2, <2>1, <2>2 DEF SettleInv, StoredInOrder
<1>4. applied[i] # 0 BY <1>3 DEF SettleInv, StoredInOrder
<1> QED BY <1>1, <1>3, <1>4 DEF SettleInv, StripeTold, RowsMirror, TierFollows

LEMMA SettledIsMirrored ==
  ASSUME TypeInv, faults = 0 => SettleInv PROVE SettledMirrorsStripe
<1> SUFFICES ASSUME Quiet, NEW k \in Checkouts, stripe[k].status # "none"
             PROVE  /\ sub[k].status = "ACTIVE" <=> stripe[k].status = "active"
                    /\ sub[k].status = "CANCELLED" <=> stripe[k].status = "canceled"
                    /\ sub[k].plan = stripe[k].price
                    /\ sub[k].ends = stripe[k].ends
  BY DEF SettledMirrorsStripe
<1>1. Mirrors(sub[k], stripe[k]) /\ stripe[k].price = stripe[k].meta
  BY LastIsMirrored DEF Quiet
<1>2. MapStatus(stripe[k].status) = "ACTIVE" <=> stripe[k].status = "active"
  BY DEF MapStatus
<1>3. MapStatus(stripe[k].status) = "CANCELLED" <=> stripe[k].status = "canceled"
  BY DEF MapStatus
<1> QED BY <1>1, <1>2, <1>3 DEF Mirrors

\* The plan in use with one subscription.
LEMMA TheOneIsCurrent ==
  ASSUME TypeInv, OneCheckout, NEW k \in Checkouts
  PROVE  EntitledPlan = IF IsActive(sub[k]) THEN sub[k].plan ELSE FreePlan
<1>1. k # 0 BY BoundsAssumption DEF Checkouts
<1>2. \A j \in Checkouts : j = k BY DEF OneCheckout
<1> DEFINE active == {j \in Checkouts : IsActive(sub[j])}
<1>3. CASE IsActive(sub[k])
  <2>1. active = {k} BY <1>2, <1>3
  <2>2. k <= k BY BoundsAssumption DEF Checkouts
  <2>3. (CHOOSE i \in active : \A j \in active : j <= i) = k BY <2>1, <2>2
  <2>4. Current = k BY <2>1, <2>3 DEF Current
  <2> QED BY <1>1, <1>3, <2>4 DEF EntitledPlan
<1>4. CASE ~IsActive(sub[k])
  <2>1. active = {} BY <1>2, <1>4
  <2>2. Current = 0 BY <2>1 DEF Current
  <2> QED BY <1>4, <2>2 DEF EntitledPlan
<1> QED BY <1>3, <1>4

LEMMA SettledIsCopied ==
  ASSUME TypeInv, faults = 0 => SettleInv, OneCheckout PROVE SettledTier
<1> SUFFICES ASSUME Quiet, paid # {} PROVE user = EntitledPlan /\ tier = EntitledPlan
  BY DEF SettledTier
<1>1. SettleInv BY DEF Quiet
<1>2. PICK k \in Checkouts : k \in paid BY DEF TypeInv, TypeOK
<1>3. stripe[k].status # "none" BY <1>1, <1>2 DEF SettleInv, StripeTold
<1>4. Mirrors(sub[k], stripe[k]) /\ user = PlanOf(stripe[k]) /\ tier = PlanOf(stripe[k])
  BY <1>1, <1>3, LastIsMirrored
<1>5. IsActive(sub[k]) <=> stripe[k].status = "active"
  <2>1. sub[k].status = "ACTIVE" <=> stripe[k].status = "active"
    BY <1>4 DEF Mirrors, MapStatus
  <2>2. stripe[k].status = "active" => sub[k].until > now BY <1>4 DEF Mirrors, Quiet
  <2> QED BY <2>1, <2>2 DEF IsActive, ActiveStatus
<1>6. sub[k].plan = stripe[k].meta BY <1>4 DEF Mirrors
<1> QED BY <1>4, <1>5, <1>6, TheOneIsCurrent DEF PlanOf

\* With deliveries and requests served one at a time, every event sent and delivered in
\* order, plans changed here only and nothing failing, a company at rest has rows that say
\* what Stripe says: status, billed plan, and whether it ends, for any number of checkouts,
\* events and periods.
THEOREM SettledRowsMirrorStripe == Spec => [](Orderly => SettledMirrorsStripe)
<1> DEFINE J == Orderly /\ faults = 0 => SettleInv
<1>1. Init => TypeInv /\ InboxInv /\ BoughtInv /\ J
  BY TypesBegin, InboxBegins, BoughtBegins, SettlesBegin
<1>2. TypeInv /\ InboxInv /\ BoughtInv /\ J /\ [Next]_vars => J'
  BY SettlesGoOn DEF Orderly
<1>3. TypeInv /\ J => (Orderly => SettledMirrorsStripe)
  BY SettledIsMirrored
<1> HIDE DEF J
<1> QED BY <1>1, <1>2, <1>3, TypesGoOn, InboxGoesOn, BoughtGoesOn, PTL DEF Spec

\* ... and, with one subscription, user.plan and the tier of the company are the plan the
\* entitlements resolve to.
THEOREM SettledTierFollows == Spec => [](Orderly /\ OneCheckout => SettledTier)
<1> DEFINE J == Orderly /\ faults = 0 => SettleInv
<1>1. Init => TypeInv /\ InboxInv /\ BoughtInv /\ J
  BY TypesBegin, InboxBegins, BoughtBegins, SettlesBegin
<1>2. TypeInv /\ InboxInv /\ BoughtInv /\ J /\ [Next]_vars => J'
  BY SettlesGoOn DEF Orderly
<1>3. TypeInv /\ J => (Orderly /\ OneCheckout => SettledTier)
  BY SettledIsCopied
<1> HIDE DEF J
<1> QED BY <1>1, <1>2, <1>3, TypesGoOn, InboxGoesOn, BoughtGoesOn, PTL DEF Spec
=============================================================================
