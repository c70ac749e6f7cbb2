------------------------------ MODULE Billing ------------------------------
(***************************************************************************)
(* Stripe subscriptions of one company and its owner                       *)
(* (billing/billing.service.ts).  Stripe, its checkout pages and its       *)
(* customer portal are external: they change their own records and emit    *)
(* events, which reach the webhook in any order, late, or more than once,  *)
(* and are sent again until answered with a 2xx.  HTTP requests of the     *)
(* owner and webhook deliveries are served by handlers that interleave at  *)
(* every await.                                                            *)
(*                                                                         *)
(* A checkout number stands for the local subscription row it creates, its *)
(* Stripe checkout session and, once completed, its Stripe subscription:   *)
(* localSubscriptionId is in the metadata of all three, so                 *)
(* findStripeLocalSubscription always finds row k for Stripe object k.     *)
(* Time counts billing periods.  Billing cycles and amounts are left out,  *)
(* as are internal grants (owner neither admin nor on legacy grace).       *)
(***************************************************************************)
EXTENDS Integers, Sequences, FiniteSets

CONSTANTS
    Plans, FreePlan,
    Handlers,       \* requests and deliveries served at the same time
    Ops,            \* endpoints in use: "checkout", "status", "change", "cancel"
    StripeMoves,    \* what happens at Stripe: "asyncPay", "portal", "renew", "default"
    EventTypes,     \* the events the endpoint is subscribed to
    NumCheckouts, MaxEvents, Horizon, MaxFaults,   \* bounds
    PeriodEndKnown, \* the API version in use puts current_period_end on the subscription
    InOrder         \* Stripe delivers events in the order they happened

ASSUME PlansAssumption == FreePlan \in Plans
ASSUME BoundsAssumption ==
    /\ {NumCheckouts, MaxEvents, Horizon, MaxFaults} \subseteq Nat
    /\ {InOrder, PeriodEndKnown} \subseteq BOOLEAN

Checkouts == 1..NumCheckouts
EventIds == 1..MaxEvents

VARIABLES
    sub,        \* local subscription rows
    user,       \* user.plan of the owner
    tier,       \* usageQuota.currentTier of the company
    stored,     \* paymentEvent rows: none, stored, processed or failed
    handler,    \* requests and deliveries in progress
    session,    \* Stripe checkout sessions, with the plan in their metadata
    stripe,     \* Stripe subscriptions
    events,     \* Stripe events, in the order they happened
    acked,      \* events answered with a 2xx
    now,        \* current billing period
    faults,     \* failed calls and restarts so far
    applied,    \* history: how often each event has been applied to its row
    sold,       \* history: plans each Stripe subscription has been priced at
    paid        \* history: checkouts Stripe has collected money for

local == <<sub, user, tier, stored>>
external == <<session, stripe, events>>
history == <<applied, sold, paid>>
vars == <<local, handler, external, acked, now, faults, history>>

-----------------------------------------------------------------------------
(* Records *)

NoRow == [status |-> "none", plan |-> FreePlan, linked |-> FALSE,
          ends |-> FALSE, until |-> 0]
NoStripe == [status |-> "none", price |-> FreePlan, meta |-> FreePlan,
             ends |-> FALSE, until |-> 0]

RowStatus == {"none", "PENDING", "INCOMPLETE", "ACTIVE", "PAST_DUE", "CANCELLED"}
StripeStatus == {"none", "incomplete", "active", "past_due", "canceled"}

RowType == [status : RowStatus, plan : Plans, linked : BOOLEAN,
            ends : BOOLEAN, until : 0..(Horizon + 1)]
StripeType == [status : StripeStatus, price : Plans, meta : Plans,
               ends : BOOLEAN, until : 0..(Horizon + 1)]

AllEventTypes == {"checkout.completed", "created", "updated", "deleted",
                  "invoice.paid", "invoice.failed"}
EventType == [type : AllEventTypes, k : Checkouts, snap : StripeType]

\* Mutant: an unpaid first invoice taken for an active subscription.
MapStatusUnpaid(s) == IF s \in {"active", "incomplete"} THEN "ACTIVE" ELSE "CANCELLED"

\* mapStripeSubscriptionStatus
MapStatus(s) ==
    CASE s = "active" -> "ACTIVE"
      [] s = "canceled" -> "CANCELLED"
      [] s = "past_due" -> "PAST_DUE"
      [] s = "incomplete" -> "INCOMPLETE"
      [] OTHER -> "PENDING"

\* ACTIVE_SUBSCRIPTION_STATUSES and isBlockingStatus; PENDING is in neither.
ActiveStatus == {"ACTIVE"}
\* Mutant: arrears forgotten.
BlockingStatusShort == {"CANCELLED", "INCOMPLETE"}

BlockingStatus == {"CANCELLED", "PAST_DUE", "INCOMPLETE"}

\* isSubscriptionActive: an active status within its period, if the row has one
\* (0 is a null currentPeriodEnd).
IsActive(row) == row.status \in ActiveStatus /\ (row.until = 0 \/ row.until > now)

\* findActiveSubscriptionForCompany: the newest active row, 0 if none.
Current ==
    LET active == {k \in Checkouts : IsActive(sub[k])}
    IN  IF active = {} THEN 0 ELSE CHOOSE k \in active : \A j \in active : j <= k

\* resolveCompanyPlanKey, once the company has subscription rows.
EntitledPlan == IF Current = 0 THEN FreePlan ELSE sub[Current].plan

IdleHandler == [pc |-> "idle", op |-> "none", k |-> 0, e |-> 0,
                plan |-> FreePlan, snap |-> NoStripe, over |-> "none",
                withSession |-> FALSE]

Pcs == {"idle", "find", "store", "process", "apply", "syncUser", "syncTier",
        "mark", "markFailed", "check", "create", "openSession", "pick",
        "flag", "changeAt"}

HandlerType ==
    [pc : Pcs, op : Ops \cup {"none", "webhook"}, k : 0..NumCheckouts,
     e : 0..MaxEvents, plan : Plans, snap : StripeType,
     over : RowStatus, withSession : BOOLEAN]

Set(h, r) == handler' = [handler EXCEPT ![h] = r]
Goto(h, pc) == Set(h, [handler[h] EXCEPT !.pc = pc])
Done(h) == Set(h, IdleHandler)

Init ==
    /\ sub = [k \in Checkouts |-> NoRow]
    /\ user = FreePlan /\ tier = FreePlan
    /\ stored = [e \in EventIds |-> "none"]
    /\ handler = [h \in Handlers |-> IdleHandler]
    /\ session = [k \in Checkouts |-> [state |-> "none", plan |-> FreePlan]]
    /\ stripe = [k \in Checkouts |-> NoStripe]
    /\ events = <<>>
    /\ acked = {}
    /\ now = 0 /\ faults = 0
    /\ applied = [e \in EventIds |-> 0]
    /\ sold = [k \in Checkouts |-> {}]
    /\ paid = {}

-----------------------------------------------------------------------------
(* Stripe *)

\* An event is sent if the endpoint is subscribed to its type.
Sent(type) == IF type \in EventTypes THEN <<type>> ELSE <<>>

\* The events of a happening, appended in the order given.
Emit(types, k, snap) ==
    /\ Len(events) + Len(types) <= MaxEvents
    /\ events' = events \o
           [i \in 1..Len(types) |-> [type |-> types[i], k |-> k, snap |-> snap]]

\* The customer completes the checkout page, having paid, or (with an
\* asynchronous payment method) with the first invoice still open.
CompleteCheckout(k) ==
    /\ session[k].state = "open"
    /\ session' = [session EXCEPT ![k].state = "complete"]
    /\ \E async \in {FALSE} \cup {a \in {TRUE} : "asyncPay" \in StripeMoves} :
         LET s == [status |-> IF async THEN "incomplete" ELSE "active",
                   price |-> session[k].plan, meta |-> session[k].plan,
                   ends |-> FALSE, until |-> now + 1]
         IN  /\ stripe' = [stripe EXCEPT ![k] = s]
             /\ paid' = IF async THEN paid ELSE paid \cup {k}
             /\ Emit(Sent("checkout.completed") \o Sent("created") \o
                     (IF async THEN <<>> ELSE Sent("invoice.paid")), k, s)
    /\ sold' = [sold EXCEPT ![k] = {session[k].plan}]
    /\ UNCHANGED <<local, handler, acked, now, faults, applied>>

\* An open invoice is paid (the first one, or one in arrears).
PayInvoice(k) ==
    /\ stripe[k].status \in {"incomplete", "past_due"}
    /\ stripe' = [stripe EXCEPT ![k].status = "active"]
    /\ paid' = paid \cup {k}
    /\ Emit(Sent("updated") \o Sent("invoice.paid"), k, stripe'[k])
    /\ UNCHANGED <<local, handler, session, acked, now, faults, applied, sold>>

\* The customer changes the plan in the portal: the price changes, the
\* metadata does not.
PortalChange(k, p) ==
    /\ "portal" \in StripeMoves
    /\ stripe[k].status = "active" /\ stripe[k].price # p
    /\ stripe' = [stripe EXCEPT ![k].price = p]
    /\ sold' = [sold EXCEPT ![k] = @ \cup {p}]
    /\ Emit(Sent("updated"), k, stripe'[k])
    /\ UNCHANGED <<local, handler, session, acked, now, faults, applied, paid>>

\* A period ends: Stripe cancels, renews, or fails to collect (the new period
\* has begun all the same).
PeriodEnds(k) ==
    /\ stripe[k].status \in {"active", "past_due"} /\ stripe[k].until <= now
    /\ \/ /\ stripe[k].ends
          /\ stripe' = [stripe EXCEPT ![k].status = "canceled"]
          /\ Emit(Sent("deleted"), k, stripe'[k])
       \/ /\ "renew" \in StripeMoves /\ ~stripe[k].ends
          /\ stripe[k].status = "active"
          /\ stripe' = [stripe EXCEPT ![k].until = now + 1]
          /\ Emit(Sent("updated") \o Sent("invoice.paid"), k, stripe'[k])
       \/ /\ "default" \in StripeMoves /\ ~stripe[k].ends
          /\ stripe' = [stripe EXCEPT ![k].until = now + 1,
                 ![k].status = IF @ = "active" THEN "past_due" ELSE "canceled"]
          /\ Emit(IF stripe[k].status = "active"
                  THEN Sent("updated") \o Sent("invoice.failed") ELSE Sent("deleted"),
                  k, stripe'[k])
    /\ UNCHANGED <<local, handler, session, acked, now, faults, history>>

Tick ==
    /\ now < Horizon
    /\ \A k \in Checkouts :      \* Stripe settles a period before the next ends
         stripe[k].status \in {"active", "past_due"} => stripe[k].until > now
    /\ now' = now + 1
    /\ UNCHANGED <<local, handler, external, acked, faults, history>>

-----------------------------------------------------------------------------
(* Webhook deliveries: handleStripeWebhook *)

\* Stripe sends an event, for the first time or again, whatever other
\* deliveries of it are in progress.
Deliver(h, e) ==
    /\ handler[h].pc = "idle" /\ e \in 1..Len(events)
    /\ InOrder => \A d \in 1..(e - 1) : stored[d] \in {"processed", "failed"}
    /\ Set(h, [IdleHandler EXCEPT !.pc = "find", !.op = "webhook",
                                  !.k = events[e].k, !.e = e])
    /\ UNCHANGED <<local, external, acked, now, faults, history>>

\* Mutant: only a processed event is a duplicate, a stored one is refused.
FindEventProcessed(h) ==
    /\ handler[h].pc = "find"
    /\ IF stored[handler[h].e] # "none"
       THEN /\ Done(h)
            /\ acked' = IF stored[handler[h].e] = "processed"
                        THEN acked \cup {handler[h].e} ELSE acked
       ELSE Goto(h, "store") /\ UNCHANGED acked
    /\ UNCHANGED <<local, external, now, faults, history>>

\* paymentEvent.findUnique: a known event is answered as a duplicate at once,
\* processed or not.
FindEvent(h) ==
    /\ handler[h].pc = "find"
    /\ IF stored[handler[h].e] # "none"
       THEN Done(h) /\ acked' = acked \cup {handler[h].e}
       ELSE Goto(h, "store") /\ UNCHANGED acked
    /\ UNCHANGED <<local, external, now, faults, history>>

\* Mutant: eventId not unique.
StoreEventTwice(h) ==
    /\ handler[h].pc = "store"
    /\ stored' = [stored EXCEPT ![handler[h].e] = "stored"]
    /\ Goto(h, "process")
    /\ UNCHANGED <<sub, user, tier, external, acked, now, faults, history>>

\* paymentEvent.create: eventId is unique, so of two deliveries that both
\* found nothing one fails here and answers 500.
StoreEvent(h) ==
    /\ handler[h].pc = "store"
    /\ IF stored[handler[h].e] # "none"
       THEN Done(h) /\ UNCHANGED stored
       ELSE /\ stored' = [stored EXCEPT ![handler[h].e] = "stored"]
            /\ Goto(h, "process")
    /\ UNCHANGED <<sub, user, tier, external, acked, now, faults, history>>

\* processStripeEvent: subscription events carry the subscription as it was;
\* checkout and invoice events make the handler fetch it as it is now.
ProcessEvent(h) ==
    /\ handler[h].pc = "process"
    /\ LET ev == events[handler[h].e]
       IN  Set(h, [handler[h] EXCEPT
             !.pc = "apply",
             !.snap = IF ev.type \in {"created", "updated", "deleted"}
                      THEN ev.snap ELSE stripe[ev.k],
             !.over = CASE ev.type = "invoice.paid" -> "ACTIVE"
                        [] ev.type = "invoice.failed" -> "PAST_DUE"
                        [] OTHER -> "none",
             !.withSession = ev.type = "checkout.completed"])
    /\ UNCHANGED <<local, external, acked, now, faults, history>>

\* processStripeEvent done: the row is marked, and the delivery answered 200.
MarkEvent(h) ==
    /\ handler[h].pc = "mark"
    /\ stored' = [stored EXCEPT ![handler[h].e] = "processed"]
    /\ acked' = acked \cup {handler[h].e}
    /\ Done(h)
    /\ UNCHANGED <<sub, user, tier, external, now, faults, history>>

\* The catch block: the error is stored, and the delivery answered 200 too.
MarkFailed(h) ==
    /\ handler[h].pc = "markFailed"
    /\ stored' = [stored EXCEPT ![handler[h].e] = "failed"]
    /\ acked' = acked \cup {handler[h].e}
    /\ Done(h)
    /\ UNCHANGED <<sub, user, tier, external, now, faults, history>>

-----------------------------------------------------------------------------
(* applyStripeSubscription *)

\* The metadata of the checkout session, when there is one, wins over the
\* subscription's, and either wins over the price.
SnapshotPlan(r) == IF r.withSession THEN session[r.k].plan ELSE r.snap.meta

SnapshotStatus(r) == IF r.over # "none" THEN r.over ELSE MapStatus(r.snap.status)

\* Mutant: cancel_at_period_end not copied.
SnapshotRowNoEnds(r) ==
    [status |-> SnapshotStatus(r), plan |-> SnapshotPlan(r), linked |-> TRUE,
     ends |-> FALSE, until |-> IF PeriodEndKnown THEN r.snap.until ELSE 0]

\* The row written for a snapshot.
SnapshotRow(r) ==
    [status |-> SnapshotStatus(r), plan |-> SnapshotPlan(r), linked |-> TRUE,
     ends |-> r.snap.ends, until |-> IF PeriodEndKnown THEN r.snap.until ELSE 0]

\* Where a handler goes when the subscription has been applied.
AfterApply(h) == IF handler[h].op = "webhook" THEN Goto(h, "mark") ELSE Done(h)

\* subscription.update (and company.update of the customer id, which no plan
\* depends on).  A PENDING row syncs no plan.
Apply(h) ==
    /\ handler[h].pc = "apply"
    /\ LET r == handler[h]
           row == SnapshotRow(r)
       IN  /\ sub' = [sub EXCEPT ![r.k] = row]
           /\ IF row.status \in ActiveStatus
              THEN Set(h, [r EXCEPT !.pc = "syncUser", !.plan = row.plan])
              ELSE IF row.status \in BlockingStatus
              THEN Set(h, [r EXCEPT !.pc = "syncUser", !.plan = FreePlan])
              ELSE AfterApply(h)
           /\ applied' = IF r.op = "webhook"
                         THEN [applied EXCEPT ![r.e] = @ + 1] ELSE applied
    /\ UNCHANGED <<user, tier, stored, external, acked, now, faults, sold, paid>>

\* syncLegacyPlan: user.plan first, the usageQuota tier in a second write.
SyncUser(h) ==
    /\ handler[h].pc = "syncUser"
    /\ user' = handler[h].plan
    /\ Goto(h, "syncTier")
    /\ UNCHANGED <<sub, tier, stored, external, acked, now, faults, history>>

SyncTier(h) ==
    /\ handler[h].pc = "syncTier"
    /\ tier' = handler[h].plan
    /\ AfterApply(h)
    /\ UNCHANGED <<sub, user, stored, external, acked, now, faults, history>>

-----------------------------------------------------------------------------
(* Endpoints *)

\* How many handlers stand at some step.
At(pcs) == Cardinality({h \in Handlers : handler[h].pc \in pcs})

\* The bound on events leaves room for those of requests in progress.
Room == Len(events) + At({"changeAt", "pick"}) < MaxEvents

Begin(h, op, pc, k, p) ==
    /\ handler[h].pc = "idle" /\ op \in Ops
    /\ Set(h, [IdleHandler EXCEPT !.pc = pc, !.op = op, !.k = k, !.plan = p])
    /\ UNCHANGED <<local, external, acked, now, faults, history>>

\* createCheckout: refused only for the very plan that is active.
BeginCheckout(h, p) ==
    /\ ~(Current # 0 /\ sub[Current].plan = p)
    /\ Cardinality({k \in Checkouts : sub[k].status # "none"}) + At({"create"})
           < NumCheckouts
    /\ Begin(h, "checkout", "create", 0, p)

\* subscription.create, PENDING; rows are numbered as they are created.
CreateRow(h) ==
    /\ handler[h].pc = "create"
    /\ \E k \in Checkouts :
         /\ sub[k].status = "none"
         /\ \A j \in Checkouts : j < k => sub[j].status # "none"
         /\ sub' = [sub EXCEPT ![k] =
              [NoRow EXCEPT !.status = "PENDING", !.plan = handler[h].plan]]
         /\ Set(h, [handler[h] EXCEPT !.pc = "openSession", !.k = k])
    /\ UNCHANGED <<user, tier, stored, external, acked, now, faults, history>>

\* createSubscriptionCheckoutSession; storing its id on the row changes
\* nothing, since the metadata leads back to the row.
OpenSession(h) ==
    /\ handler[h].pc = "openSession"
    /\ session' = [session EXCEPT ![handler[h].k] =
         [state |-> "open", plan |-> handler[h].plan]]
    /\ Done(h)
    /\ UNCHANGED <<local, stripe, events, acked, now, faults, history>>

\* reconcileCheckoutSessionStatus, called by the success page: a session that
\* is complete has its subscription applied at once.
ReadSession(h, k) ==
    /\ handler[h].pc = "idle" /\ "status" \in Ops
    /\ session[k].state = "complete"
    /\ Set(h, [IdleHandler EXCEPT !.pc = "apply", !.op = "status", !.k = k,
                                  !.snap = stripe[k], !.withSession = TRUE])
    /\ UNCHANGED <<local, external, acked, now, faults, history>>

\* changePlan of an active Stripe subscription: the price and the metadata are
\* changed at Stripe, and the answer applied.  (With no active subscription it
\* is createCheckout, with the same plan it does nothing.)
BeginChange(h, p) ==
    /\ Room
    /\ Current # 0 /\ sub[Current].linked /\ sub[Current].plan # p
    /\ Begin(h, "change", "changeAt", Current, p)

ChangeAtStripe(h) ==
    /\ handler[h].pc = "changeAt"
    /\ LET k == handler[h].k
           p == handler[h].plan
       IN  IF stripe[k].status \in {"canceled", "incomplete"}
           THEN /\ Done(h)     \* Stripe refuses, the request fails
                /\ UNCHANGED <<external, sold>>
           ELSE /\ stripe' = [stripe EXCEPT ![k].price = p, ![k].meta = p]
                /\ sold' = [sold EXCEPT ![k] = @ \cup {p}]
                /\ Emit(Sent("updated"), k, stripe'[k])
                /\ Set(h, [handler[h] EXCEPT !.pc = "apply", !.snap = stripe'[k]])
                /\ UNCHANGED session
    /\ UNCHANGED <<local, acked, now, faults, applied, paid>>

\* cancelCurrentSubscription of a Stripe subscription: the newest row with an
\* active status, cancelled at Stripe at its period's end, then flagged.
BeginCancel(h) ==
    LET rows == {k \in Checkouts : sub[k].status \in ActiveStatus}
    IN  /\ rows # {} /\ Room
        /\ \E k \in rows :
             /\ \A j \in rows : j <= k
             /\ Begin(h, "cancel", "pick", k, FreePlan)

CancelAtStripe(h) ==
    /\ handler[h].pc = "pick"
    /\ LET k == handler[h].k
       IN  IF stripe[k].status = "canceled"
           THEN Done(h) /\ UNCHANGED external
           ELSE /\ stripe' = [stripe EXCEPT ![k].ends = TRUE]
                /\ Emit(Sent("updated"), k, stripe'[k])
                /\ Goto(h, "flag")
                /\ UNCHANGED session
    /\ UNCHANGED <<local, acked, now, faults, history>>

FlagRow(h) ==
    /\ handler[h].pc = "flag"
    /\ sub' = [sub EXCEPT ![handler[h].k].ends = TRUE]
    /\ Done(h)
    /\ UNCHANGED <<user, tier, stored, external, acked, now, faults, history>>

-----------------------------------------------------------------------------
(* Failures *)

\* A call of a handler fails.  Inside handleStripeWebhook's try the error is
\* caught and stored; elsewhere the request ends in an error, which Stripe
\* takes as not delivered.
CallFails(h) ==
    /\ faults < MaxFaults /\ handler[h].pc # "idle"
    /\ faults' = faults + 1
    /\ IF handler[h].op = "webhook"
          /\ handler[h].pc \in {"process", "apply", "syncUser", "syncTier", "mark"}
       THEN Goto(h, "markFailed")
       ELSE Done(h)
    /\ UNCHANGED <<local, external, acked, now, history>>

\* The process restarts.
Restart ==
    /\ faults < MaxFaults /\ \E h \in Handlers : handler[h].pc # "idle"
    /\ faults' = faults + 1
    /\ handler' = [h \in Handlers |-> IdleHandler]
    /\ UNCHANGED <<local, external, acked, now, history>>

-----------------------------------------------------------------------------

Serve(h) ==
    \/ FindEvent(h) \/ StoreEvent(h) \/ ProcessEvent(h) \/ MarkEvent(h)
    \/ MarkFailed(h) \/ Apply(h) \/ SyncUser(h) \/ SyncTier(h)
    \/ CreateRow(h) \/ OpenSession(h) \/ ChangeAtStripe(h)
    \/ CancelAtStripe(h) \/ FlagRow(h)

Request(h) ==
    \/ \E p \in Plans : BeginCheckout(h, p) \/ BeginChange(h, p)
    \/ \E k \in Checkouts : ReadSession(h, k)
    \/ BeginCancel(h)

StripeStep ==
    \/ \E k \in Checkouts :
         \/ CompleteCheckout(k) \/ PayInvoice(k) \/ PeriodEnds(k)
         \/ \E p \in Plans : PortalChange(k, p)
    \/ Tick

\* Stripe's own moves stop while the bound on events is reserved.
BoundedStripeStep ==
    StripeStep /\ Len(events') + At({"changeAt", "pick"}) <= MaxEvents

Next ==
    \/ \E h \in Handlers :
         \/ Serve(h) \/ Request(h) \/ CallFails(h)
         \/ \E e \in EventIds : Deliver(h, e)
    \/ BoundedStripeStep
    \/ Restart

Spec == Init /\ [][Next]_vars

\* The event loop runs every handler; Stripe sends an event that was not
\* acknowledged again and again, and a free handler takes it up in the end.
FairSpec ==
    /\ Spec
    /\ \A h \in Handlers : WF_vars(Serve(h))
    /\ \A e \in EventIds :
         SF_vars(e \notin acked /\ \E h \in Handlers : Deliver(h, e))
-----------------------------------------------------------------------------
(* Properties *)

\* Types of the records of billing.service.ts and of Stripe.
TypeOK ==
    /\ sub \in [Checkouts -> RowType]
    /\ {user, tier} \subseteq Plans
    /\ stored \in [EventIds -> {"none", "stored", "processed", "failed"}]
    /\ handler \in [Handlers -> HandlerType]
    /\ session \in [Checkouts -> [state : {"none", "open", "complete"}, plan : Plans]]
    /\ stripe \in [Checkouts -> StripeType]
    /\ events \in Seq(EventType) /\ Len(events) <= MaxEvents
    /\ acked \subseteq EventIds
    /\ now \in 0..Horizon /\ faults \in 0..MaxFaults
    /\ applied \in [EventIds -> Nat]
    /\ sold \in [Checkouts -> SUBSET Plans]
    /\ paid \subseteq Checkouts

\* handleStripeWebhook is an at-most-once inbox: with deliveries of one event
\* in progress at the same time, repeated, cut short by errors and restarts,
\* an event changes the subscription at most once, is on record before Stripe
\* is told to stop sending it, and is marked processed only if it was applied.
IsInbox == INSTANCE Inbox WITH Events <- EventIds, record <- stored
ImplementsInbox == IsInbox!InboxSpec

\* No interleaving of checkouts, plan changes, portal changes, the success
\* page and late or repeated events lets the company use a plan, or keeps a
\* tier, that it has not bought and paid at least once.
PlanWasBought ==
    /\ Current # 0 => Current \in paid /\ sub[Current].plan \in sold[Current]
    /\ \A p \in {user, tier} \ {FreePlan} : \E k \in paid : p \in sold[k]

\* Nothing is going on or due, and nothing failed on the way.
Quiet ==
    /\ \A k \in Checkouts :
         stripe[k].status \in {"active", "past_due"} => stripe[k].until > now
    /\ \A h \in Handlers : handler[h].pc = "idle"
    /\ \A e \in 1..Len(events) : e \in acked
    /\ faults = 0

\* When every event has been delivered, in order and without failures, the
\* rows say what Stripe says: the status, the plan that is billed, and
\* whether it is cancelled at the end of its period.
SettledMirrorsStripe ==
    Quiet => \A k \in Checkouts :
        stripe[k].status # "none" =>
            /\ sub[k].status = "ACTIVE" <=> stripe[k].status = "active"
            /\ sub[k].status = "CANCELLED" <=> stripe[k].status = "canceled"
            /\ sub[k].plan = stripe[k].price
            /\ sub[k].ends = stripe[k].ends

\* ... and user.plan and the usageQuota tier, which other services read, are
\* the plan the entitlements resolve to (with one subscription).
SettledTier == Quiet /\ paid # {} => user = EntitledPlan /\ tier = EntitledPlan

\* A Stripe event is acknowledged in the end, whatever fails for a while.
EveryEventAcked == \A e \in EventIds : e <= Len(events) ~> e \in acked
=============================================================================
