-------------------------- MODULE MCBillingProofs --------------------------
(***************************************************************************)
(* The properties of MCBilling, whose behaviours are of Billing with one   *)
(* choice of parameters or with another: proved for every value of the     *)
(* constants that are left, from the lemmas of BillingProofs, taken as     *)
(* they are for the first part and through an instance for the second.     *)
(***************************************************************************)
EXTENDS MCBilling, BillingProofs

Long == INSTANCE BillingProofs WITH
    Handlers <- {h1},
    Ops <- {"checkout", "change", "cancel"},
    StripeMoves <- {"asyncPay", "renew", "default"},
    EventTypes <- AllEventTypes,
    MaxEvents <- LongMaxEvents,
    Horizon <- LongHorizon,
    MaxFaults <- 0,
    InOrder <- TRUE,
    PeriodEndKnown <- TRUE

-----------------------------------------------------------------------------
(* Settled is the Billing that Long is about, operation by operation *)

LEMMA SameWebhook ==
  ASSUME NEW h
  PROVE  /\ Settled!FindEvent(h) <=> Long!FindEvent(h)
         /\ Settled!StoreEvent(h) <=> Long!StoreEvent(h)
         /\ Settled!ProcessEvent(h) <=> Long!ProcessEvent(h)
         /\ Settled!MarkEvent(h) <=> Long!MarkEvent(h)
         /\ Settled!MarkFailed(h) <=> Long!MarkFailed(h)
BY DEF Settled!FindEvent, Long!FindEvent, Settled!StoreEvent, Long!StoreEvent, Settled!ProcessEvent,
   Long!ProcessEvent, Settled!MarkEvent, Long!MarkEvent, Settled!MarkFailed, Long!MarkFailed,
   Settled!Done, Long!Done, Settled!Goto, Long!Goto, Settled!local, Long!local,
   Settled!external, Long!external, Settled!history, Long!history, Settled!Set, Long!Set,
   Settled!IdleHandler, Long!IdleHandler, Settled!NoStripe, Long!NoStripe

LEMMA SameApplying ==
  ASSUME NEW h
  PROVE  /\ Settled!Apply(h) <=> Long!Apply(h)
         /\ Settled!SyncUser(h) <=> Long!SyncUser(h)
         /\ Settled!SyncTier(h) <=> Long!SyncTier(h)
BY DEF Settled!Apply, Long!Apply, Settled!SyncUser, Long!SyncUser, Settled!SyncTier, Long!SyncTier,
   Settled!SnapshotRow, Long!SnapshotRow, Settled!ActiveStatus, Long!ActiveStatus, Settled!Set,
   Long!Set, Settled!BlockingStatus, Long!BlockingStatus, Settled!AfterApply, Long!AfterApply,
   Settled!external, Long!external, Settled!Goto, Long!Goto, Settled!history, Long!history,
   Settled!SnapshotStatus, Long!SnapshotStatus, Settled!SnapshotPlan, Long!SnapshotPlan,
   Settled!Done, Long!Done, Settled!MapStatus, Long!MapStatus, Settled!IdleHandler,
   Long!IdleHandler, Settled!NoStripe, Long!NoStripe

LEMMA SameEndpoints ==
  ASSUME NEW h
  PROVE  /\ Settled!CreateRow(h) <=> Long!CreateRow(h)
         /\ Settled!OpenSession(h) <=> Long!OpenSession(h)
         /\ Settled!ChangeAtStripe(h) <=> Long!ChangeAtStripe(h)
         /\ Settled!CancelAtStripe(h) <=> Long!CancelAtStripe(h)
         /\ Settled!FlagRow(h) <=> Long!FlagRow(h)
BY DEF Settled!CreateRow, Long!CreateRow, Settled!OpenSession, Long!OpenSession,
   Settled!ChangeAtStripe, Long!ChangeAtStripe, Settled!CancelAtStripe, Long!CancelAtStripe,
   Settled!FlagRow, Long!FlagRow, Settled!Checkouts, Long!Checkouts, Settled!NoRow, Long!NoRow,
   Settled!Set, Long!Set, Settled!external, Long!external, Settled!history, Long!history,
   Settled!Done, Long!Done, Settled!local, Long!local, Settled!Emit, Long!Emit, Settled!Sent,
   Long!Sent, Settled!Goto, Long!Goto, Settled!IdleHandler, Long!IdleHandler, Settled!NoStripe,
   Long!NoStripe

LEMMA SameCounts ==
  ASSUME NEW pcs
  PROVE  Settled!At(pcs) = Long!At(pcs) /\ (Settled!Room <=> Long!Room)
BY DEF Settled!At, Long!At, Settled!Room, Long!Room, Settled!Cardinality, Long!Cardinality

LEMMA SameCurrent == Settled!Current = Long!Current
<1> DEFINE active == {k \in Settled!Checkouts : Settled!IsActive(sub[k])}
<1>1. active = {k \in Long!Checkouts : Long!IsActive(sub[k])}
  BY DEF Settled!Checkouts, Long!Checkouts, Settled!IsActive, Long!IsActive, Settled!ActiveStatus,
         Long!ActiveStatus
<1>2. Settled!Current = IF active = {} THEN 0 ELSE CHOOSE k \in active : \A j \in active : j <= k
  BY DEF Settled!Current
<1> HIDE DEF active
<1>3. Long!Current = IF active = {} THEN 0 ELSE CHOOSE k \in active : \A j \in active : j <= k
  BY <1>1 DEF Long!Current
<1> QED BY <1>2, <1>3

LEMMA SameBegin ==
  ASSUME NEW h, NEW op, NEW pc, NEW k, NEW p
  PROVE  /\ Settled!Begin(h, op, pc, k, p) <=> Long!Begin(h, op, pc, k, p)
         /\ Settled!ReadSession(h, k) <=> Long!ReadSession(h, k)
BY DEF Settled!Begin, Long!Begin, Settled!ReadSession, Long!ReadSession, Settled!Set, Long!Set,
   Settled!IdleHandler, Long!IdleHandler, Settled!local, Long!local, Settled!external,
   Long!external, Settled!history, Long!history, Settled!NoStripe, Long!NoStripe

LEMMA SameRequests ==
  ASSUME NEW h, NEW p
  PROVE  /\ Settled!BeginCheckout(h, p) <=> Long!BeginCheckout(h, p)
         /\ Settled!BeginChange(h, p) <=> Long!BeginChange(h, p)
         /\ Settled!BeginCancel(h) <=> Long!BeginCancel(h)
<1>1. /\ \A op, pc, k, q : Settled!Begin(h, op, pc, k, q) <=> Long!Begin(h, op, pc, k, q)
      /\ Settled!Current = Long!Current /\ Settled!Checkouts = Long!Checkouts
      /\ Settled!At({"create"}) = Long!At({"create"}) /\ (Settled!Room <=> Long!Room)
      /\ Settled!ActiveStatus = Long!ActiveStatus
      /\ Settled!Cardinality({k \in Settled!Checkouts : sub[k].status # "none"})
           = Long!Cardinality({k \in Long!Checkouts : sub[k].status # "none"})
  BY SameBegin, SameCurrent, SameCounts DEF Settled!Checkouts, Long!Checkouts,
     Settled!ActiveStatus, Long!ActiveStatus, Settled!Cardinality, Long!Cardinality
<1>2. Settled!BeginCheckout(h, p) <=> Long!BeginCheckout(h, p)
  BY <1>1, Zenon DEF Settled!BeginCheckout, Long!BeginCheckout
<1>3. Settled!BeginChange(h, p) <=> Long!BeginChange(h, p)
  BY <1>1, Zenon DEF Settled!BeginChange, Long!BeginChange
<1>4. Settled!BeginCancel(h) <=> Long!BeginCancel(h)
  BY <1>1 DEF Settled!BeginCancel, Long!BeginCancel
<1> QED BY <1>2, <1>3, <1>4

LEMMA SameOthers ==
  ASSUME NEW h, NEW e
  PROVE  /\ Settled!CallFails(h) <=> Long!CallFails(h)
         /\ Settled!Deliver(h, e) <=> Long!Deliver(h, e)
BY DEF Settled!CallFails, Long!CallFails, Settled!Deliver, Long!Deliver, Settled!Goto, Long!Goto,
   Settled!Done, Long!Done, Settled!local, Long!local, Settled!external, Long!external,
   Settled!history, Long!history, Settled!Set, Long!Set, Settled!IdleHandler, Long!IdleHandler,
   Settled!NoStripe, Long!NoStripe

LEMMA SameRestarts ==
  /\ Settled!Restart <=> Long!Restart
BY DEF Settled!Restart, Long!Restart, Settled!IdleHandler, Long!IdleHandler, Settled!local,
   Long!local, Settled!external, Long!external, Settled!history, Long!history, Settled!NoStripe,
   Long!NoStripe

LEMMA SameStripeMoves ==
  ASSUME NEW k, NEW p
  PROVE  /\ Settled!CompleteCheckout(k) <=> Long!CompleteCheckout(k)
         /\ Settled!PayInvoice(k) <=> Long!PayInvoice(k)
         /\ Settled!PeriodEnds(k) <=> Long!PeriodEnds(k)
         /\ Settled!PortalChange(k, p) <=> Long!PortalChange(k, p)
BY DEF Settled!CompleteCheckout, Long!CompleteCheckout, Settled!PayInvoice, Long!PayInvoice,
   Settled!PeriodEnds, Long!PeriodEnds, Settled!PortalChange, Long!PortalChange, Settled!Emit,
   Long!Emit, Settled!Sent, Long!Sent, Settled!local, Long!local, Settled!history, Long!history

LEMMA SameTick ==
  /\ Settled!Tick <=> Long!Tick
BY DEF Settled!Tick, Long!Tick, Settled!Checkouts, Long!Checkouts, Settled!local, Long!local,
   Settled!external, Long!external, Settled!history, Long!history

-----------------------------------------------------------------------------
(* Settled and Long have the same behaviours *)

LEMMA SameStart == Settled!Init => Long!Init
<1>1. /\ Settled!NoRow = Long!NoRow /\ Settled!NoStripe = Long!NoStripe
      /\ Settled!Checkouts = Long!Checkouts /\ Settled!EventIds = Long!EventIds
  BY DEF Settled!NoRow, Long!NoRow, Settled!NoStripe, Long!NoStripe, Settled!Checkouts,
         Long!Checkouts, Settled!EventIds, Long!EventIds
<1>2. Settled!IdleHandler = Long!IdleHandler
  BY <1>1 DEF Settled!IdleHandler, Long!IdleHandler
<1> QED BY <1>1, <1>2, Zenon DEF Settled!Init, Long!Init

LEMMA SameServe == ASSUME NEW h PROVE Settled!Serve(h) => Long!Serve(h)
BY SameWebhook, SameApplying, SameEndpoints, Zenon DEF Settled!Serve, Long!Serve

LEMMA SameRequest == ASSUME NEW h PROVE Settled!Request(h) => Long!Request(h)
<1>1. Settled!Checkouts = Long!Checkouts BY DEF Settled!Checkouts, Long!Checkouts
<1>2. \A k : Settled!ReadSession(h, k) <=> Long!ReadSession(h, k) BY SameBegin
<1> QED BY <1>1, <1>2, SameRequests, Zenon DEF Settled!Request, Long!Request

LEMMA SameStripe == Settled!BoundedStripeStep => Long!BoundedStripeStep
<1>1. Settled!Checkouts = Long!Checkouts BY DEF Settled!Checkouts, Long!Checkouts
<1>2. Settled!StripeStep => Long!StripeStep
  BY <1>1, SameStripeMoves, SameTick, Zenon DEF Settled!StripeStep, Long!StripeStep
<1>3. Settled!At({"changeAt", "pick"}) = Long!At({"changeAt", "pick"}) BY SameCounts
<1> QED BY <1>2, <1>3, Zenon DEF Settled!BoundedStripeStep, Long!BoundedStripeStep

LEMMA SameStep == Settled!Next => Long!Next
<1>1. Settled!EventIds = Long!EventIds BY DEF Settled!EventIds, Long!EventIds
<1> QED BY <1>1, SameServe, SameRequest, SameOthers, SameStripe, SameRestarts, Zenon
        DEF Settled!Next, Long!Next

LEMMA SameInbox ==
  /\ Long!IsInbox!InboxInit => Settled!IsInbox!InboxInit
  /\ Long!IsInbox!InboxNext => Settled!IsInbox!InboxNext
BY DEF Settled!IsInbox!InboxInit, Long!IsInbox!InboxInit, Settled!IsInbox!InboxNext,
   Long!IsInbox!InboxNext, Settled!IsInbox!Store, Long!IsInbox!Store, Settled!IsInbox!ApplyOnce,
   Long!IsInbox!ApplyOnce, Settled!IsInbox!Close, Long!IsInbox!Close, Settled!IsInbox!Ack,
   Long!IsInbox!Ack, Settled!EventIds, Long!EventIds

LEMMA SameRows == Long!SettledMirrorsStripe => Settled!SettledMirrorsStripe
BY DEF Settled!SettledMirrorsStripe, Long!SettledMirrorsStripe, Settled!Quiet, Long!Quiet,
   Settled!Checkouts, Long!Checkouts

LEMMA SameTier == Long!SettledTier => Settled!SettledTier
<1>1. Settled!EntitledPlan = Long!EntitledPlan
  BY SameCurrent, Zenon DEF Settled!EntitledPlan, Long!EntitledPlan
<1>2. Settled!Quiet <=> Long!Quiet
  BY DEF Settled!Quiet, Long!Quiet, Settled!Checkouts, Long!Checkouts
<1> QED BY <1>1, <1>2, Zenon DEF Settled!SettledTier, Long!SettledTier

\* The plan in use is computed from the rows alone.
LEMMA SamePlan == Long!PlanWasBought => PlanWasBought
<1> DEFINE active == {k \in Checkouts : IsActive(sub[k])}
<1>1. active = {k \in Long!Checkouts : Long!IsActive(sub[k])}
  BY DEF Checkouts, Long!Checkouts, IsActive, Long!IsActive, ActiveStatus, Long!ActiveStatus
<1>2. Current = IF active = {} THEN 0 ELSE CHOOSE k \in active : \A j \in active : j <= k
  BY DEF Current
<1> HIDE DEF active
<1>3. Long!Current = IF active = {} THEN 0 ELSE CHOOSE k \in active : \A j \in active : j <= k
  BY <1>1 DEF Long!Current
<1>4. Current = Long!Current BY <1>2, <1>3
<1> QED BY <1>4, Zenon DEF PlanWasBought, Long!PlanWasBought

-----------------------------------------------------------------------------
(* The second part *)

\* The assumptions of Billing hold of its parameters, and they are the setting in which
\* what is settled mirrors Stripe.
LEMMA LongAssumptions == Long!PlansAssumption /\ Long!BoundsAssumption
BY PlansAssumption, BoundsAssumption, LongAssumption
   DEF Long!PlansAssumption, Long!BoundsAssumption

LEMMA LongIsOrderly == Long!Orderly
BY DEF Long!Orderly, Long!AllEventTypes, AllEventTypes

LongInv ==
    /\ Long!TypeInv /\ Long!InboxInv /\ Long!BoughtInv
    /\ faults = 0 => Long!SettleInv

LEMMA LongBegins == Settled!Init => LongInv /\ Settled!IsInbox!InboxInit
BY SameStart, SameInbox, LongAssumptions, Long!TypesBegin, Long!InboxBegins, Long!BoughtBegins,
   Long!SettlesBegin DEF LongInv

LEMMA LongGoesOn ==
  ASSUME LongInv, Settled!Next \/ UNCHANGED vars
  PROVE  LongInv' /\ [Settled!IsInbox!InboxNext]_<<stored, applied, acked>>
<1>1. [Long!Next]_(Long!vars)
  BY SameStep DEF vars, local, external, history, Long!vars, Long!local, Long!external,
                  Long!history
<1>2. Long!TypeInv' BY <1>1, LongAssumptions, Long!TypesGoOn DEF LongInv
<1>3. Long!InboxInv' /\ Long!InboxStep
  BY <1>1, LongAssumptions, Long!InboxGoesOn DEF LongInv
<1>4. Long!BoughtInv' BY <1>1, LongAssumptions, Long!BoughtGoesOn DEF LongInv
<1>5. faults' = 0 => Long!SettleInv'
  BY <1>1, LongAssumptions, LongIsOrderly, Long!SettlesGoOn DEF LongInv
<1>6. [Settled!IsInbox!InboxNext]_<<stored, applied, acked>>
  BY <1>3, SameInbox DEF Long!InboxStep, Long!IsInbox!inboxVars
<1> QED BY <1>2, <1>3, <1>4, <1>5, <1>6 DEF LongInv

LEMMA LongIsSettled ==
  ASSUME LongInv
  PROVE  /\ Settled!SettledMirrorsStripe /\ PlanWasBought
         /\ NumCheckouts = 1 => Settled!SettledTier
<1>1. Long!SettledMirrorsStripe
  BY LongAssumptions, Long!SettledIsMirrored DEF LongInv
<1>2. Long!PlanWasBought BY LongAssumptions, Long!BoughtIsBought DEF LongInv
<1>3. ASSUME NumCheckouts = 1 PROVE Long!SettledTier
  <2>1. Long!OneCheckout BY <1>3 DEF Long!OneCheckout, Long!Checkouts
  <2> QED BY <2>1, LongAssumptions, Long!SettledIsCopied DEF LongInv
<1> QED BY <1>1, <1>2, <1>3, SameRows, SamePlan, SameTier

-----------------------------------------------------------------------------
(* Both parts *)

MCInv ==
    /\ part \in {"any", "long"}
    /\ part = "any" => TypeInv /\ InboxInv /\ BoughtInv
    /\ part = "long" => LongInv

LEMMA PartsBegin ==
  MCInit => MCInv /\ (IF part = "any" THEN IsInbox!InboxInit ELSE Settled!IsInbox!InboxInit)
<1>1. ASSUME part = "any", Init PROVE TypeInv /\ InboxInv /\ BoughtInv /\ IsInbox!InboxInit
  BY <1>1, TypesBegin, InboxBegins, BoughtBegins
<1>2. ASSUME part = "long", Settled!Init PROVE LongInv /\ Settled!IsInbox!InboxInit
  BY <1>2, LongBegins
<1> QED BY <1>1, <1>2 DEF MCInit, MCInv

PartStep == IF part = "any" THEN IsInbox!InboxNext ELSE Settled!IsInbox!InboxNext

LEMMA PartsGoOn ==
  MCInv /\ [MCNext]_<<part, vars>> => MCInv' /\ [PartStep]_<<stored, applied, acked>>
<1> SUFFICES ASSUME MCInv, [MCNext]_<<part, vars>>
             PROVE  MCInv' /\ [PartStep]_<<stored, applied, acked>>
  OBVIOUS
<1>1. part' = part BY DEF MCNext
<1>2. CASE part = "any"
  <2>1. [Next]_vars BY <1>2 DEF MCNext
  <2>2. TypeInv /\ InboxInv /\ BoughtInv BY <1>2 DEF MCInv
  <2>3. TypeInv' /\ InboxInv' /\ BoughtInv' /\ InboxStep
    BY <2>1, <2>2, TypesGoOn, InboxGoesOn, BoughtGoesOn
  <2>4. [IsInbox!InboxNext]_<<stored, applied, acked>>
    BY <2>3 DEF InboxStep, IsInbox!inboxVars
  <2> QED BY <1>1, <1>2, <2>3, <2>4 DEF MCInv, PartStep
<1>3. CASE part = "long"
  <2>1. Settled!Next \/ UNCHANGED vars BY <1>3 DEF MCNext
  <2>2. LongInv BY <1>3 DEF MCInv
  <2>3. LongInv' /\ [Settled!IsInbox!InboxNext]_<<stored, applied, acked>>
    BY <2>1, <2>2, LongGoesOn
  <2> QED BY <1>1, <1>3, <2>3 DEF MCInv, PartStep
<1> QED BY <1>2, <1>3 DEF MCInv

\* With every event delivered in order and nothing failing, the rows mirror Stripe, and
\* user.plan and the tier are the plan in force, for any plans, events and periods: with
\* one checkout, since of two subscriptions of a company the later event sets the tier.
THEOREM EveryPartSettles == MCSpec => [](NumCheckouts = 1 => BillingSettles)
<1>1. MCInv => (NumCheckouts = 1 => BillingSettles)
  BY LongIsSettled DEF MCInv, BillingSettles
<1> QED BY <1>1, PartsBegin, PartsGoOn, PTL DEF MCSpec

\* In either part no plan is in use that was not bought and paid.
THEOREM EveryPlanIsBought == MCSpec => []PlanWasBought
<1>1. MCInv => PlanWasBought
  BY LongIsSettled, BoughtIsBought DEF MCInv
<1> QED BY <1>1, PartsBegin, PartsGoOn, PTL DEF MCSpec

\* In either part the webhook, with its rows, counts and answers, behaves as the inbox:
\* every step of it is a step of Inbox or leaves the three unchanged.
THEOREM EveryPartIsInbox == MCSpec => WebhookIsInbox
<1>1. MCInv /\ [MCNext]_<<part, vars>> =>
        /\ MCInv'
        /\ [IF part = "any" THEN IsInbox!InboxNext
            ELSE Settled!IsInbox!InboxNext]_<<stored, applied, acked>>
  BY PartsGoOn DEF PartStep
<1> QED BY <1>1, PartsBegin, PTL DEF MCSpec, WebhookIsInbox
=============================================================================
