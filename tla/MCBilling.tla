----------------------------- MODULE MCBilling -----------------------------
(***************************************************************************)
(* Small instances of Billing for TLC: one in which anything may overlap   *)
(* and fail, and a longer one in which events come in order.  Each         *)
(* behaviour is of one of them, chosen at the start.                       *)
(***************************************************************************)
EXTENDS Billing, TLC

CONSTANTS common, premium, h1, h2, LongMaxEvents, LongHorizon

ASSUME LongAssumption == {LongMaxEvents, LongHorizon} \subseteq Nat

Settled == INSTANCE Billing WITH
    Handlers <- {h1},
    Ops <- {"checkout", "change", "cancel"},
    StripeMoves <- {"asyncPay", "renew", "default"},
    EventTypes <- AllEventTypes,
    MaxEvents <- LongMaxEvents,
    Horizon <- LongHorizon,
    MaxFaults <- 0,
    InOrder <- TRUE,
    PeriodEndKnown <- TRUE

VARIABLE part

MCInit ==
    \/ part = "any" /\ Init
    \/ part = "long" /\ Settled!Init

MCNext ==
    \/ part = "any" /\ Next /\ UNCHANGED part
    \/ part = "long" /\ Settled!Next /\ UNCHANGED part

MCSpec == MCInit /\ [][MCNext]_<<part, vars>>

\* The fairness of FairSpec.
MCFairSpec ==
    /\ MCSpec
    /\ \A h \in Handlers : WF_vars(part = "any" /\ Serve(h))
    /\ \A e \in EventIds :
         SF_vars(part = "any" /\ e \notin acked /\ \E h \in Handlers : Deliver(h, e))

\* When every event has been delivered, in order and without failures, the rows
\* mirror Stripe, and user.plan and the usageQuota tier, which other services read,
\* are the plan the entitlements resolve to.
BillingSettles ==
    part = "long" => Settled!SettledMirrorsStripe /\ Settled!SettledTier

\* handleStripeWebhook is an at-most-once inbox: with deliveries of one event in
\* progress at the same time, repeated, cut short by errors and restarts, an event
\* changes the subscription at most once, is on record before Stripe is told to stop
\* sending it, and is marked processed only if it was applied.
WebhookIsInbox ==
    /\ IF part = "any" THEN IsInbox!InboxInit ELSE Settled!IsInbox!InboxInit
    /\ [][IF part = "any" THEN IsInbox!InboxNext
          ELSE Settled!IsInbox!InboxNext]_<<stored, applied, acked>>

\* A Stripe event is acknowledged in the end, whatever fails for a while.
AckedInTheEnd ==
    \A e \in EventIds : part = "any" /\ e <= Len(events) ~> e \in acked
=============================================================================
