----------------------------- MODULE Entitlements -----------------------------
(***************************************************************************)
(* What plan a company is served with.  Two services answer the question   *)
(* from the same subscriptions: the guard of every request                 *)
(* (billing.service.ts, subscription.guard.ts), which may also grant a     *)
(* subscription, and the gates of features and quotas                      *)
(* (plan-entitlements.service.ts).  A third answer, the tier of the usage  *)
(* quota and the plan of the user, is written with every event             *)
(* (syncLegacyPlan) and by administrators (admin.service.ts).              *)
(*                                                                         *)
(* Billing models how Stripe's events reach a subscription; here they      *)
(* change several subscriptions of several companies of one owner, write   *)
(* by write, and any of them may overlap another or stop half-way.         *)
(***************************************************************************)
EXTENDS Naturals, Sequences, FiniteSets

CONSTANTS
    Shops,          \* the owner's companies
    Sold,           \* plans that are sold
    Taken,          \* subscriptions looked at; 5 in the code
    Calls,          \* events, requests and cancellations under way at a time
    MaxSubs         \* bound on subscriptions

PlanKeys == {"COMMON", "PREMIUM", "PRO_BUSINESS"}

ASSUME EntitlementsAssumption == Sold \subseteq PlanKeys /\ Taken \in Nat \ {0} /\ MaxSubs \in Nat

VARIABLES
    subs,       \* Subscription rows in the order of their creation
    quotaTier,       \* UsageQuota.currentTier per company, as the plan it stands for
    userPlan,  \* User.plan of the owner, likewise
    admin,      \* whether the owner is an administrator
    grace,      \* whether owners from before the subscriptions keep their plan
    home,       \* the company the owner is linked to
    work,       \* what each call has read and has still to write
    uneven,     \* history: companies whose tier something has disturbed since a call
                \* about their only active subscription last ran to its end undisturbed
    served      \* history: how the guard let a request through in the last step

entitlementVars == <<subs, quotaTier, userPlan, admin, grace, home, work, uneven, served>>

-----------------------------------------------------------------------------
(* The catalog *)

NoQuotaRow == "none"
NoQuota == 1000000
Level(plan) == CASE plan = "COMMON" -> 1 [] plan = "PREMIUM" -> 2 [] OTHER -> 3

BasicFeatures == {"DASHBOARD_BASIC", "REPORTS_SIMPLE", "AI_CHAT", "SMART_IMPORTS"}
PremiumFeatures == BasicFeatures \cup
    {"DASHBOARD_ADVANCED", "REPORTS_AUTOMATIC", "WHATSAPP_INTEGRATION",
     "INSTAGRAM_INTEGRATION", "MERCADO_LIVRE_INTEGRATION", "WHATSAPP_AI_ATTENDANT",
     "INSTAGRAM_AI_ATTENDANT", "PRIORITY_SUPPORT"}
AllFeatures == PremiumFeatures \cup
    {"UTMIFY_INTEGRATION", "MARKETPLACE_INTEGRATIONS", "MARKET_INTELLIGENCE",
     "ADVANCED_FORECAST", "ADVANCED_AUTOMATIONS", "DEDICATED_SUPPORT"}

PlanCatalog ==
    [plan \in PlanKeys |->
        CASE plan = "COMMON" ->
               [features |-> BasicFeatures,
                quotas |-> [chat |-> 400, whatsapp |-> 0, instagram |-> 0, imports |-> 30]]
          [] plan = "PREMIUM" ->
               [features |-> PremiumFeatures,
                quotas |-> [chat |-> 1000, whatsapp |-> 3000, instagram |-> 3000,
                            imports |-> 240]]
          [] OTHER ->
               [features |-> AllFeatures,
                quotas |-> [chat |-> 5000, whatsapp |-> 10000, instagram |-> 10000,
                            imports |-> NoQuota]]]

FeatureOf == [chat |-> "AI_CHAT", whatsapp |-> "WHATSAPP_AI_ATTENDANT",
              instagram |-> "INSTAGRAM_AI_ATTENDANT", imports |-> "SMART_IMPORTS"]

CanAccessFeature(plan, feature) == feature \in PlanCatalog[plan].features

\* Mutant: the last one is counted twice.
QuotaAvailableOver(plan, key, used) ==
    LET quota == PlanCatalog[plan].quotas[key] IN quota = NoQuota \/ used <= quota

QuotaAvailable(plan, key, used) ==
    LET quota == PlanCatalog[plan].quotas[key] IN quota = NoQuota \/ used < quota

\* The lowest plan of a set, the highest of all if the set is empty.
LowestOf(plans) ==
    IF plans = {} THEN "PRO_BUSINESS"
    ELSE CHOOSE p \in plans : \A q \in plans : Level(p) <= Level(q)

RequiredPlan(feature) == LowestOf({p \in PlanKeys : CanAccessFeature(p, feature)})

RecommendedUpgrade(plan, key) ==
    LowestOf({p \in PlanKeys : /\ Level(p) > Level(plan)
                            /\ PlanCatalog[p].quotas[key] > PlanCatalog[plan].quotas[key]})

-----------------------------------------------------------------------------
(* Which plan *)

Rows(shop) == {i \in DOMAIN subs : subs[i].shop = shop}
Active(rows) == {i \in rows : subs[i].status = "active"}
Newest(rows) == CHOOSE i \in rows : \A j \in rows : j <= i
Running(rows) == {i \in rows : ~subs[i].over}

\* The newest active rows that are looked at, as many as there are.
LookedAt(rows) == {i \in Active(rows) : Cardinality({j \in Active(rows) : j > i}) < Taken}

\* isSubscriptionCurrentlyActive, isSubscriptionActive.
LiveRows(shop) == Running(LookedAt(Rows(shop)))

\* Mutant: the tier, if there is one.
ResolvePlanTier(shop) ==
    IF quotaTier[shop] # NoQuotaRow THEN quotaTier[shop]
    ELSE IF LiveRows(shop) # {} THEN subs[Newest(LiveRows(shop))].plan ELSE userPlan

\* resolveCompanyPlanKey.
ResolvePlan(shop) ==
    IF LiveRows(shop) # {} THEN subs[Newest(LiveRows(shop))].plan
    ELSE IF Rows(shop) # {} THEN "COMMON"
    ELSE IF quotaTier[shop] # NoQuotaRow THEN quotaTier[shop]
    ELSE userPlan

-----------------------------------------------------------------------------

\* A call that begins, about a company, a subscription and a plan, and one that is over.
Begun(at, shop, i, plan) ==
    [at |-> at, shop |-> shop, plan |-> plan, source |-> "none", row |-> i,
     target |-> shop, alone |-> TRUE]

NoCall == Begun("idle", "none", 0, "none")

NotServed == [right |-> TRUE, elsewhere |-> FALSE, alone |-> TRUE]

EntitlementsInit ==
    /\ subs = <<>>
    /\ quotaTier = [shop \in Shops |-> NoQuotaRow]
    /\ userPlan \in {"COMMON", "PREMIUM"}
    /\ admin \in BOOLEAN /\ grace \in BOOLEAN
    /\ home \in Shops
    /\ work = [c \in Calls |-> NoCall]
    /\ uneven = {}
    /\ served = NotServed

Proceed(c, call) == work' = [work EXCEPT ![c] = call]

\* A call writes a subscription: the others under way no longer run alone (history).
Stir(c, call) ==
    work' = [d \in Calls |-> IF d = c THEN call
                             ELSE IF work[d] = NoCall THEN NoCall
                             ELSE [work[d] EXCEPT !.alone = FALSE]]

NotLetThrough == served' = NotServed

\* createSubscriptionCheckout.
OpenCheckout(shop, plan) ==
    /\ Len(subs) < MaxSubs
    /\ subs' = Append(subs, [shop |-> shop, plan |-> plan, status |-> "pending",
                             over |-> FALSE, source |-> "stripe"])
    /\ UNCHANGED <<quotaTier, userPlan, admin, grace, home, work, uneven>> /\ NotLetThrough

\* Time passes a subscription's period, whoever is looking at it.
PeriodPasses(i) ==
    /\ subs[i].status = "active" /\ subs[i].source = "stripe" /\ ~subs[i].over
    /\ subs' = [subs EXCEPT ![i] = [@ EXCEPT !.over = TRUE]]
    /\ work' = [d \in Calls |-> IF work[d] = NoCall THEN NoCall
                                ELSE [work[d] EXCEPT !.alone = FALSE]]
    /\ uneven' = uneven \cup {subs[i].shop}
    /\ UNCHANGED <<quotaTier, userPlan, admin, grace, home>> /\ NotLetThrough

\* updateQuota of admin.service.ts.
EditTier(shop, plan) ==
    /\ quotaTier' = [quotaTier EXCEPT ![shop] = plan]
    /\ uneven' = uneven \cup {shop}
    /\ UNCHANGED <<subs, userPlan, admin, grace, home, work>> /\ NotLetThrough

MoveHome(shop) ==
    /\ home' = shop
    /\ UNCHANGED <<subs, quotaTier, userPlan, admin, grace, work, uneven>> /\ NotLetThrough

-----------------------------------------------------------------------------
(* Events and cancellations: a subscription, then the owner, then the tier *)

\* What is left to be written for a subscription that was just written.
SyncOf(i, plan) == Begun("plan", subs[i].shop, i, plan)

\* Mutant: a subscription that ends does not touch the tier.
EventSilent(c, i, status, plan) ==
    /\ work[c] = NoCall /\ subs[i].source = "stripe"
    /\ subs' = [subs EXCEPT ![i] = [@ EXCEPT !.status = status, !.plan = plan, !.over = FALSE]]
    /\ Stir(c, IF status = "active" THEN SyncOf(i, plan) ELSE NoCall)
    /\ uneven' = IF status = "active" THEN uneven \cup {subs[i].shop} ELSE uneven
    /\ UNCHANGED <<quotaTier, userPlan, admin, grace, home>> /\ NotLetThrough

\* applyStripeSubscription: a subscription that is active, or on trial, is to set owner
\* and tier to its plan, one that is blocked to COMMON, whatever others there are; a
\* status the code does not know is kept as pending and leaves both alone.
StripeEvent(c, i, status, plan) ==
    /\ work[c] = NoCall /\ subs[i].source = "stripe"
    /\ subs' = [subs EXCEPT ![i] = [@ EXCEPT !.status = status, !.plan = plan, !.over = FALSE]]
    /\ Stir(c, CASE status = "active" -> SyncOf(i, plan)
                 [] status = "blocked" -> SyncOf(i, "COMMON")
                 [] OTHER -> NoCall)
    /\ uneven' = IF status = "pending" /\ subs[i].status # "active" THEN uneven
                 ELSE uneven \cup {subs[i].shop}
    /\ UNCHANGED <<quotaTier, userPlan, admin, grace, home>> /\ NotLetThrough

\* cancelCurrentSubscription, for the owner's newest active subscription; Stripe's own
\* is only told to end with its period, a grant is closed here.
Cancel(c) ==
    /\ work[c] = NoCall /\ Active(DOMAIN subs) # {}
    /\ subs[Newest(Active(DOMAIN subs))].source # "stripe"
    /\ Proceed(c, Begun("cancel", "none", Newest(Active(DOMAIN subs)), "none"))
    /\ UNCHANGED <<subs, quotaTier, userPlan, admin, grace, home, uneven>> /\ NotLetThrough

CloseGrant(c) ==
    LET i == work[c].row
    IN  /\ work[c].at = "cancel"
        /\ subs' = [subs EXCEPT ![i] = [@ EXCEPT !.status = "blocked"]]
        /\ Stir(c, SyncOf(i, "COMMON"))
        /\ uneven' = uneven \cup {subs[i].shop}
        /\ UNCHANGED <<quotaTier, userPlan, admin, grace, home>> /\ NotLetThrough

-----------------------------------------------------------------------------
(* The guard *)

\* The guard lets a request through on a subscription (history: whether the gates go by
\* the same plan then, whether they look at that subscription, whether the guard ran
\* with no subscription written meanwhile).
LetThrough(call, i, plan) ==
    served' = [right |-> plan = ResolvePlan(call.shop),
               elsewhere |-> i \notin LiveRows(call.shop), alone |-> call.alone]

\* ensureEntitledSubscriptionForUser, for a company: a live subscription of the company,
\* else the owner is read.
Guard(c, shop) ==
    LET call == Begun("user", shop, 0, "none") IN
    /\ work[c] = NoCall
    /\ IF LiveRows(shop) # {}
       THEN LET i == Newest(LiveRows(shop))
            IN  LetThrough(call, i, subs[i].plan) /\ UNCHANGED work
       ELSE Proceed(c, call) /\ NotLetThrough
    /\ UNCHANGED <<subs, quotaTier, userPlan, admin, grace, home, uneven>>

\* An administrator is granted the highest plan for the company he is linked to.
ReadOwner(c) ==
    LET call == work[c] IN
    /\ call.at = "user"
    /\ Proceed(c, IF admin /\ call.shop = home
                  THEN [call EXCEPT !.at = "grant", !.plan = "PRO_BUSINESS",
                                    !.source = "admin", !.target = home]
                  ELSE [call EXCEPT !.at = "latest", !.plan = userPlan, !.target = home])
    /\ UNCHANGED <<subs, quotaTier, userPlan, admin, grace, home, uneven>> /\ NotLetThrough

\* The company's latest subscription decides if it has one, live or not; else owners
\* from before the subscriptions keep their plan.
ReadLatest(c) ==
    LET call == work[c]
        i == Newest(Rows(call.shop))
    IN
    /\ call.at = "latest"
    /\ \/ /\ Rows(call.shop) # {} /\ i \in Running(Active({i}))
          /\ LetThrough(call, i, subs[i].plan) /\ Proceed(c, NoCall)
       \/ /\ Rows(call.shop) # {} /\ i \notin Running(Active({i}))
          /\ Proceed(c, NoCall) /\ NotLetThrough
       \/ /\ Rows(call.shop) = {}
          /\ Proceed(c, IF grace /\ call.plan # "COMMON"
                        THEN [call EXCEPT !.at = "grant", !.source = "legacy"] ELSE NoCall)
          /\ NotLetThrough
    /\ UNCHANGED <<subs, quotaTier, userPlan, admin, grace, home, uneven>>

Grants(source) == {i \in DOMAIN subs : subs[i].source = source}

\* grantInternalSubscription: an active grant of the owner, of whichever company, will do.
FindGrant(c) ==
    LET call == work[c]
        live == Active(Grants(call.source))
    IN
    /\ call.at = "grant"
    /\ IF live # {}
       THEN LetThrough(call, Newest(live), subs[Newest(live)].plan) /\ Proceed(c, NoCall)
       ELSE Proceed(c, [call EXCEPT !.at = "reuse"]) /\ NotLetThrough
    /\ UNCHANGED <<subs, quotaTier, userPlan, admin, grace, home, uneven>>

\* One that is no longer active is taken up again, if there is one.
FindReusable(c) ==
    LET call == work[c]
        old == Grants(call.source)
    IN
    /\ call.at = "reuse"
    /\ Proceed(c, [call EXCEPT !.at = "write", !.row = IF old = {} THEN 0 ELSE Newest(old)])
    /\ UNCHANGED <<subs, quotaTier, userPlan, admin, grace, home, uneven>> /\ NotLetThrough

\* It is moved to the company, or a new one made there.
WriteGrant(c) ==
    LET call == work[c]
        row == [shop |-> call.shop, plan |-> call.plan, status |-> "active",
                over |-> FALSE, source |-> call.source]
    IN
    /\ call.at = "write"
    /\ \/ /\ call.row = 0 /\ Len(subs) < MaxSubs
          /\ subs' = Append(subs, row)
          /\ Stir(c, [call EXCEPT !.at = "plan", !.row = Len(subs) + 1])
          /\ uneven' = uneven \cup {call.shop}
       \/ /\ call.row # 0
          /\ subs' = [subs EXCEPT ![call.row] = row]
          /\ Stir(c, [call EXCEPT !.at = "plan"])
          /\ uneven' = uneven \cup {call.shop, subs[call.row].shop}
    /\ UNCHANGED <<quotaTier, userPlan, admin, grace, home>> /\ NotLetThrough

-----------------------------------------------------------------------------
(* syncLegacyPlan *)

WriteOwner(c) ==
    /\ work[c].at = "plan"
    /\ userPlan' = work[c].plan
    /\ Proceed(c, [work[c] EXCEPT !.at = "tier"])
    /\ UNCHANGED <<subs, quotaTier, admin, grace, home, uneven>> /\ NotLetThrough

\* A grant sets the tier of the company the owner is linked to, not of the grant's.
WriteTier(c) ==
    LET call == work[c]
        undisturbed == /\ call.alone /\ call.shop = call.target
                       /\ Active(Rows(call.target)) \subseteq {call.row}
    IN
    /\ call.at = "tier"
    /\ quotaTier' = [quotaTier EXCEPT ![call.target] = call.plan]
    /\ uneven' = IF undisturbed THEN uneven \ {call.target} ELSE uneven \cup {call.target}
    /\ IF call.source = "none" THEN NotLetThrough ELSE LetThrough(call, call.row, call.plan)
    /\ Proceed(c, NoCall)
    /\ UNCHANGED <<subs, userPlan, admin, grace, home>>

\* A database call fails, or the process ends: what is not yet written is not.
BreakOff(c) ==
    /\ work[c] # NoCall
    /\ Proceed(c, NoCall)
    /\ UNCHANGED <<subs, quotaTier, userPlan, admin, grace, home, uneven>> /\ NotLetThrough

EntitlementsNext ==
    \/ \E shop \in Shops, plan \in Sold :
         OpenCheckout(shop, plan) \/ EditTier(shop, plan)
    \/ \E shop \in Shops : MoveHome(shop)
    \/ \E i \in DOMAIN subs : PeriodPasses(i)
    \/ \E c \in Calls :
         \/ \E shop \in Shops : Guard(c, shop)
         \/ \E i \in DOMAIN subs, status \in {"active", "blocked", "pending"}, plan \in Sold :
              StripeEvent(c, i, status, plan)
         \/ Cancel(c) \/ CloseGrant(c)
         \/ ReadOwner(c) \/ ReadLatest(c) \/ FindGrant(c) \/ FindReusable(c) \/ WriteGrant(c)
         \/ WriteOwner(c) \/ WriteTier(c)
         \/ BreakOff(c)

EntitlementsSpec == EntitlementsInit /\ [][EntitlementsNext]_entitlementVars
-----------------------------------------------------------------------------
(* Properties *)

SubRow ==
    [shop : Shops, plan : PlanKeys, status : {"pending", "active", "blocked"},
     over : BOOLEAN, source : {"stripe", "admin", "legacy"}]

Work ==
    [at : {"idle", "user", "latest", "grant", "reuse", "write", "plan", "tier", "cancel"},
     shop : Shops \cup {"none"}, plan : PlanKeys \cup {"none"},
     source : {"none", "admin", "legacy"}, row : Nat, target : Shops \cup {"none"},
     alone : BOOLEAN]

\* Types of the subscriptions, of what is derived from them and of the calls under way.
EntitlementsTypeOK ==
    /\ subs \in Seq(SubRow)
    /\ quotaTier \in [Shops -> PlanKeys \cup {NoQuotaRow}] /\ userPlan \in PlanKeys
    /\ work \in [Calls -> Work]
    /\ uneven \subseteq Shops

\* A request is let through on the plan that features and quotas are then judged by,
\* whatever events, period ends, edits, grants and cancellations came before, unless
\* the guard took up a grant the gates do not look at, of another of the owner's
\* companies or older than the subscriptions that are looked at, or a subscription was
\* written while it was between its first look and its answer.
GuardAgreesWithGates == served.alone /\ ~served.elsewhere => served.right

\* Once an event, a grant or a cancellation about a company's only active subscription
\* has run to its end with no other subscription written meanwhile, the tier is the plan
\* the subscriptions give the company, whatever was half written or edited before; and
\* it stays that until a subscription of the company is written again, a period ends,
\* the tier is edited, a grant moves away or a late call writes it.
TierFollowsPlan ==
    \A shop \in Shops \ uneven :
        Rows(shop) # {} /\ quotaTier[shop] # NoQuotaRow => quotaTier[shop] = ResolvePlan(shop)

\* A plan that is refused a feature or more of a quota is sent to a plan that has it:
\* the plan required has the feature and no cheaper plan does, the plan recommended
\* allows what the quota refused unless no plan does, and what may be used is included.
UpgradeHelps ==
    /\ \A feature \in AllFeatures, plan \in PlanKeys :
         CanAccessFeature(plan, feature) <=> Level(plan) >= Level(RequiredPlan(feature))
    /\ \A plan \in PlanKeys, key \in DOMAIN FeatureOf :
         LET used == PlanCatalog[plan].quotas[key]
         IN  /\ ~QuotaAvailable(plan, key, used) /\ plan # "PRO_BUSINESS" =>
                  QuotaAvailable(RecommendedUpgrade(plan, key), key, used)
             /\ CanAccessFeature(plan, FeatureOf[key]) <=> QuotaAvailable(plan, key, 0)

\* Guard, gates, tier and the upgrades that are offered go by one plan.
OnePlan == GuardAgreesWithGates /\ TierFollowsPlan /\ UpgradeHelps
=============================================================================
