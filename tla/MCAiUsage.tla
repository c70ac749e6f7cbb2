----------------------------- MODULE MCAiUsage -----------------------------
(***************************************************************************)
(* Small instances, for TLC, of the metering of AI requests and of the     *)
(* plan a company is entitled to.  They share no variable: each behaviour  *)
(* is one of them, chosen at the start, so that their states add up.       *)
(***************************************************************************)
EXTENDS AiUsage, Entitlements, TLC

CONSTANTS common, premium, s1, s2, k1, k2, c1, c2

\* The catalog's limits of the attendants, 0 < 3000, at a scale TLC can reach; the
\* chat and generateText are held to the same ones.
AttendantLimit == (common :> 0) @@ (premium :> 1)
TierTokens == (common :> 1) @@ (premium :> 3)

UsageSymmetry == Permutations(Slots) \cup Permutations(Shops) \cup Permutations(Calls)

VARIABLES part, turns

\* Bound on the events, requests and cancellations of a behaviour that take more than
\* one step; the others, and what disturbs the tier otherwise, are not bounded.
MaxTurns == 3

MCInit ==
    /\ part \in {"usage", "entitlements"}
    /\ Init /\ (part # "usage" => sub = "none" /\ ownerPlan = FreePlan)
    /\ turns = 0
    /\ IF part = "entitlements" THEN EntitlementsInit /\ admin = ~grace
       ELSE /\ subs = <<>> /\ quotaTier = [shop \in Shops |-> NoQuotaRow]
            /\ userPlan = "COMMON" /\ admin = FALSE /\ grace = FALSE
            /\ home \in Shops /\ uneven = {} /\ work = [c \in Calls |-> NoCall]
            /\ served = NotServed

MCNext ==
    \/ part = "usage" /\ Next /\ UNCHANGED <<part, turns, entitlementVars>>
    \/ /\ part = "entitlements" /\ EntitlementsNext /\ UNCHANGED <<part, vars>>
       /\ turns' = turns + Cardinality({c \in Calls : work[c] = NoCall /\ work'[c] # NoCall})
       /\ turns' <= MaxTurns

MCSpec == MCInit /\ [][MCNext]_<<part, turns, vars, entitlementVars>>
=============================================================================
