------------------------------ MODULE AiUsage ------------------------------
(***************************************************************************)
(* Metering of AI requests of one company and one feature, from            *)
(* usage/ai-usage.service.ts and its callers.  Every caller does           *)
(*                                                                         *)
(*     enforceLimit -> (ensureQuota) -> external call -> logUsage          *)
(*                                                                         *)
(* with an await between any two of the steps, so that requests served     *)
(* concurrently interleave, the month may turn, and the plan may change in *)
(* the middle of any of them.  A slot is one request being served; it is   *)
(* reused for the next one.                                                *)
(*                                                                         *)
(* Abstracted: token amounts are 0 or 1 (a call that reports usage costs   *)
(* one token), prices and log texts are left out; the month is a counter.  *)
(* A database call that fails has no effect.                               *)
(***************************************************************************)
EXTENDS Integers, FiniteSets

CONSTANTS
    Slots,          \* requests served at the same time
    Flows,          \* callers: subset of {"generate", "chat", "forward", "import"}
    Plans,          \* billing plans
    FreePlan,       \* COMMON, the plan every fallback ends at
    RequestLimit,   \* monthly requests of the feature under each plan
    TokenLimit,     \* tokens the tier allows in ai.service.ensureQuota
    Unlimited,      \* a null monthlyRequestLimit
    Providers,      \* how many providers generateText may fall back through
    Months,         \* bound on the month counter
    MaxRequests     \* bound on the requests of a month when a plan is unlimited

ASSUME SlotsAssumption == IsFiniteSet(Slots) /\ Slots # {}
ASSUME PlansAssumption == FreePlan \in Plans
ASSUME LimitAssumption ==
    /\ Unlimited \notin Int
    /\ RequestLimit \in [Plans -> Nat \cup {Unlimited}]
    /\ TokenLimit \in [Plans -> Nat]
ASSUME BoundAssumption ==
    /\ Months \in Nat /\ MaxRequests \in Nat
    /\ Providers \in Nat \ {0}
ASSUME FlowAssumption == Flows \subseteq {"generate", "chat", "forward", "import"}

VARIABLES
    month,      \* current UTC month
    sub,        \* the company's subscription: an active plan, "lapsed" or "none"
    ownerPlan,  \* user.plan of the owner
    row,        \* usageQuota row: tier (or "none") and llmTokensUsed
    usage,      \* companyAIUsageMonthly.requestCount per month
    tokenCount, \* companyAIUsageMonthly.tokenCount per month
    slot,       \* the requests being served
    peak        \* history: the highest request limit any plan in force has had

vars == <<month, sub, ownerPlan, row, usage, tokenCount, slot, peak>>

-----------------------------------------------------------------------------
(* Plan resolution *)

\* resolveCompanyPlanKey: active subscription, then any subscription, then the
\* usageQuota tier, then the owner's plan.
ResolvedPlan(s, r, o) ==
    IF s \in Plans THEN s
    ELSE IF s = "lapsed" THEN FreePlan
    ELSE IF r.tier \in Plans THEN r.tier
    ELSE o

\* getFeatureLimit: the limit row of the plan, or the defaults it was
\* bootstrapped from.  A limit of zero is a feature the plan does not include.
FeatureLimit(p) == RequestLimit[p]

\* Mutants of WithinLimit: a limit of zero taken for no limit, and an
\* off-by-one.
WithinLimitFalsy(limit, used) == limit \in {0, Unlimited} \/ used < limit
WithinLimitInclusive(limit, used) == limit = Unlimited \/ used <= limit

\* checkLimit's decision on what it has read.
WithinLimit(limit, used) == limit = Unlimited \/ used < limit

\* The limit in force for the company.
LimitInForce == FeatureLimit(ResolvedPlan(sub, row, ownerPlan))

\* The larger of two limits, Unlimited being the largest.
LargerLimit(a, b) ==
    IF a = Unlimited \/ b = Unlimited THEN Unlimited
    ELSE IF a < b THEN b ELSE a

\* History: every step that can move the limit in force records it.
RecordPeak == peak' = LargerLimit(peak, LimitInForce')

-----------------------------------------------------------------------------
(* A request *)

Pcs == {"idle", "checking", "quota", "calling", "logging", "metering",
        "legacy", "saving", "failing"}
Outcomes == {"none", "answered", "blocked", "quotaExceeded", "error"}

\* What checkLimit has read so far; -1 stands for a read still outstanding.
Unread == -1

IdleSlot == [pc |-> "idle", flow |-> "none", month |-> 0, limit |-> Unread,
             seen |-> Unread, left |-> 0, cost |-> 0, meters |-> 0,
             out |-> "none"]

SlotType ==
    [pc : Pcs, flow : Flows \cup {"none"}, month : 0..Months,
     limit : Nat \cup {Unlimited, Unread}, seen : Nat \cup {Unread},
     left : 0..Providers, cost : {0, 1}, meters : Nat, out : Outcomes]

Finish(r, out) ==
    slot' = [slot EXCEPT ![r] = [IdleSlot EXCEPT
        !.flow = slot[r].flow, !.meters = slot[r].meters, !.out = out]]
Goto(r, pc) == slot' = [slot EXCEPT ![r].pc = pc]

\* The admitted requests: past enforceLimit and not yet counted.
Admitted == {"quota", "calling", "logging", "metering"}
Inflight == {r \in Slots : slot[r].pc \in Admitted}

Init ==
    /\ month = 0
    /\ sub \in Plans \cup {"none"}
    /\ ownerPlan \in Plans
    /\ row = [tier |-> "none", tokens |-> 0]
    /\ usage = [m \in 0..Months |-> 0]
    /\ tokenCount = [m \in 0..Months |-> 0]
    /\ slot = [r \in Slots |-> IdleSlot]
    /\ peak = LimitInForce

\* A request arrives.  checkLimit computes the month and starts its reads.
Arrive(r, f) ==
    /\ slot[r].pc = "idle"
    /\ usage[month] < MaxRequests
    /\ slot' = [slot EXCEPT ![r] = [IdleSlot EXCEPT
           !.pc = "checking", !.flow = f, !.month = month,
           !.left = IF f = "generate" THEN Providers ELSE 1]]
    /\ UNCHANGED <<month, sub, ownerPlan, row, usage, tokenCount, peak>>

\* The reads of checkLimit's Promise.all, in either order.
ReadLimit(r) ==
    /\ slot[r].pc = "checking" /\ slot[r].limit = Unread
    /\ slot' = [slot EXCEPT ![r].limit = LimitInForce]
    /\ UNCHANGED <<month, sub, ownerPlan, row, usage, tokenCount, peak>>

ReadUsage(r) ==
    /\ slot[r].pc = "checking" /\ slot[r].seen = Unread
    /\ slot' = [slot EXCEPT ![r].seen = usage[slot[r].month]]
    /\ UNCHANGED <<month, sub, ownerPlan, row, usage, tokenCount, peak>>

\* enforceLimit: return, or write the BLOCKED log (a failure of which is
\* swallowed) and throw.
Decide(r) ==
    /\ slot[r].pc = "checking"
    /\ slot[r].limit # Unread /\ slot[r].seen # Unread
    /\ IF WithinLimit(slot[r].limit, slot[r].seen)
       THEN slot' = [slot EXCEPT ![r] = [@ EXCEPT
                !.pc = IF slot[r].flow = "generate" THEN "quota" ELSE "calling",
                !.limit = Unread, !.seen = Unread]]
       ELSE Finish(r, "blocked")
    /\ UNCHANGED <<month, sub, ownerPlan, row, usage, tokenCount, peak>>

\* ai.service.ensureQuota: the row is created at the lowest tier if missing,
\* then the tokens used since its last reset are compared with the tier.
EnsureQuota(r) ==
    /\ slot[r].pc = "quota"
    /\ row' = IF row.tier = "none" THEN [row EXCEPT !.tier = FreePlan] ELSE row
    /\ IF row'.tokens + 1 > TokenLimit[row'.tier]
       THEN Finish(r, "quotaExceeded")
       ELSE Goto(r, "calling")
    /\ UNCHANGED <<month, sub, ownerPlan, usage, tokenCount>>
    /\ RecordPeak

\* The external call answers.  Gemini and OpenAI report tokens, or the
\* estimate is used (cost 1); the n8n forward and the chat's local fallback
\* report none.
CallAnswers(r) ==
    /\ slot[r].pc = "calling"
    /\ \E c \in {0, 1} :
         /\ slot[r].flow = "generate" => c = 1
         /\ slot[r].flow = "forward" => c = 0
         /\ slot' = [slot EXCEPT ![r].pc = "logging", ![r].cost = c,
                                 ![r].left = @ - 1]
    /\ UNCHANGED <<month, sub, ownerPlan, row, usage, tokenCount, peak>>

\* What each caller does with an error of its call or of logUsage: generate
\* goes to the next provider or writes FAILED, forward and import write
\* FAILED, chat lets it through.
AfterError(r, left) ==
    IF slot[r].flow = "chat" THEN Finish(r, "error")
    ELSE slot' = [slot EXCEPT
           ![r].pc = IF left > 0 THEN "calling" ELSE "failing",
           ![r].left = left]

\* The external call fails.  chat.buildReply never fails: it falls back to a
\* local answer.
CallFails(r) ==
    /\ slot[r].pc = "calling" /\ slot[r].flow # "chat"
    /\ AfterError(r, slot[r].left - 1)
    /\ UNCHANGED <<month, sub, ownerPlan, row, usage, tokenCount, peak>>

\* The provider answers 429: generateText rethrows at once, with no log.
CallThrottled(r) ==
    /\ slot[r].pc = "calling" /\ slot[r].flow = "generate"
    /\ Finish(r, "error")
    /\ UNCHANGED <<month, sub, ownerPlan, row, usage, tokenCount, peak>>

\* logUsage, first write: the SUCCESS row of aIUsageLog.  When it is there,
\* incrementUsage reads the clock before it asks for its upsert.
WriteLog(r) ==
    /\ slot[r].pc = "logging"
    /\ \/ slot' = [slot EXCEPT ![r].pc = "metering", ![r].month = month]
       \/ AfterError(r, slot[r].left)
    /\ UNCHANGED <<month, sub, ownerPlan, row, usage, tokenCount, peak>>

\* logUsage, second write: incrementUsage adds to the row of the month it has
\* read, which may be over by the time the row is written.
Meter(r) ==
    /\ slot[r].pc = "metering"
    /\ usage' = [usage EXCEPT ![slot[r].month] = @ + 1]
    /\ tokenCount' = [tokenCount EXCEPT ![slot[r].month] = @ + slot[r].cost]
    /\ slot' = [slot EXCEPT ![r].pc = "legacy", ![r].meters = @ + 1]
    /\ UNCHANGED <<month, sub, ownerPlan, row, peak>>

MeterFails(r) ==
    /\ slot[r].pc = "metering"
    /\ AfterError(r, slot[r].left)
    /\ UNCHANGED <<month, sub, ownerPlan, row, usage, tokenCount, peak>>

\* Mutant: the failure of the legacy counter is not swallowed.
MeterLegacyThrows(r) ==
    /\ slot[r].pc = "legacy"
    /\ \/ /\ slot[r].cost = 1
          /\ row' = [tier |-> IF row.tier = "none" THEN FreePlan ELSE row.tier,
                     tokens |-> row.tokens + 1]
          /\ IF slot[r].flow = "chat" THEN Goto(r, "saving")
             ELSE Finish(r, "answered")
       \/ row' = row /\ AfterError(r, slot[r].left)
    /\ UNCHANGED <<month, sub, ownerPlan, usage, tokenCount>>
    /\ RecordPeak

\* incrementLegacyUsageQuota: only for a call with tokens; its failure is
\* swallowed.
MeterLegacy(r) ==
    /\ slot[r].pc = "legacy"
    /\ row' \in {row} \cup
         (IF slot[r].cost = 0 THEN {}
          ELSE {[tier |-> IF row.tier = "none" THEN FreePlan ELSE row.tier,
                 tokens |-> row.tokens + slot[r].cost]})
    /\ IF slot[r].flow = "chat" THEN Goto(r, "saving") ELSE Finish(r, "answered")
    /\ UNCHANGED <<month, sub, ownerPlan, usage, tokenCount>>
    /\ RecordPeak

\* chat: the transaction that stores the question and the answer.
SaveChat(r) ==
    /\ slot[r].pc = "saving"
    /\ \E out \in {"answered", "error"} : Finish(r, out)
    /\ UNCHANGED <<month, sub, ownerPlan, row, usage, tokenCount, peak>>

\* The FAILED row, which is never counted.
LogFailed(r) ==
    /\ slot[r].pc = "failing"
    /\ Finish(r, "error")
    /\ UNCHANGED <<month, sub, ownerPlan, row, usage, tokenCount, peak>>

Serve(r) ==
    \/ ReadLimit(r) \/ ReadUsage(r) \/ Decide(r) \/ EnsureQuota(r)
    \/ CallAnswers(r) \/ CallFails(r) \/ CallThrottled(r) \/ WriteLog(r)
    \/ Meter(r) \/ MeterFails(r) \/ MeterLegacy(r) \/ SaveChat(r)
    \/ LogFailed(r)

-----------------------------------------------------------------------------
(* The environment *)

\* The month turns.  Nothing is reset: the new month's rows do not exist yet.
NextMonth ==
    /\ month < Months
    /\ month' = month + 1
    /\ UNCHANGED <<sub, ownerPlan, row, usage, tokenCount, slot, peak>>

\* The subscription is bought, changed, or lapses (by webhook, or because its
\* period ends).
ChangeSubscription(s) ==
    /\ s # sub /\ s \in Plans \cup {"lapsed"}
    /\ s = "lapsed" => sub \in Plans
    /\ sub' = s
    /\ UNCHANGED <<month, ownerPlan, row, usage, tokenCount, slot>>
    /\ RecordPeak

\* syncLegacyPlan, its second write: the tier follows the subscription.
SyncTier ==
    /\ sub # "none"
    /\ row' = [row EXCEPT !.tier = IF sub \in Plans THEN sub ELSE FreePlan]
    /\ row' # row
    /\ UNCHANGED <<month, sub, ownerPlan, usage, tokenCount, slot>>
    /\ RecordPeak

\* admin.resetQuota
ResetQuota ==
    /\ row.tokens > 0
    /\ row' = [row EXCEPT !.tokens = 0]
    /\ UNCHANGED <<month, sub, ownerPlan, usage, tokenCount, slot, peak>>

\* The process restarts: every request being served is lost where it stands.
Crash ==
    /\ \E r \in Slots : slot[r].pc # "idle"
    /\ slot' = [r \in Slots |->
                  IF slot[r].pc = "idle" THEN slot[r] ELSE IdleSlot]
    /\ UNCHANGED <<month, sub, ownerPlan, row, usage, tokenCount, peak>>

Next ==
    \/ \E r \in Slots : Serve(r) \/ \E f \in Flows : Arrive(r, f)
    \/ NextMonth
    \/ \E s \in Plans \cup {"lapsed"} : ChangeSubscription(s)
    \/ SyncTier
    \/ ResetQuota
    \/ Crash

Spec == Init /\ [][Next]_vars

-----------------------------------------------------------------------------
(* Properties *)

\* Types of the metering state of ai-usage.service.ts.
TypeOK ==
    /\ month \in 0..Months
    /\ sub \in Plans \cup {"none", "lapsed"}
    /\ ownerPlan \in Plans
    /\ row \in [tier : Plans \cup {"none"}, tokens : Nat]
    /\ usage \in [0..Months -> Nat]
    /\ tokenCount \in [0..Months -> Nat]
    /\ slot \in [Slots -> SlotType]
    /\ peak \in Nat \cup {Unlimited}

\* checkLimit reads the counter long before logUsage adds to it, so N requests
\* served together can overshoot the monthly limit, but by N - 1 at most,
\* whatever months turn and plans change meanwhile; and a feature no plan in
\* force has ever included is never counted at all.
OvershootBound ==
    peak # Unlimited =>
        \A m \in 0..Months :
            usage[m] <= IF peak = 0 THEN 0 ELSE peak - 1 + Cardinality(Slots)

\* Slots that may still add to the counter although they will not look at it
\* again: admitted ones, and those whose read is, or will be, of an earlier
\* month or of a count below the threshold.
Pending(threshold) ==
    {r \in Slots :
        \/ slot[r].pc \in Admitted
        \/ /\ slot[r].pc = "checking"
           /\ IF slot[r].seen = Unread THEN slot[r].month < month
              ELSE slot[r].month < month \/ slot[r].seen < threshold}

\* Those that may still add to the counter of a month: they have read the clock in it.
Late(m) == {r \in Slots : slot[r].pc = "metering" /\ slot[r].month = m}

\* The reason OvershootBound holds, for every threshold no plan has exceeded.
OvershootAt(threshold) ==
    usage[month] + Cardinality(Pending(threshold))
        <= threshold - 1 + Cardinality(Slots)

\* The plan in force, and every limit a request has read, is within the peak.
Covers(limit) == peak = Unlimited \/ (limit # Unlimited /\ limit <= peak)

\* The inductive invariant behind OvershootBound.
OvershootInv(thresholds) ==
    /\ Covers(LimitInForce)
    /\ \A r \in Slots : slot[r].pc = "checking" => Covers(slot[r].limit)
    /\ \A r \in Slots : slot[r].month <= month
    /\ \A m \in 0..Months : m > month => usage[m] = 0
    /\ peak = 0 => Inflight = {} /\ \A m \in 0..Months : usage[m] = 0
    /\ peak # Unlimited => \A m \in 0..Months :
          m < month => usage[m] + Cardinality(Late(m)) <= peak - 1 + Cardinality(Slots)
    /\ \A threshold \in thresholds :
          peak # Unlimited /\ peak <= threshold => OvershootAt(threshold)

\* A caller that gets an answer has been counted exactly once, whatever
\* provider fallbacks, failed writes and retries happened; a request turned
\* away or failed is not counted, except a chat whose answer could not be
\* stored after it was metered.
AnsweredMeteredOnce ==
    \A r \in Slots :
        /\ slot[r].meters <= 1
        /\ slot[r].out = "answered" => slot[r].meters = 1
        /\ slot[r].out \in {"blocked", "quotaExceeded"} => slot[r].meters = 0
        /\ slot[r].out = "error" /\ slot[r].meters = 1 => slot[r].flow = "chat"
=============================================================================
