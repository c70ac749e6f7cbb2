---------------------------- MODULE WhatsappInbox -----------------------------
(***************************************************************************)
(* Messages of one WhatsApp customer on their way to the company's         *)
(* assistant (attendant.service.ts).  Those of the Evolution server are    *)
(* stored once in a table of messages and claimed there                    *)
(* (evolution.service.ts, whatsapp-runtime-recovery.service.ts); those of  *)
(* Meta's own interface are stored per delivery and never looked at again  *)
(* (webhook-ingest.service.ts).  Both pass through the platform's queue,   *)
(* in Redis or, without it, in memory (platform-queue.service.ts): its job *)
(* ends as soon as the event is emitted, so that a failure is never        *)
(* retried by the queue, but only by the recovery of the next start.       *)
(*                                                                         *)
(* The model and the sending are external: they answer or fail.            *)
(* AiUsage models the metering, EvolutionInstance which way a message is   *)
(* sent.                                                                   *)
(***************************************************************************)
EXTENDS Naturals, FiniteSets

CONSTANTS
    Msgs,           \* messages, by their external id
    Route,          \* "evolution" or "meta", per message
    Says,           \* "text" or "human": whether it asks for a person
    Hands,          \* messages processed at a time
    MaxDeliveries,  \* bound on deliveries of one message
    MaxFaults,      \* bound on failed queries and restarts
    MaxPauses       \* bound on pauses by people

ASSUME WhatsappInboxAssumption ==
    /\ Route \in [Msgs -> {"evolution", "meta"}]
    /\ Says \in [Msgs -> {"text", "human"}]
    /\ MaxDeliveries \in Nat /\ MaxFaults \in Nat /\ MaxPauses \in Nat
    /\ Msgs # {} /\ IsFiniteSet(Hands)

VARIABLES
    entry,      \* status of the WhatsappMessageEvent of a message
    posting,    \* messages stored and not queued yet
    waiting,    \* queued jobs per message
    redis,      \* whether the queue survives a restart
    conv,       \* the conversation: its pause and its status
    hand,       \* messages in progress
    faults, pauses,
    delivered,  \* history: deliveries per message
    replies,    \* history: answers of the assistant sent, per message
    repeats,    \* history: runs that ended after their answer but before their end
    dropped,    \* history: messages whose job failed before the claim, or was emitted
                \* at a start before anybody listened
    left,       \* history: messages in status processing that nobody works on
    person,     \* history: a person has paused the conversation, and the pause has
                \* neither ended nor been taken back since
    cleared,    \* history: a pause was cleared as expired that was not
    spoke       \* history: the assistant answered a message that came during a
                \* person's pause

inboxConvVars == <<conv, pauses, person, cleared>>
countVars == <<replies, repeats, spoke>>
whatsappInboxVars == <<entry, posting, waiting, redis, hand, faults, delivered, dropped,
                       left, inboxConvVars, countVars>>

-----------------------------------------------------------------------------

EntryStatuses == {"none", "pending", "processing", "processed", "failed"}
HandPcs == {"idle", "claim", "upsert", "create", "gate", "route", "think", "handoff",
            "notify", "reply", "log", "finish"}
Free == [pc |-> "idle", msg |-> CHOOSE m \in Msgs : TRUE, snap |-> "no",
         sent |-> FALSE, during |-> FALSE]

OnEvolution(m) == Route[m] = "evolution"
Step(h, pc) == hand' = [hand EXCEPT ![h].pc = pc]
Works(h, m) == hand[h].msg = m /\ hand[h].pc \notin {"idle", "claim"}

WhatsappInboxInit ==
    /\ entry = [m \in Msgs |-> "none"]
    /\ posting = {}
    /\ waiting = [m \in Msgs |-> 0]
    /\ redis \in BOOLEAN
    /\ conv = [pause |-> "no", status |-> "waiting"]
    /\ hand = [h \in Hands |-> Free]
    /\ faults = 0 /\ pauses = 0
    /\ delivered = [m \in Msgs |-> 0]
    /\ replies = [m \in Msgs |-> 0] /\ repeats = [m \in Msgs |-> 0]
    /\ dropped = {} /\ left = {}
    /\ person = FALSE /\ cleared = FALSE /\ spoke = FALSE

-----------------------------------------------------------------------------
(* Intake *)

\* Mutant: a delivery that comes again is stored again.
DeliverEvolutionAgain(m) ==
    /\ OnEvolution(m) /\ delivered[m] < MaxDeliveries
    /\ delivered' = [delivered EXCEPT ![m] = @ + 1]
    /\ entry' = [entry EXCEPT ![m] = "pending"]
    /\ posting' = posting \cup {m}
    /\ UNCHANGED <<waiting, redis, hand, faults, dropped, left, inboxConvVars, countVars>>

\* processWebhook for MESSAGES_UPSERT: the unique external id makes a delivery that
\* comes again, even at the same moment, do nothing.
DeliverEvolution(m) ==
    /\ OnEvolution(m) /\ delivered[m] < MaxDeliveries
    /\ delivered' = [delivered EXCEPT ![m] = @ + 1]
    /\ IF entry[m] = "none"
       THEN /\ entry' = [entry EXCEPT ![m] = "pending"]
            /\ posting' = posting \cup {m}
       ELSE UNCHANGED <<entry, posting>>
    /\ UNCHANGED <<waiting, redis, hand, faults, dropped, left, inboxConvVars, countVars>>

\* handleMeta and registerEvent: each delivery has an event of its own.
DeliverMeta(m) ==
    /\ ~OnEvolution(m) /\ delivered[m] < MaxDeliveries
    /\ delivered' = [delivered EXCEPT ![m] = @ + 1]
    /\ waiting' = [waiting EXCEPT ![m] = @ + 1]
    /\ UNCHANGED <<entry, posting, redis, hand, faults, dropped, left, inboxConvVars,
                   countVars>>

\* enqueueWhatsappMessage: a queue that does not answer is replaced by the emitter.
\* The job's id is the message's, so that there is one of it.
Enqueue(m) ==
    /\ m \in posting
    /\ posting' = posting \ {m}
    /\ waiting' = [waiting EXCEPT ![m] = 1]
    /\ UNCHANGED <<entry, redis, hand, faults, delivered, dropped, left, inboxConvVars,
                   countVars>>

-----------------------------------------------------------------------------
(* Claiming *)

\* PlatformEventProcessor.process, handleWebhook, processWhatsappMessageEvent.
Start(h, m) ==
    /\ hand[h].pc = "idle" /\ waiting[m] > 0
    /\ waiting' = [waiting EXCEPT ![m] = @ - 1]
    /\ hand' = [hand EXCEPT ![h] =
         [Free EXCEPT !.msg = m,
                      !.pc = IF ~OnEvolution(m) THEN "upsert"
                             ELSE IF entry[m] = "processed" THEN "idle" ELSE "claim"]]
    /\ UNCHANGED <<entry, posting, redis, faults, delivered, dropped, left, inboxConvVars,
                   countVars>>

\* The claim is an update of the row where it is still pending or failed.
ClaimMessage(h) ==
    /\ hand[h].pc = "claim"
    /\ IF entry[hand[h].msg] \in {"pending", "failed"}
       THEN entry' = [entry EXCEPT ![hand[h].msg] = "processing"] /\ Step(h, "upsert")
       ELSE UNCHANGED entry /\ hand' = [hand EXCEPT ![h] = Free]
    /\ UNCHANGED <<posting, waiting, redis, faults, delivered, dropped, left, inboxConvVars,
                   countVars>>

-----------------------------------------------------------------------------
(* processIncomingMessage *)

queueVars == <<entry, posting, waiting, redis, faults, delivered, dropped, left>>

UpsertConversation(h) ==
    /\ hand[h].pc = "upsert"
    /\ conv' = [conv EXCEPT !.status = "waiting"]
    /\ hand' = [hand EXCEPT ![h].pc = "create", ![h].snap = conv.pause, ![h].during = person]
    /\ UNCHANGED <<queueVars, pauses, person, cleared, countVars>>

CreateInbound(h) ==
    /\ hand[h].pc = "create"
    /\ Step(h, "gate")
    /\ UNCHANGED <<queueVars, inboxConvVars, countVars>>

\* Mutant: a pause is taken for expired at once.
GateOpen(h) ==
    /\ hand[h].pc = "gate"
    /\ IF hand[h].snap = "no" THEN UNCHANGED conv
       ELSE conv' = [pause |-> "no", status |-> "waiting"]
    /\ Step(h, "route")
    /\ UNCHANGED <<queueVars, pauses, person, cleared, countVars>>

\* The pause as it was when the conversation was read.
Gate(h) ==
    /\ hand[h].pc = "gate"
    /\ CASE hand[h].snap = "yes" ->
              /\ conv' = [conv EXCEPT !.status = "human"] /\ Step(h, "finish")
              /\ UNCHANGED cleared
         [] hand[h].snap = "expired" ->
              /\ conv' = [pause |-> "no", status |-> "waiting"] /\ Step(h, "route")
              /\ cleared' = (cleared \/ person)
         [] OTHER -> Step(h, "route") /\ UNCHANGED <<conv, cleared>>
    /\ UNCHANGED <<queueVars, pauses, person, countVars>>

\* An assistant that is offline, a customer who asks for a person.
RouteMessage(h) ==
    /\ hand[h].pc = "route"
    /\ \/ conv' = [conv EXCEPT !.status = "waiting"] /\ Step(h, "finish")
       \/ /\ Step(h, IF Says[hand[h].msg] = "human" THEN "handoff" ELSE "think")
          /\ UNCHANGED conv
    /\ UNCHANGED <<queueVars, pauses, person, cleared, countVars>>

\* buildContext, buildPrompt and the model, which may answer PAUSAR_BOT.
Think(h) ==
    /\ hand[h].pc = "think"
    /\ \E pc \in {"handoff", "reply"} : Step(h, pc)
    /\ UNCHANGED <<queueVars, inboxConvVars, countVars>>

\* pauseConversation.
Handoff(h) ==
    /\ hand[h].pc = "handoff"
    /\ conv' = [pause |-> "yes", status |-> "human"]
    /\ Step(h, "notify")
    /\ UNCHANGED <<queueVars, pauses, person, cleared, countVars>>

\* The alert and the message that a person will come, whether sent or not.
Notify(h) ==
    /\ hand[h].pc = "notify"
    /\ Step(h, "finish")
    /\ UNCHANGED <<queueVars, inboxConvVars, countVars>>

\* dispatchOutboundMessage.
Reply(h) ==
    /\ hand[h].pc = "reply"
    /\ LET m == hand[h].msg
       IN  \/ /\ replies' = [replies EXCEPT ![m] = @ + 1]
              /\ spoke' = (spoke \/ (hand[h].during /\ person))
              /\ hand' = [hand EXCEPT ![h].pc = "log", ![h].sent = TRUE]
              /\ UNCHANGED conv
           \/ /\ conv' = [conv EXCEPT !.status = "waiting"]
              /\ Step(h, "finish")
              /\ UNCHANGED <<replies, spoke>>
    /\ UNCHANGED <<queueVars, pauses, person, cleared, repeats>>

LogReply(h) ==
    /\ hand[h].pc = "log"
    /\ conv' = [conv EXCEPT !.status = "replied"]
    /\ Step(h, "finish")
    /\ UNCHANGED <<queueVars, pauses, person, cleared, countVars>>

Finish(h) ==
    /\ hand[h].pc = "finish"
    /\ entry' = IF OnEvolution(hand[h].msg)
                THEN [entry EXCEPT ![hand[h].msg] = "processed"] ELSE entry
    /\ hand' = [hand EXCEPT ![h] = Free]
    /\ UNCHANGED <<posting, waiting, redis, faults, delivered, dropped, left, inboxConvVars,
                   countVars>>

-----------------------------------------------------------------------------
(* Failures and restarts *)

Repeats(hs) ==
    [m \in Msgs |-> repeats[m]
        + Cardinality({h \in hs : hand[h].msg = m /\ hand[h].pc # "idle" /\ hand[h].sent})]

\* A query fails: before the claim nobody hears of it, afterwards the message has
\* failed, unless that cannot be stored either.
Fail(h) ==
    /\ hand[h].pc # "idle" /\ faults < MaxFaults
    /\ faults' = faults + 1
    /\ LET m == hand[h].msg
       IN  CASE ~OnEvolution(m) -> UNCHANGED <<entry, dropped, left>>
             [] OnEvolution(m) /\ hand[h].pc = "claim" ->
                  dropped' = dropped \cup {m} /\ UNCHANGED <<entry, left>>
             [] OTHER -> \/ entry' = [entry EXCEPT ![m] = "failed"] /\ UNCHANGED <<dropped, left>>
                         \/ left' = left \cup {m} /\ UNCHANGED <<entry, dropped>>
    /\ repeats' = Repeats({h})
    /\ hand' = [hand EXCEPT ![h] = Free]
    /\ UNCHANGED <<posting, waiting, redis, delivered, inboxConvVars, replies, spoke>>

\* Mutant: at startup only failed messages are queued again.
RecoverableFailed == {"failed"}

Recoverable == {"pending", "failed"}

\* A restart and WhatsappRuntimeRecoveryService.onModuleInit: a message that has
\* been in progress for five minutes is pending again, one that has not is left.  The
\* jobs are queued while modules start, before any listener is registered: without
\* Redis nobody hears them, with it those that a worker takes too early are lost.
Restart ==
    /\ faults < MaxFaults /\ faults' = faults + 1
    /\ \E old \in SUBSET {m \in Msgs : entry[m] = "processing"} :
         LET recovered == [m \in Msgs |-> IF m \in old THEN "pending" ELSE entry[m]]
             kept == {m \in Msgs : redis /\ waiting[m] > 0}
             queued == kept \cup {m \in Msgs : OnEvolution(m) /\ recovered[m] \in Recoverable}
         IN  \E heard \in IF redis THEN SUBSET queued ELSE {{}} :
               /\ entry' = recovered
               /\ left' = {m \in Msgs : recovered[m] = "processing"}
               /\ waiting' = [m \in Msgs |-> IF m \notin heard THEN 0
                                             ELSE IF m \in kept THEN waiting[m] ELSE 1]
               /\ dropped' = {m \in queued \ heard : OnEvolution(m)}
    /\ posting' = {}
    /\ repeats' = Repeats(Hands)
    /\ hand' = [h \in Hands |-> Free]
    /\ UNCHANGED <<redis, delivered, inboxConvVars, replies, spoke>>

-----------------------------------------------------------------------------
(* People *)

\* pauseConversation, interveneLead, sendHumanMessage.
PersonPauses ==
    /\ pauses < MaxPauses /\ pauses' = pauses + 1
    /\ conv' = [pause |-> "yes", status |-> "human"]
    /\ person' = TRUE
    /\ UNCHANGED <<queueVars, hand, cleared, countVars>>

PersonResumes ==
    /\ conv.pause # "no"
    /\ conv' = [pause |-> "no", status |-> "waiting"]
    /\ person' = FALSE
    /\ UNCHANGED <<queueVars, hand, pauses, cleared, countVars>>

PauseExpires ==
    /\ conv.pause = "yes"
    /\ conv' = [conv EXCEPT !.pause = "expired"]
    /\ person' = FALSE
    /\ UNCHANGED <<queueVars, hand, pauses, cleared, countVars>>

-----------------------------------------------------------------------------

WhatsappInboxNext ==
    \/ \E m \in Msgs :
         \/ DeliverEvolution(m) \/ DeliverMeta(m) \/ Enqueue(m)
         \/ \E h \in Hands : Start(h, m)
    \/ \E h \in Hands :
         \/ ClaimMessage(h) \/ UpsertConversation(h) \/ CreateInbound(h) \/ Gate(h)
         \/ RouteMessage(h) \/ Think(h) \/ Handoff(h) \/ Notify(h) \/ Reply(h)
         \/ LogReply(h) \/ Finish(h) \/ Fail(h)
    \/ Restart \/ PersonPauses \/ PersonResumes \/ PauseExpires

WhatsappInboxSpec == WhatsappInboxInit /\ [][WhatsappInboxNext]_whatsappInboxVars
-----------------------------------------------------------------------------
(* Properties *)

\* Types of the messages and of the conversation.
WhatsappInboxTypeOK ==
    /\ entry \in [Msgs -> EntryStatuses]
    /\ posting \subseteq Msgs /\ waiting \in [Msgs -> Nat]
    /\ conv \in [pause : {"no", "yes", "expired"}, status : {"waiting", "human", "replied"}]
    /\ \A h \in Hands : hand[h].pc \in HandPcs /\ hand[h].msg \in Msgs

\* A stored message of Evolution that waits has somebody who will queue or claim it,
\* and one in progress somebody who works on it, across deliveries, failures and
\* restarts, except: a claim that fails drops its message until the next restart, so
\* does a recovery whose event nobody hears yet, and a message in progress that a restart finds too young, or whose failure could not be
\* stored, is left as it is.
OpenMessageHasCarrier ==
    \A m \in Msgs : OnEvolution(m) =>
        /\ entry[m] = "pending" =>
             \/ m \in posting \cup dropped \/ waiting[m] > 0
             \/ \E h \in Hands : hand[h].msg = m /\ hand[h].pc = "claim"
        /\ entry[m] = "processing" => m \in left \/ \E h \in Hands : Works(h, m)

\* A message of Evolution is answered once however often it is delivered, and again
\* only after a run that was cut short after its answer; one of Meta is answered for
\* each delivery.
AnsweredOnce ==
    \A m \in Msgs :
        replies[m] <= IF OnEvolution(m) THEN 1 + repeats[m] ELSE delivered[m]

\* While a person's pause holds the assistant answers no message that came during it,
\* unless a message that had found an earlier pause expired has cleared the person's.
PersonIsNotTalkedOver == ~cleared => ~spoke
=============================================================================
