-------------------------- MODULE InstagramMessages --------------------------
(***************************************************************************)
(* Direct messages of Instagram: the webhook stores one IntegrationEvent   *)
(* per message and starts its processing after it has answered             *)
(* (instagram-webhook.service.ts); processing claims the event, stores the *)
(* message, asks the action layer and the model, and answers               *)
(* (instagram-message-processor.service.ts); an operator may have an event *)
(* processed again.  All messages are of one customer of one company.      *)
(*                                                                         *)
(* Meta, the action layer (AttendantActions), the model and the sending    *)
(* (InstagramAccount) are external here: they answer or fail.  The account  *)
(* is connected and the agent switched on and off at any time, so whoever  *)
(* reads them gets either answer.  What is in memory is lost in a restart, *)
(* and nothing at startup looks for it.                                    *)
(***************************************************************************)
EXTENDS Naturals, FiniteSets

CONSTANTS
    Dms,            \* messages, by their mid
    Kind,           \* what a message is: "text", "handoff" (asks for a person),
                    \* "attachment"
    Workers,        \* processings at a time
    HumanPause,     \* HUMAN_PAUSE_HOURS, in ticks of the clock
    MaxReprocess,   \* bound on reprocessings, all of one message
    MaxMishaps,     \* bound on failed calls and restarts
    MaxTicks        \* bound on the clock

ASSUME InstagramAssumption ==
    /\ Kind \in [Dms -> {"text", "handoff", "attachment"}]
    /\ HumanPause \in Nat \ {0}
    /\ MaxReprocess \in Nat /\ MaxMishaps \in Nat /\ MaxTicks \in Nat
    /\ Dms # {} /\ IsFiniteSet(Workers)

VARIABLES
    event,      \* the IntegrationEvent of a message
    queue,      \* messages whose processing setImmediate has yet to start
    inbound,    \* messages stored in the conversation
    thread,     \* the conversation's pause
    worker,     \* processings in progress
    now,        \* the clock
    mishaps,    \* failed calls and restarts so far
    posted,     \* history: answers Meta has accepted, per message
    again,      \* history: reprocessings, per message
    lost,       \* history: events a restart or a failed call has left behind
    held        \* history: until when a person has paused the bot, if only people
                \* have touched the pause since; 0 if not

instagramVars ==
    <<event, queue, inbound, thread, worker, now, mishaps, posted, again, lost, held>>

-----------------------------------------------------------------------------

Outcomes == {"unresolved", "duplicate", "ignored", "human_required", "ai_failed",
             "ai_empty", "sent", "failed"}
EventType ==
    [status : {"none", "received", "processing"} \cup Outcomes, processed : BOOLEAN]
NoEvent == [status |-> "none", processed |-> FALSE]

\* until is pausedUntil, 0 if it is not set.
ThreadType == [isPaused : BOOLEAN, botPaused : BOOLEAN, until : Nat]
Unpaused == [isPaused |-> FALSE, botPaused |-> FALSE, until |-> 0]

Stages == {"idle", "claim", "load", "resolve", "create", "gate", "act",
           "ai", "asked", "handoff", "reply", "finish"}
WorkerType ==
    [pc : Stages, dm : Dms, retry : BOOLEAN, snap : ThreadType,
     held : Nat, outcome : Outcomes]
NoWork == [pc |-> "idle", dm |-> CHOOSE d \in Dms : TRUE, retry |-> FALSE,
           snap |-> Unpaused, held |-> 0, outcome |-> "ignored"]

At(w, pc) == worker[w].pc = pc
Move(w, pc) == worker' = [worker EXCEPT ![w].pc = pc]
FinishAs(w, outcome) ==
    worker' = [worker EXCEPT ![w].pc = "finish", ![w].outcome = outcome]

\* A worker that has claimed its event and is not done with it.
Holds(w, d) == worker[w].dm = d /\ worker[w].pc \notin {"idle", "claim"}
Answering(w) == worker[w].pc \in {"act", "ai", "asked", "handoff", "reply"}

InstagramInit ==
    /\ event = [d \in Dms |-> NoEvent]
    /\ queue = {} /\ inbound = {} /\ lost = {}
    /\ thread = Unpaused
    /\ held = 0 /\ now = 1
    /\ worker = [w \in Workers |-> NoWork]
    /\ mishaps = 0
    /\ posted = [d \in Dms |-> 0]
    /\ again = [d \in Dms |-> 0]

-----------------------------------------------------------------------------
(* The webhook *)

\* Mutant: the event is stored and its processing never started.
ReceiveOnly(d) ==
    /\ event[d].status = "none"
    /\ \E status \in {"received", "unresolved"} :
         event' = [event EXCEPT ![d].status = status]
    /\ UNCHANGED <<queue, inbound, thread, worker, now, mishaps, posted, again, lost, held>>

\* InstagramWebhookService.processWebhook for one message of a signed payload.
\* The unique externalId makes a message that comes again, even at the same
\* moment, a duplicate or an error: either leaves everything as it is.
Receive(d) ==
    /\ event[d].status = "none"
    /\ \E linked \in BOOLEAN :
         /\ event' = [event EXCEPT ![d].status =
              IF linked THEN "received" ELSE "unresolved"]
         /\ queue' = IF linked THEN queue \cup {d} ELSE queue
    /\ UNCHANGED <<inbound, thread, worker, now, mishaps, posted, again, lost, held>>

-----------------------------------------------------------------------------
(* Claiming an event *)

Begin(w, d, pc, retry) ==
    worker' = [worker EXCEPT ![w] = [NoWork EXCEPT !.pc = pc, !.dm = d, !.retry = retry]]

\* The conditional update of processIntegrationEvent.
Claimable(d) == event[d].status \in {"received", "failed"} /\ ~event[d].processed

ClaimOrSkip(w, d, retry) ==
    IF Claimable(d)
    THEN /\ event' = [event EXCEPT ![d].status = "processing"]
         /\ Begin(w, d, "load", retry)
    ELSE /\ worker' = [worker EXCEPT ![w] = NoWork]
         /\ UNCHANGED event

\* What setImmediate has queued comes to its claim.
DmStart(w) ==
    /\ At(w, "idle")
    /\ \E d \in queue :
         /\ queue' = queue \ {d}
         /\ Begin(w, d, "claim", FALSE)
    /\ UNCHANGED <<event, inbound, thread, now, mishaps, posted, again, lost, held>>

Claim(w) ==
    /\ At(w, "claim")
    /\ ClaimOrSkip(w, worker[w].dm, worker[w].retry)
    /\ UNCHANGED <<queue, inbound, thread, now, mishaps, posted, again, lost, held>>

\* The claimed event is read, with the message in it.
DmLoad(w) ==
    /\ At(w, "load")
    /\ Move(w, "resolve")
    /\ UNCHANGED <<event, queue, inbound, thread, now, mishaps, posted, again, lost, held>>

\* reprocessIntegrationEvent: whatever the event's status is, it is received
\* again, or unresolved.
Reprocess(w, d) ==
    /\ At(w, "idle")
    /\ event[d].status # "none"
    /\ again[d] < MaxReprocess /\ \A e \in Dms \ {d} : again[e] = 0
    /\ \/ /\ event' = [event EXCEPT ![d] = [status |-> "received", processed |-> FALSE]]
          /\ Begin(w, d, "claim", TRUE)
       \/ /\ event' = [event EXCEPT ![d] = [status |-> "unresolved", processed |-> FALSE]]
          /\ UNCHANGED worker
    /\ again' = [again EXCEPT ![d] = @ + 1]
    /\ UNCHANGED <<queue, inbound, thread, now, mishaps, posted, lost, held>>

-----------------------------------------------------------------------------
(* processNormalizedMessage *)

AfterInbound(w) == IF Kind[worker[w].dm] = "attachment" THEN "finish" ELSE "gate"

\* The account is resolved again; the conversation is upserted and kept in memory;
\* the message is looked up.
DmConversation(w) ==
    /\ At(w, "resolve")
    /\ \/ FinishAs(w, "unresolved")
       \/ IF worker[w].dm \in inbound /\ ~worker[w].retry
          THEN FinishAs(w, "duplicate")
          ELSE worker' = [worker EXCEPT ![w].snap = thread, ![w].held = held,
                 ![w].pc = IF worker[w].dm \in inbound THEN AfterInbound(w) ELSE "create"]
    /\ UNCHANGED <<event, queue, inbound, thread, now, mishaps, posted, again, lost, held>>

\* (company, provider, externalMessageId) is unique.
DmInbound(w) ==
    /\ At(w, "create")
    /\ inbound' = inbound \cup {worker[w].dm}
    /\ IF worker[w].dm \in inbound THEN FinishAs(w, "failed") ELSE Move(w, AfterInbound(w))
    /\ UNCHANGED <<event, queue, thread, now, mishaps, posted, again, lost, held>>

\* isExplicitHumanHandoff.
AsksForPerson(d) == Kind[d] = "handoff"

\* Mutant: any pause is cleared by the next message.
ClearsPauseAlways(w) ==
    worker[w].snap.isPaused /\ ~AsksForPerson(worker[w].dm)

\* A pause of the bot's own ends with the next message that does not ask for a
\* person.
ClearsPause(w) ==
    /\ worker[w].snap.isPaused /\ worker[w].snap.botPaused
    /\ ~AsksForPerson(worker[w].dm)

\* resolvePauseState: the conversation in memory against the time it is by now.
Paused(snap) == snap.isPaused /\ (snap.until = 0 \/ snap.until > now)

\* The AgentConfig, which may be missing, then the pause, then the answer to both.
DmGate(w) ==
    /\ At(w, "gate")
    /\ LET clears == ClearsPause(w)
           snap == IF clears THEN Unpaused ELSE worker[w].snap
       IN  \/ /\ FinishAs(w, "failed")
              /\ UNCHANGED <<thread, held>>
          \/ /\ thread' = IF clears THEN Unpaused ELSE thread
             /\ held' = IF clears THEN 0 ELSE held
             /\ \/ ~Paused(snap) /\ Move(w, "act")
                \/ FinishAs(w, "human_required")     \* paused, or the agent is off
    /\ UNCHANGED <<event, queue, inbound, now, mishaps, posted, again, lost>>

\* runActionLayer: what it has registered, or asks back, may already be the final
\* answer; its failure is caught.  Its intent may be HUMAN_HANDOFF ("asked").
ActionLayer(w) == At(w, "act") /\ \E pc \in {"reply", "ai", "asked"} : Move(w, pc)

\* generateAiReply: the model answers, fails, says nothing, or says PAUSAR_BOT,
\* which counts if the customer has asked for a person by the words of the
\* message or by the intent the action layer has read in it.
AiReply(w) ==
    /\ At(w, "ai") \/ At(w, "asked")
    /\ \/ Move(w, "reply")
       \/ /\ AsksForPerson(worker[w].dm) \/ At(w, "asked")
          /\ Move(w, "handoff")
       \/ \E outcome \in {"ai_failed", "ai_empty"} : FinishAs(w, outcome)

Compose(w) ==
    /\ ActionLayer(w) \/ AiReply(w)
    /\ UNCHANGED <<event, queue, inbound, thread, now, mishaps, posted, again, lost, held>>

PauseConversation(w) ==
    /\ At(w, "handoff")
    /\ thread' = [isPaused |-> TRUE, botPaused |-> TRUE, until |-> 0]
    /\ held' = 0
    /\ Move(w, "reply")
    /\ UNCHANGED <<event, queue, inbound, now, mishaps, posted, again, lost>>

\* Mutant: the answer of the action layer does not end the processing.
SendGoesOn(w) ==
    /\ At(w, "reply")
    /\ posted' = [posted EXCEPT ![worker[w].dm] = @ + 1]
    /\ Move(w, "ai")
    /\ UNCHANGED <<event, queue, inbound, thread, now, mishaps, again, lost, held>>

\* createAndMaybeSendOutbound: the message is sent, or refused; its row and the
\* conversation's preview follow.
Send(w) ==
    /\ At(w, "reply")
    /\ \/ /\ posted' = [posted EXCEPT ![worker[w].dm] = @ + 1]
          /\ FinishAs(w, "sent")
       \/ /\ FinishAs(w, "failed")
          /\ UNCHANGED posted
    /\ UNCHANGED <<event, queue, inbound, thread, now, mishaps, again, lost, held>>

\* finishEvent, whoever may have changed the event meanwhile.
FinishEvent(w) ==
    /\ At(w, "finish")
    /\ event' = [event EXCEPT ![worker[w].dm] =
         [status |-> worker[w].outcome, processed |-> TRUE]]
    /\ worker' = [worker EXCEPT ![w] = NoWork]
    /\ UNCHANGED <<queue, inbound, thread, now, mishaps, posted, again, lost, held>>

\* A write or a read fails.  The claim and the reading of the event are outside
\* the try: nobody comes back to the event, nor if the writing of "failed" fails.
\* Any other failure finishes the event as failed.
DmFails(w) ==
    /\ mishaps < MaxMishaps /\ ~At(w, "idle")
    /\ mishaps' = mishaps + 1
    /\ IF \/ At(w, "claim") \/ At(w, "load")
          \/ At(w, "finish") /\ worker[w].outcome = "failed"
       THEN worker' = [worker EXCEPT ![w] = NoWork] /\ lost' = lost \cup {worker[w].dm}
       ELSE FinishAs(w, "failed") /\ UNCHANGED lost
    /\ UNCHANGED <<event, queue, inbound, thread, now, posted, again, held>>

DmRestart ==
    /\ mishaps < MaxMishaps
    /\ mishaps' = mishaps + 1
    /\ lost' = lost \cup queue \cup {worker[w].dm : w \in {v \in Workers : ~At(v, "idle")}}
    /\ queue' = {}
    /\ worker' = [w \in Workers |-> NoWork]
    /\ UNCHANGED <<event, inbound, thread, now, posted, again, held>>

-----------------------------------------------------------------------------
(* People *)

\* AttendantService.pauseConversation and sendHumanMessage, for HUMAN_PAUSE_HOURS,
\* and resumeConversation: none touches botPaused.
StaffPauses ==
    /\ thread' = [thread EXCEPT !.isPaused = TRUE, !.until = now + HumanPause]
    /\ held' = IF thread.botPaused THEN 0 ELSE now + HumanPause
    /\ UNCHANGED <<event, queue, inbound, worker, now, mishaps, posted, again, lost>>

StaffResumes ==
    /\ thread.isPaused
    /\ thread' = [thread EXCEPT !.isPaused = FALSE, !.until = 0]
    /\ held' = 0
    /\ UNCHANGED <<event, queue, inbound, worker, now, mishaps, posted, again, lost>>

\* Time passes, whatever is being processed: a pause runs out in the conversation
\* and in every copy of it that is in memory.
Tick ==
    /\ now < MaxTicks
    /\ now' = now + 1
    /\ UNCHANGED <<event, queue, inbound, thread, worker, mishaps, posted, again, lost, held>>

-----------------------------------------------------------------------------

Work(w) ==
    \/ Claim(w) \/ DmLoad(w) \/ DmConversation(w) \/ DmInbound(w)
    \/ DmGate(w) \/ Compose(w) \/ PauseConversation(w) \/ Send(w) \/ FinishEvent(w)

InstagramNext ==
    \/ \E d \in Dms : Receive(d)
    \/ \E w \in Workers :
         \/ DmStart(w) \/ Work(w) \/ DmFails(w)
         \/ \E d \in Dms : Reprocess(w, d)
    \/ DmRestart \/ StaffPauses \/ StaffResumes \/ Tick

InstagramSpec == InstagramInit /\ [][InstagramNext]_instagramVars

-----------------------------------------------------------------------------
(* Properties *)

\* Types of the rows of the Instagram pipeline.
InstagramTypeOK ==
    /\ event \in [Dms -> EventType]
    /\ queue \cup inbound \cup lost \subseteq Dms
    /\ thread \in ThreadType
    /\ held \in Nat /\ now \in Nat
    /\ worker \in [Workers -> WorkerType]
    /\ mishaps \in 0..MaxMishaps
    /\ posted \in [Dms -> Nat] /\ again \in [Dms -> 0..MaxReprocess]

\* A message is answered once however often its webhook comes, and once more per
\* reprocessing: resetting an event that is still being processed answers it
\* twice, and never a third time.
AnsweredPerClaim == \A d \in Dms : posted[d] <= 1 + again[d]

\* Nothing is forgotten but by a restart, a failed claim, a failed read of the
\* claimed event or a failed write of its outcome: an event that waits is queued
\* or about to be claimed, and one in status processing is being processed by
\* somebody.  What is left behind stays so: no later claim matches an event in
\* status processing, and nothing looks for one that was received.
OpenEventHasWorker ==
    \A d \in Dms \ lost :
        /\ event[d].status = "received" =>
             d \in queue \/ \E w \in Workers : worker[w].dm = d /\ At(w, "claim")
        /\ event[d].status = "processing" => \E w \in Workers : Holds(w, d)

\* A person's pause holds: no message that is taken up while it lasts is being
\* answered before it would run out, whatever has become of the pause by then.
\* Not so if the bot has paused the conversation before (botPaused, which neither
\* pauseConversation nor resumeConversation resets, makes the next message clear
\* the person's pause as well), or if, since the person paused it, a message read
\* before has cleared the bot's pause it has seen or has handed over to a person
\* (its write takes the place of the person's).
HumanPauseHolds == \A w \in Workers : Answering(w) => worker[w].held <= now

\* Each message is answered once per claim, and none is forgotten: taken up by nobody
\* twice, and by somebody always, but for what a restart or a failed claim, read or
\* last write leaves behind.
EachDmTakenUp == AnsweredPerClaim /\ OpenEventHasWorker
=============================================================================
