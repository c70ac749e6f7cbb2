----------------------------- MODULE Conversations -----------------------------
(***************************************************************************)
(* The messages of one WhatsApp conversation and the rows that stand for   *)
(* them (whatsapp-conversations.service.ts and what calls it).  Rows come  *)
(* from the Evolution server's webhooks, one message or several at a time, *)
(* from the flow in n8n, which logs what it receives and answers, and from *)
(* people who answer on the pages.  A row with the message's id is unique; *)
(* a row without one is not.                                               *)
(*                                                                         *)
(* The server and the flow are external: the server repeats and reorders   *)
(* webhooks and reports what became of a message, without its text.  What  *)
(* the stored message leads to is the subject of AttendantActions, and the *)
(* preview and the time of the conversation are left out.                  *)
(***************************************************************************)
EXTENDS Naturals, Sequences, FiniteSets

CONSTANTS
    Listeners,      \* webhooks and calls handled at a time
    MaxSaid,        \* bound on messages
    MaxSent,        \* bound on webhooks per message
    MaxBreaks       \* bound on failures and restarts

ASSUME ConversationsAssumption == MaxSaid \in Nat /\ MaxSent \in Nat /\ MaxBreaks \in Nat

VARIABLES
    said,           \* the messages, with who wrote them; their place is their id
    sentOut,        \* webhooks sent per message
    rows,           \* Message rows: which message, with its id or not, with its text or not
    marked,         \* processedMessageEvents
    listener,       \* webhooks and calls in progress
    told,           \* history: messages a webhook with their text was handled for to the end
    ahead,          \* history: messages whose state was reported before their row was there
    breaks          \* failures so far

conversationVars == <<said, sentOut, rows, marked, listener, told, ahead, breaks>>

-----------------------------------------------------------------------------

Authors == {"customer", "phone", "panel", "flow"}
Listening == [pc |-> "idle", kind |-> "none", cur |-> 1, last |-> 1]
Inbound(i) == said[i] = "customer"
Stored(i) == \E r \in rows : r.said = i /\ r.id
Row(i, id, text) == [said |-> i, id |-> id, text |-> text]

\* message.create: skipped where the id is there already (P2002).
StoreRow(r) == rows' = IF r.id /\ Stored(r.said) THEN rows ELSE rows \cup {r}

Hear(l, pc) == listener' = [listener EXCEPT ![l].pc = pc]
Hung(l) == listener' = [listener EXCEPT ![l] = Listening]

ConversationsInit ==
    /\ said = <<>> /\ sentOut = [i \in 1..MaxSaid |-> 0] /\ rows = {} /\ marked = {}
    /\ listener = [l \in Listeners |-> Listening]
    /\ told = {} /\ ahead = {} /\ breaks = 0

Say(by) == Len(said) < MaxSaid /\ said' = Append(said, by)

\* The customer writes, or the company from its own phone.
Write(by) ==
    /\ by \in {"customer", "phone"} /\ Say(by)
    /\ UNCHANGED <<sentOut, rows, marked, listener, told, ahead, breaks>>

-----------------------------------------------------------------------------
(* Webhooks *)

\* Mutant: what the automation has seen is not stored again.
DuplicateEnds(i) == Inbound(i) /\ (i \in marked \/ Stored(i))

\* isDuplicateMessageEvent: seen by this process or stored.
IsDuplicate(i) == i \in marked \/ Stored(i)

\* Mutant: a duplicate ends the handling of the webhook.
DeliverUnlessSeen(l, i, j) ==
    /\ listener[l].pc = "idle"
    /\ i <= j /\ j <= Len(said) /\ \A k \in i..j : said[k] \in {"customer", "phone"} /\ sentOut[k] < MaxSent
    /\ sentOut' = [k \in 1..MaxSaid |-> sentOut[k] + IF k \in i..j THEN 1 ELSE 0]
    /\ marked' = IF Inbound(i) THEN marked \cup {i} ELSE marked
    /\ listener' = IF DuplicateEnds(i) THEN listener
         ELSE [listener EXCEPT ![l] = [pc |-> IF Inbound(i) THEN "automation" ELSE "store",
                                       kind |-> "upsert", cur |-> i, last |-> j]]
    /\ told' = IF DuplicateEnds(i) THEN told \cup i..j ELSE told
    /\ UNCHANGED <<said, rows, ahead, breaks>>

\* messages.upsert with messages i to j, of which handleIncomingAutomationMessage sees the
\* first only, unless it is the company's own or a duplicate; all of them are stored.
Deliver(l, i, j) ==
    /\ listener[l].pc = "idle"
    /\ i <= j /\ j <= Len(said) /\ \A k \in i..j : said[k] \in {"customer", "phone"} /\ sentOut[k] < MaxSent
    /\ sentOut' = [k \in 1..MaxSaid |-> sentOut[k] + IF k \in i..j THEN 1 ELSE 0]
    /\ marked' = IF Inbound(i) /\ ~IsDuplicate(i) THEN marked \cup {i} ELSE marked
    /\ listener' = [listener EXCEPT ![l] =
         [pc |-> IF Inbound(i) /\ ~IsDuplicate(i) THEN "automation" ELSE "store",
          kind |-> "upsert", cur |-> i, last |-> j]]
    /\ UNCHANGED <<said, rows, told, ahead, breaks>>

\* The analysis and n8n; see AttendantActions.
Automate(l) ==
    /\ listener[l].pc = "automation"
    /\ Hear(l, "store")
    /\ UNCHANGED <<said, sentOut, rows, marked, told, ahead, breaks>>

\* messages.update: what became of message i, written on the panel or by n8n perhaps.
\* Without a text it is no text message and passes parseEvolutionMessage.
Report(l, i) ==
    /\ listener[l].pc = "idle" /\ i <= Len(said) /\ sentOut[i] < MaxSent
    /\ sentOut' = [sentOut EXCEPT ![i] = @ + 1]
    /\ listener' = [listener EXCEPT ![l] = [pc |-> "store", kind |-> "update", cur |-> i, last |-> i]]
    /\ UNCHANGED <<said, rows, marked, told, ahead, breaks>>

\* ingestEvolutionMessages, one message after the other.
Ingest(l) ==
    /\ listener[l].pc = "store"
    /\ LET i == listener[l].cur
           full == listener[l].kind = "upsert"
       IN  /\ StoreRow(Row(i, TRUE, full))
           /\ ahead' = IF ~full /\ ~Stored(i) THEN ahead \cup {i} ELSE ahead
           /\ told' = IF full THEN told \cup {i} ELSE told
    /\ listener' = [listener EXCEPT ![l] =
         IF listener[l].cur < listener[l].last THEN [listener[l] EXCEPT !.cur = @ + 1] ELSE Listening]
    /\ UNCHANGED <<said, sentOut, marked, breaks>>

-----------------------------------------------------------------------------
(* Panel and flow *)

\* sendManualMessage and sendHumanMessage send first...
SendFromPanel(l) ==
    /\ listener[l].pc = "idle" /\ Say("panel")
    /\ LET i == Len(said) + 1
       IN  listener' = [listener EXCEPT ![l] = [pc |-> "sent", kind |-> "none", cur |-> i, last |-> i]]
    /\ UNCHANGED <<sentOut, rows, marked, told, ahead, breaks>>

\* ...and store afterwards, without the id that the server gave the message.
StoreFromPanel(l) ==
    /\ listener[l].pc = "sent"
    /\ StoreRow(Row(listener[l].cur, FALSE, TRUE))
    /\ Hung(l)
    /\ UNCHANGED <<said, sentOut, marked, told, ahead, breaks>>

\* The flow's own answer.
FlowAnswers ==
    /\ Say("flow")
    /\ UNCHANGED <<sentOut, rows, marked, listener, told, ahead, breaks>>

\* Mutant: the id is not read from the flow's payload.
FlowLogsWithoutId(i) ==
    /\ i <= Len(said) /\ said[i] \in {"customer", "flow"} /\ ~Stored(i)
    /\ StoreRow(Row(i, FALSE, TRUE))
    /\ UNCHANGED <<said, sentOut, marked, listener, told, ahead, breaks>>

\* logAutomationMessage: what came in and what it answered, with its id.
FlowLogs(i) ==
    /\ i <= Len(said) /\ said[i] \in {"customer", "flow"} /\ ~Stored(i)
    /\ StoreRow(Row(i, TRUE, TRUE))
    /\ UNCHANGED <<said, sentOut, marked, listener, told, ahead, breaks>>

-----------------------------------------------------------------------------

\* A query or the automation fails: the rest of the webhook is not stored.
Breaks(l) ==
    /\ listener[l].pc # "idle" /\ breaks < MaxBreaks /\ breaks' = breaks + 1
    /\ Hung(l)
    /\ UNCHANGED <<said, sentOut, rows, marked, told, ahead>>

Reboot ==
    /\ breaks < MaxBreaks /\ breaks' = breaks + 1
    /\ listener' = [l \in Listeners |-> Listening] /\ marked' = {}
    /\ UNCHANGED <<said, sentOut, rows, told, ahead>>

ConversationsNext ==
    \/ \E by \in Authors : Write(by)
    \/ \E l \in Listeners :
         \/ \E i, j \in 1..MaxSaid : Deliver(l, i, j)
         \/ \E i \in 1..MaxSaid : Report(l, i)
         \/ Automate(l) \/ Ingest(l) \/ SendFromPanel(l) \/ StoreFromPanel(l) \/ Breaks(l)
    \/ FlowAnswers \/ (\E i \in 1..MaxSaid : FlowLogs(i)) \/ Reboot

ConversationsSpec == ConversationsInit /\ [][ConversationsNext]_conversationVars

-----------------------------------------------------------------------------
(* Properties *)

\* Types of the conversation.
ConversationsTypeOK ==
    /\ said \in UNION {[1..n -> Authors] : n \in 0..MaxSaid}
    /\ rows \subseteq [said : 1..Len(said), id : BOOLEAN, text : BOOLEAN]
    /\ marked \subseteq 1..Len(said) /\ breaks \in 0..MaxBreaks

\* A message is stored once, however often and from however many sides it is reported,
\* but for those written on the pages: their row has no id, so that a report of their
\* state adds a second one.
StoredOnce ==
    \A r, s \in rows : r.said = s.said /\ r # s => said[r.said] = "panel"

\* A message whose webhook was handled to its end is stored with its text, even if an
\* earlier delivery broke off after the automation had noted it; unless a report of its
\* state came first, which leaves a row without text that no webhook replaces.
HandledIsKept ==
    \A i \in told : \E r \in rows : r.said = i /\ (r.text \/ i \in ahead)

\* The conversation holds each message once, and every one that was handled.
ConversationComplete == StoredOnce /\ HandledIsKept
=============================================================================
