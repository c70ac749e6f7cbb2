-------------------------- MODULE AttendantActions --------------------------
(***************************************************************************)
(* What becomes of the WhatsApp messages of one customer: the webhook      *)
(* (whatsapp/services/whatsapp-connections.service.ts), the store of       *)
(* messages (whatsapp-conversations.service.ts) and the action layer that  *)
(* turns a message into a customer, an action request, an appointment and  *)
(* a booked sale (attendant-actions/attendant-action.service.ts).          *)
(*                                                                         *)
(* Evolution delivers a message any number of times, n8n logs the messages *)
(* forwarded to it, and each of these is a handler of its own: handlers    *)
(* interleave at every await.  A message is analysed before it is stored,  *)
(* and once more after that unless a request names it as its source.       *)
(*                                                                         *)
(* A text is what intent and data extraction make of it.  The customer is  *)
(* one phone number; the conversation and the lead are upserted under      *)
(* unique keys and left out, as are signals and memory.                    *)
(***************************************************************************)
EXTENDS Integers, Sequences, FiniteSets

CONSTANTS
    Messages,       \* ids of the customer's messages
    Text,           \* what each message says
    Times,          \* what appointments are asked for: service, date and time
    Orders,         \* order numbers
    Price,          \* what was paid for each order
    Handlers,       \* webhooks and log calls served at a time
    MaxFaults       \* bound on failed calls and restarts

None == "none"

\* SCHEDULE_REQUEST and MEETING_REQUEST.
Visits == {"schedule", "meeting"}
\* The other intents with one behaviour go by one name: "interest" asks for
\* services, quotes and products, "order" places or pays orders, "sale" closes
\* sales and subscriptions, "support" asks for help or cancels, "data" tells who
\* the customer is, "general" is none.
Intents == Visits \cup
    {"interest", "order", "sale", "support", "human", "data", "general"}
Slots == {None} \cup Times
TextType == [intent : Intents, fresh : BOOLEAN, slot : Slots,
             order : Orders \cup {None}, amount : Nat]

ASSUME AttendantAssumption ==
    /\ Text \in [Messages -> TextType]
    /\ Price \in [Orders -> Nat \ {0}]
    /\ None \notin Orders /\ None \notin Times
    /\ MaxFaults \in Nat
    /\ IsFiniteSet(Handlers)

VARIABLES
    seen,           \* processedMessageEvents, in memory
    stored,         \* messages with a row
    customers,      \* number of customer rows with this phone
    requests,       \* businessActionRequest rows, in the order of their creation
    appointments,   \* appointmentRequest rows
    sale, tx,       \* amounts by key: an order number or the id of a message
    attribution,    \* saleAIAttribution, by the key of its sale
    handler,        \* webhooks and log calls in progress
    faults,         \* failed calls and restarts so far
    forwarded,      \* history: how often a message went to n8n, up to twice
    raced,          \* history: messages two webhooks took for new
    recorded,       \* history: messages a request has named as its source
    broken,         \* history: messages with an analysis cut short for good
    overlapped,     \* history: two analyses ran at the same time
    moved           \* history: an appointment found by its message was given
                    \* another intent or time

books == <<sale, tx, attribution>>
rows == <<stored, customers, requests, appointments, books>>
vars == <<seen, rows, handler, faults, forwarded, raced, recorded, broken, overlapped, moved>>

-----------------------------------------------------------------------------
(* Rows and handlers *)

Keys == Messages \cup Orders
Fields == [slot : Slots, order : Orders \cup {None}, amount : Nat]
NoFields == [slot |-> None, order |-> None, amount |-> 0]

RequestType == [type : Intents \ {"general"}, status : {"info", "pending", "human"},
                fields : Fields, source : Messages, at : Nat, live : BOOLEAN]
AppointmentType == [intent : Intents, slot : Slots, source : Messages]

\* The steps of one analysis, in the order of the code.
Analysis == {"draft", "confirm", "find", "create", "request", "look", "book", "sale", "tx", "credit"}
Pcs == {"idle", "lookup", "config", "forward", "store", "check"} \cup Analysis
HandlerType ==
    [pc : Pcs, msg : Messages \cup {None}, first : BOOLEAN, draft : Nat,
     type : Intents, fields : Fields, appointment : Nat]
Idle == [pc |-> "idle", msg |-> None, first |-> FALSE, draft |-> 0,
         type |-> "general", fields |-> NoFields, appointment |-> 0]

Set(h, r) == handler' = [handler EXCEPT ![h] = r]
Goto(h, pc) == Set(h, [handler[h] EXCEPT !.pc = pc])
Busy(m) == \E h \in Handlers : handler[h].msg = m
Quiet == \A h \in Handlers : handler[h].pc = "idle"

\* What follows an analysis: a webhook that has not stored the message yet goes
\* on to forward it, whatever came of the analysis.
AfterAnalysis(h) ==
    IF handler[h].first
    THEN [Idle EXCEPT !.pc = "forward", !.msg = handler[h].msg]
    ELSE Idle

Init ==
    /\ seen = {} /\ stored = {} /\ customers = 0
    /\ requests = <<>> /\ appointments = <<>>
    /\ sale = [k \in Keys |-> 0] /\ tx = [k \in Keys |-> 0]
    /\ attribution = [k \in Keys |-> 0]
    /\ handler = [h \in Handlers |-> Idle]
    /\ faults = 0
    /\ forwarded = [m \in Messages |-> 0]
    /\ raced = {} /\ recorded = {} /\ broken = {}
    /\ overlapped = FALSE /\ moved = FALSE

-----------------------------------------------------------------------------
(* The webhook, up to the analysis *)

\* isDuplicateMessageEvent, before its await: a message in the map is only stored.
Receive(h, m) ==
    /\ handler[h].pc = "idle"
    /\ Set(h, [Idle EXCEPT !.pc = IF m \in seen THEN "store" ELSE "lookup", !.msg = m])
    /\ UNCHANGED <<seen, rows, faults, forwarded, raced, recorded, broken, overlapped, moved>>

\* Mutant: the message is not marked.
LookupUnmarked(h) ==
    /\ handler[h].pc = "lookup"
    /\ Goto(h, IF handler[h].msg \in stored THEN "store" ELSE "config")
    /\ UNCHANGED <<seen, rows, faults, forwarded, raced, recorded, broken, overlapped, moved>>

\* ... and after it: a message with a row is a duplicate, any other is marked.
Lookup(h) ==
    LET m == handler[h].msg IN
    /\ handler[h].pc = "lookup"
    /\ Goto(h, IF m \in stored THEN "store" ELSE "config")
    /\ seen' = IF m \in stored THEN seen ELSE seen \cup {m}
    /\ raced' = IF m \in seen \ stored THEN raced \cup {m} ELSE raced
    /\ UNCHANGED <<rows, faults, forwarded, recorded, broken, overlapped, moved>>

\* Starting an analysis; overlapped tells whether another one is running.
StartAnalysis(h, first) ==
    /\ Set(h, [handler[h] EXCEPT !.pc = "draft", !.first = first])
    /\ overlapped' = (overlapped \/ \E g \in Handlers : handler[g].pc \in Analysis)

\* The agent's configuration is read: the analysis, or nothing when it is off.
Configured(h) ==
    /\ handler[h].pc = "config"
    /\ \/ StartAnalysis(h, TRUE)
       \/ Goto(h, "store") /\ UNCHANGED overlapped
    /\ UNCHANGED <<seen, rows, faults, forwarded, raced, recorded, broken, moved>>

-----------------------------------------------------------------------------
(* analyzeAndPrepare *)

\* Mutant: the order number of the draft is lost.
MergeForgetsOrder(existing, current) ==
    [slot |-> IF current.slot # None THEN current.slot ELSE existing.slot,
     order |-> current.order,
     amount |-> IF current.amount # 0 THEN current.amount ELSE existing.amount]

\* mergeExtractedFields: what the message says, else what the draft holds.
Merge(existing, current) ==
    [slot |-> IF current.slot # None THEN current.slot ELSE existing.slot,
     order |-> IF current.order # None THEN current.order ELSE existing.order,
     amount |-> IF current.amount # 0 THEN current.amount ELSE existing.amount]

Said(m) == [slot |-> Text[m].slot, order |-> Text[m].order, amount |-> Text[m].amount]

\* resolveEffectiveIntent
Effective(intent, draftType) ==
    IF \/ intent \in {"general", "data"}
       \/ draftType \in Visits /\ intent = "interest"
    THEN draftType ELSE intent

Status(type, fields) ==
    IF type = "human" THEN "human"
    ELSE IF \/ type \in Visits \cup {"interest", "order"} /\ fields.slot = None
            \/ type = "sale" /\ fields.amount = 0
         THEN "info" ELSE "pending"

Newest(ids) == {i \in ids : \A j \in ids : requests[j].at <= requests[i].at}
InStatus(s) == {i \in DOMAIN requests : requests[i].live /\ requests[i].status = s}

\* The analysis goes on without a draft, if the text has an intent ...
WithoutDraft(h) ==
    LET m == handler[h].msg IN
    IF Text[m].intent = "general" THEN Set(h, AfterAnalysis(h))
    ELSE Set(h, [handler[h] EXCEPT !.pc = "find", !.draft = 0,
                                   !.type = Text[m].intent, !.fields = Said(m)])
\* ... or joins the newest of some drafts.
JoinDraft(h, drafts) ==
    LET m == handler[h].msg IN
    \E i \in Newest(drafts) :
        Set(h, [handler[h] EXCEPT !.pc = "find", !.draft = i,
                  !.type = Effective(Text[m].intent, requests[i].type),
                  !.fields = Merge(requests[i].fields, Said(m))])

\* findActiveActionDraft: no draft if the text opens a new matter, else one that
\* lacks something ...
FindDraft(h) ==
    /\ handler[h].pc = "draft"
    /\ IF Text[handler[h].msg].fresh THEN WithoutDraft(h)
       ELSE IF InStatus("info") # {} THEN JoinDraft(h, InStatus("info"))
       ELSE Goto(h, "confirm")
    /\ UNCHANGED <<seen, rows, faults, forwarded, raced, recorded, broken, overlapped, moved>>

\* ... and if there was none, one that awaits confirmation: the name and the phone
\* that come with every message make each look like an answer to it.
FindPending(h) ==
    /\ handler[h].pc = "confirm"
    /\ IF InStatus("pending") # {} THEN JoinDraft(h, InStatus("pending")) ELSE WithoutDraft(h)
    /\ UNCHANGED <<seen, rows, faults, forwarded, raced, recorded, broken, overlapped, moved>>

\* findExistingCustomer; an update of the row found changes nothing kept here.
FindCustomer(h) ==
    /\ handler[h].pc = "find"
    /\ Goto(h, IF customers = 0 THEN "create" ELSE "request")
    /\ UNCHANGED <<seen, rows, faults, forwarded, raced, recorded, broken, overlapped, moved>>

CreateCustomer(h) ==
    /\ handler[h].pc = "create"
    /\ customers' = customers + 1
    /\ Goto(h, "request")
    /\ UNCHANGED <<seen, stored, requests, appointments, books, faults, forwarded,
                   raced, recorded, broken, overlapped, moved>>

\* After the request: an appointment, a sale, or the end.
AfterRequest(h) ==
    CASE handler[h].type \in Visits -> [handler[h] EXCEPT !.pc = "look"]
      [] handler[h].type = "sale" /\ handler[h].fields.amount > 0 ->
             [handler[h] EXCEPT !.pc = "sale"]
      [] OTHER -> AfterAnalysis(h)

RequestOf(h, at) ==
    [type |-> handler[h].type, status |-> Status(handler[h].type, handler[h].fields),
     fields |-> handler[h].fields, source |-> handler[h].msg, at |-> at, live |-> TRUE]

\* Draft d is written: it becomes the newest.
Rewritten(h, d) ==
    [i \in DOMAIN requests |->
        IF i = d THEN RequestOf(h, Len(requests))
        ELSE IF requests[i].at > requests[d].at
        THEN [requests[i] EXCEPT !.at = @ - 1] ELSE requests[i]]

\* upsertBusinessActionRequest; data of the customer alone makes no request.
SaveRequest(h) ==
    LET d == handler[h].draft IN
    /\ handler[h].pc = "request"
    /\ IF d = 0 /\ handler[h].type = "data"
       THEN UNCHANGED <<requests, recorded>>
       ELSE /\ requests' = IF d = 0 THEN Append(requests, RequestOf(h, Len(requests) + 1))
                           ELSE Rewritten(h, d)
            /\ recorded' = recorded \cup {handler[h].msg}
    /\ Set(h, AfterRequest(h))
    /\ UNCHANGED <<seen, stored, customers, appointments, books, faults, forwarded,
                   raced, broken, overlapped, moved>>

\* Mutant: the time is not compared.
MatchingSource(m, intent, slot) ==
    {i \in DOMAIN appointments : appointments[i].source = m}

\* The appointment of this message, or one of its intent at the same time; a time
\* that is not known yet is no condition.
Matching(m, intent, slot) ==
    {i \in DOMAIN appointments :
        \/ appointments[i].source = m
        \/ appointments[i].intent = intent /\ slot \in {None, appointments[i].slot}}

FindAppointment(h) ==
    LET found == Matching(handler[h].msg, handler[h].type, handler[h].fields.slot) IN
    /\ handler[h].pc = "look"
    /\ \E i \in IF found = {} THEN {0} ELSE found :
         Set(h, [handler[h] EXCEPT !.pc = "book", !.appointment = i])
    /\ UNCHANGED <<seen, rows, faults, forwarded, raced, recorded, broken, overlapped, moved>>

\* The appointment, as it is written over row i (0: over none).
Written(h, i) ==
    [intent |-> handler[h].type, source |-> handler[h].msg,
     slot |-> IF i > 0 /\ handler[h].fields.slot = None
              THEN appointments[i].slot ELSE handler[h].fields.slot]

SaveAppointment(h) ==
    LET i == handler[h].appointment IN
    /\ handler[h].pc = "book"
    /\ IF i = 0
       THEN appointments' = Append(appointments, Written(h, 0)) /\ UNCHANGED moved
       ELSE /\ appointments' = [appointments EXCEPT ![i] = Written(h, i)]
            /\ moved' = (moved \/ appointments[i].intent # Written(h, i).intent
                               \/ appointments[i].slot # Written(h, i).slot)
    /\ Set(h, AfterAnalysis(h))
    /\ UNCHANGED <<seen, stored, customers, requests, books, faults, forwarded,
                   raced, recorded, broken, overlapped>>

\* buildExternalEventId: the order number, else the message.
Key(h) == IF handler[h].fields.order # None THEN handler[h].fields.order ELSE handler[h].msg

\* maybeUpsertCommercialRecord: three upserts under the same key.
SaveSale(h) ==
    /\ handler[h].pc = "sale"
    /\ sale' = [sale EXCEPT ![Key(h)] = handler[h].fields.amount]
    /\ Goto(h, "tx")
    /\ UNCHANGED <<seen, stored, customers, requests, appointments, tx, attribution,
                   faults, forwarded, raced, recorded, broken, overlapped, moved>>

SaveTransaction(h) ==
    /\ handler[h].pc = "tx"
    /\ tx' = [tx EXCEPT ![Key(h)] = handler[h].fields.amount]
    /\ Goto(h, "credit")
    /\ UNCHANGED <<seen, stored, customers, requests, appointments, sale, attribution,
                   faults, forwarded, raced, recorded, broken, overlapped, moved>>

SaveAttribution(h) ==
    /\ handler[h].pc = "credit"
    /\ attribution' = [attribution EXCEPT ![Key(h)] = handler[h].fields.amount]
    /\ Set(h, AfterAnalysis(h))
    /\ UNCHANGED <<seen, stored, customers, requests, appointments, sale, tx,
                   faults, forwarded, raced, recorded, broken, overlapped, moved>>

-----------------------------------------------------------------------------
(* Forwarding and storing *)

\* enforceLimit may refuse and n8n may not be configured: then nothing is sent.
Forward(h) ==
    LET m == handler[h].msg IN
    /\ handler[h].pc = "forward"
    /\ \/ forwarded' = [forwarded EXCEPT ![m] = IF @ = 2 THEN 2 ELSE @ + 1]
       \/ UNCHANGED forwarded
    /\ Set(h, [handler[h] EXCEPT !.pc = "store", !.first = FALSE])
    /\ UNCHANGED <<seen, rows, faults, raced, recorded, broken, overlapped, moved>>

\* n8n logs a message it was sent: the same storing, without the webhook.
N8nLogs(h, m) ==
    /\ handler[h].pc = "idle" /\ forwarded[m] > 0
    /\ Set(h, [Idle EXCEPT !.pc = "store", !.msg = m])
    /\ UNCHANGED <<seen, rows, faults, forwarded, raced, recorded, broken, overlapped, moved>>

\* message.create: the unique key of the message ends every handler but one.
Store(h) ==
    LET m == handler[h].msg IN
    /\ handler[h].pc = "store"
    /\ stored' = stored \cup {m}
    /\ Set(h, IF m \in stored THEN Idle ELSE [handler[h] EXCEPT !.pc = "check"])
    /\ UNCHANGED <<seen, customers, requests, appointments, books, faults, forwarded,
                   raced, recorded, broken, overlapped, moved>>

\* Mutant: a stored message is not analysed again.
CheckSkips(h) ==
    /\ handler[h].pc = "check"
    /\ Set(h, Idle)
    /\ UNCHANGED <<seen, rows, faults, forwarded, raced, recorded, broken, overlapped, moved>>

\* processAutomationActionLayer: analyse unless a request names the message.
OnRequest(m) == \E i \in DOMAIN requests : requests[i].source = m
Check(h) ==
    /\ handler[h].pc = "check"
    /\ \/ OnRequest(handler[h].msg) /\ Set(h, Idle) /\ UNCHANGED overlapped
       \/ ~OnRequest(handler[h].msg) /\ StartAnalysis(h, FALSE)
    /\ UNCHANGED <<seen, rows, faults, forwarded, raced, recorded, broken, moved>>
-----------------------------------------------------------------------------
(* Time and failures *)

\* Ten minutes on, the map no longer holds a message; no handler takes as long.
Forget(m) ==
    /\ m \in seen /\ ~Busy(m)
    /\ seen' = seen \ {m}
    /\ UNCHANGED <<rows, handler, faults, forwarded, raced, recorded, broken, overlapped, moved>>

\* Six hours without a message: no draft is active any more.
DraftsExpire ==
    /\ Quiet /\ \E i \in DOMAIN requests : requests[i].live
    /\ requests' = [i \in DOMAIN requests |-> [requests[i] EXCEPT !.live = FALSE]]
    /\ UNCHANGED <<seen, stored, customers, appointments, books, handler, faults,
                   forwarded, raced, recorded, broken, overlapped, moved>>

\* A first analysis that has not saved its request yet is made good by the second.
CutShort(hs) ==
    {handler[h].msg : h \in {g \in hs :
        \/ handler[g].pc = "check"
        \/ /\ handler[g].pc \in Analysis
           /\ ~(handler[g].first /\ handler[g].pc \in {"draft", "confirm", "find", "create", "request"})}}

\* A failing analysis is logged and counts as none; a failing forward is logged;
\* any other failure ends the webhook.
CallFails(h) ==
    /\ handler[h].pc # "idle" /\ faults < MaxFaults
    /\ faults' = faults + 1
    /\ broken' = broken \cup CutShort({h})
    /\ Set(h, IF handler[h].pc \in Analysis THEN AfterAnalysis(h)
              ELSE IF handler[h].pc = "forward"
              THEN [handler[h] EXCEPT !.pc = "store", !.first = FALSE] ELSE Idle)
    /\ UNCHANGED <<seen, rows, forwarded, raced, recorded, overlapped, moved>>

Restart ==
    /\ ~Quiet /\ faults < MaxFaults
    /\ faults' = faults + 1
    /\ broken' = broken \cup CutShort(Handlers)
    /\ seen' = {}
    /\ handler' = [h \in Handlers |-> Idle]
    /\ UNCHANGED <<rows, forwarded, raced, recorded, overlapped, moved>>

Webhook(h) ==
    \/ Lookup(h) \/ Configured(h) \/ Forward(h) \/ Store(h) \/ Check(h)
Analyse(h) ==
    \/ FindDraft(h) \/ FindPending(h) \/ FindCustomer(h) \/ CreateCustomer(h) \/ SaveRequest(h)
    \/ FindAppointment(h) \/ SaveAppointment(h)
    \/ SaveSale(h) \/ SaveTransaction(h) \/ SaveAttribution(h)

Next ==
    \/ \E h \in Handlers : Webhook(h) \/ Analyse(h) \/ CallFails(h)
    \/ \E h \in Handlers, m \in Messages : Receive(h, m) \/ N8nLogs(h, m)
    \/ \E m \in Messages : Forget(m)
    \/ DraftsExpire \/ Restart

Spec == Init /\ [][Next]_vars

-----------------------------------------------------------------------------
(* Properties *)

\* Every variable holds values of its kind.
TypeOK ==
    /\ seen \subseteq Messages /\ stored \subseteq Messages
    /\ raced \subseteq Messages /\ recorded \subseteq Messages /\ broken \subseteq Messages
    /\ customers \in Nat /\ faults \in 0..MaxFaults 
    /\ overlapped \in BOOLEAN /\ moved \in BOOLEAN
    /\ requests \in Seq(RequestType) /\ appointments \in Seq(AppointmentType)
    /\ sale \in [Keys -> Nat] /\ tx \in [Keys -> Nat] /\ attribution \in [Keys -> Nat]
    /\ handler \in [Handlers -> HandlerType]
    /\ forwarded \in [Messages -> 0..2]

\* Nothing is unique about a customer row: findExistingCustomer and the creation
\* are two awaits.  Still there are never more rows of one customer than
\* deliveries served at a time, whatever number of messages, resends, failures
\* and restarts.
CustomersBounded == customers <= Cardinality(Handlers)

\* When every request for an appointment states its time, analyses that do not
\* overlap make one customer, and one appointment per intent and time, however
\* often messages are sent again, fail half-way or meet a restart
\* (docs/MVP_SMOKE_TEST.md:38, :42).  Not so once an appointment was given another
\* intent or time: a message without an intent of its own, analysed again after a
\* later one has changed the draft, takes the appointment it made before over to
\* what the draft has become, whether there is one like it or not.
StatesTime == \A m \in Messages : Text[m].intent \in Visits => Text[m].slot # None
NoDuplicateAlone ==
    StatesTime /\ ~overlapped =>
        /\ customers <= 1
        /\ ~moved => \A i, j \in DOMAIN appointments :
              /\ appointments[i].intent = appointments[j].intent
              /\ appointments[i].slot = appointments[j].slot
              => i = j

\* Every message that states an order or an amount states both.
StatesBoth ==
    \A m \in Messages :
        \/ Text[m].order = None /\ Text[m].amount = 0
        \/ Text[m].order \in Orders /\ Text[m].amount = Price[Text[m].order]

\* Fields travel from message to message in a draft that several handlers read
\* and write over each other.  When messages state order and amount together, no
\* sale, transaction or attribution is ever booked but under its order number
\* and with the amount of that order: never twice, never with another's amount
\* (docs/MVP_SMOKE_TEST.md:40).
RevenueAsStated ==
    StatesBoth =>
        \A k \in Keys : \A amount \in {sale[k], tx[k], attribution[k]} :
            amount # 0 => k \in Orders /\ amount = Price[k]

\* A message is analysed before it is stored and again after, unless a request
\* names it.  So when nothing is in progress, every stored message took effect: a
\* request of the customer is on record, an order paid for is booked in all three
\* tables.  What is lost is lost by a failure or restart in the second analysis,
\* or in the first one once it has saved its request; nothing else loses any.
MessageTakesEffect ==
    Quiet => \A m \in stored \ broken :
        /\ Text[m].intent \notin {"general", "data"} => m \in recorded
        /\ Text[m].intent = "sale" /\ Text[m].order # None /\ Text[m].amount > 0 =>
              \A book \in {sale, tx, attribution} : book[Text[m].order] > 0

\* Map and row together keep a message from going to n8n twice, unless two
\* webhooks took it for new before either had marked it, or something failed.
ForwardedOnce ==
    \A m \in Messages : forwarded[m] > 1 => m \in raced \/ faults > 0

\* What docs/MVP_SMOKE_TEST.md:38 asks for: sending the same message again makes
\* no second customer.
ResendKeepsOneCustomer == customers <= 1
=============================================================================
