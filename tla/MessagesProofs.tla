---------------------------- MODULE MessagesProofs ----------------------------
(***************************************************************************)
(* Proofs about the modules that take in, store and answer messages, for   *)
(* any messages, conversations, workers and bounds on failures.  Each part *)
(* has an inductive invariant: what the rows of the database say about     *)
(* what is in progress.  Where the model counts (answers, deliveries), the *)
(* invariant accounts for each unit: what waits, what is in progress and   *)
(* what was done add up to no more than what came.                         *)
(***************************************************************************)
EXTENDS InstagramMessages, InstagramAccount, WhatsappInbox, Conversations,
        FiniteSetTheorems, TLAPS

-----------------------------------------------------------------------------
(* The conversation *)

ListenerType ==
    [pc : {"idle", "automation", "store", "sent"}, kind : {"none", "upsert", "update"},
     cur : Nat, last : Nat]
RowType == [said : Nat, id : BOOLEAN, text : BOOLEAN]

\* What a listener is about to store exists: messages from outside for a webhook
\* with texts, one of the company's for a page.
Listens(r, msgs) ==
    /\ r.pc = "sent" => r.cur \in 1..Len(msgs) /\ msgs[r.cur] = "panel"
    /\ r.pc \in {"automation", "store"} =>
         /\ 1 <= r.cur /\ r.cur <= r.last /\ r.last <= Len(msgs)
         /\ r.kind = "upsert" => \A k \in r.cur..r.last : msgs[k] \in {"customer", "phone"}

ConvTypes ==
    /\ said \in Seq(Authors) /\ Len(said) <= MaxSaid
    /\ rows \subseteq RowType /\ \A r \in rows : r.said \in 1..Len(said)
    /\ listener \in [Listeners -> ListenerType]
    /\ marked \subseteq 1..Len(said) /\ breaks \in 0..MaxBreaks

\* Only the pages store a row without the id.
PanelRows == \A r \in rows : ~r.id => said[r.said] = "panel"
\* The id makes a row unique.
IdIsUnique == \A r, s \in rows : r.id /\ s.id /\ r.said = s.said => r = s
\* A row without text came of a report.
TextIsKept == \A r \in rows : r.id /\ ~r.text => r.said \in ahead
\* What was handled has its row.
ToldIsStored == \A i \in told : \E r \in rows : r.said = i /\ r.id

ConvInv ==
    /\ ConvTypes
    /\ \A l \in Listeners : Listens(listener[l], said)
    /\ PanelRows /\ IdIsUnique /\ TextIsKept /\ ToldIsStored

LEMMA ConversationBegins == ConversationsInit => ConvInv
  BY ConversationsAssumption, SMT
     DEF ConversationsInit, ConvInv, ConvTypes, Listens, Listening, ListenerType,
         PanelRows, IdIsUnique, TextIsKept, ToldIsStored

\* Further messages and reports change nothing for what is stored and handled.
LEMMA MessageAdded ==
    ASSUME ConvInv, NEW by \in Authors, Say(by)
    PROVE  /\ said' \in Seq(Authors) /\ Len(said') = Len(said) + 1 /\ Len(said') <= MaxSaid
           /\ \A i \in 1..Len(said) : said'[i] = said[i]
           /\ said'[Len(said) + 1] = by
           /\ Len(said) \in Nat
  BY ConversationsAssumption DEF ConvInv, ConvTypes, Say

LEMMA RowsKept ==
    ASSUME ConvInv, NEW by \in Authors, Say(by),
           UNCHANGED <<rows, marked, told, ahead, breaks>>,
           listener' \in [Listeners -> ListenerType],
           \A l \in Listeners : listener'[l] = listener[l] \/ Listens(listener'[l], said')
    PROVE  ConvInv'
<1>1. /\ said' \in Seq(Authors) /\ Len(said') = Len(said) + 1 /\ Len(said') <= MaxSaid
      /\ \A i \in 1..Len(said) : said'[i] = said[i]
      /\ Len(said) \in Nat
  BY MessageAdded
<1>2. ConvTypes'
  <2>1. 1..Len(said) \subseteq 1..Len(said')
    BY <1>1
  <2>2. \A r \in rows' : r.said \in 1..Len(said')
    BY <2>1 DEF ConvInv, ConvTypes
  <2>3. marked' \subseteq 1..Len(said')
    BY <2>1 DEF ConvInv, ConvTypes
  <2> QED BY <1>1, <2>2, <2>3 DEF ConvInv, ConvTypes
<1>3. ASSUME NEW l \in Listeners
      PROVE  Listens(listener'[l], said')
  <2>1. CASE listener'[l] = listener[l]
    <3>1. listener[l] \in ListenerType /\ Listens(listener[l], said)
      BY DEF ConvInv, ConvTypes
    <3>2. CASE listener[l].pc = "sent"
      BY <1>1, <2>1, <3>1, <3>2 DEF Listens
    <3>3. CASE listener[l].pc \in {"automation", "store"}
      <4>1. listener[l].cur \in Nat /\ listener[l].last \in Nat
        BY <3>1 DEF ListenerType
      <4>2. listener[l].cur..listener[l].last \subseteq 1..Len(said)
        BY <1>1, <3>1, <3>3, <4>1 DEF Listens
      <4> QED BY <1>1, <2>1, <3>1, <3>3, <4>1, <4>2 DEF Listens
    <3>4. CASE listener[l].pc \notin {"sent", "automation", "store"}
      BY <2>1, <3>4 DEF Listens
    <3> QED BY <3>2, <3>3, <3>4
  <2> QED BY <2>1
<1>4. PanelRows'
  BY <1>1 DEF ConvInv, ConvTypes, PanelRows
<1>5. IdIsUnique' /\ TextIsKept' /\ ToldIsStored'
  BY DEF ConvInv, IdIsUnique, TextIsKept, ToldIsStored
<1> QED BY <1>2, <1>3, <1>4, <1>5 DEF ConvInv

\* A step that stores nothing and moves one listener.
LEMMA ListenerMoves ==
    ASSUME ConvInv, NEW l \in Listeners, NEW r \in ListenerType, Listens(r, said),
           listener' = [listener EXCEPT ![l] = r],
           marked' \subseteq 1..Len(said), breaks' \in 0..MaxBreaks,
           UNCHANGED <<said, rows, told, ahead>>
    PROVE  ConvInv'
<1>1. ConvTypes'
  BY DEF ConvInv, ConvTypes
<1>2. \A m \in Listeners : Listens(listener'[m], said')
  BY DEF ConvInv, ConvTypes, Listens
<1> QED BY <1>1, <1>2 DEF ConvInv, PanelRows, IdIsUnique, TextIsKept, ToldIsStored

\* A step that stores a row: with an id if it is not of the pages, and without text
\* only if it is noted in ahead.
LEMMA RowStored ==
    ASSUME ConvInv, NEW r \in RowType, StoreRow(r), r.said \in 1..Len(said),
           ~r.id => said[r.said] = "panel",
           ahead \subseteq ahead',
           r.id /\ ~r.text /\ ~Stored(r.said) => r.said \in ahead',
           \A i \in told' : i \in told \/ (r.id /\ i = r.said),
           UNCHANGED <<said, marked, breaks>>,
           listener' \in [Listeners -> ListenerType],
           \A l \in Listeners : Listens(listener'[l], said')
    PROVE  ConvInv'
<1>1. rows' \subseteq rows \cup {r} /\ rows \subseteq rows'
  BY DEF StoreRow
<1>2. ConvTypes'
  BY <1>1 DEF ConvInv, ConvTypes
<1>3. PanelRows'
  BY <1>1 DEF ConvInv, PanelRows
<1>4. IdIsUnique'
  BY DEF ConvInv, IdIsUnique, StoreRow, Stored
<1>5. TextIsKept'
  BY DEF ConvInv, TextIsKept, StoreRow
<1>6. r.id => \E q \in rows' : q.said = r.said /\ q.id
  BY DEF StoreRow, Stored
<1>7. ToldIsStored'
  BY <1>1, <1>6 DEF ConvInv, ToldIsStored
<1> QED BY <1>2, <1>3, <1>4, <1>5, <1>7 DEF ConvInv

LEMMA ConversationGoesOn == ConvInv /\ [ConversationsNext]_conversationVars => ConvInv'
<1> SUFFICES ASSUME ConvInv, [ConversationsNext]_conversationVars
             PROVE  ConvInv'
  OBVIOUS
<1>0. /\ said \in Seq(Authors) /\ Len(said) \in Nat /\ Len(said) <= MaxSaid
      /\ listener \in [Listeners -> ListenerType] /\ marked \subseteq 1..Len(said)
      /\ breaks \in 0..MaxBreaks
      /\ \A l \in Listeners : listener[l] \in ListenerType /\ Listens(listener[l], said)
  BY DEF ConvInv, ConvTypes
<1>1. ASSUME NEW by \in Authors, Write(by)
      PROVE  ConvInv'
  BY <1>0, <1>1, RowsKept DEF Write
<1>2. ASSUME NEW l \in Listeners, NEW i \in 1..MaxSaid, NEW j \in 1..MaxSaid, Deliver(l, i, j)
      PROVE  ConvInv'
  <2> DEFINE r == [pc |-> IF Inbound(i) /\ ~IsDuplicate(i) THEN "automation" ELSE "store",
                   kind |-> "upsert", cur |-> i, last |-> j]
  <2>1. r \in ListenerType
    BY ConversationsAssumption DEF ListenerType
  <2>2. i <= j /\ j <= Len(said) /\ \A k \in i..j : said[k] \in {"customer", "phone"}
    BY <1>2 DEF Deliver
  <2>3. Listens(r, said)
    BY <1>0, <2>2 DEF Listens
  <2>4. marked' \subseteq 1..Len(said)
    BY <1>0, <1>2, <2>2 DEF Deliver
  <2> HIDE DEF r
  <2>5. listener' = [listener EXCEPT ![l] = r]
    BY <1>2 DEF Deliver, r
  <2> QED BY <1>0, <1>2, <2>1, <2>3, <2>4, <2>5, ListenerMoves DEF Deliver
<1>3. ASSUME NEW l \in Listeners, NEW i \in 1..MaxSaid, Report(l, i)
      PROVE  ConvInv'
  <2> DEFINE r == [pc |-> "store", kind |-> "update", cur |-> i, last |-> i]
  <2>1. r \in ListenerType /\ Listens(r, said)
    BY <1>0, <1>3, ConversationsAssumption DEF ListenerType, Listens, Report
  <2> HIDE DEF r
  <2>2. listener' = [listener EXCEPT ![l] = r]
    BY <1>3 DEF Report, r
  <2> QED BY <1>0, <1>3, <2>1, <2>2, ListenerMoves DEF Report
<1>4. ASSUME NEW l \in Listeners, Automate(l)
      PROVE  ConvInv'
  <2> DEFINE r == [listener[l] EXCEPT !.pc = "store"]
  <2>1. r \in ListenerType /\ Listens(r, said)
    BY <1>0, <1>4 DEF ListenerType, Listens, Automate
  <2> HIDE DEF r
  <2>2. listener' = [listener EXCEPT ![l] = r]
    BY <1>0, <1>4 DEF Automate, Hear, r
  <2> QED BY <1>0, <1>4, <2>1, <2>2, ListenerMoves DEF Automate
<1>5. ASSUME NEW l \in Listeners, Ingest(l)
      PROVE  ConvInv'
  <2> DEFINE i == listener[l].cur
             full == listener[l].kind = "upsert"
             r == Row(i, TRUE, full)
  <2>1. /\ listener[l] \in ListenerType /\ i \in 1..Len(said) /\ listener[l].last \in 1..Len(said)
        /\ i <= listener[l].last
        /\ full => \A k \in i..listener[l].last : said[k] \in {"customer", "phone"}
    BY <1>0, <1>5 DEF Ingest, ListenerType, Listens
  <2>2. r \in RowType /\ r.said = i /\ r.id = TRUE /\ r.text = full
    BY <2>1 DEF Row, RowType
  <2>3. /\ StoreRow(r)
        /\ ahead' = IF ~full /\ ~Stored(i) THEN ahead \cup {i} ELSE ahead
        /\ told' = IF full THEN told \cup {i} ELSE told
    BY <1>5 DEF Ingest
  <2>4. /\ listener' \in [Listeners -> ListenerType]
        /\ \A m \in Listeners : Listens(listener'[m], said')
    <3>1. CASE i < listener[l].last
      <4> DEFINE n == [listener[l] EXCEPT !.cur = i + 1]
      <4>1. n \in ListenerType
        BY <2>1 DEF ListenerType
      <4>2. Listens(n, said)
        BY <1>5, <2>1, <3>1 DEF Listens, ListenerType, Ingest
      <4>3. listener' = [listener EXCEPT ![l] = n]
        BY <1>5, <3>1 DEF Ingest
      <4> HIDE DEF n
      <4>4. said' = said /\ listener'[l] = n /\ \A m \in Listeners \ {l} : listener'[m] = listener[m]
        BY <1>0, <1>5, <4>3 DEF Ingest
      <4> QED BY <1>0, <4>1, <4>2, <4>3, <4>4
    <3>2. CASE ~(i < listener[l].last)
      <4>1. listener' = [listener EXCEPT ![l] = Listening]
        BY <1>5, <3>2 DEF Ingest
      <4> QED BY <1>0, <1>5, <4>1 DEF Listens, Ingest, Listening, ListenerType
    <3> QED BY <3>1, <3>2
  <2> HIDE DEF i, full, r
  <2> QED BY <1>5, <2>1, <2>2, <2>3, <2>4, RowStored DEF Ingest
<1>6. ASSUME NEW l \in Listeners, SendFromPanel(l)
      PROVE  ConvInv'
  <2> DEFINE r == [pc |-> "sent", kind |-> "none", cur |-> Len(said) + 1,
                   last |-> Len(said) + 1]
  <2>1. Say("panel") /\ "panel" \in Authors
    BY <1>6 DEF SendFromPanel, Authors
  <2>2. Len(said') = Len(said) + 1 /\ said'[Len(said) + 1] = "panel"
    BY <2>1, MessageAdded
  <2>3. r \in ListenerType /\ Listens(r, said')
    BY <1>0, <2>2 DEF ListenerType, Listens
  <2>4. listener' = [listener EXCEPT ![l] = r]
    BY <1>6 DEF SendFromPanel
  <2> HIDE DEF r
  <2>5. /\ listener' \in [Listeners -> ListenerType]
        /\ \A m \in Listeners : listener'[m] = listener[m] \/ Listens(listener'[m], said')
    <3>1. listener'[l] = r /\ \A m \in Listeners \ {l} : listener'[m] = listener[m]
      BY <1>0, <2>4
    <3>2. Listens(listener'[l], said')
      BY <2>3, <3>1 DEF Listens
    <3> QED BY <1>0, <2>3, <2>4, <3>1, <3>2
  <2> QED BY <1>6, <2>1, <2>5, RowsKept DEF SendFromPanel
<1>7. ASSUME NEW l \in Listeners, StoreFromPanel(l)
      PROVE  ConvInv'
  <2> DEFINE r == Row(listener[l].cur, FALSE, TRUE)
  <2>1. listener[l].cur \in 1..Len(said) /\ said[listener[l].cur] = "panel"
    BY <1>0, <1>7 DEF StoreFromPanel, Listens
  <2>2. r \in RowType /\ r.said = listener[l].cur /\ r.id = FALSE
    BY <1>0, <2>1 DEF Row, RowType
  <2>3. /\ listener' \in [Listeners -> ListenerType]
        /\ \A m \in Listeners : Listens(listener'[m], said')
    BY <1>0, <1>7 DEF StoreFromPanel, Hung, Listens, Listening, ListenerType
  <2>4. StoreRow(r)
    BY <1>7 DEF StoreFromPanel
  <2> HIDE DEF r
  <2> QED BY <1>7, <2>1, <2>2, <2>3, <2>4, RowStored DEF StoreFromPanel
<1>8. ASSUME FlowAnswers
      PROVE  ConvInv'
  BY <1>0, <1>8, RowsKept DEF FlowAnswers, Authors
<1>9. ASSUME NEW i \in 1..MaxSaid, FlowLogs(i)
      PROVE  ConvInv'
  <2> DEFINE r == Row(i, TRUE, TRUE)
  <2>1. r \in RowType /\ r.said = i /\ r.id = TRUE /\ r.text = TRUE
    BY ConversationsAssumption DEF Row, RowType
  <2>2. i \in 1..Len(said) /\ StoreRow(r)
    <3>1. i <= Len(said) /\ StoreRow(Row(i, TRUE, TRUE))
      BY <1>9 DEF FlowLogs
    <3>2. i \in 1..Len(said)
      BY <1>0, <3>1, ConversationsAssumption
    <3> QED BY <3>1, <3>2
  <2>3. \A m \in Listeners : Listens(listener'[m], said')
    BY <1>0, <1>9 DEF FlowLogs, Listens
  <2> HIDE DEF r
  <2> QED BY <1>0, <1>9, <2>1, <2>2, <2>3, RowStored DEF FlowLogs
<1>10. ASSUME NEW l \in Listeners, Breaks(l)
       PROVE  ConvInv'
  <2>1. Listening \in ListenerType /\ Listens(Listening, said)
    BY DEF Listening, ListenerType, Listens
  <2>2. breaks' \in 0..MaxBreaks /\ marked' \subseteq 1..Len(said)
    BY <1>0, <1>10, ConversationsAssumption DEF Breaks
  <2>3. listener' = [listener EXCEPT ![l] = Listening] /\ UNCHANGED <<said, rows, told, ahead>>
    BY <1>10 DEF Breaks, Hung
  <2> QED BY <2>1, <2>2, <2>3, ListenerMoves
<1>11. ASSUME Reboot
       PROVE  ConvInv'
  <2>1. ConvTypes'
    BY <1>11, ConversationsAssumption
    DEF Reboot, ConvInv, ConvTypes, Listening, ListenerType
  <2>2. \A l \in Listeners : Listens(listener'[l], said')
    BY <1>11 DEF Reboot, Listening, Listens
  <2> QED BY <1>11, <2>1, <2>2
      DEF Reboot, ConvInv, PanelRows, IdIsUnique, TextIsKept, ToldIsStored
<1>12. ASSUME UNCHANGED conversationVars
       PROVE  ConvInv'
  BY <1>12 DEF conversationVars, ConvInv, ConvTypes, Listens, PanelRows, IdIsUnique,
               TextIsKept, ToldIsStored
<1> QED
  BY <1>1, <1>2, <1>3, <1>4, <1>5, <1>6, <1>7, <1>8, <1>9, <1>10, <1>11, <1>12
  DEF ConversationsNext

\* The conversation has each message once, and every one whose webhook was handled, with
\* its text, however webhooks, the flow and the pages overlap.
THEOREM ConversationIsComplete ==
    ConversationsSpec => [](ConversationsTypeOK /\ ConversationComplete)
<1>1. ConvInv => ConversationsTypeOK /\ ConversationComplete
  <2> SUFFICES ASSUME ConvInv PROVE ConversationsTypeOK /\ ConversationComplete
    OBVIOUS
  <2>1. StoredOnce
    BY DEF ConvInv, ConvTypes, StoredOnce, IdIsUnique, PanelRows, RowType
  <2>2. HandledIsKept
    BY DEF ConvInv, HandledIsKept, ToldIsStored, TextIsKept
  <2>3. said \in UNION {[1..n -> Authors] : n \in 0..MaxSaid}
    <3>1. said \in [1..Len(said) -> Authors] /\ Len(said) \in 0..MaxSaid
      BY ConversationsAssumption DEF ConvInv, ConvTypes
    <3> QED BY <3>1
  <2>4. ConversationsTypeOK
    BY <2>3 DEF ConvInv, ConvTypes, RowType, ConversationsTypeOK
  <2> QED BY <2>1, <2>2, <2>4 DEF ConversationComplete
<1> QED BY <1>1, ConversationBegins, ConversationGoesOn, PTL DEF ConversationsSpec

-----------------------------------------------------------------------------
(* Direct messages of Instagram *)

\* The pause of a conversation is a person's, until t.
HumansPause(c, t) == c.isPaused /\ ~c.botPaused /\ c.until = t

\* A message that came during a person's pause waits at the gate for the pause it has
\* read to run out, and goes on only if it has, by time t.
StaysSilent(r, t) ==
    /\ r.pc \in {"idle", "claim", "load", "resolve"} => r.held = 0
    /\ r.pc \in {"create", "gate"} /\ r.held # 0 => HumansPause(r.snap, r.held)
    /\ r.pc \in {"act", "ai", "asked", "handoff", "reply"} => r.held <= t

PauseInv ==
    /\ held # 0 => HumansPause(thread, held)
    /\ \A w \in Workers : StaysSilent(worker[w], now)

\* Who may still answer a message, and whether it may be claimed again.
Running == {"load", "resolve", "create", "gate", "act", "ai", "asked", "handoff", "reply"}
Answers(r, d) == r.dm = d /\ r.pc \in Running
Answerers(d) == {w \in Workers : Answers(worker[w], d)}
Credit(d) == IF event[d].status \in {"none", "received"} THEN 1 ELSE 0

AnswerInv ==
    \A d \in Dms : posted[d] + Cardinality(Answerers(d)) + Credit(d) <= 1 + again[d]

\* Only a received event can be claimed: what has failed is processed.
ClaimInv ==
    \A d \in Dms :
        /\ Claimable(d) <=> event[d].status = "received"
        /\ event[d].status = "none" => ~event[d].processed

DmInv == InstagramTypeOK /\ PauseInv /\ AnswerInv /\ ClaimInv /\ OpenEventHasWorker

\* Unfolded types.
LEMMA DmTypes ==
    ASSUME DmInv
    PROVE  /\ event \in [Dms -> EventType]
           /\ worker \in [Workers -> WorkerType]
           /\ \A w \in Workers : worker[w] \in WorkerType /\ worker[w].dm \in Dms
           /\ \A d \in Dms : event[d] \in EventType
           /\ posted \in [Dms -> Nat] /\ again \in [Dms -> 0..MaxReprocess]
           /\ \A d \in Dms : posted[d] \in Nat /\ again[d] \in Nat
           /\ thread \in ThreadType /\ now \in Nat /\ held \in Nat
  BY InstagramAssumption DEF DmInv, InstagramTypeOK, WorkerType

LEMMA NoWorkTypes ==
    /\ NoWork \in WorkerType /\ NoWork.pc = "idle" /\ NoWork.held = 0
    /\ \A t : StaysSilent(NoWork, t)
<1>1. (CHOOSE d \in Dms : TRUE) \in Dms
  BY InstagramAssumption
<1>2. Unpaused \in ThreadType
  BY DEF Unpaused, ThreadType
<1> QED BY <1>1, <1>2 DEF NoWork, WorkerType, Stages, Outcomes, StaysSilent

LEMMA AnswerersCounted ==
    ASSUME NEW d
    PROVE  IsFiniteSet(Answerers(d)) /\ Cardinality(Answerers(d)) \in Nat
<1>1. Answerers(d) \subseteq Workers
  BY DEF Answerers
<1> QED BY <1>1, InstagramAssumption, FS_Subset, FS_CardinalityType

\* How the step of one worker changes their number.
LEMMA AnswerersChange ==
    ASSUME worker \in [Workers -> WorkerType], NEW w \in Workers, NEW r \in WorkerType,
           worker' = [worker EXCEPT ![w] = r], NEW d \in Dms
    PROVE  LET n == Cardinality(Answerers(d)) IN
           /\ Cardinality(Answerers(d)') \in Nat /\ n \in Nat
           /\ Answers(worker[w], d) => n >= 1
           /\ Answers(worker[w], d) /\ ~Answers(r, d) => Cardinality(Answerers(d)') = n - 1
           /\ Answers(r, d) /\ ~Answers(worker[w], d) => Cardinality(Answerers(d)') = n + 1
           /\ (Answers(r, d) <=> Answers(worker[w], d)) => Cardinality(Answerers(d)') = n
<1>1. IsFiniteSet(Answerers(d)) /\ Cardinality(Answerers(d)) \in Nat
  BY AnswerersCounted
<1>2. worker'[w] = r /\ \A v \in Workers \ {w} : worker'[v] = worker[v]
  OBVIOUS
<1>3. CASE Answers(worker[w], d) /\ ~Answers(r, d)
  <2>1. Answerers(d)' = Answerers(d) \ {w} /\ w \in Answerers(d)
    BY <1>2, <1>3 DEF Answerers
  <2>2. Answerers(d) # {}
    BY <2>1
  <2>3. Cardinality(Answerers(d)) # 0
    BY <1>1, <2>2, FS_EmptySet
  <2>4. Cardinality(Answerers(d) \ {w}) = Cardinality(Answerers(d)) - 1
    BY <1>1, <2>1, FS_RemoveElement
  <2>5. Cardinality(Answerers(d)') = Cardinality(Answerers(d)) - 1
    BY <2>1, <2>4
  <2>6. Cardinality(Answerers(d)) >= 1
    BY <1>1, <2>3
  <2> QED BY <1>1, <1>3, <2>5, <2>6
<1>4. CASE Answers(r, d) /\ ~Answers(worker[w], d)
  <2>1. Answerers(d)' = Answerers(d) \cup {w} /\ w \notin Answerers(d)
    BY <1>2, <1>4 DEF Answerers
  <2>2. Cardinality(Answerers(d) \cup {w}) = Cardinality(Answerers(d)) + 1
    BY <1>1, <2>1, FS_AddElement
  <2>3. Cardinality(Answerers(d)') = Cardinality(Answerers(d)) + 1
    BY <2>1, <2>2
  <2> QED BY <1>1, <1>4, <2>3
<1>5. CASE Answers(r, d) <=> Answers(worker[w], d)
  <2>1. Answerers(d)' = Answerers(d)
    BY <1>2, <1>5 DEF Answerers
  <2>2. Answers(worker[w], d) => Answerers(d) # {}
    BY DEF Answerers
  <2>3. Answers(worker[w], d) => Cardinality(Answerers(d)) # 0
    BY <1>1, <2>2, FS_EmptySet
  <2> QED BY <1>1, <1>5, <2>1, <2>3
<1> QED BY <1>3, <1>4, <1>5

LEMMA DmBegins == InstagramInit => DmInv
<1> SUFFICES ASSUME InstagramInit PROVE DmInv
  OBVIOUS
<1>1. NoWork \in WorkerType /\ NoWork.pc = "idle" /\ \A t : StaysSilent(NoWork, t)
  BY NoWorkTypes
<1>2. InstagramTypeOK
  <2>1. NoEvent \in EventType /\ Unpaused \in ThreadType
    BY DEF NoEvent, EventType, Unpaused, ThreadType
  <2>2. 0 \in 0..MaxMishaps /\ 0 \in 0..MaxReprocess
    BY InstagramAssumption
  <2> QED BY <1>1, <2>1, <2>2 DEF InstagramInit, InstagramTypeOK
<1>3. PauseInv
  BY <1>1 DEF InstagramInit, PauseInv
<1>4. AnswerInv
  <2>1. ASSUME NEW d \in Dms PROVE Answerers(d) = {}
    BY <1>1 DEF InstagramInit, Answerers, Answers, Running
  <2>2. ASSUME NEW d \in Dms PROVE Cardinality(Answerers(d)) = 0
    BY <2>1, FS_EmptySet
  <2>3. \A d \in Dms : posted[d] = 0 /\ again[d] = 0 /\ Credit(d) = 1
    BY DEF InstagramInit, Credit, NoEvent
  <2> QED BY <2>2, <2>3 DEF AnswerInv
<1>5. ClaimInv /\ OpenEventHasWorker
  BY DEF InstagramInit, ClaimInv, Claimable, OpenEventHasWorker, NoEvent
<1> QED BY <1>2, <1>3, <1>4, <1>5 DEF DmInv

\* A worker that has claimed its event goes on with it, and answers nothing more than
\* it might have before.
LEMMA WorkGoesOn ==
    ASSUME DmInv, NEW w \in Workers, NEW r \in WorkerType,
           worker' = [worker EXCEPT ![w] = r],
           worker[w].pc \notin {"idle", "claim"}, r.pc \notin {"idle", "claim"},
           r.dm = worker[w].dm, r.pc \in Running => worker[w].pc \in Running,
           StaysSilent(r, now),
           UNCHANGED <<event, queue, again, lost>>,
           posted' = posted
             \/ (posted' = [posted EXCEPT ![r.dm] = @ + 1]
                 /\ worker[w].pc \in Running /\ r.pc \notin Running),
           inbound' \subseteq Dms, mishaps' \in 0..MaxMishaps,
           thread' \in ThreadType, now' = now,
           held' \in Nat, held' # 0 => HumansPause(thread', held')
    PROVE  DmInv'
<1>1. worker \in [Workers -> WorkerType] /\ posted \in [Dms -> Nat] /\ r.dm \in Dms
  BY DmTypes
<1>2. worker' \in [Workers -> WorkerType] /\ posted' \in [Dms -> Nat]
  BY <1>1
<1>3. InstagramTypeOK'
  BY <1>2 DEF DmInv, InstagramTypeOK
<1>4. PauseInv'
  BY <1>1 DEF DmInv, PauseInv
<1>5. ASSUME NEW d \in Dms
      PROVE  posted'[d] + Cardinality(Answerers(d)') + Credit(d)' <= 1 + again'[d]
  <2>1. posted[d] + Cardinality(Answerers(d)) + Credit(d) <= 1 + again[d]
    BY DEF DmInv, AnswerInv
  <2>2. Credit(d)' = Credit(d) /\ again'[d] = again[d] /\ Credit(d) \in Nat
    BY DEF Credit
  <2>3. posted[d] \in Nat /\ again[d] \in Nat
    BY DmTypes
  <2>4. CASE posted' = posted
    <3>1. Cardinality(Answerers(d)') <= Cardinality(Answerers(d))
      <4>1. Answers(r, d) => Answers(worker[w], d)
        BY DEF Answers
      <4>2. CASE Answers(r, d) <=> Answers(worker[w], d)
        <5>1. Cardinality(Answerers(d)') = Cardinality(Answerers(d))
          BY <1>1, <4>2, AnswerersChange
        <5>2. Cardinality(Answerers(d)) \in Nat
          BY AnswerersCounted
        <5> QED BY <5>1, <5>2
      <4>3. CASE Answers(worker[w], d) /\ ~Answers(r, d)
        <5>1. Cardinality(Answerers(d)') = Cardinality(Answerers(d)) - 1
          BY <1>1, <4>3, AnswerersChange
        <5>2. Cardinality(Answerers(d)) \in Nat
          BY AnswerersCounted
        <5> QED BY <5>1, <5>2
      <4> QED BY <4>1, <4>2, <4>3
    <3>2. Cardinality(Answerers(d)') \in Nat /\ Cardinality(Answerers(d)) \in Nat
      BY <1>1, AnswerersChange
    <3>3. posted'[d] = posted[d]
      BY <2>4
    <3> QED BY <2>1, <2>2, <2>3, <3>1, <3>2, <3>3
  <2>5. CASE posted' = [posted EXCEPT ![r.dm] = @ + 1]
             /\ worker[w].pc \in Running /\ r.pc \notin Running
    <3>1. CASE d = r.dm
      <4>1. Answers(worker[w], d) /\ ~Answers(r, d)
        BY <2>5, <3>1 DEF Answers
      <4>2. posted'[d] = posted[d] + 1
        BY <1>1, <2>5, <3>1
      <4>3. Cardinality(Answerers(d)') = Cardinality(Answerers(d)) - 1
            /\ Cardinality(Answerers(d)) \in Nat
        BY <1>1, <4>1, AnswerersChange
      <4> QED BY <2>1, <2>2, <2>3, <4>2, <4>3
    <3>2. CASE d # r.dm
      <4>1. posted'[d] = posted[d]
        BY <1>1, <2>5, <3>2
      <4>2. ~Answers(worker[w], d) /\ ~Answers(r, d)
        BY <3>2 DEF Answers
      <4>3. Cardinality(Answerers(d)') = Cardinality(Answerers(d))
        BY <1>1, <4>2, AnswerersChange
      <4> QED BY <2>1, <2>2, <4>1, <4>3
    <3> QED BY <3>1, <3>2
  <2> QED BY <2>4, <2>5
<1>6. AnswerInv'
  BY <1>5 DEF AnswerInv
<1>7. ClaimInv'
  BY DEF DmInv, ClaimInv, Claimable
<1>8. OpenEventHasWorker'
  BY <1>1 DEF DmInv, OpenEventHasWorker, Holds, At
<1> QED BY <1>3, <1>4, <1>6, <1>7, <1>8 DEF DmInv

\* A worker that comes to the claim of its event.
LEMMA EventIsClaimed ==
    ASSUME DmInv, NEW w \in Workers, NEW d \in Dms, NEW retry \in BOOLEAN,
           ClaimOrSkip(w, d, retry),
           worker[w].pc = "claim", worker[w].dm = d,
           UNCHANGED <<queue, inbound, thread, now, mishaps, posted, again, lost, held>>
    PROVE  DmInv'
<1> USE DmTypes
<1>1. worker \in [Workers -> WorkerType] /\ event \in [Dms -> EventType]
  BY DmTypes
<1>2. NoWork \in WorkerType /\ NoWork.pc = "idle" /\ NoWork.held = 0 /\ \A t : StaysSilent(NoWork, t)
  BY NoWorkTypes
<1>3. ~Answers(worker[w], d) /\ \A e \in Dms : ~Answers(worker[w], e) /\ ~Holds(w, e)
  BY DEF Answers, Running, Holds
<1>4. CASE Claimable(d)
  <2> DEFINE r == [NoWork EXCEPT !.pc = "load", !.dm = d, !.retry = retry]
  <2>1. r \in WorkerType /\ r.pc = "load" /\ r.dm = d /\ r.held = 0
    BY <1>2 DEF WorkerType, Stages
  <2>2. worker' = [worker EXCEPT ![w] = r]
        /\ event' = [event EXCEPT ![d].status = "processing"]
    BY <1>4 DEF ClaimOrSkip, Begin
  <2> HIDE DEF r
  <2>3. event' \in [Dms -> EventType] /\ worker' \in [Workers -> WorkerType]
    BY <1>1, <2>1, <2>2 DEF EventType
  <2>4. /\ event'[d].status = "processing" /\ event[d].status = "received"
        /\ \A e \in Dms \ {d} : event'[e] = event[e]
    BY <1>1, <1>4, <2>2 DEF EventType, DmInv, ClaimInv
  <2>5. worker'[w] = r /\ \A v \in Workers \ {w} : worker'[v] = worker[v]
    BY <1>1, <2>2
  <2>6. InstagramTypeOK'
    BY <2>3 DEF DmInv, InstagramTypeOK
  <2>7. PauseInv'
    BY <2>1, <2>5 DEF DmInv, PauseInv, StaysSilent
  <2>8. ASSUME NEW e \in Dms
        PROVE  posted'[e] + Cardinality(Answerers(e)') + Credit(e)' <= 1 + again'[e]
    <3>1. posted[e] + Cardinality(Answerers(e)) + Credit(e) <= 1 + again[e]
      BY DEF DmInv, AnswerInv
    <3>2. Cardinality(Answerers(e)) \in Nat /\ posted[e] \in Nat /\ again[e] \in Nat
      BY AnswerersCounted
    <3>3. CASE e = d
      <4>1. Cardinality(Answerers(e)') = Cardinality(Answerers(e)) + 1
        BY <1>1, <1>3, <2>1, <2>2, <3>3, AnswerersChange DEF Answers, Running
      <4>2. Credit(e) = 1 /\ Credit(e)' = 0
        BY <2>4, <3>3 DEF Credit
      <4> QED BY <3>1, <3>2, <4>1, <4>2
    <3>4. CASE e # d
      <4>1. Cardinality(Answerers(e)') = Cardinality(Answerers(e))
        <5>1. ~Answers(r, e)
          BY <2>1, <3>4 DEF Answers
        <5> QED BY <1>1, <1>3, <2>1, <2>2, <5>1, AnswerersChange
      <4>2. Credit(e)' = Credit(e)
        BY <2>4, <3>4 DEF Credit
      <4> QED BY <3>1, <4>1, <4>2
    <3> QED BY <3>3, <3>4
  <2>9. AnswerInv'
    BY <2>8 DEF AnswerInv
  <2>10. ClaimInv'
    BY <2>4 DEF DmInv, ClaimInv, Claimable
  <2>11. OpenEventHasWorker'
    <3>1. Holds(w, d)'
      BY <2>1, <2>5 DEF Holds
    <3>2. ASSUME NEW e \in Dms \ lost', e # d, event'[e].status = "received"
          PROVE  e \in queue' \/ \E v \in Workers : worker'[v].dm = e /\ At(v, "claim")'
      BY <2>4, <2>5, <3>2 DEF DmInv, OpenEventHasWorker, At
    <3>3. ASSUME NEW e \in Dms \ lost', e # d, event'[e].status = "processing"
          PROVE  \E v \in Workers : Holds(v, e)'
      <4>1. PICK v \in Workers : Holds(v, e)
        BY <2>4, <3>3 DEF DmInv, OpenEventHasWorker
      <4>2. v # w
        BY <1>3, <4>1
      <4> QED BY <2>5, <4>1, <4>2 DEF Holds
    <3> QED BY <2>4, <3>1, <3>2, <3>3 DEF OpenEventHasWorker
  <2> QED BY <2>6, <2>7, <2>9, <2>10, <2>11 DEF DmInv
<1>5. CASE ~Claimable(d)
  <2>1. worker' = [worker EXCEPT ![w] = NoWork] /\ event' = event
    BY <1>5 DEF ClaimOrSkip
  <2>2. worker'[w] = NoWork /\ \A v \in Workers \ {w} : worker'[v] = worker[v]
    BY <1>1, <2>1
  <2>3. InstagramTypeOK'
    BY <1>1, <1>2, <2>1 DEF DmInv, InstagramTypeOK
  <2>4. PauseInv'
    BY <1>2, <2>2 DEF DmInv, PauseInv
  <2>5. ASSUME NEW e \in Dms
        PROVE  Cardinality(Answerers(e)') = Cardinality(Answerers(e))
    <3>1. ~Answers(NoWork, e)
      BY <1>2 DEF Answers, Running
    <3> QED BY <1>1, <1>2, <1>3, <2>1, <3>1, AnswerersChange
  <2>6. AnswerInv' /\ ClaimInv'
    BY <2>1, <2>5 DEF DmInv, AnswerInv, Credit, ClaimInv, Claimable
  <2>7. event[d].status # "received"
    BY <1>5 DEF DmInv, ClaimInv
  <2>8. ASSUME NEW e \in Dms \ lost', event'[e].status = "received"
        PROVE  e \in queue' \/ \E v \in Workers : worker'[v].dm = e /\ At(v, "claim")'
    BY <2>1, <2>2, <2>7, <2>8 DEF DmInv, OpenEventHasWorker, At
  <2>9. ASSUME NEW e \in Dms \ lost', event'[e].status = "processing"
        PROVE  \E v \in Workers : Holds(v, e)'
    <3>1. PICK v \in Workers : Holds(v, e)
      BY <2>1, <2>9 DEF DmInv, OpenEventHasWorker
    <3> QED BY <1>3, <2>2, <3>1 DEF Holds
  <2>10. OpenEventHasWorker'
    BY <2>8, <2>9 DEF OpenEventHasWorker
  <2> QED BY <2>3, <2>4, <2>6, <2>10 DEF DmInv
<1> QED BY <1>4, <1>5

\* A queued message comes to its claim.
LEMMA DmIsStarted == ASSUME DmInv, NEW w \in Workers, DmStart(w) PROVE DmInv'
<1> USE DmTypes
<1>1. PICK d \in queue : queue' = queue \ {d} /\ Begin(w, d, "claim", FALSE)
  BY DEF DmStart
<1>2. /\ worker \in [Workers -> WorkerType] /\ worker[w].pc = "idle" /\ d \in Dms
      /\ UNCHANGED <<event, inbound, thread, now, mishaps, posted, again, lost, held>>
  BY <1>1 DEF DmStart, At, DmInv, InstagramTypeOK
<1> DEFINE r == [NoWork EXCEPT !.pc = "claim", !.dm = d, !.retry = FALSE]
<1>3. r \in WorkerType /\ r.pc = "claim" /\ r.dm = d /\ r.held = 0
  BY <1>2, NoWorkTypes DEF WorkerType, Stages
<1>4. worker' = [worker EXCEPT ![w] = r]
  BY <1>1 DEF Begin
<1> HIDE DEF r
<1>5. /\ worker' \in [Workers -> WorkerType]
      /\ worker'[w] = r /\ \A v \in Workers \ {w} : worker'[v] = worker[v]
  BY <1>2, <1>3, <1>4
<1>6. InstagramTypeOK'
  BY <1>1, <1>2, <1>5 DEF DmInv, InstagramTypeOK
<1>7. PauseInv'
  <2>1. StaysSilent(r, now)
    BY <1>3 DEF StaysSilent
  <2> QED BY <1>2, <1>5, <2>1 DEF DmInv, PauseInv
<1>8. \A e \in Dms : Cardinality(Answerers(e)') = Cardinality(Answerers(e))
  <2>1. \A e \in Dms : ~Answers(r, e) /\ ~Answers(worker[w], e)
    BY <1>2, <1>3 DEF Answers, Running
  <2> QED BY <1>2, <1>3, <1>4, <2>1, AnswerersChange
<1>9. AnswerInv' /\ ClaimInv'
  BY <1>2, <1>8 DEF DmInv, AnswerInv, Credit, ClaimInv, Claimable
<1>10. OpenEventHasWorker'
  <2>1. ASSUME NEW e \in Dms \ lost', event'[e].status = "received"
        PROVE  e \in queue' \/ \E v \in Workers : worker'[v].dm = e /\ At(v, "claim")'
    <3>1. CASE e = d
      BY <1>3, <1>5, <3>1 DEF At
    <3>2. CASE e # d
      BY <1>1, <1>2, <1>5, <2>1, <3>2 DEF DmInv, OpenEventHasWorker, At
    <3> QED BY <3>1, <3>2
  <2>2. ASSUME NEW e \in Dms \ lost', event'[e].status = "processing"
        PROVE  \E v \in Workers : Holds(v, e)'
    <3>1. PICK v \in Workers : Holds(v, e)
      BY <1>2, <2>2 DEF DmInv, OpenEventHasWorker
    <3> QED BY <1>2, <1>5, <3>1 DEF Holds
  <2> QED BY <2>1, <2>2 DEF OpenEventHasWorker
<1> QED BY <1>6, <1>7, <1>9, <1>10 DEF DmInv

\* A message arrives.
LEMMA DmArrives == ASSUME DmInv, NEW d \in Dms, Receive(d) PROVE DmInv'
<1>1. event \in [Dms -> EventType] /\ event[d].status = "none" /\ worker' = worker
  BY DmTypes DEF Receive
<1>2. PICK linked \in BOOLEAN :
        /\ event' = [event EXCEPT ![d].status = IF linked THEN "received" ELSE "unresolved"]
        /\ queue' = IF linked THEN queue \cup {d} ELSE queue
  BY DEF Receive
<1>3. event' \in [Dms -> EventType]
  BY <1>1, <1>2 DEF EventType, Outcomes
<1>4. /\ event'[d].status = IF linked THEN "received" ELSE "unresolved"
      /\ event'[d].processed = event[d].processed
      /\ \A e \in Dms \ {d} : event'[e] = event[e]
  BY <1>1, <1>2 DEF EventType
<1>5. InstagramTypeOK'
  BY <1>2, <1>3 DEF Receive, DmInv, InstagramTypeOK
<1>6. PauseInv'
  BY <1>1 DEF Receive, DmInv, PauseInv
<1>7. \A e \in Dms : Answerers(e)' = Answerers(e)
  BY <1>1 DEF Answerers
<1>8. \A e \in Dms : Credit(e)' <= Credit(e) /\ Credit(e) \in 0..1 /\ Credit(e)' \in 0..1
  BY <1>1, <1>4 DEF Credit
<1>9. ASSUME NEW e \in Dms
      PROVE  posted'[e] + Cardinality(Answerers(e)') + Credit(e)' <= 1 + again'[e]
  <2>1. Cardinality(Answerers(e)) \in Nat /\ posted[e] \in Nat /\ again[e] \in Nat
    BY AnswerersCounted, DmTypes
  <2>2. posted[e] + Cardinality(Answerers(e)) + Credit(e) <= 1 + again[e]
    BY DEF DmInv, AnswerInv
  <2>3. posted'[e] = posted[e] /\ again'[e] = again[e]
        /\ Cardinality(Answerers(e)') = Cardinality(Answerers(e))
    BY <1>7 DEF Receive
  <2> QED BY <1>8, <2>1, <2>2, <2>3
<1>10. AnswerInv'
  BY <1>9 DEF AnswerInv
<1>11. ClaimInv'
  BY <1>1, <1>4 DEF DmInv, ClaimInv, Claimable, InstagramTypeOK
<1>12. OpenEventHasWorker'
  BY <1>1, <1>2, <1>4 DEF DmInv, Receive, OpenEventHasWorker, Holds, At
<1> QED BY <1>5, <1>6, <1>10, <1>11, <1>12 DEF DmInv

\* An operator resets an event.
LEMMA DmIsReset ==
    ASSUME DmInv, NEW w \in Workers, NEW d \in Dms, Reprocess(w, d) PROVE DmInv'
<1>1. /\ event \in [Dms -> EventType] /\ worker \in [Workers -> WorkerType]
      /\ worker[w].pc = "idle" /\ again \in [Dms -> 0..MaxReprocess] /\ again[d] < MaxReprocess
      /\ again' = [again EXCEPT ![d] = @ + 1]
  BY DmTypes DEF Reprocess, At
<1>2. NoWork \in WorkerType /\ NoWork.pc = "idle" /\ NoWork.held = 0
  BY NoWorkTypes
<1>3. again' \in [Dms -> 0..MaxReprocess] /\ again'[d] = again[d] + 1
      /\ \A e \in Dms \ {d} : again'[e] = again[e]
  BY <1>1, InstagramAssumption
<1>4. PICK status \in {"received", "unresolved"}, r \in WorkerType :
        /\ event' = [event EXCEPT ![d] = [status |-> status, processed |-> FALSE]]
        /\ worker' = [worker EXCEPT ![w] = r]
        /\ r.held = 0 /\ r.pc \in {"idle", "claim"}
        /\ status = "received" => r.pc = "claim" /\ r.dm = d
  <2>1. CASE /\ event' = [event EXCEPT ![d] = [status |-> "received", processed |-> FALSE]]
             /\ Begin(w, d, "claim", TRUE)
    <3> DEFINE r == [NoWork EXCEPT !.pc = "claim", !.dm = d, !.retry = TRUE]
    <3>1. r \in WorkerType /\ r.held = 0 /\ r.pc = "claim" /\ r.dm = d
      BY <1>2 DEF WorkerType, Stages
    <3>2. worker' = [worker EXCEPT ![w] = r]
      BY <2>1 DEF Begin
    <3> QED BY <2>1, <3>1, <3>2
  <2>2. CASE /\ event' = [event EXCEPT ![d] = [status |-> "unresolved", processed |-> FALSE]]
             /\ UNCHANGED worker
    <3>1. worker' = [worker EXCEPT ![w] = worker[w]] /\ worker[w] \in WorkerType
      BY <1>1, <2>2
    <3>2. worker[w].held = 0
      BY <1>1 DEF DmInv, PauseInv, StaysSilent, WorkerType
    <3> QED BY <1>1, <2>2, <3>1, <3>2
  <2> QED BY <2>1, <2>2 DEF Reprocess
<1>5. /\ event'[d] = [status |-> status, processed |-> FALSE]
      /\ \A e \in Dms \ {d} : event'[e] = event[e]
      /\ event' \in [Dms -> EventType] /\ worker' \in [Workers -> WorkerType]
      /\ worker'[w] = r /\ \A v \in Workers \ {w} : worker'[v] = worker[v]
  BY <1>1, <1>4 DEF EventType, Outcomes
<1>6. InstagramTypeOK'
  BY <1>3, <1>5 DEF Reprocess, DmInv, InstagramTypeOK
<1>7. PauseInv'
  BY <1>4, <1>5 DEF Reprocess, DmInv, PauseInv, StaysSilent
<1>8. ASSUME NEW e \in Dms
      PROVE  posted'[e] + Cardinality(Answerers(e)') + Credit(e)' <= 1 + again'[e]
  <2>1. Cardinality(Answerers(e)) \in Nat /\ posted[e] \in Nat /\ again[e] \in Nat
    BY AnswerersCounted, DmTypes
  <2>2. posted[e] + Cardinality(Answerers(e)) + Credit(e) <= 1 + again[e]
    BY DEF DmInv, AnswerInv
  <2>3. ~Answers(worker[w], e) /\ ~Answers(r, e)
    BY <1>1, <1>4 DEF Answers, Running
  <2>4. Cardinality(Answerers(e)') = Cardinality(Answerers(e))
    BY <1>1, <1>4, <2>3, AnswerersChange
  <2>5. Credit(e) \in 0..1 /\ Credit(e)' \in 0..1 /\ (e # d => Credit(e)' = Credit(e))
    BY <1>5 DEF Credit
  <2>6. posted'[e] = posted[e]
    BY DEF Reprocess
  <2>7. CASE e = d
    BY <1>3, <2>1, <2>2, <2>4, <2>5, <2>6, <2>7
  <2>8. CASE e # d
    BY <1>3, <2>1, <2>2, <2>4, <2>5, <2>6, <2>8
  <2> QED BY <2>7, <2>8
<1>9. AnswerInv' /\ ClaimInv'
  BY <1>5, <1>8 DEF DmInv, AnswerInv, ClaimInv, Claimable
<1>10. OpenEventHasWorker'
  <2>1. lost' = lost /\ queue' = queue
    BY DEF Reprocess
  <2>2. ASSUME NEW e \in Dms \ lost', event'[e].status = "received"
        PROVE  e \in queue' \/ \E v \in Workers : worker'[v].dm = e /\ At(v, "claim")'
    <3>1. CASE e = d
      BY <1>4, <1>5, <2>2, <3>1 DEF At
    <3>2. CASE e # d
      BY <1>1, <1>5, <2>1, <2>2, <3>2 DEF DmInv, OpenEventHasWorker, At
    <3> QED BY <3>1, <3>2
  <2>3. ASSUME NEW e \in Dms \ lost', event'[e].status = "processing"
        PROVE  \E v \in Workers : Holds(v, e)'
    <3>1. e # d /\ event[e].status = "processing"
      BY <1>4, <1>5, <2>3
    <3>2. PICK v \in Workers : Holds(v, e)
      BY <2>1, <2>3, <3>1 DEF DmInv, OpenEventHasWorker
    <3> QED BY <1>1, <1>5, <3>2 DEF Holds
  <2> QED BY <2>2, <2>3 DEF OpenEventHasWorker
<1> QED BY <1>6, <1>7, <1>9, <1>10 DEF DmInv

\* A worker ends: having finished its event, or leaving it behind.
LEMMA WorkEnds ==
    ASSUME DmInv, NEW w \in Workers, worker' = [worker EXCEPT ![w] = NoWork],
           NEW outcome \in Outcomes,
           \/ /\ event' = [event EXCEPT ![worker[w].dm] =
                             [status |-> outcome, processed |-> TRUE]]
              /\ lost' = lost
           \/ event' = event /\ lost' = lost \cup {worker[w].dm},
           mishaps' \in 0..MaxMishaps,
           UNCHANGED <<queue, inbound, thread, now, posted, again, held>>
    PROVE  DmInv'
<1> DEFINE d == worker[w].dm
<1>1. /\ event \in [Dms -> EventType] /\ worker \in [Workers -> WorkerType] /\ d \in Dms
  BY DmTypes
<1>2. NoWork \in WorkerType /\ NoWork.pc = "idle" /\ \A t : StaysSilent(NoWork, t)
  BY NoWorkTypes
<1> HIDE DEF d
<1>3. /\ worker' \in [Workers -> WorkerType]
      /\ worker'[w] = NoWork /\ \A v \in Workers \ {w} : worker'[v] = worker[v]
  BY <1>1, <1>2
<1>4. /\ event' \in [Dms -> EventType] /\ \A e \in Dms \ {d} : event'[e] = event[e]
      /\ event'[d] = event[d] \/ event'[d] = [status |-> outcome, processed |-> TRUE]
      /\ lost \subseteq lost' /\ lost' \subseteq Dms
      /\ d \in lost' \/ event'[d] = [status |-> outcome, processed |-> TRUE]
  <2>1. [status |-> outcome, processed |-> TRUE] \in EventType
    BY DEF EventType
  <2> QED BY <1>1, <2>1 DEF DmInv, InstagramTypeOK, d
<1>5. InstagramTypeOK' /\ PauseInv'
  BY <1>2, <1>3, <1>4 DEF DmInv, InstagramTypeOK, PauseInv
<1>6. outcome \notin {"none", "received", "processing"}
  BY DEF Outcomes
<1>7. ASSUME NEW e \in Dms
      PROVE  posted'[e] + Cardinality(Answerers(e)') + Credit(e)' <= 1 + again'[e]
  <2>1. Cardinality(Answerers(e)) \in Nat /\ posted[e] \in Nat /\ again[e] \in Nat
    BY AnswerersCounted, DmTypes
  <2>2. posted[e] + Cardinality(Answerers(e)) + Credit(e) <= 1 + again[e]
    BY DEF DmInv, AnswerInv
  <2>3. ~Answers(NoWork, e)
    BY <1>2 DEF Answers, Running
  <2>4. /\ Answers(worker[w], e) => Cardinality(Answerers(e)') = Cardinality(Answerers(e)) - 1
        /\ ~Answers(worker[w], e) => Cardinality(Answerers(e)') = Cardinality(Answerers(e))
    BY <1>1, <1>2, <2>3, AnswerersChange
  <2>5. Credit(e) \in 0..1 /\ Credit(e)' \in 0..1 /\ Credit(e)' <= Credit(e)
    BY <1>4, <1>6 DEF Credit
  <2> QED BY <2>1, <2>2, <2>4, <2>5
<1>8. AnswerInv'
  BY <1>7 DEF AnswerInv
<1>9. ClaimInv'
  BY <1>4, <1>6 DEF DmInv, ClaimInv, Claimable
<1>10. OpenEventHasWorker'
  <2>1. ASSUME NEW e \in Dms \ lost', event'[e].status = "received"
        PROVE  e \in queue' \/ \E v \in Workers : worker'[v].dm = e /\ At(v, "claim")'
    <3>1. e # d /\ event[e].status = "received"
      BY <1>4, <1>6, <2>1
    <3>2. CASE e \in queue
      BY <3>2
    <3>3. ASSUME NEW v \in Workers, worker[v].dm = e, At(v, "claim")
          PROVE  worker'[v].dm = e /\ At(v, "claim")'
      BY <1>3, <3>1, <3>3 DEF At, d
    <3> QED BY <1>4, <2>1, <3>1, <3>2, <3>3 DEF DmInv, OpenEventHasWorker
  <2>2. ASSUME NEW e \in Dms \ lost', event'[e].status = "processing"
        PROVE  \E v \in Workers : Holds(v, e)'
    <3>1. e # d /\ event[e].status = "processing"
      BY <1>4, <1>6, <2>2
    <3>2. PICK v \in Workers : Holds(v, e)
      BY <1>4, <2>2, <3>1 DEF DmInv, OpenEventHasWorker
    <3> QED BY <1>3, <3>1, <3>2 DEF Holds, d
  <2> QED BY <2>1, <2>2 DEF OpenEventHasWorker
<1> QED BY <1>5, <1>8, <1>9, <1>10 DEF DmInv

LEMMA DmsRestart == ASSUME DmInv, DmRestart PROVE DmInv'
<1>1. NoWork \in WorkerType /\ NoWork.pc = "idle" /\ \A t : StaysSilent(NoWork, t)
  BY NoWorkTypes
<1>2. /\ worker' = [w \in Workers |-> NoWork]
      /\ lost' = lost \cup queue \cup {worker[w].dm : w \in {v \in Workers : ~At(v, "idle")}}
      /\ mishaps' = mishaps + 1 /\ mishaps < MaxMishaps /\ queue' = {}
      /\ UNCHANGED <<event, inbound, thread, now, posted, again, held>>
  BY DEF DmRestart
<1>3. lost' \subseteq Dms
  BY <1>2, DmTypes DEF DmInv, InstagramTypeOK
<1>4. mishaps' \in 0..MaxMishaps
  BY <1>2, InstagramAssumption DEF DmInv, InstagramTypeOK
<1>5. InstagramTypeOK'
  BY <1>1, <1>2, <1>3, <1>4 DEF DmInv, InstagramTypeOK
<1>6. PauseInv' /\ ClaimInv'
  BY <1>1, <1>2 DEF DmInv, PauseInv, ClaimInv, Claimable
<1>7. ASSUME NEW d \in Dms
      PROVE  posted'[d] + Cardinality(Answerers(d)') + Credit(d)' <= 1 + again'[d]
  <2>1. posted[d] + Cardinality(Answerers(d)) + Credit(d) <= 1 + again[d]
    BY DEF DmInv, AnswerInv
  <2>2. Answerers(d)' = {}
    BY <1>1, <1>2 DEF Answerers, Answers, Running
  <2>3. Cardinality(Answerers(d)') = 0
    BY <2>2, FS_EmptySet
  <2>4. Credit(d)' = Credit(d) /\ Credit(d) \in Nat
    BY <1>2 DEF Credit
  <2>5. Cardinality(Answerers(d)) \in Nat /\ posted[d] \in Nat /\ again[d] \in Nat
    BY AnswerersCounted, DmTypes
  <2> QED BY <1>2, <2>1, <2>3, <2>4, <2>5
<1>8. AnswerInv'
  BY <1>7 DEF AnswerInv
<1>9. \A d \in Dms \ lost' : event[d].status \notin {"received", "processing"}
  BY <1>2 DEF DmInv, OpenEventHasWorker, Holds, At
<1>10. OpenEventHasWorker'
  BY <1>2, <1>9 DEF OpenEventHasWorker
<1> QED BY <1>5, <1>6, <1>8, <1>10 DEF DmInv

\* What people do with the pause.
LEMMA PauseChanges ==
    ASSUME DmInv, thread' \in ThreadType, now' \in Nat, now <= now',
           held' \in Nat, held' # 0 => HumansPause(thread', held'),
           UNCHANGED <<event, queue, inbound, worker, mishaps, posted, again, lost>>
    PROVE  DmInv'
<1>1. InstagramTypeOK'
  BY DEF DmInv, InstagramTypeOK
<1>2. PauseInv'
  <2>1. ASSUME NEW r \in WorkerType, StaysSilent(r, now) PROVE StaysSilent(r, now')
    BY <2>1, DmTypes DEF StaysSilent, WorkerType
  <2>2. \A w \in Workers : StaysSilent(worker[w], now')
    BY <2>1, DmTypes DEF DmInv, PauseInv
  <2> QED BY <2>2 DEF PauseInv
<1>3. AnswerInv' /\ ClaimInv'
  BY DEF DmInv, AnswerInv, Answerers, Credit, ClaimInv, Claimable
<1>4. OpenEventHasWorker'
  BY DEF DmInv, OpenEventHasWorker, Holds, At
<1> QED BY <1>1, <1>2, <1>3, <1>4 DEF DmInv

\* A worker with another pc, in the middle of its event.
LEMMA WorkMoves ==
    ASSUME DmInv, NEW w \in Workers, NEW pc \in Stages, NEW outcome \in Outcomes,
           worker[w].pc \notin {"idle", "claim"}, pc \notin {"idle", "claim"},
           pc \in Running => worker[w].pc \in Running,
           worker' = [worker EXCEPT ![w] = [@ EXCEPT !.pc = pc, !.outcome = outcome]],
           worker[w].held # 0 =>
             \/ pc = "finish"
             \/ pc = "gate" /\ worker[w].pc = "create"
             \/ /\ pc \in {"act", "ai", "asked", "handoff", "reply"}
                /\ worker[w].held <= now,
           UNCHANGED <<event, queue, again, lost>>,
           posted' = posted
             \/ (posted' = [posted EXCEPT ![worker[w].dm] = @ + 1]
                 /\ worker[w].pc \in Running /\ pc \notin Running),
           inbound' \subseteq Dms, mishaps' \in 0..MaxMishaps,
           thread' \in ThreadType, now' = now,
           held' \in Nat, held' # 0 => HumansPause(thread', held')
    PROVE  DmInv'
<1> DEFINE r == [worker[w] EXCEPT !.pc = pc, !.outcome = outcome]
<1>1. worker[w] \in WorkerType /\ StaysSilent(worker[w], now)
  BY DmTypes DEF DmInv, PauseInv
<1>2. /\ r \in WorkerType /\ r.pc = pc /\ r.dm = worker[w].dm
      /\ r.held = worker[w].held /\ r.snap = worker[w].snap
  BY <1>1 DEF WorkerType
<1>3. worker' = [worker EXCEPT ![w] = r]
  OBVIOUS
<1> HIDE DEF r
<1>4. StaysSilent(r, now)
  <2>1. now \in Nat /\ worker[w].held \in Nat
    BY <1>1, DmTypes DEF WorkerType
  <2> QED BY <1>1, <1>2, <2>1 DEF StaysSilent
<1> QED BY <1>2, <1>3, <1>4, WorkGoesOn

LEMMA MovesAndFinishes ==
    ASSUME DmInv, NEW w \in Workers
    PROVE  /\ \A pc : Move(w, pc) => worker' =
                [worker EXCEPT ![w] = [@ EXCEPT !.pc = pc, !.outcome = worker[w].outcome]]
           /\ \A outcome : FinishAs(w, outcome) => worker' =
                [worker EXCEPT ![w] = [@ EXCEPT !.pc = "finish", !.outcome = outcome]]
           /\ worker[w].outcome \in Outcomes
  BY DmTypes DEF Move, FinishAs, WorkerType

LEMMA WorkerMoves ==
    ASSUME DmInv, NEW w \in Workers, NEW pc \in Stages, Move(w, pc),
           worker[w].pc \notin {"idle", "claim"}, pc \notin {"idle", "claim"},
           pc \in Running => worker[w].pc \in Running,
           worker[w].held # 0 =>
             \/ pc = "finish"
             \/ pc = "gate" /\ worker[w].pc = "create"
             \/ /\ pc \in {"act", "ai", "asked", "handoff", "reply"}
                /\ worker[w].held <= now,
           UNCHANGED <<event, queue, again, lost, posted, mishaps>>,
           inbound' \subseteq Dms,
           thread' \in ThreadType, now' = now,
           held' \in Nat, held' # 0 => HumansPause(thread', held')
    PROVE  DmInv'
<1>1. /\ worker[w].outcome \in Outcomes
      /\ worker' = [worker EXCEPT ![w] = [@ EXCEPT !.pc = pc, !.outcome = worker[w].outcome]]
  BY MovesAndFinishes
<1>3. mishaps' \in 0..MaxMishaps
  BY DEF DmInv, InstagramTypeOK
<1> QED BY <1>1, <1>3, WorkMoves

LEMMA WorkerFinishes ==
    ASSUME DmInv, NEW w \in Workers, NEW outcome \in Outcomes, FinishAs(w, outcome),
           worker[w].pc \notin {"idle", "claim"},
           UNCHANGED <<event, queue, again, lost>>,
           posted' = posted
             \/ (posted' = [posted EXCEPT ![worker[w].dm] = @ + 1] /\ worker[w].pc = "reply"),
           inbound' \subseteq Dms, mishaps' \in 0..MaxMishaps,
           thread' \in ThreadType, now' = now,
           held' \in Nat, held' # 0 => HumansPause(thread', held')
    PROVE  DmInv'
<1>1. worker' = [worker EXCEPT ![w] = [@ EXCEPT !.pc = "finish", !.outcome = outcome]]
  BY MovesAndFinishes
<1>3. "finish" \in Stages /\ "finish" \notin Running /\ "reply" \in Running
  BY DEF Stages, Running
<1> QED BY <1>1, <1>3, WorkMoves

LEMMA DmGoesOn == DmInv /\ [InstagramNext]_instagramVars => DmInv'
<1> SUFFICES ASSUME DmInv, [InstagramNext]_instagramVars
             PROVE  DmInv'
  OBVIOUS
<1>0. /\ worker \in [Workers -> WorkerType] /\ thread \in ThreadType /\ held \in Nat /\ now \in Nat
      /\ inbound \subseteq Dms /\ queue \subseteq Dms /\ mishaps \in 0..MaxMishaps
      /\ held # 0 => HumansPause(thread, held)
      /\ \A w \in Workers : worker[w] \in WorkerType /\ StaysSilent(worker[w], now)
  BY DmTypes DEF DmInv, InstagramTypeOK, PauseInv
<1>1. ASSUME NEW d \in Dms, Receive(d) PROVE DmInv'
  BY <1>1, DmArrives
<1>2. ASSUME NEW w \in Workers, DmStart(w) PROVE DmInv'
  BY <1>2, DmIsStarted
<1>3. ASSUME NEW w \in Workers, Claim(w) PROVE DmInv'
  <2>1. worker[w].dm \in Dms /\ worker[w].retry \in BOOLEAN
    BY <1>0 DEF WorkerType
  <2> QED BY <1>3, <2>1, EventIsClaimed DEF Claim, At
<1>18. ASSUME NEW w \in Workers, DmLoad(w) PROVE DmInv'
  <2>1. /\ worker[w].pc = "load" /\ worker[w].held = 0 /\ Move(w, "resolve")
        /\ UNCHANGED <<event, queue, inbound, thread, now, mishaps, posted, again, lost, held>>
    BY <1>0, <1>18 DEF DmLoad, At, StaysSilent
  <2> QED BY <1>0, <2>1, WorkerMoves DEF Stages, Running
<1>4. ASSUME NEW w \in Workers, NEW d \in Dms, Reprocess(w, d) PROVE DmInv'
  BY <1>4, DmIsReset
<1>5. ASSUME NEW w \in Workers, DmConversation(w) PROVE DmInv'
  <2>0. worker[w].pc = "resolve"
        /\ UNCHANGED <<event, queue, inbound, thread, now, mishaps, posted, again, lost, held>>
    BY <1>0, <1>5 DEF DmConversation, At, StaysSilent
  <2>1. ASSUME NEW outcome \in Outcomes, FinishAs(w, outcome) PROVE DmInv'
    BY <1>0, <2>0, <2>1, WorkerFinishes
  <2>2. ASSUME NEW pc \in {"create", "finish", "gate"},
               worker' = [worker EXCEPT ![w].snap = thread, ![w].held = held, ![w].pc = pc]
        PROVE  DmInv'
    <3> DEFINE r == [worker[w] EXCEPT !.snap = thread, !.held = held, !.pc = pc]
    <3>1. r \in WorkerType /\ r.pc = pc /\ r.dm = worker[w].dm /\ r.snap = thread /\ r.held = held
      BY <1>0 DEF WorkerType, Stages
    <3>2. worker' = [worker EXCEPT ![w] = r]
      BY <2>2
    <3> HIDE DEF r
    <3>3. StaysSilent(r, now)
      BY <1>0, <3>1 DEF StaysSilent
    <3> QED BY <1>0, <2>0, <3>1, <3>2, <3>3, WorkGoesOn DEF Running
  <2> QED BY <1>5, <2>1, <2>2 DEF DmConversation, AfterInbound, Outcomes
<1>6. ASSUME NEW w \in Workers, DmInbound(w) PROVE DmInv'
  <2>0. /\ worker[w].pc = "create" /\ inbound' = inbound \cup {worker[w].dm}
        /\ UNCHANGED <<event, queue, thread, now, mishaps, posted, again, lost, held>>
    BY <1>6 DEF DmInbound, At
  <2>1. inbound' \subseteq Dms
    BY <1>0, <2>0 DEF WorkerType
  <2>2. CASE FinishAs(w, "failed")
    BY <1>0, <2>0, <2>1, <2>2, WorkerFinishes DEF Outcomes
  <2>3. ASSUME NEW pc \in {"finish", "gate"}, Move(w, pc) PROVE DmInv'
    BY <1>0, <2>0, <2>1, <2>3, WorkerMoves DEF Stages, Running
  <2> QED BY <1>6, <2>2, <2>3 DEF DmInbound, AfterInbound
<1>7. ASSUME NEW w \in Workers, DmGate(w) PROVE DmInv'
  <2>0. worker[w].pc = "gate"
        /\ UNCHANGED <<event, queue, inbound, now, mishaps, posted, again, lost>>
    BY <1>7 DEF DmGate, At
  <2>1. CASE FinishAs(w, "failed") /\ UNCHANGED <<thread, held>>
    BY <1>0, <2>0, <2>1, WorkerFinishes DEF Outcomes
  <2>2. CASE /\ thread' = IF ClearsPause(w) THEN Unpaused ELSE thread
             /\ held' = IF ClearsPause(w) THEN 0 ELSE held
             /\ \/ /\ ~Paused(IF ClearsPause(w) THEN Unpaused ELSE worker[w].snap)
                   /\ Move(w, "act")
                \/ FinishAs(w, "human_required")
    <3>1. thread' \in ThreadType /\ held' \in Nat /\ (held' # 0 => HumansPause(thread', held'))
      BY <1>0, <2>2 DEF Unpaused, ThreadType
    <3>2. CASE FinishAs(w, "human_required")
      BY <1>0, <2>0, <3>1, <3>2, WorkerFinishes DEF Outcomes
    <3>3. CASE /\ ~Paused(IF ClearsPause(w) THEN Unpaused ELSE worker[w].snap)
               /\ Move(w, "act")
      <4>1. worker[w].held # 0 => worker[w].held <= now
        BY <1>0, <2>0, <3>3 DEF StaysSilent, HumansPause, ClearsPause, Paused, WorkerType, ThreadType
      <4> QED BY <1>0, <2>0, <3>1, <3>3, <4>1, WorkerMoves DEF Stages, Running
    <3> QED BY <2>2, <3>2, <3>3
  <2> QED BY <1>7, <2>1, <2>2 DEF DmGate
<1>8. ASSUME NEW w \in Workers, Compose(w) PROVE DmInv'
  <2>0. /\ worker[w].pc \in {"act", "ai", "asked"} /\ worker[w].held <= now
        /\ UNCHANGED <<event, queue, inbound, thread, now, mishaps, posted, again, lost, held>>
    BY <1>0, <1>8 DEF Compose, ActionLayer, AiReply, At, StaysSilent
  <2>1. ASSUME NEW pc \in {"reply", "ai", "asked", "handoff"}, Move(w, pc) PROVE DmInv'
    BY <1>0, <2>0, <2>1, WorkerMoves DEF Stages, Running
  <2>2. ASSUME NEW outcome \in Outcomes, FinishAs(w, outcome) PROVE DmInv'
    BY <1>0, <2>0, <2>2, WorkerFinishes
  <2> QED BY <1>8, <2>1, <2>2 DEF Compose, ActionLayer, AiReply, Outcomes
<1>9. ASSUME NEW w \in Workers, PauseConversation(w) PROVE DmInv'
  <2>0. /\ worker[w].pc = "handoff" /\ worker[w].held <= now /\ held' = 0
        /\ thread' = [isPaused |-> TRUE, botPaused |-> TRUE, until |-> 0]
        /\ Move(w, "reply")
        /\ UNCHANGED <<event, queue, inbound, now, mishaps, posted, again, lost>>
    BY <1>0, <1>9 DEF PauseConversation, At, StaysSilent
  <2>1. thread' \in ThreadType
    BY <2>0 DEF ThreadType
  <2> QED BY <1>0, <2>0, <2>1, WorkerMoves DEF Stages, Running
<1>10. ASSUME NEW w \in Workers, Send(w) PROVE DmInv'
  <2>0. /\ worker[w].pc = "reply" /\ worker[w].held <= now
        /\ UNCHANGED <<event, queue, inbound, thread, now, mishaps, again, lost, held>>
    BY <1>0, <1>10 DEF Send, At, StaysSilent
  <2>1. CASE posted' = [posted EXCEPT ![worker[w].dm] = @ + 1] /\ FinishAs(w, "sent")
    BY <1>0, <2>0, <2>1, WorkerFinishes DEF Outcomes
  <2>2. CASE FinishAs(w, "failed") /\ UNCHANGED posted
    BY <1>0, <2>0, <2>2, WorkerFinishes DEF Outcomes
  <2> QED BY <1>10, <2>1, <2>2 DEF Send
<1>11. ASSUME NEW w \in Workers, FinishEvent(w) PROVE DmInv'
  <2>1. worker[w].outcome \in Outcomes
    BY MovesAndFinishes
  <2> QED BY <1>0, <1>11, <2>1, WorkEnds DEF FinishEvent
<1>12. ASSUME NEW w \in Workers, DmFails(w) PROVE DmInv'
  <2>1. mishaps' \in 0..MaxMishaps
    BY <1>0, <1>12, InstagramAssumption DEF DmFails
  <2>2. worker[w].outcome \in Outcomes
    BY MovesAndFinishes
  <2>3. CASE At(w, "claim") \/ At(w, "load") \/ (At(w, "finish") /\ worker[w].outcome = "failed")
    BY <1>12, <2>1, <2>2, <2>3, WorkEnds DEF DmFails
  <2>4. CASE ~(At(w, "claim") \/ At(w, "load") \/ (At(w, "finish") /\ worker[w].outcome = "failed"))
    <3>1. /\ FinishAs(w, "failed") /\ worker[w].pc \notin {"idle", "claim"}
          /\ UNCHANGED <<event, queue, inbound, thread, now, posted, again, lost, held>>
      BY <1>12, <2>4 DEF DmFails, At
    <3> QED BY <1>0, <2>1, <3>1, WorkerFinishes DEF Outcomes
  <2> QED BY <2>3, <2>4
<1>13. CASE DmRestart
  BY <1>13, DmsRestart
<1>14. CASE StaffPauses
  <2>1. now + HumanPause \in Nat /\ now + HumanPause # 0
    BY <1>0, InstagramAssumption
  <2>2. /\ thread' = [thread EXCEPT !.isPaused = TRUE, !.until = now + HumanPause]
        /\ held' = IF thread.botPaused THEN 0 ELSE now + HumanPause
        /\ UNCHANGED <<event, queue, inbound, worker, now, mishaps, posted, again, lost>>
    BY <1>14 DEF StaffPauses
  <2>3. /\ thread' \in ThreadType /\ thread'.isPaused /\ thread'.until = now + HumanPause
        /\ thread'.botPaused = thread.botPaused
    BY <1>0, <2>1, <2>2 DEF ThreadType
  <2>4. held' \in Nat /\ (held' # 0 => HumansPause(thread', held')) /\ now <= now'
    BY <1>0, <2>1, <2>2, <2>3 DEF HumansPause
  <2> QED BY <1>0, <2>2, <2>3, <2>4, PauseChanges
<1>15. CASE StaffResumes
  <2>1. /\ thread' = [thread EXCEPT !.isPaused = FALSE, !.until = 0] /\ held' = 0
        /\ UNCHANGED <<event, queue, inbound, worker, now, mishaps, posted, again, lost>>
    BY <1>15 DEF StaffResumes
  <2>2. thread' \in ThreadType
    BY <1>0, <2>1 DEF ThreadType
  <2>3. now' \in Nat /\ now <= now' /\ held' \in Nat
    BY <1>0, <2>1
  <2> QED BY <2>1, <2>2, <2>3, PauseChanges
<1>16. CASE Tick
  BY <1>0, <1>16, PauseChanges DEF Tick
<1>17. CASE UNCHANGED instagramVars
  BY <1>0, <1>17, PauseChanges DEF instagramVars
<1> QED
  BY <1>1, <1>2, <1>3, <1>4, <1>5, <1>6, <1>7, <1>8, <1>9, <1>10, <1>11, <1>12, <1>13,
     <1>14, <1>15, <1>16, <1>17, <1>18
  DEF InstagramNext, Work

\* A direct message is answered once, and once more per reprocessing, and its event
\* has somebody who works on it, but for what a restart, a failed claim, a failed read
\* of the claimed event or a failed write of its outcome leaves behind, for any
\* messages, workers and failures.
THEOREM DmsAreTakenUp == InstagramSpec => [](InstagramTypeOK /\ EachDmTakenUp)
<1>1. DmInv => InstagramTypeOK /\ EachDmTakenUp
  <2> SUFFICES ASSUME DmInv PROVE InstagramTypeOK /\ EachDmTakenUp
    OBVIOUS
  <2>1. ASSUME NEW d \in Dms PROVE posted[d] <= 1 + again[d]
    <3>1. Cardinality(Answerers(d)) \in Nat /\ posted[d] \in Nat /\ again[d] \in Nat
      BY AnswerersCounted, DmTypes
    <3>2. posted[d] + Cardinality(Answerers(d)) + Credit(d) <= 1 + again[d]
      BY DEF DmInv, AnswerInv
    <3>3. Credit(d) \in Nat
      BY DEF Credit
    <3> QED BY <3>1, <3>2, <3>3
  <2> QED BY <2>1 DEF DmInv, EachDmTakenUp, AnsweredPerClaim
<1> QED BY <1>1, DmBegins, DmGoesOn, PTL DEF InstagramSpec

\* A message taken up during a person's pause is not being answered before that pause
\* would run out, however long its processing takes, except where the bot has paused
\* the conversation before, or a message read earlier has cleared or replaced the pause.
THEOREM HumanPauseIsRespected == InstagramSpec => []HumanPauseHolds
<1>1. DmInv => HumanPauseHolds
  BY DEF DmInv, PauseInv, StaysSilent, HumanPauseHolds, Answering
<1> QED BY <1>1, DmBegins, DmGoesOn, PTL DEF InstagramSpec

-----------------------------------------------------------------------------
(* The Instagram account *)

Alive(a) == a.status \notin {"none", "disconnected"}
Refused(t, ages, gone) == t \in gone \/ ages[t] = "expired"

\* What call k relies on: it has a token where it uses one; what it has loaded of an
\* account that was not renewed since is the account's; and it flags the account only
\* if that is deserved.
Serves(k, a, ages, gone, ex) ==
    /\ k.pc \in {"read", "commit", "mirror", "refresh", "save", "post"} => k.token \in Tokens
    /\ k.pc = "commit" => CustomerId \notin k.known
    /\ k.pc = "refresh" /\ k.expired => ages[k.token] = "expired"
    /\ Alive(a) /\ ~k.stale =>
         /\ k.pc \in {"refresh", "post"} => k.token = a.token
         /\ k.pc = "save" /\ "account" \notin k.todo => k.token = a.token
         /\ k.pc = "flag" => ex \/ Refused(a.token, ages, gone)

\* Nothing is on its way that would send.
Silent ==
    quiet => /\ account.status = "disconnected" /\ igRow.status = "disconnected"
             /\ \A c \in IgCallers : igCall[c].pc \in {"idle", "load"}

AccInv ==
    /\ AccountTypeOK /\ (Alive(account) => account.token \in Tokens)
    /\ \A c \in IgCallers : Serves(igCall[c], account, age, revoked, excused)
    /\ account.status \in Flagged => excused \/ Refused(account.token, age, revoked)
    /\ Silent

\* Time and Meta make tokens worse only.
MetaGoesOn ==
    /\ age' \in [Tokens -> {"unborn", "fresh", "near", "expired"}]
    /\ \A t \in Tokens : age[t] = "expired" => age'[t] = "expired"
    /\ revoked \subseteq revoked' /\ revoked' \subseteq Tokens

LEMMA NoIgCallServes ==
    /\ NoIgCall \in CallType /\ NoIgCall.pc = "idle"
    /\ \A a, ages, gone, ex : Serves(NoIgCall, a, ages, gone, ex)
  BY DEF NoIgCall, CallType, Pcs, Flagged, NoToken, Serves

LEMMA AccTypes ==
    ASSUME AccInv
    PROVE  /\ account \in AccountType /\ igRow \in IntegrationType
           /\ companyIg \in Ids \cup {NoId}
           /\ age \in [Tokens -> {"unborn", "fresh", "near", "expired"}]
           /\ revoked \subseteq Tokens /\ heard \subseteq Ids
           /\ igCall \in [IgCallers -> CallType]
           /\ \A c \in IgCallers : /\ igCall[c] \in CallType
                                   /\ Serves(igCall[c], account, age, revoked, excused)
           /\ excused \in BOOLEAN /\ quiet \in BOOLEAN
           /\ Alive(account) => account.token \in Tokens
           /\ NoToken \notin Tokens
  BY DEF AccInv, AccountTypeOK, Tokens, NoToken

LEMMA StillServes ==
    ASSUME AccInv, MetaGoesOn, NEW k \in CallType,
           Serves(k, account, age, revoked, excused)
    PROVE  Serves(k, account, age', revoked', excused)
<1>1. \A t \in Tokens : Refused(t, age, revoked) => Refused(t, age', revoked')
  BY DEF MetaGoesOn, Refused
<1>2. Alive(account) => account.token \in Tokens
  BY AccTypes
<1> QED BY <1>1, <1>2 DEF Serves, MetaGoesOn

LEMMA AccountBegins == AccountInit => AccInv
<1> SUFFICES ASSUME AccountInit PROVE AccInv
  OBVIOUS
<1>1. AccountTypeOK
  BY NoIgCallServes
  DEF AccountInit, AccountTypeOK, AccountType, IntegrationType, Statuses, NoToken, Ids
<1> QED BY <1>1, NoIgCallServes DEF AccountInit, AccInv, Alive, Flagged, Silent

\* A step of a call that leaves the account as it is.
LEMMA AccountKept ==
    ASSUME AccInv, NEW c \in IgCallers, NEW r \in CallType, Set2(c, r), MetaGoesOn,
           UNCHANGED <<account, excused>>, heard' \subseteq Ids,
           igRow' \in IntegrationType, companyIg' \in Ids \cup {NoId}, quiet' \in BOOLEAN,
           quiet' => quiet /\ igRow' = igRow /\ r.pc \in {"idle", "load"},
           Serves(r, account, age', revoked', excused)
    PROVE  AccInv'
<1>1. igCall' \in [IgCallers -> CallType]
      /\ igCall'[c] = r /\ \A d \in IgCallers \ {c} : igCall'[d] = igCall[d]
  BY AccTypes DEF Set2
<1>2. AccountTypeOK'
  BY <1>1, AccTypes DEF MetaGoesOn, AccountTypeOK
<1>3. \A d \in IgCallers : Serves(igCall'[d], account', age', revoked', excused')
  BY <1>1, AccTypes, StillServes
<1>4. account.status \in Flagged => Alive(account)
  BY DEF Flagged, Alive
<1>5. account'.status \in Flagged => excused' \/ Refused(account'.token, age', revoked')
  BY <1>4, AccTypes DEF AccInv, Refused, MetaGoesOn
<1>6. Silent'
  BY <1>1 DEF AccInv, Silent
<1> QED BY <1>2, <1>3, <1>5, <1>6 DEF AccInv, Alive

\* A step of Meta, of a customer or of nobody.
LEMMA NobodyCalls ==
    ASSUME AccInv, MetaGoesOn, heard' \subseteq Ids,
           UNCHANGED <<account, igRow, companyIg, igCall, excused, quiet>>
    PROVE  AccInv'
<1>1. AccountTypeOK'
  BY AccTypes DEF MetaGoesOn, AccountTypeOK
<1>2. \A d \in IgCallers : Serves(igCall'[d], account', age', revoked', excused')
  BY AccTypes, StillServes
<1>3. account.status \in Flagged => Alive(account)
  BY DEF Flagged, Alive
<1>4. account'.status \in Flagged => excused' \/ Refused(account'.token, age', revoked')
  BY <1>3, AccTypes DEF AccInv, Refused, MetaGoesOn
<1>5. Silent'
  BY DEF AccInv, Silent
<1> QED BY <1>1, <1>2, <1>4, <1>5 DEF AccInv, Alive

\* A step that stores a new token in the account: what others have loaded is stale.
LEMMA AccountRenewed ==
    ASSUME AccInv, NEW c \in IgCallers, NEW r \in CallType, TokenStored(c, r), MetaGoesOn,
           account' \in AccountType, account'.status = "connected", account'.token \in Tokens,
           igRow' \in IntegrationType, companyIg' \in Ids \cup {NoId},
           UNCHANGED <<heard, quiet>>, igCall[c].pc \notin {"idle", "load"},
           Serves(r, account', age', revoked', FALSE)
    PROVE  AccInv'
<1> DEFINE Stale(d) == [igCall[d] EXCEPT !.stale = @ \/ igCall[d].pc \in Loaded]
<1>1. ~quiet
  BY DEF AccInv, Silent
<1>2. ASSUME NEW d \in IgCallers
      PROVE  /\ Stale(d) \in CallType
             /\ Serves(Stale(d), account', age', revoked', FALSE)
  <2>1. igCall[d] \in CallType /\ Serves(igCall[d], account, age, revoked, excused)
    BY AccTypes
  <2>2. Serves(igCall[d], account, age', revoked', excused)
    BY <2>1, StillServes
  <2>3. /\ Stale(d) \in CallType
        /\ Stale(d).pc = igCall[d].pc /\ Stale(d).token = igCall[d].token
        /\ Stale(d).known = igCall[d].known /\ Stale(d).expired = igCall[d].expired
        /\ igCall[d].pc \in Loaded => Stale(d).stale
    BY <2>1 DEF CallType
  <2> HIDE DEF Stale
  <2> QED BY <2>2, <2>3 DEF Serves, Loaded
<1>3. igCall' = [d \in IgCallers |-> IF d = c THEN r ELSE Stale(d)] /\ excused' = FALSE
  BY DEF TokenStored
<1> HIDE DEF Stale
<1>4. igCall' \in [IgCallers -> CallType]
      /\ \A d \in IgCallers : Serves(igCall'[d], account', age', revoked', excused')
  BY <1>2, <1>3
<1>5. AccountTypeOK'
  BY <1>3, <1>4, AccTypes DEF MetaGoesOn, AccountTypeOK
<1> QED BY <1>1, <1>4, <1>5 DEF AccInv, Silent, Flagged

\* Nothing but time moves at Meta.
LEMMA MetaRests == ASSUME AccInv, UNCHANGED <<age, revoked>> PROVE MetaGoesOn
  BY AccTypes DEF MetaGoesOn

LEMMA TokenMinted ==
    ASSUME AccInv, NEW t \in Tokens, NEW ages \in SUBSET {"fresh", "near"}, Mint(t, ages),
           revoked' = revoked
    PROVE  MetaGoesOn
<1>1. age[t] = "unborn"
  BY DEF Mint, Tokens
<1>2. PICK a \in ages : age' = [age EXCEPT ![t] = a]
  BY DEF Mint
<1> QED BY <1>1, <1>2, AccTypes DEF MetaGoesOn

LEMMA BusyIsLoud ==
    ASSUME AccInv, NEW c \in IgCallers, igCall[c].pc \notin {"idle", "load"}
    PROVE  quiet = FALSE
  BY AccTypes DEF AccInv, Silent

\* Connecting.
LEMMA ConnectorSteps ==
    ASSUME AccInv, NEW c \in IgCallers,
           \/ \E pc \in {"exchange", "upsert"} : BeginAccount(c, pc)
           \/ Exchange(c) \/ ReadExisting(c) \/ CommitCallback(c) \/ ImportToken(c)
           \/ \E what \in {"integration", "company"} : MirrorImport(c, what)
    PROVE  AccInv'
<1> DEFINE k == igCall[c]
<1>0. /\ k \in CallType /\ Serves(k, account, age, revoked, excused)
      /\ account \in AccountType /\ igRow \in IntegrationType
      /\ companyIg \in Ids \cup {NoId} /\ heard \subseteq Ids /\ quiet \in BOOLEAN
  BY AccTypes
<1>1. ASSUME NEW pc \in {"exchange", "upsert"}, BeginAccount(c, pc)
      PROVE  AccInv'
  <2> DEFINE r == [NoIgCall EXCEPT !.pc = pc]
  <2>1. r \in CallType /\ r.pc = pc
    BY NoIgCallServes DEF CallType, Pcs
  <2>2. Set2(c, r)
    BY <1>1 DEF BeginAccount
  <2> HIDE DEF r
  <2>3. Serves(r, account, age', revoked', excused)
    BY <2>1 DEF Serves
  <2> QED BY <1>0, <1>1, <2>1, <2>2, <2>3, MetaRests, AccountKept DEF BeginAccount, igRows
<1>2. CASE Exchange(c)
  <2>1. PICK t \in Tokens : /\ Mint(t, {"fresh", "near"})
                            /\ Set2(c, [k EXCEPT !.pc = "read", !.token = t])
    BY <1>2 DEF Exchange
  <2> DEFINE r == [k EXCEPT !.pc = "read", !.token = t]
  <2>2. r \in CallType /\ r.pc = "read" /\ r.token = t
    BY <1>0 DEF CallType, Pcs
  <2>3. Set2(c, r)
    BY <2>1
  <2> HIDE DEF r
  <2>4. Serves(r, account, age', revoked', excused)
    BY <2>2 DEF Serves
  <2>5. MetaGoesOn
    BY <1>2, <2>1, TokenMinted DEF Exchange
  <2>6. quiet = FALSE
    BY <1>2, BusyIsLoud DEF Exchange
  <2> QED BY <1>0, <1>2, <2>2, <2>3, <2>4, <2>5, <2>6, AccountKept DEF Exchange, igRows
<1>3. CASE ReadExisting(c)
  <2> DEFINE r == [k EXCEPT !.pc = "commit", !.known = KnownIds, !.stale = FALSE]
  <2>1. KnownIds \subseteq Ids /\ CustomerId \notin KnownIds
    BY <1>0 DEF KnownIds, CustomerIds, Ids, AccountType, OAuthId, WebhookId, CustomerId
  <2>2. r \in CallType /\ r.pc = "commit" /\ r.token = k.token /\ r.known = KnownIds
    BY <1>0, <2>1 DEF CallType, Pcs
  <2>3. Set2(c, r) /\ k.pc = "read"
    BY <1>3 DEF ReadExisting
  <2>4. k.token \in Tokens
    BY <1>0, <2>3 DEF Serves
  <2> HIDE DEF r
  <2>5. Serves(r, account, age', revoked', excused)
    BY <2>1, <2>2, <2>4 DEF Serves
  <2>6. quiet = FALSE
    BY <2>3, BusyIsLoud
  <2> QED BY <1>0, <1>3, <2>2, <2>3, <2>5, <2>6, MetaRests, AccountKept DEF ReadExisting, igRows
<1>4. CASE CommitCallback(c)
  <2>1. k.pc = "commit" /\ k.token \in Tokens /\ k.known \subseteq {OAuthId, WebhookId}
    BY <1>0, <1>4 DEF CommitCallback, Serves, CallType, Ids
  <2>2. PrimaryId(k.known) \in Ids
    BY DEF PrimaryId, Ids
  <2>3. /\ account' = [status |-> "connected", token |-> k.token, ids |-> k.known]
        /\ igRow' = [status |-> "connected", token |-> k.token, externalId |-> PrimaryId(k.known)]
        /\ companyIg' = PrimaryId(k.known) /\ TokenStored(c, NoIgCall)
        /\ UNCHANGED <<age, revoked, heard, quiet>>
    BY <1>4 DEF CommitCallback
  <2>4. account' \in AccountType /\ igRow' \in IntegrationType
    BY <2>1, <2>2, <2>3 DEF AccountType, IntegrationType, Statuses
  <2> QED BY <2>1, <2>2, <2>3, <2>4, NoIgCallServes, MetaRests, AccountRenewed
<1>5. CASE ImportToken(c)
  <2>1. PICK t \in Tokens :
          /\ Mint(t, {"fresh", "near"})
          /\ account' = [status |-> "connected", token |-> t,
                         ids |-> ((IF Active THEN account.ids ELSE {}) \cup {OAuthId})
                                   \ CustomerIds]
          /\ TokenStored(c, [k EXCEPT !.pc = "mirror", !.token = t,
                                      !.todo = {"integration", "company"}])
    BY <1>5 DEF ImportToken
  <2> DEFINE r == [k EXCEPT !.pc = "mirror", !.token = t, !.todo = {"integration", "company"}]
  <2>2. r \in CallType /\ r.pc = "mirror" /\ r.token = t
    BY <1>0 DEF CallType, Pcs
  <2>3. TokenStored(c, r)
    BY <2>1
  <2> HIDE DEF r
  <2>4. Serves(r, account', age', revoked', FALSE)
    BY <2>2 DEF Serves
  <2>5. ((IF Active THEN account.ids ELSE {}) \cup {OAuthId}) \ CustomerIds
          \subseteq {OAuthId, WebhookId}
    BY <1>0 DEF AccountType
  <2>6. account' \in AccountType /\ account'.status = "connected" /\ account'.token = t
    BY <2>1, <2>5 DEF AccountType, Statuses
  <2>7. MetaGoesOn
    BY <1>5, <2>1, TokenMinted DEF ImportToken
  <2> QED BY <1>0, <1>5, <2>2, <2>3, <2>4, <2>6, <2>7, AccountRenewed DEF ImportToken
<1>6. ASSUME NEW what \in {"integration", "company"}, MirrorImport(c, what)
      PROVE  AccInv'
  <2>1. k.pc = "mirror" /\ k.token \in Tokens
    BY <1>0, <1>6 DEF MirrorImport, Serves
  <2>2. igRow' \in IntegrationType /\ companyIg' \in Ids \cup {NoId}
    BY <1>0, <1>6, <2>1 DEF MirrorImport, IntegrationType, Statuses, Ids
  <2>3. quiet = FALSE
    BY <2>1, BusyIsLoud
  <2>4. CASE k.todo = {what}
    <3>1. Set2(c, NoIgCall)
      BY <1>6, <2>4 DEF MirrorImport
    <3> QED BY <1>0, <1>6, <2>2, <2>3, <3>1, NoIgCallServes, MetaRests, AccountKept DEF MirrorImport
  <2>5. CASE k.todo # {what}
    <3> DEFINE r == [k EXCEPT !.todo = @ \ {what}]
    <3>1. r \in CallType /\ r.pc = "mirror" /\ r.token = k.token
      BY <1>0, <2>1 DEF CallType
    <3>2. Set2(c, r)
      BY <1>6, <2>5 DEF MirrorImport
    <3> HIDE DEF r
    <3>3. Serves(r, account, age', revoked', excused)
      BY <2>1, <3>1 DEF Serves
    <3> QED BY <1>0, <1>6, <2>2, <2>3, <3>1, <3>2, <3>3, MetaRests, AccountKept DEF MirrorImport
  <2> QED BY <2>4, <2>5
<1> QED BY <1>1, <1>2, <1>3, <1>4, <1>5, <1>6

\* The record of a call that is about to flag the account.
LEMMA FlaggingTypes ==
    ASSUME AccInv, NEW c \in IgCallers, NEW status \in Flagged
    PROVE  /\ Flagging(c, status) \in CallType /\ Flagging(c, status).pc = "flag"
           /\ Flagging(c, status).stale = igCall[c].stale
           /\ [Flagging(c, status) EXCEPT !.stale = FALSE] \in CallType
           /\ [Flagging(c, status) EXCEPT !.stale = FALSE].pc = "flag"
<1> DEFINE f == Flagging(c, status)
<1>1. igCall[c] \in CallType /\ status \in {"token_expired", "reconnect_required"}
  BY AccTypes DEF Flagged
<1>2. f \in CallType /\ f.pc = "flag" /\ f.stale = igCall[c].stale
  BY <1>1 DEF Flagging, CallType, Pcs, Flagged
<1> HIDE DEF f
<1>3. [f EXCEPT !.stale = FALSE] \in CallType /\ [f EXCEPT !.stale = FALSE].pc = "flag"
  BY <1>2 DEF CallType
<1> QED BY <1>2, <1>3 DEF f

\* A call that flags the account has seen its token refused.
LEMMA FlagServes ==
    ASSUME NEW r \in CallType, r.pc = "flag", NEW a, NEW ages, NEW gone, NEW ex,
           Alive(a) /\ ~r.stale => ex \/ Refused(a.token, ages, gone)
    PROVE  Serves(r, a, ages, gone, ex)
  BY DEF Serves

LEMMA SenderLoads ==
    ASSUME AccInv, NEW c \in IgCallers, LoadCredentials(c)
    PROVE  AccInv'
<1> DEFINE k == igCall[c]
           token == IF Active THEN account.token ELSE igRow.token
           loaded == [k EXCEPT !.token = token, !.stale = FALSE]
<1>0. /\ k \in CallType /\ k.pc = "load"
      /\ account \in AccountType /\ igRow \in IntegrationType
      /\ companyIg \in Ids \cup {NoId} /\ heard \subseteq Ids /\ quiet \in BOOLEAN
      /\ token \in Tokens \cup {NoToken} /\ NoToken \notin Tokens
      /\ Active = Alive(account) /\ (Active => account.token \in Tokens)
      /\ UNCHANGED <<account, igRow, companyIg, age, revoked, heard, excused, quiet>>
  BY AccTypes DEF LoadCredentials, AccountType, IntegrationType, Active, Alive, igRows
<1>1. MetaGoesOn
  BY <1>0, MetaRests
<1>2. CASE ~Active /\ igRow.status \in {"none", "disconnected"}
  <2>1. Set2(c, NoIgCall)
    BY <1>2 DEF LoadCredentials, Set2
  <2> QED BY <1>0, <1>1, <2>1, NoIgCallServes, AccountKept
<1>3. CASE ~(~Active /\ igRow.status \in {"none", "disconnected"})
  <2>1. quiet = FALSE
    BY <1>0, <1>3 DEF AccInv, Silent, Active
  <2> HIDE DEF token
  <2>2. CASE token = NoToken
    <3> DEFINE r == [Flagging(c, "reconnect_required") EXCEPT !.stale = FALSE]
    <3>1. r \in CallType /\ r.pc = "flag"
      BY FlaggingTypes DEF Flagged
    <3>2. Set2(c, r)
      BY <1>3, <2>2 DEF LoadCredentials, token, Set2
    <3> HIDE DEF r
    <3>3. ~Alive(account)
      BY <1>0, <2>2 DEF token
    <3>4. Serves(r, account, age', revoked', excused)
      BY <3>1, <3>3, FlagServes
    <3> QED BY <1>0, <1>1, <2>1, <3>1, <3>2, <3>4, AccountKept
  <2>3. CASE token # NoToken /\ Active /\ account.status \in Flagged
    <3> DEFINE r == [Flagging(c, "token_expired") EXCEPT !.stale = FALSE]
    <3>1. r \in CallType /\ r.pc = "flag"
      BY FlaggingTypes DEF Flagged
    <3>2. Set2(c, r)
      BY <1>3, <2>3 DEF LoadCredentials, token, Set2
    <3> HIDE DEF r
    <3>3. excused \/ Refused(account.token, age, revoked)
      BY <2>3 DEF AccInv
    <3>4. Serves(r, account, age', revoked', excused)
      BY <1>0, <3>1, <3>3, FlagServes
    <3> QED BY <1>0, <1>1, <2>1, <3>1, <3>2, <3>4, AccountKept
  <2>4. CASE /\ token # NoToken /\ ~(Active /\ account.status \in Flagged)
             /\ Active /\ age[token] \in {"near", "expired"}
    <3> DEFINE r == [loaded EXCEPT !.pc = "refresh", !.expired = age[token] = "expired"]
    <3>1. /\ r \in CallType /\ r.pc = "refresh" /\ r.token = token
          /\ r.expired = (age[token] = "expired")
      BY <1>0 DEF CallType, Pcs
    <3>2. Set2(c, r)
      BY <1>3, <2>4 DEF LoadCredentials, token, Set2
    <3> HIDE DEF r
    <3>3. token = account.token
      BY <2>4 DEF token
    <3>4. Serves(r, account, age', revoked', excused)
      BY <1>0, <2>4, <3>1, <3>3 DEF Serves
    <3> QED BY <1>0, <1>1, <2>1, <3>1, <3>2, <3>4, AccountKept
  <2>5. CASE /\ token # NoToken /\ ~(Active /\ account.status \in Flagged)
             /\ ~(Active /\ age[token] \in {"near", "expired"})
    <3> DEFINE r == [loaded EXCEPT !.pc = "post"]
    <3>1. r \in CallType /\ r.pc = "post" /\ r.token = token
      BY <1>0 DEF CallType, Pcs
    <3>2. Set2(c, r)
      BY <1>3, <2>5 DEF LoadCredentials, token, Set2
    <3> HIDE DEF r
    <3>3. Alive(account) => token = account.token
      BY <1>0 DEF token
    <3>4. Serves(r, account, age', revoked', excused)
      BY <1>0, <2>5, <3>1, <3>3 DEF Serves
    <3> QED BY <1>0, <1>1, <2>1, <3>1, <3>2, <3>4, AccountKept
  <2> QED BY <2>2, <2>3, <2>4, <2>5
<1> QED BY <1>2, <1>3

LEMMA SenderPosts ==
    ASSUME AccInv, NEW c \in IgCallers, Refresh(c) \/ Post(c)
    PROVE  AccInv'
<1> DEFINE k == igCall[c]
<1>0. /\ k \in CallType /\ Serves(k, account, age, revoked, excused)
      /\ account \in AccountType /\ igRow \in IntegrationType
      /\ companyIg \in Ids \cup {NoId} /\ heard \subseteq Ids /\ quiet \in BOOLEAN
      /\ k.pc \in {"refresh", "post"} /\ k.token \in Tokens
      /\ Alive(account) /\ ~k.stale => k.token = account.token
      /\ k.pc = "refresh" /\ k.expired => age[k.token] = "expired"
      /\ UNCHANGED <<account, igRow, companyIg, revoked, heard, excused, quiet>>
  BY AccTypes DEF Refresh, Post, Serves, igRows
<1>1. quiet = FALSE
  BY <1>0, BusyIsLoud
<1>2. ASSUME NEW status \in Flagged, Set2(c, Flagging(c, status)), age' = age,
             Refused(k.token, age, revoked)
      PROVE  AccInv'
  <2> DEFINE r == Flagging(c, status)
  <2>1. r \in CallType /\ r.pc = "flag" /\ r.stale = k.stale
    BY FlaggingTypes
  <2> HIDE DEF r
  <2>2. Serves(r, account, age', revoked', excused)
    BY <1>0, <1>2, <2>1, FlagServes
  <2> QED BY <1>0, <1>1, <1>2, <2>1, <2>2, MetaRests, AccountKept DEF r
<1>3. CASE Set2(c, NoIgCall) /\ age' = age
  BY <1>0, <1>1, <1>3, NoIgCallServes, MetaRests, AccountKept
<1>4. ASSUME NEW t \in Tokens, Mint(t, {"fresh"}),
             Set2(c, [k EXCEPT !.pc = "save", !.token = t, !.expired = FALSE,
                               !.todo = {"account", "integration"}])
      PROVE  AccInv'
  <2> DEFINE r == [k EXCEPT !.pc = "save", !.token = t, !.expired = FALSE,
                            !.todo = {"account", "integration"}]
  <2>1. /\ r \in CallType /\ r.pc = "save" /\ r.token = t
        /\ r.todo = {"account", "integration"}
    BY <1>0 DEF CallType, Pcs
  <2>2. Set2(c, r)
    BY <1>4
  <2> HIDE DEF r
  <2>3. Serves(r, account, age', revoked', excused)
    BY <2>1 DEF Serves
  <2>4. MetaGoesOn
    BY <1>0, <1>4, TokenMinted
  <2> QED BY <1>0, <1>1, <2>1, <2>2, <2>3, <2>4, AccountKept
<1>5. CASE Refresh(c)
  <2>1. CASE age' = age /\ Set2(c, IF k.expired \/ age[k.token] = "expired"
                                    THEN Flagging(c, "token_expired")
                                    ELSE IF k.token \in revoked
                                    THEN Flagging(c, "reconnect_required")
                                    ELSE NoIgCall)
    <3>1. k.pc = "refresh"
      BY <1>5 DEF Refresh
    <3> QED BY <1>0, <1>2, <1>3, <2>1, <3>1 DEF Refused, Flagged
  <2> QED BY <1>4, <1>5, <2>1 DEF Refresh
<1>6. CASE Post(c)
  <2>1. age' = age
    BY <1>6 DEF Post
  <2> QED BY <1>2, <1>3, <1>6, <2>1 DEF Post, Refused, Flagged
<1> QED BY <1>5, <1>6

\* What is left of a call after one of its writes.
LEMMA DoneTypes ==
    ASSUME AccInv, NEW c \in IgCallers, NEW what \in {"account", "integration"},
           NEW pc \in {"idle", "post"}
    PROVE  /\ Done(c, what, pc) \in CallType
           /\ \/ Done(c, what, pc) = NoIgCall
              \/ /\ Done(c, what, pc).token = igCall[c].token
                 /\ Done(c, what, pc).known = igCall[c].known
                 /\ Done(c, what, pc).stale = igCall[c].stale
                 /\ \/ /\ Done(c, what, pc).pc = igCall[c].pc
                       /\ Done(c, what, pc).todo = igCall[c].todo \ {what}
                    \/ /\ Done(c, what, pc).pc = "post" /\ pc = "post"
                       /\ igCall[c].todo = {what}
<1> DEFINE k == igCall[c]
<1>1. k \in CallType /\ NoIgCall \in CallType
  BY AccTypes, NoIgCallServes
<1>2. CASE k.todo # {what}
  <2> DEFINE r == [k EXCEPT !.todo = @ \ {what}]
  <2>1. /\ r \in CallType /\ r.token = k.token /\ r.known = k.known /\ r.stale = k.stale
        /\ r.pc = k.pc /\ r.todo = k.todo \ {what}
    BY <1>1 DEF CallType
  <2>2. Done(c, what, pc) = r
    BY <1>2 DEF Done
  <2> QED BY <2>1, <2>2
<1>3. CASE k.todo = {what} /\ pc = "idle"
  BY <1>1, <1>3 DEF Done
<1>4. CASE k.todo = {what} /\ pc = "post"
  <2> DEFINE r == [k EXCEPT !.todo = {}, !.pc = pc]
  <2>1. r \in CallType /\ r.token = k.token /\ r.known = k.known /\ r.stale = k.stale /\ r.pc = pc
    BY <1>1 DEF CallType, Pcs
  <2>2. Done(c, what, pc) = r
    BY <1>4 DEF Done
  <2> QED BY <1>4, <2>1, <2>2
<1> QED BY <1>2, <1>3, <1>4

LEMMA SenderSaves ==
    ASSUME AccInv, NEW c \in IgCallers, NEW what \in {"account", "integration"},
           SaveRefreshed(c, what)
    PROVE  AccInv'
<1> DEFINE k == igCall[c]
           r == Done(c, what, "post")
<1>0. /\ k \in CallType /\ k.pc = "save" /\ k.token \in Tokens /\ what \in k.todo
      /\ Alive(account) /\ ~k.stale /\ "account" \notin k.todo => k.token = account.token
      /\ account \in AccountType /\ igRow \in IntegrationType /\ Active = Alive(account)
      /\ companyIg \in Ids \cup {NoId} /\ heard \subseteq Ids /\ quiet = FALSE
      /\ UNCHANGED <<companyIg, age, revoked, heard, quiet>>
  BY AccTypes, BusyIsLoud DEF SaveRefreshed, Serves, Active, Alive
<1>1. MetaGoesOn
  BY <1>0, MetaRests
<1>2. igRow' \in IntegrationType
  BY <1>0 DEF SaveRefreshed, IntegrationType, Statuses
<1>3. /\ r \in CallType
      /\ \/ r = NoIgCall
         \/ /\ r.token = k.token /\ r.known = k.known /\ r.stale = k.stale
            /\ \/ r.pc = "save" /\ r.todo = k.todo \ {what}
               \/ r.pc = "post" /\ k.todo = {what}
  BY <1>0, DoneTypes
<1> HIDE DEF r
<1>4. CASE what = "account" /\ Active
  <2>1. /\ account' = [account EXCEPT !.status = "connected", !.token = k.token]
        /\ TokenStored(c, r)
    BY <1>4 DEF SaveRefreshed, r
  <2>2. account' \in AccountType /\ account'.status = "connected" /\ account'.token = k.token
    BY <1>0, <2>1 DEF AccountType, Statuses
  <2>3. Serves(r, account', age', revoked', FALSE)
    BY <1>0, <1>3, <2>2, NoIgCallServes DEF Serves
  <2> QED BY <1>0, <1>1, <1>2, <1>3, <2>1, <2>2, <2>3, AccountRenewed
<1>5. CASE ~(what = "account" /\ Active)
  <2>1. Set2(c, r) /\ UNCHANGED <<account, excused>>
    BY <1>5 DEF SaveRefreshed, r
  <2>2. Serves(r, account, age', revoked', excused)
    BY <1>0, <1>3, <1>5, NoIgCallServes DEF Serves
  <2> QED BY <1>0, <1>1, <1>2, <1>3, <2>1, <2>2, AccountKept
<1> QED BY <1>4, <1>5

LEMMA SenderFlags ==
    ASSUME AccInv, NEW c \in IgCallers, NEW what \in {"account", "integration"},
           FlagAccount(c, what)
    PROVE  AccInv'
<1> DEFINE k == igCall[c]
           r == Done(c, what, "idle")
<1>0. /\ k \in CallType /\ k.pc = "flag" /\ what \in k.todo
      /\ Alive(account) /\ ~k.stale => excused \/ Refused(account.token, age, revoked)
      /\ account \in AccountType /\ igRow \in IntegrationType /\ Active = Alive(account)
      /\ companyIg \in Ids \cup {NoId} /\ heard \subseteq Ids /\ quiet = FALSE
      /\ Alive(account) => account.token \in Tokens
      /\ UNCHANGED <<companyIg, age, revoked, heard, quiet>> /\ Set2(c, r)
  BY AccTypes, BusyIsLoud DEF FlagAccount, Serves, Active, Alive
<1>1. MetaGoesOn
  BY <1>0, MetaRests
<1>2. igRow' \in IntegrationType
  BY <1>0 DEF FlagAccount, IntegrationType, Statuses, CallType
<1>3. /\ r \in CallType
      /\ \/ r = NoIgCall
         \/ r.pc = "flag" /\ r.stale = k.stale /\ r.todo = k.todo \ {what}
  BY <1>0, DoneTypes
<1> HIDE DEF r
<1>4. CASE what = "account" /\ Active
  <2>1. /\ account' = [account EXCEPT !.status = k.flag] /\ excused' = (excused \/ k.stale)
        /\ k.flag \in Flagged
    BY <1>0, <1>4 DEF FlagAccount, CallType
  <2>2. /\ account' \in AccountType /\ account'.status \in Flagged
        /\ account'.token = account.token /\ Alive(account')
    BY <1>0, <2>1 DEF AccountType, Statuses, Flagged, Alive
  <2>3. excused' \in BOOLEAN /\ (excused' \/ Refused(account.token, age, revoked))
        /\ (excused => excused')
    BY <1>0, <1>4, <2>1, AccTypes DEF CallType
  <2>4. igCall' \in [IgCallers -> CallType]
        /\ igCall'[c] = r /\ \A d \in IgCallers \ {c} : igCall'[d] = igCall[d]
    BY <1>0, <1>3, AccTypes DEF Set2
  <2>5. ASSUME NEW d \in IgCallers
        PROVE  Serves(igCall'[d], account', age', revoked', excused')
    <3>1. CASE d = c
      BY <1>0, <1>3, <2>2, <2>3, <2>4, <3>1, NoIgCallServes DEF Serves
    <3>2. CASE d # c
      <4>1. Serves(igCall[d], account, age, revoked, excused)
        BY AccTypes
      <4> QED BY <1>0, <1>4, <2>2, <2>3, <2>4, <3>2, <4>1 DEF Serves
    <3> QED BY <3>1, <3>2
  <2>6. AccountTypeOK'
    BY <1>0, <1>1, <1>2, <2>2, <2>3, <2>4 DEF AccountTypeOK, MetaGoesOn
  <2> QED BY <1>0, <1>4, <2>2, <2>3, <2>5, <2>6 DEF AccInv, Silent
<1>5. CASE ~(what = "account" /\ Active)
  <2>1. UNCHANGED <<account, excused>>
    BY <1>5, AccTypes DEF FlagAccount
  <2>2. Serves(r, account, age', revoked', excused)
    BY <1>0, <1>3, NoIgCallServes DEF Serves
  <2> QED BY <1>0, <1>1, <1>2, <1>3, <2>1, <2>2, AccountKept
<1> QED BY <1>4, <1>5

LEMMA IgDisconnects == ASSUME AccInv, DisconnectIg PROVE AccInv'
<1>1. /\ account' \in AccountType /\ account'.status = "disconnected"
      /\ igRow' \in IntegrationType /\ igRow'.status = "disconnected"
  BY AccTypes DEF DisconnectIg, AccountType, IntegrationType, Statuses
<1>2. AccountTypeOK'
  BY <1>1, AccTypes DEF DisconnectIg, AccountTypeOK
<1>3. \A d \in IgCallers : Serves(igCall'[d], account', age', revoked', excused')
  BY <1>1, AccTypes DEF DisconnectIg, Serves, Alive
<1>4. Silent'
  BY <1>1 DEF DisconnectIg, Silent
<1> QED BY <1>1, <1>2, <1>3, <1>4 DEF AccInv, Alive, Flagged

LEMMA AccountGoesOn == AccInv /\ [AccountNext]_accountVars => AccInv'
<1> SUFFICES ASSUME AccInv, [AccountNext]_accountVars
             PROVE  AccInv'
  OBVIOUS
<1>0. Connectors \subseteq IgCallers /\ Senders \subseteq IgCallers
  BY DEF IgCallers
<1>1. ASSUME NEW t \in Tokens, TokenExpires(t) \/ Revoke(t) PROVE AccInv'
  <2>1. MetaGoesOn
    BY <1>1, AccTypes DEF TokenExpires, Revoke, MetaGoesOn
  <2> QED BY <1>1, <2>1, AccTypes, NobodyCalls DEF TokenExpires, Revoke, igRows
<1>2. CASE MessageComes
  <2>1. heard' \subseteq Ids
    BY <1>2, AccTypes DEF MessageComes, Ids
  <2> QED BY <1>2, <2>1, MetaRests, NobodyCalls DEF MessageComes, igRows
<1>3. CASE DisconnectIg
  BY <1>3, IgDisconnects
<1>4. ASSUME NEW c \in Connectors,
             \/ \E pc \in {"exchange", "upsert"} : BeginAccount(c, pc)
             \/ Exchange(c) \/ ReadExisting(c) \/ CommitCallback(c) \/ ImportToken(c)
             \/ \E what \in {"integration", "company"} : MirrorImport(c, what)
      PROVE  AccInv'
  BY <1>0, <1>4, ConnectorSteps
<1>5. ASSUME NEW c \in Senders, BeginSend(c) PROVE AccInv'
  <2> DEFINE r == [NoIgCall EXCEPT !.pc = "load"]
  <2>1. r \in CallType /\ r.pc = "load"
    BY NoIgCallServes DEF CallType, Pcs
  <2>2. Set2(c, r)
    BY <1>5 DEF BeginSend
  <2> HIDE DEF r
  <2>3. Serves(r, account, age', revoked', excused)
    BY <2>1 DEF Serves
  <2> QED BY <1>0, <1>5, <2>1, <2>2, <2>3, AccTypes, MetaRests, AccountKept DEF BeginSend, igRows
<1>6. ASSUME NEW c \in Senders, LoadCredentials(c) PROVE AccInv'
  BY <1>0, <1>6, SenderLoads
<1>7. ASSUME NEW c \in Senders, Refresh(c) \/ Post(c) PROVE AccInv'
  BY <1>0, <1>7, SenderPosts
<1>8. ASSUME NEW c \in Senders, NEW what \in {"account", "integration"},
             SaveRefreshed(c, what) \/ FlagAccount(c, what)
      PROVE  AccInv'
  BY <1>0, <1>8, SenderSaves, SenderFlags
<1>9. ASSUME NEW c \in IgCallers, CallEnds(c) PROVE AccInv'
  BY <1>9, AccTypes, NoIgCallServes, MetaRests, AccountKept DEF CallEnds, igRows
<1>10. CASE UNCHANGED accountVars
  BY <1>10, AccTypes, MetaRests, NobodyCalls DEF accountVars
<1> QED BY <1>1, <1>2, <1>3, <1>4, <1>5, <1>6, <1>7, <1>8, <1>9, <1>10 DEF AccountNext

\* The account is flagged only if Meta refuses its token, and silent once it was
\* disconnected while nothing was in progress, for any number of callbacks, imports and
\* sends that overlap; and an id of a customer never becomes one of the account's.
THEOREM AccountStatusIsEarned == AccountSpec => [](AccountTypeOK /\ StatusIsEarned)
<1>1. AccInv => AccountTypeOK /\ StatusIsEarned
  BY DEF AccInv, StatusIsEarned, FlagIsDeserved, DisconnectHolds, Dead, Refused, Silent
<1> QED BY <1>1, AccountBegins, AccountGoesOn, PTL DEF AccountSpec

\* Only a callback or an import makes a disconnected account active again.
THEOREM ConnectingConnects == AccountSpec => OnlyConnectingConnects
<1>1. [AccountNext]_accountVars =>
        [account.status = "disconnected" /\ account'.status # "disconnected" =>
           \E c \in IgCallers : igCall[c].pc \in {"commit", "upsert"}]_accountVars
  <2> SUFFICES ASSUME AccountNext, account.status = "disconnected",
                      account'.status # "disconnected"
               PROVE  \E c \in IgCallers : igCall[c].pc \in {"commit", "upsert"}
    BY DEF accountVars
  <2>1. ~Active
    BY DEF Active
  <2>2. CASE \E c \in Connectors : CommitCallback(c) \/ ImportToken(c)
    BY <2>2 DEF CommitCallback, ImportToken, IgCallers
  <2>3. CASE DisconnectIg
    BY <2>3 DEF DisconnectIg
  <2>4. CASE account' = account
    BY <2>4
  <2>5. account' = account \/ DisconnectIg \/ \E c \in Connectors : CommitCallback(c) \/ ImportToken(c)
    BY <2>1
    DEF AccountNext, TokenExpires, Revoke, MessageComes, BeginAccount, Exchange, ReadExisting,
        MirrorImport, BeginSend, LoadCredentials, Refresh, Post, SaveRefreshed, FlagAccount,
        CallEnds, igRows
  <2> QED BY <2>2, <2>3, <2>4, <2>5
<1> QED BY <1>1, PTL DEF AccountSpec, OnlyConnectingConnects

-----------------------------------------------------------------------------
(* Messages on their way to the assistant *)

HandType == [pc : HandPcs, msg : Msgs, snap : {"no", "yes", "expired"},
             sent : BOOLEAN, during : BOOLEAN]
ConvType == [pause : {"no", "yes", "expired"}, status : {"waiting", "human", "replied"}]

\* What holds of a hand: only an Evolution message is claimed, an answer comes before
\* its log, and a message that came during a person's pause ends at the gate, unless an
\* earlier one has cleared that pause.
HandOK(k, cl) ==
    /\ k.pc = "claim" => OnEvolution(k.msg)
    /\ k.sent => k.pc \in {"log", "finish"}
    /\ k.during /\ ~cl => /\ k.pc \in {"create", "gate", "finish"}
                          /\ k.pc # "finish" => k.snap = "yes"

InbTypes ==
    /\ WhatsappInboxTypeOK
    /\ conv \in ConvType /\ hand \in [Hands -> HandType]
    /\ delivered \in [Msgs -> Nat] /\ replies \in [Msgs -> Nat] /\ repeats \in [Msgs -> Nat]
    /\ \A m \in posting : OnEvolution(m)
    /\ person \in BOOLEAN

PersonInv ==
    /\ person /\ ~cleared => conv.pause = "yes"
    /\ ~cleared => ~spoke
    /\ \A h \in Hands : HandOK(hand[h], cleared)

\* One hand at a time works on an Evolution message, and what it has sent is accounted
\* for in the end.
Working(k, m) == k.msg = m /\ k.pc \notin {"idle", "claim"}
Spoken(m) == entry[m] = "processed" \/ \E h \in Hands : Works(h, m) /\ hand[h].sent
OneWorks(m) ==
    /\ \A h \in Hands : Works(h, m) => entry[m] = "processing"
    /\ \A h, g \in Hands : Works(h, m) /\ Works(g, m) => h = g
    /\ replies[m] <= repeats[m] + (IF Spoken(m) THEN 1 ELSE 0)

\* A delivery of Meta is waiting, in progress, or answered.
Open(k, m) == k.msg = m /\ k.pc # "idle" /\ ~k.sent
OpenJobs(m) == {h \in Hands : Open(hand[h], m)}
PerDelivery(m) == waiting[m] + Cardinality(OpenJobs(m)) + replies[m] <= delivered[m]

InbInv ==
    /\ InbTypes /\ PersonInv /\ OpenMessageHasCarrier
    /\ \A m \in Msgs : OnEvolution(m) => OneWorks(m)
    /\ \A m \in Msgs : ~OnEvolution(m) => PerDelivery(m)

LEMMA FreeTypes ==
    /\ Free \in HandType /\ Free.pc = "idle" /\ ~Free.sent /\ ~Free.during
    /\ \A cl : HandOK(Free, cl)
<1>1. (CHOOSE m \in Msgs : TRUE) \in Msgs
  BY WhatsappInboxAssumption
<1> QED BY <1>1 DEF Free, HandType, HandPcs, HandOK

LEMMA InbTyped ==
    ASSUME InbInv
    PROVE  /\ entry \in [Msgs -> EntryStatuses] /\ posting \subseteq Msgs
           /\ waiting \in [Msgs -> Nat] /\ conv \in ConvType
           /\ hand \in [Hands -> HandType]
           /\ \A h \in Hands : hand[h] \in HandType /\ hand[h].msg \in Msgs
           /\ \A h \in Hands : HandOK(hand[h], cleared)
           /\ delivered \in [Msgs -> Nat] /\ replies \in [Msgs -> Nat]
           /\ repeats \in [Msgs -> Nat]
           /\ \A m \in Msgs : /\ waiting[m] \in Nat /\ delivered[m] \in Nat
                              /\ replies[m] \in Nat /\ repeats[m] \in Nat
  BY DEF InbInv, InbTypes, PersonInv, WhatsappInboxTypeOK, HandType

LEMMA OpenJobsCounted ==
    ASSUME NEW m
    PROVE  IsFiniteSet(OpenJobs(m)) /\ Cardinality(OpenJobs(m)) \in Nat
<1>1. OpenJobs(m) \subseteq Hands
  BY DEF OpenJobs
<1> QED BY <1>1, WhatsappInboxAssumption, FS_Subset, FS_CardinalityType

\* How the step of one hand changes their number.
LEMMA OpenJobsChange ==
    ASSUME hand \in [Hands -> HandType], NEW h \in Hands, NEW r \in HandType,
           hand' = [hand EXCEPT ![h] = r], NEW m \in Msgs
    PROVE  /\ Cardinality(OpenJobs(m)') \in Nat /\ Cardinality(OpenJobs(m)) \in Nat
           /\ Open(hand[h], m) /\ ~Open(r, m) =>
                Cardinality(OpenJobs(m)') = Cardinality(OpenJobs(m)) - 1
           /\ Open(r, m) /\ ~Open(hand[h], m) =>
                Cardinality(OpenJobs(m)') = Cardinality(OpenJobs(m)) + 1
           /\ (Open(r, m) <=> Open(hand[h], m)) =>
                Cardinality(OpenJobs(m)') = Cardinality(OpenJobs(m))
<1>1. IsFiniteSet(OpenJobs(m)) /\ Cardinality(OpenJobs(m)) \in Nat
  BY OpenJobsCounted
<1>2. hand'[h] = r /\ \A g \in Hands \ {h} : hand'[g] = hand[g]
  OBVIOUS
<1>3. CASE Open(hand[h], m) /\ ~Open(r, m)
  <2>1. OpenJobs(m)' = OpenJobs(m) \ {h} /\ h \in OpenJobs(m)
    BY <1>2, <1>3 DEF OpenJobs
  <2>2. Cardinality(OpenJobs(m)) # 0
    BY <1>1, <2>1, FS_EmptySet
  <2>3. Cardinality(OpenJobs(m) \ {h}) = Cardinality(OpenJobs(m)) - 1
    BY <1>1, <2>1, FS_RemoveElement
  <2>4. Cardinality(OpenJobs(m)') = Cardinality(OpenJobs(m)) - 1
    BY <2>1, <2>3
  <2> QED BY <1>1, <1>3, <2>2, <2>4
<1>4. CASE Open(r, m) /\ ~Open(hand[h], m)
  <2>1. OpenJobs(m)' = OpenJobs(m) \cup {h} /\ h \notin OpenJobs(m)
    BY <1>2, <1>4 DEF OpenJobs
  <2>2. Cardinality(OpenJobs(m) \cup {h}) = Cardinality(OpenJobs(m)) + 1
    BY <1>1, <2>1, FS_AddElement
  <2>3. Cardinality(OpenJobs(m)') = Cardinality(OpenJobs(m)) + 1
    BY <2>1, <2>2
  <2> QED BY <1>1, <1>4, <2>3
<1>5. CASE Open(r, m) <=> Open(hand[h], m)
  <2>1. OpenJobs(m)' = OpenJobs(m)
    BY <1>2, <1>5 DEF OpenJobs
  <2> QED BY <1>1, <1>5, <2>1
<1> QED BY <1>3, <1>4, <1>5

LEMMA InboxBegins == WhatsappInboxInit => InbInv
<1> SUFFICES ASSUME WhatsappInboxInit PROVE InbInv
  OBVIOUS
<1>1. WhatsappInboxTypeOK
  BY FreeTypes DEF WhatsappInboxInit, WhatsappInboxTypeOK, EntryStatuses, HandType
<1>2. InbTypes
  BY <1>1, FreeTypes DEF WhatsappInboxInit, InbTypes, ConvType
<1>3. PersonInv
  BY FreeTypes DEF WhatsappInboxInit, PersonInv
<1>4. OpenMessageHasCarrier
  BY DEF WhatsappInboxInit, OpenMessageHasCarrier
<1>5. ASSUME NEW m \in Msgs PROVE OneWorks(m)
  <2>1. \A h \in Hands : ~Works(h, m)
    BY FreeTypes DEF WhatsappInboxInit, Works
  <2> QED BY <2>1 DEF WhatsappInboxInit, OneWorks, Spoken
<1>6. ASSUME NEW m \in Msgs PROVE PerDelivery(m)
  <2>1. OpenJobs(m) = {}
    BY FreeTypes DEF WhatsappInboxInit, OpenJobs, Open
  <2>2. Cardinality(OpenJobs(m)) = 0
    BY <2>1, FS_EmptySet
  <2> QED BY <2>2 DEF WhatsappInboxInit, PerDelivery
<1> QED BY <1>2, <1>3, <1>4, <1>5, <1>6 DEF InbInv

\* A hand goes on with its message, and answers it perhaps.
LEMMA HandGoesOn ==
    ASSUME InbInv, NEW h \in Hands, NEW r \in HandType, hand' = [hand EXCEPT ![h] = r],
           hand[h].pc \notin {"idle", "claim"}, r.pc \notin {"idle", "claim"},
           r.msg = hand[h].msg, HandOK(r, cleared'),
           \/ r.sent = hand[h].sent /\ replies' = replies
           \/ r.sent /\ ~hand[h].sent /\ replies' = [replies EXCEPT ![r.msg] = @ + 1],
           UNCHANGED <<queueVars, repeats, person>>,
           conv' \in ConvType, cleared => cleared', ~cleared' => ~spoke',
           person /\ ~cleared' => conv'.pause = "yes"
    PROVE  InbInv'
<1>1. /\ hand \in [Hands -> HandType] /\ r.msg \in Msgs /\ r.sent \in BOOLEAN
      /\ hand[h].sent \in BOOLEAN /\ replies \in [Msgs -> Nat]
  BY InbTyped DEF HandType
<1>2. /\ hand' \in [Hands -> HandType] /\ replies' \in [Msgs -> Nat]
      /\ hand'[h] = r /\ \A g \in Hands \ {h} : hand'[g] = hand[g]
      /\ \A m \in Msgs \ {r.msg} : replies'[m] = replies[m]
      /\ \/ r.sent = hand[h].sent /\ replies'[r.msg] = replies[r.msg]
         \/ r.sent /\ ~hand[h].sent /\ replies'[r.msg] = replies[r.msg] + 1
  BY <1>1
<1>3. InbTypes'
  BY <1>2 DEF InbInv, InbTypes, WhatsappInboxTypeOK, queueVars, HandType, ConvType
<1>4. PersonInv'
  BY <1>2 DEF InbInv, PersonInv, HandOK
<1>5. \A g \in Hands, m \in Msgs : Works(g, m)' <=> Works(g, m)
  BY <1>2 DEF Works
<1>6. OpenMessageHasCarrier'
  BY <1>2, <1>5 DEF InbInv, OpenMessageHasCarrier, queueVars
<1>7. ASSUME NEW m \in Msgs, OnEvolution(m) PROVE OneWorks(m)'
  <2>1. OneWorks(m) /\ entry' = entry /\ repeats' = repeats
    BY <1>7 DEF InbInv, queueVars
  <2>2. CASE m # r.msg
    <3>1. Spoken(m)' <=> Spoken(m)
      BY <1>1, <1>2, <1>5, <2>1, <2>2 DEF Spoken, Works
    <3> QED BY <1>2, <1>5, <2>1, <2>2, <3>1 DEF OneWorks
  <2>3. CASE m = r.msg
    <3>1. Works(h, m) /\ Works(h, m)'
      BY <1>2, <2>3 DEF Works
    <3>2. /\ entry[m] = "processing" /\ (Spoken(m) <=> hand[h].sent)
          /\ (Spoken(m)' <=> r.sent)
      BY <1>2, <1>5, <2>1, <3>1 DEF OneWorks, Spoken
    <3>3. replies'[m] <= repeats'[m] + (IF r.sent THEN 1 ELSE 0)
      BY <1>1, <1>2, <2>1, <2>3, <3>2, InbTyped DEF OneWorks
    <3> QED BY <1>5, <2>1, <3>2, <3>3 DEF OneWorks
  <2> QED BY <2>2, <2>3
<1>8. ASSUME NEW m \in Msgs, ~OnEvolution(m) PROVE PerDelivery(m)'
  <2>1. PerDelivery(m) /\ waiting' = waiting /\ delivered' = delivered
    BY <1>8 DEF InbInv, queueVars
  <2>2. /\ waiting[m] \in Nat /\ delivered[m] \in Nat /\ replies[m] \in Nat
        /\ Cardinality(OpenJobs(m)) \in Nat
    BY InbTyped, OpenJobsCounted
  <2>3. CASE m = r.msg /\ r.sent /\ ~hand[h].sent /\ replies'[m] = replies[m] + 1
    <3>1. Open(hand[h], m) /\ ~Open(r, m)
      BY <2>3 DEF Open
    <3>2. Cardinality(OpenJobs(m)') = Cardinality(OpenJobs(m)) - 1
      BY <1>1, <3>1, OpenJobsChange
    <3> QED BY <2>1, <2>2, <2>3, <3>2 DEF PerDelivery
  <2>4. CASE (m = r.msg => r.sent = hand[h].sent) /\ replies'[m] = replies[m]
    <3>1. Open(hand[h], m) <=> Open(r, m)
      BY <2>4 DEF Open
    <3>2. Cardinality(OpenJobs(m)') = Cardinality(OpenJobs(m))
      BY <1>1, <3>1, OpenJobsChange
    <3> QED BY <2>1, <2>4, <3>2 DEF PerDelivery
  <2> QED BY <1>2, <2>3, <2>4
<1> QED BY <1>3, <1>4, <1>6, <1>7, <1>8 DEF InbInv

\* A hand is done with its message: finished, failed, or too late to claim it.
LEMMA HandIsFreed ==
    ASSUME InbInv, NEW h \in Hands, hand' = [hand EXCEPT ![h] = Free],
           hand[h].pc # "idle",
           entry' \in [Msgs -> EntryStatuses], repeats' \in [Msgs -> Nat],
           \A m \in Msgs \ {hand[h].msg} : entry'[m] = entry[m] /\ repeats'[m] = repeats[m],
           dropped \subseteq dropped', left \subseteq left',
           UNCHANGED <<posting, waiting, delivered, conv, person, cleared, replies, spoke>>,
           repeats'[hand[h].msg] >= repeats[hand[h].msg],
           OnEvolution(hand[h].msg) =>
             LET m == hand[h].msg
             IN  /\ hand[h].sent => \/ repeats'[m] > repeats[m]
                                    \/ entry'[m] = "processed"
                 /\ hand[h].pc = "claim" => entry' = entry
                 /\ entry'[m] = "pending" => m \in dropped'
                 /\ entry'[m] = "processing" => m \in left' \/ hand[h].pc = "claim"
    PROVE  InbInv'
<1> DEFINE m0 == hand[h].msg
<1>1. hand \in [Hands -> HandType] /\ m0 \in Msgs /\ HandOK(hand[h], cleared)
  BY InbTyped
<1>2. /\ hand' \in [Hands -> HandType] /\ hand'[h] = Free
      /\ \A g \in Hands \ {h} : hand'[g] = hand[g]
  BY <1>1, FreeTypes
<1>3. InbTypes'
  BY <1>2 DEF InbInv, InbTypes, WhatsappInboxTypeOK, HandType
<1>4. PersonInv'
  BY <1>2, FreeTypes DEF InbInv, PersonInv
<1>5. /\ \A m \in Msgs : ~Works(h, m)'
      /\ \A g \in Hands \ {h}, m \in Msgs : Works(g, m)' <=> Works(g, m)
  BY <1>2, FreeTypes DEF Works
<1>6. ASSUME NEW m \in Msgs, OnEvolution(m) PROVE OneWorks(m)'
  <2>1. OneWorks(m) /\ replies' = replies
    BY <1>6 DEF InbInv
  <2>2. CASE m # m0
    <3>1. entry'[m] = entry[m] /\ repeats'[m] = repeats[m] /\ ~Works(h, m)
      BY <2>2 DEF Works
    <3>2. Spoken(m)' <=> Spoken(m)
      BY <1>2, <1>5, <3>1 DEF Spoken
    <3> QED BY <1>5, <2>1, <3>1, <3>2 DEF OneWorks
  <2>3. CASE m = m0 /\ hand[h].pc = "claim"
    <3>1. entry' = entry /\ ~Works(h, m) /\ ~hand[h].sent
      BY <1>1, <1>6, <2>3 DEF Works, HandOK
    <3>2. Spoken(m)' <=> Spoken(m)
      BY <1>2, <1>5, <3>1 DEF Spoken
    <3>3. repeats'[m] >= repeats[m]
      BY <2>3
    <3>4. replies'[m] <= repeats'[m] + (IF Spoken(m)' THEN 1 ELSE 0)
      BY <1>3, <2>1, <3>2, <3>3, InbTyped DEF OneWorks
    <3> QED BY <1>5, <2>1, <3>1, <3>4 DEF OneWorks
  <2>4. CASE m = m0 /\ hand[h].pc # "claim"
    <3>1. Works(h, m)
      BY <2>4 DEF Works
    <3>2. entry[m] = "processing" /\ \A g \in Hands \ {h} : ~Works(g, m)
      BY <2>1, <3>1 DEF OneWorks
    <3>3. Spoken(m) <=> hand[h].sent
      BY <3>1, <3>2 DEF Spoken
    <3>4. \A g \in Hands : ~Works(g, m)'
      BY <1>5, <3>2
    <3>5. replies[m] <= repeats[m] + (IF hand[h].sent THEN 1 ELSE 0)
      BY <2>1, <3>3 DEF OneWorks
    <3>6. /\ repeats'[m] >= repeats[m]
          /\ hand[h].sent => repeats'[m] > repeats[m] \/ Spoken(m)'
          /\ replies[m] \in Nat /\ repeats[m] \in Nat /\ repeats'[m] \in Nat
      BY <1>6, <2>4, InbTyped DEF Spoken
    <3>7. replies'[m] <= repeats'[m] + (IF Spoken(m)' THEN 1 ELSE 0)
      BY <2>1, <3>5, <3>6
    <3> QED BY <3>4, <3>7 DEF OneWorks
  <2> QED BY <2>2, <2>3, <2>4
<1>7. ASSUME NEW m \in Msgs, ~OnEvolution(m) PROVE PerDelivery(m)'
  <2>1. /\ PerDelivery(m) /\ waiting' = waiting /\ delivered' = delivered
        /\ replies' = replies
    BY <1>7 DEF InbInv
  <2>2. /\ waiting[m] \in Nat /\ delivered[m] \in Nat /\ replies[m] \in Nat
        /\ Cardinality(OpenJobs(m)) \in Nat
    BY InbTyped, OpenJobsCounted
  <2>3. ~Open(Free, m)
    BY FreeTypes DEF Open
  <2>4. CASE Open(hand[h], m)
    <3>1. Cardinality(OpenJobs(m)') = Cardinality(OpenJobs(m)) - 1
      BY <1>1, <2>3, <2>4, FreeTypes, OpenJobsChange
    <3> QED BY <2>1, <2>2, <3>1 DEF PerDelivery
  <2>5. CASE ~Open(hand[h], m)
    <3>1. Cardinality(OpenJobs(m)') = Cardinality(OpenJobs(m))
      BY <1>1, <2>3, <2>5, FreeTypes, OpenJobsChange
    <3> QED BY <2>1, <3>1 DEF PerDelivery
  <2> QED BY <2>4, <2>5
<1>8. ASSUME NEW m \in Msgs, OnEvolution(m), entry'[m] = "pending"
      PROVE  \/ m \in posting' \cup dropped' \/ waiting'[m] > 0
             \/ \E g \in Hands : hand'[g].msg = m /\ hand'[g].pc = "claim"
  <2>1. CASE m = m0
    BY <1>8, <2>1
  <2>2. CASE m # m0
    <3>1. \/ m \in posting \cup dropped \/ waiting[m] > 0
          \/ \E g \in Hands : hand[g].msg = m /\ hand[g].pc = "claim"
      BY <1>8, <2>2 DEF InbInv, OpenMessageHasCarrier
    <3> QED BY <1>2, <2>2, <3>1
  <2> QED BY <2>1, <2>2
<1>9. ASSUME NEW m \in Msgs, OnEvolution(m), entry'[m] = "processing"
      PROVE  m \in left' \/ \E g \in Hands : Works(g, m)'
  <2>1. CASE m = m0 /\ hand[h].pc # "claim"
    BY <1>9, <2>1
  <2>2. CASE m # m0 \/ hand[h].pc = "claim"
    <3>1. entry[m] = "processing" /\ ~Works(h, m)
      BY <1>9, <2>2 DEF Works
    <3>2. m \in left \/ \E g \in Hands : Works(g, m)
      BY <1>9, <3>1 DEF InbInv, OpenMessageHasCarrier
    <3> QED BY <1>5, <3>1, <3>2
  <2> QED BY <2>1, <2>2
<1>10. OpenMessageHasCarrier'
  BY <1>8, <1>9 DEF OpenMessageHasCarrier, Works
<1> QED BY <1>3, <1>4, <1>6, <1>7, <1>10 DEF InbInv

\* A job is taken from the queue.
LEMMA JobStarts == ASSUME InbInv, NEW h \in Hands, NEW m0 \in Msgs, Start(h, m0) PROVE InbInv'
<1> DEFINE r == [Free EXCEPT !.msg = m0,
                             !.pc = IF ~OnEvolution(m0) THEN "upsert"
                                    ELSE IF entry[m0] = "processed" THEN "idle" ELSE "claim"]
<1>1. /\ r \in HandType /\ r.msg = m0 /\ ~r.sent /\ ~r.during
      /\ r.pc = IF ~OnEvolution(m0) THEN "upsert"
                ELSE IF entry[m0] = "processed" THEN "idle" ELSE "claim"
  BY FreeTypes DEF HandType, HandPcs
<1>2. /\ hand' = [hand EXCEPT ![h] = r] /\ hand[h].pc = "idle" /\ waiting[m0] > 0
      /\ waiting' = [waiting EXCEPT ![m0] = @ - 1]
      /\ UNCHANGED <<entry, posting, delivered, dropped, left, conv, person, cleared,
                     replies, repeats, spoke>>
  BY DEF Start, inboxConvVars, countVars
<1> HIDE DEF r
<1>3. /\ hand \in [Hands -> HandType] /\ hand' \in [Hands -> HandType] /\ hand'[h] = r
      /\ \A g \in Hands \ {h} : hand'[g] = hand[g]
      /\ waiting' \in [Msgs -> Nat] /\ waiting'[m0] = waiting[m0] - 1
      /\ \A m \in Msgs \ {m0} : waiting'[m] = waiting[m]
  BY <1>1, <1>2, InbTyped
<1>11. hand \in [Hands -> HandType] /\ r \in HandType /\ hand' = [hand EXCEPT ![h] = r]
  BY <1>1, <1>2, <1>3
<1>4. InbTypes'
  BY <1>2, <1>3 DEF InbInv, InbTypes, WhatsappInboxTypeOK, HandType
<1>5. PersonInv'
  BY <1>1, <1>2, <1>3 DEF InbInv, PersonInv, HandOK
<1>6. ASSUME NEW m \in Msgs, OnEvolution(m) PROVE OneWorks(m)'
  <2>1. OneWorks(m)
    BY <1>6 DEF InbInv
  <2>2. ~Works(h, m) /\ ~Works(h, m)'
    BY <1>1, <1>2, <1>3, <1>6 DEF Works
  <2>3. \A g \in Hands : Works(g, m)' <=> Works(g, m)
    BY <1>3, <2>2 DEF Works
  <2>4. Spoken(m)' <=> Spoken(m)
    BY <1>2, <1>3, <2>2, <2>3 DEF Spoken
  <2> QED BY <1>2, <2>1, <2>3, <2>4 DEF OneWorks
<1>7. ASSUME NEW m \in Msgs, ~OnEvolution(m) PROVE PerDelivery(m)'
  <2>1. PerDelivery(m)
    BY <1>7 DEF InbInv
  <2>2. /\ waiting[m] \in Nat /\ delivered[m] \in Nat /\ replies[m] \in Nat
        /\ Cardinality(OpenJobs(m)) \in Nat /\ ~Open(hand[h], m)
    BY <1>2, InbTyped, OpenJobsCounted DEF Open
  <2>3. CASE m = m0
    <3>1. Open(r, m)
      BY <1>1, <1>7, <2>3 DEF Open
    <3>2. Cardinality(OpenJobs(m)') = Cardinality(OpenJobs(m)) + 1
      BY <1>11, <2>2, <3>1, OpenJobsChange
    <3> QED BY <1>2, <1>3, <2>1, <2>2, <2>3, <3>2 DEF PerDelivery
  <2>4. CASE m # m0
    <3>1. ~Open(r, m)
      BY <1>1, <2>4 DEF Open
    <3>2. Cardinality(OpenJobs(m)') = Cardinality(OpenJobs(m))
      BY <1>11, <2>2, <3>1, OpenJobsChange
    <3> QED BY <1>2, <1>3, <2>1, <2>4, <3>2 DEF PerDelivery
  <2> QED BY <2>3, <2>4
<1>8. ASSUME NEW m \in Msgs, OnEvolution(m), entry'[m] = "pending"
      PROVE  \/ m \in posting' \cup dropped' \/ waiting'[m] > 0
             \/ \E g \in Hands : hand'[g].msg = m /\ hand'[g].pc = "claim"
  <2>1. CASE m = m0
    BY <1>1, <1>2, <1>3, <1>8, <2>1
  <2>2. CASE m # m0
    <3>1. \/ m \in posting \cup dropped \/ waiting[m] > 0
          \/ \E g \in Hands : hand[g].msg = m /\ hand[g].pc = "claim"
      BY <1>2, <1>8 DEF InbInv, OpenMessageHasCarrier
    <3> QED BY <1>2, <1>3, <2>2, <3>1
  <2> QED BY <2>1, <2>2
<1>9. ASSUME NEW m \in Msgs, OnEvolution(m), entry'[m] = "processing"
      PROVE  m \in left' \/ \E g \in Hands : Works(g, m)'
  BY <1>2, <1>3, <1>9 DEF InbInv, OpenMessageHasCarrier, Works
<1>10. OpenMessageHasCarrier'
  BY <1>8, <1>9 DEF OpenMessageHasCarrier, Works
<1> QED BY <1>4, <1>5, <1>6, <1>7, <1>10 DEF InbInv

\* A pending or failed message is claimed.
LEMMA MessageIsClaimed ==
    ASSUME InbInv, NEW h \in Hands, ClaimMessage(h),
           entry[hand[h].msg] \in {"pending", "failed"}
    PROVE  InbInv'
<1> DEFINE m0 == hand[h].msg
           r == [hand[h] EXCEPT !.pc = "upsert"]
<1>1. /\ hand \in [Hands -> HandType] /\ hand[h] \in HandType /\ m0 \in Msgs
      /\ hand[h].pc = "claim" /\ OnEvolution(m0) /\ ~hand[h].sent
      /\ ~(hand[h].during /\ ~cleared)
  BY InbTyped DEF ClaimMessage, HandOK
<1>2. /\ r \in HandType /\ r.msg = m0 /\ r.pc = "upsert" /\ ~r.sent /\ r.during = hand[h].during
  BY <1>1 DEF HandType, HandPcs
<1>3. /\ hand' = [hand EXCEPT ![h] = r] /\ entry' = [entry EXCEPT ![m0] = "processing"]
      /\ UNCHANGED <<posting, waiting, delivered, dropped, left, conv, person, cleared,
                     replies, repeats, spoke>>
  BY <1>1 DEF ClaimMessage, Step, inboxConvVars, countVars
<1> HIDE DEF r, m0
<1>4. /\ hand' \in [Hands -> HandType] /\ hand'[h] = r
      /\ \A g \in Hands \ {h} : hand'[g] = hand[g]
      /\ entry' \in [Msgs -> EntryStatuses] /\ entry'[m0] = "processing"
      /\ \A m \in Msgs \ {m0} : entry'[m] = entry[m]
      /\ entry[m0] \in {"pending", "failed"}
  BY <1>1, <1>2, <1>3, InbTyped DEF EntryStatuses, m0
<1>5. InbTypes'
  BY <1>3, <1>4 DEF InbInv, InbTypes, WhatsappInboxTypeOK, HandType
<1>6. PersonInv'
  BY <1>1, <1>2, <1>3, <1>4 DEF InbInv, PersonInv, HandOK
<1>7. ASSUME NEW m \in Msgs, OnEvolution(m) PROVE OneWorks(m)'
  <2>1. OneWorks(m)
    BY <1>7 DEF InbInv
  <2>2. CASE m = m0
    <3>1. \A g \in Hands : ~Works(g, m)
      BY <1>4, <2>1, <2>2 DEF OneWorks
    <3>2. \A g \in Hands : Works(g, m)' => g = h
      BY <1>4, <3>1 DEF Works
    <3>3. ~Spoken(m)
      BY <1>4, <2>2, <3>1 DEF Spoken
    <3>4. replies'[m] <= repeats'[m]
      BY <1>3, <2>1, <3>3, InbTyped DEF OneWorks
    <3>5. replies'[m] <= repeats'[m] + (IF Spoken(m)' THEN 1 ELSE 0)
      BY <1>3, <3>4, InbTyped
    <3> QED BY <1>4, <2>2, <3>2, <3>5 DEF OneWorks
  <2>3. CASE m # m0
    <3>1. ~Works(h, m) /\ ~Works(h, m)'
      BY <1>2, <1>4, <2>3 DEF Works, m0
    <3>2. \A g \in Hands : Works(g, m)' <=> Works(g, m)
      BY <1>4, <3>1 DEF Works
    <3>3. Spoken(m)' <=> Spoken(m)
      BY <1>4, <2>3, <3>1, <3>2 DEF Spoken
    <3> QED BY <1>3, <1>4, <2>1, <2>3, <3>2, <3>3 DEF OneWorks
  <2> QED BY <2>2, <2>3
<1>8. ASSUME NEW m \in Msgs, ~OnEvolution(m) PROVE PerDelivery(m)'
  <2>1. PerDelivery(m) /\ ~Open(hand[h], m) /\ ~Open(r, m)
    BY <1>1, <1>2, <1>8 DEF InbInv, Open, m0
  <2>2. Cardinality(OpenJobs(m)') = Cardinality(OpenJobs(m))
    BY <1>1, <1>2, <1>3, <2>1, OpenJobsChange
  <2> QED BY <1>3, <2>1, <2>2 DEF PerDelivery
<1>9. ASSUME NEW m \in Msgs, OnEvolution(m), entry'[m] = "pending"
      PROVE  \/ m \in posting' \cup dropped' \/ waiting'[m] > 0
             \/ \E g \in Hands : hand'[g].msg = m /\ hand'[g].pc = "claim"
  <2>1. m # m0 /\ entry[m] = "pending"
    BY <1>4, <1>9
  <2>2. \/ m \in posting \cup dropped \/ waiting[m] > 0
        \/ \E g \in Hands : hand[g].msg = m /\ hand[g].pc = "claim"
    BY <1>9, <2>1 DEF InbInv, OpenMessageHasCarrier
  <2> QED BY <1>3, <1>4, <2>1, <2>2 DEF m0
<1>10. ASSUME NEW m \in Msgs, OnEvolution(m), entry'[m] = "processing"
       PROVE  m \in left' \/ \E g \in Hands : Works(g, m)'
  <2>1. CASE m = m0
    BY <1>2, <1>4, <2>1 DEF Works
  <2>2. CASE m # m0
    <3>1. m \in left \/ \E g \in Hands : Works(g, m)
      BY <1>4, <1>10, <2>2 DEF InbInv, OpenMessageHasCarrier
    <3> QED BY <1>3, <1>4, <2>2, <3>1 DEF Works, m0
  <2> QED BY <2>1, <2>2
<1>11. OpenMessageHasCarrier'
  BY <1>9, <1>10 DEF OpenMessageHasCarrier, Works
<1> QED BY <1>5, <1>6, <1>7, <1>8, <1>11 DEF InbInv

\* What is stored and queued changes, or people pause and resume: no hand moves.
LEMMA HandsRest ==
    ASSUME InbInv, UNCHANGED <<hand, cleared, replies, repeats, spoke, dropped, left>>,
           conv' \in ConvType, person' \in BOOLEAN,
           person' /\ ~cleared => conv'.pause = "yes",
           entry' \in [Msgs -> EntryStatuses], posting' \subseteq Msgs,
           waiting' \in [Msgs -> Nat], delivered' \in [Msgs -> Nat],
           \A m \in posting' : OnEvolution(m),
           \A m \in Msgs : \/ entry'[m] = entry[m]
                           \/ entry[m] = "none" /\ entry'[m] = "pending" /\ m \in posting',
           \A m \in Msgs : m \in posting \/ waiting[m] > 0 => m \in posting' \/ waiting'[m] > 0,
           \A m \in Msgs : ~OnEvolution(m) =>
                waiting'[m] + delivered[m] = waiting[m] + delivered'[m]
    PROVE  InbInv'
<1>1. InbTypes'
  BY DEF InbInv, InbTypes, WhatsappInboxTypeOK, ConvType
<1>2. PersonInv'
  BY DEF InbInv, PersonInv
<1>3. \A h \in Hands, m \in Msgs : Works(h, m)' <=> Works(h, m)
  BY DEF Works
<1>4. OpenMessageHasCarrier'
  BY <1>3 DEF InbInv, OpenMessageHasCarrier
<1>5. ASSUME NEW m \in Msgs, OnEvolution(m) PROVE OneWorks(m)'
  <2>1. OneWorks(m)
    BY <1>5 DEF InbInv
  <2>2. CASE entry'[m] = entry[m]
    <3>1. Spoken(m)' <=> Spoken(m)
      BY <1>3, <2>2 DEF Spoken
    <3> QED BY <1>3, <2>1, <2>2, <3>1 DEF OneWorks
  <2>3. CASE entry[m] = "none" /\ entry'[m] = "pending"
    <3>1. \A h \in Hands : ~Works(h, m) /\ ~Works(h, m)'
      BY <1>3, <2>1, <2>3 DEF OneWorks
    <3>2. ~Spoken(m) /\ ~Spoken(m)'
      BY <2>3, <3>1 DEF Spoken
    <3> QED BY <2>1, <3>1, <3>2 DEF OneWorks
  <2> QED BY <2>2, <2>3
<1>6. ASSUME NEW m \in Msgs, ~OnEvolution(m) PROVE PerDelivery(m)'
  <2>1. PerDelivery(m) /\ OpenJobs(m)' = OpenJobs(m)
    BY <1>6 DEF InbInv, OpenJobs
  <2>2. /\ waiting[m] \in Nat /\ delivered[m] \in Nat /\ replies[m] \in Nat
        /\ waiting'[m] \in Nat /\ delivered'[m] \in Nat
        /\ Cardinality(OpenJobs(m)) \in Nat
    BY InbTyped, OpenJobsCounted
  <2>3. waiting'[m] + delivered[m] = waiting[m] + delivered'[m]
    BY <1>6
  <2> QED BY <2>1, <2>2, <2>3 DEF PerDelivery
<1> QED BY <1>1, <1>2, <1>4, <1>5, <1>6 DEF InbInv

LEMMA MessageIsStored ==
    ASSUME InbInv, NEW m \in Msgs,
           DeliverEvolution(m) \/ DeliverMeta(m) \/ Enqueue(m)
    PROVE  InbInv'
<1>1. /\ conv \in ConvType /\ (person /\ ~cleared => conv.pause = "yes")
      /\ \A n \in posting : OnEvolution(n)
      /\ person \in BOOLEAN
  BY DEF InbInv, InbTypes, PersonInv
<1>2. CASE DeliverEvolution(m)
  <2>1. /\ UNCHANGED <<hand, cleared, replies, repeats, spoke, dropped, left, conv, person,
                       waiting>>
        /\ delivered' = [delivered EXCEPT ![m] = @ + 1] /\ OnEvolution(m)
        /\ \/ entry' = entry /\ posting' = posting
           \/ entry[m] = "none" /\ entry' = [entry EXCEPT ![m] = "pending"]
              /\ posting' = posting \cup {m}
    BY <1>2 DEF DeliverEvolution, inboxConvVars, countVars
  <2>2. /\ delivered' \in [Msgs -> Nat]
        /\ \A n \in Msgs : ~OnEvolution(n) => delivered'[n] = delivered[n]
        /\ \A n \in Msgs : ~OnEvolution(n) =>
             waiting'[n] + delivered[n] = waiting[n] + delivered'[n]
    BY <2>1, InbTyped
  <2>3. /\ entry' \in [Msgs -> EntryStatuses]
        /\ \A n \in Msgs : \/ entry'[n] = entry[n]
                           \/ entry[n] = "none" /\ entry'[n] = "pending" /\ n \in posting'
    BY <2>1, InbTyped DEF EntryStatuses
  <2> QED BY <1>1, <2>1, <2>2, <2>3, InbTyped, HandsRest
<1>3. CASE DeliverMeta(m)
  <2>1. /\ UNCHANGED <<hand, cleared, replies, repeats, spoke, dropped, left, conv, person,
                       entry, posting>>
        /\ delivered' = [delivered EXCEPT ![m] = @ + 1]
        /\ waiting' = [waiting EXCEPT ![m] = @ + 1]
    BY <1>3 DEF DeliverMeta, inboxConvVars, countVars
  <2>2. /\ delivered' \in [Msgs -> Nat] /\ waiting' \in [Msgs -> Nat]
        /\ \A n \in Msgs : /\ waiting'[n] >= waiting[n]
                           /\ waiting'[n] + delivered[n] = waiting[n] + delivered'[n]
    BY <2>1, InbTyped
  <2>3. \A n \in Msgs : waiting[n] > 0 => waiting'[n] > 0
    BY <2>2, InbTyped
  <2> QED BY <1>1, <2>1, <2>2, <2>3, InbTyped, HandsRest
<1>4. CASE Enqueue(m)
  <2>1. /\ UNCHANGED <<hand, cleared, replies, repeats, spoke, dropped, left, conv, person,
                       entry, delivered>>
        /\ OnEvolution(m) /\ posting' = posting \ {m}
        /\ waiting' = [waiting EXCEPT ![m] = 1]
    BY <1>1, <1>4 DEF Enqueue, inboxConvVars, countVars
  <2>2. /\ waiting' \in [Msgs -> Nat] /\ waiting'[m] = 1
        /\ \A n \in Msgs \ {m} : waiting'[n] = waiting[n]
        /\ posting' \subseteq Msgs
    BY <2>1, InbTyped
  <2>3. \A n \in Msgs : ~OnEvolution(n) => waiting'[n] = waiting[n]
    BY <2>1, <2>2
  <2>4. \A n \in Msgs : ~OnEvolution(n) =>
          waiting'[n] + delivered[n] = waiting[n] + delivered'[n]
    BY <2>1, <2>3
  <2>5. \A n \in Msgs : n \in posting \/ waiting[n] > 0 => n \in posting' \/ waiting'[n] > 0
    BY <2>1, <2>2
  <2> QED BY <1>1, <2>1, <2>2, <2>4, <2>5, InbTyped, HandsRest
<1> QED BY <1>2, <1>3, <1>4

LEMMA PersonActs ==
    ASSUME InbInv, PersonPauses \/ PersonResumes \/ PauseExpires PROVE InbInv'
<1>1. conv \in ConvType /\ \A m \in posting : OnEvolution(m)
  BY DEF InbInv, InbTypes
<1>2. /\ UNCHANGED <<hand, cleared, replies, repeats, spoke, dropped, left, entry, posting,
                     waiting, delivered>>
      /\ \/ person' = TRUE /\ conv' = [pause |-> "yes", status |-> "human"]
         \/ person' = FALSE /\ conv' = [pause |-> "no", status |-> "waiting"]
         \/ person' = FALSE /\ conv' = [conv EXCEPT !.pause = "expired"]
  BY DEF PersonPauses, PersonResumes, PauseExpires, queueVars, countVars
<1>3. \A m \in Msgs : waiting'[m] + delivered[m] = waiting[m] + delivered'[m]
  BY <1>2
<1>4. conv' \in ConvType /\ person' \in BOOLEAN
  <2>1. CASE conv' = [conv EXCEPT !.pause = "expired"] /\ person' = FALSE
    BY <1>1, <2>1 DEF ConvType
  <2>2. CASE person' = TRUE /\ conv' = [pause |-> "yes", status |-> "human"]
    BY <2>2 DEF ConvType
  <2>3. CASE person' = FALSE /\ conv' = [pause |-> "no", status |-> "waiting"]
    BY <2>3 DEF ConvType
  <2> QED BY <1>2, <2>1, <2>2, <2>3
<1>5. person' /\ ~cleared => conv'.pause = "yes"
  BY <1>2
<1> QED BY <1>1, <1>2, <1>3, <1>4, <1>5, InbTyped, HandsRest

\* What a hand that stops counts for its message.
LEMMA RepeatCounted ==
    ASSUME InbInv, NEW hs \in SUBSET Hands
    PROVE  /\ Repeats(hs) \in [Msgs -> Nat]
           /\ \A m \in Msgs : Repeats(hs)[m] >= repeats[m]
           /\ \A h \in hs : hand[h].pc # "idle" /\ hand[h].sent =>
                Repeats(hs)[hand[h].msg] > repeats[hand[h].msg]
           /\ \A m \in Msgs : (\A h \in hs : hand[h].msg # m) => Repeats(hs)[m] = repeats[m]
<1> DEFINE cut(m) == {h \in hs : hand[h].msg = m /\ hand[h].pc # "idle" /\ hand[h].sent}
<1>1. ASSUME NEW m \in Msgs PROVE IsFiniteSet(cut(m)) /\ Cardinality(cut(m)) \in Nat
  <2>1. cut(m) \subseteq Hands
    OBVIOUS
  <2> QED BY <2>1, WhatsappInboxAssumption, FS_Subset, FS_CardinalityType
<1>2. Repeats(hs) = [m \in Msgs |-> repeats[m] + Cardinality(cut(m))]
  BY DEF Repeats
<1>3. ASSUME NEW m \in Msgs PROVE cut(m) # {} => Cardinality(cut(m)) # 0
  BY <1>1, FS_EmptySet
<1>4. ASSUME NEW m \in Msgs PROVE cut(m) = {} => Cardinality(cut(m)) = 0
  BY FS_EmptySet
<1>5. \A h \in hs : hand[h].pc # "idle" /\ hand[h].sent => cut(hand[h].msg) # {}
  OBVIOUS
<1>6. \A m \in Msgs : (\A h \in hs : hand[h].msg # m) => cut(m) = {}
  OBVIOUS
<1>7. \A h \in hs : hand[h].msg \in Msgs
  BY InbTyped
<1>8. \A m \in Msgs : repeats[m] \in Nat /\ Cardinality(cut(m)) \in Nat
  BY <1>1, InbTyped
<1> HIDE DEF cut
<1> QED BY <1>2, <1>3, <1>4, <1>5, <1>6, <1>7, <1>8

LEMMA ClaimIsLate ==
    ASSUME InbInv, NEW h \in Hands, ClaimMessage(h),
           entry[hand[h].msg] \notin {"pending", "failed"}
    PROVE  InbInv'
<1>1. /\ hand' = [hand EXCEPT ![h] = Free] /\ hand[h].pc = "claim" /\ ~hand[h].sent
      /\ entry' = entry /\ hand[h].msg \in Msgs
      /\ UNCHANGED <<posting, waiting, delivered, dropped, left, conv, person, cleared,
                     replies, repeats, spoke>>
  BY InbTyped DEF ClaimMessage, HandOK, inboxConvVars, countVars
<1>2. repeats'[hand[h].msg] >= repeats[hand[h].msg]
  BY <1>1, InbTyped
<1> QED BY <1>1, <1>2, InbTyped, HandIsFreed

LEMMA MessageIsFinished == ASSUME InbInv, NEW h \in Hands, Finish(h) PROVE InbInv'
<1> DEFINE m0 == hand[h].msg
<1>1. /\ hand' = [hand EXCEPT ![h] = Free] /\ hand[h].pc = "finish" /\ m0 \in Msgs
      /\ UNCHANGED <<posting, waiting, delivered, dropped, left, conv, person, cleared,
                     replies, repeats, spoke>>
  BY InbTyped DEF Finish, inboxConvVars, countVars
<1>2. /\ entry' \in [Msgs -> EntryStatuses] /\ (OnEvolution(m0) => entry'[m0] = "processed")
      /\ \A m \in Msgs \ {m0} : entry'[m] = entry[m]
  BY <1>1, InbTyped DEF Finish, EntryStatuses
<1>3. repeats'[m0] >= repeats[m0]
  BY <1>1, InbTyped
<1> QED BY <1>1, <1>2, <1>3, InbTyped, HandIsFreed

LEMMA HandFails == ASSUME InbInv, NEW h \in Hands, Fail(h) PROVE InbInv'
<1> DEFINE m0 == hand[h].msg
<1>1. /\ hand' = [hand EXCEPT ![h] = Free] /\ hand[h].pc # "idle" /\ m0 \in Msgs
      /\ repeats' = Repeats({h})
      /\ UNCHANGED <<posting, waiting, delivered, conv, person, cleared, replies, spoke>>
  BY InbTyped DEF Fail, inboxConvVars
<1>2. /\ repeats' \in [Msgs -> Nat] /\ repeats'[m0] >= repeats[m0]
      /\ hand[h].sent => repeats'[m0] > repeats[m0]
      /\ \A m \in Msgs \ {m0} : repeats'[m] = repeats[m]
  BY <1>1, RepeatCounted
<1>3. \/ ~OnEvolution(m0) /\ UNCHANGED <<entry, dropped, left>>
      \/ hand[h].pc = "claim" /\ dropped' = dropped \cup {m0} /\ UNCHANGED <<entry, left>>
      \/ OnEvolution(m0) /\ hand[h].pc # "claim"
         /\ entry' = [entry EXCEPT ![m0] = "failed"] /\ UNCHANGED <<dropped, left>>
      \/ OnEvolution(m0) /\ hand[h].pc # "claim"
         /\ left' = left \cup {m0} /\ UNCHANGED <<entry, dropped>>
  BY DEF Fail
<1>4. OnEvolution(m0) /\ hand[h].pc # "claim" => entry[m0] = "processing"
  BY <1>1 DEF InbInv, OneWorks, Works
<1>5. /\ entry' \in [Msgs -> EntryStatuses] /\ dropped \subseteq dropped' /\ left \subseteq left'
      /\ \A m \in Msgs \ {m0} : entry'[m] = entry[m]
      /\ OnEvolution(m0) =>
           /\ hand[h].pc = "claim" => entry' = entry
           /\ entry'[m0] = "pending" => m0 \in dropped'
           /\ entry'[m0] = "processing" => m0 \in left' \/ hand[h].pc = "claim"
  BY <1>1, <1>3, <1>4, InbTyped DEF EntryStatuses
<1> QED BY <1>1, <1>2, <1>5, HandIsFreed

\* A hand goes on to another step, having sent nothing.
LEMMA HandMoves ==
    ASSUME InbInv, NEW h \in Hands, NEW pc \in HandPcs, Step(h, pc),
           hand[h].pc \notin {"idle", "claim"}, pc \notin {"idle", "claim"},
           hand[h].sent => pc \in {"log", "finish"},
           hand[h].during /\ ~cleared' =>
             pc \in {"create", "gate", "finish"} /\ (pc # "finish" => hand[h].snap = "yes"),
           UNCHANGED <<queueVars, countVars, person>>,
           conv' \in ConvType, cleared => cleared',
           person /\ ~cleared' => conv'.pause = "yes"
    PROVE  InbInv'
<1> DEFINE r == [hand[h] EXCEPT !.pc = pc]
<1>1. hand \in [Hands -> HandType] /\ hand[h] \in HandType /\ (~cleared => ~spoke)
  BY InbTyped DEF InbInv, PersonInv
<1>2. /\ r \in HandType /\ r.pc = pc /\ r.msg = hand[h].msg /\ r.sent = hand[h].sent
      /\ r.during = hand[h].during /\ r.snap = hand[h].snap
  BY <1>1 DEF HandType
<1>3. hand' = [hand EXCEPT ![h] = r]
  BY <1>1 DEF Step
<1> HIDE DEF r
<1>4. HandOK(r, cleared')
  BY <1>2 DEF HandOK
<1>5. replies' = replies /\ repeats' = repeats /\ (~cleared' => ~spoke')
  BY <1>1 DEF countVars
<1> QED BY <1>2, <1>3, <1>4, <1>5, HandGoesOn

LEMMA HandTakesSteps ==
    ASSUME InbInv, NEW h \in Hands,
           \/ CreateInbound(h) \/ Gate(h) \/ RouteMessage(h) \/ Think(h) \/ Handoff(h)
           \/ Notify(h) \/ LogReply(h)
    PROVE  InbInv'
<1>1. /\ hand[h] \in HandType /\ HandOK(hand[h], cleared) /\ conv \in ConvType
      /\ (person /\ ~cleared => conv.pause = "yes")
  BY InbTyped DEF InbInv, PersonInv
<1>2. CASE CreateInbound(h)
  <2>1. UNCHANGED <<queueVars, countVars, person, cleared, conv>> /\ hand[h].pc = "create"
        /\ Step(h, "gate")
    BY <1>2 DEF CreateInbound, inboxConvVars
  <2> QED BY <1>1, <2>1, HandMoves DEF HandOK, HandPcs
<1>3. CASE Gate(h)
  <2>1. UNCHANGED <<queueVars, countVars, person>> /\ hand[h].pc = "gate"
    BY <1>3 DEF Gate
  <2>2. hand[h].snap \in {"no", "yes", "expired"} /\ ~hand[h].sent
    BY <1>1, <2>1 DEF HandType, HandOK
  <2>3. CASE hand[h].snap = "yes"
    <3>1. Step(h, "finish") /\ cleared' = cleared /\ conv' = [conv EXCEPT !.status = "human"]
      BY <1>3, <2>3 DEF Gate
    <3>2. conv' \in ConvType /\ conv'.pause = conv.pause
      BY <1>1, <3>1 DEF ConvType
    <3> QED BY <1>1, <2>1, <2>2, <3>1, <3>2, HandMoves DEF HandPcs
  <2>4. CASE hand[h].snap = "expired"
    <3>1. Step(h, "route") /\ cleared' = (cleared \/ person)
          /\ conv' = [pause |-> "no", status |-> "waiting"]
      BY <1>3, <2>4 DEF Gate
    <3>2. conv' \in ConvType
      BY <3>1 DEF ConvType
    <3>3. ~(hand[h].during /\ ~cleared')
      BY <1>1, <2>1, <2>4, <3>1 DEF HandOK
    <3> QED BY <1>1, <2>1, <2>2, <3>1, <3>2, <3>3, HandMoves DEF HandPcs
  <2>5. CASE hand[h].snap = "no"
    <3>1. Step(h, "route") /\ cleared' = cleared /\ conv' = conv
      BY <1>3, <2>5 DEF Gate
    <3>2. ~(hand[h].during /\ ~cleared')
      BY <1>1, <2>1, <2>5, <3>1 DEF HandOK
    <3> QED BY <1>1, <2>1, <2>2, <3>1, <3>2, HandMoves DEF HandPcs
  <2> QED BY <2>2, <2>3, <2>4, <2>5
<1>4. CASE RouteMessage(h)
  <2>1. UNCHANGED <<queueVars, countVars, person, cleared>> /\ hand[h].pc = "route"
    BY <1>4 DEF RouteMessage
  <2>2. ~hand[h].sent /\ ~(hand[h].during /\ ~cleared')
    BY <1>1, <2>1 DEF HandOK
  <2>3. CASE conv' = [conv EXCEPT !.status = "waiting"] /\ Step(h, "finish")
    <3>1. conv' \in ConvType /\ conv'.pause = conv.pause
      BY <1>1, <2>3 DEF ConvType
    <3> QED BY <1>1, <2>1, <2>2, <2>3, <3>1, HandMoves DEF HandPcs
  <2>4. ASSUME NEW pc \in {"handoff", "think"}, Step(h, pc), conv' = conv PROVE InbInv'
    BY <1>1, <2>1, <2>2, <2>4, HandMoves DEF HandPcs
  <2>5. \/ conv' = [conv EXCEPT !.status = "waiting"] /\ Step(h, "finish")
        \/ conv' = conv /\ \E pc \in {"handoff", "think"} : Step(h, pc)
    BY <1>4 DEF RouteMessage
  <2> QED BY <2>3, <2>4, <2>5
<1>5. CASE Think(h)
  <2>1. UNCHANGED <<queueVars, countVars, person, cleared, conv>> /\ hand[h].pc = "think"
    BY <1>5 DEF Think, inboxConvVars
  <2>2. ~hand[h].sent /\ ~(hand[h].during /\ ~cleared')
    BY <1>1, <2>1 DEF HandOK
  <2>3. PICK pc \in {"handoff", "reply"} : Step(h, pc)
    BY <1>5 DEF Think
  <2> QED BY <1>1, <2>1, <2>2, <2>3, HandMoves DEF HandPcs
<1>6. CASE Handoff(h)
  <2>1. /\ UNCHANGED <<queueVars, countVars, person, cleared>> /\ hand[h].pc = "handoff"
        /\ Step(h, "notify") /\ conv' = [pause |-> "yes", status |-> "human"]
    BY <1>6 DEF Handoff
  <2>2. conv' \in ConvType /\ conv'.pause = "yes"
    BY <2>1 DEF ConvType
  <2>3. ~hand[h].sent /\ ~(hand[h].during /\ ~cleared')
    BY <1>1, <2>1 DEF HandOK
  <2> QED BY <1>1, <2>1, <2>2, <2>3, HandMoves DEF HandPcs
<1>7. CASE Notify(h)
  <2>1. UNCHANGED <<queueVars, countVars, person, cleared, conv>> /\ hand[h].pc = "notify"
        /\ Step(h, "finish")
    BY <1>7 DEF Notify, inboxConvVars
  <2> QED BY <1>1, <2>1, HandMoves DEF HandOK, HandPcs
<1>8. CASE LogReply(h)
  <2>1. /\ UNCHANGED <<queueVars, countVars, person, cleared>> /\ hand[h].pc = "log"
        /\ Step(h, "finish") /\ conv' = [conv EXCEPT !.status = "replied"]
    BY <1>8 DEF LogReply
  <2>2. conv' \in ConvType /\ conv'.pause = conv.pause
    BY <1>1, <2>1 DEF ConvType
  <2> QED BY <1>1, <2>1, <2>2, HandMoves DEF HandOK, HandPcs
<1> QED BY <1>2, <1>3, <1>4, <1>5, <1>6, <1>7, <1>8

\* The conversation is read: a message that comes during a person's pause sees it.
LEMMA ConversationIsRead ==
    ASSUME InbInv, NEW h \in Hands, UpsertConversation(h) PROVE InbInv'
<1> DEFINE r == [hand[h] EXCEPT !.pc = "create", !.snap = conv.pause, !.during = person]
<1>1. /\ hand \in [Hands -> HandType] /\ hand[h] \in HandType /\ HandOK(hand[h], cleared)
      /\ conv \in ConvType /\ (person /\ ~cleared => conv.pause = "yes") /\ (~cleared => ~spoke)
      /\ hand[h].pc = "upsert" /\ person \in BOOLEAN
  BY InbTyped DEF InbInv, InbTypes, PersonInv, UpsertConversation
<1>2. conv.pause \in {"no", "yes", "expired"} /\ ~hand[h].sent
  BY <1>1 DEF ConvType, HandOK
<1>3. /\ r \in HandType /\ r.pc = "create" /\ r.msg = hand[h].msg /\ r.sent = hand[h].sent
      /\ r.during = person /\ r.snap = conv.pause
  BY <1>1, <1>2 DEF HandType, HandPcs
<1>4. /\ hand' = [hand EXCEPT ![h] = r] /\ conv' = [conv EXCEPT !.status = "waiting"]
      /\ UNCHANGED <<queueVars, person, cleared, replies, repeats, spoke>>
  BY <1>1 DEF UpsertConversation, countVars
<1> HIDE DEF r
<1>5. conv' \in ConvType /\ conv'.pause = conv.pause
  BY <1>1, <1>4 DEF ConvType
<1>6. HandOK(r, cleared')
  BY <1>1, <1>2, <1>3, <1>4 DEF HandOK
<1>7. UNCHANGED <<queueVars, repeats, person>>
  BY <1>4
<1> QED BY <1>1, <1>3, <1>4, <1>5, <1>6, <1>7, HandGoesOn

LEMMA MessageIsAnswered == ASSUME InbInv, NEW h \in Hands, Reply(h) PROVE InbInv'
<1> DEFINE r == [hand[h] EXCEPT !.pc = "log", !.sent = TRUE]
<1>1. /\ hand \in [Hands -> HandType] /\ hand[h] \in HandType /\ HandOK(hand[h], cleared)
      /\ conv \in ConvType /\ (person /\ ~cleared => conv.pause = "yes") /\ (~cleared => ~spoke)
      /\ hand[h].pc = "reply" /\ UNCHANGED <<queueVars, person, cleared, repeats>>
  BY InbTyped DEF InbInv, PersonInv, Reply
<1>2. ~hand[h].sent /\ ~(hand[h].during /\ ~cleared)
  BY <1>1 DEF HandOK
<1>3. CASE /\ conv' = [conv EXCEPT !.status = "waiting"] /\ Step(h, "finish")
           /\ replies' = replies /\ spoke' = spoke
  <2>1. conv' \in ConvType /\ conv'.pause = conv.pause
    BY <1>1, <1>3 DEF ConvType
  <2>2. UNCHANGED <<queueVars, countVars, person>>
    BY <1>1, <1>3 DEF countVars
  <2> QED BY <1>1, <1>2, <1>3, <2>1, <2>2, HandMoves DEF HandPcs
<1>4. CASE /\ replies' = [replies EXCEPT ![hand[h].msg] = @ + 1]
           /\ spoke' = (spoke \/ (hand[h].during /\ person))
           /\ hand' = [hand EXCEPT ![h].pc = "log", ![h].sent = TRUE] /\ conv' = conv
  <2>1. /\ r \in HandType /\ r.pc = "log" /\ r.msg = hand[h].msg /\ r.sent
        /\ r.during = hand[h].during
    BY <1>1 DEF HandType, HandPcs
  <2>2. hand' = [hand EXCEPT ![h] = r]
    BY <1>1, <1>4
  <2> HIDE DEF r
  <2>3. HandOK(r, cleared') /\ replies' = [replies EXCEPT ![r.msg] = @ + 1]
    BY <1>1, <1>2, <1>4, <2>1 DEF HandOK
  <2>4. ~cleared' => ~spoke'
    BY <1>1, <1>2, <1>4
  <2> QED BY <1>1, <1>2, <1>4, <2>1, <2>2, <2>3, <2>4, HandGoesOn
<1> QED BY <1>3, <1>4 DEF Reply

\* After a restart nobody works on a message: it waits again, or is left, and what was
\* answered counts as cut short.
LEMMA InboxRestarts == ASSUME InbInv, Restart PROVE InbInv'
<1>1. PICK old \in SUBSET {m \in Msgs : entry[m] = "processing"} :
        LET recovered == [m \in Msgs |-> IF m \in old THEN "pending" ELSE entry[m]]
            kept == {m \in Msgs : redis /\ waiting[m] > 0}
            queued == kept \cup {m \in Msgs : OnEvolution(m) /\ recovered[m] \in Recoverable}
        IN  \E reached \in IF redis THEN SUBSET queued ELSE {{}} :
               /\ entry' = recovered
               /\ left' = {m \in Msgs : recovered[m] = "processing"}
               /\ waiting' = [m \in Msgs |-> IF m \notin reached THEN 0
                                             ELSE IF m \in kept THEN waiting[m] ELSE 1]
               /\ dropped' = {m \in queued \ reached : OnEvolution(m)}
  BY DEF Restart
<1> DEFINE recovered == [m \in Msgs |-> IF m \in old THEN "pending" ELSE entry[m]]
           kept == {m \in Msgs : redis /\ waiting[m] > 0}
           queued == kept \cup {m \in Msgs : OnEvolution(m) /\ recovered[m] \in Recoverable}
<1>2. PICK reached \in IF redis THEN SUBSET queued ELSE {{}} :
           /\ entry' = recovered
           /\ left' = {m \in Msgs : recovered[m] = "processing"}
           /\ waiting' = [m \in Msgs |-> IF m \notin reached THEN 0
                                         ELSE IF m \in kept THEN waiting[m] ELSE 1]
           /\ dropped' = {m \in queued \ reached : OnEvolution(m)}
  BY <1>1
<1>3. /\ posting' = {} /\ repeats' = Repeats(Hands) /\ hand' = [h \in Hands |-> Free]
      /\ UNCHANGED <<delivered, conv, person, cleared, replies, spoke>>
  BY DEF Restart, inboxConvVars
<1>4. /\ repeats' \in [Msgs -> Nat] /\ \A m \in Msgs : repeats'[m] >= repeats[m]
      /\ \A h \in Hands : hand[h].pc # "idle" /\ hand[h].sent =>
           repeats'[hand[h].msg] > repeats[hand[h].msg]
  BY <1>3, RepeatCounted
<1>5. /\ entry' \in [Msgs -> EntryStatuses] /\ waiting' \in [Msgs -> Nat]
      /\ \A m \in Msgs : entry'[m] = IF m \in old THEN "pending" ELSE entry[m]
      /\ reached \subseteq queued
  BY <1>2, InbTyped DEF EntryStatuses
<1>6. \A h \in Hands : hand'[h] = Free
  BY <1>3
<1>7. InbTypes'
  BY <1>3, <1>4, <1>5, <1>6, FreeTypes
     DEF InbInv, InbTypes, WhatsappInboxTypeOK, HandType, ConvType
<1>8. PersonInv'
  BY <1>3, <1>6, FreeTypes DEF InbInv, PersonInv
<1>9. OpenMessageHasCarrier'
  <2>1. ASSUME NEW m \in Msgs, OnEvolution(m), entry'[m] = "pending"
        PROVE  m \in dropped' \/ waiting'[m] > 0
    <3>1. m \in queued
      BY <1>2, <2>1 DEF Recoverable
    <3>2. CASE m \in reached
      BY <1>2, <3>2, InbTyped
    <3>3. CASE m \notin reached
      BY <1>2, <2>1, <3>1, <3>3
    <3> QED BY <3>2, <3>3
  <2>2. \A m \in Msgs : entry'[m] = "processing" => m \in left'
    BY <1>2
  <2> QED BY <2>1, <2>2 DEF OpenMessageHasCarrier
<1>10. ASSUME NEW m \in Msgs, OnEvolution(m) PROVE OneWorks(m)'
  <2>1. OneWorks(m) /\ replies' = replies
    BY <1>3, <1>10 DEF InbInv
  <2>2. \A h \in Hands : ~Works(h, m)'
    BY <1>6, FreeTypes DEF Works
  <2>3. /\ replies[m] \in Nat /\ repeats[m] \in Nat /\ repeats'[m] \in Nat
        /\ repeats'[m] >= repeats[m]
    BY <1>4, InbTyped
  <2>4. Spoken(m) => Spoken(m)' \/ repeats'[m] > repeats[m]
    <3>1. CASE entry[m] = "processed"
      BY <1>5, <3>1 DEF Spoken
    <3>2. CASE \E h \in Hands : Works(h, m) /\ hand[h].sent
      BY <1>4, <3>2 DEF Works
    <3> QED BY <3>1, <3>2 DEF Spoken
  <2>5. replies'[m] <= repeats'[m] + (IF Spoken(m)' THEN 1 ELSE 0)
    BY <2>1, <2>3, <2>4 DEF OneWorks
  <2> QED BY <2>2, <2>5 DEF OneWorks
<1>11. ASSUME NEW m \in Msgs, ~OnEvolution(m) PROVE PerDelivery(m)'
  <2>1. PerDelivery(m) /\ replies' = replies /\ delivered' = delivered
    BY <1>3, <1>11 DEF InbInv
  <2>2. OpenJobs(m)' = {}
    BY <1>6, FreeTypes DEF OpenJobs, Open
  <2>3. Cardinality(OpenJobs(m)') = 0
    BY <2>2, FS_EmptySet
  <2>4. waiting'[m] <= waiting[m]
    <3>1. m \in reached => m \in kept
      BY <1>5, <1>11
    <3>2. waiting'[m] = 0 \/ waiting'[m] = waiting[m]
      BY <1>2, <3>1
    <3> QED BY <3>2, InbTyped
  <2>5. /\ waiting[m] \in Nat /\ delivered[m] \in Nat /\ replies[m] \in Nat
        /\ waiting'[m] \in Nat /\ Cardinality(OpenJobs(m)) \in Nat
    BY <1>5, InbTyped, OpenJobsCounted
  <2> QED BY <2>1, <2>3, <2>4, <2>5 DEF PerDelivery
<1> QED BY <1>7, <1>8, <1>9, <1>10, <1>11 DEF InbInv

LEMMA InboxGoesOn == InbInv /\ [WhatsappInboxNext]_whatsappInboxVars => InbInv'
<1> SUFFICES ASSUME InbInv, [WhatsappInboxNext]_whatsappInboxVars PROVE InbInv'
  OBVIOUS
<1>1. CASE UNCHANGED whatsappInboxVars
  <2>1. /\ UNCHANGED <<hand, cleared, replies, repeats, spoke, dropped, left, entry, posting,
                       waiting, delivered, conv, person>>
        /\ conv \in ConvType /\ (person /\ ~cleared => conv.pause = "yes")
        /\ person \in BOOLEAN /\ \A m \in posting : OnEvolution(m)
    BY <1>1 DEF whatsappInboxVars, inboxConvVars, countVars, InbInv, InbTypes, PersonInv
  <2>2. \A m \in Msgs : waiting'[m] + delivered[m] = waiting[m] + delivered'[m]
    BY <2>1
  <2> QED BY <2>1, <2>2, InbTyped, HandsRest
<1>2. CASE \E m \in Msgs : DeliverEvolution(m) \/ DeliverMeta(m) \/ Enqueue(m)
  BY <1>2, MessageIsStored
<1>3. CASE \E m \in Msgs, h \in Hands : Start(h, m)
  BY <1>3, JobStarts
<1>4. CASE \E h \in Hands : ClaimMessage(h)
  BY <1>4, MessageIsClaimed, ClaimIsLate
<1>5. CASE \E h \in Hands : UpsertConversation(h) \/ Reply(h) \/ Finish(h) \/ Fail(h)
  BY <1>5, ConversationIsRead, MessageIsAnswered, MessageIsFinished, HandFails
<1>6. CASE \E h \in Hands : \/ CreateInbound(h) \/ Gate(h) \/ RouteMessage(h) \/ Think(h)
                            \/ Handoff(h) \/ Notify(h) \/ LogReply(h)
  BY <1>6, HandTakesSteps
<1>7. CASE Restart
  BY <1>7, InboxRestarts
<1>8. CASE PersonPauses \/ PersonResumes \/ PauseExpires
  BY <1>8, PersonActs
<1> QED BY <1>1, <1>2, <1>3, <1>4, <1>5, <1>6, <1>7, <1>8 DEF WhatsappInboxNext

\* A stored message of Evolution has somebody who queues, claims or carries it on, but for
\* the ones that are known to be dropped or left, for any messages, hands, deliveries,
\* failures and restarts.
\* Every stored message of WhatsApp has somebody who carries it on, is answered once per
\* delivery at most, or again after a run cut short, and not over a person's pause, for
\* any messages, hands, deliveries, failures and restarts.
THEOREM MessagesAreCarried ==
    WhatsappInboxSpec => [](WhatsappInboxTypeOK /\ OpenMessageHasCarrier)
<1>1. InbInv => WhatsappInboxTypeOK /\ OpenMessageHasCarrier
  BY DEF InbInv, InbTypes
<1> QED BY <1>1, InboxBegins, InboxGoesOn, PTL DEF WhatsappInboxSpec

\* A message is answered once per delivery at most; one of Evolution once, and again only
\* after a run that was cut short.
THEOREM MessagesAreAnsweredOnce == WhatsappInboxSpec => []AnsweredOnce
<1>1. ASSUME InbInv, NEW m \in Msgs
      PROVE  replies[m] <= IF OnEvolution(m) THEN 1 + repeats[m] ELSE delivered[m]
  <2>1. /\ waiting[m] \in Nat /\ delivered[m] \in Nat /\ replies[m] \in Nat
        /\ repeats[m] \in Nat /\ Cardinality(OpenJobs(m)) \in Nat
    BY <1>1, InbTyped, OpenJobsCounted
  <2>2. CASE OnEvolution(m)
    BY <1>1, <2>1, <2>2 DEF InbInv, OneWorks
  <2>3. CASE ~OnEvolution(m)
    BY <1>1, <2>1, <2>3 DEF InbInv, PerDelivery
  <2> QED BY <2>2, <2>3
<1>2. InbInv => AnsweredOnce
  BY <1>1 DEF AnsweredOnce
<1> QED BY <1>2, InboxBegins, InboxGoesOn, PTL DEF WhatsappInboxSpec

\* While a person's pause holds, no message that came during it is answered, unless an
\* earlier message has cleared the pause.
THEOREM PersonsAreNotTalkedOver == WhatsappInboxSpec => []PersonIsNotTalkedOver
<1>1. InbInv => PersonIsNotTalkedOver
  BY DEF InbInv, PersonInv, PersonIsNotTalkedOver
<1> QED BY <1>1, InboxBegins, InboxGoesOn, PTL DEF WhatsappInboxSpec
===============================================================================
