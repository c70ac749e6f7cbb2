----------------------- MODULE AttendantActionsProofs -----------------------
(***************************************************************************)
(* Proofs about AttendantActions, for any messages, orders, number of      *)
(* handlers and failures: types, the bound on the customer rows, that      *)
(* revenue is booked as it was stated, that a message goes to n8n once and *)
(* takes effect, and that analyses which do not overlap duplicate nothing. *)
(***************************************************************************)
EXTENDS AttendantActions, FiniteSetTheorems, SequenceTheorems, TLAPS

-----------------------------------------------------------------------------
(* Type correctness *)

\* A record of a handler that may be saved: it has its message, the rows it will
\* write exist, and what it saves as a request has an intent.
Sound(r, numRequests, numAppointments) ==
    /\ r.pc # "idle" => r.msg \in Messages
    /\ r.draft \in 0..numRequests
    /\ r.appointment \in 0..numAppointments
    /\ r.pc \in {"find", "create", "request"} => r.type # "general"
HandlersSound ==
    \A h \in Handlers : Sound(handler[h], Len(requests), Len(appointments))

TypeInv == TypeOK /\ HandlersSound

USE AttendantAssumption

\* A function on 1..n is a sequence.
LEMMA FunctionIsSeq ==
  ASSUME NEW S, NEW n \in Nat, NEW f \in [1..n -> S]
  PROVE  f \in Seq(S) /\ Len(f) = n
BY SeqDef, LenProperties

LEMMA FaultsBounded ==
  /\ 0 \in 0..MaxFaults
  /\ \A n \in 0..MaxFaults : n < MaxFaults => n + 1 \in 0..MaxFaults
BY DEF AttendantAssumption

LEMMA IdleType == Idle \in HandlerType
BY DEF Idle, HandlerType, Pcs, Analysis, Intents, Fields, NoFields, Slots

LEMMA TextFields ==
  ASSUME NEW m \in Messages
  PROVE  /\ Text[m] \in TextType
         /\ Said(m) \in Fields
BY DEF TextType, Said, Fields

LEMMA MergeType ==
  ASSUME NEW f \in Fields, NEW g \in Fields PROVE Merge(f, g) \in Fields
BY DEF Merge, Fields

\* A step that gives one handler a sound record and leaves the rows as they are.
LEMMA SetKeepsTypes ==
  ASSUME TypeInv, NEW h \in Handlers, NEW r \in HandlerType, Set(h, r),
         Sound(r, Len(requests), Len(appointments)),
         UNCHANGED <<requests, appointments>>
  PROVE  handler' \in [Handlers -> HandlerType] /\ HandlersSound'
BY DEF TypeInv, TypeOK, HandlersSound, Set, Sound

LEMMA GotoKeepsTypes ==
  ASSUME TypeInv, NEW h \in Handlers, NEW pc \in Pcs, Goto(h, pc),
         handler[h].pc # "idle",
         pc \in {"find", "create", "request"} => handler[h].type # "general",
         UNCHANGED <<requests, appointments>>
  PROVE  handler' \in [Handlers -> HandlerType] /\ HandlersSound'
<1>1. handler[h] \in HandlerType /\ Sound(handler[h], Len(requests), Len(appointments))
  BY DEF TypeInv, TypeOK, HandlersSound
<1>2. [handler[h] EXCEPT !.pc = pc] \in HandlerType
  BY <1>1 DEF HandlerType
<1>3. Sound([handler[h] EXCEPT !.pc = pc], Len(requests), Len(appointments))
  BY <1>1 DEF Sound, HandlerType
<1> QED BY <1>2, <1>3, SetKeepsTypes DEF Goto

\* What follows an analysis is sound in any state.
LEMMA AfterAnalysisSound ==
  ASSUME TypeInv, NEW h \in Handlers, handler[h].pc # "idle",
         NEW n \in Nat, NEW k \in Nat
  PROVE  /\ AfterAnalysis(h) \in HandlerType
         /\ Sound(AfterAnalysis(h), n, k)
         /\ AfterAnalysis(h).pc \in {"idle", "forward"}
         /\ AfterAnalysis(h).fields = NoFields
<1>1. handler[h] \in HandlerType /\ handler[h].msg \in Messages
  BY DEF TypeInv, TypeOK, HandlersSound, Sound
<1>2. [Idle EXCEPT !.pc = "forward", !.msg = handler[h].msg] \in HandlerType
  BY <1>1, IdleType DEF HandlerType, Pcs
<1> QED BY <1>1, <1>2, IdleType DEF AfterAnalysis, Sound, Idle

LEMMA LenInNat ==
  ASSUME TypeInv
  PROVE  /\ Len(requests) \in Nat /\ Len(appointments) \in Nat
         /\ DOMAIN requests = 1..Len(requests)
         /\ DOMAIN appointments = 1..Len(appointments)
BY DEF TypeInv, TypeOK

\* The steps of the webhook and of storing.
LEMMA WebhookTypes ==
  ASSUME TypeInv, NEW h \in Handlers, Webhook(h) PROVE TypeInv'
<1> USE DEF rows, books
<1>0. handler[h] \in HandlerType /\ Sound(handler[h], Len(requests), Len(appointments))
  BY DEF TypeInv, TypeOK, HandlersSound
<1>m. handler[h].msg \in Messages
  BY <1>0 DEF Webhook, Lookup, Configured, Forward, Store, Check, Sound
<1>1. CASE Lookup(h)
  <2>1. handler' \in [Handlers -> HandlerType] /\ HandlersSound'
    BY <1>1, GotoKeepsTypes DEF Lookup, Pcs
  <2> QED BY <1>1, <1>m, <2>1 DEF Lookup, TypeInv, TypeOK
<1>a. ASSUME NEW first \in BOOLEAN, StartAnalysis(h, first), handler[h].pc # "idle",
             UNCHANGED <<requests, appointments>>
      PROVE  handler' \in [Handlers -> HandlerType] /\ HandlersSound' /\ overlapped' \in BOOLEAN
  <2>1. [handler[h] EXCEPT !.pc = "draft", !.first = first] \in HandlerType
    BY <1>0 DEF HandlerType, Pcs, Analysis
  <2>2. Sound([handler[h] EXCEPT !.pc = "draft", !.first = first],
              Len(requests), Len(appointments))
    BY <1>0, <1>m DEF Sound, HandlerType
  <2>3. overlapped' \in BOOLEAN
    BY <1>a DEF StartAnalysis, TypeInv, TypeOK
  <2> QED BY <1>a, <2>1, <2>2, <2>3, SetKeepsTypes DEF StartAnalysis
<1>2. CASE Configured(h)
  <2>1. CASE StartAnalysis(h, TRUE)
    BY <1>2, <1>a, <2>1 DEF Configured, TypeInv, TypeOK
  <2>2. CASE Goto(h, "store") /\ UNCHANGED overlapped
    <3>1. handler' \in [Handlers -> HandlerType] /\ HandlersSound'
      BY <1>2, <2>2, GotoKeepsTypes DEF Configured, Pcs
    <3> QED BY <1>2, <2>2, <3>1 DEF Configured, TypeInv, TypeOK
  <2> QED BY <1>2, <2>1, <2>2 DEF Configured
<1>3. CASE Forward(h)
  <2>1. [handler[h] EXCEPT !.pc = "store", !.first = FALSE] \in HandlerType
    BY <1>0 DEF HandlerType, Pcs
  <2>2. Sound([handler[h] EXCEPT !.pc = "store", !.first = FALSE],
              Len(requests), Len(appointments))
    BY <1>0, <1>m DEF Sound, HandlerType
  <2>3. handler' \in [Handlers -> HandlerType] /\ HandlersSound'
    BY <1>3, <2>1, <2>2, SetKeepsTypes DEF Forward
  <2>4. forwarded' \in [Messages -> 0..2]
    <3>1. forwarded \in [Messages -> 0..2]
      BY DEF TypeInv, TypeOK
    <3>2. CASE UNCHANGED forwarded
      BY <3>1, <3>2
    <3>3. CASE forwarded' = [forwarded EXCEPT ![handler[h].msg] = IF @ = 2 THEN 2 ELSE @ + 1]
      BY <3>1, <3>3, <1>m
    <3> QED BY <1>3, <3>2, <3>3 DEF Forward
  <2> QED BY <1>3, <2>3, <2>4 DEF Forward, TypeInv, TypeOK
<1>4. CASE Store(h)
  <2>1. [handler[h] EXCEPT !.pc = "check"] \in HandlerType
    BY <1>0 DEF HandlerType, Pcs
  <2>2. Sound([handler[h] EXCEPT !.pc = "check"], Len(requests), Len(appointments))
    BY <1>0, <1>m DEF Sound, HandlerType
  <2>3. Sound(Idle, Len(requests), Len(appointments))
    BY LenInNat DEF Sound, Idle
  <2>4. handler' \in [Handlers -> HandlerType] /\ HandlersSound'
    BY <1>4, <2>1, <2>2, <2>3, IdleType, SetKeepsTypes DEF Store
  <2> QED BY <1>4, <1>m, <2>4 DEF Store, TypeInv, TypeOK
<1>5. CASE Check(h)
  <2>1. CASE Set(h, Idle) /\ UNCHANGED overlapped
    <3>1. Sound(Idle, Len(requests), Len(appointments))
      BY LenInNat DEF Sound, Idle
    <3>2. handler' \in [Handlers -> HandlerType] /\ HandlersSound'
      BY <1>5, <2>1, <3>1, IdleType, SetKeepsTypes DEF Check
    <3> QED BY <1>5, <2>1, <3>2 DEF Check, TypeInv, TypeOK
  <2>2. CASE StartAnalysis(h, FALSE)
    BY <1>5, <1>a, <2>2 DEF Check, TypeInv, TypeOK
  <2> QED BY <1>5, <2>1, <2>2 DEF Check
<1> QED BY <1>1, <1>2, <1>3, <1>4, <1>5 DEF Webhook

\* The drafts an analysis may join are rows of the table.
LEMMA DraftsAreRows ==
  ASSUME TypeInv, NEW s
  PROVE  \A i \in Newest(InStatus(s)) :
            /\ i \in 1..Len(requests)
            /\ requests[i] \in RequestType
BY LenInNat DEF Newest, InStatus, TypeInv, TypeOK

LEMMA WithoutDraftTypes ==
  ASSUME TypeInv, NEW h \in Handlers, handler[h].pc \in Analysis, WithoutDraft(h),
         UNCHANGED <<requests, appointments>>
  PROVE  handler' \in [Handlers -> HandlerType] /\ HandlersSound'
<1>0. /\ handler[h] \in HandlerType /\ handler[h].msg \in Messages
      /\ Sound(handler[h], Len(requests), Len(appointments))
      /\ handler[h].pc # "idle"
  BY DEF TypeInv, TypeOK, HandlersSound, Sound, Analysis
<1> DEFINE r == [handler[h] EXCEPT !.pc = "find", !.draft = 0,
                    !.type = Text[handler[h].msg].intent, !.fields = Said(handler[h].msg)]
<1>1. CASE Text[handler[h].msg].intent = "general"
  BY <1>0, <1>1, AfterAnalysisSound, LenInNat, SetKeepsTypes DEF WithoutDraft
<1>2. CASE Text[handler[h].msg].intent # "general"
  <2>1. Text[handler[h].msg].intent \in Intents /\ Said(handler[h].msg) \in Fields
    BY <1>0, TextFields DEF TextType
  <2>2. r \in HandlerType
    BY <1>0, <2>1 DEF HandlerType, Pcs, Analysis
  <2>3. Sound(r, Len(requests), Len(appointments))
    BY <1>0, <1>2, <2>1, LenInNat DEF Sound, HandlerType
  <2>4. Set(h, r)
    BY <1>2 DEF WithoutDraft
  <2> QED BY <2>2, <2>3, <2>4, SetKeepsTypes
<1> QED BY <1>1, <1>2

LEMMA EffectiveType ==
  ASSUME NEW i \in Intents, NEW d \in Intents \ {"general"}
  PROVE  Effective(i, d) \in Intents \ {"general"}
BY DEF Effective, Intents

LEMMA JoinDraftTypes ==
  ASSUME TypeInv, NEW h \in Handlers, handler[h].pc \in Analysis,
         NEW s, JoinDraft(h, InStatus(s)),
         UNCHANGED <<requests, appointments>>
  PROVE  handler' \in [Handlers -> HandlerType] /\ HandlersSound'
<1>0. /\ handler[h] \in HandlerType /\ handler[h].msg \in Messages
      /\ Sound(handler[h], Len(requests), Len(appointments))
      /\ handler[h].pc # "idle"
  BY DEF TypeInv, TypeOK, HandlersSound, Sound, Analysis
<1> DEFINE m == handler[h].msg
           r(i) == [handler[h] EXCEPT !.pc = "find", !.draft = i,
                      !.type = Effective(Text[m].intent, requests[i].type),
                      !.fields = Merge(requests[i].fields, Said(m))]
<1>1. PICK i \in Newest(InStatus(s)) : Set(h, r(i))
  BY DEF JoinDraft
<1>2. i \in 1..Len(requests) /\ requests[i] \in RequestType
  BY <1>1, DraftsAreRows
<1>3. Effective(Text[m].intent, requests[i].type) \in Intents \ {"general"}
  <2>1. Text[m].intent \in Intents
    BY <1>0, TextFields DEF TextType
  <2>2. requests[i].type \in Intents \ {"general"}
    BY <1>2 DEF RequestType
  <2> QED BY <2>1, <2>2, EffectiveType
<1>4. Merge(requests[i].fields, Said(m)) \in Fields
  <2>1. requests[i].fields \in Fields
    BY <1>2 DEF RequestType
  <2> QED BY <1>0, <2>1, TextFields, MergeType
<1>5. r(i) \in HandlerType
  <2>1. i \in Nat
    BY <1>2, LenInNat
  <2>2. Effective(Text[m].intent, requests[i].type) \in Intents
    BY <1>3
  <2> HIDE DEF m
  <2> QED BY <1>0, <2>1, <2>2, <1>4 DEF HandlerType, Pcs, Analysis
<1>6. Sound(r(i), Len(requests), Len(appointments))
  BY <1>0, <1>2, <1>3, LenInNat DEF Sound, HandlerType
<1> QED BY <1>1, <1>5, <1>6, SetKeepsTypes

\* The steps of an analysis that write no request and no appointment.
LEMMA ReadTypes ==
  ASSUME TypeInv, NEW h \in Handlers,
         \/ FindDraft(h) \/ FindPending(h) \/ FindCustomer(h) \/ CreateCustomer(h)
         \/ FindAppointment(h)
  PROVE  TypeInv'
<1> USE DEF rows, books
<1>0. handler[h] \in HandlerType /\ Sound(handler[h], Len(requests), Len(appointments))
  BY DEF TypeInv, TypeOK, HandlersSound
<1>1. CASE FindDraft(h)
  <2>1. handler[h].pc \in Analysis /\ handler[h].pc = "draft" /\ UNCHANGED <<requests, appointments>>
    BY <1>1 DEF FindDraft, Analysis
  <2>2. CASE WithoutDraft(h)
    BY <1>1, <2>1, <2>2, WithoutDraftTypes DEF FindDraft, TypeInv, TypeOK
  <2>3. CASE JoinDraft(h, InStatus("info"))
    BY <1>1, <2>1, <2>3, JoinDraftTypes DEF FindDraft, TypeInv, TypeOK
  <2>4. CASE Goto(h, "confirm")
    <3>1. handler' \in [Handlers -> HandlerType] /\ HandlersSound'
      BY <2>1, <2>4, GotoKeepsTypes DEF Pcs, Analysis
    <3> QED BY <1>1, <3>1 DEF FindDraft, TypeInv, TypeOK
  <2> QED BY <1>1, <2>2, <2>3, <2>4 DEF FindDraft
<1>2. CASE FindPending(h)
  <2>1. handler[h].pc \in Analysis /\ UNCHANGED <<requests, appointments>>
    BY <1>2 DEF FindPending, Analysis
  <2>2. CASE WithoutDraft(h)
    BY <1>2, <2>1, <2>2, WithoutDraftTypes DEF FindPending, TypeInv, TypeOK
  <2>3. CASE JoinDraft(h, InStatus("pending"))
    BY <1>2, <2>1, <2>3, JoinDraftTypes DEF FindPending, TypeInv, TypeOK
  <2> QED BY <1>2, <2>2, <2>3 DEF FindPending
<1>3. CASE FindCustomer(h)
  <2>1. handler' \in [Handlers -> HandlerType] /\ HandlersSound'
    BY <1>3, <1>0, GotoKeepsTypes DEF FindCustomer, Pcs, Analysis, Sound
  <2> QED BY <1>3, <2>1 DEF FindCustomer, TypeInv, TypeOK
<1>4. CASE CreateCustomer(h)
  <2>1. handler' \in [Handlers -> HandlerType] /\ HandlersSound'
    BY <1>4, <1>0, GotoKeepsTypes DEF CreateCustomer, Pcs, Analysis, Sound
  <2> QED BY <1>4, <2>1 DEF CreateCustomer, TypeInv, TypeOK
<1>5. CASE FindAppointment(h)
  <2> DEFINE r(i) == [handler[h] EXCEPT !.pc = "book", !.appointment = i]
  <2> DEFINE found == Matching(handler[h].msg, handler[h].type, handler[h].fields.slot)
  <2>a. PICK i \in (IF found = {} THEN {0} ELSE found) : Set(h, r(i))
    BY <1>5 DEF FindAppointment
  <2>b. found \subseteq 1..Len(appointments)
    BY LenInNat DEF Matching
  <2> HIDE DEF found
  <2>1. Set(h, r(i)) /\ i \in 0..Len(appointments) /\ i \in Nat
    BY <2>a, <2>b, LenInNat
  <2>2. r(i) \in HandlerType
    BY <1>0, <2>1 DEF HandlerType, Pcs, Analysis
  <2>3. Sound(r(i), Len(requests), Len(appointments))
    BY <1>0, <1>5, <2>1 DEF Sound, HandlerType, FindAppointment
  <2>4. handler' \in [Handlers -> HandlerType] /\ HandlersSound'
    BY <1>5, <2>1, <2>2, <2>3, SetKeepsTypes DEF FindAppointment
  <2> QED BY <1>5, <2>4 DEF FindAppointment, TypeInv, TypeOK
<1> QED BY <1>1, <1>2, <1>3, <1>4, <1>5

LEMMA StatusType ==
  ASSUME NEW i \in Intents, NEW f \in Fields
  PROVE  Status(i, f) \in {"info", "pending", "human"}
BY DEF Status

\* Where an analysis goes after its request is sound in any state with as many rows.
LEMMA AfterRequestSound ==
  ASSUME TypeInv, NEW h \in Handlers, handler[h].pc = "request",
         NEW n \in Nat, n >= Len(requests)
  PROVE  /\ AfterRequest(h) \in HandlerType
         /\ Sound(AfterRequest(h), n, Len(appointments))
<1>0. /\ handler[h] \in HandlerType /\ Sound(handler[h], Len(requests), Len(appointments))
      /\ handler[h].msg \in Messages
  BY DEF TypeInv, TypeOK, HandlersSound, Sound
<1>l. Len(requests) \in Nat /\ Len(appointments) \in Nat
  BY LenInNat
<1>1. ASSUME NEW pc \in {"look", "sale"}
      PROVE  /\ [handler[h] EXCEPT !.pc = pc] \in HandlerType
             /\ Sound([handler[h] EXCEPT !.pc = pc], n, Len(appointments))
  <2>1. [handler[h] EXCEPT !.pc = pc] \in HandlerType
    BY <1>0 DEF HandlerType, Pcs, Analysis
  <2>2. Sound([handler[h] EXCEPT !.pc = pc], n, Len(appointments))
    BY <1>0, <1>l DEF Sound, HandlerType
  <2> QED BY <2>1, <2>2
<1>2. AfterAnalysis(h) \in HandlerType /\ Sound(AfterAnalysis(h), n, Len(appointments))
  BY <1>l, AfterAnalysisSound
<1> QED BY <1>1, <1>2 DEF AfterRequest

LEMMA SaveRequestTypes ==
  ASSUME TypeInv, NEW h \in Handlers, SaveRequest(h) PROVE TypeInv'
<1> DEFINE d == handler[h].draft
           n == Len(requests)
<1>0. /\ handler[h] \in HandlerType /\ Sound(handler[h], n, Len(appointments))
      /\ handler[h].msg \in Messages
      /\ handler[h].pc = "request" /\ handler[h].type # "general"
  BY DEF TypeInv, TypeOK, HandlersSound, Sound, SaveRequest
<1>l. n \in Nat /\ Len(appointments) \in Nat /\ DOMAIN requests = 1..n /\ d \in 0..n
  BY <1>0, LenInNat DEF Sound
<1>1. ASSUME NEW at \in Nat PROVE RequestOf(h, at) \in RequestType
  <2>1. /\ handler[h].type \in Intents \ {"general"} /\ handler[h].fields \in Fields
        /\ Status(handler[h].type, handler[h].fields) \in {"info", "pending", "human"}
    BY <1>0, StatusType DEF HandlerType
  <2> QED BY <1>0, <2>1 DEF RequestOf, RequestType
<1>2. ASSUME d # 0 PROVE Rewritten(h, d) \in Seq(RequestType) /\ Len(Rewritten(h, d)) = n
  <2>0. \A i \in 1..n : requests[i] \in RequestType
    BY <1>l DEF TypeInv, TypeOK
  <2>1. d \in 1..n
    BY <1>2, <1>l
  <2>2. ASSUME NEW i \in 1..n
        PROVE  (IF i = d THEN RequestOf(h, n)
                ELSE IF requests[i].at > requests[d].at
                THEN [requests[i] EXCEPT !.at = @ - 1] ELSE requests[i]) \in RequestType
    <3>1. RequestOf(h, n) \in RequestType
      BY <1>1, <1>l
    <3>2. requests[i] \in RequestType /\ requests[d] \in RequestType
      BY <2>0, <2>1
    <3>3. requests[i].at \in Nat /\ requests[d].at \in Nat
      BY <3>2 DEF RequestType
    <3>4. CASE requests[i].at > requests[d].at
      <4>1. requests[i].at - 1 \in Nat
        BY <3>3, <3>4
      <4>2. [requests[i] EXCEPT !.at = @ - 1] \in RequestType
        BY <3>2, <4>1 DEF RequestType
      <4> QED BY <3>1, <3>4, <4>2
    <3>5. CASE ~(requests[i].at > requests[d].at)
      BY <3>1, <3>2, <3>5
    <3> QED BY <3>4, <3>5
  <2>3. Rewritten(h, d) \in [1..n -> RequestType]
    BY <2>2, <1>l DEF Rewritten
  <2> QED BY <1>l, <2>3, FunctionIsSeq
<1>3. /\ requests' \in Seq(RequestType) /\ Len(requests') \in Nat /\ Len(requests') >= n
      /\ recorded' \subseteq Messages
  <2>1. CASE UNCHANGED <<requests, recorded>>
    BY <2>1, <1>l DEF TypeInv, TypeOK
  <2>2. CASE /\ requests' = IF d = 0 THEN Append(requests, RequestOf(h, n + 1))
                            ELSE Rewritten(h, d)
             /\ recorded' = recorded \cup {handler[h].msg}
    <3>1. recorded' \subseteq Messages
      BY <2>2, <1>0 DEF TypeInv, TypeOK
    <3>2. CASE d = 0
      <4>1. RequestOf(h, n + 1) \in RequestType
        BY <1>1, <1>l
      <4>2. requests' = Append(requests, RequestOf(h, n + 1)) /\ requests \in Seq(RequestType)
        BY <2>2, <3>2 DEF TypeInv, TypeOK
      <4>3. requests' \in Seq(RequestType) /\ Len(requests') = n + 1
        BY <4>1, <4>2, AppendProperties
      <4> QED BY <1>l, <3>1, <4>3
    <3>3. CASE d # 0
      BY <2>2, <3>1, <3>3, <1>2, <1>l
    <3> QED BY <3>2, <3>3
  <2> QED BY <2>1, <2>2 DEF SaveRequest
<1>4. handler' \in [Handlers -> HandlerType] /\ HandlersSound'
  <2> DEFINE k == Len(appointments)
  <2>1. AfterRequest(h) \in HandlerType /\ Sound(AfterRequest(h), Len(requests'), k)
    BY <1>0, <1>3, AfterRequestSound
  <2>2. handler \in [Handlers -> HandlerType] /\ appointments' = appointments
        /\ handler' = [handler EXCEPT ![h] = AfterRequest(h)]
    BY DEF TypeInv, TypeOK, SaveRequest, Set
  <2>3. \A g \in Handlers : Sound(handler[g], Len(requests'), k)
    BY <1>3, <1>l DEF TypeInv, HandlersSound, Sound
  <2>4. \A g \in Handlers : Sound(handler'[g], Len(requests'), k)
    BY <2>1, <2>2, <2>3
  <2>5. HandlersSound'
    BY <2>2, <2>4 DEF HandlersSound
  <2> QED BY <2>1, <2>2, <2>5
<1> QED BY <1>3, <1>4 DEF SaveRequest, TypeInv, TypeOK, books

LEMMA SaveAppointmentTypes ==
  ASSUME TypeInv, NEW h \in Handlers, SaveAppointment(h) PROVE TypeInv'
<1> DEFINE i == handler[h].appointment
           slot == handler[h].fields.slot
           m == handler[h].msg
           k == Len(appointments)
<1>0. /\ handler[h] \in HandlerType /\ Sound(handler[h], Len(requests), k)
      /\ m \in Messages /\ handler[h].pc = "book"
  BY DEF TypeInv, TypeOK, HandlersSound, Sound, SaveAppointment
<1>1. slot \in Slots
  BY <1>0 DEF HandlerType, Fields
<1>l. k \in Nat /\ Len(requests) \in Nat /\ DOMAIN appointments = 1..k /\ i \in 0..k
      /\ appointments \in Seq(AppointmentType)
  BY <1>0, LenInNat DEF Sound, TypeInv, TypeOK
<1>2. appointments' \in Seq(AppointmentType) /\ Len(appointments') \in Nat
      /\ Len(appointments') >= k
  <2>1. CASE i = 0
    <3>1. Written(h, 0) \in AppointmentType
      BY <1>0, <1>1 DEF Written, AppointmentType, HandlerType
    <3>2. appointments' = Append(appointments, Written(h, 0)) /\ moved' = moved
      BY <2>1 DEF SaveAppointment
    <3>3. appointments' \in Seq(AppointmentType) /\ Len(appointments') = k + 1
      BY <1>l, <3>1, <3>2, AppendProperties
    <3> QED BY <3>3, <1>l
  <2>2. CASE i # 0
    <3> DEFINE row == Written(h, i)
    <3>1. i \in 1..k /\ appointments[i] \in AppointmentType
      BY <1>l, <2>2
    <3>2. row \in AppointmentType
      BY <1>0, <1>1, <3>1 DEF Written, AppointmentType, HandlerType
    <3>3. appointments' = [appointments EXCEPT ![i] = row]
      BY <2>2 DEF SaveAppointment
    <3> HIDE DEF row
    <3>4. appointments' \in Seq(AppointmentType) /\ Len(appointments') = k
      BY <1>l, <3>1, <3>2, <3>3, ExceptSeq
    <3> QED BY <3>4, <1>l
  <2> QED BY <2>1, <2>2
<1>3. handler' \in [Handlers -> HandlerType] /\ HandlersSound'
  <2>1. /\ AfterAnalysis(h) \in HandlerType
        /\ Sound(AfterAnalysis(h), Len(requests), Len(appointments'))
    BY <1>0, <1>2, <1>l, AfterAnalysisSound
  <2>2. handler \in [Handlers -> HandlerType] /\ requests' = requests
        /\ handler' = [handler EXCEPT ![h] = AfterAnalysis(h)]
    BY DEF TypeInv, TypeOK, SaveAppointment, Set
  <2>3. \A g \in Handlers : Sound(handler[g], Len(requests), Len(appointments'))
    BY <1>2, <1>l DEF TypeInv, HandlersSound, Sound
  <2>4. \A g \in Handlers : Sound(handler'[g], Len(requests), Len(appointments'))
    BY <2>1, <2>2, <2>3
  <2>5. HandlersSound'
    BY <2>2, <2>4 DEF HandlersSound
  <2> QED BY <2>1, <2>2, <2>5
<1>4. moved' \in BOOLEAN
  BY DEF SaveAppointment, TypeInv, TypeOK
<1> QED BY <1>2, <1>3, <1>4 DEF SaveAppointment, TypeInv, TypeOK, books

\* The three upserts of a sale.
LEMMA SaleTypes ==
  ASSUME TypeInv, NEW h \in Handlers,
         SaveSale(h) \/ SaveTransaction(h) \/ SaveAttribution(h)
  PROVE  TypeInv'
<1>0. /\ handler[h] \in HandlerType /\ handler[h].msg \in Messages
      /\ handler[h].pc # "idle"
      /\ Sound(handler[h], Len(requests), Len(appointments))
  BY DEF TypeInv, TypeOK, HandlersSound, Sound, SaveSale, SaveTransaction, SaveAttribution
<1>1. handler[h].fields.amount \in Nat /\ Key(h) \in Keys
  BY <1>0 DEF HandlerType, Fields, Key, Keys
<1>2. UNCHANGED <<requests, appointments>>
  BY DEF SaveSale, SaveTransaction, SaveAttribution
<1>3. handler' \in [Handlers -> HandlerType] /\ HandlersSound'
  <2>1. CASE SaveSale(h)
    BY <2>1, <1>0, <1>2, GotoKeepsTypes DEF SaveSale, Pcs, Analysis
  <2>2. CASE SaveTransaction(h)
    BY <2>2, <1>0, <1>2, GotoKeepsTypes DEF SaveTransaction, Pcs, Analysis
  <2>3. CASE SaveAttribution(h)
    BY <2>3, <1>0, <1>2, LenInNat, AfterAnalysisSound, SetKeepsTypes DEF SaveAttribution
  <2> QED BY <2>1, <2>2, <2>3
<1>4. /\ sale' \in [Keys -> Nat] /\ tx' \in [Keys -> Nat] /\ attribution' \in [Keys -> Nat]
  BY <1>1 DEF TypeInv, TypeOK, SaveSale, SaveTransaction, SaveAttribution
<1> QED BY <1>3, <1>4 DEF SaveSale, SaveTransaction, SaveAttribution, TypeInv, TypeOK

\* Handlers that start or end, time and failures.
LEMMA OtherTypes ==
  ASSUME TypeInv,
         \/ \E h \in Handlers, m \in Messages : Receive(h, m) \/ N8nLogs(h, m)
         \/ \E h \in Handlers : CallFails(h)
         \/ \E m \in Messages : Forget(m)
         \/ DraftsExpire \/ Restart
  PROVE  TypeInv'
<1> USE DEF rows, books
<1>l. Len(requests) \in Nat /\ Len(appointments) \in Nat
  BY LenInNat
<1>c. ASSUME NEW hs \in SUBSET Handlers PROVE CutShort(hs) \subseteq Messages
  BY DEF CutShort, TypeInv, TypeOK, HandlersSound, Sound, Analysis
<1>1. ASSUME NEW h \in Handlers, NEW m \in Messages, Receive(h, m) \/ N8nLogs(h, m)
      PROVE  TypeInv'
  <2>1. ASSUME NEW pc \in {"store", "lookup"}
        PROVE  /\ [Idle EXCEPT !.pc = pc, !.msg = m] \in HandlerType
               /\ Sound([Idle EXCEPT !.pc = pc, !.msg = m], Len(requests), Len(appointments))
    <3>1. [Idle EXCEPT !.pc = pc, !.msg = m] \in HandlerType
      BY IdleType DEF HandlerType, Pcs
    <3>2. Sound([Idle EXCEPT !.pc = pc, !.msg = m], Len(requests), Len(appointments))
      BY <1>l DEF Sound, Idle
    <3> QED BY <3>1, <3>2
  <2>2. handler' \in [Handlers -> HandlerType] /\ HandlersSound'
    BY <1>1, <2>1, SetKeepsTypes DEF Receive, N8nLogs
  <2> QED BY <1>1, <2>2 DEF Receive, N8nLogs, TypeInv, TypeOK
<1>2. ASSUME NEW h \in Handlers, CallFails(h) PROVE TypeInv'
  <2>0. handler[h] \in HandlerType /\ Sound(handler[h], Len(requests), Len(appointments))
    BY DEF TypeInv, TypeOK, HandlersSound
  <2> DEFINE r == [handler[h] EXCEPT !.pc = "store", !.first = FALSE]
  <2>1. AfterAnalysis(h) \in HandlerType /\ Sound(AfterAnalysis(h), Len(requests), Len(appointments))
    BY <1>2, <1>l, AfterAnalysisSound DEF CallFails
  <2>2. r \in HandlerType
    BY <2>0 DEF HandlerType, Pcs
  <2>3. Sound(r, Len(requests), Len(appointments))
    BY <2>0, <1>2 DEF Sound, HandlerType, CallFails
  <2>4. Idle \in HandlerType /\ Sound(Idle, Len(requests), Len(appointments))
    BY <1>l, IdleType DEF Sound, Idle
  <2>5. handler' \in [Handlers -> HandlerType] /\ HandlersSound'
    BY <1>2, <2>1, <2>2, <2>3, <2>4, SetKeepsTypes DEF CallFails
  <2>6. broken' \subseteq Messages
    BY <1>2, <1>c DEF CallFails, TypeInv, TypeOK
  <2>7. faults' \in 0..MaxFaults
    BY <1>2, FaultsBounded DEF CallFails, TypeInv, TypeOK
  <2> QED BY <1>2, <2>5, <2>6, <2>7 DEF CallFails, TypeInv, TypeOK
<1>3. ASSUME NEW m \in Messages, Forget(m) PROVE TypeInv'
  BY <1>3 DEF Forget, TypeInv, TypeOK, HandlersSound
<1>4. CASE DraftsExpire
  <2>1. DOMAIN requests = 1..Len(requests) /\ \A i \in 1..Len(requests) : requests[i] \in RequestType
    BY LenInNat DEF TypeInv, TypeOK
  <2>2. \A i \in 1..Len(requests) : [requests[i] EXCEPT !.live = FALSE] \in RequestType
    BY <2>1 DEF RequestType
  <2>3. requests' \in [1..Len(requests) -> RequestType]
    BY <1>4, <2>1, <2>2 DEF DraftsExpire
  <2>4. requests' \in Seq(RequestType) /\ Len(requests') = Len(requests)
    BY <1>l, <2>3, FunctionIsSeq
  <2>5. HandlersSound'
    BY <1>4, <2>4 DEF DraftsExpire, TypeInv, HandlersSound
  <2> QED BY <1>4, <2>4, <2>5 DEF DraftsExpire, TypeInv, TypeOK
<1>5. CASE Restart
  <2>1. handler' \in [Handlers -> HandlerType]
    BY <1>5, IdleType DEF Restart
  <2>2. Sound(Idle, Len(requests), Len(appointments))
    BY <1>l DEF Sound, Idle
  <2>3. HandlersSound'
    BY <1>5, <2>2 DEF Restart, HandlersSound
  <2>4. broken' \subseteq Messages /\ faults' \in 0..MaxFaults
    BY <1>5, <1>c, FaultsBounded DEF Restart, TypeInv, TypeOK
  <2> QED BY <1>5, <2>1, <2>3, <2>4 DEF Restart, TypeInv, TypeOK
<1> QED BY <1>1, <1>2, <1>3, <1>4, <1>5

LEMMA TypesInductive ==
  /\ Init => TypeInv
  /\ TypeInv /\ [Next]_vars => TypeInv'
<1>1. ASSUME Init PROVE TypeInv
  <2>1. requests \in Seq(RequestType) /\ appointments \in Seq(AppointmentType)
        /\ Len(requests) = 0 /\ Len(appointments) = 0
    BY <1>1 DEF Init
  <2>2. HandlersSound
    BY <1>1, <2>1 DEF Init, HandlersSound, Sound, Idle
  <2>3. /\ seen \subseteq Messages /\ stored \subseteq Messages /\ raced \subseteq Messages
        /\ recorded \subseteq Messages /\ broken \subseteq Messages
        /\ customers \in Nat /\ overlapped \in BOOLEAN /\ moved \in BOOLEAN
    BY <1>1 DEF Init
  <2>4. /\ sale \in [Keys -> Nat] /\ tx \in [Keys -> Nat] /\ attribution \in [Keys -> Nat]
        /\ forwarded \in [Messages -> 0..2]
    BY <1>1 DEF Init
  <2>5. faults \in 0..MaxFaults /\ handler \in [Handlers -> HandlerType]
    BY <1>1, IdleType, FaultsBounded DEF Init
  <2> QED BY <2>1, <2>2, <2>3, <2>4, <2>5 DEF TypeInv, TypeOK
<1>2. ASSUME TypeInv, [Next]_vars PROVE TypeInv'
  <2>1. CASE UNCHANGED vars
    BY <1>2, <2>1 DEF vars, rows, books, TypeInv, TypeOK, HandlersSound
  <2>2. ASSUME NEW h \in Handlers, Analyse(h) PROVE TypeInv'
    BY <1>2, <2>2, ReadTypes, SaveRequestTypes, SaveAppointmentTypes, SaleTypes DEF Analyse
  <2> QED BY <1>2, <2>1, <2>2, WebhookTypes, OtherTypes DEF Next
<1> QED BY <1>1, <1>2

\* Every variable holds values of its kind, for any messages, orders, number of
\* handlers and failures.
THEOREM AttendantTypesHold == Spec => []TypeOK
<1>1. TypeInv => TypeOK
  BY DEF TypeInv
<1> QED BY <1>1, TypesInductive, PTL DEF Spec

-----------------------------------------------------------------------------
(* The bound on the customer rows: a handler that found none has yet to write  *)
(* its own, and each handler writes one.                                       *)

Creators == {h \in Handlers : handler[h].pc = "create"}
CustomersInv == customers + Cardinality(Creators) <= Cardinality(Handlers)

LEMMA CreatorsFinite ==
  /\ IsFiniteSet(Creators) /\ Cardinality(Creators) \in Nat
  /\ Cardinality(Creators) <= Cardinality(Handlers)
  /\ Cardinality(Handlers) \in Nat
<1>1. Creators \subseteq Handlers /\ IsFiniteSet(Handlers)
  BY DEF Creators, AttendantAssumption
<1> QED BY <1>1, FS_Subset, FS_CardinalityType

\* A step that makes no creator and no row keeps the bound.
LEMMA NoNewCreator ==
  ASSUME TypeInv, CustomersInv, customers' = customers,
         \A g \in Handlers : handler'[g].pc = "create" => handler[g].pc = "create"
  PROVE  CustomersInv'
<1>1. Creators' \subseteq Creators
  BY DEF Creators
<1>2. Cardinality(Creators') <= Cardinality(Creators) /\ Cardinality(Creators') \in Nat
  BY <1>1, CreatorsFinite, FS_Subset, FS_CardinalityType
<1> QED BY <1>2, CreatorsFinite DEF CustomersInv, TypeInv, TypeOK

LEMMA SetMakesNoCreator ==
  ASSUME TypeInv, CustomersInv, NEW h \in Handlers, NEW r, Set(h, r), r.pc # "create",
         customers' = customers
  PROVE  CustomersInv'
BY NoNewCreator DEF Set, TypeInv, TypeOK

LEMMA GotoMakesNoCreator ==
  ASSUME TypeInv, CustomersInv, NEW h \in Handlers, NEW pc, Goto(h, pc), pc # "create",
         customers' = customers
  PROVE  CustomersInv'
<1>1. [handler[h] EXCEPT !.pc = pc].pc # "create"
  BY DEF TypeInv, TypeOK, HandlerType
<1> QED BY <1>1, SetMakesNoCreator DEF Goto

LEMMA CustomersInductive ==
  ASSUME TypeInv, CustomersInv, [Next]_vars PROVE CustomersInv'
<1> USE DEF rows, books
<1>h. \A h \in Handlers : handler[h] \in HandlerType
  BY DEF TypeInv, TypeOK
<1>a. ASSUME NEW h \in Handlers, handler[h].pc # "idle" PROVE AfterAnalysis(h).pc # "create"
  BY <1>a, <1>h DEF AfterAnalysis, Idle
<1>i. Idle.pc # "create"
  BY DEF Idle
<1>1. CASE UNCHANGED vars
  BY <1>1, NoNewCreator DEF vars
<1>2. ASSUME NEW h \in Handlers, FindCustomer(h) PROVE CustomersInv'
  <2>1. CASE customers = 0
    <3>1. Creators' \subseteq Handlers
      BY DEF Creators
    <3>2. Cardinality(Creators') <= Cardinality(Handlers) /\ Cardinality(Creators') \in Nat
      BY <3>1, FS_Subset, FS_CardinalityType DEF AttendantAssumption
    <3>3. customers' = 0
      BY <1>2, <2>1 DEF FindCustomer
    <3> QED BY <3>2, <3>3, CreatorsFinite DEF CustomersInv
  <2>2. CASE customers # 0
    BY <1>2, <2>2, GotoMakesNoCreator DEF FindCustomer
  <2> QED BY <2>1, <2>2
<1>3. ASSUME NEW h \in Handlers, CreateCustomer(h) PROVE CustomersInv'
  <2>1. Creators' = Creators \ {h} /\ h \in Creators /\ customers' = customers + 1
    BY <1>3, <1>h DEF CreateCustomer, Creators, Goto, Set, TypeInv, TypeOK, HandlerType
  <2>2. Cardinality(Creators') = Cardinality(Creators) - 1
    BY <2>1, CreatorsFinite, FS_RemoveElement
  <2> QED BY <2>1, <2>2, CreatorsFinite DEF CustomersInv, TypeInv, TypeOK
<1>4. ASSUME NEW h \in Handlers, WithoutDraft(h), customers' = customers,
             handler[h].pc # "idle"
      PROVE  CustomersInv'
  <2>1. CASE Text[handler[h].msg].intent = "general"
    BY <1>4, <2>1, <1>a, SetMakesNoCreator DEF WithoutDraft
  <2>2. CASE Text[handler[h].msg].intent # "general"
    <3> DEFINE m == handler[h].msg
               r == [handler[h] EXCEPT !.pc = "find", !.draft = 0,
                       !.type = Text[m].intent, !.fields = Said(m)]
    <3>1. r.pc # "create"
      BY <1>h DEF HandlerType
    <3>2. Set(h, r)
      BY <1>4, <2>2 DEF WithoutDraft
    <3> QED BY <1>4, <3>1, <3>2, SetMakesNoCreator
  <2> QED BY <2>1, <2>2
<1>5. ASSUME NEW h \in Handlers, NEW drafts, JoinDraft(h, drafts), customers' = customers
      PROVE  CustomersInv'
  <2> DEFINE m == handler[h].msg
             r(i) == [handler[h] EXCEPT !.pc = "find", !.draft = i,
                        !.type = Effective(Text[m].intent, requests[i].type),
                        !.fields = Merge(requests[i].fields, Said(m))]
  <2>1. PICK i \in Newest(drafts) : Set(h, r(i))
    BY <1>5 DEF JoinDraft
  <2>2. r(i).pc # "create"
    BY <1>h DEF HandlerType
  <2> QED BY <1>5, <2>1, <2>2, SetMakesNoCreator
<1>6. ASSUME NEW h \in Handlers, Analyse(h) PROVE CustomersInv'
  <2>1. CASE FindDraft(h)
    BY <2>1, <1>4, <1>5, GotoMakesNoCreator DEF FindDraft
  <2>2. CASE FindPending(h)
    BY <2>2, <1>4, <1>5 DEF FindPending
  <2>3. CASE SaveRequest(h)
    <3>1. AfterRequest(h).pc # "create" /\ customers' = customers /\ Set(h, AfterRequest(h))
      BY <2>3, <1>a, <1>h DEF AfterRequest, SaveRequest, HandlerType
    <3> QED BY <3>1, SetMakesNoCreator
  <2>4. CASE FindAppointment(h)
    <3> DEFINE r(i) == [handler[h] EXCEPT !.pc = "book", !.appointment = i]
    <3>1. PICK i : Set(h, r(i))
      BY <2>4 DEF FindAppointment
    <3>2. r(i).pc # "create" /\ customers' = customers
      BY <2>4, <1>h DEF HandlerType, FindAppointment
    <3> QED BY <3>1, <3>2, SetMakesNoCreator
  <2>5. CASE SaveAppointment(h)
    BY <2>5, <1>a, SetMakesNoCreator DEF SaveAppointment
  <2>6. CASE SaveSale(h)
    BY <2>6, GotoMakesNoCreator DEF SaveSale
  <2>7. CASE SaveTransaction(h)
    BY <2>7, GotoMakesNoCreator DEF SaveTransaction
  <2>8. CASE SaveAttribution(h)
    BY <2>8, <1>a, SetMakesNoCreator DEF SaveAttribution
  <2> QED BY <1>6, <1>2, <1>3, <2>1, <2>2, <2>3, <2>4, <2>5, <2>6, <2>7, <2>8 DEF Analyse
<1>7. ASSUME NEW h \in Handlers, Webhook(h) PROVE CustomersInv'
  <2>0. /\ [handler[h] EXCEPT !.pc = "store", !.first = FALSE].pc # "create"
        /\ [handler[h] EXCEPT !.pc = "check"].pc # "create"
        /\ \A first : [handler[h] EXCEPT !.pc = "draft", !.first = first].pc # "create"
    BY <1>h DEF HandlerType
  <2>1. CASE Lookup(h)
    BY <2>1, GotoMakesNoCreator DEF Lookup
  <2>2. CASE Configured(h)
    BY <2>2, <2>0, GotoMakesNoCreator, SetMakesNoCreator DEF Configured, StartAnalysis
  <2>3. CASE Forward(h)
    BY <2>3, <2>0, SetMakesNoCreator DEF Forward
  <2>4. CASE Store(h)
    BY <2>4, <2>0, <1>i, SetMakesNoCreator DEF Store
  <2>5. CASE Check(h)
    BY <2>5, <2>0, <1>i, SetMakesNoCreator DEF Check, StartAnalysis
  <2> QED BY <1>7, <2>1, <2>2, <2>3, <2>4, <2>5 DEF Webhook
<1>8. ASSUME NEW h \in Handlers, CallFails(h) PROVE CustomersInv'
  <2>1. [handler[h] EXCEPT !.pc = "store", !.first = FALSE].pc # "create"
    BY <1>h DEF HandlerType
  <2> QED BY <1>8, <2>1, <1>a, <1>i, SetMakesNoCreator DEF CallFails
<1>9. ASSUME NEW h \in Handlers, NEW m \in Messages, Receive(h, m) \/ N8nLogs(h, m)
      PROVE  CustomersInv'
  <2>1. \A pc \in {"store", "lookup"} : [Idle EXCEPT !.pc = pc, !.msg = m].pc # "create"
    BY DEF Idle
  <2> QED BY <1>9, <2>1, SetMakesNoCreator DEF Receive, N8nLogs
<1>10. CASE (\E m \in Messages : Forget(m)) \/ DraftsExpire
  BY <1>10, NoNewCreator DEF Forget, DraftsExpire
<1>11. CASE Restart
  BY <1>11, <1>i, NoNewCreator DEF Restart
<1> QED BY <1>1, <1>6, <1>7, <1>8, <1>9, <1>10, <1>11 DEF Next

\* However many messages, deliveries, failures and restarts there are, a customer
\* never has more rows than deliveries are served at a time.
THEOREM CustomersAreBounded == Spec => []CustomersBounded
<1>1. Init => CustomersInv
  <2>1. ASSUME Init PROVE customers = 0
    BY <2>1 DEF Init
  <2> QED BY <2>1, CreatorsFinite DEF CustomersInv
<1>2. TypeInv /\ CustomersInv => CustomersBounded
  BY CreatorsFinite DEF CustomersInv, CustomersBounded, TypeInv, TypeOK
<1> QED BY <1>1, <1>2, TypesInductive, CustomersInductive, PTL DEF Spec

-----------------------------------------------------------------------------
(* Revenue as stated: order and amount stay together in every text, in every   *)
(* draft and in every handler, whichever of them is read or overwritten next.  *)

Right(f) ==
    \/ f.order = None /\ f.amount = 0
    \/ f.order \in Orders /\ f.amount = Price[f.order]
RequestsRight == \A i \in 1..Len(requests) : Right(requests[i].fields)
HandlersRight == \A h \in Handlers : Right(handler[h].fields)
RightInv == StatesBoth => RequestsRight /\ HandlersRight /\ RevenueAsStated

LEMMA RightFields ==
  /\ Right(NoFields)
  /\ StatesBoth => \A m \in Messages : Right(Said(m))
  /\ \A f \in Fields, g \in Fields : Right(f) /\ Right(g) => Right(Merge(f, g))
<1>1. Right(NoFields)
  BY DEF Right, NoFields
<1>2. StatesBoth => \A m \in Messages : Right(Said(m))
  BY DEF StatesBoth, Right, Said
<1>3. ASSUME NEW f \in Fields, NEW g \in Fields, Right(f), Right(g)
      PROVE  Right(Merge(f, g))
  <2>1. CASE g.order = None /\ g.amount = 0
    <3>1. Merge(f, g).order = f.order /\ Merge(f, g).amount = f.amount
      BY <2>1 DEF Merge
    <3> QED BY <1>3, <3>1 DEF Right
  <2>2. CASE g.order \in Orders /\ g.amount = Price[g.order]
    <3>1. g.order # None /\ g.amount # 0
      BY <2>2 DEF AttendantAssumption
    <3>2. Merge(f, g).order = g.order /\ Merge(f, g).amount = g.amount
      BY <3>1 DEF Merge
    <3> QED BY <2>2, <3>2 DEF Right
  <2> QED BY <1>3, <2>1, <2>2 DEF Right
<1> QED BY <1>1, <1>2, <1>3

\* A step that gives one handler right fields and writes no row keeps them right.
LEMMA SetKeepsRight ==
  ASSUME TypeInv, RightInv, NEW h \in Handlers, NEW r, Set(h, r),
         StatesBoth => Right(r.fields), UNCHANGED <<requests, books>>
  PROVE  RightInv'
<1>1. StatesBoth' = StatesBoth
  BY DEF StatesBoth
<1>2. StatesBoth => HandlersRight'
  BY DEF Set, RightInv, HandlersRight, TypeInv, TypeOK
<1>3. (RequestsRight => RequestsRight') /\ (RevenueAsStated => RevenueAsStated')
  BY DEF RequestsRight, RevenueAsStated, books
<1> QED BY <1>1, <1>2, <1>3 DEF RightInv

LEMMA GotoKeepsRight ==
  ASSUME TypeInv, RightInv, NEW h \in Handlers, NEW pc, Goto(h, pc),
         UNCHANGED <<requests, books>>
  PROVE  RightInv'
<1>1. [handler[h] EXCEPT !.pc = pc].fields = handler[h].fields
  BY DEF TypeInv, TypeOK, HandlerType
<1>2. StatesBoth => Right(handler[h].fields)
  BY DEF RightInv, HandlersRight
<1> QED BY <1>1, <1>2, SetKeepsRight DEF Goto

LEMMA AfterAnalysisRight ==
  ASSUME TypeInv, NEW h \in Handlers
  PROVE  AfterAnalysis(h).fields = NoFields /\ Idle.fields = NoFields
BY DEF AfterAnalysis, Idle

\* An upsert under the key of a handler with right fields.
LEMMA UpsertRight ==
  ASSUME TypeInv, NEW h \in Handlers, handler[h].msg \in Messages, Right(handler[h].fields),
         NEW b \in [Keys -> Nat],
         \A k \in Keys : b[k] # 0 => k \in Orders /\ b[k] = Price[k]
  PROVE  \A k \in Keys :
            LET c == [b EXCEPT ![Key(h)] = handler[h].fields.amount] IN
            c[k] # 0 => k \in Orders /\ c[k] = Price[k]
<1>1. CASE handler[h].fields.order = None /\ handler[h].fields.amount = 0
  BY <1>1
<1>2. CASE /\ handler[h].fields.order \in Orders
           /\ handler[h].fields.amount = Price[handler[h].fields.order]
  <2>1. Key(h) = handler[h].fields.order
    BY <1>2 DEF Key, AttendantAssumption
  <2> QED BY <1>2, <2>1
<1> QED BY <1>1, <1>2 DEF Right

\* A sale writes one of the three tables.
LEMMA SaleRight ==
  ASSUME TypeInv, RightInv, NEW h \in Handlers,
         SaveSale(h) \/ SaveTransaction(h) \/ SaveAttribution(h)
  PROVE  RightInv'
<1> SUFFICES ASSUME StatesBoth
             PROVE  RequestsRight' /\ HandlersRight' /\ RevenueAsStated'
  BY DEF RightInv, StatesBoth
<1>0. /\ RequestsRight /\ HandlersRight /\ RevenueAsStated
      /\ handler[h].msg \in Messages /\ Right(handler[h].fields)
      /\ sale \in [Keys -> Nat] /\ tx \in [Keys -> Nat] /\ attribution \in [Keys -> Nat]
      /\ handler \in [Handlers -> HandlerType]
  BY DEF RightInv, HandlersRight, TypeInv, TypeOK, HandlersSound, Sound,
         SaveSale, SaveTransaction, SaveAttribution
<1>1. /\ \A k \in Keys : sale[k] # 0 => k \in Orders /\ sale[k] = Price[k]
      /\ \A k \in Keys : tx[k] # 0 => k \in Orders /\ tx[k] = Price[k]
      /\ \A k \in Keys : attribution[k] # 0 => k \in Orders /\ attribution[k] = Price[k]
  BY <1>0 DEF RevenueAsStated
<1>2. /\ \A k \in Keys : sale'[k] # 0 => k \in Orders /\ sale'[k] = Price[k]
      /\ \A k \in Keys : tx'[k] # 0 => k \in Orders /\ tx'[k] = Price[k]
      /\ \A k \in Keys : attribution'[k] # 0 => k \in Orders /\ attribution'[k] = Price[k]
  <2>1. CASE SaveSale(h)
    <3>1. sale' = [sale EXCEPT ![Key(h)] = handler[h].fields.amount]
          /\ UNCHANGED <<tx, attribution>>
      BY <2>1 DEF SaveSale
    <3> QED BY <3>1, <1>0, <1>1, UpsertRight
  <2>2. CASE SaveTransaction(h)
    <3>1. tx' = [tx EXCEPT ![Key(h)] = handler[h].fields.amount]
          /\ UNCHANGED <<sale, attribution>>
      BY <2>2 DEF SaveTransaction
    <3> QED BY <3>1, <1>0, <1>1, UpsertRight
  <2>3. CASE SaveAttribution(h)
    <3>1. attribution' = [attribution EXCEPT ![Key(h)] = handler[h].fields.amount]
          /\ UNCHANGED <<sale, tx>>
      BY <2>3 DEF SaveAttribution
    <3> QED BY <3>1, <1>0, <1>1, UpsertRight
  <2> QED BY <2>1, <2>2, <2>3
<1>3. RevenueAsStated'
  BY <1>2 DEF RevenueAsStated
<1>4. RequestsRight'
  BY <1>0 DEF RequestsRight, SaveSale, SaveTransaction, SaveAttribution
<1>5. HandlersRight'
  <2>1. \A pc : [handler[h] EXCEPT !.pc = pc].fields = handler[h].fields
    BY <1>0 DEF HandlerType
  <2>2. ASSUME NEW r, handler' = [handler EXCEPT ![h] = r], Right(r.fields)
        PROVE  HandlersRight'
    BY <2>2, <1>0 DEF HandlersRight
  <2>3. Right(AfterAnalysis(h).fields)
    BY AfterAnalysisRight, RightFields
  <2>4. \A pc : Right([handler[h] EXCEPT !.pc = pc].fields)
    BY <2>1, <1>0
  <2>5. CASE SaveSale(h)
    BY <2>5, <2>2, <2>4 DEF SaveSale, Goto, Set
  <2>6. CASE SaveTransaction(h)
    BY <2>6, <2>2, <2>4 DEF SaveTransaction, Goto, Set
  <2>7. CASE SaveAttribution(h)
    BY <2>7, <2>2, <2>3 DEF SaveAttribution, Set
  <2> QED BY <2>5, <2>6, <2>7
<1> QED BY <1>3, <1>4, <1>5

\* The request is written from the handler's own fields.
LEMMA SaveRequestRight ==
  ASSUME TypeInv, RightInv, NEW h \in Handlers, SaveRequest(h) PROVE RightInv'
<1> SUFFICES ASSUME StatesBoth
             PROVE  RequestsRight' /\ HandlersRight' /\ RevenueAsStated'
  BY DEF RightInv, StatesBoth
<1> DEFINE d == handler[h].draft
           n == Len(requests)
<1>0. /\ RequestsRight /\ HandlersRight /\ RevenueAsStated
      /\ Right(handler[h].fields) /\ handler[h] \in HandlerType
      /\ handler \in [Handlers -> HandlerType]
      /\ requests \in Seq(RequestType) /\ n \in Nat /\ DOMAIN requests = 1..n
  BY LenInNat DEF RightInv, HandlersRight, TypeInv, TypeOK
<1>1. \A at : Right(RequestOf(h, at).fields)
  BY <1>0 DEF RequestOf
<1>2. RequestsRight'
  <2>1. CASE UNCHANGED requests
    BY <2>1, <1>0 DEF RequestsRight
  <2>2. CASE requests' = Append(requests, RequestOf(h, n + 1))
    <3> DEFINE row == RequestOf(h, n + 1)
    <3>1. Right(row.fields)
      BY <1>1
    <3> HIDE DEF row
    <3>2. /\ Len(requests') = n + 1 /\ requests'[n + 1] = row
          /\ \A i \in 1..n : requests'[i] = requests[i]
      BY <2>2, <1>0 DEF row
    <3> QED BY <1>0, <3>1, <3>2 DEF RequestsRight
  <2>3. CASE requests' = Rewritten(h, d)
    <3>1. \A i \in 1..n : requests[i] \in RequestType
      BY <1>0
    <3>2. \A i \in 1..n : [requests[i] EXCEPT !.at = @ - 1].fields = requests[i].fields
      BY <3>1 DEF RequestType
    <3>3. Len(requests') = n /\ \A i \in 1..n : Right(requests'[i].fields)
      <4>1. DOMAIN requests' = 1..n
        BY <2>3, <1>0 DEF Rewritten
      <4>2. Len(requests') = n
        BY <4>1, <1>0 , SaveRequestTypes, LenInNat DEF TypeInv, TypeOK
      <4>3. \A i \in 1..n : Right(requests'[i].fields)
        BY <2>3, <1>0, <1>1, <3>2 DEF Rewritten, RequestsRight
      <4> QED BY <4>2, <4>3
    <3> QED BY <3>3 DEF RequestsRight
  <2> QED BY <2>1, <2>2, <2>3 DEF SaveRequest
<1>3. HandlersRight'
  <2>1. \A pc : [handler[h] EXCEPT !.pc = pc].fields = handler[h].fields
    BY <1>0 DEF HandlerType
  <2>2. Right(AfterRequest(h).fields)
    BY <2>1, <1>0, AfterAnalysisRight, RightFields DEF AfterRequest
  <2> QED BY <2>2, <1>0 DEF HandlersRight, SaveRequest, Set
<1>4. RevenueAsStated'
  BY <1>0 DEF RevenueAsStated, SaveRequest, books
<1> QED BY <1>2, <1>3, <1>4

LEMMA RightInductive ==
  ASSUME TypeInv, RightInv, [Next]_vars PROVE RightInv'
<1>h. \A h \in Handlers : handler[h] \in HandlerType /\ (StatesBoth => Right(handler[h].fields))
  BY DEF TypeInv, TypeOK, RightInv, HandlersRight
<1>a. \A h \in Handlers : Right(AfterAnalysis(h).fields) /\ Right(Idle.fields)
  BY AfterAnalysisRight, RightFields
<1>s. ASSUME NEW h \in Handlers
      PROVE  \A pc, first :
                [handler[h] EXCEPT !.pc = pc, !.first = first].fields = handler[h].fields
  BY <1>h DEF HandlerType
<1>1. CASE UNCHANGED vars
  BY <1>1 DEF vars, rows, books, RightInv, StatesBoth, RequestsRight, HandlersRight, RevenueAsStated
<1>2. ASSUME NEW h \in Handlers, Webhook(h) PROVE RightInv'
  <2> USE DEF rows
  <2>0. [handler[h] EXCEPT !.pc = "check"].fields = handler[h].fields
    BY <1>h DEF HandlerType
  <2>a. ASSUME NEW first, StartAnalysis(h, first), UNCHANGED <<requests, books>>
        PROVE  RightInv'
    <3> DEFINE r == [handler[h] EXCEPT !.pc = "draft", !.first = first]
    <3>1. Set(h, r)
      BY <2>a DEF StartAnalysis
    <3>2. StatesBoth => Right(r.fields)
      BY <1>h, <1>s
    <3> QED BY <2>a, <3>1, <3>2, SetKeepsRight
  <2>1. CASE Lookup(h)
    BY <2>1, GotoKeepsRight DEF Lookup
  <2>2. CASE Configured(h)
    BY <2>2, <2>a, GotoKeepsRight DEF Configured
  <2>3. CASE Forward(h)
    <3> DEFINE r == [handler[h] EXCEPT !.pc = "store", !.first = FALSE]
    <3>1. Set(h, r) /\ UNCHANGED <<requests, books>>
      BY <2>3 DEF Forward
    <3>2. StatesBoth => Right(r.fields)
      BY <1>h, <1>s
    <3> QED BY <3>1, <3>2, SetKeepsRight
  <2>4. CASE Store(h)
    BY <2>4, <2>0, <1>h, <1>a, SetKeepsRight DEF Store
  <2>5. CASE Check(h)
    BY <2>5, <2>a, <1>a, SetKeepsRight DEF Check
  <2> QED BY <1>2, <2>1, <2>2, <2>3, <2>4, <2>5 DEF Webhook
<1>3. ASSUME NEW h \in Handlers, WithoutDraft(h), UNCHANGED <<requests, books>>,
             handler[h].pc # "idle"
      PROVE  RightInv'
  <2> DEFINE m == handler[h].msg
             r == [handler[h] EXCEPT !.pc = "find", !.draft = 0,
                     !.type = Text[m].intent, !.fields = Said(m)]
  <2>1. m \in Messages
    BY <1>3 DEF TypeInv, HandlersSound, Sound
  <2>2. r.fields = Said(m)
    BY <1>h DEF HandlerType
  <2>3. StatesBoth => Right(r.fields)
    BY <2>1, <2>2, RightFields
  <2> QED BY <1>3, <2>3, <1>a, SetKeepsRight DEF WithoutDraft
<1>4. ASSUME NEW h \in Handlers, NEW s, JoinDraft(h, InStatus(s)), UNCHANGED <<requests, books>>,
             handler[h].pc # "idle"
      PROVE  RightInv'
  <2> DEFINE m == handler[h].msg
             r(i) == [handler[h] EXCEPT !.pc = "find", !.draft = i,
                        !.type = Effective(Text[m].intent, requests[i].type),
                        !.fields = Merge(requests[i].fields, Said(m))]
  <2>1. PICK i \in Newest(InStatus(s)) : Set(h, r(i))
    BY <1>4 DEF JoinDraft
  <2>2. m \in Messages /\ i \in 1..Len(requests) /\ requests[i] \in RequestType
    BY <1>4, <2>1, DraftsAreRows DEF TypeInv, HandlersSound, Sound
  <2>3. r(i).fields = Merge(requests[i].fields, Said(m))
    BY <1>h DEF HandlerType
  <2>4. requests[i].fields \in Fields /\ Said(m) \in Fields
    BY <2>2, TextFields DEF RequestType
  <2>5. StatesBoth => Right(r(i).fields)
    BY <2>2, <2>3, <2>4, RightFields DEF RightInv, RequestsRight
  <2> QED BY <1>4, <2>1, <2>5, SetKeepsRight
<1>5. ASSUME NEW h \in Handlers, Analyse(h) PROVE RightInv'
  <2> USE DEF rows
  <2>1. CASE FindDraft(h)
    BY <2>1, <1>3, <1>4, GotoKeepsRight DEF FindDraft
  <2>2. CASE FindPending(h)
    BY <2>2, <1>3, <1>4 DEF FindPending
  <2>3. CASE FindCustomer(h)
    BY <2>3, GotoKeepsRight DEF FindCustomer
  <2>4. CASE CreateCustomer(h)
    BY <2>4, GotoKeepsRight DEF CreateCustomer
  <2>5. CASE FindAppointment(h)
    <3> DEFINE r(i) == [handler[h] EXCEPT !.pc = "book", !.appointment = i]
    <3>1. PICK i : Set(h, r(i))
      BY <2>5 DEF FindAppointment
    <3>2. r(i).fields = handler[h].fields /\ UNCHANGED <<requests, books>>
      BY <2>5, <1>h DEF HandlerType, FindAppointment
    <3> QED BY <3>1, <3>2, <1>h, SetKeepsRight
  <2>6. CASE SaveAppointment(h)
    BY <2>6, <1>a, SetKeepsRight DEF SaveAppointment
  <2> QED BY <1>5, <2>1, <2>2, <2>3, <2>4, <2>5, <2>6, SaveRequestRight, SaleRight DEF Analyse
<1>6. ASSUME NEW h \in Handlers, CallFails(h) PROVE RightInv'
  <2> DEFINE r == [handler[h] EXCEPT !.pc = "store", !.first = FALSE]
  <2>1. StatesBoth => Right(r.fields)
    BY <1>h, <1>s
  <2>2. UNCHANGED <<requests, books>> /\ (Set(h, r) \/ Set(h, AfterAnalysis(h)) \/ Set(h, Idle))
    BY <1>6 DEF CallFails, rows
  <2> QED BY <2>1, <2>2, <1>a, SetKeepsRight
<1>7. ASSUME NEW h \in Handlers, NEW m \in Messages, Receive(h, m) \/ N8nLogs(h, m)
      PROVE  RightInv'
  <2>1. \A pc : [Idle EXCEPT !.pc = pc, !.msg = m].fields = NoFields
    BY DEF Idle
  <2> QED BY <1>7, <2>1, RightFields, SetKeepsRight DEF Receive, N8nLogs, rows
<1>8. ASSUME NEW m \in Messages, Forget(m) PROVE RightInv'
  BY <1>8 DEF Forget, rows, books, RightInv, StatesBoth, RequestsRight, HandlersRight,
              RevenueAsStated
<1>9. CASE DraftsExpire
  <2>1. /\ requests \in Seq(RequestType) /\ Len(requests) \in Nat
        /\ DOMAIN requests = 1..Len(requests)
    BY LenInNat DEF TypeInv, TypeOK
  <2>2. \A i \in 1..Len(requests) : [requests[i] EXCEPT !.live = FALSE].fields = requests[i].fields
    BY <2>1 DEF RequestType
  <2>3. DOMAIN requests' = 1..Len(requests) /\ Len(requests') \in Nat
        /\ DOMAIN requests' = 1..Len(requests')
    BY <1>9, <2>1, OtherTypes, LenInNat DEF DraftsExpire, TypeInv, TypeOK
  <2>4. Len(requests') = Len(requests)
    BY <2>1, <2>3
  <2>5. RequestsRight => RequestsRight'
    BY <1>9, <2>1, <2>2, <2>4 DEF DraftsExpire, RequestsRight
  <2> QED BY <1>9, <2>5 DEF DraftsExpire, books, RightInv, StatesBoth, HandlersRight, RevenueAsStated
<1>10. CASE Restart
  <2>1. HandlersRight'
    BY <1>10, <1>a DEF Restart, HandlersRight
  <2> QED BY <1>10, <2>1 DEF Restart, rows, books, RightInv, StatesBoth, RequestsRight,
                             RevenueAsStated
<1> QED BY <1>1, <1>2, <1>5, <1>6, <1>7, <1>8, <1>9, <1>10 DEF Next

\* When messages state order and amount together, whatever handlers read and
\* overwrite of each other's drafts, no sale, transaction or attribution is booked
\* but under its order number and with the amount of that order.
THEOREM RevenueIsAsStated == Spec => []RevenueAsStated
<1>1. Init => RightInv
  <2>1. ASSUME Init
        PROVE  /\ RequestsRight /\ HandlersRight
               /\ \A k \in Keys : sale[k] = 0 /\ tx[k] = 0 /\ attribution[k] = 0
    BY <2>1, RightFields DEF Init, RequestsRight, HandlersRight, Idle
  <2> QED BY <2>1 DEF RightInv, RevenueAsStated
<1>2. RightInv => RevenueAsStated
  BY DEF RightInv, RevenueAsStated
<1> QED BY <1>1, <1>2, TypesInductive, RightInductive, PTL DEF Spec

-----------------------------------------------------------------------------
(* A message goes to n8n in the first pass of a webhook over it.  Unless two   *)
(* took it for new or something failed, there is one such pass, and from its   *)
(* beginning the message is in the map until it has a row.                     *)

Passes(r, m) ==
    /\ r.msg = m
    /\ r.pc \in {"config", "forward"} \/ (r.pc \in Analysis /\ r.first)
Stores(r, m) == r.msg = m /\ r.pc = "store"

ForwardedFor(m) ==
    /\ forwarded[m] <= 1
    /\ \A g, h \in Handlers : Passes(handler[g], m) /\ Passes(handler[h], m) => g = h
    /\ (\E h \in Handlers : Passes(handler[h], m)) => forwarded[m] = 0
    /\ \/ forwarded[m] = 0 /\ \A h \in Handlers : ~Passes(handler[h], m)
       \/ m \in stored
       \/ m \in seen /\ \E h \in Handlers : Passes(handler[h], m) \/ Stores(handler[h], m)
ForwardInv == \A m \in Messages : faults = 0 /\ m \notin raced => ForwardedFor(m)

\* What is known of the record that follows an analysis.
LEMMA AfterAnalysisIs ==
  ASSUME TypeInv, NEW h \in Handlers
  PROVE  \/ /\ handler[h].first /\ AfterAnalysis(h).pc = "forward"
            /\ AfterAnalysis(h).msg = handler[h].msg
         \/ ~handler[h].first /\ AfterAnalysis(h).pc = "idle"
BY DEF AfterAnalysis, Idle

\* A step of an analysis: the handler goes on in it, or leaves it.
GoesOn(r, n) ==
    n.pc \in Analysis /\ n.msg = r.msg /\ n.first = r.first

LEMMA AnalysisMoves ==
  ASSUME TypeInv, NEW h \in Handlers, Analyse(h)
  PROVE  /\ handler[h].pc \in Analysis
         /\ \E n : Set(h, n) /\ (GoesOn(handler[h], n) \/ n = AfterAnalysis(h))
         /\ UNCHANGED <<seen, stored, faults, forwarded, raced, broken, overlapped>>
<1>h. handler[h] \in HandlerType
  BY DEF TypeInv, TypeOK
<1> DEFINE Moves == \E n : Set(h, n) /\ (GoesOn(handler[h], n) \/ n = AfterAnalysis(h))
<1>g. ASSUME NEW pc \in Analysis, Goto(h, pc) PROVE Moves
  <2>1. GoesOn(handler[h], [handler[h] EXCEPT !.pc = pc])
    BY <1>h DEF GoesOn, HandlerType
  <2> QED BY <1>g, <2>1 DEF Goto
<1>w. ASSUME WithoutDraft(h) PROVE Moves
  <2> DEFINE m == handler[h].msg
             r == [handler[h] EXCEPT !.pc = "find", !.draft = 0,
                     !.type = Text[m].intent, !.fields = Said(m)]
  <2>1. GoesOn(handler[h], r)
    BY <1>h DEF GoesOn, HandlerType, Analysis
  <2>2. Set(h, r) \/ Set(h, AfterAnalysis(h))
    BY <1>w DEF WithoutDraft
  <2> HIDE DEF r
  <2> QED BY <2>1, <2>2
<1>j. ASSUME NEW drafts, JoinDraft(h, drafts) PROVE Moves
  <2> DEFINE m == handler[h].msg
             r(i) == [handler[h] EXCEPT !.pc = "find", !.draft = i,
                        !.type = Effective(Text[m].intent, requests[i].type),
                        !.fields = Merge(requests[i].fields, Said(m))]
  <2>1. PICK i \in Newest(drafts) : Set(h, r(i))
    BY <1>j DEF JoinDraft
  <2>2. GoesOn(handler[h], r(i))
    BY <1>h DEF GoesOn, HandlerType, Analysis
  <2> QED BY <2>1, <2>2
<1> HIDE DEF Moves
<1>1. handler[h].pc \in Analysis
  BY DEF Analyse, FindDraft, FindPending, FindCustomer, CreateCustomer, SaveRequest, FindAppointment,
         SaveAppointment, SaveSale, SaveTransaction, SaveAttribution, Analysis
<1>2. UNCHANGED <<seen, stored, faults, forwarded, raced, broken, overlapped>>
  BY DEF Analyse, FindDraft, FindPending, FindCustomer, CreateCustomer, SaveRequest, FindAppointment,
         SaveAppointment, SaveSale, SaveTransaction, SaveAttribution, rows
<1>3. Moves
  <2>1. CASE FindDraft(h)
    BY <2>1, <1>w, <1>j, <1>g DEF FindDraft, Analysis
  <2>2. CASE FindPending(h)
    BY <2>2, <1>w, <1>j DEF FindPending
  <2>3. CASE FindCustomer(h) \/ CreateCustomer(h) \/ SaveSale(h) \/ SaveTransaction(h)
    BY <2>3, <1>g DEF FindCustomer, CreateCustomer, SaveSale, SaveTransaction, Analysis
  <2>4. CASE SaveRequest(h)
    <3>1. ASSUME NEW pc \in {"look", "sale"}, Set(h, [handler[h] EXCEPT !.pc = pc]) PROVE Moves
      BY <3>1, <1>g DEF Goto, Analysis
    <3>2. ASSUME Set(h, AfterAnalysis(h)) PROVE Moves
      BY <3>2 DEF Moves
    <3> QED BY <2>4, <3>1, <3>2 DEF SaveRequest, AfterRequest
  <2>5. CASE FindAppointment(h)
    <3> DEFINE r(i) == [handler[h] EXCEPT !.pc = "book", !.appointment = i]
    <3>1. PICK i : Set(h, r(i))
      BY <2>5 DEF FindAppointment
    <3>2. GoesOn(handler[h], r(i))
      BY <1>h DEF GoesOn, HandlerType, Analysis
    <3> QED BY <3>1, <3>2 DEF Moves
  <2>6. CASE SaveAppointment(h) \/ SaveAttribution(h)
    <3>1. Set(h, AfterAnalysis(h))
      BY <2>6 DEF SaveAppointment, SaveAttribution
    <3> QED BY <3>1 DEF Moves
  <2> QED BY <2>1, <2>2, <2>3, <2>4, <2>5, <2>6 DEF Analyse
<1> QED BY <1>1, <1>2, <1>3 DEF Moves

\* A handler that neither begins a pass over m nor drops one keeps the claim.
LEMMA PassGoesOn ==
  ASSUME TypeInv, NEW m \in Messages, ForwardedFor(m), NEW h \in Handlers, NEW n, Set(h, n),
         Passes(n, m) => Passes(handler[h], m),
         Passes(handler[h], m) \/ Stores(handler[h], m) =>
             Passes(n, m) \/ Stores(n, m) \/ m \in stored',
         forwarded'[m] = forwarded[m], stored \subseteq stored', seen \subseteq seen'
  PROVE  ForwardedFor(m)'
<1>1. \A g \in Handlers : handler'[g] = IF g = h THEN n ELSE handler[g]
  BY DEF Set, TypeInv, TypeOK
<1>2. \A g \in Handlers : Passes(handler'[g], m) => Passes(handler[g], m)
  BY <1>1
<1>3. \A g \in Handlers : Passes(handler[g], m) \/ Stores(handler[g], m) =>
          Passes(handler'[g], m) \/ Stores(handler'[g], m) \/ m \in stored'
  BY <1>1
<1> QED BY <1>2, <1>3 DEF ForwardedFor

LEMMA NoPass ==
  ASSUME NEW r, NEW m, r.pc \notin {"config", "forward"} \cup Analysis
  PROVE  ~Passes(r, m)
BY DEF Passes

LEMMA WebhookForwards ==
  ASSUME TypeInv, NEW m \in Messages, ForwardedFor(m), m \notin raced',
         NEW h \in Handlers, Webhook(h)
  PROVE  ForwardedFor(m)'
<1> USE DEF rows, books
<1>0. handler[h] \in HandlerType /\ handler \in [Handlers -> HandlerType]
      /\ forwarded \in [Messages -> 0..2]
  BY DEF TypeInv, TypeOK
<1>p. \A pc : [handler[h] EXCEPT !.pc = pc].pc = pc /\ [handler[h] EXCEPT !.pc = pc].msg = handler[h].msg
  BY <1>0 DEF HandlerType
<1>q. \A pc, first : LET r == [handler[h] EXCEPT !.pc = pc, !.first = first] IN
          r.pc = pc /\ r.msg = handler[h].msg /\ r.first = first
  BY <1>0 DEF HandlerType
<1>s. ASSUME NEW n, n.pc = "store", n.msg = handler[h].msg
      PROVE  ~Passes(n, m) /\ (handler[h].msg = m => Stores(n, m))
  BY <1>s DEF Passes, Stores, Analysis
<1>1. CASE Lookup(h)
  <2> DEFINE c == [handler[h] EXCEPT !.pc = "config"]
             s == [handler[h] EXCEPT !.pc = "store"]
  <2>1. CASE handler[h].msg \in stored
    <3>1. Set(h, s) /\ UNCHANGED <<seen, stored, forwarded>>
      BY <1>1, <2>1 DEF Lookup, Goto
    <3>2. ~Passes(s, m) /\ ~Passes(handler[h], m) /\ ~Stores(handler[h], m)
      BY <1>1, <1>p, <1>s DEF Lookup, Passes, Stores, Analysis
    <3> HIDE DEF s
    <3> QED BY <3>1, <3>2, PassGoesOn
  <2>2. CASE handler[h].msg \notin stored /\ handler[h].msg # m
    <3>1. Set(h, c) /\ UNCHANGED <<stored, forwarded>> /\ seen \subseteq seen'
      BY <1>1, <2>2 DEF Lookup, Goto
    <3>2. ~Passes(c, m) /\ ~Passes(handler[h], m) /\ ~Stores(handler[h], m)
      BY <2>2, <1>p DEF Passes, Stores
    <3> HIDE DEF c
    <3> QED BY <3>1, <3>2, PassGoesOn
  <2>3. CASE handler[h].msg \notin stored /\ handler[h].msg = m
    <3>1. m \notin seen /\ m \notin stored
      BY <1>1, <2>3 DEF Lookup
    <3>2. forwarded[m] = 0 /\ \A g \in Handlers : ~Passes(handler[g], m)
      BY <3>1 DEF ForwardedFor
    <3>3. Set(h, c) /\ m \in seen' /\ UNCHANGED <<stored, forwarded>>
      BY <1>1, <2>3 DEF Lookup, Goto
    <3>4. Passes(c, m)
      BY <2>3, <1>p DEF Passes
    <3> HIDE DEF c
    <3>5. \A g \in Handlers : handler'[g] = IF g = h THEN c ELSE handler[g]
      BY <3>3, <1>0 DEF Set
    <3>6. \A g \in Handlers : Passes(handler'[g], m) <=> g = h
      BY <3>2, <3>4, <3>5
    <3> QED BY <3>2, <3>3, <3>6 DEF ForwardedFor
  <2> QED BY <2>1, <2>2, <2>3
<1>2. CASE Configured(h)
  <2> DEFINE d == [handler[h] EXCEPT !.pc = "draft", !.first = TRUE]
             s == [handler[h] EXCEPT !.pc = "store"]
  <2>1. (Set(h, d) \/ Set(h, s)) /\ UNCHANGED <<seen, stored, forwarded>>
    BY <1>2 DEF Configured, StartAnalysis, Goto
  <2>2. (Passes(d, m) <=> Passes(handler[h], m)) /\ ~Passes(s, m)
        /\ (Passes(handler[h], m) => Stores(s, m)) /\ ~Stores(handler[h], m)
    BY <1>2, <1>p, <1>q, <1>s DEF Configured, Passes, Stores, Analysis
  <2> HIDE DEF d, s
  <2> QED BY <2>1, <2>2, PassGoesOn
<1>3. CASE Forward(h)
  <2> DEFINE s == [handler[h] EXCEPT !.pc = "store", !.first = FALSE]
  <2>1. Set(h, s) /\ UNCHANGED <<seen, stored>>
    BY <1>3 DEF Forward
  <2>2. ~Passes(s, m) /\ (handler[h].msg = m => Stores(s, m)) /\ (Passes(handler[h], m) <=> handler[h].msg = m)
        /\ ~Stores(handler[h], m)
    BY <1>3, <1>q, <1>s DEF Forward, Passes, Stores
  <2> HIDE DEF s
  <2>3. CASE forwarded'[m] = forwarded[m]
    <3>1. Passes(handler[h], m) \/ Stores(handler[h], m) => Stores(s, m)
      BY <2>2
    <3> QED BY <2>1, <2>2, <2>3, <3>1, PassGoesOn
  <2>4. CASE forwarded'[m] # forwarded[m]
    <3>1. handler[h].msg = m /\ forwarded'[m] = (IF forwarded[m] = 2 THEN 2 ELSE forwarded[m] + 1)
      BY <1>3, <2>4, <1>0 DEF Forward
    <3>2. Passes(handler[h], m) /\ forwarded[m] = 0
      BY <3>1, <2>2 DEF ForwardedFor
    <3>3. forwarded'[m] = 1
      BY <3>1, <3>2
    <3>4. \A g \in Handlers : handler'[g] = IF g = h THEN s ELSE handler[g]
      BY <2>1, <1>0 DEF Set
    <3>5. \A g \in Handlers : ~Passes(handler'[g], m)
      BY <3>2, <3>4, <2>2 DEF ForwardedFor
    <3>6. m \in stored' \/ (m \in seen' /\ Stores(handler'[h], m))
      BY <2>1, <2>2, <3>1, <3>2, <3>4 DEF ForwardedFor
    <3> QED BY <3>3, <3>5, <3>6 DEF ForwardedFor
  <2> QED BY <2>3, <2>4
<1>4. CASE Store(h)
  <2> DEFINE c == [handler[h] EXCEPT !.pc = "check"]
  <2>1. (Set(h, Idle) \/ Set(h, c)) /\ UNCHANGED <<seen, forwarded>>
        /\ stored' = stored \cup {handler[h].msg}
    BY <1>4 DEF Store
  <2>2. ~Passes(Idle, m) /\ ~Passes(c, m) /\ ~Passes(handler[h], m)
    BY <1>4, <1>p DEF Store, Passes, Idle, Analysis
  <2>3. Stores(handler[h], m) => m \in stored'
    BY <2>1 DEF Stores
  <2> HIDE DEF c
  <2> QED BY <2>1, <2>2, <2>3, PassGoesOn
<1>5. CASE Check(h)
  <2> DEFINE d == [handler[h] EXCEPT !.pc = "draft", !.first = FALSE]
  <2>1. (Set(h, Idle) \/ Set(h, d)) /\ UNCHANGED <<seen, stored, forwarded>>
    BY <1>5 DEF Check, StartAnalysis
  <2>2. ~Passes(Idle, m) /\ ~Passes(d, m) /\ ~Passes(handler[h], m) /\ ~Stores(handler[h], m)
    BY <1>5, <1>q DEF Check, Passes, Stores, Idle, Analysis
  <2> HIDE DEF d
  <2> QED BY <2>1, <2>2, PassGoesOn
<1> QED BY <1>1, <1>2, <1>3, <1>4, <1>5 DEF Webhook

LEMMA ForwardInductive ==
  ASSUME TypeInv, ForwardInv, [Next]_vars PROVE ForwardInv'
<1> USE DEF rows, books
<1> SUFFICES ASSUME NEW m \in Messages, faults' = 0, m \notin raced' PROVE ForwardedFor(m)'
  BY DEF ForwardInv
<1>f. faults \in Nat /\ handler \in [Handlers -> HandlerType]
  BY DEF TypeInv, TypeOK, AttendantAssumption
<1>1. CASE UNCHANGED vars
  BY <1>1 DEF vars, ForwardInv, ForwardedFor
<1>2. ASSUME NEW h \in Handlers, Webhook(h) PROVE ForwardedFor(m)'
  <2>1. faults = 0 /\ m \notin raced
    BY <1>2 DEF Webhook, Lookup, Configured, Forward, Store, Check
  <2> QED BY <1>2, <2>1, WebhookForwards DEF ForwardInv
<1>3. ASSUME NEW h \in Handlers, Analyse(h) PROVE ForwardedFor(m)'
  <2>1. PICK n : Set(h, n) /\ (GoesOn(handler[h], n) \/ n = AfterAnalysis(h))
    BY <1>3, AnalysisMoves
  <2>2. handler[h].pc \in Analysis /\ faults = 0 /\ m \notin raced
        /\ UNCHANGED <<seen, stored, forwarded>>
    BY <1>3, AnalysisMoves
  <2>3. Passes(n, m) <=> Passes(handler[h], m)
    <3>1. CASE GoesOn(handler[h], n)
      BY <3>1, <2>2 DEF GoesOn, Passes, Analysis
    <3>2. CASE n = AfterAnalysis(h)
      BY <3>2, <2>2, AfterAnalysisIs DEF Passes, Analysis
    <3> QED BY <2>1, <3>1, <3>2
  <2>4. ~Stores(handler[h], m)
    BY <2>2 DEF Stores, Analysis
  <2> QED BY <2>1, <2>2, <2>3, <2>4, PassGoesOn DEF ForwardInv
<1>4. ASSUME NEW h \in Handlers, NEW k \in Messages, Receive(h, k) \/ N8nLogs(h, k)
      PROVE  ForwardedFor(m)'
  <2> DEFINE r(pc) == [Idle EXCEPT !.pc = pc, !.msg = k]
  <2>1. PICK pc \in {"store", "lookup"} : Set(h, r(pc))
    BY <1>4 DEF Receive, N8nLogs
  <2>2. ~Passes(r(pc), m) /\ ~Passes(handler[h], m) /\ ~Stores(handler[h], m)
    BY <1>4 DEF Receive, N8nLogs, Passes, Stores, Idle, Analysis
  <2>3. UNCHANGED <<seen, stored, forwarded>> /\ faults = 0 /\ m \notin raced
    BY <1>4 DEF Receive, N8nLogs
  <2> HIDE DEF r
  <2> QED BY <2>1, <2>2, <2>3, PassGoesOn DEF ForwardInv
<1>5. ASSUME NEW h \in Handlers, CallFails(h) PROVE FALSE
  BY <1>5, <1>f DEF CallFails
<1>6. CASE Restart
  BY <1>6, <1>f DEF Restart
<1>7. ASSUME NEW k \in Messages, Forget(k) PROVE ForwardedFor(m)'
  <2>1. faults = 0 /\ m \notin raced /\ UNCHANGED <<stored, handler, forwarded>> /\ seen' = seen \ {k}
    BY <1>7 DEF Forget
  <2>2. ForwardedFor(m)
    BY <2>1 DEF ForwardInv
  <2>3. k = m => \A h \in Handlers : handler[h].msg # m
    BY <1>7 DEF Forget, Busy
  <2> QED BY <2>1, <2>2, <2>3 DEF ForwardedFor, Passes, Stores
<1>8. CASE DraftsExpire
  BY <1>8 DEF DraftsExpire, ForwardInv, ForwardedFor
<1> QED BY <1>1, <1>2, <1>3, <1>4, <1>5, <1>6, <1>7, <1>8 DEF Next

\* A message goes to n8n once, for any messages, resends and number of handlers, unless two
\* webhooks took it for new before either had marked it, or something failed.
THEOREM ForwardedOnceOnly == Spec => []ForwardedOnce
<1>1. Init => ForwardInv
  <2> SUFFICES ASSUME Init, NEW m \in Messages PROVE ForwardedFor(m)
    BY DEF ForwardInv
  <2>1. ASSUME NEW h \in Handlers PROVE ~Passes(handler[h], m)
    BY <2>1 DEF Init, Passes, Idle, Analysis
  <2>2. forwarded[m] = 0
    BY DEF Init
  <2> QED BY <2>1, <2>2 DEF ForwardedFor
<1>2. TypeInv /\ ForwardInv => ForwardedOnce
  <2> SUFFICES ASSUME TypeInv, ForwardInv, NEW m \in Messages, forwarded[m] > 1, m \notin raced
               PROVE  faults > 0
    BY DEF ForwardedOnce
  <2>1. faults \in Nat /\ forwarded[m] \in 0..2
    BY DEF TypeInv, TypeOK
  <2> QED BY <2>1 DEF ForwardInv, ForwardedFor
<1> QED BY <1>1, <1>2, TypesInductive, ForwardInductive, PTL DEF Spec

-----------------------------------------------------------------------------
(* A stored message takes effect: until it is on record somebody has its       *)
(* second analysis before him, and from its record to the last of the three    *)
(* books somebody writes them, or its analysis was cut short for good.         *)

PaysOrder(m) == Text[m].intent = "sale" /\ Text[m].order # None /\ Text[m].amount > 0
Silent(m) == Text[m].intent \in {"general", "data"}

Reads == {"draft", "confirm", "find", "create", "request"}
Prepared == {"find", "create", "request", "look", "book", "sale", "tx", "credit"}
BookPcs == {"sale", "tx", "credit"}

\* What an analysis carries is what its message asks for.
Carries(r) ==
    /\ r.pc \in {"find", "create", "request"} /\ r.draft = 0 => r.type = Text[r.msg].intent
    /\ r.pc \in Prepared /\ PaysOrder(r.msg) =>
          /\ r.type = "sale"
          /\ r.fields.order = Text[r.msg].order /\ r.fields.amount = Text[r.msg].amount
    /\ r.pc \in BookPcs => r.fields.amount > 0

AtWork(hd, m, pcs) == \E h \in Handlers : hd[h].msg = m /\ hd[h].pc \in pcs
IsSecond(r) == r.pc = "check" \/ (r.pc \in Reads /\ ~r.first)
Rereads(hd, m) == \E h \in Handlers : hd[h].msg = m /\ IsSecond(hd[h])

SourcesKnown == \A i \in DOMAIN requests : requests[i].source \in recorded
StoredKept ==
    \A m \in stored \ broken : m \in recorded \/ Silent(m) \/ Rereads(handler, m)
RecordedBooked ==
    \A m \in recorded \ broken : PaysOrder(m) =>
        /\ sale[Text[m].order] > 0 \/ AtWork(handler, m, {"sale"})
        /\ tx[Text[m].order] > 0 \/ AtWork(handler, m, {"sale", "tx"})
        /\ attribution[Text[m].order] > 0 \/ AtWork(handler, m, BookPcs)
EffectInv ==
    /\ \A h \in Handlers : Carries(handler[h])
    /\ SourcesKnown /\ StoredKept /\ RecordedBooked

\* Who is at work stays so when another handler moves.
LEMMA WorkStays ==
  ASSUME TypeInv, NEW h \in Handlers, NEW n, Set(h, n), NEW m
  PROVE  /\ \A pcs : AtWork(handler, m, pcs) =>
                AtWork(handler', m, pcs) \/ (handler[h].msg = m /\ handler[h].pc \in pcs)
         /\ Rereads(handler, m) => Rereads(handler', m) \/ (handler[h].msg = m /\ IsSecond(handler[h]))
         /\ \A pcs : n.msg = m /\ n.pc \in pcs => AtWork(handler', m, pcs)
         /\ n.msg = m /\ IsSecond(n) => Rereads(handler', m)
<1>1. \A g \in Handlers : handler'[g] = IF g = h THEN n ELSE handler[g]
  BY DEF Set, TypeInv, TypeOK
<1> QED BY <1>1 DEF AtWork, Rereads

LEMMA CarriesOn ==
  ASSUME TypeInv, EffectInv, NEW h \in Handlers, NEW n, Set(h, n), Carries(n)
  PROVE  \A g \in Handlers : Carries(handler'[g])
<1>1. \A g \in Handlers : handler'[g] = IF g = h THEN n ELSE handler[g]
  BY DEF Set, TypeInv, TypeOK
<1> QED BY <1>1 DEF EffectInv

\* Steps that write nothing the claim is about.
LEMMA SetKeepsEffects ==
  ASSUME TypeInv, EffectInv, NEW h \in Handlers, NEW n, Set(h, n), Carries(n),
         UNCHANGED <<stored, recorded, requests, books, broken>>,
         IsSecond(handler[h]) =>
            \/ n.msg = handler[h].msg /\ IsSecond(n)
            \/ handler[h].msg \in recorded
            \/ Silent(handler[h].msg),
         handler[h].pc \notin BookPcs
  PROVE  EffectInv'
<1>1. \A g \in Handlers : Carries(handler'[g])
  BY CarriesOn
<1>2. SourcesKnown'
  BY DEF EffectInv, SourcesKnown
<1>3. StoredKept'
  <2> SUFFICES ASSUME NEW m \in stored \ broken PROVE m \in recorded \/ Silent(m) \/ Rereads(handler', m)
    BY DEF StoredKept, Silent
  <2>1. m \in recorded \/ Silent(m) \/ Rereads(handler, m)
    BY DEF EffectInv, StoredKept
  <2> QED BY <2>1, WorkStays
<1>4. RecordedBooked'
  <2> SUFFICES ASSUME NEW m \in recorded \ broken, PaysOrder(m)
               PROVE  /\ sale[Text[m].order] > 0 \/ AtWork(handler', m, {"sale"})
                      /\ tx[Text[m].order] > 0 \/ AtWork(handler', m, {"sale", "tx"})
                      /\ attribution[Text[m].order] > 0 \/ AtWork(handler', m, BookPcs)
    BY DEF RecordedBooked, PaysOrder, books
  <2>1. /\ sale[Text[m].order] > 0 \/ AtWork(handler, m, {"sale"})
        /\ tx[Text[m].order] > 0 \/ AtWork(handler, m, {"sale", "tx"})
        /\ attribution[Text[m].order] > 0 \/ AtWork(handler, m, BookPcs)
    BY DEF EffectInv, RecordedBooked
  <2>2. \A pcs : pcs \subseteq BookPcs => (AtWork(handler, m, pcs) => AtWork(handler', m, pcs))
    BY WorkStays
  <2>3. {"sale"} \subseteq BookPcs /\ {"sale", "tx"} \subseteq BookPcs /\ BookPcs \subseteq BookPcs
    BY DEF BookPcs
  <2> QED BY <2>1, <2>2, <2>3
<1> QED BY <1>1, <1>2, <1>3, <1>4 DEF EffectInv

LEMMA IdleCarries ==
  ASSUME NEW r, r.pc \notin Prepared PROVE Carries(r)
BY DEF Carries, Prepared, BookPcs

LEMMA WebhookEffects ==
  ASSUME TypeInv, EffectInv, NEW h \in Handlers, Webhook(h) PROVE EffectInv'
<1> USE DEF rows
<1>0. handler[h] \in HandlerType
  BY DEF TypeInv, TypeOK
<1>p. \A pc : [handler[h] EXCEPT !.pc = pc].pc = pc /\ [handler[h] EXCEPT !.pc = pc].msg = handler[h].msg
  BY <1>0 DEF HandlerType
<1>q. \A pc, first : LET r == [handler[h] EXCEPT !.pc = pc, !.first = first] IN
          r.pc = pc /\ r.msg = handler[h].msg /\ r.first = first
  BY <1>0 DEF HandlerType
<1>1. CASE Lookup(h) \/ Configured(h) \/ Forward(h)
  <2>1. ~IsSecond(handler[h]) /\ handler[h].pc \notin BookPcs
    BY <1>1 DEF Lookup, Configured, Forward, IsSecond, Reads, BookPcs
  <2>2. UNCHANGED <<stored, recorded, requests, books, broken>>
    BY <1>1 DEF Lookup, Configured, Forward
  <2>3. ASSUME NEW n, Set(h, n), n.pc \in {"store", "config", "draft"} PROVE EffectInv'
    <3>1. n.pc \notin Prepared
      BY <2>3 DEF Prepared
    <3> QED BY <2>1, <2>2, <2>3, <3>1, IdleCarries, SetKeepsEffects
  <2>4. CASE Lookup(h)
    BY <2>4, <2>3, <1>p DEF Lookup, Goto
  <2>5. CASE Configured(h)
    BY <2>5, <2>3, <1>p, <1>q DEF Configured, Goto, StartAnalysis
  <2>6. CASE Forward(h)
    BY <2>6, <2>3, <1>q DEF Forward
  <2> QED BY <1>1, <2>4, <2>5, <2>6
<1>2. CASE Store(h)
  <2> DEFINE m0 == handler[h].msg
             c == [handler[h] EXCEPT !.pc = "check"]
  <2>1. /\ stored' = stored \cup {m0} /\ UNCHANGED <<recorded, requests, books, broken>>
        /\ handler[h].pc = "store"
    BY <1>2 DEF Store
  <2>2. PICK n : Set(h, n) /\ (n = Idle \/ n = c) /\ (m0 \notin stored => n = c)
    <3>1. Set(h, IF m0 \in stored THEN Idle ELSE c)
      BY <1>2 DEF Store
    <3> HIDE DEF c, m0
    <3> QED BY <3>1
  <2>3. Carries(n)
    <3>1. n.pc \notin Prepared
      <4>1. Idle.pc \notin Prepared
        BY DEF Idle, Prepared
      <4>2. c.pc \notin Prepared
        BY <1>p DEF Prepared
      <4> HIDE DEF c
      <4> QED BY <2>2, <4>1, <4>2
    <3> QED BY <3>1, IdleCarries
  <2>4. \A g \in Handlers : Carries(handler'[g])
    BY <2>2, <2>3, CarriesOn
  <2>5. StoredKept'
    <3> SUFFICES ASSUME NEW m \in stored' \ broken PROVE m \in recorded \/ Silent(m) \/ Rereads(handler', m)
      BY <2>1 DEF StoredKept, Silent
    <3>1. CASE m \in stored
      <4>1. ~IsSecond(handler[h])
        BY <2>1 DEF IsSecond, Reads
      <4> QED BY <2>2, <3>1, <4>1, WorkStays DEF EffectInv, StoredKept
    <3>2. CASE m \notin stored
      <4>1. m = m0 /\ n = c
        BY <2>1, <2>2, <3>2
      <4>2. n.msg = m /\ IsSecond(n)
        BY <4>1, <1>p DEF IsSecond
      <4> QED BY <2>2, <4>2, WorkStays
    <3> QED BY <3>1, <3>2
  <2>6. RecordedBooked' /\ SourcesKnown'
    <3>1. handler[h].pc \notin BookPcs
      BY <2>1 DEF BookPcs
    <3>2. ASSUME NEW m, NEW pcs, pcs \subseteq BookPcs, AtWork(handler, m, pcs) PROVE AtWork(handler', m, pcs)
      BY <2>2, <3>1, <3>2, WorkStays
    <3>3. {"sale"} \subseteq BookPcs /\ {"sale", "tx"} \subseteq BookPcs /\ BookPcs \subseteq BookPcs
      BY DEF BookPcs
    <3>4. SourcesKnown'
      BY <2>1 DEF EffectInv, SourcesKnown
    <3>5. RecordedBooked'
      BY <2>1, <3>2, <3>3 DEF EffectInv, RecordedBooked, PaysOrder, books
    <3> QED BY <3>4, <3>5
  <2> QED BY <2>4, <2>5, <2>6 DEF EffectInv
<1>3. CASE Check(h)
  <2> DEFINE d == [handler[h] EXCEPT !.pc = "draft", !.first = FALSE]
  <2>1. /\ handler[h].pc = "check" /\ UNCHANGED <<stored, recorded, requests, books, broken>>
        /\ handler[h].pc \notin BookPcs
    BY <1>3 DEF Check, BookPcs
  <2>2. CASE OnRequest(handler[h].msg) /\ Set(h, Idle)
    <3>1. handler[h].msg \in recorded
      BY <2>2 DEF OnRequest, EffectInv, SourcesKnown
    <3>2. Carries(Idle)
      BY IdleCarries DEF Idle, Prepared
    <3> QED BY <2>1, <2>2, <3>1, <3>2, SetKeepsEffects
  <2>3. CASE Set(h, d)
    <3>1. d.msg = handler[h].msg /\ IsSecond(d) /\ d.pc \notin Prepared
      BY <1>q DEF IsSecond, Reads, Prepared
    <3> HIDE DEF d
    <3> QED BY <2>1, <2>3, <3>1, IdleCarries, SetKeepsEffects
  <2> QED BY <1>3, <2>2, <2>3 DEF Check, StartAnalysis
<1> QED BY <1>1, <1>2, <1>3 DEF Webhook

\* What an analysis carries after finding a draft or none.
LEMMA DraftCarries ==
  ASSUME TypeInv, NEW h \in Handlers, handler[h].pc \in {"draft", "confirm"},
         NEW s, WithoutDraft(h) \/ JoinDraft(h, InStatus(s))
  PROVE  \E n : /\ Set(h, n) /\ Carries(n)
                /\ IsSecond(handler[h]) => (n.msg = handler[h].msg /\ IsSecond(n)) \/ Silent(handler[h].msg)
<1> DEFINE m == handler[h].msg
<1>0. handler[h] \in HandlerType /\ m \in Messages
  BY DEF TypeInv, TypeOK, HandlersSound, Sound
<1>1. CASE WithoutDraft(h) /\ Text[m].intent = "general"
  <2>1. Set(h, AfterAnalysis(h)) /\ Silent(m)
    BY <1>1 DEF WithoutDraft, Silent
  <2>2. AfterAnalysis(h).pc \notin Prepared
    BY AfterAnalysisIs DEF Prepared
  <2> QED BY <2>1, <2>2, IdleCarries
<1>2. CASE WithoutDraft(h) /\ Text[m].intent # "general"
  <2> DEFINE n == [handler[h] EXCEPT !.pc = "find", !.draft = 0,
                     !.type = Text[m].intent, !.fields = Said(m)]
  <2>1. Set(h, n)
    BY <1>2 DEF WithoutDraft
  <2>2. n.pc = "find" /\ n.msg = m /\ n.first = handler[h].first /\ n.type = Text[m].intent /\ n.fields = Said(m)
    BY <1>0 DEF HandlerType
  <2> HIDE DEF n
  <2>3. Carries(n)
    BY <2>2 DEF Carries, PaysOrder, Said, BookPcs
  <2>4. IsSecond(handler[h]) => IsSecond(n)
    BY <2>2 DEF IsSecond, Reads
  <2> QED BY <2>1, <2>2, <2>3, <2>4
<1>3. CASE JoinDraft(h, InStatus(s))
  <2> DEFINE r(i) == [handler[h] EXCEPT !.pc = "find", !.draft = i,
                        !.type = Effective(Text[m].intent, requests[i].type),
                        !.fields = Merge(requests[i].fields, Said(m))]
  <2>1. PICK i \in Newest(InStatus(s)) : Set(h, r(i))
    BY <1>3 DEF JoinDraft
  <2>2. i \in 1..Len(requests) /\ Len(requests) \in Nat
    BY <2>1, DraftsAreRows, LenInNat
  <2>3. /\ r(i).pc = "find" /\ r(i).msg = m /\ r(i).first = handler[h].first /\ r(i).draft = i
        /\ r(i).type = Effective(Text[m].intent, requests[i].type)
        /\ r(i).fields = Merge(requests[i].fields, Said(m))
    BY <1>0 DEF HandlerType
  <2>4. PICK n : n = r(i)
    OBVIOUS
  <2> HIDE DEF r
  <2>5. n.draft # 0
    BY <2>2, <2>3, <2>4
  <2>6. PaysOrder(m) => n.type = "sale"
    BY <2>3, <2>4 DEF PaysOrder, Effective
  <2>7. PaysOrder(m) => n.fields.order = Text[m].order /\ n.fields.amount = Text[m].amount
    <3>1. Text[m].amount \in Nat
      BY <1>0, TextFields DEF TextType
    <3> QED BY <2>3, <2>4, <3>1 DEF PaysOrder, Merge, Said
  <2>8. Carries(n)
    BY <2>3, <2>4, <2>5, <2>6, <2>7 DEF Carries, BookPcs
  <2>9. IsSecond(handler[h]) => IsSecond(n)
    BY <2>3, <2>4 DEF IsSecond, Reads
  <2> QED BY <2>1, <2>3, <2>4, <2>8, <2>9
<1> QED BY <1>1, <1>2, <1>3

\* A step on that keeps what is carried.
LEMMA PcCarries ==
  ASSUME TypeInv, EffectInv, NEW h \in Handlers, NEW pc,
         \/ handler[h].pc \in {"find", "create", "request"} /\ pc \in {"create", "request"}
         \/ handler[h].pc \in BookPcs /\ pc \in BookPcs
  PROVE  Carries([handler[h] EXCEPT !.pc = pc])
<1>0. handler[h] \in HandlerType /\ Carries(handler[h])
  BY DEF TypeInv, TypeOK, EffectInv
<1> DEFINE r == [handler[h] EXCEPT !.pc = pc]
<1>1. r.pc = pc /\ r.msg = handler[h].msg /\ r.draft = handler[h].draft /\ r.type = handler[h].type
      /\ r.fields = handler[h].fields
  BY <1>0 DEF HandlerType
<1> HIDE DEF r
<1>2. Carries(r)
  BY <1>0, <1>1 DEF Carries, Prepared, BookPcs
<1> QED BY <1>2 DEF r

LEMMA FindEffects ==
  ASSUME TypeInv, EffectInv, NEW h \in Handlers,
         FindDraft(h) \/ FindPending(h) \/ FindCustomer(h) \/ CreateCustomer(h)
  PROVE  EffectInv'
<1> USE DEF rows
<1>0. handler[h] \in HandlerType
  BY DEF TypeInv, TypeOK
<1>p. \A pc : LET r == [handler[h] EXCEPT !.pc = pc] IN
          r.pc = pc /\ r.msg = handler[h].msg /\ r.first = handler[h].first
  BY <1>0 DEF HandlerType
<1>1. UNCHANGED <<stored, recorded, requests, books, broken>> /\ handler[h].pc \notin BookPcs
      /\ handler[h].pc \in Reads
  BY DEF FindDraft, FindPending, FindCustomer, CreateCustomer, BookPcs, Reads
<1>2. ASSUME NEW s, WithoutDraft(h) \/ JoinDraft(h, InStatus(s)), handler[h].pc \in {"draft", "confirm"}
      PROVE  EffectInv'
  BY <1>1, <1>2, DraftCarries, SetKeepsEffects
<1>3. ASSUME NEW pc \in {"confirm", "create", "request"}, Goto(h, pc),
             pc = "confirm" \/ handler[h].pc \in {"find", "create", "request"}
      PROVE  EffectInv'
  <2> DEFINE n == [handler[h] EXCEPT !.pc = pc]
  <2>1. n.pc = pc /\ n.msg = handler[h].msg /\ n.first = handler[h].first
    BY <1>p
  <2>2. Carries(n)
    <3>1. CASE pc = "confirm"
      <4>1. n.pc \notin Prepared
        BY <2>1, <3>1 DEF Prepared
      <4> HIDE DEF n
      <4> QED BY <4>1, IdleCarries
    <3>2. CASE pc # "confirm"
      <4>1. handler[h].pc \in {"find", "create", "request"} /\ pc \in {"create", "request"}
        BY <1>3, <3>2
      <4> QED BY <4>1, PcCarries
    <3> QED BY <3>1, <3>2
  <2>3. Set(h, n)
    BY <1>3 DEF Goto
  <2> HIDE DEF n
  <2>4. IsSecond(handler[h]) => IsSecond(n)
    BY <1>1, <1>3, <2>1 DEF IsSecond, Reads
  <2> QED BY <1>1, <2>1, <2>2, <2>3, <2>4, SetKeepsEffects
<1>4. CASE FindDraft(h)
  BY <1>4, <1>2, <1>3 DEF FindDraft
<1>5. CASE FindPending(h)
  BY <1>5, <1>2 DEF FindPending
<1>6. CASE FindCustomer(h)
  BY <1>6, <1>3 DEF FindCustomer
<1>7. CASE CreateCustomer(h)
  BY <1>7, <1>3 DEF CreateCustomer
<1> QED BY <1>4, <1>5, <1>6, <1>7

\* The appointment.
LEMMA AppointmentEffects ==
  ASSUME TypeInv, EffectInv, NEW h \in Handlers, FindAppointment(h) \/ SaveAppointment(h)
  PROVE  EffectInv'
<1> USE DEF rows
<1>0. handler[h] \in HandlerType /\ Carries(handler[h])
  BY DEF TypeInv, TypeOK, EffectInv
<1>1. /\ UNCHANGED <<stored, recorded, requests, books, broken>>
      /\ handler[h].pc \notin BookPcs /\ ~IsSecond(handler[h])
  BY DEF FindAppointment, SaveAppointment, BookPcs, IsSecond, Reads
<1>2. CASE FindAppointment(h)
  <2> DEFINE r(i) == [handler[h] EXCEPT !.pc = "book", !.appointment = i]
  <2>1. PICK i : Set(h, r(i))
    BY <1>2 DEF FindAppointment
  <2>2. /\ r(i).pc = "book" /\ r(i).msg = handler[h].msg /\ r(i).draft = handler[h].draft
        /\ r(i).type = handler[h].type /\ r(i).fields = handler[h].fields
    BY <1>0 DEF HandlerType
  <2> HIDE DEF r
  <2>3. Carries(r(i))
    BY <1>0, <1>2, <2>2 DEF Carries, Prepared, BookPcs, FindAppointment
  <2> QED BY <1>1, <2>1, <2>3, SetKeepsEffects
<1>3. CASE SaveAppointment(h)
  <2>1. AfterAnalysis(h).pc \notin Prepared /\ Set(h, AfterAnalysis(h))
    BY <1>3, AfterAnalysisIs DEF Prepared, SaveAppointment
  <2> QED BY <1>1, <2>1, IdleCarries, SetKeepsEffects
<1> QED BY <1>2, <1>3

\* The request: from here on the books are this handler's.
LEMMA RequestEffects ==
  ASSUME TypeInv, EffectInv, NEW h \in Handlers, SaveRequest(h) PROVE EffectInv'
<1> DEFINE m0 == handler[h].msg
           d == handler[h].draft
           n == AfterRequest(h)
<1>0. /\ handler[h] \in HandlerType /\ m0 \in Messages /\ handler[h].pc = "request"
      /\ Carries(handler[h])
  BY DEF TypeInv, TypeOK, HandlersSound, Sound, SaveRequest, EffectInv
<1>1. /\ Set(h, n) /\ UNCHANGED <<stored, books, broken>>
      /\ \/ d = 0 /\ handler[h].type = "data" /\ UNCHANGED <<requests, recorded>>
         \/ /\ recorded' = recorded \cup {m0}
            /\ requests' = IF d = 0 THEN Append(requests, RequestOf(h, Len(requests) + 1))
                           ELSE Rewritten(h, d)
  BY DEF SaveRequest
<1>p. \A pc : LET r == [handler[h] EXCEPT !.pc = pc] IN
          r.pc = pc /\ r.msg = m0 /\ r.draft = d /\ r.type = handler[h].type
          /\ r.fields = handler[h].fields
  BY <1>0 DEF HandlerType
<1>2. /\ Carries(n)
      /\ PaysOrder(m0) => n.msg = m0 /\ n.pc = "sale"
  <2>1. AfterAnalysis(h).pc \notin Prepared
    BY AfterAnalysisIs DEF Prepared
  <2>2. PaysOrder(m0) => handler[h].type = "sale" /\ handler[h].fields.amount > 0
    BY <1>0 DEF Carries, Prepared, PaysOrder
  <2>3. ASSUME NEW pc \in {"look", "sale"}, pc = "sale" => handler[h].fields.amount > 0
        PROVE  Carries([handler[h] EXCEPT !.pc = pc])
    <3> DEFINE r == [handler[h] EXCEPT !.pc = pc]
    <3>1. r.pc = pc /\ r.msg = m0 /\ r.draft = d /\ r.type = handler[h].type
          /\ r.fields = handler[h].fields
      BY <1>p
    <3> HIDE DEF r
    <3>2. Carries(r)
      BY <2>3, <3>1, <1>0 DEF Carries, Prepared, BookPcs
    <3> QED BY <3>2 DEF r
  <2>4. Carries(AfterAnalysis(h))
    BY <2>1, IdleCarries
  <2>5. CASE handler[h].type \in Visits
    BY <2>2, <2>3, <2>5 DEF AfterRequest
  <2>6. CASE handler[h].type = "sale" /\ handler[h].fields.amount > 0
    <3>1. n = [handler[h] EXCEPT !.pc = "sale"]
      BY <2>6 DEF AfterRequest
    <3> QED BY <2>3, <2>6, <3>1, <1>p
  <2>7. CASE handler[h].type \notin Visits /\ ~(handler[h].type = "sale" /\ handler[h].fields.amount > 0)
    BY <2>2, <2>4, <2>7 DEF AfterRequest
  <2> QED BY <2>5, <2>6, <2>7
<1> HIDE DEF n
<1>3. \A g \in Handlers : Carries(handler'[g])
  BY <1>1, <1>2, CarriesOn
<1>4. SourcesKnown'
  <2>1. /\ requests \in Seq(RequestType) /\ DOMAIN requests = 1..Len(requests) /\ Len(requests) \in Nat
        /\ \A i \in 1..Len(requests) : requests[i] \in RequestType /\ requests[i].source \in recorded
    BY LenInNat DEF TypeInv, TypeOK, EffectInv, SourcesKnown
  <2>2. CASE UNCHANGED <<requests, recorded>>
    BY <2>2 DEF EffectInv, SourcesKnown
  <2>3. CASE recorded' = recorded \cup {m0} /\ requests' = Append(requests, RequestOf(h, Len(requests) + 1))
    <3> DEFINE row == RequestOf(h, Len(requests) + 1)
    <3>1. row.source = m0
      BY DEF RequestOf
    <3> HIDE DEF row
    <3>2. /\ DOMAIN requests' = 1..(Len(requests) + 1) /\ requests'[Len(requests) + 1] = row
          /\ \A i \in 1..Len(requests) : requests'[i] = requests[i]
      BY <2>1, <2>3 DEF row
    <3> QED BY <2>1, <2>3, <3>1, <3>2 DEF SourcesKnown
  <2>4. CASE recorded' = recorded \cup {m0} /\ requests' = Rewritten(h, d)
    <3>1. \A i \in 1..Len(requests) : [requests[i] EXCEPT !.at = @ - 1].source = requests[i].source
      BY <2>1 DEF RequestType
    <3>2. RequestOf(h, Len(requests)).source = m0
      BY DEF RequestOf
    <3>3. ASSUME NEW i \in 1..Len(requests) PROVE requests'[i].source \in recorded'
      <4> DEFINE row == RequestOf(h, Len(requests))
      <4> HIDE DEF row
      <4>1. requests'[i] = IF i = d THEN row
                           ELSE IF requests[i].at > requests[d].at
                           THEN [requests[i] EXCEPT !.at = @ - 1] ELSE requests[i]
        BY <2>1, <2>4 DEF Rewritten, row
      <4> QED BY <2>1, <2>4, <3>1, <3>2, <4>1 DEF row
    <3>4. DOMAIN requests' = 1..Len(requests)
      BY <2>1, <2>4 DEF Rewritten
    <3> QED BY <3>3, <3>4 DEF SourcesKnown
  <2> QED BY <1>1, <2>2, <2>3, <2>4
<1>5. StoredKept'
  <2> SUFFICES ASSUME NEW m \in stored \ broken PROVE m \in recorded' \/ Silent(m) \/ Rereads(handler', m)
    BY <1>1 DEF StoredKept, Silent
  <2>1. m \in recorded \/ Silent(m) \/ Rereads(handler, m)
    BY DEF EffectInv, StoredKept
  <2>2. CASE m = m0
    BY <1>0, <1>1, <2>2 DEF Silent, Carries
  <2>3. CASE m # m0
    BY <1>1, <2>1, <2>3, WorkStays
  <2> QED BY <2>2, <2>3
<1>6. RecordedBooked'
  <2> SUFFICES ASSUME NEW m \in recorded' \ broken, PaysOrder(m)
               PROVE  /\ sale[Text[m].order] > 0 \/ AtWork(handler', m, {"sale"})
                      /\ tx[Text[m].order] > 0 \/ AtWork(handler', m, {"sale", "tx"})
                      /\ attribution[Text[m].order] > 0 \/ AtWork(handler', m, BookPcs)
    BY <1>1 DEF RecordedBooked, PaysOrder, books
  <2>0. /\ "sale" \in {"sale"} /\ "sale" \in {"sale", "tx"} /\ "sale" \in BookPcs
        /\ "request" \notin {"sale"} /\ "request" \notin {"sale", "tx"} /\ "request" \notin BookPcs
    BY DEF BookPcs
  <2>1. CASE m = m0
    BY <1>1, <1>2, <2>0, <2>1, WorkStays
  <2>2. CASE m # m0
    <3>1. m \in recorded
      BY <1>1, <2>2
    <3>2. /\ sale[Text[m].order] > 0 \/ AtWork(handler, m, {"sale"})
          /\ tx[Text[m].order] > 0 \/ AtWork(handler, m, {"sale", "tx"})
          /\ attribution[Text[m].order] > 0 \/ AtWork(handler, m, BookPcs)
      BY <3>1 DEF EffectInv, RecordedBooked
    <3> QED BY <1>1, <2>2, <3>2, WorkStays
  <2> QED BY <2>1, <2>2
<1> QED BY <1>3, <1>4, <1>5, <1>6 DEF EffectInv

\* One of the three upserts of a sale: it makes its book good, and passes on the rest.
LEMMA UpsertPays ==
  ASSUME TypeInv, EffectInv, NEW h \in Handlers, handler[h].pc \in BookPcs, NEW b \in [Keys -> Nat]
  PROVE  LET c == [b EXCEPT ![Key(h)] = handler[h].fields.amount] IN
         /\ \A k \in Keys : b[k] > 0 => c[k] > 0
         /\ PaysOrder(handler[h].msg) => c[Text[handler[h].msg].order] > 0
<1>0. /\ handler[h] \in HandlerType /\ handler[h].msg \in Messages /\ Carries(handler[h])
      /\ handler[h].pc \in Prepared
  BY DEF TypeInv, TypeOK, HandlersSound, Sound, EffectInv, BookPcs, Prepared
<1> DEFINE k0 == Key(h)
           a == handler[h].fields.amount
<1>1. a > 0 /\ a \in Nat /\ k0 \in Keys
  BY <1>0 DEF Carries, HandlerType, Fields, Key, Keys
<1>2. ASSUME PaysOrder(handler[h].msg) PROVE k0 = Text[handler[h].msg].order
  BY <1>0, <1>2 DEF Carries, Key, PaysOrder
<1> HIDE DEF k0, a
<1>3. \A k \in Keys : b[k] > 0 => [b EXCEPT ![k0] = a][k] > 0
  BY <1>1
<1>4. [b EXCEPT ![k0] = a][k0] > 0
  BY <1>1
<1> QED BY <1>2, <1>3, <1>4 DEF k0, a

LEMMA SaleEffects ==
  ASSUME TypeInv, EffectInv, NEW h \in Handlers,
         SaveSale(h) \/ SaveTransaction(h) \/ SaveAttribution(h)
  PROVE  EffectInv'
<1> DEFINE m0 == handler[h].msg
           put(b) == [b EXCEPT ![Key(h)] = handler[h].fields.amount]
<1>0. /\ handler[h] \in HandlerType /\ handler[h].pc \in BookPcs /\ ~IsSecond(handler[h])
      /\ sale \in [Keys -> Nat] /\ tx \in [Keys -> Nat] /\ attribution \in [Keys -> Nat]
  BY DEF TypeInv, TypeOK, SaveSale, SaveTransaction, SaveAttribution, BookPcs, IsSecond, Reads
<1>p. \A pc : LET r == [handler[h] EXCEPT !.pc = pc] IN r.pc = pc /\ r.msg = m0
  BY <1>0 DEF HandlerType
<1>1. UNCHANGED <<stored, recorded, requests, broken>>
  BY DEF SaveSale, SaveTransaction, SaveAttribution
<1>2. \E n : /\ Set(h, n) /\ Carries(n)
             /\ \/ /\ handler[h].pc = "sale" /\ n.pc = "tx" /\ n.msg = m0
                   /\ sale' = put(sale) /\ UNCHANGED <<tx, attribution>>
                \/ /\ handler[h].pc = "tx" /\ n.pc = "credit" /\ n.msg = m0
                   /\ tx' = put(tx) /\ UNCHANGED <<sale, attribution>>
                \/ /\ handler[h].pc = "credit"
                   /\ attribution' = put(attribution) /\ UNCHANGED <<sale, tx>>
  <2> HIDE DEF put
  <2>1. CASE SaveSale(h)
    <3>1. Carries([handler[h] EXCEPT !.pc = "tx"])
      BY <1>0, PcCarries DEF BookPcs
    <3>2. sale' = put(sale) /\ UNCHANGED <<tx, attribution>> /\ handler[h].pc = "sale"
      BY <2>1 DEF SaveSale, put
    <3> QED BY <2>1, <3>1, <3>2, <1>p DEF SaveSale, Goto
  <2>2. CASE SaveTransaction(h)
    <3>1. Carries([handler[h] EXCEPT !.pc = "credit"])
      BY <1>0, PcCarries DEF BookPcs
    <3>2. tx' = put(tx) /\ UNCHANGED <<sale, attribution>> /\ handler[h].pc = "tx"
      BY <2>2 DEF SaveTransaction, put
    <3> QED BY <2>2, <3>1, <3>2, <1>p DEF SaveTransaction, Goto
  <2>3. CASE SaveAttribution(h)
    <3>1. AfterAnalysis(h).pc \notin Prepared
      BY AfterAnalysisIs DEF Prepared
    <3>2. attribution' = put(attribution) /\ UNCHANGED <<sale, tx>> /\ handler[h].pc = "credit"
          /\ Set(h, AfterAnalysis(h))
      BY <2>3 DEF SaveAttribution, put
    <3> QED BY <3>1, <3>2, IdleCarries
  <2> QED BY <2>1, <2>2, <2>3
<1>3. PICK n : /\ Set(h, n) /\ Carries(n)
               /\ \/ /\ handler[h].pc = "sale" /\ n.pc = "tx" /\ n.msg = m0
                     /\ sale' = put(sale) /\ UNCHANGED <<tx, attribution>>
                  \/ /\ handler[h].pc = "tx" /\ n.pc = "credit" /\ n.msg = m0
                     /\ tx' = put(tx) /\ UNCHANGED <<sale, attribution>>
                  \/ /\ handler[h].pc = "credit"
                     /\ attribution' = put(attribution) /\ UNCHANGED <<sale, tx>>
  BY <1>2
<1>4. /\ \A g \in Handlers : Carries(handler'[g])
      /\ SourcesKnown' /\ StoredKept'
  <2>1. \A g \in Handlers : Carries(handler'[g])
    BY <1>3, CarriesOn
  <2>2. SourcesKnown'
    BY <1>1 DEF EffectInv, SourcesKnown
  <2>3. \A m : Rereads(handler, m) => Rereads(handler', m)
    BY <1>0, <1>3, WorkStays
  <2>4. StoredKept'
    BY <1>1, <2>3 DEF EffectInv, StoredKept, Silent
  <2> QED BY <2>1, <2>2, <2>4
<1>5. \A b \in [Keys -> Nat] :
          /\ \A k \in Keys : b[k] > 0 => put(b)[k] > 0
          /\ PaysOrder(m0) => put(b)[Text[m0].order] > 0
  BY <1>0, UpsertPays
<1> HIDE DEF put
<1>6. RecordedBooked'
  <2> SUFFICES ASSUME NEW m \in recorded \ broken, PaysOrder(m)
               PROVE  /\ sale'[Text[m].order] > 0 \/ AtWork(handler', m, {"sale"})
                      /\ tx'[Text[m].order] > 0 \/ AtWork(handler', m, {"sale", "tx"})
                      /\ attribution'[Text[m].order] > 0 \/ AtWork(handler', m, BookPcs)
    BY <1>1 DEF RecordedBooked, PaysOrder
  <2> DEFINE o == Text[m].order
  <2>1. o \in Keys
    <3>1. m \in Messages
      BY DEF TypeInv, TypeOK
    <3> QED BY <3>1, TextFields DEF TextType, PaysOrder, Keys
  <2>2. /\ sale[o] > 0 \/ AtWork(handler, m, {"sale"})
        /\ tx[o] > 0 \/ AtWork(handler, m, {"sale", "tx"})
        /\ attribution[o] > 0 \/ AtWork(handler, m, BookPcs)
    BY DEF EffectInv, RecordedBooked
  <2>3. /\ \A pcs : AtWork(handler, m, pcs) => AtWork(handler', m, pcs) \/ (m0 = m /\ handler[h].pc \in pcs)
        /\ \A pcs : n.msg = m /\ n.pc \in pcs => AtWork(handler', m, pcs)
    BY <1>3, WorkStays
  <2> HIDE DEF o
  <2>4. CASE handler[h].pc = "sale"
    <3>1. /\ n.pc = "tx" /\ n.msg = m0 /\ sale' = put(sale) /\ UNCHANGED <<tx, attribution>>
      BY <1>3, <2>4
    <3>2. sale[o] > 0 => sale'[o] > 0
      BY <1>0, <1>5, <2>1, <3>1
    <3>3. m = m0 => sale'[o] > 0
      BY <1>0, <1>5, <3>1 DEF o
    <3>4. m = m0 => AtWork(handler', m, {"sale", "tx"}) /\ AtWork(handler', m, BookPcs)
      BY <2>3, <3>1 DEF BookPcs
    <3> QED BY <2>2, <2>3, <3>1, <3>2, <3>3, <3>4 DEF o
  <2>5. CASE handler[h].pc = "tx"
    <3>1. /\ n.pc = "credit" /\ n.msg = m0 /\ tx' = put(tx) /\ UNCHANGED <<sale, attribution>>
      BY <1>3, <2>5
    <3>2. tx[o] > 0 => tx'[o] > 0
      BY <1>0, <1>5, <2>1, <3>1
    <3>3. m = m0 => tx'[o] > 0
      BY <1>0, <1>5, <3>1 DEF o
    <3>4. m = m0 => AtWork(handler', m, BookPcs)
      BY <2>3, <3>1 DEF BookPcs
    <3>5. handler[h].pc \notin {"sale"}
      BY <2>5
    <3> QED BY <2>2, <2>3, <3>1, <3>2, <3>3, <3>4, <3>5 DEF o
  <2>6. CASE handler[h].pc = "credit"
    <3>1. attribution' = put(attribution) /\ UNCHANGED <<sale, tx>>
      BY <1>3, <2>6
    <3>2. attribution[o] > 0 => attribution'[o] > 0
      BY <1>0, <1>5, <2>1, <3>1
    <3>3. m = m0 => attribution'[o] > 0
      BY <1>0, <1>5, <3>1 DEF o
    <3>4. handler[h].pc \notin {"sale"} /\ handler[h].pc \notin {"sale", "tx"}
      BY <2>6
    <3> QED BY <2>2, <2>3, <3>1, <3>2, <3>3, <3>4 DEF o
  <2> QED BY <1>3, <2>4, <2>5, <2>6
<1> QED BY <1>4, <1>6 DEF EffectInv

\* Who is cut short while others rely on him is marked.
LEMMA CutShortMarks ==
  ASSUME NEW h \in Handlers, NEW hs, h \in hs,
         IsSecond(handler[h]) \/ handler[h].pc \in BookPcs
  PROVE  handler[h].msg \in CutShort(hs)
BY DEF IsSecond, Reads, BookPcs, CutShort, Analysis

LEMMA OtherEffects ==
  ASSUME TypeInv, EffectInv,
         \/ \E h \in Handlers, m \in Messages : Receive(h, m) \/ N8nLogs(h, m)
         \/ \E h \in Handlers : CallFails(h)
         \/ \E m \in Messages : Forget(m)
         \/ DraftsExpire \/ Restart
  PROVE  EffectInv'
<1> USE DEF rows
<1>1. ASSUME NEW h \in Handlers, NEW k \in Messages, Receive(h, k) \/ N8nLogs(h, k) PROVE EffectInv'
  <2> DEFINE r(pc) == [Idle EXCEPT !.pc = pc, !.msg = k]
  <2>1. PICK pc \in {"store", "lookup"} : Set(h, r(pc))
    BY <1>1 DEF Receive, N8nLogs
  <2>2. r(pc).pc \notin Prepared
    BY DEF Idle, Prepared
  <2>3. /\ UNCHANGED <<stored, recorded, requests, books, broken>>
        /\ ~IsSecond(handler[h]) /\ handler[h].pc \notin BookPcs
    BY <1>1 DEF Receive, N8nLogs, IsSecond, Reads, BookPcs
  <2> HIDE DEF r
  <2> QED BY <2>1, <2>2, <2>3, IdleCarries, SetKeepsEffects
<1>2. ASSUME NEW h \in Handlers, CallFails(h) PROVE EffectInv'
  <2> DEFINE r == [handler[h] EXCEPT !.pc = "store", !.first = FALSE]
  <2>0. handler[h] \in HandlerType
    BY DEF TypeInv, TypeOK
  <2>1. /\ UNCHANGED <<stored, recorded, requests, books>>
        /\ broken \subseteq broken' /\ CutShort({h}) \subseteq broken'
    BY <1>2 DEF CallFails
  <2>2. PICK n : Set(h, n) /\ n.pc \notin Prepared
    <3>1. r.pc \notin Prepared /\ AfterAnalysis(h).pc \notin Prepared /\ Idle.pc \notin Prepared
      BY <2>0, AfterAnalysisIs DEF HandlerType, Prepared, Idle
    <3>2. Set(h, r) \/ Set(h, AfterAnalysis(h)) \/ Set(h, Idle)
      BY <1>2 DEF CallFails
    <3> HIDE DEF r
    <3> QED BY <3>1, <3>2
  <2>3. \A g \in Handlers : Carries(handler'[g])
    BY <2>2, IdleCarries, CarriesOn
  <2>4. SourcesKnown'
    BY <2>1 DEF EffectInv, SourcesKnown
  <2>5. StoredKept'
    <3> SUFFICES ASSUME NEW m \in stored \ broken' PROVE m \in recorded \/ Silent(m) \/ Rereads(handler', m)
      BY <2>1 DEF StoredKept, Silent
    <3>1. m \in recorded \/ Silent(m) \/ Rereads(handler, m)
      BY <2>1 DEF EffectInv, StoredKept
    <3>2. ~(handler[h].msg = m /\ IsSecond(handler[h]))
      BY <2>1, CutShortMarks
    <3> QED BY <2>2, <3>1, <3>2, WorkStays
  <2>6. RecordedBooked'
    <3> SUFFICES ASSUME NEW m \in recorded \ broken', PaysOrder(m)
                 PROVE  /\ sale[Text[m].order] > 0 \/ AtWork(handler', m, {"sale"})
                        /\ tx[Text[m].order] > 0 \/ AtWork(handler', m, {"sale", "tx"})
                        /\ attribution[Text[m].order] > 0 \/ AtWork(handler', m, BookPcs)
      BY <2>1 DEF RecordedBooked, PaysOrder, books
    <3>1. /\ sale[Text[m].order] > 0 \/ AtWork(handler, m, {"sale"})
          /\ tx[Text[m].order] > 0 \/ AtWork(handler, m, {"sale", "tx"})
          /\ attribution[Text[m].order] > 0 \/ AtWork(handler, m, BookPcs)
      BY <2>1 DEF EffectInv, RecordedBooked
    <3>2. ~(handler[h].msg = m /\ handler[h].pc \in BookPcs)
      BY <2>1, CutShortMarks
    <3>3. \A pcs : pcs \subseteq BookPcs => (AtWork(handler, m, pcs) => AtWork(handler', m, pcs))
      BY <2>2, <3>2, WorkStays
    <3>4. {"sale"} \subseteq BookPcs /\ {"sale", "tx"} \subseteq BookPcs /\ BookPcs \subseteq BookPcs
      BY DEF BookPcs
    <3> QED BY <3>1, <3>3, <3>4
  <2> QED BY <2>3, <2>4, <2>5, <2>6 DEF EffectInv
<1>3. ASSUME NEW k \in Messages, Forget(k) PROVE EffectInv'
  BY <1>3 DEF Forget, books, EffectInv, SourcesKnown, StoredKept, RecordedBooked, Silent, PaysOrder
<1>4. CASE DraftsExpire
  <2>1. DOMAIN requests = 1..Len(requests) /\ \A i \in 1..Len(requests) : requests[i] \in RequestType
    BY LenInNat DEF TypeInv, TypeOK
  <2>2. \A i \in DOMAIN requests : [requests[i] EXCEPT !.live = FALSE].source = requests[i].source
    BY <2>1 DEF RequestType
  <2>3. SourcesKnown'
    <3>1. \A i \in DOMAIN requests : requests[i].source \in recorded
      BY DEF EffectInv, SourcesKnown
    <3>2. /\ recorded' = recorded /\ DOMAIN requests' = DOMAIN requests
          /\ \A i \in DOMAIN requests : requests'[i] = [requests[i] EXCEPT !.live = FALSE]
      BY <1>4 DEF DraftsExpire
    <3>3. \A i \in DOMAIN requests : requests'[i].source = requests[i].source
      BY <2>2, <3>2
    <3> QED BY <3>1, <3>2, <3>3 DEF SourcesKnown
  <2>4. UNCHANGED <<stored, books, handler, recorded, broken>>
    BY <1>4 DEF DraftsExpire
  <2> QED BY <2>3, <2>4 DEF books, EffectInv, StoredKept, RecordedBooked, Silent, PaysOrder
<1>5. CASE Restart
  <2>1. /\ UNCHANGED <<stored, recorded, requests, books>> /\ handler' = [h \in Handlers |-> Idle]
        /\ broken' = broken \cup CutShort(Handlers)
    BY <1>5 DEF Restart
  <2>2. \A g \in Handlers : Carries(handler'[g])
    <3>1. Carries(Idle)
      BY IdleCarries DEF Idle, Prepared
    <3> HIDE DEF Idle
    <3> QED BY <2>1, <3>1
  <2>3. SourcesKnown'
    BY <2>1 DEF EffectInv, SourcesKnown
  <2>4. ASSUME NEW m, Rereads(handler, m) PROVE m \in broken'
    BY <2>1, <2>4, CutShortMarks DEF Rereads
  <2>5. ASSUME NEW m, NEW pcs, pcs \subseteq BookPcs, AtWork(handler, m, pcs) PROVE m \in broken'
    BY <2>1, <2>5, CutShortMarks DEF AtWork
  <2>6. StoredKept'
    BY <2>1, <2>4 DEF EffectInv, StoredKept, Silent
  <2>7. {"sale"} \subseteq BookPcs /\ {"sale", "tx"} \subseteq BookPcs /\ BookPcs \subseteq BookPcs
    BY DEF BookPcs
  <2>8. RecordedBooked'
    BY <2>1, <2>5, <2>7 DEF EffectInv, RecordedBooked, PaysOrder, books
  <2> QED BY <2>2, <2>3, <2>6, <2>8 DEF EffectInv
<1> QED BY <1>1, <1>2, <1>3, <1>4, <1>5

LEMMA EffectsInductive ==
  ASSUME TypeInv, EffectInv, [Next]_vars PROVE EffectInv'
<1>1. CASE UNCHANGED vars
  BY <1>1 DEF vars, rows, books, EffectInv, SourcesKnown, StoredKept, RecordedBooked, Silent, PaysOrder
<1>2. ASSUME NEW h \in Handlers, Analyse(h) PROVE EffectInv'
  BY <1>2, FindEffects, RequestEffects, AppointmentEffects, SaleEffects DEF Analyse
<1> QED BY <1>1, <1>2, WebhookEffects, OtherEffects DEF Next

\* Every stored message took effect when nothing is in progress, but for an analysis that
\* was cut short, for any messages, drafts, resends and number of handlers.
THEOREM MessagesTakeEffect == Spec => []MessageTakesEffect
<1>1. Init => EffectInv
  <2> SUFFICES ASSUME Init PROVE EffectInv
    OBVIOUS
  <2>1. \A h \in Handlers : Carries(handler[h])
    BY IdleCarries DEF Init, Idle, Prepared
  <2> QED BY <2>1 DEF Init, EffectInv, SourcesKnown, StoredKept, RecordedBooked
<1>2. TypeInv /\ EffectInv => MessageTakesEffect
  <2> SUFFICES ASSUME TypeInv, EffectInv, Quiet, NEW m \in stored \ broken
               PROVE  /\ ~Silent(m) => m \in recorded
                      /\ PaysOrder(m) =>
                            \A book \in {sale, tx, attribution} : book[Text[m].order] > 0
    BY DEF MessageTakesEffect, Silent, PaysOrder
  <2>1. ~Rereads(handler, m) /\ ~AtWork(handler, m, {"sale"}) /\ ~AtWork(handler, m, {"sale", "tx"})
        /\ ~AtWork(handler, m, BookPcs)
    BY DEF Quiet, Rereads, IsSecond, Reads, AtWork, BookPcs
  <2>2. ~Silent(m) => m \in recorded
    BY <2>1 DEF EffectInv, StoredKept
  <2>3. PaysOrder(m) => ~Silent(m)
    BY DEF PaysOrder, Silent
  <2> QED BY <2>1, <2>2, <2>3 DEF EffectInv, RecordedBooked
<1> QED BY <1>1, <1>2, TypesInductive, EffectsInductive, PTL DEF Spec

-----------------------------------------------------------------------------
(* Analyses that do not overlap find what the one before has written.  When    *)
(* requests for an appointment state its time, so do all drafts and rows.      *)

Timed(r) == r.type \in Visits => r.fields.slot # None
TimedCall(r) ==
    /\ r.pc \in Prepared => Timed(r)
    /\ r.pc \in {"look", "book"} => r.type \in Visits
TimedInv ==
    StatesTime =>
        /\ \A i \in 1..Len(requests) : Timed(requests[i])
        /\ \A h \in Handlers : TimedCall(handler[h])
        /\ \A i \in 1..Len(appointments) : appointments[i].slot # None

\* No two appointments of one intent at one time, nor one like what r asks for.
Distinct(visits) ==
    \A i, j \in 1..Len(visits) :
        visits[i].intent = visits[j].intent /\ visits[i].slot = visits[j].slot => i = j
NewVisit(r, visits) ==
    \A i \in 1..Len(visits) : visits[i].intent # r.type \/ visits[i].slot # r.fields.slot

AloneInv ==
    ~overlapped =>
        /\ \A g, h \in Handlers : handler[g].pc \in Analysis /\ handler[h].pc \in Analysis => g = h
        /\ customers <= 1
        /\ \A h \in Handlers : handler[h].pc = "create" => customers = 0
        /\ StatesTime /\ ~moved =>
            /\ Distinct(appointments)
            /\ \A h \in Handlers :
                  handler[h].pc = "book" /\ handler[h].appointment = 0
                    => NewVisit(handler[h], appointments)

LEMMA SetKeepsTimed ==
  ASSUME TypeInv, TimedInv, NEW h \in Handlers, NEW n, Set(h, n), StatesTime => TimedCall(n),
         UNCHANGED <<requests, appointments>>
  PROVE  TimedInv'
<1>1. \A g \in Handlers : handler'[g] = IF g = h THEN n ELSE handler[g]
  BY DEF Set, TypeInv, TypeOK
<1> QED BY <1>1 DEF TimedInv, StatesTime

LEMMA UnpreparedTimed ==
  ASSUME NEW r, r.pc \notin Prepared PROVE TimedCall(r)
BY DEF TimedCall, Prepared

LEMMA SameTimed ==
  ASSUME TypeInv, NEW h \in Handlers, TimedCall(handler[h]), handler[h].pc \in Prepared,
         NEW r, r.type = handler[h].type, r.fields = handler[h].fields,
         r.pc \in {"look", "book"} => handler[h].type \in Visits
  PROVE  TimedCall(r)
BY DEF TimedCall, Timed

LEMMA SetKeepsAlone ==
  ASSUME TypeInv, AloneInv, NEW h \in Handlers, NEW n, Set(h, n),
         UNCHANGED <<customers, appointments, overlapped, moved>>,
         n.pc \in Analysis => handler[h].pc \in Analysis,
         n.pc = "create" => customers = 0,
         StatesTime /\ n.pc = "book" /\ n.appointment = 0 => NewVisit(n, appointments)
  PROVE  AloneInv'
<1>1. \A g \in Handlers : handler'[g] = IF g = h THEN n ELSE handler[g]
  BY DEF Set, TypeInv, TypeOK
<1> SUFFICES ASSUME ~overlapped
             PROVE  /\ \A f, g \in Handlers : handler'[f].pc \in Analysis /\ handler'[g].pc \in Analysis => f = g
                    /\ customers <= 1
                    /\ \A g \in Handlers : handler'[g].pc = "create" => customers = 0
                    /\ StatesTime /\ ~moved =>
                        /\ Distinct(appointments)
                        /\ \A g \in Handlers :
                              handler'[g].pc = "book" /\ handler'[g].appointment = 0
                                => NewVisit(handler'[g], appointments)
  BY DEF AloneInv, StatesTime
<1> QED BY <1>1 DEF AloneInv

\* An analysis begins: alone, or it counts as overlapped.
LEMMA StartAlone ==
  ASSUME TypeInv, AloneInv, NEW h \in Handlers, NEW first, StartAnalysis(h, first),
         UNCHANGED <<customers, appointments, moved>>
  PROVE  AloneInv'
<1> DEFINE n == [handler[h] EXCEPT !.pc = "draft", !.first = first]
<1>1. Set(h, n) /\ n.pc = "draft"
  BY DEF StartAnalysis, TypeInv, TypeOK, HandlerType
<1> HIDE DEF n
<1>2. \A g \in Handlers : handler'[g] = IF g = h THEN n ELSE handler[g]
  BY <1>1 DEF Set, TypeInv, TypeOK
<1>3. ~overlapped' => ~overlapped /\ \A g \in Handlers : handler[g].pc \notin Analysis
  BY DEF StartAnalysis, TypeInv, TypeOK
<1>4. "create" \in Analysis /\ "book" \in Analysis
  BY DEF Analysis
<1> QED BY <1>1, <1>2, <1>3, <1>4 DEF AloneInv, StatesTime

LEMMA WebhookAlone ==
  ASSUME TypeInv, TimedInv, AloneInv, NEW h \in Handlers, Webhook(h) PROVE TimedInv' /\ AloneInv'
<1> USE DEF rows
<1>0. handler[h] \in HandlerType
  BY DEF TypeInv, TypeOK
<1>p. \A pc : [handler[h] EXCEPT !.pc = pc].pc = pc
  BY <1>0 DEF HandlerType
<1>q. \A pc, first : [handler[h] EXCEPT !.pc = pc, !.first = first].pc = pc
  BY <1>0 DEF HandlerType
<1>1. ASSUME NEW n, Set(h, n), n.pc \in {"idle", "store", "config", "check"}
      PROVE  /\ TimedCall(n) /\ n.pc \notin Analysis /\ n.pc # "create" /\ n.pc # "book"
  <2>1. n.pc \notin Prepared /\ n.pc \notin Analysis /\ n.pc # "create" /\ n.pc # "book"
    BY <1>1 DEF Prepared, Analysis
  <2> QED BY <2>1, UnpreparedTimed
<1>2. UNCHANGED <<requests, appointments, customers, moved>>
  BY DEF Webhook, Lookup, Configured, Forward, Store, Check
<1>3. ASSUME NEW first, StartAnalysis(h, first) PROVE TimedInv' /\ AloneInv'
  <2> DEFINE n == [handler[h] EXCEPT !.pc = "draft", !.first = first]
  <2>1. Set(h, n) /\ n.pc \notin Prepared
    BY <1>3, <1>q DEF StartAnalysis, Prepared
  <2> HIDE DEF n
  <2> QED BY <1>2, <1>3, <2>1, UnpreparedTimed, SetKeepsTimed, StartAlone
<1>4. ASSUME NEW n, Set(h, n), n.pc \in {"idle", "store", "config", "check"}, UNCHANGED overlapped
      PROVE  TimedInv' /\ AloneInv'
  BY <1>1, <1>2, <1>4, SetKeepsTimed, SetKeepsAlone
<1>i. Idle.pc = "idle"
  BY DEF Idle
<1>5. CASE Lookup(h)
  BY <1>5, <1>4, <1>p DEF Lookup, Goto
<1>6. CASE Configured(h)
  BY <1>6, <1>3, <1>4, <1>p DEF Configured, Goto
<1>7. CASE Forward(h)
  BY <1>7, <1>4, <1>q DEF Forward
<1>8. CASE Store(h)
  <2> DEFINE c == [handler[h] EXCEPT !.pc = "check"]
  <2>1. c.pc = "check" /\ (Set(h, Idle) \/ Set(h, c)) /\ UNCHANGED overlapped
    BY <1>8, <1>p DEF Store
  <2> HIDE DEF c, Idle
  <2> QED BY <2>1, <1>4, <1>i
<1>9. CASE Check(h)
  BY <1>9, <1>3, <1>4, <1>i DEF Check
<1> QED BY <1>5, <1>6, <1>7, <1>8, <1>9 DEF Webhook

LEMMA DraftTimed ==
  ASSUME TypeInv, TimedInv, NEW h \in Handlers, handler[h].pc \in {"draft", "confirm"},
         NEW s, WithoutDraft(h) \/ JoinDraft(h, InStatus(s))
  PROVE  \E n : /\ Set(h, n) /\ (StatesTime => TimedCall(n))
                /\ n.pc \in {"find", "idle", "forward"}
<1> DEFINE m == handler[h].msg
<1>0. handler[h] \in HandlerType /\ m \in Messages
  BY DEF TypeInv, TypeOK, HandlersSound, Sound
<1>1. CASE WithoutDraft(h) /\ Text[m].intent = "general"
  <2>1. Set(h, AfterAnalysis(h)) /\ AfterAnalysis(h).pc \in {"idle", "forward"}
    BY <1>1, AfterAnalysisIs DEF WithoutDraft
  <2>2. AfterAnalysis(h).pc \notin Prepared
    BY <2>1 DEF Prepared
  <2> QED BY <2>1, <2>2, UnpreparedTimed
<1>2. CASE WithoutDraft(h) /\ Text[m].intent # "general"
  <2> DEFINE n == [handler[h] EXCEPT !.pc = "find", !.draft = 0,
                     !.type = Text[m].intent, !.fields = Said(m)]
  <2>1. Set(h, n)
    BY <1>2 DEF WithoutDraft
  <2>2. n.pc = "find" /\ n.type = Text[m].intent /\ n.fields.slot = Text[m].slot
    BY <1>0 DEF HandlerType, Said
  <2> HIDE DEF n
  <2> QED BY <1>0, <2>1, <2>2 DEF TimedCall, Timed, StatesTime
<1>3. CASE JoinDraft(h, InStatus(s))
  <2> DEFINE r(i) == [handler[h] EXCEPT !.pc = "find", !.draft = i,
                        !.type = Effective(Text[m].intent, requests[i].type),
                        !.fields = Merge(requests[i].fields, Said(m))]
  <2>1. PICK i \in Newest(InStatus(s)) : Set(h, r(i))
    BY <1>3 DEF JoinDraft
  <2>2. i \in 1..Len(requests)
    BY <2>1, DraftsAreRows
  <2>3. /\ r(i).pc = "find"
        /\ r(i).type = Effective(Text[m].intent, requests[i].type)
        /\ r(i).fields = Merge(requests[i].fields, Said(m))
    BY <1>0 DEF HandlerType
  <2>4. ASSUME StatesTime, Effective(Text[m].intent, requests[i].type) \in Visits
        PROVE  Merge(requests[i].fields, Said(m)).slot # None
    <3>1. Text[m].intent \in Visits \/ requests[i].type \in Visits
      BY <2>4 DEF Effective
    <3>2. Text[m].slot # None \/ requests[i].fields.slot # None
      BY <2>2, <2>4, <3>1, <1>0 DEF StatesTime, TimedInv, Timed
    <3> QED BY <3>2 DEF Merge, Said
  <2>5. PICK n : n = r(i)
    OBVIOUS
  <2> HIDE DEF r
  <2>6. n.pc = "find" /\ (StatesTime => TimedCall(n))
    BY <2>3, <2>4, <2>5 DEF TimedCall, Timed
  <2> QED BY <2>1, <2>5, <2>6
<1> QED BY <1>1, <1>2, <1>3

LEMMA FindAlone ==
  ASSUME TypeInv, TimedInv, AloneInv, NEW h \in Handlers, FindDraft(h) \/ FindPending(h)
  PROVE  TimedInv' /\ AloneInv'
<1> USE DEF rows
<1>0. handler[h] \in HandlerType
  BY DEF TypeInv, TypeOK
<1>1. UNCHANGED <<requests, customers, appointments, overlapped, moved>> /\ handler[h].pc \in {"draft", "confirm"}
      /\ handler[h].pc \in Analysis
  BY DEF FindDraft, FindPending, Analysis
<1>2. PICK n : /\ Set(h, n) /\ (StatesTime => TimedCall(n))
               /\ n.pc \in {"find", "idle", "forward", "confirm"}
  <2>1. CASE \E s : WithoutDraft(h) \/ JoinDraft(h, InStatus(s))
    BY <1>1, <2>1, DraftTimed
  <2>2. CASE Goto(h, "confirm")
    <3> DEFINE c == [handler[h] EXCEPT !.pc = "confirm"]
    <3>1. Set(h, c) /\ c.pc = "confirm"
      BY <2>2, <1>0 DEF Goto, HandlerType
    <3> HIDE DEF c
    <3>2. TimedCall(c)
      BY <3>1, UnpreparedTimed DEF Prepared
    <3> QED BY <3>1, <3>2
  <2> QED BY <2>1, <2>2 DEF FindDraft, FindPending
<1> QED BY <1>1, <1>2, SetKeepsTimed, SetKeepsAlone

LEMMA CustomerAlone ==
  ASSUME TypeInv, TimedInv, AloneInv, NEW h \in Handlers, FindCustomer(h) \/ CreateCustomer(h)
  PROVE  TimedInv' /\ AloneInv'
<1> USE DEF rows
<1>0. handler[h] \in HandlerType /\ (StatesTime => TimedCall(handler[h]))
  BY DEF TypeInv, TypeOK, TimedInv
<1>1. /\ UNCHANGED <<requests, appointments, overlapped, moved>>
      /\ handler[h].pc \in {"find", "create"} /\ handler[h].pc \in Analysis /\ handler[h].pc \in Prepared
  BY DEF FindCustomer, CreateCustomer, Analysis, Prepared
<1>2. ASSUME NEW pc \in {"create", "request"}, Goto(h, pc)
      PROVE  \E n : Set(h, n) /\ n.pc = pc /\ (StatesTime => TimedCall(n))
  <2> DEFINE n == [handler[h] EXCEPT !.pc = pc]
  <2>1. Set(h, n) /\ n.pc = pc /\ n.type = handler[h].type /\ n.fields = handler[h].fields
    BY <1>2, <1>0 DEF Goto, HandlerType
  <2> HIDE DEF n
  <2>2. StatesTime => TimedCall(n)
    BY <1>0, <1>1, <1>2, <2>1, SameTimed
  <2> QED BY <2>1, <2>2
<1>3. CASE FindCustomer(h)
  <2>1. PICK pc \in {"create", "request"} : Goto(h, pc) /\ (pc = "create" => customers = 0)
    BY <1>3 DEF FindCustomer
  <2>2. PICK n : Set(h, n) /\ n.pc = pc /\ (StatesTime => TimedCall(n))
    BY <1>2, <2>1
  <2>3. UNCHANGED customers
    BY <1>3 DEF FindCustomer
  <2> QED BY <1>1, <2>1, <2>2, <2>3, SetKeepsTimed, SetKeepsAlone
<1>4. CASE CreateCustomer(h)
  <2>1. /\ handler[h].pc = "create" /\ customers' = customers + 1
    BY <1>4 DEF CreateCustomer
  <2>2. PICK n : Set(h, n) /\ n.pc = "request" /\ (StatesTime => TimedCall(n))
    BY <1>4, <1>2 DEF CreateCustomer
  <2>3. TimedInv'
    BY <1>1, <2>2, SetKeepsTimed
  <2>4. \A g \in Handlers : handler'[g] = IF g = h THEN n ELSE handler[g]
    BY <2>2 DEF Set, TypeInv, TypeOK
  <2>5. ASSUME ~overlapped
        PROVE  /\ \A f, g \in Handlers : handler'[f].pc \in Analysis /\ handler'[g].pc \in Analysis => f = g
               /\ customers' = 1
               /\ \A g \in Handlers : handler'[g].pc # "create"
               /\ StatesTime /\ ~moved =>
                   /\ Distinct(appointments)
                   /\ \A g \in Handlers :
                         handler'[g].pc = "book" /\ handler'[g].appointment = 0
                           => NewVisit(handler'[g], appointments)
    <3>1. \A g \in Handlers : handler[g].pc \in Analysis => g = h
      BY <1>1, <2>5 DEF AloneInv
    <3>2. customers = 0
      BY <2>1, <2>5 DEF AloneInv
    <3>3. "create" \in Analysis /\ "book" \in Analysis
      BY DEF Analysis
    <3> QED BY <2>1, <2>2, <2>4, <2>5, <3>1, <3>2, <3>3 DEF AloneInv
  <2>6. AloneInv'
    BY <1>1, <2>5 DEF AloneInv, StatesTime
  <2> QED BY <2>3, <2>6
<1> QED BY <1>3, <1>4

LEMMA RequestAlone ==
  ASSUME TypeInv, TimedInv, AloneInv, NEW h \in Handlers, SaveRequest(h)
  PROVE  TimedInv' /\ AloneInv'
<1> DEFINE d == handler[h].draft
           n == AfterRequest(h)
<1>0. /\ handler[h] \in HandlerType /\ handler[h].pc = "request" /\ (StatesTime => TimedCall(handler[h]))
      /\ handler[h].pc \in Analysis /\ handler[h].pc \in Prepared
  BY DEF TypeInv, TypeOK, TimedInv, SaveRequest, Analysis, Prepared
<1>1. /\ Set(h, n) /\ UNCHANGED <<customers, appointments, overlapped, moved>>
      /\ \/ UNCHANGED requests
         \/ requests' = Append(requests, RequestOf(h, Len(requests) + 1))
         \/ requests' = Rewritten(h, d)
  BY DEF SaveRequest
<1>2. /\ StatesTime => TimedCall(n)
      /\ n.pc # "create" /\ n.pc # "book"
  <2>1. ASSUME NEW pc \in {"look", "sale"}, pc = "look" => handler[h].type \in Visits
        PROVE  /\ StatesTime => TimedCall([handler[h] EXCEPT !.pc = pc])
               /\ [handler[h] EXCEPT !.pc = pc].pc = pc
    <3> DEFINE r == [handler[h] EXCEPT !.pc = pc]
    <3>1. r.pc = pc /\ r.type = handler[h].type /\ r.fields = handler[h].fields
      BY <1>0 DEF HandlerType
    <3> HIDE DEF r
    <3>2. StatesTime => TimedCall(r)
      BY <1>0, <2>1, <3>1, SameTimed
    <3> QED BY <3>1, <3>2 DEF r
  <2>2. AfterAnalysis(h).pc \in {"idle", "forward"} /\ TimedCall(AfterAnalysis(h))
    <3>1. AfterAnalysis(h).pc \in {"idle", "forward"} /\ AfterAnalysis(h).pc \notin Prepared
      BY AfterAnalysisIs DEF Prepared
    <3> QED BY <3>1, UnpreparedTimed
  <2>3. CASE handler[h].type \in Visits
    BY <2>1, <2>3 DEF AfterRequest
  <2>4. CASE handler[h].type = "sale" /\ handler[h].fields.amount > 0
    BY <2>1, <2>4 DEF AfterRequest
  <2>5. CASE handler[h].type \notin Visits /\ ~(handler[h].type = "sale" /\ handler[h].fields.amount > 0)
    BY <2>2, <2>5 DEF AfterRequest
  <2> QED BY <2>3, <2>4, <2>5
<1> HIDE DEF n
<1>3. AloneInv'
  BY <1>0, <1>1, <1>2, SetKeepsAlone
<1>4. TimedInv'
  <2> SUFFICES ASSUME StatesTime
               PROVE  /\ \A i \in 1..Len(requests') : Timed(requests'[i])
                      /\ \A g \in Handlers : TimedCall(handler'[g])
                      /\ \A i \in 1..Len(appointments) : appointments[i].slot # None
    BY <1>1 DEF TimedInv, StatesTime
  <2>1. \A g \in Handlers : TimedCall(handler'[g])
    <3>1. \A g \in Handlers : handler'[g] = IF g = h THEN n ELSE handler[g]
      BY <1>1 DEF Set, TypeInv, TypeOK
    <3> QED BY <3>1, <1>2 DEF TimedInv
  <2>2. \A at : Timed(RequestOf(h, at))
    BY <1>0 DEF TimedCall, Timed, RequestOf
  <2>3. /\ requests \in Seq(RequestType) /\ DOMAIN requests = 1..Len(requests) /\ Len(requests) \in Nat
        /\ \A i \in 1..Len(requests) : requests[i] \in RequestType /\ Timed(requests[i])
    BY LenInNat DEF TypeInv, TypeOK, TimedInv
  <2>4. CASE requests' = Append(requests, RequestOf(h, Len(requests) + 1))
    <3> DEFINE row == RequestOf(h, Len(requests) + 1)
    <3>1. Timed(row)
      BY <2>2
    <3> HIDE DEF row
    <3>2. /\ Len(requests') = Len(requests) + 1 /\ requests'[Len(requests) + 1] = row
          /\ \A i \in 1..Len(requests) : requests'[i] = requests[i]
      BY <2>3, <2>4 DEF row
    <3> QED BY <2>1, <2>3, <3>1, <3>2 DEF TimedInv
  <2>5. CASE requests' = Rewritten(h, d)
    <3> DEFINE row == RequestOf(h, Len(requests))
    <3>1. Timed(row)
      BY <2>2
    <3>2. \A i \in 1..Len(requests) : Timed([requests[i] EXCEPT !.at = @ - 1])
      <4>1. \A i \in 1..Len(requests) :
                LET r == [requests[i] EXCEPT !.at = @ - 1] IN
                r.type = requests[i].type /\ r.fields = requests[i].fields
        BY <2>3 DEF RequestType
      <4> QED BY <2>3, <4>1 DEF Timed
    <3> HIDE DEF row
    <3>3. /\ DOMAIN requests' = 1..Len(requests)
          /\ \A i \in 1..Len(requests) :
                requests'[i] = IF i = d THEN row
                               ELSE IF requests[i].at > requests[d].at
                               THEN [requests[i] EXCEPT !.at = @ - 1] ELSE requests[i]
      BY <2>3, <2>5 DEF Rewritten, row
    <3>4. Len(requests') = Len(requests)
      BY <2>3, <3>3, SaveRequestTypes, LenInNat DEF TypeInv, TypeOK
    <3>5. \A i \in 1..Len(requests) : Timed(requests'[i])
      BY <2>3, <3>1, <3>2, <3>3
    <3> QED BY <2>1, <3>4, <3>5 DEF TimedInv
  <2>6. CASE UNCHANGED requests
    BY <2>1, <2>6 DEF TimedInv
  <2> QED BY <1>1, <2>4, <2>5, <2>6
<1> QED BY <1>3, <1>4

LEMMA FindAppointmentAlone ==
  ASSUME TypeInv, TimedInv, AloneInv, NEW h \in Handlers, FindAppointment(h)
  PROVE  TimedInv' /\ AloneInv'
<1> DEFINE slot == handler[h].fields.slot
           found == Matching(handler[h].msg, handler[h].type, slot)
           r(i) == [handler[h] EXCEPT !.pc = "book", !.appointment = i]
<1>0. /\ handler[h] \in HandlerType /\ handler[h].pc = "look" /\ (StatesTime => TimedCall(handler[h]))
      /\ handler[h].pc \in Analysis /\ handler[h].pc \in Prepared
      /\ UNCHANGED <<requests, customers, appointments, overlapped, moved>>
  BY DEF TypeInv, TypeOK, TimedInv, FindAppointment, Analysis, Prepared, rows
<1>1. PICK i \in (IF found = {} THEN {0} ELSE found) : Set(h, r(i))
  BY DEF FindAppointment
<1>2. /\ r(i).pc = "book" /\ r(i).type = handler[h].type /\ r(i).fields = handler[h].fields
      /\ r(i).appointment = i
  BY <1>0 DEF HandlerType
<1>3. StatesTime => TimedCall(r(i))
  <2>1. PICK n : n = r(i)
    OBVIOUS
  <2> HIDE DEF r
  <2>2. StatesTime => handler[h].type \in Visits
    BY <1>0 DEF TimedCall
  <2>3. StatesTime => TimedCall(n)
    BY <1>0, <1>2, <2>1, <2>2, SameTimed
  <2> QED BY <2>1, <2>3
<1>4. ASSUME i = 0 PROVE NewVisit(r(i), appointments)
  <2>0. DOMAIN appointments = 1..Len(appointments) /\ Len(appointments) \in Nat
    BY LenInNat DEF TypeInv, TypeOK
  <2>1. 0 \notin found
    BY <2>0 DEF Matching
  <2>2. found = {}
    BY <1>1, <1>4, <2>1
  <2>3. ASSUME NEW j \in 1..Len(appointments),
               appointments[j].intent = handler[h].type, appointments[j].slot = slot
        PROVE  FALSE
    <3>1. j \in found
      BY <2>0, <2>3 DEF Matching
    <3> QED BY <2>2, <3>1
  <2>4. r(i).type = handler[h].type /\ r(i).fields.slot = slot
    BY <1>2
  <2> HIDE DEF r, found
  <2> QED BY <2>3, <2>4 DEF NewVisit
<1> HIDE DEF r
<1> QED BY <1>0, <1>1, <1>2, <1>3, <1>4, SetKeepsTimed, SetKeepsAlone

LEMMA SaveAppointmentAlone ==
  ASSUME TypeInv, TimedInv, AloneInv, NEW h \in Handlers, SaveAppointment(h)
  PROVE  TimedInv' /\ AloneInv'
<1> DEFINE slot == handler[h].fields.slot
           i == handler[h].appointment
           k == Len(appointments)
           n == AfterAnalysis(h)
<1>0. /\ handler[h] \in HandlerType /\ handler[h].pc = "book" /\ (StatesTime => TimedCall(handler[h]))
      /\ handler[h].pc \in Analysis /\ Sound(handler[h], Len(requests), k)
      /\ UNCHANGED <<requests, customers, overlapped>> /\ Set(h, n)
  BY DEF TypeInv, TypeOK, TimedInv, HandlersSound, SaveAppointment, Analysis
<1>1. n.pc \in {"idle", "forward"} /\ TimedCall(n) /\ n.pc \notin Analysis
  <2>1. n.pc \in {"idle", "forward"} /\ n.pc \notin Prepared /\ n.pc \notin Analysis
    BY AfterAnalysisIs DEF Prepared, Analysis
  <2> QED BY <2>1, UnpreparedTimed
<1>2. \A g \in Handlers : handler'[g] = IF g = h THEN n ELSE handler[g]
  BY <1>0 DEF Set, TypeInv, TypeOK
<1>3. StatesTime => slot # None
  BY <1>0 DEF TimedCall, Timed, Prepared
<1>4. /\ appointments \in Seq(AppointmentType) /\ k \in Nat /\ i \in 0..k
      /\ \A j \in 1..k : appointments[j] \in AppointmentType
      /\ StatesTime => \A j \in 1..k : appointments[j].slot # None
  BY <1>0, LenInNat DEF TypeInv, TypeOK, TimedInv, Sound
<1>5. /\ StatesTime => \A j \in 1..Len(appointments') : appointments'[j].slot # None
      /\ Distinct(appointments) /\ ~moved' /\ (i = 0 => NewVisit(handler[h], appointments))
           => ~moved /\ Distinct(appointments')
  <2>1. CASE i = 0
    <3> DEFINE row == Written(h, 0)
    <3>1. /\ appointments' = Append(appointments, row) /\ moved' = moved
          /\ row.slot = slot /\ row.intent = handler[h].type
      BY <2>1 DEF SaveAppointment, Written
    <3> HIDE DEF row
    <3>2. /\ Len(appointments') = k + 1 /\ appointments'[k + 1] = row
          /\ \A j \in 1..k : appointments'[j] = appointments[j]
      BY <1>4, <3>1
    <3>3. \A j \in 1..(k + 1) : j \in 1..k \/ j = k + 1
      BY <1>4
    <3>4. StatesTime => \A j \in 1..Len(appointments') : appointments'[j].slot # None
      BY <1>3, <1>4, <3>1, <3>2, <3>3
    <3>5. ASSUME Distinct(appointments), NewVisit(handler[h], appointments)
          PROVE  Distinct(appointments')
      <4>1. \A j \in 1..k : appointments[j].intent # row.intent \/ appointments[j].slot # row.slot
        BY <3>1, <3>5 DEF NewVisit
      <4>2. \A a, b \in 1..k :
               appointments[a].intent = appointments[b].intent
                 /\ appointments[a].slot = appointments[b].slot => a = b
        BY <3>5 DEF Distinct
      <4>3. ASSUME NEW a \in 1..(k + 1), NEW b \in 1..(k + 1),
                   appointments'[a].intent = appointments'[b].intent,
                   appointments'[a].slot = appointments'[b].slot
            PROVE  a = b
        <5>1. CASE a \in 1..k /\ b \in 1..k
          BY <3>2, <4>2, <4>3, <5>1
        <5>2. CASE a = k + 1 /\ b \in 1..k
          BY <3>2, <4>1, <4>3, <5>2
        <5>3. CASE a \in 1..k /\ b = k + 1
          BY <3>2, <4>1, <4>3, <5>3
        <5> QED BY <3>3, <5>1, <5>2, <5>3
      <4> QED BY <3>2, <4>3 DEF Distinct
    <3> QED BY <2>1, <3>1, <3>4, <3>5
  <2>2. CASE i # 0
    <3> DEFINE row == Written(h, i)
    <3>1. /\ appointments' = [appointments EXCEPT ![i] = row]
          /\ ~moved' => /\ ~moved
                        /\ appointments[i].intent = row.intent /\ appointments[i].slot = row.slot
          /\ StatesTime => row.slot # None
      BY <1>3, <2>2 DEF SaveAppointment, Written
    <3> HIDE DEF row
    <3>2. Len(appointments') = k /\ \A j \in 1..k : appointments'[j] = IF j = i THEN row ELSE appointments[j]
      BY <1>4, <2>2, <3>1
    <3>3. StatesTime => \A j \in 1..Len(appointments') : appointments'[j].slot # None
      BY <1>4, <3>1, <3>2
    <3>4. ASSUME ~moved', Distinct(appointments) PROVE Distinct(appointments')
      <4>1. \A j \in 1..k : appointments'[j].intent = appointments[j].intent
                            /\ appointments'[j].slot = appointments[j].slot
        BY <3>1, <3>2, <3>4
      <4> QED BY <3>2, <3>4, <4>1 DEF Distinct
    <3> QED BY <2>2, <3>1, <3>3, <3>4
  <2> QED BY <2>1, <2>2
<1> HIDE DEF n
<1>6. TimedInv'
  BY <1>0, <1>1, <1>2, <1>5 DEF TimedInv, StatesTime
<1>7. AloneInv'
  <2> SUFFICES ASSUME ~overlapped
               PROVE  /\ \A f, g \in Handlers : handler'[f].pc \in Analysis /\ handler'[g].pc \in Analysis => f = g
                      /\ customers <= 1
                      /\ \A g \in Handlers : handler'[g].pc = "create" => customers = 0
                      /\ StatesTime /\ ~moved' =>
                          /\ Distinct(appointments')
                          /\ \A g \in Handlers :
                                handler'[g].pc = "book" /\ handler'[g].appointment = 0
                                  => NewVisit(handler'[g], appointments')
    BY <1>0 DEF AloneInv, StatesTime
  <2>1. \A g \in Handlers : handler[g].pc \in Analysis => g = h
    BY <1>0 DEF AloneInv
  <2>2. \A g \in Handlers : handler'[g].pc \notin Analysis
    BY <1>1, <1>2, <2>1
  <2>3. StatesTime /\ ~moved' => Distinct(appointments')
    <3>1. ~moved' => ~moved
      BY <1>0 DEF SaveAppointment, TypeInv, TypeOK
    <3>2. StatesTime /\ ~moved
            => Distinct(appointments) /\ (i = 0 => NewVisit(handler[h], appointments))
      BY <1>0 DEF AloneInv
    <3> QED BY <1>5, <3>1, <3>2
  <2>4. "create" \in Analysis /\ "book" \in Analysis
    BY DEF Analysis
  <2> QED BY <2>2, <2>3, <2>4 DEF AloneInv
<1> QED BY <1>6, <1>7

LEMMA SaleAlone ==
  ASSUME TypeInv, TimedInv, AloneInv, NEW h \in Handlers,
         SaveSale(h) \/ SaveTransaction(h) \/ SaveAttribution(h)
  PROVE  TimedInv' /\ AloneInv'
<1>0. /\ handler[h] \in HandlerType /\ (StatesTime => TimedCall(handler[h]))
      /\ handler[h].pc \in Analysis /\ handler[h].pc \in Prepared
      /\ UNCHANGED <<requests, customers, appointments, overlapped, moved>>
  BY DEF TypeInv, TypeOK, TimedInv, SaveSale, SaveTransaction, SaveAttribution, Analysis, Prepared
<1>1. PICK n : /\ Set(h, n) /\ (StatesTime => TimedCall(n))
               /\ n.pc \in {"tx", "credit", "idle", "forward"}
  <2>1. ASSUME NEW pc \in {"tx", "credit"}, Goto(h, pc)
        PROVE  \E n : Set(h, n) /\ n.pc = pc /\ (StatesTime => TimedCall(n))
    <3> DEFINE n == [handler[h] EXCEPT !.pc = pc]
    <3>1. Set(h, n) /\ n.pc = pc /\ n.type = handler[h].type /\ n.fields = handler[h].fields
      BY <2>1, <1>0 DEF Goto, HandlerType
    <3> HIDE DEF n
    <3>2. StatesTime => TimedCall(n)
      BY <1>0, <2>1, <3>1, SameTimed
    <3> QED BY <3>1, <3>2
  <2>2. AfterAnalysis(h).pc \in {"idle", "forward"} /\ TimedCall(AfterAnalysis(h))
    <3>1. AfterAnalysis(h).pc \in {"idle", "forward"} /\ AfterAnalysis(h).pc \notin Prepared
      BY AfterAnalysisIs DEF Prepared
    <3> QED BY <3>1, UnpreparedTimed
  <2> QED BY <2>1, <2>2 DEF SaveSale, SaveTransaction, SaveAttribution
<1> QED BY <1>0, <1>1, SetKeepsTimed, SetKeepsAlone

LEMMA OtherAlone ==
  ASSUME TypeInv, TimedInv, AloneInv,
         \/ \E h \in Handlers, m \in Messages : Receive(h, m) \/ N8nLogs(h, m)
         \/ \E h \in Handlers : CallFails(h)
         \/ \E m \in Messages : Forget(m)
         \/ DraftsExpire \/ Restart
  PROVE  TimedInv' /\ AloneInv'
<1> USE DEF rows
<1>1. ASSUME NEW h \in Handlers, NEW n, Set(h, n), n.pc \in {"idle", "store", "lookup", "forward"},
             UNCHANGED <<requests, customers, appointments, overlapped, moved>>
      PROVE  TimedInv' /\ AloneInv'
  <2>1. n.pc \notin Prepared /\ n.pc \notin Analysis /\ n.pc # "create" /\ n.pc # "book"
    BY <1>1 DEF Prepared, Analysis
  <2> QED BY <1>1, <2>1, UnpreparedTimed, SetKeepsTimed, SetKeepsAlone
<1>2. ASSUME NEW h \in Handlers, NEW k \in Messages, Receive(h, k) \/ N8nLogs(h, k)
      PROVE  TimedInv' /\ AloneInv'
  <2> DEFINE r(pc) == [Idle EXCEPT !.pc = pc, !.msg = k]
  <2>1. PICK pc \in {"store", "lookup"} : Set(h, r(pc))
    BY <1>2 DEF Receive, N8nLogs
  <2>2. r(pc).pc = pc
    BY DEF Idle
  <2>3. UNCHANGED <<requests, customers, appointments, overlapped, moved>>
    BY <1>2 DEF Receive, N8nLogs
  <2> HIDE DEF r
  <2> QED BY <1>1, <2>1, <2>2, <2>3
<1>3. ASSUME NEW h \in Handlers, CallFails(h) PROVE TimedInv' /\ AloneInv'
  <2> DEFINE r == [handler[h] EXCEPT !.pc = "store", !.first = FALSE]
  <2>1. r.pc = "store" /\ AfterAnalysis(h).pc \in {"idle", "forward"} /\ Idle.pc = "idle"
    BY AfterAnalysisIs DEF TypeInv, TypeOK, HandlerType, Idle
  <2>2. Set(h, r) \/ Set(h, AfterAnalysis(h)) \/ Set(h, Idle)
    BY <1>3 DEF CallFails
  <2>3. UNCHANGED <<requests, customers, appointments, overlapped, moved>>
    BY <1>3 DEF CallFails
  <2> HIDE DEF r, Idle
  <2> QED BY <1>1, <2>1, <2>2, <2>3
<1>4. ASSUME NEW k \in Messages, Forget(k) PROVE TimedInv' /\ AloneInv'
  BY <1>4 DEF Forget, TimedInv, AloneInv, StatesTime
<1>5. CASE DraftsExpire
  <2>1. /\ DOMAIN requests = 1..Len(requests) /\ Len(requests) \in Nat
        /\ \A i \in 1..Len(requests) : requests[i] \in RequestType
    BY LenInNat DEF TypeInv, TypeOK
  <2>2. \A i \in 1..Len(requests) : LET r == [requests[i] EXCEPT !.live = FALSE] IN
            r.type = requests[i].type /\ r.fields = requests[i].fields
    BY <2>1 DEF RequestType
  <2>3. /\ DOMAIN requests' = 1..Len(requests)
        /\ \A i \in 1..Len(requests) : requests'[i] = [requests[i] EXCEPT !.live = FALSE]
    BY <1>5, <2>1 DEF DraftsExpire
  <2>4. Len(requests') = Len(requests)
    BY <1>5, <2>1, <2>3, OtherTypes, LenInNat DEF TypeInv, TypeOK
  <2>5. \A i \in 1..Len(requests) : Timed(requests[i]) => Timed(requests'[i])
    BY <2>2, <2>3 DEF Timed
  <2>6. UNCHANGED <<customers, appointments, handler, overlapped, moved>>
    BY <1>5 DEF DraftsExpire
  <2>7. TimedInv'
    BY <2>4, <2>5, <2>6 DEF TimedInv, StatesTime
  <2> QED BY <2>6, <2>7 DEF AloneInv, StatesTime
<1>6. CASE Restart
  <2>1. handler' = [h \in Handlers |-> Idle] /\ UNCHANGED <<requests, customers, appointments, overlapped, moved>>
    BY <1>6 DEF Restart
  <2>2. TimedCall(Idle) /\ Idle.pc \notin Analysis /\ Idle.pc # "create" /\ Idle.pc # "book"
    BY UnpreparedTimed DEF Idle, Prepared, Analysis
  <2> HIDE DEF Idle
  <2>3. \A h \in Handlers : handler'[h] = Idle
    BY <2>1
  <2> QED BY <2>1, <2>2, <2>3 DEF TimedInv, AloneInv, StatesTime
<1> QED BY <1>2, <1>3, <1>4, <1>5, <1>6

LEMMA AloneInductive ==
  ASSUME TypeInv, TimedInv, AloneInv, [Next]_vars PROVE TimedInv' /\ AloneInv'
<1>1. CASE UNCHANGED vars
  BY <1>1 DEF vars, rows, TimedInv, AloneInv, StatesTime
<1>2. ASSUME NEW h \in Handlers, Analyse(h) PROVE TimedInv' /\ AloneInv'
  BY <1>2, FindAlone, CustomerAlone, RequestAlone, FindAppointmentAlone, SaveAppointmentAlone, SaleAlone
     DEF Analyse
<1> QED BY <1>1, <1>2, WebhookAlone, OtherAlone DEF Next

\* Analyses that do not overlap make one customer and, as long as none has moved an
\* appointment to another intent or time, one appointment per intent and time, however
\* often messages are sent again, fail half-way or meet a restart.
THEOREM NoDuplicatesAlone == Spec => []NoDuplicateAlone
<1>1. Init => TimedInv /\ AloneInv
  <2> SUFFICES ASSUME Init PROVE TimedInv /\ AloneInv
    OBVIOUS
  <2>1. /\ requests = <<>> /\ appointments = <<>> /\ customers = 0
        /\ \A h \in Handlers : handler[h] = Idle
    BY DEF Init
  <2>2. TimedCall(Idle) /\ Idle.pc \notin Analysis /\ Idle.pc # "create" /\ Idle.pc # "book"
    BY UnpreparedTimed DEF Idle, Prepared, Analysis
  <2> HIDE DEF Idle
  <2>3. Len(appointments) = 0 /\ Len(requests) = 0
    BY <2>1
  <2>4. 1..0 = {}
    OBVIOUS
  <2> QED BY <2>1, <2>2, <2>3, <2>4 DEF TimedInv, AloneInv, Distinct
<1>2. TypeInv /\ AloneInv => NoDuplicateAlone
  <2>1. ASSUME TypeInv PROVE DOMAIN appointments = 1..Len(appointments)
    BY <2>1, LenInNat DEF TypeInv, TypeOK
  <2> QED BY <2>1 DEF AloneInv, NoDuplicateAlone, Distinct
<1> QED BY <1>1, <1>2, TypesInductive, AloneInductive, PTL DEF Spec
=============================================================================
