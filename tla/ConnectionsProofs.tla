-------------------------- MODULE ConnectionsProofs --------------------------
(***************************************************************************)
(* Proofs about the connections to outside services, for any number of     *)
(* calls, requests, names, addresses, tokens and failures: what the        *)
(* company's page shows of its Evolution instance (EvolutionInstance), the *)
(* requests to that server (ProviderCalls) and the webhook it reports to   *)
(* (ProviderWebhook), and the tokens of Mercado Livre (MercadoLivreToken). *)
(***************************************************************************)
EXTENDS EvolutionInstance, ProviderCalls, ProviderWebhook, MercadoLivreToken, TLAPS

(***************************************************************************)
(* EvolutionInstance.  Once the instance is gone for good, there is none   *)
(* on the server, no webhook on its way, and a call in progress is one     *)
(* that can only write what the row says already.                          *)
(***************************************************************************)

CallType ==
    [pc : EvoPcs, qr : 0..MaxQrs, got : 0..MaxQrs, state : States, exists : BOOLEAN]

EvoTypes ==
    /\ instance \in [exists : BOOLEAN, status : RowStatuses, state : States, qr : 0..MaxQrs]
    /\ connected \in BOOLEAN
    /\ remote \in [exists : BOOLEAN, state : States]
    /\ news \subseteq News
    /\ evo \in [EvoCalls -> CallType]
    /\ qrs \in 0..MaxQrs

\* A call that writes nothing but a disconnected row.
Harmless(c) ==
    /\ evo[c].pc \in {"idle", "sync", "persist", "logout", "delete", "forget"}
    /\ evo[c].pc \in {"sync", "persist"} => evo[c].qr = NoQr
    /\ evo[c].pc = "persist" => ~evo[c].exists

StaysGone ==
    gone => /\ ~connected /\ instance.state = "close" /\ instance.qr = NoQr
            /\ ~remote.exists /\ news = {}
            /\ \A c \in EvoCalls : Harmless(c)

EvoInv == EvoTypes /\ PageIsConsistent /\ StaysGone

\* What mapInstanceStatus makes of a state and a QR code.
LEMMA MapStatusRight ==
  ASSUME NEW state \in States, NEW qr \in 0..MaxQrs
  PROVE  /\ MapStatus(state, qr) \in RowStatuses
         /\ state = "open" => MapStatus(state, qr) = "CONNECTED"
         /\ MapStatus(state, qr) = "CONNECTED" => state = "open"
         /\ MapStatus(state, qr) = "QR_READY" => qr # NoQr
  BY DEF MapStatus, States, RowStatuses, NoQr

LEMMA EvoInitInv == EvolutionInit => EvoInv
<1> SUFFICES ASSUME EvolutionInit PROVE EvoInv
  OBVIOUS
<1>1. IdleCall \in CallType
  BY EvolutionAssumption DEF IdleCall, CallType, EvoPcs, States, NoQr
<1>2. EvoTypes
  <2>1. 0 \in 0..MaxQrs
    BY EvolutionAssumption
  <2>2. evo \in [EvoCalls -> CallType]
    BY <1>1 DEF EvolutionInit
  <2> QED BY <2>1, <2>2 DEF EvolutionInit, EvoTypes, RowStatuses, States, NoQr
<1>3. PageIsConsistent /\ StaysGone
  BY DEF EvolutionInit, PageIsConsistent, StaysGone
<1> QED BY <1>2, <1>3 DEF EvoInv

\* A call replaced by another record, and the others left alone.
LEMMA CallGoes ==
  ASSUME EvoTypes, NEW c \in EvoCalls, NEW r \in CallType,
         evo' = [evo EXCEPT ![c] = r]
  PROVE  /\ evo' \in [EvoCalls -> CallType]
         /\ evo'[c] = r
         /\ \A d \in EvoCalls \ {c} : evo'[d] = evo[d]
  BY DEF EvoTypes

LEMMA IdleTyped == IdleCall \in CallType /\ IdleCall.pc = "idle"
  BY EvolutionAssumption DEF IdleCall, CallType, EvoPcs, States, NoQr

\* Telling the server's news keeps their type, and their emptiness if nothing is told.
LEMMA TellTyped ==
  ASSUME EvoTypes, NEW item \in News, Tell(item)
  PROVE  news' \subseteq News
  BY DEF EvoTypes, Tell

\* Every step of a call leaves a typed record, whatever it writes.
LEMMA CallTyped ==
  ASSUME EvoTypes, NEW c \in EvoCalls,
         \/ BeginConnect(c) \/ Lookup(c) \/ CreateRemote(c) \/ MarkCreated(c)
         \/ AskConnection(c) \/ StoreRequest(c) \/ Look(c) \/ Sync(c) \/ Persist(c)
         \/ BeginDisconnect(c) \/ Logout(c) \/ DeleteRemote(c) \/ Forget(c)
         \/ StoreQr(c) \/ StoreConnection(c) \/ EvolutionFails(c)
         \/ \E item \in news : ReceiveNews(c, item)
  PROVE  /\ evo' \in [EvoCalls -> CallType]
         /\ \A d \in EvoCalls \ {c} : evo'[d] = evo[d]
<1> DEFINE Right == /\ evo' \in [EvoCalls -> CallType]
                    /\ \A d \in EvoCalls \ {c} : evo'[d] = evo[d]
<1>0. /\ evo[c] \in CallType /\ instance.qr \in 0..MaxQrs /\ remote.state \in States
      /\ remote.exists \in BOOLEAN /\ IdleCall \in CallType
  BY IdleTyped DEF EvoTypes
<1>1. CASE \E pc \in EvoPcs : Go(c, pc)
  <2>1. PICK pc \in EvoPcs : evo' = [evo EXCEPT ![c] = [evo[c] EXCEPT !.pc = pc]]
    BY <1>1 DEF Go
  <2>2. [evo[c] EXCEPT !.pc = pc] \in CallType
    BY <1>0 DEF CallType
  <2> QED BY <2>1, <2>2, CallGoes
<1>2. CASE Ends(c)
  BY <1>0, <1>2, CallGoes DEF Ends
<1>3. ASSUME NEW pc \in EvoPcs, evo' = [evo EXCEPT ![c] = [IdleCall EXCEPT !.pc = pc, !.qr = instance.qr]]
      PROVE  Right
  <2>1. [IdleCall EXCEPT !.pc = pc, !.qr = instance.qr] \in CallType
    BY <1>0 DEF CallType
  <2> QED BY <1>3, <2>1, CallGoes
<1>4. CASE BeginConnect(c) \/ Look(c)
  BY <1>3, <1>4 DEF BeginConnect, Look, EvoPcs
<1>5. CASE AskConnection(c)
  <2>1. ASSUME NEW qr \in 0..MaxQrs, evo' = [evo EXCEPT ![c].pc = "store", ![c].got = qr]
        PROVE  Right
    <3> DEFINE r == [evo[c] EXCEPT !.pc = "store", !.got = qr]
    <3>1. evo' = [evo EXCEPT ![c] = r]
      BY <2>1
    <3>2. r \in CallType
      BY <1>0 DEF CallType, EvoPcs
    <3> QED BY <3>1, <3>2, CallGoes
  <2>2. NoQr \in 0..MaxQrs /\ (qrs < MaxQrs => qrs + 1 \in 0..MaxQrs)
    BY EvolutionAssumption DEF EvoTypes, NoQr
  <2> QED BY <1>5, <2>1, <2>2 DEF AskConnection
<1>6. CASE Sync(c)
  <2> DEFINE r == [evo[c] EXCEPT !.pc = "persist", !.exists = remote.exists, !.state = remote.state]
  <2>1. evo' = [evo EXCEPT ![c] = r]
    BY <1>6 DEF Sync
  <2>2. r \in CallType
    BY <1>0 DEF CallType, EvoPcs
  <2> QED BY <2>1, <2>2, CallGoes
<1>7. CASE \E item \in news : ReceiveNews(c, item)
  <2>1. PICK item \in news : ReceiveNews(c, item)
    BY <1>7
  <2>2. \/ item.kind = "qr" /\ item.qr \in 0..MaxQrs
        \/ item.kind = "state" /\ item.state \in States
    BY DEF EvoTypes, News
  <2>3. CASE item.kind = "qr"
    <3>1. [IdleCall EXCEPT !.pc = "qr", !.got = item.qr] \in CallType
      BY <1>0, <2>2, <2>3 DEF CallType, EvoPcs
    <3> QED BY <2>1, <2>3, <3>1, CallGoes DEF ReceiveNews
  <2>4. CASE item.kind = "state"
    <3>1. [IdleCall EXCEPT !.pc = "state", !.qr = instance.qr, !.state = item.state] \in CallType
      BY <1>0, <2>2, <2>4 DEF CallType, EvoPcs
    <3> QED BY <2>1, <2>4, <3>1, CallGoes DEF ReceiveNews
  <2> QED BY <2>2, <2>3, <2>4
<1>8. CASE Lookup(c) \/ CreateRemote(c) \/ MarkCreated(c) \/ BeginDisconnect(c) \/ Logout(c)
           \/ DeleteRemote(c)
  BY <1>1, <1>8 DEF Lookup, CreateRemote, MarkCreated, BeginDisconnect, Logout, DeleteRemote, EvoPcs
<1>9. CASE StoreRequest(c) \/ Persist(c) \/ Forget(c) \/ StoreQr(c) \/ StoreConnection(c)
           \/ EvolutionFails(c)
  BY <1>2, <1>9 DEF StoreRequest, Persist, Forget, StoreQr, StoreConnection, EvolutionFails
<1> QED BY <1>4, <1>5, <1>6, <1>7, <1>8, <1>9

\* What a step writes of the row, the flag, the server and its news is typed.
LEMMA EvoTypesStep == EvoTypes /\ [EvolutionNext]_evolutionVars => EvoTypes'
<1> SUFFICES ASSUME EvoTypes, [EvolutionNext]_evolutionVars PROVE EvoTypes'
  OBVIOUS
<1>0. /\ NoQr \in 0..MaxQrs /\ (qrs < MaxQrs => qrs + 1 \in 0..MaxQrs)
      /\ {"open", "connecting", "close"} = States
      /\ {"CONNECTED", "QR_READY", "CONNECTING", "DISCONNECTED"} = RowStatuses
  BY EvolutionAssumption DEF EvoTypes, NoQr, States, RowStatuses
<1>n. /\ \A qr \in 0..MaxQrs : [kind |-> "qr", qr |-> qr] \in News
      /\ \A state \in States : [kind |-> "state", state |-> state] \in News
  BY DEF News
<1>1. CASE UNCHANGED evolutionVars
  BY <1>1 DEF evolutionVars, EvoTypes
<1>2. CASE RenewQr
  <2>1. news' \subseteq News
    BY <1>0, <1>2, <1>n, TellTyped DEF RenewQr
  <2> QED BY <1>0, <1>2, <2>1 DEF RenewQr, EvoTypes
<1>3. ASSUME NEW state \in States, SessionChanges(state) PROVE EvoTypes'
  <2>1. news' \subseteq News
    BY <1>3, <1>n, TellTyped DEF SessionChanges
  <2> QED BY <1>3, <2>1 DEF SessionChanges, EvoTypes
<1>4. ASSUME NEW c \in EvoCalls,
             \/ BeginConnect(c) \/ Lookup(c) \/ CreateRemote(c) \/ MarkCreated(c)
             \/ AskConnection(c) \/ StoreRequest(c) \/ Look(c) \/ Sync(c) \/ Persist(c)
             \/ BeginDisconnect(c) \/ Logout(c) \/ DeleteRemote(c) \/ Forget(c)
             \/ StoreQr(c) \/ StoreConnection(c) \/ EvolutionFails(c)
             \/ \E item \in news : ReceiveNews(c, item)
      PROVE  EvoTypes'
  <2>0. evo' \in [EvoCalls -> CallType] /\ evo[c] \in CallType
    BY <1>4, CallTyped DEF EvoTypes
  <2>1. CASE BeginConnect(c) \/ Look(c) \/ Lookup(c) \/ Sync(c) \/ BeginDisconnect(c) \/ EvolutionFails(c)
    BY <2>0, <2>1
       DEF BeginConnect, Look, Lookup, Sync, BeginDisconnect, EvolutionFails, EvoTypes
  <2>2. CASE CreateRemote(c)
    <3>1. CASE remote.exists
      BY <2>0, <2>2, <3>1 DEF CreateRemote, EvoTypes
    <3>2. CASE ~remote.exists
      <4>1. Tell([kind |-> "qr", qr |-> qrs + 1]) /\ qrs' = qrs + 1 /\ qrs < MaxQrs
        BY <2>2, <3>2 DEF CreateRemote
      <4>2. news' \subseteq News
        BY <1>0, <1>n, <4>1, TellTyped
      <4>3. remote' = [exists |-> TRUE, state |-> "connecting"]
        BY <2>2, <3>2 DEF CreateRemote
      <4>4. remote' \in [exists : BOOLEAN, state : States]
        BY <4>3 DEF States
      <4> QED BY <1>0, <2>0, <2>2, <4>1, <4>2, <4>4 DEF CreateRemote, EvoTypes
    <3> QED BY <3>1, <3>2
  <2>3. CASE MarkCreated(c)
    BY <1>0, <2>0, <2>3 DEF MarkCreated, EvoTypes
  <2>4. CASE AskConnection(c)
    BY <1>0, <2>0, <2>4 DEF AskConnection, EvoTypes
  <2>5. CASE StoreRequest(c)
    BY <1>0, <2>0, <2>5 DEF StoreRequest, EvoTypes, CallType
  <2>6. CASE Persist(c)
    <3> DEFINE state == IF evo[c].exists THEN evo[c].state ELSE "close"
               qr == IF (evo[c].exists /\ evo[c].state = "open") \/ ~evo[c].exists
                     THEN NoQr ELSE evo[c].qr
    <3>1. state \in States /\ qr \in 0..MaxQrs /\ evo[c].exists \in BOOLEAN
      BY <1>0, <2>0 DEF CallType
    <3>2. MapStatus(state, qr) \in RowStatuses
      BY <3>1, MapStatusRight
    <3>3. /\ instance' = [instance EXCEPT !.status = MapStatus(state, qr), !.state = state, !.qr = qr]
          /\ connected' \in BOOLEAN /\ UNCHANGED <<remote, news, qrs>>
      BY <2>6, <3>1 DEF Persist
    <3> QED BY <2>0, <3>1, <3>2, <3>3 DEF EvoTypes
  <2>7. CASE Logout(c)
    <3>1. news' \subseteq News
      BY <1>0, <1>n, <2>7, TellTyped DEF Logout, EvoTypes
    <3> QED BY <1>0, <2>0, <2>7, <3>1 DEF Logout, EvoTypes
  <2>8. CASE DeleteRemote(c)
    <3>1. remote' = remote \/ remote' = [exists |-> FALSE, state |-> "close"]
      BY <2>8 DEF DeleteRemote
    <3>2. remote' \in [exists : BOOLEAN, state : States]
      <4>1. remote \in [exists : BOOLEAN, state : States]
        BY DEF EvoTypes
      <4>2. [exists |-> FALSE, state |-> "close"] \in [exists : BOOLEAN, state : States]
        BY DEF States
      <4> QED BY <3>1, <4>1, <4>2
    <3> QED BY <2>0, <2>8, <3>2 DEF DeleteRemote, EvoTypes
  <2>9. CASE Forget(c)
    BY <1>0, <2>0, <2>9 DEF Forget, EvoTypes
  <2>10. CASE StoreQr(c)
    BY <1>0, <2>0, <2>10 DEF StoreQr, EvoTypes, CallType
  <2>11. CASE StoreConnection(c)
    <3> DEFINE qr == IF evo[c].state = "open" THEN NoQr ELSE evo[c].qr
    <3>1. evo[c].state \in States /\ qr \in 0..MaxQrs
      BY <1>0, <2>0 DEF CallType
    <3>2. MapStatus(evo[c].state, qr) \in RowStatuses
      BY <3>1, MapStatusRight
    <3>3. /\ instance' = [instance EXCEPT !.status = MapStatus(evo[c].state, qr),
                                           !.state = evo[c].state, !.qr = qr]
          /\ connected' \in BOOLEAN /\ UNCHANGED <<remote, news, qrs>>
      BY <2>11, <3>1 DEF StoreConnection
    <3> QED BY <2>0, <3>1, <3>2, <3>3 DEF EvoTypes
  <2>12. CASE \E item \in news : ReceiveNews(c, item)
    BY <2>0, <2>12 DEF ReceiveNews, EvoTypes
  <2> QED BY <1>4, <2>1, <2>2, <2>3, <2>4, <2>5, <2>6, <2>7, <2>8, <2>9, <2>10, <2>11, <2>12
<1> QED BY <1>1, <1>2, <1>3, <1>4 DEF EvolutionNext

LEMMA PageStep == EvoTypes /\ PageIsConsistent /\ [EvolutionNext]_evolutionVars => PageIsConsistent'
<1> SUFFICES ASSUME EvoTypes, PageIsConsistent, [EvolutionNext]_evolutionVars PROVE PageIsConsistent'
  OBVIOUS
<1>1. CASE UNCHANGED <<instance, connected>>
  BY <1>1 DEF PageIsConsistent
<1>2. CASE UNCHANGED evolutionVars \/ RenewQr \/ \E state \in States : SessionChanges(state)
  BY <1>1, <1>2 DEF evolutionVars, RenewQr, SessionChanges
<1>3. ASSUME NEW c \in EvoCalls, StoreRequest(c) PROVE PageIsConsistent'
  BY <1>3 DEF StoreRequest, EvoTypes, PageIsConsistent
<1>4. ASSUME NEW c \in EvoCalls, Persist(c) PROVE PageIsConsistent'
  <2>1. evo[c].state \in States /\ evo[c].qr \in 0..MaxQrs /\ NoQr \in 0..MaxQrs /\ "close" \in States
    BY EvolutionAssumption DEF EvoTypes, CallType, NoQr, States
  <2>2. PICK state \in States, qr \in 0..MaxQrs :
          /\ state = "open" => qr = NoQr
          /\ connected' = (state = "open")
          /\ instance' = [instance EXCEPT !.status = MapStatus(state, qr), !.state = state,
                                          !.qr = qr]
    BY <1>4, <2>1 DEF Persist
  <2>3. PICK status : status = MapStatus(state, qr)
    OBVIOUS
  <2>4. instance'.status = status /\ instance'.state = state /\ instance'.qr = qr
    BY <2>2, <2>3 DEF EvoTypes
  <2> QED BY <2>2, <2>3, <2>4, MapStatusRight DEF PageIsConsistent
<1>5. ASSUME NEW c \in EvoCalls, StoreConnection(c) PROVE PageIsConsistent'
  <2>1. evo[c].state \in States /\ evo[c].qr \in 0..MaxQrs /\ NoQr \in 0..MaxQrs
    BY EvolutionAssumption DEF EvoTypes, CallType, NoQr
  <2>2. PICK state \in States, qr \in 0..MaxQrs :
          /\ state = "open" => qr = NoQr
          /\ connected' = (state = "open")
          /\ instance' = [instance EXCEPT !.status = MapStatus(state, qr), !.state = state,
                                          !.qr = qr]
    BY <1>5, <2>1 DEF StoreConnection
  <2>3. PICK status : status = MapStatus(state, qr)
    OBVIOUS
  <2>4. instance'.status = status /\ instance'.state = state /\ instance'.qr = qr
    BY <2>2, <2>3 DEF EvoTypes
  <2> QED BY <2>2, <2>3, <2>4, MapStatusRight DEF PageIsConsistent
<1>6. ASSUME NEW c \in EvoCalls, BeginConnect(c) \/ MarkCreated(c) \/ Forget(c) \/ StoreQr(c)
      PROVE  PageIsConsistent'
  BY <1>6 DEF BeginConnect, MarkCreated, Forget, StoreQr, EvoTypes, PageIsConsistent
<1>7. ASSUME NEW c \in EvoCalls,
             \/ Lookup(c) \/ CreateRemote(c) \/ AskConnection(c) \/ Look(c) \/ Sync(c)
             \/ BeginDisconnect(c) \/ Logout(c) \/ DeleteRemote(c) \/ EvolutionFails(c)
             \/ \E item \in news : ReceiveNews(c, item)
      PROVE  UNCHANGED <<instance, connected>>
  BY <1>7 DEF Lookup, CreateRemote, AskConnection, Look, Sync, BeginDisconnect, Logout,
              DeleteRemote, EvolutionFails, ReceiveNews
<1> QED BY <1>1, <1>2, <1>3, <1>4, <1>5, <1>6, <1>7 DEF EvolutionNext

LEMMA GoneStep == EvoTypes /\ StaysGone /\ [EvolutionNext]_evolutionVars => StaysGone'
<1> SUFFICES ASSUME EvoTypes, StaysGone, [EvolutionNext]_evolutionVars PROVE StaysGone'
  OBVIOUS
<1>1. CASE UNCHANGED evolutionVars
  BY <1>1 DEF evolutionVars, StaysGone, Harmless
<1>2. CASE RenewQr
  BY <1>2 DEF RenewQr, StaysGone, Harmless
<1>3. ASSUME NEW state \in States, SessionChanges(state) PROVE StaysGone'
  BY <1>3 DEF SessionChanges, StaysGone, Harmless
<1>4. ASSUME NEW c \in EvoCalls,
             \/ BeginConnect(c) \/ Lookup(c) \/ CreateRemote(c) \/ MarkCreated(c)
             \/ AskConnection(c) \/ StoreRequest(c) \/ Look(c) \/ Sync(c) \/ Persist(c)
             \/ BeginDisconnect(c) \/ Logout(c) \/ DeleteRemote(c) \/ Forget(c)
             \/ StoreQr(c) \/ StoreConnection(c) \/ EvolutionFails(c)
             \/ \E item \in news : ReceiveNews(c, item)
      PROVE  StaysGone'
  <2> SUFFICES ASSUME gone' PROVE /\ ~connected' /\ instance'.state = "close" /\ instance'.qr = NoQr
                                  /\ ~remote'.exists /\ news' = {}
                                  /\ \A d \in EvoCalls : Harmless(d)'
    BY DEF StaysGone
  <2>0. /\ \A d \in EvoCalls \ {c} : evo'[d] = evo[d]
        /\ evo[c] \in CallType /\ evo'[c] \in CallType /\ evo \in [EvoCalls -> CallType]
    BY <1>4, CallTyped DEF EvoTypes
  <2>1. CASE Forget(c)
    <3>1. /\ \A d \in EvoCalls \ {c} : evo'[d].pc = "idle"
          /\ evo'[c] = IdleCall /\ ~remote'.exists /\ news' = {}
      BY <2>0, <2>1 DEF Forget, Ends, NobodyElse
    <3>2. \A d \in EvoCalls : evo'[d].pc = "idle"
      BY <3>1, IdleTyped
    <3>3. \A d \in EvoCalls : Harmless(d)'
      BY <3>2 DEF Harmless
    <3>4. ~connected' /\ instance'.state = "close" /\ instance'.qr = NoQr
      BY <2>1 DEF Forget, EvoTypes
    <3> QED BY <3>1, <3>3, <3>4
  <2>2. CASE BeginConnect(c)
    BY <2>2 DEF BeginConnect
  <2>3. CASE ~Forget(c) /\ ~BeginConnect(c)
    <3>1. gone
      BY <1>4, <2>3 DEF Lookup, CreateRemote, MarkCreated, AskConnection, StoreRequest, Look, Sync,
                        Persist, BeginDisconnect, Logout, DeleteRemote, StoreQr, StoreConnection,
                        EvolutionFails, ReceiveNews
    <3>2. /\ ~connected /\ instance.state = "close" /\ instance.qr = NoQr
          /\ ~remote.exists /\ news = {}
          /\ \A d \in EvoCalls : Harmless(d)
      BY <3>1 DEF StaysGone
    <3>3. \A d \in EvoCalls \ {c} : Harmless(d)'
      BY <2>0, <3>2 DEF Harmless
    <3>4. Harmless(c)
      BY <3>2
    <3>5. CASE Look(c)
      <4>1. evo'[c].pc = "sync" /\ evo'[c].qr = NoQr
        BY <2>0, <3>2, <3>5 DEF Look, IdleCall
      <4> QED BY <3>2, <3>3, <3>5, <4>1 DEF Look, Harmless
    <3>6. CASE Sync(c)
      <4>1. evo'[c].pc = "persist" /\ evo'[c].qr = evo[c].qr /\ evo'[c].exists = remote.exists
        BY <2>0, <3>6 DEF Sync, CallType
      <4>2. evo[c].pc = "sync"
        BY <3>6 DEF Sync
      <4> QED BY <3>2, <3>3, <3>4, <3>6, <4>1, <4>2 DEF Sync, Harmless
    <3>7. CASE Persist(c)
      <4>1. ~evo[c].exists
        BY <3>4, <3>7 DEF Persist, Harmless
      <4>2. evo'[c] = IdleCall
        BY <2>0, <3>7 DEF Persist, Ends
      <4>3. ~connected' /\ instance'.state = "close" /\ instance'.qr = NoQr
        BY <3>7, <4>1 DEF Persist, EvoTypes
      <4> QED BY <3>2, <3>3, <3>7, <4>2, <4>3, IdleTyped DEF Persist, Harmless
    <3>8. CASE BeginDisconnect(c)
      <4>1. evo'[c].pc = "logout"
        BY <2>0, <3>8 DEF BeginDisconnect, Go, CallType
      <4> QED BY <3>2, <3>3, <3>8, <4>1 DEF BeginDisconnect, Harmless
    <3>9. CASE Logout(c)
      <4>1. evo'[c].pc = "delete"
        BY <2>0, <3>9 DEF Logout, Go, CallType
      <4> QED BY <3>2, <3>3, <3>9, <4>1 DEF Logout, Harmless
    <3>10. CASE DeleteRemote(c)
      <4>1. evo'[c].pc = "forget"
        BY <2>0, <3>10 DEF DeleteRemote, Go, CallType
      <4> QED BY <3>2, <3>3, <3>10, <4>1 DEF DeleteRemote, Harmless
    <3>11. CASE EvolutionFails(c)
      <4>1. evo'[c] = IdleCall
        BY <2>0, <3>11 DEF EvolutionFails, Ends
      <4> QED BY <3>2, <3>3, <3>11, <4>1, IdleTyped DEF EvolutionFails, Harmless
    <3>12. ~(\E item \in news : ReceiveNews(c, item))
      BY <3>2
    <3>13. ~(Lookup(c) \/ CreateRemote(c) \/ MarkCreated(c) \/ AskConnection(c) \/ StoreRequest(c)
             \/ StoreQr(c) \/ StoreConnection(c))
      BY <3>4 DEF Harmless, Lookup, CreateRemote, MarkCreated, AskConnection, StoreRequest,
                 StoreQr, StoreConnection
    <3> QED BY <1>4, <2>3, <3>5, <3>6, <3>7, <3>8, <3>9, <3>10, <3>11, <3>12, <3>13
  <2> QED BY <2>1, <2>2, <2>3
<1> QED BY <1>1, <1>2, <1>3, <1>4 DEF EvolutionNext

LEMMA EvoNextInv == EvoInv /\ [EvolutionNext]_evolutionVars => EvoInv'
  BY EvoTypesStep, PageStep, GoneStep DEF EvoInv

\* Whichever of any number of calls and webhooks writes last, and whatever it had read,
\* the company's page is consistent: an open session is shown as connected, in the row and
\* on the company, without a QR code, and a QR code that is announced is there.  And a
\* disconnection that deleted the server's instance, ended while nothing else was under
\* way and was followed by no connection stays one, whoever looks, disconnects again or
\* fails in between.
THEOREM InstanceShown == EvolutionSpec => []InstanceIsShown
<1>1. EvoInv => InstanceIsShown
  BY DEF EvoInv, StaysGone, DisconnectedForGood, InstanceIsShown
<1> QED BY <1>1, EvoInitInv, EvoNextInv, PTL DEF EvolutionSpec

(***************************************************************************)
(* ProviderCalls.  While a caller sleeps in throttleInstance, what is left *)
(* of its sleep makes up for what the last request lacks of the interval,  *)
(* unless somebody was faster; and a text that may still be sent has been  *)
(* received only by attempts whose answer was lost.                        *)
(***************************************************************************)

RequestType ==
    [op : Ops \cup {"none"}, pc : {"idle", "pacing", "out", "backing", "ended"},
     step : Nat, attempt : Nat, left : Nat, sent : Nat, lost : Nat,
     overtaken : BOOLEAN, late : BOOLEAN]

\* A call's record: its place among its requests, and its receipts, which are covered by
\* lost answers until the last attempt.
Fits(r) ==
    /\ r \in RequestType
    /\ r.step \in 1..Len(Requests(r.op))
    /\ r.attempt \in 1..MaxAttempts(Requests(r.op)[r.step])
    /\ r.op # "text" => r.sent = 0
    /\ r.pc # "ended" => r.sent <= r.lost
    /\ r.sent <= 1 + r.lost

\* The wait that is left covers the interval, or another request overtook it; the limit,
\* if there was one, ran out before the sleep began.
Waits(r) ==
    r.pc = "pacing" =>
      LET k == KeyOf(r.op)
      IN  /\ sinceLast[k] + r.left >= Interval \/ r.overtaken
          /\ askedFor[k] = 0 \/ limitedFor[k] < askedFor[k] \/ r.late

Clocks ==
    /\ sinceLast \in [Keys -> 0..Interval]
    /\ limitedFor \in [Keys -> Nat] /\ askedFor \in [Keys -> Nat]
    /\ failures \in 0..MaxFailures

CallsInv ==
    /\ Clocks
    /\ call \in [Callers -> RequestType]
    /\ \A c \in Callers : Fits(call[c]) /\ Waits(call[c])

LEMMA RequestsRight ==
  /\ \A op \in Ops \cup {"none"} : Len(Requests(op)) \in 1..3
  /\ Len(Requests("text")) = 1
  /\ \A request : MaxAttempts(request) \in 1..4
  BY DEF Requests, MaxAttempts, Ops

LEMMA KeyRight == \A op : KeyOf(op) \in Keys
  BY DEF KeyOf, Keys

LEMMA NoCallFits == Fits(NoCall) /\ NoCall.pc = "idle"
<1>1. NoCall \in RequestType /\ NoCall.pc = "idle"
  BY DEF NoCall, RequestType
<1> QED BY <1>1, RequestsRight DEF NoCall, Fits

LEMMA CallsInit == ProviderCallsInit => CallsInv
<1> SUFFICES ASSUME ProviderCallsInit PROVE CallsInv
  OBVIOUS
<1>1. Clocks
  BY ProviderCallsAssumption DEF ProviderCallsInit, Clocks
<1>2. \A c \in Callers : call[c] = NoCall
  BY DEF ProviderCallsInit
<1>3. call \in [Callers -> RequestType]
  BY NoCallFits DEF ProviderCallsInit, Fits
<1> QED BY <1>1, <1>2, <1>3, NoCallFits DEF CallsInv, Waits

\* throttleInstance refuses, or begins a sleep that is long enough.
LEMMA ThrottledFits ==
  ASSUME Clocks, NEW r, Fits(r), r.pc # "ended"
  PROVE  LET t == Throttled(r, KeyOf(r.op))
         IN  Fits(t) /\ Waits(t) /\ t.pc # "out"
<1> DEFINE k == KeyOf(r.op)
<1>0. k \in Keys
  BY KeyRight
<1>1. CASE limitedFor[k] > 0
  BY <1>1, NoCallFits DEF Throttled, Waits
<1>2. CASE ~(limitedFor[k] > 0)
  <2> DEFINE t == [r EXCEPT !.pc = "pacing", !.left = Interval - sinceLast[k],
                            !.overtaken = FALSE, !.late = FALSE]
  <2>1. Throttled(r, k) = t
    BY <1>2 DEF Throttled
  <2>2. Interval - sinceLast[k] \in Nat /\ limitedFor[k] = 0 /\ sinceLast[k] \in 0..Interval
    BY <1>0, <1>2, ProviderCallsAssumption DEF Clocks
  <2>3. t \in RequestType
    BY <2>2 DEF Fits, RequestType
  <2>4. /\ t.op = r.op /\ t.step = r.step /\ t.attempt = r.attempt /\ t.sent = r.sent
        /\ t.lost = r.lost /\ t.pc = "pacing" /\ t.left = Interval - sinceLast[k]
    BY DEF Fits, RequestType
  <2>5. Fits(t)
    BY <2>3, <2>4 DEF Fits
  <2>6. askedFor[k] = 0 \/ limitedFor[k] < askedFor[k]
    BY <1>0, <2>2 DEF Clocks
  <2>7. sinceLast[k] + t.left >= Interval
    BY <2>2, <2>4, ProviderCallsAssumption
  <2>8. Waits(t)
    BY <2>4, <2>6, <2>7 DEF Waits
  <2> QED BY <2>1, <2>4, <2>5, <2>8
<1> QED BY <1>1, <1>2

\* One call's record is replaced and the clocks stand still.
LEMMA CallReplaced ==
  ASSUME CallsInv, NEW c \in Callers, NEW r, Fits(r), Waits(r),
         call' = [call EXCEPT ![c] = r],
         UNCHANGED <<sinceLast, limitedFor, askedFor>>, failures' \in 0..MaxFailures
  PROVE  CallsInv'
<1>1. call' \in [Callers -> RequestType]
  BY DEF CallsInv, Fits
<1>2. \A d \in Callers : Fits(call'[d])
  BY DEF CallsInv
<1>4. \A d \in Callers : Waits(call[d])'
  <2> TAKE d \in Callers
  <2>1. CASE d = c
    <3>1. call'[d] = r
      BY <2>1 DEF CallsInv
    <3> QED BY <3>1 DEF Waits
  <2>2. CASE d # c
    <3>1. call'[d] = call[d] /\ Waits(call[d])
      BY <2>2 DEF CallsInv
    <3> QED BY <3>1 DEF Waits
  <2> QED BY <2>1, <2>2
<1>5. \A d \in Callers : Fits(call[d])'
  BY <1>2 DEF Fits
<1> QED BY <1>1, <1>4, <1>5 DEF CallsInv, Clocks

LEMMA AskStep ==
  ASSUME CallsInv, NEW c \in Callers, NEW op \in OpsOf[c], Ask(c, op)
  PROVE  CallsInv'
<1> DEFINE r == [NoCall EXCEPT !.op = op]
<1>1. op \in Ops
  BY ProviderCallsAssumption
<1>2. r \in RequestType /\ r.pc = "idle" /\ r.op = op
  BY <1>1, NoCallFits DEF Fits, RequestType
<1>3. Fits(r)
  BY <1>1, <1>2, RequestsRight DEF Fits, NoCall
<1>4. call' = [call EXCEPT ![c] = Throttled(r, KeyOf(r.op))]
  BY <1>2 DEF Ask
<1>5. Fits(Throttled(r, KeyOf(r.op))) /\ Waits(Throttled(r, KeyOf(r.op)))
  BY <1>2, <1>3, ThrottledFits DEF CallsInv
<1> QED BY <1>4, <1>5, CallReplaced DEF Ask, CallsInv, Clocks

LEMMA RetryStep ==
  ASSUME CallsInv, NEW c \in Callers, Retry(c)
  PROVE  CallsInv'
<1>1. Fits(call[c]) /\ call[c].pc # "ended"
  BY DEF CallsInv, Retry
<1>2. Fits(Throttled(call[c], Key(c))) /\ Waits(Throttled(call[c], Key(c)))
  BY <1>1, ThrottledFits DEF CallsInv, Key
<1> QED BY <1>2, CallReplaced DEF Retry, CallsInv, Clocks

LEMMA ReturnStep ==
  ASSUME CallsInv, NEW c \in Callers, Return(c)
  PROVE  CallsInv'
  BY NoCallFits, CallReplaced DEF Return, CallsInv, Clocks, Waits

\* A call that is out, with its numbers.
LEMMA CallOut ==
  ASSUME CallsInv, NEW c \in Callers, call[c].pc = "out"
  PROVE  /\ call[c] \in RequestType /\ Fits(call[c])
         /\ call[c].step \in 1..Len(Requests(call[c].op))
         /\ call[c].attempt \in 1..MaxAttempts(Request(c))
         /\ call[c].sent \in Nat /\ call[c].lost \in Nat /\ call[c].sent <= call[c].lost
         /\ call[c].op # "text" => call[c].sent = 0
         /\ call[c].op = "text" => \A a : ~HasNext(c, a)
<1>1. call[c] \in RequestType /\ Fits(call[c])
  BY DEF CallsInv
<1>2. /\ call[c].step \in 1..Len(Requests(call[c].op))
      /\ call[c].attempt \in 1..MaxAttempts(Request(c))
      /\ call[c].sent <= call[c].lost
      /\ call[c].op # "text" => call[c].sent = 0
  BY <1>1 DEF Fits, Request
<1>3. call[c].sent \in Nat /\ call[c].lost \in Nat
  BY <1>1 DEF RequestType
<1>4. ASSUME call[c].op = "text", NEW a PROVE ~HasNext(c, a)
  <2>1. Len(Requests(call[c].op)) = 1
    BY <1>4, RequestsRight
  <2>2. ~(call[c].step < Len(Requests(call[c].op)))
    BY <1>2, <2>1
  <2> QED BY <2>2 DEF HasNext
<1> QED BY <1>1, <1>2, <1>3, <1>4

\* The next request of an operation is throttled as the first is; a text has none.
LEMMA NextFits ==
  ASSUME CallsInv, NEW c \in Callers, call[c].pc = "out", NEW a, HasNext(c, a)
  PROVE  Fits(NextRequest(call[c])) /\ Waits(NextRequest(call[c]))
<1> DEFINE n == call[c].step + 1
           r == [call[c] EXCEPT !.step = n, !.attempt = 1]
<1>1. call[c] \in RequestType /\ Fits(call[c]) /\ call[c].op \in Ops \cup {"none"}
  BY CallOut DEF RequestType
<1>2. n \in 1..Len(Requests(call[c].op)) /\ n \in Nat
  BY <1>1, CallOut, RequestsRight DEF HasNext
<1>3. /\ r \in RequestType /\ r.op = call[c].op /\ r.step = n /\ r.attempt = 1
      /\ r.pc = "out" /\ r.sent = call[c].sent /\ r.lost = call[c].lost
  BY <1>1, <1>2 DEF RequestType
<1>4. Fits(r)
  BY <1>1, <1>2, <1>3, RequestsRight DEF Fits
<1>5. Fits(Throttled(r, KeyOf(r.op))) /\ Waits(Throttled(r, KeyOf(r.op)))
  BY <1>3, <1>4, ThrottledFits DEF CallsInv
<1>6. NextRequest(call[c]) = Throttled(r, KeyOf(r.op))
  BY <1>3 DEF NextRequest
<1> QED BY <1>5, <1>6

\* What a request leaves of a text: a receipt more, or none.
LEMMA ReceivedFits ==
  ASSUME CallsInv, NEW c \in Callers, call[c].pc = "out", NEW reached \in BOOLEAN,
         NEW r, r = IF reached THEN Received(call[c]) ELSE call[c]
  PROVE  /\ r \in RequestType /\ r.op = call[c].op /\ r.step = call[c].step
         /\ r.attempt = call[c].attempt /\ r.pc = "out" /\ r.lost = call[c].lost
         /\ r.sent <= r.lost + 1 /\ (~reached => r.sent <= r.lost)
         /\ r.op # "text" => r.sent = 0
<1>1. call[c] \in RequestType /\ call[c].sent \in Nat
  BY CallOut
<1>2. CASE ~reached
  <2>1. r = call[c]
    BY <1>2
  <2>2. /\ r.sent \in Nat /\ r.lost \in Nat /\ r.sent <= r.lost
        /\ r.op # "text" => r.sent = 0
    BY <2>1, CallOut
  <2>3. r.sent <= r.lost + 1
    BY <2>2
  <2>4. /\ r \in RequestType /\ r.op = call[c].op /\ r.step = call[c].step
        /\ r.attempt = call[c].attempt /\ r.pc = "out" /\ r.lost = call[c].lost
    BY <1>1, <2>1
  <2> QED BY <2>2, <2>3, <2>4
<1>3. CASE reached
  <2> DEFINE n == IF call[c].op = "text" THEN 1 ELSE 0
             m == call[c].sent + n
  <2>1. m \in Nat
    BY <1>1
  <2>2. r = [call[c] EXCEPT !.sent = m]
    BY <1>3 DEF Received
  <2>3. /\ r \in RequestType /\ r.op = call[c].op /\ r.step = call[c].step
        /\ r.attempt = call[c].attempt /\ r.pc = "out" /\ r.lost = call[c].lost
        /\ r.sent = m
    BY <1>1, <2>1, <2>2 DEF RequestType
  <2>4. /\ call[c].sent \in Nat /\ call[c].lost \in Nat /\ call[c].sent <= call[c].lost
        /\ call[c].op # "text" => call[c].sent = 0
    BY CallOut
  <2>5. m <= call[c].lost + 1 /\ (call[c].op # "text" => m = 0)
    BY <2>4
  <2> QED BY <1>3, <2>3, <2>5
<1> QED BY <1>2, <1>3

LEMMA AnswerStep ==
  ASSUME CallsInv, NEW c \in Callers, Answer(c)
  PROVE  CallsInv'
<1>0. call[c].pc = "out" /\ failures' \in 0..MaxFailures /\ Fits(call[c])
  BY CallOut DEF CallsInv, Answer, Clocks
<1>1. CASE HasNext(c, "done")
  BY <1>0, <1>1, NextFits, CallReplaced DEF Answer
<1>2. CASE ~HasNext(c, "done")
  <2> DEFINE q == Received(call[c])
             r == [q EXCEPT !.pc = "ended"]
  <2>1. /\ q \in RequestType /\ q.op = call[c].op /\ q.step = call[c].step
        /\ q.attempt = call[c].attempt /\ q.lost = call[c].lost
        /\ q.sent <= q.lost + 1 /\ (q.op # "text" => q.sent = 0)
    BY <1>0, ReceivedFits
  <2>2. /\ r \in RequestType /\ r.pc = "ended" /\ r.op = q.op /\ r.step = q.step
        /\ r.attempt = q.attempt /\ r.lost = q.lost /\ r.sent = q.sent
    BY <2>1 DEF RequestType
  <2>3. r.sent \in Nat /\ r.lost \in Nat
    BY <2>2 DEF RequestType
  <2>4. Fits(r) /\ Waits(r)
    BY <1>0, <2>1, <2>2, <2>3 DEF Fits, Waits
  <2>5. call' = [call EXCEPT ![c] = r]
    BY <1>2 DEF Answer
  <2> QED BY <1>0, <2>4, <2>5, CallReplaced DEF Answer
<1> QED BY <1>1, <1>2

LEMMA FailStep ==
  ASSUME CallsInv, NEW c \in Callers, NEW a \in BadAnswers, NEW ask \in Asks,
         NEW reached \in BOOLEAN, RequestFails(c, a, ask, reached)
  PROVE  CallsInv'
<1> DEFINE q == IF reached THEN Received(call[c]) ELSE call[c]
           again == IsTransient(a) /\ q.attempt < MaxAttempts(Request(c))
           unsure1 == IF reached /\ a # "broken" THEN 1 ELSE 0
<1>0. /\ call[c].pc = "out" /\ failures' = failures + 1 /\ failures < MaxFailures
      /\ reached => call[c].op = "text"
      /\ UNCHANGED <<sinceLast, limitedFor, askedFor>>
  BY DEF RequestFails
<1>1. failures' \in 0..MaxFailures
  BY <1>0, ProviderCallsAssumption DEF CallsInv, Clocks
<1>2. /\ q \in RequestType /\ q.op = call[c].op /\ q.step = call[c].step
      /\ q.attempt = call[c].attempt /\ q.pc = "out" /\ q.lost = call[c].lost
      /\ q.sent <= q.lost + 1 /\ (~reached => q.sent <= q.lost)
      /\ q.op # "text" => q.sent = 0
  BY <1>0, ReceivedFits
<1>3. /\ q.step \in 1..Len(Requests(q.op)) /\ q.attempt \in 1..MaxAttempts(Request(c))
      /\ Request(c) = Requests(q.op)[q.step]
  BY <1>0, <1>2, CallOut DEF Request
<1>4. q.sent \in Nat /\ q.lost \in Nat /\ q.lost + unsure1 \in Nat
  BY <1>2 DEF RequestType
<1>5. CASE again
  <2> DEFINE wait == IF ask > 0 THEN ask ELSE Backoff[q.attempt]
             r == [q EXCEPT !.pc = "backing", !.attempt = q.attempt + 1, !.lost = q.lost + unsure1,
                            !.left = wait]
  <2>1. q.attempt \in 1..3 /\ q.attempt + 1 \in 1..MaxAttempts(Request(c)) /\ q.attempt + 1 \in Nat
    <3>1. MaxAttempts(Request(c)) \in 1..4
      BY RequestsRight
    <3> QED BY <1>3, <1>5, <3>1
  <2>2. wait \in Nat
    BY <2>1, ProviderCallsAssumption
  <2>3. /\ r \in RequestType /\ r.pc = "backing" /\ r.op = q.op /\ r.step = q.step
        /\ r.attempt = q.attempt + 1 /\ r.lost = q.lost + unsure1 /\ r.sent = q.sent
    BY <1>2, <1>4, <2>1, <2>2 DEF RequestType
  <2>4. reached => unsure1 = 1
    BY <1>5 DEF IsTransient
  <2>5. Fits(r) /\ Waits(r)
    BY <1>2, <1>3, <1>4, <2>1, <2>3, <2>4 DEF Fits, Waits
  <2>6. call' = [call EXCEPT ![c] = r]
    BY <1>5 DEF RequestFails
  <2> QED BY <1>0, <1>1, <2>5, <2>6, CallReplaced
<1>6. CASE ~again /\ HasNext(c, a)
  <2>1. q = call[c]
    BY <1>0, <1>6, CallOut
  <2>2. call' = [call EXCEPT ![c] = NextRequest(call[c])]
    BY <1>6, <2>1 DEF RequestFails
  <2> QED BY <1>0, <1>1, <1>6, <2>2, NextFits, CallReplaced
<1>7. CASE ~again /\ ~HasNext(c, a)
  <2> DEFINE r == [q EXCEPT !.pc = "ended", !.lost = q.lost + unsure1]
  <2>1. /\ r \in RequestType /\ r.pc = "ended" /\ r.op = q.op /\ r.step = q.step
        /\ r.attempt = q.attempt /\ r.lost = q.lost + unsure1 /\ r.sent = q.sent
    BY <1>2, <1>4 DEF RequestType
  <2>2. Fits(r) /\ Waits(r)
    BY <1>2, <1>3, <1>4, <2>1 DEF Fits, Waits
  <2>3. call' = [call EXCEPT ![c] = r]
    BY <1>7 DEF RequestFails
  <2> QED BY <1>0, <1>1, <2>2, <2>3, CallReplaced
<1> QED BY <1>5, <1>6, <1>7

\* A step that changes nothing but the sleepers of one name: each is marked, as overtaken
\* or as late, and keeps everything else.
LEMMA MarkFits ==
  ASSUME NEW r, Fits(r)
  PROVE  Fits([r EXCEPT !.overtaken = TRUE]) /\ Fits([r EXCEPT !.late = TRUE])
<1>1. ASSUME NEW q, q = [r EXCEPT !.overtaken = TRUE] \/ q = [r EXCEPT !.late = TRUE]
      PROVE  Fits(q)
  <2>1. q \in RequestType
    BY <1>1 DEF Fits, RequestType
  <2>2. /\ q.op = r.op /\ q.pc = r.pc /\ q.step = r.step /\ q.attempt = r.attempt
        /\ q.sent = r.sent /\ q.lost = r.lost
    BY <1>1 DEF Fits, RequestType
  <2> QED BY <2>1, <2>2 DEF Fits
<1> QED BY <1>1

LEMMA SendStep ==
  ASSUME CallsInv, NEW c \in Callers, SendRequest(c)
  PROVE  CallsInv'
<1> DEFINE k == Key(c)
<1>0. /\ call \in [Callers -> RequestType] /\ k \in Keys /\ call[c].pc = "pacing"
      /\ sinceLast' = [sinceLast EXCEPT ![k] = 0] /\ UNCHANGED <<limitedFor, askedFor, failures>>
  BY KeyRight DEF CallsInv, SendRequest, Key
<1>1. Clocks'
  BY <1>0, ProviderCallsAssumption DEF CallsInv, Clocks
<1>2. ASSUME NEW d \in Callers
      PROVE  /\ Fits(call'[d])
             /\ call'[d].pc = "pacing" =>
                  LET n == KeyOf(call'[d].op)
                  IN  /\ sinceLast'[n] + call'[d].left >= Interval \/ call'[d].overtaken
                      /\ askedFor[n] = 0 \/ limitedFor[n] < askedFor[n] \/ call'[d].late
  <2>0. Fits(call[d]) /\ Waits(call[d]) /\ call[d] \in RequestType
    BY DEF CallsInv
  <2>1. CASE d = c
    <3> DEFINE r == [call[c] EXCEPT !.pc = "out"]
    <3>1. call'[d] = r
      BY <2>1 DEF SendRequest
    <3>2. /\ r \in RequestType /\ r.pc = "out" /\ r.op = call[c].op /\ r.step = call[c].step
          /\ r.attempt = call[c].attempt /\ r.sent = call[c].sent /\ r.lost = call[c].lost
      BY <2>0, <2>1 DEF RequestType
    <3>3. Fits(r)
      BY <1>0, <2>0, <2>1, <3>2 DEF Fits
    <3> QED BY <3>1, <3>2, <3>3
  <2>2. CASE d # c /\ call[d].pc = "pacing" /\ Key(d) = Key(c)
    <3> DEFINE r == [call[d] EXCEPT !.overtaken = TRUE]
    <3>1. call'[d] = r
      BY <2>2 DEF SendRequest
    <3>2. r.overtaken /\ r.op = call[d].op /\ r.late = call[d].late
      BY <2>0 DEF RequestType
    <3> QED BY <2>0, <2>2, <3>1, <3>2, MarkFits DEF Waits
  <2>3. CASE d # c /\ ~(call[d].pc = "pacing" /\ Key(d) = Key(c))
    <3>1. call'[d] = call[d]
      BY <2>3 DEF SendRequest
    <3>2. call[d].pc = "pacing" => sinceLast'[KeyOf(call[d].op)] = sinceLast[KeyOf(call[d].op)]
      BY <1>0, <2>3, KeyRight DEF Key, CallsInv, Clocks
    <3> QED BY <2>0, <3>1, <3>2 DEF Waits
  <2> QED BY <2>1, <2>2, <2>3
<1>3. call' \in [Callers -> RequestType]
  <2>1. \A d \in Callers : call'[d] \in RequestType
    BY <1>2 DEF Fits
  <2> QED BY <2>1 DEF SendRequest
<1>4. \A d \in Callers : (Fits(call[d]) /\ Waits(call[d]))'
  BY <1>0, <1>2 DEF Fits, Waits
<1> QED BY <1>1, <1>3, <1>4 DEF CallsInv

LEMMA LimitStep ==
  ASSUME CallsInv, NEW c \in Callers, NEW ask \in Asks, Limit(c, ask)
  PROVE  CallsInv'
<1> DEFINE k == Key(c)
           time == IF ask > 0 THEN ask ELSE Cooldown
<1>0. /\ call \in [Callers -> RequestType] /\ k \in Keys /\ call[c].pc = "out"
      /\ time \in Nat /\ UNCHANGED sinceLast
      /\ limitedFor' = [limitedFor EXCEPT ![k] = time]
      /\ askedFor' = [askedFor EXCEPT ![k] = IF time > @ THEN time ELSE @]
  BY KeyRight, ProviderCallsAssumption DEF CallsInv, Limit, Key
<1>1. Clocks'
  <2>1. failures' \in 0..MaxFailures
    BY ProviderCallsAssumption DEF Limit, CallsInv, Clocks
  <2> QED BY <1>0, <2>1 DEF CallsInv, Clocks
<1>2. ASSUME NEW d \in Callers
      PROVE  /\ Fits(call'[d])
             /\ call'[d].pc = "pacing" =>
                  LET n == KeyOf(call'[d].op)
                  IN  /\ sinceLast[n] + call'[d].left >= Interval \/ call'[d].overtaken
                      /\ askedFor'[n] = 0 \/ limitedFor'[n] < askedFor'[n] \/ call'[d].late
  <2>0. Fits(call[d]) /\ Waits(call[d]) /\ call[d] \in RequestType
    BY DEF CallsInv
  <2>1. CASE d = c
    <3> DEFINE r == [call[c] EXCEPT !.pc = "ended"]
    <3>1. call'[d] = r
      BY <2>1 DEF Limit
    <3>2. /\ r \in RequestType /\ r.pc = "ended" /\ r.op = call[c].op /\ r.step = call[c].step
          /\ r.attempt = call[c].attempt /\ r.sent = call[c].sent /\ r.lost = call[c].lost
      BY <2>0, <2>1 DEF RequestType
    <3>3. Fits(r)
      BY <1>0, <2>0, <2>1, <3>2 DEF Fits
    <3> QED BY <3>1, <3>2, <3>3
  <2>2. CASE d # c /\ call[d].pc = "pacing" /\ Key(d) = Key(c)
    <3> DEFINE r == [call[d] EXCEPT !.late = TRUE]
    <3>1. call'[d] = r
      BY <2>2 DEF Limit
    <3>2. r.late /\ r.op = call[d].op /\ r.overtaken = call[d].overtaken /\ r.left = call[d].left
      BY <2>0 DEF RequestType
    <3> QED BY <2>0, <2>2, <3>1, <3>2, MarkFits DEF Waits
  <2>3. CASE d # c /\ ~(call[d].pc = "pacing" /\ Key(d) = Key(c))
    <3>1. call'[d] = call[d]
      BY <2>3 DEF Limit
    <3>2. call[d].pc = "pacing" =>
            /\ limitedFor'[KeyOf(call[d].op)] = limitedFor[KeyOf(call[d].op)]
            /\ askedFor'[KeyOf(call[d].op)] = askedFor[KeyOf(call[d].op)]
      BY <1>0, <2>3, KeyRight DEF Key, CallsInv, Clocks
    <3> QED BY <2>0, <3>1, <3>2 DEF Waits
  <2> QED BY <2>1, <2>2, <2>3
<1>3. call' \in [Callers -> RequestType]
  <2>1. \A d \in Callers : call'[d] \in RequestType
    BY <1>2 DEF Fits
  <2> QED BY <2>1 DEF Limit
<1>4. \A d \in Callers : (Fits(call[d]) /\ Waits(call[d]))'
  BY <1>0, <1>2 DEF Fits, Waits
<1> QED BY <1>1, <1>3, <1>4 DEF CallsInv

LEMMA TickStep ==
  ASSUME CallsInv, Tick
  PROVE  CallsInv'
<1>0. /\ \A n \in Nat : Less(n) \in Nat /\ (n = 0 => Less(n) = 0) /\ (n > 0 => Less(n) = n - 1)
      /\ Interval \in Nat \ {0}
  BY ProviderCallsAssumption DEF Less
<1>1. Clocks'
  BY <1>0 DEF Tick, CallsInv, Clocks
<1>2. ASSUME NEW d \in Callers
      PROVE  /\ Fits(call'[d])
             /\ call'[d].pc = "pacing" =>
                  LET n == KeyOf(call'[d].op)
                  IN  /\ sinceLast'[n] + call'[d].left >= Interval \/ call'[d].overtaken
                      /\ askedFor'[n] = 0 \/ limitedFor'[n] < askedFor'[n] \/ call'[d].late
  <2> DEFINE left == Less(call[d].left)
             r == [call[d] EXCEPT !.left = left]
             k == KeyOf(call[d].op)
  <2>0. Fits(call[d]) /\ Waits(call[d]) /\ call[d] \in RequestType /\ k \in Keys
    BY KeyRight DEF CallsInv
  <2>1. call[d].left \in Nat
    BY <2>0 DEF RequestType
  <2>2. left \in Nat
    BY <1>0, <2>1
  <2>3. call'[d] = r
    BY DEF Tick
  <2>4. /\ r \in RequestType /\ r.op = call[d].op /\ r.pc = call[d].pc /\ r.step = call[d].step
        /\ r.attempt = call[d].attempt /\ r.sent = call[d].sent /\ r.lost = call[d].lost
        /\ r.left = left /\ r.overtaken = call[d].overtaken /\ r.late = call[d].late
    BY <2>0, <2>2 DEF RequestType
  <2>5. Fits(r)
    BY <2>0, <2>4 DEF Fits
  <2>6. /\ sinceLast[k] \in 0..Interval /\ limitedFor[k] \in Nat /\ askedFor[k] \in Nat
        /\ sinceLast'[k] = IF sinceLast[k] < Interval THEN sinceLast[k] + 1 ELSE Interval
        /\ limitedFor'[k] = Less(limitedFor[k]) /\ askedFor'[k] = Less(askedFor[k])
    BY <2>0 DEF Tick, CallsInv, Clocks
  <2>7. sinceLast[k] + call[d].left >= Interval => sinceLast'[k] + left >= Interval
    BY <1>0, <2>1, <2>6 DEF Less
  <2>8. (askedFor[k] = 0 => askedFor'[k] = 0)
        /\ (limitedFor[k] < askedFor[k] => askedFor'[k] = 0 \/ limitedFor'[k] < askedFor'[k])
    BY <2>6 DEF Less
  <2> QED BY <2>0, <2>3, <2>4, <2>5, <2>7, <2>8 DEF Waits
<1>3. call' \in [Callers -> RequestType]
  <2>1. \A d \in Callers : call'[d] \in RequestType
    BY <1>2 DEF Fits
  <2> QED BY <2>1 DEF Tick
<1>4. \A d \in Callers : (Fits(call[d]) /\ Waits(call[d]))'
  BY <1>2 DEF Fits, Waits
<1> QED BY <1>1, <1>3, <1>4 DEF CallsInv

LEMMA CallsNext == CallsInv /\ [ProviderCallsNext]_providerCallVars => CallsInv'
<1> SUFFICES ASSUME CallsInv, [ProviderCallsNext]_providerCallVars PROVE CallsInv'
  OBVIOUS
<1>1. CASE UNCHANGED providerCallVars
  BY <1>1 DEF providerCallVars, CallsInv, Clocks, Fits, Waits
<1> QED BY <1>1, AskStep, RetryStep, SendStep, AnswerStep, ReturnStep, LimitStep, FailStep, TickStep
        DEF ProviderCallsNext

\* Types, and no request sent more often than it may be.
LEMMA CallsTyped == CallsInv => ProviderCallsTypeOK
  BY DEF CallsInv, Clocks, Fits, RequestType, Request, ProviderCallsTypeOK

\* With any number of callers, operations, failures and pauses, a text reaches the server
\* once, but for the attempts whose answer a gateway ate or that had none.
THEOREM TextsGoOutOnce == ProviderCallsSpec => [](ProviderCallsTypeOK /\ TextGoesOutOnce)
<1>1. CallsInv => TextGoesOutOnce
  BY DEF CallsInv, Fits, TextGoesOutOnce
<1> QED BY <1>1, CallsInit, CallsNext, CallsTyped, PTL DEF ProviderCallsSpec

\* With any number of callers, a request leaves an interval after the last one and not
\* while the server has asked the instance to wait, unless it was asleep already when
\* another one left or was limited, or a second 429 asked for less time than the first.
THEOREM RequestsSpaced == ProviderCallsSpec => RequestsAreSpaced
<1> DEFINE Spaced ==
      \A c \in Callers : call[c].pc = "pacing" /\ call'[c].pc = "out" =>
        LET k == Key(c)
        IN  /\ sinceLast[k] = Interval \/ call[c].overtaken
            /\ askedFor[k] = 0 \/ limitedFor[k] < askedFor[k] \/ call[c].late
<1>1. ASSUME CallsInv, [ProviderCallsNext]_providerCallVars PROVE [Spaced]_providerCallVars
  <2> SUFFICES ASSUME NEW c \in Callers, call[c].pc = "pacing", call'[c].pc = "out"
               PROVE  LET k == Key(c)
                      IN  /\ sinceLast[k] = Interval \/ call[c].overtaken
                          /\ askedFor[k] = 0 \/ limitedFor[k] < askedFor[k] \/ call[c].late
    OBVIOUS
  <2>1. call[c].left = 0
    <3>0. call \in [Callers -> RequestType] /\ call[c] \in RequestType
      BY <1>1 DEF CallsInv
    <3>1. CASE UNCHANGED providerCallVars
      BY <3>1 DEF providerCallVars
    <3>2. CASE Tick
      BY <3>0, <3>2 DEF Tick, RequestType
    <3>3. ASSUME NEW d \in Callers,
                 \/ \E op \in OpsOf[d] : Ask(d, op)
                 \/ Retry(d) \/ Answer(d) \/ Return(d)
                 \/ \E a \in BadAnswers, ask \in Asks, reached \in BOOLEAN : RequestFails(d, a, ask, reached)
          PROVE  FALSE
      <4>1. d # c
        BY <3>3 DEF Ask, Retry, Answer, Return, RequestFails
      <4>2. call'[c] = call[c]
        BY <3>0, <3>3, <4>1 DEF Ask, Retry, Answer, Return, RequestFails
      <4> QED BY <4>2
    <3>4. ASSUME NEW d \in Callers, NEW ask \in Asks, Limit(d, ask) PROVE FALSE
      BY <3>0, <3>4 DEF Limit, RequestType
    <3>5. ASSUME NEW d \in Callers, SendRequest(d) PROVE call[c].left = 0
      BY <3>0, <3>5 DEF SendRequest, RequestType
    <3> QED BY <1>1, <3>1, <3>2, <3>3, <3>4, <3>5 DEF ProviderCallsNext
  <2>2. Waits(call[c]) /\ sinceLast[Key(c)] \in 0..Interval
    BY <1>1, KeyRight DEF CallsInv, Clocks, Key
  <2> QED BY <2>1, <2>2, ProviderCallsAssumption DEF Waits, Key
<1>2. ProviderCallsSpec => []CallsInv
  BY CallsInit, CallsNext, PTL DEF ProviderCallsSpec
<1> QED BY <1>1, <1>2, PTL DEF ProviderCallsSpec, RequestsAreSpaced

(***************************************************************************)
(* ProviderWebhook.  The hash the row remembers is never younger than the  *)
(* address it has, and no address comes back that was used before an older *)
(* deployment's end.  So a hash that may be trusted again, being that of   *)
(* the row's address or of the current deployment, was not overwritten on  *)
(* the server since, and must still be true.                               *)
(***************************************************************************)

HookRowType ==
    [exists : BOOLEAN, name : HookNames \cup {""}, url : Urls \cup {NoUrl},
     enabled : BOOLEAN, hash : Urls \cup {NoUrl}, error : BOOLEAN, recent : BOOLEAN]

ServerType == [exists : BOOLEAN, hook : Urls \cup {NoUrl, Elsewhere}]

HookPcs == {"idle", "find", "create", "mark", "ensure", "get", "seen", "set", "stored", "error",
            "logout", "delete", "forget", "done"}

HookOpType ==
    [kind : {"none", "connect", "repair", "disconnect"}, pc : HookPcs,
     name : HookNames \cup {""}, url : Urls \cup {NoUrl}, recent : BOOLEAN,
     ends : {"none", "ensured", "skipped", "failed"}]

HookTypes ==
    /\ hookRow \in HookRowType /\ server \in [HookNames -> ServerType] /\ hookOp \in HookOpType
    /\ base \in 1..MaxBases /\ unsure \subseteq HookNames /\ troubles \in 0..MaxTroubles

Hooking(op) ==
    op.pc \in {"find", "create", "mark", "ensure", "get", "seen", "set", "stored", "error"}
Removing(op) == op.pc \in {"logout", "delete", "forget"}

\* The instance reports to the address, for all this program knows.
Reports(n, url) == server[n].hook = url \/ n \in unsure

\* The row's address is its name's, and the operation's while there is one.
Addressed(r, op, b0) ==
    /\ r.exists => \E n \in HookNames, b \in 1..b0 : r.name = n /\ r.url = HookUrl(n, b)
    /\ Hooking(op) => r.exists /\ op.name = r.name /\ op.url = r.url
    /\ Removing(op) => r.exists /\ op.name = r.name

\* The hash is of no deployment after the address's.
HashIsOld(r, b0) ==
    \A n, m \in HookNames, b, d \in 1..MaxBases :
      r.hash = HookUrl(n, b) => b <= b0 /\ (r.url = HookUrl(m, d) => b <= d)

HashHolds ==
    \A n \in HookNames, b \in 1..MaxBases :
      /\ hookRow.hash = HookUrl(n, b) /\ hookRow.enabled /\ ~hookRow.error
      /\ b = base \/ hookRow.url = HookUrl(n, b)
      => Reports(n, HookUrl(n, b)) \/ (hookOp.pc = "forget" /\ hookOp.name = n)

OpHolds ==
    /\ hookOp.pc \in {"mark", "seen", "stored"} => Reports(hookOp.name, hookOp.url)
    /\ hookOp.pc = "done" /\ hookOp.ends = "ensured" =>
         hookOp.name \in HookNames /\ Reports(hookOp.name, hookOp.url)

HookInv ==
    /\ HookTypes /\ Addressed(hookRow, hookOp, base) /\ HashIsOld(hookRow, base)
    /\ HashHolds /\ OpHolds

LEMMA UrlsRight ==
  /\ \A n, b : HookUrl(n, b) # NoUrl
  /\ \A n \in HookNames, b \in 1..MaxBases : HookUrl(n, b) \in Urls
  BY DEF HookUrl, NoUrl, Urls

LEMMA HookInitInv == ProviderWebhookInit => HookInv
<1> SUFFICES ASSUME ProviderWebhookInit PROVE HookInv
  OBVIOUS
<1>1. hookRow \in HookRowType
  BY DEF ProviderWebhookInit, HookRowType
<1>2. server \in [HookNames -> ServerType]
  BY DEF ProviderWebhookInit, ServerType, NoInstance
<1>3. hookOp \in HookOpType /\ hookOp.pc = "idle"
  BY DEF ProviderWebhookInit, HookOpType, HookPcs, NoHookOp
<1>4. base \in 1..MaxBases /\ unsure \subseteq HookNames /\ troubles \in 0..MaxTroubles
  <2>1. base = 1 /\ unsure = {} /\ troubles = 0
    BY DEF ProviderWebhookInit
  <2> QED BY <2>1, ProviderWebhookAssumption
<1>5. ~hookRow.exists /\ ~hookRow.enabled /\ hookRow.hash = NoUrl
  BY DEF ProviderWebhookInit
<1>6. Addressed(hookRow, hookOp, base) /\ OpHolds
  BY <1>3, <1>5 DEF Addressed, Hooking, Removing, OpHolds
<1>7. HashIsOld(hookRow, base) /\ HashHolds
  BY <1>5, UrlsRight DEF HashIsOld, HashHolds
<1> QED BY <1>1, <1>2, <1>3, <1>4, <1>6, <1>7 DEF HookInv, HookTypes

\* Going on, and ending.
LEMMA GoesTyped ==
  ASSUME HookTypes, NEW pc \in HookPcs, HookGoes(pc)
  PROVE  /\ hookOp' \in HookOpType /\ hookOp'.pc = pc /\ hookOp'.name = hookOp.name
         /\ hookOp'.url = hookOp.url /\ hookOp'.ends = hookOp.ends
  BY DEF HookTypes, HookGoes, HookOpType

LEMMA DoneTyped ==
  ASSUME HookTypes, NEW claim \in {"none", "ensured", "skipped", "failed"}, HookDone(claim)
  PROVE  /\ hookOp' \in HookOpType /\ hookOp'.pc = "done" /\ hookOp'.name = hookOp.name
         /\ hookOp'.url = hookOp.url /\ hookOp'.ends = claim
<1>1. hookOp' = [hookOp EXCEPT !.pc = "done", !.ends = claim]
  BY DEF HookDone
<1> QED BY <1>1 DEF HookTypes, HookOpType, HookPcs

\* While a connection or a repair is under way, a hash of its instance that may be trusted
\* is that of the address it is about to set.
LEMMA SameAddress ==
  ASSUME HookInv, Hooking(hookOp), NEW b \in 1..MaxBases,
         hookRow.hash = HookUrl(hookOp.name, b),
         b = base \/ hookRow.url = HookUrl(hookOp.name, b)
  PROVE  hookOp.url = HookUrl(hookOp.name, b) /\ hookOp.name \in HookNames
<1>1. PICK n \in HookNames, d \in 1..base :
        hookRow.name = n /\ hookRow.url = HookUrl(n, d) /\ hookOp.name = n /\ hookOp.url = HookUrl(n, d)
  BY DEF HookInv, Addressed
<1>2. d \in 1..MaxBases /\ base \in 1..MaxBases
  <2>1. base \in 1..MaxBases
    BY DEF HookInv, HookTypes
  <2> QED BY <2>1, ProviderWebhookAssumption
<1>3. b <= d
  BY <1>1, <1>2 DEF HookInv, HashIsOld
<1>4. CASE b = base
  BY <1>1, <1>2, <1>3, <1>4
<1>5. CASE hookRow.url = HookUrl(hookOp.name, b)
  BY <1>1, <1>5
<1> QED BY <1>4, <1>5

\* A step that changes only the operation and lets it claim nothing new.
LEMMA OpOnly ==
  ASSUME HookInv, UNCHANGED <<hookRow, server, base, unsure>>, troubles' \in 0..MaxTroubles,
         hookOp.pc # "forget", hookOp' \in HookOpType,
         Addressed(hookRow, hookOp', base),
         hookOp'.pc \notin {"mark", "seen", "stored"},
         hookOp'.pc = "done" => hookOp'.ends # "ensured"
  PROVE  HookInv'
<1>1. HookTypes' /\ Addressed(hookRow, hookOp, base)' /\ HashIsOld(hookRow, base)'
  BY DEF HookInv, HookTypes, Addressed, HashIsOld, Hooking, Removing
<1>2. HashHolds'
  BY DEF HookInv, HashHolds, Reports
<1>3. OpHolds'
  BY DEF OpHolds
<1> QED BY <1>1, <1>2, <1>3 DEF HookInv

\* A step after which the server is known, or not unknown before, to report to the
\* operation's address.
LEMMA ServerReports ==
  ASSUME HookInv, Hooking(hookOp), UNCHANGED <<hookRow, base>>, troubles' \in 0..MaxTroubles,
         server' \in [HookNames -> ServerType],
         server'[hookOp.name].hook = hookOp.url,
         \A n \in HookNames \ {hookOp.name} : server'[n] = server[n],
         unsure' \in {unsure, unsure \ {hookOp.name}},
         hookOp' \in HookOpType, hookOp'.pc \in {"mark", "seen", "stored", "error", "done"},
         hookOp'.name = hookOp.name, hookOp'.url = hookOp.url,
         hookOp'.pc = "done" => hookOp'.ends # "ensured"
  PROVE  HookInv'
<1>0. hookOp.pc # "forget" /\ hookOp.name = hookRow.name
  BY DEF Hooking, HookInv, Addressed
<1>1. HookTypes' /\ HashIsOld(hookRow, base)'
  BY DEF HookInv, HookTypes, HashIsOld
<1>2. Addressed(hookRow, hookOp, base)'
  BY DEF HookInv, Addressed, Hooking, Removing
<1>3. HashHolds'
  <2> SUFFICES ASSUME NEW n \in HookNames, NEW b \in 1..MaxBases,
                      hookRow.hash = HookUrl(n, b), hookRow.enabled, ~hookRow.error,
                      b = base \/ hookRow.url = HookUrl(n, b)
               PROVE  Reports(n, HookUrl(n, b))'
    BY DEF HashHolds, Reports, HookUrl
  <2>1. CASE n = hookOp.name
    BY <2>1, SameAddress DEF Reports, HookUrl
  <2>2. CASE n # hookOp.name
    <3>1. Reports(n, HookUrl(n, b))
      BY <1>0, <2>2 DEF HookInv, HashHolds
    <3> QED BY <2>2, <3>1 DEF Reports, HookUrl
  <2> QED BY <2>1, <2>2
<1>4. OpHolds'
  BY DEF OpHolds, Reports
<1> QED BY <1>1, <1>2, <1>3, <1>4 DEF HookInv

\* A step that stores what the operation knows of the server.
LEMMA ClaimStored ==
  ASSUME HookInv, hookOp.pc \in {"mark", "seen", "stored"},
         UNCHANGED <<server, base, unsure, troubles>>, NEW recent \in BOOLEAN,
         hookRow' = [Claimed EXCEPT !.recent = recent], HookDone("ensured")
  PROVE  HookInv'
<1>0. /\ hookOp' \in HookOpType /\ hookOp'.pc = "done" /\ hookOp'.name = hookOp.name
      /\ hookOp'.url = hookOp.url
  BY DoneTyped DEF HookInv
<1>1. /\ hookRow \in HookRowType /\ hookOp.url = hookRow.url /\ hookOp.name = hookRow.name
      /\ hookRow.exists
  BY DEF HookInv, HookTypes, Addressed, Hooking
<1>2. hookRow' = [hookRow EXCEPT !.url = hookOp.url, !.enabled = TRUE, !.error = FALSE,
                                 !.hash = hookOp.url, !.recent = recent]
  BY DEF Claimed, HashOf
<1>3. /\ hookRow' \in HookRowType /\ hookRow'.exists /\ hookRow'.name = hookRow.name
      /\ hookRow'.url = hookRow.url /\ hookRow'.hash = hookRow.url
  BY <1>1, <1>2 DEF HookRowType
<1>4. PICK m \in HookNames, e \in 1..base :
        hookRow.name = m /\ hookRow.url = HookUrl(m, e) /\ hookOp.name = m /\ hookOp.url = HookUrl(m, e)
  BY <1>1 DEF HookInv, Addressed
<1>e. e \in Nat /\ e <= base /\ base \in 1..MaxBases /\ (\A b \in 1..MaxBases : b \in Nat)
  <2>1. base \in 1..MaxBases
    BY DEF HookInv, HookTypes
  <2> QED BY <2>1, ProviderWebhookAssumption
<1>5. HookTypes' /\ Addressed(hookRow, hookOp, base)'
  BY <1>0, <1>3, <1>4 DEF HookInv, HookTypes, Addressed, Hooking, Removing, HookUrl
<1>6. HashIsOld(hookRow, base)'
  <2> SUFFICES ASSUME NEW n \in HookNames, NEW k \in HookNames,
                      NEW b \in 1..MaxBases, NEW d \in 1..MaxBases, hookRow'.hash = HookUrl(n, b)
               PROVE  b <= base /\ (hookRow'.url = HookUrl(k, d) => b <= d)
    BY DEF HashIsOld, HookUrl
  <2>1. hookRow'.hash = HookUrl(m, e) /\ hookRow'.url = HookUrl(m, e) /\ b \in Nat /\ d \in Nat
    BY <1>3, <1>4, <1>e
  <2>2. b = e
    BY <1>e, <2>1 DEF HookUrl
  <2>3. hookRow'.url = HookUrl(k, d) => e = d
    BY <1>e, <2>1 DEF HookUrl
  <2> QED BY <1>e, <2>2, <2>3
<1>7. Reports(m, HookUrl(m, e))'
  BY <1>4 DEF HookInv, OpHolds, Reports, HookUrl
<1>8. HashHolds'
  <2> SUFFICES ASSUME NEW n \in HookNames, NEW b \in 1..MaxBases, hookRow'.hash = HookUrl(n, b)
               PROVE  Reports(n, HookUrl(n, b))'
    BY DEF HashHolds, HookUrl, Reports
  <2>1. n = m /\ b = e
    BY <1>3, <1>4, <1>e DEF HookUrl
  <2> QED BY <1>7, <2>1
<1>9. OpHolds'
  BY <1>0, <1>4, <1>7 DEF OpHolds, Reports, HookUrl
<1> QED BY <1>5, <1>6, <1>8, <1>9 DEF HookInv

\* The steps of a connection and a repair.
LEMMA HookStep ==
  ASSUME HookInv,
         \/ FindRemote \/ CreateInstance \/ MarkProvisioned \/ EnsureReads \/ GetWebhook
         \/ StoreSeen \/ SetWebhook \/ StoreSet \/ StoreError
  PROVE  HookInv'
<1>0. /\ HookTypes /\ hookRow \in HookRowType /\ hookOp \in HookOpType /\ base \in 1..MaxBases
      /\ server \in [HookNames -> ServerType] /\ troubles' \in 0..MaxTroubles
      /\ Addressed(hookRow, hookOp, base) /\ HashIsOld(hookRow, base)
  BY DEF HookInv, HookTypes, FindRemote, CreateInstance, MarkProvisioned, EnsureReads, GetWebhook,
         StoreSeen, SetWebhook, StoreSet, StoreError
<1>1. Hooking(hookOp)
  BY DEF Hooking, FindRemote, CreateInstance, MarkProvisioned, EnsureReads, GetWebhook,
         StoreSeen, SetWebhook, StoreSet, StoreError
<1>2. PICK m \in HookNames, e \in 1..base :
        /\ hookRow.exists /\ hookRow.name = m /\ hookRow.url = HookUrl(m, e)
        /\ hookOp.name = m /\ hookOp.url = HookUrl(m, e)
  BY <1>0, <1>1 DEF Addressed
<1>3. e \in 1..MaxBases
  BY <1>0, ProviderWebhookAssumption
\* Going on to a step that claims nothing.
<1>g. ASSUME UNCHANGED <<hookRow, server, base, unsure>>,
             NEW pc \in HookPcs \ {"mark", "seen", "stored", "idle", "done", "logout", "delete", "forget"},
             HookGoes(pc)
      PROVE  HookInv'
  <2>1. /\ hookOp' \in HookOpType /\ hookOp'.pc = pc /\ hookOp'.name = hookOp.name
        /\ hookOp'.url = hookOp.url
    BY <1>0, <1>g, GoesTyped
  <2>2. Addressed(hookRow, hookOp', base)
    BY <1>0, <1>1, <2>1 DEF Addressed, Hooking, Removing
  <2> QED BY <1>0, <1>1, <1>g, <2>1, <2>2, OpOnly DEF Hooking
\* Ending without having ensured anything.
<1>d. ASSUME UNCHANGED <<hookRow, server, base, unsure>>,
             HookDone("failed") \/ HookDone("skipped")
      PROVE  HookInv'
  <2>1. /\ hookOp' \in HookOpType /\ hookOp'.pc = "done" /\ hookOp'.ends # "ensured"
    BY <1>0, <1>d, DoneTyped
  <2>2. Addressed(hookRow, hookOp', base)
    BY <1>0, <2>1 DEF Addressed, Hooking, Removing
  <2> QED BY <1>0, <1>1, <1>d, <2>1, <2>2, OpOnly DEF Hooking
<1>4. CASE FindRemote
  BY <1>4, <1>g, <1>d DEF FindRemote, HookGivesUp, HookPcs
<1>5. CASE CreateInstance
  <2>1. CASE server[hookOp.name].exists
    BY <1>5, <1>g, <2>1 DEF CreateInstance, HookPcs
  <2>2. CASE ~server[hookOp.name].exists
    <3> DEFINE i == [exists |-> TRUE, hook |-> hookOp.url]
    <3>1. i \in ServerType
      BY <1>2, <1>3, UrlsRight DEF ServerType
    <3>2. server' = [server EXCEPT ![hookOp.name] = i] /\ HookGoes("mark")
          /\ unsure' = unsure \ {hookOp.name} /\ UNCHANGED <<hookRow, base>>
      BY <1>5, <2>2 DEF CreateInstance, MakeRemote
    <3>3. /\ server' \in [HookNames -> ServerType] /\ server'[hookOp.name].hook = hookOp.url
          /\ \A n \in HookNames \ {hookOp.name} : server'[n] = server[n]
      BY <1>0, <1>2, <3>1, <3>2
    <3>4. /\ hookOp' \in HookOpType /\ hookOp'.pc = "mark" /\ hookOp'.name = hookOp.name
          /\ hookOp'.url = hookOp.url
      BY <1>0, <3>2, GoesTyped DEF HookPcs
    <3> QED BY <1>0, <1>1, <3>2, <3>3, <3>4, ServerReports
  <2> QED BY <2>1, <2>2
<1>6. CASE MarkProvisioned
  BY <1>6, ClaimStored DEF MarkProvisioned
<1>7. CASE EnsureReads
  <2>1. CASE Trusted(hookRow, hookOp.url)
    <3>1. /\ HookDone("ensured") /\ UNCHANGED <<hookRow, server, base, unsure>>
          /\ hookRow.enabled /\ ~hookRow.error /\ hookRow.hash = HookUrl(m, e)
      BY <1>2, <1>7, <2>1 DEF EnsureReads, Trusted, HashOf
    <3>2. /\ hookOp' \in HookOpType /\ hookOp'.pc = "done" /\ hookOp'.name = m
          /\ hookOp'.url = HookUrl(m, e)
      BY <1>0, <1>2, <3>1, DoneTyped
    <3>3. Reports(m, HookUrl(m, e))
      BY <1>1, <1>2, <1>3, <3>1 DEF HookInv, HashHolds, Hooking
    <3>4. HookTypes' /\ Addressed(hookRow, hookOp, base)' /\ HashIsOld(hookRow, base)'
      BY <1>0, <3>1, <3>2 DEF HookTypes, Addressed, Hooking, Removing, HashIsOld
    <3>5. HashHolds'
      BY <1>1, <3>1 DEF HookInv, HashHolds, Reports, Hooking
    <3>6. OpHolds'
      BY <3>1, <3>2, <3>3 DEF OpHolds, Reports
    <3> QED BY <3>4, <3>5, <3>6 DEF HookInv
  <2>2. CASE ~Trusted(hookRow, hookOp.url)
    <3>1. hookOp' = [hookOp EXCEPT !.pc = "get", !.recent = hookRow.recent]
          /\ UNCHANGED <<hookRow, server, base, unsure>>
      BY <1>7, <2>2 DEF EnsureReads
    <3>2. hookRow.recent \in BOOLEAN
      BY <1>0 DEF HookRowType
    <3>3. /\ hookOp' \in HookOpType /\ hookOp'.pc = "get" /\ hookOp'.name = hookOp.name
          /\ hookOp'.url = hookOp.url
      BY <1>0, <3>1, <3>2 DEF HookOpType, HookPcs
    <3>4. Addressed(hookRow, hookOp', base)
      BY <1>0, <1>1, <3>3 DEF Addressed, Hooking, Removing
    <3> QED BY <1>0, <1>1, <3>1, <3>3, <3>4, OpOnly DEF Hooking
  <2> QED BY <2>1, <2>2
<1>8. CASE GetWebhook
  <2>1. CASE server[hookOp.name].hook = hookOp.url
    <3>1. /\ HookGoes("seen") /\ unsure' = unsure \ {hookOp.name}
          /\ UNCHANGED <<hookRow, server, base>>
      BY <1>8, <2>1 DEF GetWebhook
    <3>2. /\ hookOp' \in HookOpType /\ hookOp'.pc = "seen" /\ hookOp'.name = hookOp.name
          /\ hookOp'.url = hookOp.url
      BY <1>0, <3>1, GoesTyped DEF HookPcs
    <3> QED BY <1>0, <1>1, <2>1, <3>1, <3>2, ServerReports
  <2>2. CASE server[hookOp.name].hook # hookOp.url
    BY <1>8, <1>g, <1>d, <2>2 DEF GetWebhook, Settles, HookPcs
  <2> QED BY <2>1, <2>2
<1>9. CASE StoreSeen
  <2>1. hookRow' = [Claimed EXCEPT !.recent = hookRow.recent] /\ hookRow.recent \in BOOLEAN
    BY <1>0, <1>9 DEF StoreSeen, Claimed, HookRowType
  <2> QED BY <1>9, <2>1, ClaimStored DEF StoreSeen
<1>10. CASE SetWebhook
  <2>1. CASE ~server[hookOp.name].exists
    BY <1>10, <1>g, <2>1 DEF SetWebhook, HookPcs
  <2>2. CASE server[hookOp.name].exists
    <3> DEFINE i == [server[hookOp.name] EXCEPT !.hook = hookOp.url]
    <3>1. i \in ServerType /\ i.hook = hookOp.url
      BY <1>0, <1>2, <1>3, UrlsRight DEF ServerType
    <3>2. server' = [server EXCEPT ![hookOp.name] = i] /\ HookGoes("stored")
          /\ unsure' = unsure \ {hookOp.name} /\ UNCHANGED <<hookRow, base>>
      BY <1>10, <2>2 DEF SetWebhook
    <3>3. /\ server' \in [HookNames -> ServerType] /\ server'[hookOp.name].hook = hookOp.url
          /\ \A n \in HookNames \ {hookOp.name} : server'[n] = server[n]
      BY <1>0, <1>2, <3>1, <3>2
    <3>4. /\ hookOp' \in HookOpType /\ hookOp'.pc = "stored" /\ hookOp'.name = hookOp.name
          /\ hookOp'.url = hookOp.url
      BY <1>0, <3>2, GoesTyped DEF HookPcs
    <3> QED BY <1>0, <1>1, <3>2, <3>3, <3>4, ServerReports
  <2> QED BY <2>1, <2>2
<1>11. CASE StoreSet
  BY <1>11, ClaimStored DEF StoreSet
<1>12. CASE StoreError
  <2>1. /\ hookRow' = [hookRow EXCEPT !.error = TRUE, !.recent = TRUE]
        /\ HookDone("failed") \/ HookDone("skipped")
        /\ UNCHANGED <<server, base, unsure>>
    BY <1>12 DEF StoreError, HookGivesUp
  <2>2. /\ hookOp' \in HookOpType /\ hookOp'.pc = "done" /\ hookOp'.ends # "ensured"
    BY <1>0, <2>1, DoneTyped
  <2>3. /\ hookRow' \in HookRowType /\ hookRow'.error /\ hookRow'.exists = hookRow.exists
        /\ hookRow'.name = hookRow.name /\ hookRow'.url = hookRow.url /\ hookRow'.hash = hookRow.hash
    BY <1>0, <2>1 DEF HookRowType
  <2>4. HookTypes' /\ Addressed(hookRow, hookOp, base)' /\ HashIsOld(hookRow, base)'
    BY <1>0, <2>1, <2>2, <2>3 DEF HookTypes, Addressed, Hooking, Removing, HashIsOld
  <2>5. HashHolds' /\ OpHolds'
    BY <2>2, <2>3 DEF HashHolds, OpHolds
  <2> QED BY <2>4, <2>5 DEF HookInv
<1> QED BY <1>4, <1>5, <1>6, <1>7, <1>8, <1>9, <1>10, <1>11, <1>12

\* The instance is deleted: by a removal that goes on to take the claim back, or by one
\* that failed, or by somebody else, after which nobody knows.
LEMMA ServerUnsure ==
  ASSUME HookInv, NEW n \in HookNames, NEW i \in ServerType,
         UNCHANGED <<hookRow, base>>, troubles' \in 0..MaxTroubles,
         server' \in {server, [server EXCEPT ![n] = i]},
         \/ unsure' = unsure \cup {n}
         \/ unsure' = unsure /\ hookOp'.pc = "forget" /\ hookOp'.name = n,
         hookOp' \in HookOpType, Addressed(hookRow, hookOp', base),
         hookOp'.name = hookOp.name, hookOp'.url = hookOp.url,
         hookOp.pc = "forget" => hookOp.name = n /\ unsure' = unsure \cup {n},
         \/ hookOp'.pc = hookOp.pc /\ hookOp'.ends = hookOp.ends
         \/ /\ hookOp'.pc \notin {"mark", "seen", "stored"}
            /\ hookOp'.pc = "done" => hookOp'.ends # "ensured"
  PROVE  HookInv'
<1>1. HookTypes' /\ Addressed(hookRow, hookOp, base)' /\ HashIsOld(hookRow, base)'
  BY DEF HookInv, HookTypes, Addressed, HashIsOld, Hooking, Removing
<1>2. \A m \in HookNames : \A url : Reports(m, url) => Reports(m, url)' \/ (m = n /\ unsure' = unsure)
  BY DEF Reports, HookInv, HookTypes
<1>3. HashHolds'
  <2> SUFFICES ASSUME NEW m \in HookNames, NEW b \in 1..MaxBases,
                      hookRow.hash = HookUrl(m, b), hookRow.enabled, ~hookRow.error,
                      b = base \/ hookRow.url = HookUrl(m, b)
               PROVE  Reports(m, HookUrl(m, b))' \/ (hookOp'.pc = "forget" /\ hookOp'.name = m)
    BY DEF HashHolds, HookUrl, Reports
  <2>1. Reports(m, HookUrl(m, b)) \/ (hookOp.pc = "forget" /\ hookOp.name = m)
    BY DEF HookInv, HashHolds
  <2>2. CASE m = n
    BY <2>2 DEF Reports
  <2>3. CASE m # n
    BY <1>2, <2>1, <2>3 DEF HookUrl
  <2> QED BY <2>2, <2>3
<1>4. OpHolds'
  <2>1. CASE /\ hookOp'.pc \notin {"mark", "seen", "stored"}
             /\ hookOp'.pc = "done" => hookOp'.ends # "ensured"
    BY <2>1 DEF OpHolds
  <2>2. CASE hookOp'.pc = hookOp.pc /\ hookOp'.ends = hookOp.ends
    <3>1. hookOp.pc \in {"mark", "seen", "stored"} => hookOp.name \in HookNames
      BY DEF HookInv, Addressed, Hooking
    <3>2. hookOp.pc = "forget" => hookOp.pc \notin {"mark", "seen", "stored", "done"}
      OBVIOUS
    <3>3. ASSUME hookOp.name \in HookNames, hookOp.pc # "forget", Reports(hookOp.name, hookOp.url)
          PROVE  Reports(hookOp.name, hookOp.url)'
      BY <1>2, <2>2, <3>3 DEF Reports
    <3> QED BY <2>2, <3>1, <3>2, <3>3 DEF HookInv, OpHolds
  <2> QED BY <2>1, <2>2
<1> QED BY <1>1, <1>3, <1>4 DEF HookInv

\* Only the row's cooldown changes.
LEMMA CooldownStep ==
  ASSUME HookInv, CooldownEnds
  PROVE  HookInv'
<1>0. UNCHANGED <<server, base, hookOp, unsure, troubles>>
  BY DEF CooldownEnds
<1>1. /\ hookRow' \in HookRowType /\ hookRow'.exists = hookRow.exists
      /\ hookRow'.name = hookRow.name /\ hookRow'.url = hookRow.url
      /\ hookRow'.enabled = hookRow.enabled /\ hookRow'.hash = hookRow.hash
      /\ hookRow'.error = hookRow.error
  <2>1. hookRow \in HookRowType
    BY DEF HookInv, HookTypes
  <2>2. hookRow' \in {hookRow, [hookRow EXCEPT !.recent = FALSE]}
    BY DEF CooldownEnds
  <2> QED BY <2>1, <2>2 DEF HookRowType
<1>2. HookTypes' /\ Addressed(hookRow, hookOp, base)' /\ HashIsOld(hookRow, base)'
  BY <1>0, <1>1 DEF HookInv, HookTypes, Addressed, Hooking, Removing, HashIsOld
<1>3. HashHolds' /\ OpHolds'
  BY <1>0, <1>1 DEF HookInv, HashHolds, OpHolds, Reports, HookUrl
<1> QED BY <1>2, <1>3 DEF HookInv

LEMMA PrepareStep ==
  ASSUME HookInv, NEW n \in HookNames, PrepareHook(n)
  PROVE  HookInv'
<1>0. /\ base \in 1..MaxBases /\ hookRow \in HookRowType /\ UNCHANGED <<server, base, unsure, troubles>>
      /\ hookRow' = [hookRow EXCEPT !.exists = TRUE, !.name = n, !.url = HookUrl(n, base)]
  BY DEF HookInv, HookTypes, PrepareHook
<1>1. /\ hookRow' \in HookRowType /\ hookRow'.exists /\ hookRow'.name = n
      /\ hookRow'.url = HookUrl(n, base) /\ hookRow'.enabled = hookRow.enabled
      /\ hookRow'.hash = hookRow.hash /\ hookRow'.error = hookRow.error
  BY <1>0, UrlsRight DEF HookRowType
<1>2. /\ hookOp' \in HookOpType /\ hookOp'.pc = "find" /\ hookOp'.name = n
      /\ hookOp'.url = HookUrl(n, base)
  <2>1. hookOp' = [NoHookOp EXCEPT !.kind = "connect", !.pc = "find", !.name = n, !.url = HookUrl(n, base)]
    BY DEF PrepareHook
  <2> QED BY <1>0, <2>1, UrlsRight DEF NoHookOp, HookOpType, HookPcs
<1>3. HookTypes' /\ Addressed(hookRow, hookOp, base)'
  BY <1>0, <1>1, <1>2 DEF HookInv, HookTypes, Addressed, Hooking, Removing
<1>4. HashIsOld(hookRow, base)'
  <2> SUFFICES ASSUME NEW k \in HookNames, NEW m \in HookNames,
                      NEW b \in 1..MaxBases, NEW d \in 1..MaxBases, hookRow.hash = HookUrl(k, b)
               PROVE  b <= base /\ (HookUrl(n, base) = HookUrl(m, d) => b <= d)
    BY <1>0, <1>1 DEF HashIsOld, HookUrl
  <2>1. b <= base
    BY DEF HookInv, HashIsOld
  <2>2. HookUrl(n, base) = HookUrl(m, d) => base = d
    BY <1>0 DEF HookUrl
  <2> QED BY <2>1, <2>2
<1>5. HashHolds'
  <2> SUFFICES ASSUME NEW m \in HookNames, NEW b \in 1..MaxBases,
                      hookRow.hash = HookUrl(m, b), hookRow.enabled, ~hookRow.error,
                      b = base \/ HookUrl(n, base) = HookUrl(m, b)
               PROVE  Reports(m, HookUrl(m, b))
    BY <1>0, <1>1 DEF HashHolds, HookUrl, Reports
  <2>1. b = base
    BY <1>0 DEF HookUrl
  <2>2. hookOp.pc = "idle"
    BY DEF PrepareHook
  <2> QED BY <2>1, <2>2 DEF HookInv, HashHolds
<1>6. OpHolds'
  BY <1>2 DEF OpHolds
<1> QED BY <1>3, <1>4, <1>5, <1>6 DEF HookInv

LEMMA DeployStep ==
  ASSUME HookInv, Deploy
  PROVE  HookInv'
<1>0. /\ base \in 1..MaxBases /\ base' = base + 1 /\ base < MaxBases
      /\ UNCHANGED <<hookRow, server, troubles>>
  BY DEF HookInv, HookTypes, Deploy
<1>1. base' \in 1..MaxBases
  BY <1>0, ProviderWebhookAssumption
<1>2. hookOp' \in HookOpType /\ hookOp'.pc = "idle"
  BY DEF Deploy, NoHookOp, HookOpType, HookPcs
<1>3. unsure' \subseteq HookNames /\ unsure \subseteq unsure'
      /\ (hookOp.pc = "forget" => hookOp.name \in unsure')
  <2>1. unsure \subseteq HookNames /\ (hookOp.pc = "forget" => hookOp.name \in HookNames)
    BY DEF HookInv, HookTypes, Addressed, Removing
  <2> QED BY <2>1 DEF Deploy
<1>4. HookTypes'
  BY <1>0, <1>1, <1>2, <1>3 DEF HookInv, HookTypes
<1>5. Addressed(hookRow, hookOp, base)'
  <2>1. \A b \in 1..base : b \in 1..base'
    BY <1>0
  <2> QED BY <1>0, <1>2, <2>1 DEF HookInv, Addressed, Hooking, Removing, HookUrl
<1>6. HashIsOld(hookRow, base)'
  <2> SUFFICES ASSUME NEW k \in HookNames, NEW m \in HookNames,
                      NEW b \in 1..MaxBases, NEW d \in 1..MaxBases, hookRow.hash = HookUrl(k, b)
               PROVE  b <= base' /\ (hookRow.url = HookUrl(m, d) => b <= d)
    BY <1>0 DEF HashIsOld, HookUrl
  <2>1. b <= base /\ (hookRow.url = HookUrl(m, d) => b <= d)
    BY DEF HookInv, HashIsOld
  <2> QED BY <1>0, <2>1
<1>7. HashHolds'
  <2> SUFFICES ASSUME NEW m \in HookNames, NEW b \in 1..MaxBases,
                      hookRow.hash = HookUrl(m, b), hookRow.enabled, ~hookRow.error,
                      b = base' \/ hookRow.url = HookUrl(m, b)
               PROVE  server[m].hook = HookUrl(m, b) \/ m \in unsure'
    BY <1>0 DEF HashHolds, HookUrl, Reports
  <2>1. b <= base
    BY DEF HookInv, HashIsOld
  <2>2. hookRow.url = HookUrl(m, b)
    BY <1>0, <2>1
  <2>3. Reports(m, HookUrl(m, b)) \/ (hookOp.pc = "forget" /\ hookOp.name = m)
    BY <2>2 DEF HookInv, HashHolds
  <2> QED BY <1>3, <2>3 DEF Reports
<1>8. OpHolds'
  BY <1>2 DEF OpHolds
<1> QED BY <1>4, <1>5, <1>6, <1>7, <1>8 DEF HookInv

LEMMA RepairStep ==
  ASSUME HookInv, RepairHook
  PROVE  HookInv'
<1>0. /\ hookRow \in HookRowType /\ hookOp.pc = "idle" /\ hookRow.exists
      /\ UNCHANGED <<hookRow, server, base, unsure>> /\ troubles' \in 0..MaxTroubles
  BY DEF HookInv, HookTypes, RepairHook
<1>1. hookOp' = [NoHookOp EXCEPT !.kind = "repair", !.pc = "ensure", !.name = hookRow.name,
                                 !.url = hookRow.url]
  BY DEF RepairHook
<1>2. hookRow.name \in HookNames \cup {""} /\ hookRow.url \in Urls \cup {NoUrl}
  BY <1>0 DEF HookRowType
<1>3. /\ hookOp' \in HookOpType /\ hookOp'.pc = "ensure" /\ hookOp'.name = hookRow.name
      /\ hookOp'.url = hookRow.url
  BY <1>1, <1>2 DEF NoHookOp, HookOpType, HookPcs
<1>4. Addressed(hookRow, hookOp', base)
  BY <1>0, <1>3 DEF HookInv, Addressed, Hooking, Removing
<1> QED BY <1>0, <1>3, <1>4, OpOnly

LEMMA BeginRemovalStep ==
  ASSUME HookInv, BeginRemoval
  PROVE  HookInv'
<1>0. /\ hookRow \in HookRowType /\ hookOp.pc = "idle" /\ hookRow.exists
      /\ UNCHANGED <<hookRow, server, base, unsure>> /\ troubles' \in 0..MaxTroubles
  BY DEF HookInv, HookTypes, BeginRemoval
<1>1. \/ hookOp' = [NoHookOp EXCEPT !.kind = "disconnect", !.pc = "done", !.ends = "failed"]
      \/ hookOp' = [NoHookOp EXCEPT !.kind = "disconnect", !.pc = "logout", !.name = hookRow.name]
  BY DEF BeginRemoval
<1>2. hookRow.name \in HookNames \cup {""}
  BY <1>0 DEF HookRowType
<1>3. /\ hookOp' \in HookOpType
      /\ \/ hookOp'.pc = "done" /\ hookOp'.ends = "failed"
         \/ hookOp'.pc = "logout" /\ hookOp'.name = hookRow.name
  BY <1>1, <1>2 DEF NoHookOp, HookOpType, HookPcs
<1>4. Addressed(hookRow, hookOp', base)
  BY <1>0, <1>3 DEF HookInv, Addressed, Hooking, Removing
<1> QED BY <1>0, <1>3, <1>4, OpOnly

LEMMA FinishedStep ==
  ASSUME HookInv, Finished
  PROVE  HookInv'
<1>0. /\ hookOp.pc = "done" /\ UNCHANGED <<hookRow, server, base, unsure>> /\ troubles' \in 0..MaxTroubles
  BY DEF HookInv, HookTypes, Finished
<1>1. hookOp' \in HookOpType /\ hookOp'.pc = "idle"
  BY DEF Finished, NoHookOp, HookOpType, HookPcs
<1>2. Addressed(hookRow, hookOp', base)
  BY <1>1 DEF HookInv, Addressed, Hooking, Removing
<1> QED BY <1>0, <1>1, <1>2, OpOnly

\* The steps of a removal.
LEMMA RemovalStep ==
  ASSUME HookInv,
         LogoutRemote \/ DeleteRemoteInstance \/ ForgetHook \/ NothingToRemove
  PROVE  HookInv'
<1>0. /\ HookTypes /\ hookRow \in HookRowType /\ server \in [HookNames -> ServerType]
      /\ troubles' \in 0..MaxTroubles /\ UNCHANGED <<base, unsure>>
      /\ Addressed(hookRow, hookOp, base) /\ HashIsOld(hookRow, base)
  BY DEF HookInv, HookTypes, LogoutRemote, DeleteRemoteInstance, ForgetHook, NothingToRemove
<1>1. Removing(hookOp) /\ hookOp.name = hookRow.name /\ hookRow.exists /\ hookOp.name \in HookNames
  <2>1. Removing(hookOp)
    BY DEF Removing, LogoutRemote, DeleteRemoteInstance, ForgetHook, NothingToRemove
  <2> QED BY <1>0, <2>1 DEF Addressed
<1>2. CASE LogoutRemote \/ NothingToRemove
  <2>1. /\ hookOp.pc # "forget" /\ UNCHANGED <<hookRow, server>>
        /\ HookDone("failed") \/ HookGoes("delete")
    BY <1>2 DEF LogoutRemote, NothingToRemove, HookGivesUp
  <2>2. /\ hookOp' \in HookOpType /\ hookOp'.name = hookOp.name
        /\ \/ hookOp'.pc = "done" /\ hookOp'.ends = "failed"
           \/ hookOp'.pc = "delete"
    BY <1>0, <2>1, DoneTyped, GoesTyped DEF HookPcs
  <2>3. Addressed(hookRow, hookOp', base)
    BY <1>0, <1>1, <2>2 DEF Addressed, Hooking, Removing
  <2> QED BY <1>0, <2>1, <2>2, <2>3, OpOnly
<1>3. CASE DeleteRemoteInstance
  <2>1. /\ hookOp.pc = "delete" /\ server' = [server EXCEPT ![hookOp.name] = NoInstance]
        /\ HookGoes("forget") /\ UNCHANGED hookRow
    BY <1>3 DEF DeleteRemoteInstance, DropRemote
  <2>2. NoInstance \in ServerType
    BY DEF NoInstance, ServerType
  <2>3. /\ hookOp' \in HookOpType /\ hookOp'.pc = "forget" /\ hookOp'.name = hookOp.name
        /\ hookOp'.url = hookOp.url
    BY <1>0, <2>1, GoesTyped DEF HookPcs
  <2>4. Addressed(hookRow, hookOp', base)
    BY <1>0, <1>1, <2>3 DEF Addressed, Hooking, Removing
  <2> QED BY <1>0, <1>1, <2>1, <2>2, <2>3, <2>4, ServerUnsure
<1>4. CASE ForgetHook
  <2>1. /\ hookRow' = [hookRow EXCEPT !.enabled = FALSE, !.error = FALSE]
        /\ HookDone("none") /\ UNCHANGED server
    BY <1>4 DEF ForgetHook
  <2>2. /\ hookOp' \in HookOpType /\ hookOp'.pc = "done" /\ hookOp'.ends # "ensured"
    BY <1>0, <2>1, DoneTyped
  <2>3. /\ hookRow' \in HookRowType /\ ~hookRow'.enabled /\ hookRow'.exists = hookRow.exists
        /\ hookRow'.name = hookRow.name /\ hookRow'.url = hookRow.url /\ hookRow'.hash = hookRow.hash
    BY <1>0, <2>1 DEF HookRowType
  <2>4. HookTypes' /\ Addressed(hookRow, hookOp, base)' /\ HashIsOld(hookRow, base)'
    BY <1>0, <2>1, <2>2, <2>3 DEF HookTypes, Addressed, Hooking, Removing, HashIsOld
  <2>5. HashHolds' /\ OpHolds'
    BY <2>2, <2>3 DEF HashHolds, OpHolds
  <2> QED BY <2>4, <2>5 DEF HookInv
<1> QED BY <1>2, <1>3, <1>4

\* Failures of requests.
LEMMA RequestLostStep ==
  ASSUME HookInv, RequestLost
  PROVE  HookInv'
<1>0. /\ HookTypes /\ hookRow \in HookRowType /\ server \in [HookNames -> ServerType]
      /\ base \in 1..MaxBases
      /\ UNCHANGED <<hookRow, base>>
      /\ Addressed(hookRow, hookOp, base) /\ HashIsOld(hookRow, base)
      /\ hookOp.pc \in {"find", "create", "logout", "delete", "get", "set"}
  BY DEF HookInv, HookTypes, RequestLost
<1>t. troubles' \in 0..MaxTroubles
  <2>1. troubles \in 0..MaxTroubles /\ troubles < MaxTroubles /\ troubles' = troubles + 1
    BY DEF HookInv, HookTypes, RequestLost, Trouble
  <2> QED BY <2>1, ProviderWebhookAssumption
<1>1. hookOp.name = hookRow.name /\ hookRow.exists /\ hookOp.name \in HookNames
      /\ (Hooking(hookOp) => hookOp.url \in Urls /\ hookOp.url = hookRow.url)
  <2>1. \A b \in 1..base : b \in 1..MaxBases
    BY <1>0, ProviderWebhookAssumption
  <2> QED BY <1>0, <2>1, UrlsRight DEF Addressed, Hooking, Removing
\* Nothing done: the operation ends, or goes on to set the webhook or to its error.
<1>2. ASSUME UNCHANGED <<server, unsure>>,
             \/ HookDone("failed") \/ HookDone("skipped")
             \/ Hooking(hookOp) /\ (HookGoes("set") \/ HookGoes("error"))
      PROVE  HookInv'
  <2>1. /\ hookOp' \in HookOpType /\ hookOp'.name = hookOp.name /\ hookOp'.url = hookOp.url
        /\ \/ hookOp'.pc = "done" /\ hookOp'.ends # "ensured"
           \/ Hooking(hookOp) /\ hookOp'.pc \in {"set", "error"}
    BY <1>0, <1>2, DoneTyped, GoesTyped DEF HookPcs
  <2>2. Addressed(hookRow, hookOp', base)
    BY <1>0, <1>1, <2>1 DEF Addressed, Hooking, Removing
  <2> QED BY <1>0, <1>t, <1>2, <2>1, <2>2, OpOnly
<1>3. CASE hookOp.pc = "create" /\ HookGivesUp /\ MakeRemote(hookOp.name, hookOp.url) /\ UNCHANGED unsure
  <2> DEFINE i == [exists |-> TRUE, hook |-> hookOp.url]
  <2>1. i \in ServerType /\ Hooking(hookOp)
    BY <1>1, <1>3 DEF ServerType, Hooking
  <2>2. /\ server' \in [HookNames -> ServerType] /\ server'[hookOp.name].hook = hookOp.url
        /\ \A n \in HookNames \ {hookOp.name} : server'[n] = server[n]
    BY <1>0, <1>1, <1>3, <2>1 DEF MakeRemote
  <2>3. /\ hookOp' \in HookOpType /\ hookOp'.pc = "done" /\ hookOp'.ends = "failed"
        /\ hookOp'.name = hookOp.name /\ hookOp'.url = hookOp.url
    BY <1>0, <1>3, DoneTyped DEF HookGivesUp
  <2> QED BY <1>0, <1>t, <1>3, <2>1, <2>2, <2>3, ServerReports
<1>4. CASE hookOp.pc = "delete" /\ HookGivesUp /\ DropRemote(hookOp.name)
           /\ unsure' = unsure \cup {hookOp.name}
  <2>1. NoInstance \in ServerType
    BY DEF NoInstance, ServerType
  <2>2. /\ hookOp' \in HookOpType /\ hookOp'.pc = "done" /\ hookOp'.ends = "failed"
        /\ hookOp'.name = hookOp.name /\ hookOp'.url = hookOp.url
    BY <1>0, <1>4, DoneTyped DEF HookGivesUp
  <2>3. Addressed(hookRow, hookOp', base)
    BY <1>0, <2>2 DEF Addressed, Hooking, Removing
  <2> QED BY <1>0, <1>1, <1>t, <1>4, <2>1, <2>2, <2>3, ServerUnsure DEF DropRemote
<1>5. CASE hookOp.pc = "set" /\ HookGoes("error") /\ UNCHANGED unsure
           /\ server' = [server EXCEPT ![hookOp.name].hook = hookOp.url]
  <2> DEFINE i == [server[hookOp.name] EXCEPT !.hook = hookOp.url]
  <2>0. Hooking(hookOp)
    BY <1>5 DEF Hooking
  <2>1. i \in ServerType /\ i.hook = hookOp.url
    BY <1>0, <1>1, <2>0 DEF ServerType
  <2>2. /\ server' \in [HookNames -> ServerType] /\ server'[hookOp.name].hook = hookOp.url
        /\ \A n \in HookNames \ {hookOp.name} : server'[n] = server[n]
    BY <1>0, <1>1, <1>5, <2>1
  <2>3. /\ hookOp' \in HookOpType /\ hookOp'.pc = "error" /\ hookOp'.name = hookOp.name
        /\ hookOp'.url = hookOp.url
    BY <1>0, <1>5, GoesTyped DEF HookPcs
  <2> QED BY <1>0, <1>t, <1>5, <2>0, <2>2, <2>3, ServerReports
<1>6. CASE hookOp.pc = "get" /\ Settles /\ UNCHANGED <<server, unsure>>
  BY <1>2, <1>6 DEF Settles, Hooking
<1>7. CASE hookOp.pc = "set" /\ HookGoes("error") /\ UNCHANGED <<server, unsure>>
  BY <1>2, <1>7 DEF Hooking
<1>8. CASE hookOp.pc \in {"find", "create", "logout", "delete"} /\ HookGivesUp /\ UNCHANGED <<server, unsure>>
  BY <1>2, <1>8 DEF HookGivesUp
<1> QED BY <1>3, <1>4, <1>5, <1>6, <1>7, <1>8 DEF RequestLost

LEMMA WriteLostStep ==
  ASSUME HookInv, WriteLost
  PROVE  HookInv'
<1>0. /\ HookTypes /\ UNCHANGED <<hookRow, base, server>>
      /\ server \in [HookNames -> ServerType]
      /\ Addressed(hookRow, hookOp, base)
      /\ unsure' = IF hookOp.pc = "forget" THEN unsure \cup {hookOp.name} ELSE unsure
  BY DEF HookInv, HookTypes, WriteLost
<1>t. troubles' \in 0..MaxTroubles
  <2>1. troubles \in 0..MaxTroubles /\ troubles < MaxTroubles /\ troubles' = troubles + 1
    BY DEF HookInv, HookTypes, WriteLost, Trouble
  <2> QED BY <2>1, ProviderWebhookAssumption
<1>1. /\ hookOp' \in HookOpType /\ hookOp'.name = hookOp.name /\ hookOp'.url = hookOp.url
      /\ \/ hookOp'.pc = "done" /\ hookOp'.ends = "failed"
         \/ hookOp'.pc = "error" /\ hookOp.pc = "stored"
  <2>0. HookGivesUp \/ (hookOp.pc = "stored" /\ HookGoes("error"))
    BY DEF WriteLost
  <2>1. HookDone("failed") \/ (hookOp.pc = "stored" /\ HookGoes("error"))
    BY <2>0 DEF HookGivesUp
  <2> QED BY <1>0, <2>1, DoneTyped, GoesTyped DEF HookPcs
<1>2. Addressed(hookRow, hookOp', base)
  BY <1>0, <1>1 DEF Addressed, Hooking, Removing
<1>3. CASE hookOp.pc # "forget"
  BY <1>0, <1>t, <1>1, <1>2, <1>3, OpOnly
<1>4. CASE hookOp.pc = "forget"
  <2>1. hookOp.name \in HookNames
    BY <1>0, <1>4 DEF Addressed, Removing
  <2>2. NoInstance \in ServerType
    BY DEF NoInstance, ServerType
  <2> QED BY <1>0, <1>t, <1>1, <1>2, <1>4, <2>1, <2>2, ServerUnsure
<1> QED BY <1>3, <1>4

LEMMA OutsideStep ==
  ASSUME HookInv, NEW n \in HookNames, NEW i \in ServerType, Outside(n, i)
  PROVE  HookInv'
<1>0. /\ HookTypes /\ hookOp \in HookOpType /\ UNCHANGED <<hookRow, base, hookOp>>
      /\ unsure' = unsure \cup {n} /\ server' = [server EXCEPT ![n] = i]
      /\ Addressed(hookRow, hookOp, base) /\ unsure \subseteq HookNames
  BY DEF HookInv, HookTypes, Outside
<1>t. troubles' \in 0..MaxTroubles
  <2>1. troubles \in 0..MaxTroubles /\ troubles < MaxTroubles /\ troubles' = troubles + 1
    BY DEF HookInv, HookTypes, Outside, Trouble
  <2> QED BY <2>1, ProviderWebhookAssumption
<1>1. server' \in [HookNames -> ServerType]
  BY <1>0 DEF HookTypes
<1>2. \A m \in HookNames : \A url : Reports(m, url) => Reports(m, url)'
  BY <1>0 DEF Reports, HookTypes
<1>3. HookTypes' /\ Addressed(hookRow, hookOp, base)' /\ HashIsOld(hookRow, base)'
  BY <1>0, <1>1, <1>t DEF HookInv, HookTypes, Addressed, HashIsOld, Hooking, Removing
<1>4. HashHolds'
  BY <1>0, <1>2 DEF HookInv, HashHolds, HookUrl
<1>5. OpHolds'
  <2>1. hookOp.pc \in {"mark", "seen", "stored"} => hookOp.name \in HookNames
    BY <1>0 DEF Addressed, Hooking
  <2> QED BY <1>0, <1>2, <2>1 DEF HookInv, OpHolds
<1> QED BY <1>3, <1>4, <1>5 DEF HookInv

LEMMA HookNextInv == HookInv /\ [ProviderWebhookNext]_providerWebhookVars => HookInv'
<1> SUFFICES ASSUME HookInv, [ProviderWebhookNext]_providerWebhookVars PROVE HookInv'
  OBVIOUS
<1>1. CASE UNCHANGED providerWebhookVars
  BY <1>1 DEF providerWebhookVars, HookInv, HookTypes, Addressed, Hooking, Removing, HashIsOld,
              HashHolds, OpHolds, Reports, HookUrl
<1>2. {NoInstance, [exists |-> TRUE, hook |-> NoUrl], [exists |-> TRUE, hook |-> Elsewhere]}
        \subseteq ServerType
  BY DEF NoInstance, ServerType
<1> QED BY <1>1, <1>2, PrepareStep, HookStep, RepairStep, BeginRemovalStep, FinishedStep,
           RemovalStep, RequestLostStep, WriteLostStep, DeployStep, CooldownStep, OutsideStep
        DEF ProviderWebhookNext

\* For any names and any number of deployments, failures and changes from outside: while the
\* row claims that the webhook is configured, and when a connection or a repair ends with
\* that claim, the instance reports to that address, unless it was changed from outside or
\* left half removed since it was last seen.
THEOREM HookTold == ProviderWebhookSpec => []HookIsTold
<1>1. HookInv => HookIsTold
  <2> SUFFICES ASSUME HookInv PROVE HookIsTold
    OBVIOUS
  <2>1. RowTellsTheHook
    <3> SUFFICES ASSUME hookOp.pc # "forget", hookRow.exists, Trusted(hookRow, hookRow.url)
                 PROVE  Reports(hookRow.name, hookRow.url)
      BY DEF RowTellsTheHook, Reports
    <3>1. PICK n \in HookNames, b \in 1..base : hookRow.name = n /\ hookRow.url = HookUrl(n, b)
      BY DEF HookInv, Addressed
    <3>2. b \in 1..MaxBases
      <4>1. base \in 1..MaxBases
        BY DEF HookInv, HookTypes
      <4> QED BY <4>1, ProviderWebhookAssumption
    <3> QED BY <3>1, <3>2 DEF HookInv, HashHolds, Trusted, HashOf
  <2>2. EndsHooked
    BY DEF HookInv, OpHolds, EndsHooked, Reports
  <2> QED BY <2>1, <2>2 DEF HookIsTold
<1> QED BY <1>1, HookInitInv, HookNextInv, PTL DEF ProviderWebhookSpec

-----------------------------------------------------------------------------
(***************************************************************************)
(* MercadoLivreToken.  A refresh token a handler is about to save is known *)
(* to nobody else: it is not spent, not in the row, and no other handler   *)
(* has seen it.                                                            *)
(***************************************************************************)

Saving(h) == handler[h].pc = "save"

\* Tokens issued so far bound every number in use.
Numbers ==
    /\ token.refresh <= issued
    /\ \A t \in spent : t <= issued
    /\ \A h \in Handlers : handler[h].seen <= issued /\ handler[h].got <= issued

\* What a handler is about to save is its own.
Secret ==
    /\ \A h \in Handlers : Saving(h) =>
         /\ handler[h].got # 0 /\ handler[h].got \notin spent
         /\ handler[h].got # token.refresh
         /\ \A g \in Handlers : handler[g].seen # handler[h].got
    /\ \A g, h \in Handlers : Saving(g) /\ Saving(h) /\ g # h =>
         handler[g].got # handler[h].got

Inv == TypeOK /\ Numbers /\ Secret /\ TokenUsable

USE TokenBounds

LEMMA InitInv == Init => Inv
<1> SUFFICES ASSUME Init PROVE Inv
  OBVIOUS
<1>1. Idle \in HandlerType
  BY DEF Idle, HandlerType
<1>2. TypeOK
  <2>1. 0 \in 0..MaxTokens /\ 0 \in 0..MaxFaults
    OBVIOUS
  <2>2. handler \in [Handlers -> HandlerType]
    BY <1>1 DEF Init
  <2> QED BY <2>1, <2>2 DEF Init, TypeOK, Status
<1>3. Numbers /\ Secret /\ TokenUsable
  BY DEF Init, Numbers, Secret, TokenUsable, Saving, Idle
<1> QED BY <1>2, <1>3 DEF Inv

\* Replacing one handler's record.
LEMMA SetHandler ==
  ASSUME TypeOK, NEW h \in Handlers, NEW r \in HandlerType, Set(h, r)
  PROVE  /\ handler' \in [Handlers -> HandlerType]
         /\ handler'[h] = r
         /\ \A g \in Handlers \ {h} : handler'[g] = handler[g]
  BY DEF Set, TypeOK

\* What a step does to the handler that takes it, and to nobody else's record:
\* its record keeps its type, and either it is about to save a token it has
\* just been issued, or it is not about to save.
LEMMA StepHandler ==
  ASSUME TypeOK, NEW h \in Handlers, Step(h)
  PROVE  /\ handler' \in [Handlers -> HandlerType]
         /\ \A g \in Handlers \ {h} : handler'[g] = handler[g]
<1>h. handler[h] \in HandlerType
  BY DEF TypeOK
<1>i. Idle \in HandlerType
  BY DEF Idle, HandlerType
<1>1. CASE ReadToken(h)
  <2>1. [Idle EXCEPT !.pc = "renew", !.seen = token.refresh] \in HandlerType
    BY <1>i DEF HandlerType, TypeOK
  <2> QED BY <1>1, <2>1, SetHandler DEF ReadToken
<1>2. CASE Renew(h)
  <2>1. CASE handler[h].seen \in spent
    BY <1>2, <1>i, <2>1, SetHandler DEF Renew
  <2>2. CASE handler[h].seen \notin spent
    <3>0. issued + 1 \in 0..MaxTokens
      BY <1>2, <2>2 DEF Renew, TypeOK
    <3>1. [handler[h] EXCEPT !.pc = "save", !.got = issued + 1] \in HandlerType
      BY <1>h, <3>0 DEF HandlerType
    <3> QED BY <1>2, <2>2, <3>1, SetHandler DEF Renew
  <2> QED BY <2>1, <2>2
<1>3. CASE BeginCallback(h)
  <2>1. [Idle EXCEPT !.pc = "exchange"] \in HandlerType
    BY <1>i DEF HandlerType
  <2> QED BY <1>3, <2>1, SetHandler DEF BeginCallback
<1>4. CASE ExchangeCode(h)
  <2>0. issued + 1 \in 0..MaxTokens
    BY <1>4 DEF ExchangeCode, TypeOK
  <2>1. [handler[h] EXCEPT !.pc = "save", !.got = issued + 1] \in HandlerType
    BY <1>h, <2>0 DEF HandlerType
  <2> QED BY <1>4, <2>1, SetHandler DEF ExchangeCode
<1>5. CASE SaveToken(h)
  BY <1>5, <1>i, SetHandler DEF SaveToken
<1>6. CASE Disconnect(h)
  <2>1. [Idle EXCEPT !.pc = "disconnect", !.todo = {"token", "integration"}]
            \in HandlerType
    BY <1>i DEF HandlerType
  <2> QED BY <1>6, <2>1, SetHandler DEF Disconnect
<1>7. ASSUME NEW t \in {"token", "integration"}, MarkDisconnected(h, t)
      PROVE  /\ handler' \in [Handlers -> HandlerType]
             /\ \A g \in Handlers \ {h} : handler'[g] = handler[g]
  <2>1. [handler[h] EXCEPT !.todo = @ \ {t}] \in HandlerType
    BY <1>h DEF HandlerType
  <2> QED BY <1>7, <1>i, <2>1, SetHandler DEF MarkDisconnected
<1>8. CASE CallFails(h)
  BY <1>8, <1>i, SetHandler DEF CallFails
<1> QED BY <1>1, <1>2, <1>3, <1>4, <1>5, <1>6, <1>7, <1>8 DEF Step

\* One action at a time preserves the types.
LEMMA TypeStep == TypeOK /\ [Next]_vars => TypeOK'
<1> SUFFICES ASSUME TypeOK, [Next]_vars PROVE TypeOK'
  OBVIOUS
<1> USE DEF row, history
<1>1. CASE UNCHANGED vars
  BY <1>1 DEF vars, TypeOK
<1>2. CASE Expire
  BY <1>2 DEF Expire, TypeOK
<1>3. ASSUME NEW h \in Handlers, Step(h) PROVE TypeOK'
  <2>1. handler' \in [Handlers -> HandlerType]
    BY <1>3, StepHandler
  <2>2. handler[h] \in HandlerType
    BY DEF TypeOK
  <2>3. CASE ReadToken(h)
    BY <2>1, <2>3 DEF ReadToken, TypeOK
  <2>4. CASE Renew(h)
    <3>1. CASE handler[h].seen \in spent
      BY <2>1, <2>4, <3>1 DEF Renew, TypeOK
    <3>2. CASE handler[h].seen \notin spent
      <4>1. issued' = issued + 1 /\ issued < MaxTokens /\ spent' = spent \cup {handler[h].seen}
        BY <2>4, <3>2 DEF Renew
      <4> QED BY <2>1, <2>2, <2>4, <3>2, <4>1 DEF Renew, TypeOK, HandlerType
    <3> QED BY <3>1, <3>2
  <2>5. CASE BeginCallback(h)
    BY <2>1, <2>5 DEF BeginCallback, TypeOK
  <2>6. CASE ExchangeCode(h)
    BY <2>1, <2>6 DEF ExchangeCode, TypeOK
  <2>7. CASE SaveToken(h)
    BY <2>1, <2>2, <2>7 DEF SaveToken, TypeOK, HandlerType, Status
  <2>8. CASE Disconnect(h)
    BY <2>1, <2>8 DEF Disconnect, TypeOK
  <2>9. CASE \E t \in {"token", "integration"} : MarkDisconnected(h, t)
    BY <2>1, <2>9 DEF MarkDisconnected, TypeOK, Status
  <2>10. CASE CallFails(h)
    <3>1. handler[h].seen \in 0..MaxTokens
      BY <2>2 DEF HandlerType
    <3>2. faults' \in 0..MaxFaults
      BY <2>10 DEF CallFails, TypeOK
    <3>3. torn' \in BOOLEAN /\ orphaned' \subseteq 0..MaxTokens /\ early' \subseteq Handlers
      BY <2>10, <3>1 DEF CallFails, TypeOK
    <3> QED BY <2>1, <2>10, <3>2, <3>3 DEF CallFails, TypeOK
  <2> QED BY <1>3, <2>3, <2>4, <2>5, <2>6, <2>7, <2>8, <2>9, <2>10 DEF Step
<1> QED BY <1>1, <1>2, <1>3 DEF Next

LEMMA NextInv == Inv /\ [Next]_vars => Inv'
<1> SUFFICES ASSUME Inv, [Next]_vars PROVE (Numbers /\ Secret /\ TokenUsable)'
  BY TypeStep DEF Inv
<1>t. TypeOK
  BY DEF Inv
<1> USE DEF row, history
<1>1. CASE UNCHANGED vars
  BY <1>1 DEF vars, Inv, Numbers, Secret, TokenUsable, Saving
<1>2. CASE Expire
  BY <1>2 DEF Expire, Inv, TypeOK, Numbers, Secret, TokenUsable, Saving
<1>3. ASSUME NEW h \in Handlers, Step(h) PROVE (Numbers /\ Secret /\ TokenUsable)'
  <2>1. \A g \in Handlers \ {h} : handler'[g] = handler[g]
    BY <1>3, <1>t, StepHandler
  <2>2. \A g \in Handlers : handler[g].seen \in Nat /\ handler[g].got \in Nat
    BY <1>t DEF TypeOK, HandlerType
  <2>n. issued \in Nat /\ token.refresh \in Nat /\ spent \subseteq Nat
    BY <1>t DEF TypeOK
  \* A step whose handler ends up idle, or not saving, with nothing issued.
  <2>3. ASSUME UNCHANGED <<issued, spent>>, ~Saving(h)', handler'[h].got = 0,
               handler'[h].seen \in {0, token.refresh},
               token'.refresh = token.refresh,
               token'.status = "none" => token.status = "none",
               token'.status # "none" => token.status # "none",
               Saving(h) => handler[h].seen \in orphaned',
               orphaned \subseteq orphaned'
        PROVE  (Numbers /\ Secret /\ TokenUsable)'
    <3>1. Numbers'
      BY <2>1, <2>2, <2>3, <2>n DEF Inv, Numbers
    <3>2. Secret'
      BY <2>1, <2>3 DEF Inv, Secret, Saving
    <3>3. TokenUsable'
      BY <2>1, <2>3 DEF Inv, TokenUsable, Saving
    <3> QED BY <3>1, <3>2, <3>3
  \* A step that issues a token to its handler, spending at most the one seen.
  <2>4. ASSUME issued' = issued + 1,
               spent' \in {spent, spent \cup {handler[h].seen}},
               UNCHANGED <<token, orphaned>>, ~Saving(h),
               handler'[h].pc = "save", handler'[h].got = issued + 1,
               handler'[h].seen = handler[h].seen
        PROVE  (Numbers /\ Secret /\ TokenUsable)'
    <3>1. Numbers'
      <4>1. \A t \in spent' : t <= issued'
        <5>1. handler[h].seen \in Nat /\ handler[h].seen <= issued
          BY <2>2 DEF Inv, Numbers
        <5>2. \A t \in spent : t \in Nat /\ t <= issued
          BY <2>n DEF Inv, Numbers
        <5>3. \A t \in spent \cup {handler[h].seen} : t <= issued + 1
          BY <2>n, <5>1, <5>2
        <5> QED BY <2>4, <5>2, <5>3, <2>n
      <4>2. \A g \in Handlers : handler'[g].seen <= issued' /\ handler'[g].got <= issued'
        BY <2>1, <2>2, <2>4, <2>n DEF Inv, Numbers
      <4> QED BY <2>4, <2>n, <4>1, <4>2 DEF Inv, Numbers
    <3>2. Secret'
      BY <2>1, <2>2, <2>4, <2>n DEF Inv, Numbers, Secret, Saving
    <3>3. TokenUsable'
      BY <2>1, <2>4 DEF Inv, TokenUsable, Saving
    <3> QED BY <3>1, <3>2, <3>3
  <2>h. handler \in [Handlers -> HandlerType]
    BY <1>t DEF TypeOK
  <2> USE DEF Idle, Set, Saving
  <2>5. CASE ReadToken(h)
    BY <2>3, <2>5, <2>h DEF ReadToken
  <2>6. CASE Renew(h)
    <3>1. CASE handler[h].seen \in spent
      BY <2>3, <2>6, <2>h, <3>1 DEF Renew
    <3>2. CASE handler[h].seen \notin spent
      <4>1. handler' = [handler EXCEPT ![h] =
               [handler[h] EXCEPT !.pc = "save", !.got = issued + 1]]
        BY <2>6, <3>2 DEF Renew
      <4>2. /\ handler'[h].pc = "save" /\ handler'[h].got = issued + 1
            /\ handler'[h].seen = handler[h].seen
        BY <2>h, <4>1 DEF HandlerType
      <4>3. /\ issued' = issued + 1 /\ spent' = spent \cup {handler[h].seen}
            /\ UNCHANGED <<token, orphaned>> /\ handler[h].pc = "renew"
        BY <2>6, <3>2 DEF Renew
      <4> QED BY <2>4, <4>2, <4>3
    <3> QED BY <3>1, <3>2
  <2>7. CASE BeginCallback(h)
    BY <2>3, <2>7, <2>h DEF BeginCallback
  <2>8. CASE ExchangeCode(h)
    BY <2>4, <2>8, <2>h DEF ExchangeCode, HandlerType
  <2>9. CASE SaveToken(h)
    <3>1. /\ token'.refresh = handler[h].got /\ handler[h].pc = "save"
          /\ handler'[h].pc = "idle" /\ handler'[h].seen = 0 /\ handler'[h].got = 0
          /\ UNCHANGED <<issued, spent, orphaned>>
      BY <2>9, <2>h DEF SaveToken
    <3>2. Numbers'
      <4>1. \A g \in Handlers : handler'[g].seen <= issued' /\ handler'[g].got <= issued'
        BY <2>1, <2>2, <2>n, <3>1 DEF Inv, Numbers
      <4> QED BY <3>1, <4>1 DEF Inv, Numbers
    <3>3. Secret'
      BY <2>1, <2>2, <3>1 DEF Inv, Secret
    <3>4. TokenUsable'
      BY <3>1 DEF Inv, Secret, TokenUsable
    <3> QED BY <3>2, <3>3, <3>4
  <2>10. CASE Disconnect(h)
    BY <2>3, <2>10, <2>h DEF Disconnect
  <2>11. ASSUME NEW t \in {"token", "integration"}, MarkDisconnected(h, t)
         PROVE  (Numbers /\ Secret /\ TokenUsable)'
    <3>1. /\ token'.refresh = token.refresh
          /\ token'.status = "none" <=> token.status = "none"
      BY <2>11, <1>t DEF MarkDisconnected, TypeOK
    <3>2. UNCHANGED <<issued, spent, orphaned>> /\ handler[h].pc = "disconnect"
      BY <2>11 DEF MarkDisconnected
    <3>3. handler'[h] = Idle \/ handler'[h] = [handler[h] EXCEPT !.todo = @ \ {t}]
      BY <2>11, <2>h DEF MarkDisconnected
    <3>4. CASE handler'[h] = Idle
      BY <2>3, <3>1, <3>2, <3>4
    <3>5. CASE handler'[h] = [handler[h] EXCEPT !.todo = @ \ {t}]
      <4>1. /\ handler'[h].pc = handler[h].pc /\ handler'[h].seen = handler[h].seen
            /\ handler'[h].got = handler[h].got
        BY <2>h, <3>5 DEF HandlerType
      <4>2. \A g \in Handlers : /\ handler'[g].pc = handler[g].pc
                                /\ handler'[g].seen = handler[g].seen
                                /\ handler'[g].got = handler[g].got
        BY <2>1, <4>1
      <4> QED BY <3>1, <3>2, <4>2 DEF Inv, Numbers, Secret, TokenUsable
    <3> QED BY <3>3, <3>4, <3>5
  <2>12. CASE CallFails(h)
    BY <2>3, <2>12, <2>h DEF CallFails
  <2> QED BY <1>3, <2>5, <2>6, <2>7, <2>8, <2>9, <2>10, <2>11, <2>12 DEF Step
<1> QED BY <1>1, <1>2, <1>3 DEF Next

-----------------------------------------------------------------------------
(* A disconnect sticks *)

\* As long as no early renewal has saved, every renewal in progress is early.
OnlyEarly ==
    wish = "disconnected" /\ ~revived =>
        \A h \in Handlers :
            handler[h].pc \in {"renew", "save"} /\ handler[h].seen # 0 => h \in early

\* Zero is no token.
RealTokens ==
    /\ token.status = "connected" => token.refresh # 0
    /\ \A h \in Handlers : /\ handler[h].pc = "save" => handler[h].got # 0
                           /\ handler[h].pc = "renew" => handler[h].seen # 0
                           /\ handler[h].pc = "exchange" => handler[h].seen = 0

StickInv == TypeOK /\ RealTokens /\ OnlyEarly /\ DisconnectSticks

LEMMA StickInit == Init => StickInv
<1> SUFFICES ASSUME Init PROVE StickInv
  OBVIOUS
<1>1. TypeOK
  BY InitInv DEF Inv
<1>2. RealTokens /\ OnlyEarly /\ DisconnectSticks
  BY DEF Init, RealTokens, OnlyEarly, DisconnectSticks, Idle
<1> QED BY <1>1, <1>2 DEF StickInv

LEMMA StickNext == StickInv /\ [Next]_vars => StickInv'
<1> SUFFICES ASSUME StickInv, [Next]_vars
             PROVE (RealTokens /\ OnlyEarly /\ DisconnectSticks)'
  BY TypeStep DEF StickInv
<1>t. TypeOK
  BY DEF StickInv
<1> USE DEF row, history
<1>1. CASE UNCHANGED vars
  BY <1>1 DEF vars, StickInv, RealTokens, OnlyEarly, DisconnectSticks
<1>2. CASE Expire
  BY <1>2 DEF Expire, StickInv, TypeOK, RealTokens, OnlyEarly, DisconnectSticks
<1>3. ASSUME NEW h \in Handlers, Step(h)
      PROVE (RealTokens /\ OnlyEarly /\ DisconnectSticks)'
  <2>1. \A g \in Handlers \ {h} : handler'[g] = handler[g]
    BY <1>3, <1>t, StepHandler
  <2>h. handler \in [Handlers -> HandlerType]
    BY <1>t DEF TypeOK
  \* A step that leaves the row and the wish alone, and begins no renewal.
  <2>2. ASSUME UNCHANGED <<token, wish, revived>>, early \ {h} \subseteq early',
               handler'[h].pc = "save" => handler'[h].got # 0 /\
                   (handler'[h].seen # 0 => handler[h].pc = "renew"
                        /\ handler[h].seen # 0 /\ early' = early),
               handler'[h].pc # "renew",
               handler'[h].pc = "exchange" => handler'[h].seen = 0
        PROVE  (RealTokens /\ OnlyEarly /\ DisconnectSticks)'
    <3>1. RealTokens' /\ DisconnectSticks'
      BY <2>1, <2>2 DEF StickInv, RealTokens, DisconnectSticks
    <3>2. OnlyEarly'
      BY <2>1, <2>2 DEF StickInv, OnlyEarly
    <3> QED BY <3>1, <3>2
  <2>n. issued \in Nat
    BY <1>t DEF TypeOK
  <2> USE DEF Idle, Set
  <2>3. CASE ReadToken(h)
    <3>1. /\ handler'[h].pc = "renew" /\ handler'[h].seen = token.refresh
          /\ token.status = "connected"
          /\ UNCHANGED <<token, wish, revived, early>>
      BY <2>3, <2>h DEF ReadToken
    <3>2. RealTokens' /\ DisconnectSticks'
      BY <2>1, <3>1 DEF StickInv, RealTokens, DisconnectSticks
    <3>3. OnlyEarly'
      BY <2>1, <3>1 DEF StickInv, OnlyEarly, DisconnectSticks
    <3> QED BY <3>2, <3>3
  <2>4. CASE Renew(h)
    <3>1. CASE handler[h].seen \in spent
      BY <2>2, <2>4, <2>h, <3>1 DEF Renew
    <3>2. CASE handler[h].seen \notin spent
      <4>1. handler' = [handler EXCEPT ![h] =
               [handler[h] EXCEPT !.pc = "save", !.got = issued + 1]]
        BY <2>4, <3>2 DEF Renew
      <4>2. /\ handler'[h].pc = "save" /\ handler'[h].got # 0
            /\ handler'[h].seen = handler[h].seen
        BY <2>h, <2>n, <4>1 DEF HandlerType
      <4>3. handler[h].pc = "renew" /\ UNCHANGED <<token, wish, revived, early>>
        BY <2>4, <3>2 DEF Renew
      <4>4. handler[h].seen # 0
        BY <4>3 DEF StickInv, RealTokens
      <4> QED BY <2>2, <4>2, <4>3, <4>4
    <3> QED BY <3>1, <3>2
  <2>5. CASE BeginCallback(h)
    BY <2>2, <2>5, <2>h DEF BeginCallback
  <2>6. CASE ExchangeCode(h)
    <3>1. handler' = [handler EXCEPT ![h] =
             [handler[h] EXCEPT !.pc = "save", !.got = issued + 1]]
      BY <2>6 DEF ExchangeCode
    <3>2. /\ handler'[h].pc = "save" /\ handler'[h].got # 0
          /\ handler'[h].seen = handler[h].seen
      BY <2>h, <2>n, <3>1 DEF HandlerType
    <3>3. handler[h].pc = "exchange" /\ UNCHANGED <<token, wish, revived, early>>
      BY <2>6 DEF ExchangeCode
    <3>4. handler[h].seen = 0
      BY <3>3 DEF StickInv, RealTokens
    <3> QED BY <2>2, <3>2, <3>3, <3>4
  <2>7. CASE SaveToken(h)
    <3>1. /\ handler[h].pc = "save" /\ handler'[h] = Idle
          /\ token'.status = "connected" /\ token'.refresh = handler[h].got
      BY <2>7, <2>h DEF SaveToken
    <3>2. RealTokens'
      BY <2>1, <3>1 DEF StickInv, RealTokens
    <3>3. wish' = "disconnected" => revived'
      BY <2>7, <3>1 DEF SaveToken, StickInv, OnlyEarly
    <3>4. QED BY <3>2, <3>3 DEF OnlyEarly, DisconnectSticks
  <2>8. CASE Disconnect(h)
    BY <2>2, <2>8, <2>h DEF Disconnect
  <2>9. ASSUME NEW t \in {"token", "integration"}, MarkDisconnected(h, t)
        PROVE  (RealTokens /\ OnlyEarly /\ DisconnectSticks)'
    <3>1. handler[h].pc = "disconnect" /\ handler'[h].pc \in {"disconnect", "idle"}
      BY <2>9, <2>h DEF MarkDisconnected, HandlerType
    <3>2. /\ token'.refresh = token.refresh
          /\ token'.status = "connected" => token.status = "connected"
      BY <2>9, <1>t DEF MarkDisconnected, TypeOK
    <3>3. RealTokens'
      BY <2>1, <3>1, <3>2 DEF StickInv, RealTokens
    <3>4. CASE handler[h].todo = {t}
      <4>1. /\ early' = {g \in Handlers : handler[g].pc \in {"renew", "exchange", "save"}}
            /\ revived' = (token'.status = "connected")
        BY <2>9, <3>4 DEF MarkDisconnected
      <4>2. OnlyEarly' /\ DisconnectSticks'
        BY <2>1, <3>1, <4>1 DEF OnlyEarly, DisconnectSticks
      <4> QED BY <3>3, <4>2
    <3>5. CASE handler[h].todo # {t}
      <4>1. UNCHANGED <<wish, early, revived>>
        BY <2>9, <3>5 DEF MarkDisconnected
      <4>2. OnlyEarly' /\ DisconnectSticks'
        BY <2>1, <3>1, <3>2, <4>1 DEF StickInv, OnlyEarly, DisconnectSticks
      <4> QED BY <3>3, <4>2
    <3> QED BY <3>4, <3>5
  <2>10. CASE CallFails(h)
    BY <2>2, <2>10, <2>h DEF CallFails
  <2> QED BY <1>3, <2>3, <2>4, <2>5, <2>6, <2>7, <2>8, <2>9, <2>10 DEF Step
<1> QED BY <1>1, <1>2, <1>3 DEF Next

\* The connection's records keep their types: mercado-livre-auth.service.ts
\* never saves anything but an issued token and a known status.
THEOREM TypesHold == Spec => []TypeOK
<1>1. Init => TypeOK
  BY InitInv DEF Inv
<1> QED BY <1>1, TypeStep, PTL DEF Spec

\* With any number of calls renewing, connecting and disconnecting at a time,
\* the refresh token of the row can be renewed, unless its successor is about
\* to be saved or was lost by a failure just before the save.
THEOREM TokenStaysUsable == Spec => []TokenUsable
<1>1. Inv => TokenUsable
  BY DEF Inv
<1> QED BY <1>1, InitInv, NextInv, PTL DEF Spec

\* With any number of calls in any order, a user who has disconnected is
\* connected again only by the callback of a new authorisation, or by a call
\* that was in progress when disconnect answered.
THEOREM DisconnectHolds == Spec => []DisconnectSticks
<1>1. StickInv => DisconnectSticks
  BY DEF StickInv
<1> QED BY <1>1, StickInit, StickNext, PTL DEF Spec
==============================================================================
