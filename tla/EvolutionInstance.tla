-------------------------- MODULE EvolutionInstance ---------------------------
(***************************************************************************)
(* A company's connection to the Evolution server, which runs WhatsApp     *)
(* sessions (evolution.service.ts): the row of the instance and the        *)
(* company's flag, the instance on the server, the server's webhooks and   *)
(* the calls that connect, look and disconnect.  Nothing locks the row: a  *)
(* call reads it, talks to the server and writes it whatever has happened  *)
(* since, its QR code included.                                            *)
(*                                                                         *)
(* The server is external: it answers or fails, and a webhook may overtake *)
(* another one or get lost.  Pairing codes go with the QR codes.           *)
(***************************************************************************)
EXTENDS Naturals, FiniteSets

CONSTANTS
    EvoCalls,       \* calls and webhooks handled at a time
    MaxQrs,         \* bound on QR codes the server makes
    MaxNews         \* bound on webhooks on their way at a time

ASSUME EvolutionAssumption == MaxQrs \in Nat /\ MaxNews \in Nat

VARIABLES
    instance,   \* WhatsappInstance of the company
    connected,  \* Company.evolutionConnected
    remote,     \* the instance on the server
    news,       \* webhooks on their way
    evo,        \* calls in progress
    qrs,        \* QR codes made so far
    gone        \* history: since a disconnection ended, with the server's instance
                \* deleted and nothing else on its way, nobody has connected

evolutionVars == <<instance, connected, remote, news, evo, qrs, gone>>

-----------------------------------------------------------------------------

NoQr == 0
States == {"open", "connecting", "close"}
RowStatuses == {"CONNECTED", "QR_READY", "CONNECTING", "DISCONNECTED"}
EvoPcs == {"idle", "lookup", "create", "created", "ask", "store", "sync", "persist",
           "logout", "delete", "forget", "qr", "state"}
IdleCall == [pc |-> "idle", qr |-> NoQr, got |-> NoQr, state |-> "close", exists |-> FALSE]

News == [kind : {"qr"}, qr : 0..MaxQrs] \cup [kind : {"state"}, state : States]

\* mapInstanceStatus.
MapStatus(state, qr) ==
    CASE state = "open" -> "CONNECTED"
      [] state # "open" /\ qr # NoQr -> "QR_READY"
      [] state = "connecting" /\ qr = NoQr -> "CONNECTING"
      [] OTHER -> "DISCONNECTED"

\* What the server tells, if somebody listens and nothing else fills its queue.
Tell(item) ==
    news' \in {news} \cup (IF Cardinality(news) < MaxNews THEN {news \cup {item}} ELSE {})

Go(c, pc) == evo' = [evo EXCEPT ![c].pc = pc]
Ends(c) == evo' = [evo EXCEPT ![c] = IdleCall]
NobodyElse(c) == \A d \in EvoCalls \ {c} : evo[d].pc = "idle"

EvolutionInit ==
    /\ instance = [exists |-> FALSE, status |-> "DISCONNECTED", state |-> "close", qr |-> NoQr]
    /\ connected = FALSE
    /\ remote = [exists |-> FALSE, state |-> "close"]
    /\ news = {}
    /\ evo = [c \in EvoCalls |-> IdleCall]
    /\ qrs = 0 /\ gone = FALSE

-----------------------------------------------------------------------------
(* connectInstance *)

\* ensureInstanceRecord.
BeginConnect(c) ==
    /\ evo[c].pc = "idle"
    /\ instance' = [instance EXCEPT !.exists = TRUE]
    /\ evo' = [evo EXCEPT ![c] = [IdleCall EXCEPT !.pc = "lookup", !.qr = instance.qr]]
    /\ gone' = FALSE
    /\ UNCHANGED <<connected, remote, news, qrs>>

\* resolveRemoteInstance: the state, else the list of instances; a server that
\* answers neither ends the call.
Lookup(c) ==
    /\ evo[c].pc = "lookup"
    /\ Go(c, IF remote.exists THEN "ask" ELSE "create")
    /\ UNCHANGED <<instance, connected, remote, news, qrs, gone>>

\* instance/create, with a QR code made at once; one that exists already will do.
CreateRemote(c) ==
    /\ evo[c].pc = "create"
    /\ IF remote.exists THEN UNCHANGED <<remote, news, qrs>>
       ELSE /\ remote' = [exists |-> TRUE, state |-> "connecting"]
            /\ qrs < MaxQrs /\ qrs' = qrs + 1 /\ Tell([kind |-> "qr", qr |-> qrs + 1])
    /\ Go(c, "created")
    /\ UNCHANGED <<instance, connected, gone>>

MarkCreated(c) ==
    /\ evo[c].pc = "created"
    /\ instance' = [instance EXCEPT !.status = "CONNECTING", !.state = "connecting"]
    /\ Go(c, "ask")
    /\ UNCHANGED <<connected, remote, news, qrs, gone>>

\* configureWebhook, and instance/connect, which answers with a QR code or, if the
\* session is open or its code is no image, without.
AskConnection(c) ==
    /\ evo[c].pc = "ask"
    /\ \/ /\ evo' = [evo EXCEPT ![c].pc = "store", ![c].got = NoQr]
          /\ UNCHANGED <<remote, qrs>>
       \/ /\ remote.exists /\ remote.state # "open" /\ qrs < MaxQrs
          /\ remote' = [remote EXCEPT !.state = "connecting"] /\ qrs' = qrs + 1
          /\ evo' = [evo EXCEPT ![c].pc = "store", ![c].got = qrs + 1]
    /\ UNCHANGED <<instance, connected, news, gone>>

\* requestConnection: without a QR code the one read at the beginning is written back.
StoreRequest(c) ==
    /\ evo[c].pc = "store"
    /\ LET got == evo[c].got
       IN  instance' = [instance EXCEPT
             !.status = IF got # NoQr THEN "QR_READY" ELSE "CONNECTING",
             !.state = "connecting", !.qr = IF got # NoQr THEN got ELSE evo[c].qr]
    /\ Ends(c)          \* and looks, as Look does
    /\ UNCHANGED <<connected, remote, news, qrs, gone>>

-----------------------------------------------------------------------------
(* getConnectionSnapshot *)

Look(c) ==
    /\ evo[c].pc = "idle" /\ instance.exists
    /\ evo' = [evo EXCEPT ![c] = [IdleCall EXCEPT !.pc = "sync", !.qr = instance.qr]]
    /\ UNCHANGED <<instance, connected, remote, news, qrs, gone>>

Sync(c) ==
    /\ evo[c].pc = "sync"
    /\ evo' = [evo EXCEPT ![c].pc = "persist", ![c].exists = remote.exists,
                          ![c].state = remote.state]
    /\ UNCHANGED <<instance, connected, remote, news, qrs, gone>>

\* Mutant: the company's flag is left to the webhook.
PersistRowOnly(c) ==
    /\ evo[c].pc = "persist"
    /\ LET open == evo[c].exists /\ evo[c].state = "open"
           state == IF evo[c].exists THEN evo[c].state ELSE "close"
           qr == IF open \/ ~evo[c].exists THEN NoQr ELSE evo[c].qr
       IN  instance' = [instance EXCEPT !.status = MapStatus(state, qr), !.state = state,
                                        !.qr = qr]
    /\ Ends(c)
    /\ UNCHANGED <<connected, remote, news, qrs, gone>>

\* persistRemoteState, persistDisconnectedState: row and flag in one transaction.
Persist(c) ==
    /\ evo[c].pc = "persist"
    /\ LET open == evo[c].exists /\ evo[c].state = "open"
           state == IF evo[c].exists THEN evo[c].state ELSE "close"
           qr == IF open \/ ~evo[c].exists THEN NoQr ELSE evo[c].qr
       IN  /\ connected' = open
           /\ instance' = [instance EXCEPT !.status = MapStatus(state, qr), !.state = state,
                                           !.qr = qr]
    /\ Ends(c)
    /\ UNCHANGED <<remote, news, qrs, gone>>

-----------------------------------------------------------------------------
(* disconnectInstance *)

BeginDisconnect(c) ==
    /\ evo[c].pc = "idle" /\ instance.exists
    /\ Go(c, "logout")
    /\ UNCHANGED <<instance, connected, remote, news, qrs, gone>>

\* Logging out and deleting may fail, which is ignored.
Logout(c) ==
    /\ evo[c].pc = "logout"
    /\ \/ UNCHANGED <<remote, news>>
       \/ /\ remote.exists /\ remote' = [remote EXCEPT !.state = "close"]
          /\ Tell([kind |-> "state", state |-> "close"])
    /\ Go(c, "delete")
    /\ UNCHANGED <<instance, connected, qrs, gone>>

DeleteRemote(c) ==
    /\ evo[c].pc = "delete"
    /\ remote' \in {remote, [exists |-> FALSE, state |-> "close"]}
    /\ Go(c, "forget")
    /\ UNCHANGED <<instance, connected, news, qrs, gone>>

\* Mutant: only the company forgets.
ForgetCompanyOnly(c) ==
    /\ evo[c].pc = "forget"
    /\ connected' = FALSE
    /\ gone' = (~remote.exists /\ news = {} /\ NobodyElse(c))
    /\ Ends(c)
    /\ UNCHANGED <<instance, remote, news, qrs>>

Forget(c) ==
    /\ evo[c].pc = "forget"
    /\ connected' = FALSE
    /\ instance' = [instance EXCEPT !.status = "DISCONNECTED", !.state = "close", !.qr = NoQr]
    /\ gone' = (~remote.exists /\ news = {} /\ NobodyElse(c))
    /\ Ends(c)
    /\ UNCHANGED <<remote, news, qrs>>

-----------------------------------------------------------------------------
(* processWebhook *)

ReceiveNews(c, item) ==
    /\ evo[c].pc = "idle" /\ item \in news /\ instance.exists
    /\ evo' = [evo EXCEPT ![c] =
         IF item.kind = "qr" THEN [IdleCall EXCEPT !.pc = "qr", !.got = item.qr]
         ELSE [IdleCall EXCEPT !.pc = "state", !.qr = instance.qr, !.state = item.state]]
    /\ news' = news \ {item}
    /\ UNCHANGED <<instance, connected, remote, qrs, gone>>

\* QRCODE_UPDATED: whatever the row's state is.
StoreQr(c) ==
    /\ evo[c].pc = "qr"
    /\ instance' = [instance EXCEPT
         !.status = IF evo[c].got # NoQr THEN "QR_READY" ELSE "CONNECTING",
         !.state = "connecting", !.qr = evo[c].got]
    /\ Ends(c)
    /\ UNCHANGED <<connected, remote, news, qrs, gone>>

\* CONNECTION_UPDATE: a QR code that was read is written back.
StoreConnection(c) ==
    /\ evo[c].pc = "state"
    /\ LET state == evo[c].state qr == IF state = "open" THEN NoQr ELSE evo[c].qr
       IN  /\ connected' = (state = "open")
           /\ instance' = [instance EXCEPT !.status = MapStatus(state, qr), !.state = state,
                                           !.qr = qr]
    /\ Ends(c)
    /\ UNCHANGED <<remote, news, qrs, gone>>

-----------------------------------------------------------------------------
(* The server and failures *)

RenewQr ==
    /\ remote.exists /\ remote.state = "connecting" /\ qrs < MaxQrs
    /\ qrs' = qrs + 1
    /\ \E qr \in {NoQr, qrs + 1} : Tell([kind |-> "qr", qr |-> qr])
    /\ UNCHANGED <<instance, connected, remote, evo, gone>>

SessionChanges(state) ==
    /\ remote.exists /\ remote.state # state
    /\ state = "open" => remote.state = "connecting"
    /\ remote' = [remote EXCEPT !.state = state]
    /\ Tell([kind |-> "state", state |-> state])
    /\ UNCHANGED <<instance, connected, evo, qrs, gone>>

\* The server or the database fails, or the process restarts.
EvolutionFails(c) ==
    /\ evo[c].pc # "idle"
    /\ Ends(c)
    /\ UNCHANGED <<instance, connected, remote, news, qrs, gone>>

EvolutionNext ==
    \/ \E c \in EvoCalls :
         \/ BeginConnect(c) \/ Lookup(c) \/ CreateRemote(c) \/ MarkCreated(c)
         \/ AskConnection(c) \/ StoreRequest(c) \/ Look(c) \/ Sync(c) \/ Persist(c)
         \/ BeginDisconnect(c) \/ Logout(c) \/ DeleteRemote(c) \/ Forget(c)
         \/ StoreQr(c) \/ StoreConnection(c) \/ EvolutionFails(c)
         \/ \E item \in news : ReceiveNews(c, item)
    \/ RenewQr
    \/ \E state \in States : SessionChanges(state)

EvolutionSpec == EvolutionInit /\ [][EvolutionNext]_evolutionVars
-----------------------------------------------------------------------------
(* Properties *)

\* Types of the instance, the server and the calls.
EvolutionTypeOK ==
    /\ instance \in [exists : BOOLEAN, status : RowStatuses, state : States, qr : 0..MaxQrs]
    /\ connected \in BOOLEAN
    /\ remote \in [exists : BOOLEAN, state : States] /\ news \subseteq News
    /\ \A c \in EvoCalls : evo[c].pc \in EvoPcs /\ evo[c].qr \in 0..MaxQrs

\* Whichever call writes last, and whatever it had read, the page is consistent: an
\* open session is shown as connected, in the row and on the company, and without a QR
\* code; a QR code is never promised and missing.
PageIsConsistent ==
    /\ instance.state = "open" =>
         connected /\ instance.status = "CONNECTED" /\ instance.qr = NoQr
    /\ instance.status = "CONNECTED" => instance.state = "open"
    /\ instance.status = "QR_READY" => instance.qr # NoQr

\* A disconnection that deleted the server's instance, ended while nothing else was
\* under way and was followed by no connection stays one, whatever looks at it.
DisconnectedForGood ==
    gone => ~connected /\ instance.state = "close" /\ instance.qr = NoQr

\* What the page shows of the instance.
InstanceIsShown == PageIsConsistent /\ DisconnectedForGood
=============================================================================
