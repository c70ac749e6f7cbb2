------------------------- MODULE WhatsappConnection -------------------------
(***************************************************************************)
(* The WhatsApp connection of one company                                  *)
(* (whatsapp/services/whatsapp-connections.service.ts and the calls of     *)
(* whatsapp-provider-evolution.service.ts it makes).  Users connect, ask   *)
(* for a QR code, repair and disconnect, one operation at a time under a   *)
(* lock kept in memory and in the row; the frontend polls and Evolution    *)
(* sends webhooks outside that lock.  All of them read the row, wait, and  *)
(* write what follows from the row as they read it.                        *)
(*                                                                         *)
(* Evolution is external.  A cooldown is over or not over by choice; the   *)
(* company keeps one instance name, and an operation of the database does  *)
(* not fail by itself, but the process may restart between any two.        *)
(***************************************************************************)
EXTENDS Integers, FiniteSets

CONSTANTS
    Handlers,       \* operations, polls and webhooks served at a time
    Offered,        \* in use: "connect", "qr", "repair", "disconnect"
    MaxNews,        \* bound on webhooks under way; others are lost
    MaxRestarts     \* bound on restarts of the process

ASSUME ConnectionAssumption ==
    /\ Offered \subseteq {"connect", "qr", "repair", "disconnect"}
    /\ MaxNews \in Nat /\ MaxRestarts \in Nat

VARIABLES
    row,        \* the whatsappConnection row
    dbLock,     \* its operationLockUntil is in the future
    memLock,    \* operationLocks: the operation whose token is in the map
    remote,     \* state of the instance at Evolution
    news,       \* webhooks of Evolution not received yet
    handler,    \* what is being served
    restarts,
    farewell,   \* history: a disconnection that nothing in progress overlapped:
                \* "no", "asked" (marked in the row) or "done" (confirmed)
    loose       \* history: the operations in progress that crossed another one
                \* between the two lookups, or outlived their lock

vars == <<row, dbLock, memLock, remote, news, handler, restarts, farewell, loose>>
external == <<remote, news, restarts>>
locks == <<dbLock, memLock, loose>>

-----------------------------------------------------------------------------
(* Rows and handlers *)

Failures == {"rate_limited", "provider_warming_up", "error"}
Pending == {"disconnect_pending", "disconnected_pending_provider_cleanup"}
Statuses ==
    Failures \cup Pending \cup
    {"not_configured", "creating_instance", "qr_pending", "qr_not_ready", "connecting",
     "connected", "repair_ready", "disconnecting", "disconnected"}

\* shouldSyncRemoteStateForSnapshot
Polled == {"creating_instance", "qr_pending", "connecting", "qr_not_ready",
           "provider_warming_up", "repair_ready", "error"}
\* The statuses in which a QR code is expected.
AwaitsQr == {"creating_instance", "qr_pending", "connecting"}

Reported == {"open", "close", "connecting"}

\* bye is userRequestedDisconnect, qr that a QR code is stored.
NoRow == [status |-> "not_configured", bye |-> FALSE, qr |-> FALSE]
RowType == [status : Statuses, bye : BOOLEAN, qr : BOOLEAN]
Exists == row.status # "not_configured"

\* mapStateToStatus, for the three states Evolution reports.
StatusOf(state, qr) ==
    IF state = "open" THEN "connected"
    ELSE IF qr THEN "qr_pending"
    ELSE IF state = "connecting" THEN "connecting" ELSE "disconnected"

Locked == {"mark", "start", "prepare", "lookup", "create", "finish", "ask", "answer",
           "fail", "repair", "bye", "logout", "delete", "gone", "byefail"}
Pcs == Locked \cup {"idle", "lock", "unlock", "clear", "state", "sync", "qrnews", "statenews"}
Idle == [pc |-> "idle", op |-> "none", snap |-> NoRow, seen |-> "none"]
HandlerType == [pc : Pcs, op : Offered \cup {"none"}, snap : RowType,
                seen : Reported \cup {"none", "absent"}]

\* An operation is past the lock and has not come to its end.
Inside(h) == handler[h].pc \in Locked
Operating(h) == Inside(h) \/ handler[h].pc \in {"lock", "unlock", "clear"}

Set(h, r) == handler' = [handler EXCEPT ![h] = r]
Goto(h, pc) == Set(h, [handler[h] EXCEPT !.pc = pc])
End(h) == Set(h, [Idle EXCEPT !.pc = "unlock"])

Init ==
    /\ row = NoRow /\ dbLock = FALSE /\ memLock = {}
    /\ remote = "absent" /\ news = {} /\ restarts = 0 /\ farewell = "no" /\ loose = {}
    /\ handler = [h \in Handlers |-> Idle]

-----------------------------------------------------------------------------
(* Evolution and the environment *)

\* Evolution sends webhooks.
Send(ns) == news' \in {new \in SUBSET (news \cup ns) : news \subseteq new
                           /\ (new = news \/ Cardinality(new) <= MaxNews)}
Becomes(state) == remote' = state /\ Send({state})

\* The QR code is read, the phone goes offline or logs out, a QR code is
\* renewed, a webhook is lost.
RemoteMoves ==
    /\ \/ remote = "connecting" /\ Becomes("open")
       \/ remote = "open" /\ Becomes("connecting")
       \/ remote \in {"open", "connecting"} /\ Becomes("close")
       \/ remote = "connecting" /\ Send({"qr"}) /\ UNCHANGED remote
       \/ \E n \in news : news' = news \ {n} /\ UNCHANGED remote
    /\ UNCHANGED <<row, locks, handler, restarts, farewell>>

\* The lock of the row runs out 45 seconds after the operation asked for it.
DbLockExpires ==
    /\ dbLock
    /\ dbLock' = FALSE
    /\ UNCHANGED <<row, memLock, loose, external, handler, farewell>>

\* The timer of withOperationLock, set after the row is marked.
MemLockExpires ==
    /\ memLock # {} /\ ~dbLock
    /\ \A h \in memLock : handler[h].pc # "mark"
    /\ memLock' = {}
    /\ loose' = loose \cup memLock
    /\ UNCHANGED <<row, dbLock, external, handler, farewell>>

Restart ==
    /\ restarts < MaxRestarts
    /\ restarts' = restarts + 1
    /\ memLock' = {} /\ loose' = {}
    /\ handler' = [h \in Handlers |-> Idle]
    /\ UNCHANGED <<row, dbLock, remote, news, farewell>>

-----------------------------------------------------------------------------
(* withOperationLock *)

\* The map is looked up, then the row is read; the map is written only after
\* that.  Whoever looks meanwhile finds nothing either.
AskLock(h, op) ==
    /\ handler[h].pc = "idle"
    /\ memLock = {}
    /\ Set(h, [Idle EXCEPT !.pc = "lock", !.op = op])
    /\ LET waiting == {g \in Handlers : handler[g].pc = "lock"}
       IN  loose' = loose \cup waiting \cup {g \in {h} : waiting # {}}
    /\ UNCHANGED <<row, dbLock, memLock, external, farewell>>

\* Mutant: the map is not written.
TakeLockOfRow(h) ==
    /\ handler[h].pc = "lock"
    /\ IF dbLock THEN Set(h, Idle) /\ loose' = loose \ {h}
                 ELSE Goto(h, "mark") /\ UNCHANGED loose
    /\ UNCHANGED <<row, dbLock, memLock, external, farewell>>

TakeLock(h) ==
    /\ handler[h].pc = "lock"
    /\ IF dbLock THEN Set(h, Idle) /\ loose' = loose \ {h} /\ UNCHANGED memLock
                 ELSE Goto(h, "mark") /\ memLock' = {h} /\ UNCHANGED loose
    /\ UNCHANGED <<row, dbLock, external, farewell>>

\* Without a row there is nothing to mark.
MarkLock(h) ==
    /\ handler[h].pc = "mark"
    /\ dbLock' = (dbLock \/ Exists)
    /\ Goto(h, "start")
    /\ UNCHANGED <<row, memLock, loose, external, farewell>>

\* The map is cleared by the owner of the token, the row by anybody.
Unlock(h) ==
    /\ handler[h].pc = "unlock"
    /\ memLock' = memLock \ {h}
    /\ Goto(h, "clear")
    /\ UNCHANGED <<row, dbLock, loose, external, farewell>>

ClearLock(h) ==
    /\ handler[h].pc = "clear"
    /\ dbLock' = FALSE
    /\ loose' = loose \ {h}
    /\ Set(h, Idle)
    /\ UNCHANGED <<row, memLock, external, farewell>>

-----------------------------------------------------------------------------
(* connect *)

\* Nothing is done during a cooldown, if the connection of the row is trusted,
\* or without a company, a name of its own and a public address.
StartConnect(h) ==
    /\ handler[h].pc = "start" /\ handler[h].op = "connect"
    /\ \/ End(h)
       \/ Set(h, [Idle EXCEPT !.pc = "prepare"])
    /\ UNCHANGED <<row, locks, external, farewell>>

Prepare(h) ==
    /\ handler[h].pc = "prepare"
    /\ row' = [row EXCEPT !.status = "creating_instance", !.bye = FALSE, !.qr = FALSE]
    /\ farewell' = "no"
    /\ Goto(h, "lookup")
    /\ UNCHANGED <<locks, external>>

\* warmUp and findRemoteInstance.
Lookup(h) ==
    /\ handler[h].pc = "lookup"
    /\ \/ Set(h, [Idle EXCEPT !.pc = "create", !.seen = remote])
       \/ Set(h, [Idle EXCEPT !.pc = "fail"])
    /\ UNCHANGED <<row, locks, external, farewell>>

\* createInstance if there was none, which reuses one that is there by now,
\* and the configuration of the webhook.  Either may fail, even after it did
\* its work.
Create(h) ==
    /\ handler[h].pc = "create"
    /\ \/ Goto(h, "finish") \/ Set(h, [Idle EXCEPT !.pc = "fail"])
    /\ IF handler[h].seen = "absent" /\ remote = "absent"
       THEN \/ remote' = "connecting" /\ Send({"connecting", "qr"})
            \/ handler'[h].pc = "fail" /\ UNCHANGED <<remote, news>>
       ELSE UNCHANGED <<remote, news>>
    /\ UNCHANGED <<row, locks, restarts, farewell>>

\* requestQrForConnection, up to the call: nothing is asked for a row that is
\* connected, or during a cooldown.
StartAsking(h) ==
    \/ End(h)
    \/ /\ Exists /\ ~(row.status = "connected" /\ ~row.bye)
       /\ Set(h, [Idle EXCEPT !.pc = "ask"])

\* An instance that was open is connected; for any other the QR code is asked.
FinishConnect(h) ==
    /\ handler[h].pc = "finish"
    /\ IF handler[h].seen = "open"
       THEN /\ row' = [status |-> "connected", bye |-> FALSE, qr |-> FALSE]
            /\ farewell' = "no"
            /\ End(h)
       ELSE StartAsking(h) /\ UNCHANGED <<row, farewell>>
    /\ UNCHANGED <<locks, external>>

\* The catch of connectUnlocked and of requestQrForConnection.
WriteFailure(h) ==
    /\ handler[h].pc = "fail"
    /\ \E status \in Failures : row' = [row EXCEPT !.status = status]
    /\ End(h)
    /\ UNCHANGED <<locks, external, farewell>>

-----------------------------------------------------------------------------
(* requestQr *)

StartQr(h) ==
    /\ handler[h].pc = "start" /\ handler[h].op = "qr"
    /\ StartAsking(h)
    /\ UNCHANGED <<row, locks, external, farewell>>

\* Evolution starts to connect an instance that is not open, and may fail.
AskQr(h) ==
    /\ handler[h].pc = "ask"
    /\ \/ Set(h, [Idle EXCEPT !.pc = "fail"]) /\ UNCHANGED <<remote, news>>
       \/ /\ remote # "absent"
          /\ IF remote = "close"
             THEN remote' = "connecting" /\ Send({"connecting", "qr"})
             ELSE UNCHANGED <<remote, news>>
          /\ Set(h, [Idle EXCEPT !.pc = "answer", !.seen = remote'])
    /\ UNCHANGED <<row, locks, restarts, farewell>>

WriteQr(h) ==
    /\ handler[h].pc = "answer"
    /\ \/ /\ handler[h].seen = "open"
          /\ row' = [status |-> "connected", bye |-> FALSE, qr |-> FALSE]
       \/ /\ handler[h].seen # "open"
          /\ \E status \in {"qr_pending", "qr_not_ready", "provider_warming_up"} :
               row' = [row EXCEPT !.status = status, !.bye = FALSE,
                                  !.qr = (status = "qr_pending")]
    /\ farewell' = "no"
    /\ End(h)
    /\ UNCHANGED <<locks, external>>

-----------------------------------------------------------------------------
(* restart (the repair) and disconnect *)

StartRepair(h) ==
    /\ handler[h].pc = "start" /\ handler[h].op = "repair"
    /\ \/ End(h)
       \/ Exists /\ Set(h, [Idle EXCEPT !.pc = "repair", !.snap = row])
    /\ UNCHANGED <<row, locks, external, farewell>>

WriteRepair(h) ==
    /\ handler[h].pc = "repair"
    /\ LET connected == handler[h].snap.status = "connected"
       IN  row' = [row EXCEPT !.status = IF connected THEN "connected" ELSE "repair_ready",
                              !.qr = ~connected /\ handler[h].snap.qr]
    /\ End(h)
    /\ UNCHANGED <<locks, external, farewell>>

StartDisconnect(h) ==
    /\ handler[h].pc = "start" /\ handler[h].op = "disconnect"
    /\ IF Exists THEN Set(h, [Idle EXCEPT !.pc = "bye"]) ELSE End(h)
    /\ UNCHANGED <<row, locks, external, farewell>>

MarkDisconnect(h) ==
    /\ handler[h].pc = "bye"
    /\ row' = [row EXCEPT !.status = "disconnecting", !.bye = TRUE, !.qr = FALSE]
    /\ farewell' = IF \A g \in Handlers \ {h} : handler[g].pc = "idle"
                   THEN "asked" ELSE "no"
    /\ Goto(h, "logout")
    /\ UNCHANGED <<locks, external>>

Logout(h) ==
    /\ handler[h].pc = "logout"
    /\ \/ /\ Goto(h, "delete")
          /\ IF remote \in {"open", "connecting"} THEN Becomes("close")
                                                  ELSE UNCHANGED <<remote, news>>
       \/ Goto(h, "byefail") /\ UNCHANGED <<remote, news>>
    /\ UNCHANGED <<row, locks, restarts, farewell>>

Delete(h) ==
    /\ handler[h].pc = "delete"
    /\ \/ Goto(h, "gone") /\ remote' = "absent"
       \/ Goto(h, "byefail") /\ UNCHANGED remote
    /\ UNCHANGED <<row, locks, news, restarts, farewell>>

FinishDisconnect(h) ==
    /\ handler[h].pc = "gone"
    /\ row' = [status |-> "disconnected", bye |-> TRUE, qr |-> FALSE]
    /\ farewell' = IF farewell = "asked" THEN "done" ELSE farewell
    /\ End(h)
    /\ UNCHANGED <<locks, external>>

FailDisconnect(h) ==
    /\ handler[h].pc = "byefail"
    /\ \E status \in Pending :
         row' = [status |-> status, bye |-> TRUE, qr |-> FALSE]
    /\ End(h)
    /\ UNCHANGED <<locks, external, farewell>>

-----------------------------------------------------------------------------
(* getCurrent: polls of the frontend *)

\* Mutant: a row in error is not polled.
BeginPollNotError(h) ==
    /\ handler[h].pc = "idle"
    /\ ~row.bye /\ row.status \in Polled \ {"error"}
    /\ Set(h, [Idle EXCEPT !.pc = "state", !.snap.qr = row.qr])
    /\ UNCHANGED <<row, locks, external, farewell>>

\* Only a row that is not disconnected and on its way somewhere is compared
\* with Evolution.
BeginPoll(h) ==
    /\ handler[h].pc = "idle"
    /\ ~row.bye /\ row.status \in Polled
    /\ Set(h, [Idle EXCEPT !.pc = "state", !.snap.qr = row.qr])
    /\ UNCHANGED <<row, locks, external, farewell>>

\* getInstanceState; an instance that is not there is closed.
PollAnswers(h) ==
    /\ handler[h].pc = "state"
    /\ Set(h, [handler[h] EXCEPT !.pc = "sync",
                                 !.seen = IF remote = "absent" THEN "close" ELSE remote])
    /\ UNCHANGED <<row, locks, external, farewell>>

PollFails(h) ==
    /\ handler[h].pc = "state"
    /\ Set(h, Idle)
    /\ UNCHANGED <<row, locks, external, farewell>>

\* syncRemoteState, with the QR code of the row that was read.
PollWrites(h) ==
    /\ handler[h].pc = "sync"
    /\ LET status == StatusOf(handler[h].seen, handler[h].snap.qr)
       IN  row' = [row EXCEPT !.status = status,
                              !.qr = status # "connected" /\ handler[h].snap.qr]
    /\ Set(h, Idle)
    /\ UNCHANGED <<locks, external, farewell>>

-----------------------------------------------------------------------------
(* handleEvolutionWebhook *)

\* Ignored after a disconnection, when connected, or when no QR is expected.
ReceiveQr(h) ==
    /\ handler[h].pc = "idle" /\ "qr" \in news
    /\ news' = news \ {"qr"}
    /\ IF ~row.bye /\ row.status \in AwaitsQr
       THEN Set(h, [Idle EXCEPT !.pc = "qrnews"]) ELSE UNCHANGED handler
    /\ UNCHANGED <<row, locks, remote, restarts, farewell>>

\* The webhook may come without a code.
StoreQr(h) ==
    /\ handler[h].pc = "qrnews"
    /\ \E code \in BOOLEAN :
         row' = [row EXCEPT !.status = IF code THEN "qr_pending" ELSE "creating_instance",
                            !.qr = code]
    /\ Set(h, Idle)
    /\ UNCHANGED <<locks, external, farewell>>

\* (A state reported again within 5 seconds is ignored, as if it was lost.)
ReceiveState(h, state) ==
    /\ handler[h].pc = "idle" /\ state \in news \cap Reported
    /\ news' = news \ {state}
    /\ IF Exists
       THEN Set(h, [Idle EXCEPT !.pc = "statenews", !.seen = state, !.snap = row])
       ELSE UNCHANGED handler
    /\ UNCHANGED <<row, locks, remote, restarts, farewell>>

\* Mutant: an instance that is open is connected, whatever the user asked.
StoreStateAlways(h) ==
    /\ handler[h].pc = "statenews"
    /\ LET r == handler[h].snap
           state == handler[h].seen
       IN  row' = [status |-> StatusOf(state, r.qr), bye |-> r.bye,
                   qr |-> state # "open" /\ r.qr]
    /\ Set(h, Idle)
    /\ UNCHANGED <<locks, external, farewell>>

\* resolveWebhookStatus: after a disconnection an open instance does not count.
StoreState(h) ==
    /\ handler[h].pc = "statenews"
    /\ LET r == handler[h].snap
           state == handler[h].seen
       IN  row' = [status |-> IF ~(r.bye /\ state = "open") THEN StatusOf(state, r.qr)
                              ELSE IF r.status = "disconnecting" THEN "disconnecting"
                              ELSE "disconnected",
                   bye |-> r.bye, qr |-> state # "open" /\ r.qr]
    /\ Set(h, Idle)
    /\ UNCHANGED <<locks, external, farewell>>

-----------------------------------------------------------------------------

Connect(h) ==
    StartConnect(h) \/ Prepare(h) \/ Lookup(h) \/ Create(h) \/ FinishConnect(h)
        \/ WriteFailure(h)
RequestQr(h) == StartQr(h) \/ AskQr(h) \/ WriteQr(h)
Repair(h) == StartRepair(h) \/ WriteRepair(h)
Disconnect(h) ==
    StartDisconnect(h) \/ MarkDisconnect(h) \/ Logout(h) \/ Delete(h)
        \/ FinishDisconnect(h) \/ FailDisconnect(h)
Operate(h) ==
    TakeLock(h) \/ MarkLock(h) \/ Unlock(h) \/ ClearLock(h)
        \/ Connect(h) \/ RequestQr(h) \/ Repair(h) \/ Disconnect(h)
Follow(h) == PollWrites(h) \/ StoreQr(h) \/ StoreState(h)

Next ==
    \/ RemoteMoves \/ DbLockExpires \/ MemLockExpires \/ Restart
    \/ \E h \in Handlers :
         \/ \E op \in Offered : AskLock(h, op)
         \/ Operate(h) \/ Follow(h)
         \/ BeginPoll(h) \/ PollAnswers(h) \/ PollFails(h)
         \/ ReceiveQr(h) \/ \E state \in Reported : ReceiveState(h, state)

Spec == Init /\ [][Next]_vars

\* What was taken up goes on, the page that shows the connection keeps polling,
\* and Evolution answers now and then.
FairSpec ==
    /\ Spec
    /\ \A h \in Handlers : WF_vars(Operate(h) \/ Follow(h))
    /\ SF_vars(\E h \in Handlers : BeginPoll(h))
    /\ \A h \in Handlers : SF_vars(PollAnswers(h)) /\ WF_vars(PollAnswers(h) \/ PollFails(h))

-----------------------------------------------------------------------------
(* Properties *)

\* Types of the row and of what is in progress.
TypeOK ==
    /\ row \in RowType
    /\ dbLock \in BOOLEAN
    /\ memLock \in {{}} \cup {{h} : h \in Handlers}
    /\ remote \in Reported \cup {"absent"}
    /\ news \subseteq Reported \cup {"qr"}
    /\ handler \in [Handlers -> HandlerType]
    /\ restarts \in 0..MaxRestarts
    /\ farewell \in {"no", "asked", "done"}
    /\ loose \subseteq Handlers

\* Whoever writes last, from whatever it read: a connected row never shows a
\* QR code.
ConnectedHidesQr == row.status = "connected" => ~row.qr

\* A disconnection that overlapped nothing sticks: webhooks and polls that come
\* later, in any order, never show the company connected again, and once it was
\* confirmed the instance is gone, until somebody connects again.
DisconnectSticks ==
    farewell # "no" =>
        /\ row.bye /\ row.status # "connected"
        /\ farewell = "done" => remote = "absent"

\* withOperationLock: an operation is refused while another one is in progress.
\* Of two that go on together, one crossed some operation between the lookup and
\* the writing of the map, or works on after its 45 seconds.
OneOperation ==
    \A g, h \in Handlers \ loose : Inside(g) /\ Inside(h) => g = h

\* A phone that stays connected while nobody operates is noticed by the polls,
\* whatever failures and late webhooks wrote, unless the row was left
\* disconnected or rate limited, which are not polled.
ScanIsNoticed ==
    <>[](remote = "open" /\ ~row.bye /\ \A h \in Handlers : ~Operating(h))
      => <>[](row.status \in {"not_configured", "connected", "disconnected", "rate_limited"})
=============================================================================
