---------------------- MODULE WhatsappConnectionProofs ----------------------
(***************************************************************************)
(* Proofs about WhatsappConnection for any number of handlers, webhooks    *)
(* and restarts: who may be inside the lock, what a connected row shows,   *)
(* and that a disconnection sticks.                                        *)
(***************************************************************************)
EXTENDS WhatsappConnection, TLAPS

USE ConnectionAssumption

-----------------------------------------------------------------------------
(* Where the steps of a handler lead *)

\* What the proofs need of TypeOK.
Types ==
    /\ row \in RowType /\ remote \in Reported \cup {"absent"}
    /\ handler \in [Handlers -> HandlerType]

LEMMA IdleType == Idle \in HandlerType /\ NoRow \in RowType
  BY DEF Idle, HandlerType, NoRow, RowType, Statuses, Pcs, Failures, Pending

\* The handler goes to one of pcs, the others stay where they are.
Moves(h, pcs) ==
    /\ handler' \in [Handlers -> HandlerType]
    /\ handler'[h].pc \in pcs
    /\ \A g \in Handlers \ {h} : handler'[g] = handler[g]

LEMMA SetMoves ==
  ASSUME Types, NEW h \in Handlers, NEW r \in HandlerType, Set(h, r)
  PROVE  Moves(h, {r.pc}) /\ handler'[h] = r
  BY DEF Set, Types, Moves

LEMMA GotoMoves ==
  ASSUME Types, NEW h \in Handlers, NEW pc \in Pcs, Goto(h, pc)
  PROVE  Moves(h, {pc})
<1> DEFINE r == [handler[h] EXCEPT !.pc = pc]
<1>1. r \in HandlerType /\ r.pc = pc
  BY DEF Types, HandlerType
<1>2. Set(h, r)
  BY DEF Goto
<1> HIDE DEF r
<1> QED BY <1>1, <1>2, SetMoves

LEMMA FreshMoves ==
  ASSUME Types, NEW h \in Handlers, NEW pc \in Pcs, Set(h, [Idle EXCEPT !.pc = pc])
  PROVE  Moves(h, {pc})
<1> DEFINE r == [Idle EXCEPT !.pc = pc]
<1>1. r \in HandlerType /\ r.pc = pc
  BY IdleType DEF HandlerType, Idle
<1>2. Set(h, r)
  OBVIOUS
<1> HIDE DEF r
<1> QED BY <1>1, <1>2, SetMoves

LEMMA EndMoves ==
  ASSUME Types, NEW h \in Handlers, End(h)
  PROVE  Moves(h, {"unlock"})
  BY FreshMoves DEF End, Pcs

LEMMA IdleMoves ==
  ASSUME Types, NEW h \in Handlers, Set(h, Idle)
  PROVE  Moves(h, {"idle"})
  BY SetMoves, IdleType DEF Idle

\* The steps of an operation past the lock stay inside until it ends.
LEMMA OperationMoves ==
  ASSUME Types, NEW h \in Handlers
  PROVE
    /\ MarkLock(h) => Moves(h, {"start"})
    /\ StartConnect(h) => Moves(h, {"unlock", "prepare"})
    /\ Prepare(h) => Moves(h, {"lookup"})
    /\ Lookup(h) => Moves(h, {"create", "fail"})
    /\ Create(h) => Moves(h, {"finish", "fail"})
    /\ FinishConnect(h) => Moves(h, {"unlock", "ask"})
    /\ WriteFailure(h) => Moves(h, {"unlock"})
    /\ StartQr(h) => Moves(h, {"unlock", "ask"})
    /\ AskQr(h) => Moves(h, {"fail", "answer"})
    /\ WriteQr(h) => Moves(h, {"unlock"})
    /\ StartRepair(h) => Moves(h, {"unlock", "repair"})
    /\ WriteRepair(h) => Moves(h, {"unlock"})
    /\ StartDisconnect(h) => Moves(h, {"unlock", "bye"})
    /\ MarkDisconnect(h) => Moves(h, {"logout"})
    /\ Logout(h) => Moves(h, {"delete", "byefail"})
    /\ Delete(h) => Moves(h, {"gone", "byefail"})
    /\ FinishDisconnect(h) => Moves(h, {"unlock"})
    /\ FailDisconnect(h) => Moves(h, {"unlock"})
<1>1. MarkLock(h) => Moves(h, {"start"})
  BY EndMoves, FreshMoves, GotoMoves DEF MarkLock, Moves, Pcs, Locked
<1>2. StartConnect(h) => Moves(h, {"unlock", "prepare"})
  BY EndMoves, FreshMoves, GotoMoves DEF StartConnect, Moves, Pcs, Locked
<1>3. Prepare(h) => Moves(h, {"lookup"})
  BY EndMoves, FreshMoves, GotoMoves DEF Prepare, Moves, Pcs, Locked
<1>4. Lookup(h) => Moves(h, {"create", "fail"})
  <2> DEFINE r == [Idle EXCEPT !.pc = "create", !.seen = remote]
  <2>1. r \in HandlerType /\ r.pc = "create"
    BY IdleType DEF HandlerType, Pcs, Locked, Idle, Types
  <2>2. Lookup(h) => Set(h, r) \/ Set(h, [Idle EXCEPT !.pc = "fail"])
    BY DEF Lookup
  <2> HIDE DEF r
  <2> QED BY <2>1, <2>2, SetMoves, FreshMoves DEF Moves, Pcs, Locked
<1>5. Create(h) => Moves(h, {"finish", "fail"})
  BY EndMoves, FreshMoves, GotoMoves DEF Create, Moves, Pcs, Locked
<1>6. FinishConnect(h) => Moves(h, {"unlock", "ask"})
  BY EndMoves, FreshMoves, GotoMoves DEF FinishConnect, Moves, Pcs, Locked, StartAsking
<1>7. WriteFailure(h) => Moves(h, {"unlock"})
  BY EndMoves, FreshMoves, GotoMoves DEF WriteFailure, Moves, Pcs, Locked
<1>8. StartQr(h) => Moves(h, {"unlock", "ask"})
  BY EndMoves, FreshMoves, GotoMoves DEF StartQr, Moves, Pcs, Locked, StartAsking
<1>9. AskQr(h) => Moves(h, {"fail", "answer"})
  <2>1. ASSUME NEW s \in Reported, Set(h, [Idle EXCEPT !.pc = "answer", !.seen = s])
        PROVE  Moves(h, {"answer"})
    <3> DEFINE r == [Idle EXCEPT !.pc = "answer", !.seen = s]
    <3>1. r \in HandlerType /\ r.pc = "answer"
      BY IdleType DEF HandlerType, Pcs, Locked, Idle
    <3>2. Set(h, r)
      BY <2>1
    <3> HIDE DEF r
    <3> QED BY <3>1, <3>2, SetMoves
  <2>2. ASSUME AskQr(h)
        PROVE  \/ Set(h, [Idle EXCEPT !.pc = "fail"])
               \/ \E s \in Reported : Set(h, [Idle EXCEPT !.pc = "answer", !.seen = s])
    BY <2>2 DEF AskQr, Types, Reported
  <2> QED BY <2>1, <2>2, FreshMoves DEF Moves, Pcs, Locked
<1>10. WriteQr(h) => Moves(h, {"unlock"})
  BY EndMoves, FreshMoves, GotoMoves DEF WriteQr, Moves, Pcs, Locked
<1>11. StartRepair(h) => Moves(h, {"unlock", "repair"})
  <2> DEFINE r == [Idle EXCEPT !.pc = "repair", !.snap = row]
  <2>1. r \in HandlerType /\ r.pc = "repair"
    BY IdleType DEF HandlerType, Pcs, Locked, Idle, Types
  <2>2. StartRepair(h) => Set(h, r) \/ End(h)
    BY DEF StartRepair
  <2> HIDE DEF r
  <2> QED BY <2>1, <2>2, SetMoves, EndMoves DEF Moves
<1>12. WriteRepair(h) => Moves(h, {"unlock"})
  BY EndMoves, FreshMoves, GotoMoves DEF WriteRepair, Moves, Pcs, Locked
<1>13. StartDisconnect(h) => Moves(h, {"unlock", "bye"})
  BY EndMoves, FreshMoves, GotoMoves DEF StartDisconnect, Moves, Pcs, Locked
<1>14. MarkDisconnect(h) => Moves(h, {"logout"})
  BY EndMoves, FreshMoves, GotoMoves DEF MarkDisconnect, Moves, Pcs, Locked
<1>15. Logout(h) => Moves(h, {"delete", "byefail"})
  BY EndMoves, FreshMoves, GotoMoves DEF Logout, Moves, Pcs, Locked
<1>16. Delete(h) => Moves(h, {"gone", "byefail"})
  BY EndMoves, FreshMoves, GotoMoves DEF Delete, Moves, Pcs, Locked
<1>17. FinishDisconnect(h) => Moves(h, {"unlock"})
  BY EndMoves, FreshMoves, GotoMoves DEF FinishDisconnect, Moves, Pcs, Locked
<1>18. FailDisconnect(h) => Moves(h, {"unlock"})
  BY EndMoves, FreshMoves, GotoMoves DEF FailDisconnect, Moves, Pcs, Locked
<1> QED BY <1>1, <1>2, <1>3, <1>4, <1>5, <1>6, <1>7, <1>8, <1>9, <1>10, <1>11, <1>12, <1>13, <1>14, <1>15, <1>16, <1>17, <1>18

\* The steps around the lock, and those of polls and webhooks.
LEMMA OtherMoves ==
  ASSUME Types, NEW h \in Handlers
  PROVE
    /\ TakeLock(h) => Moves(h, {"idle", "mark"})
    /\ Unlock(h) => Moves(h, {"clear"})
    /\ ClearLock(h) \/ PollFails(h) \/ PollWrites(h) \/ StoreQr(h) \/ StoreState(h)
         => Moves(h, {"idle"})
    /\ PollAnswers(h) => Moves(h, {"sync"})
    /\ BeginPoll(h) => Moves(h, {"state"})
    /\ ReceiveQr(h) => Moves(h, {"idle", "qrnews"})
    /\ \A op \in Offered : AskLock(h, op) => Moves(h, {"lock"})
    /\ \A state \in Reported : ReceiveState(h, state) =>
         /\ Moves(h, {"idle", "statenews"})
         /\ handler'[h].pc = "statenews" =>
              handler'[h].snap = row /\ handler'[h].seen = state
<1>1. TakeLock(h) => Moves(h, {"idle", "mark"})
  BY IdleMoves, GotoMoves DEF TakeLock, Moves, Pcs, Locked
<1>2. Unlock(h) => Moves(h, {"clear"})
  BY GotoMoves DEF Unlock, Pcs
<1>3. ClearLock(h) \/ PollFails(h) \/ PollWrites(h) \/ StoreQr(h) \/ StoreState(h)
        => Moves(h, {"idle"})
  BY IdleMoves DEF ClearLock, PollFails, PollWrites, StoreQr, StoreState
<1>4. PollAnswers(h) => Moves(h, {"sync"})
  <2> DEFINE s == IF remote = "absent" THEN "close" ELSE remote
             r == [handler[h] EXCEPT !.pc = "sync", !.seen = s]
  <2>1. r \in HandlerType /\ r.pc = "sync"
    BY DEF HandlerType, Pcs, Types, Reported
  <2>2. PollAnswers(h) => Set(h, r)
    BY DEF PollAnswers
  <2> HIDE DEF r
  <2> QED BY <2>1, <2>2, SetMoves
<1>5. BeginPoll(h) => Moves(h, {"state"})
  <2> DEFINE r == [Idle EXCEPT !.pc = "state", !.snap.qr = row.qr]
  <2>1. r \in HandlerType /\ r.pc = "state"
    BY IdleType DEF HandlerType, Pcs, Idle, Types, RowType
  <2>2. BeginPoll(h) => Set(h, r)
    BY DEF BeginPoll
  <2> HIDE DEF r
  <2> QED BY <2>1, <2>2, SetMoves
<1>6. ReceiveQr(h) => Moves(h, {"idle", "qrnews"})
  BY FreshMoves DEF ReceiveQr, Moves, Pcs, Types
<1>7. ASSUME NEW op \in Offered, AskLock(h, op) PROVE Moves(h, {"lock"})
  <2> DEFINE r == [Idle EXCEPT !.pc = "lock", !.op = op]
  <2>1. r \in HandlerType /\ r.pc = "lock"
    BY IdleType DEF HandlerType, Pcs, Idle
  <2>2. Set(h, r)
    BY <1>7 DEF AskLock
  <2> HIDE DEF r
  <2> QED BY <2>1, <2>2, SetMoves
<1>8. ASSUME NEW state \in Reported, ReceiveState(h, state)
      PROVE  /\ Moves(h, {"idle", "statenews"})
             /\ handler'[h].pc = "statenews" =>
                  handler'[h].snap = row /\ handler'[h].seen = state
  <2> DEFINE r == [Idle EXCEPT !.pc = "statenews", !.seen = state, !.snap = row]
  <2>1. /\ r \in HandlerType /\ r.pc = "statenews"
        /\ r.snap = row /\ r.seen = state
    BY IdleType DEF HandlerType, Pcs, Idle, Types
  <2>2. (handler[h].pc = "idle" /\ UNCHANGED handler) \/ Set(h, r)
    BY <1>8 DEF ReceiveState
  <2> HIDE DEF r
  <2> QED BY <2>1, <2>2, SetMoves DEF Moves, Types
<1> QED BY <1>1, <1>2, <1>3, <1>4, <1>5, <1>6, <1>7, <1>8

-----------------------------------------------------------------------------
(* Types, and what a connected row shows *)

\* An action of one handler leads to one of its places, whichever it is.
LEMMA HandlersKept ==
  ASSUME Types, Next
  PROVE  handler' \in [Handlers -> HandlerType]
<1>1. CASE RemoteMoves \/ DbLockExpires \/ MemLockExpires
  BY <1>1 DEF RemoteMoves, DbLockExpires, MemLockExpires, Types
<1>2. CASE Restart
  BY <1>2, IdleType DEF Restart
<1>3. ASSUME NEW h \in Handlers, Operate(h)
      PROVE  handler' \in [Handlers -> HandlerType]
  BY <1>3, OperationMoves, OtherMoves
  DEF Moves, Operate, Connect, RequestQr, Repair, Disconnect
<1>4. ASSUME NEW h \in Handlers,
             \/ Follow(h) \/ BeginPoll(h) \/ PollAnswers(h) \/ PollFails(h) \/ ReceiveQr(h)
             \/ \E op \in Offered : AskLock(h, op)
             \/ \E state \in Reported : ReceiveState(h, state)
      PROVE  handler' \in [Handlers -> HandlerType]
  BY <1>4, OtherMoves DEF Moves, Follow
<1> QED BY <1>1, <1>2, <1>3, <1>4 DEF Next

\* A row as every write leaves it.
Row(r) == r \in RowType /\ (r.status = "connected" => ~r.qr)

LEMMA NewRow ==
  ASSUME NEW s \in Statuses, NEW b \in BOOLEAN, NEW q \in BOOLEAN, s = "connected" => ~q,
         row' = [status |-> s, bye |-> b, qr |-> q]
  PROVE  Row(row')
  BY DEF Row, RowType

LEMMA RowWrites ==
  ASSUME Types, NEW h \in Handlers,
         \/ Prepare(h) \/ FinishConnect(h) \/ WriteFailure(h) \/ WriteQr(h) \/ WriteRepair(h)
         \/ MarkDisconnect(h) \/ FinishDisconnect(h) \/ FailDisconnect(h)
         \/ PollWrites(h) \/ StoreQr(h) \/ StoreState(h),
         Row(row)
  PROVE  Row(row')
<1> USE DEF Row, RowType, Statuses, Failures, Pending
<1>0. row \in RowType /\ handler[h].snap \in RowType
  BY DEF Types, HandlerType
<1>1. CASE Prepare(h)
  BY <1>0, <1>1 DEF Prepare
<1>2. CASE FinishConnect(h)
  <2>1. \/ row' = row
        \/ row' = [status |-> "connected", bye |-> FALSE, qr |-> FALSE]
    BY <1>2 DEF FinishConnect
  <2> QED BY <2>1, NewRow, "connected" \in Statuses
<1>3. CASE WriteFailure(h)
  BY <1>0, <1>3 DEF WriteFailure
<1>4. CASE WriteQr(h)
  <2>1. CASE row' = [status |-> "connected", bye |-> FALSE, qr |-> FALSE]
    BY <2>1, NewRow, "connected" \in Statuses
  <2>2. ASSUME NEW s \in {"qr_pending", "qr_not_ready", "provider_warming_up"},
               row' = [row EXCEPT !.status = s, !.bye = FALSE, !.qr = (s = "qr_pending")]
        PROVE  Row(row')
    BY <1>0, <2>2
  <2> QED BY <1>4, <2>1, <2>2 DEF WriteQr
<1>5. CASE WriteRepair(h)
  BY <1>0, <1>5 DEF WriteRepair
<1>6. CASE MarkDisconnect(h)
  BY <1>0, <1>6 DEF MarkDisconnect
<1>7. CASE FinishDisconnect(h) \/ FailDisconnect(h)
  <2>1. \E s \in Pending \cup {"disconnected"} :
          row' = [status |-> s, bye |-> TRUE, qr |-> FALSE]
    BY <1>7 DEF FinishDisconnect, FailDisconnect
  <2> QED BY <2>1, NewRow
<1>8. CASE PollWrites(h)
  <2>1. \E s \in {"connected", "qr_pending", "connecting", "disconnected"} :
          row' = [row EXCEPT !.status = s,
                             !.qr = s # "connected" /\ handler[h].snap.qr]
    BY <1>8 DEF PollWrites, StatusOf
  <2> QED BY <1>0, <2>1
<1>9. CASE StoreQr(h)
  BY <1>0, <1>9 DEF StoreQr
<1>10. CASE StoreState(h)
  BY <1>0, <1>10 DEF StoreState, StatusOf
<1> QED BY <1>1, <1>2, <1>3, <1>4, <1>5, <1>6, <1>7, <1>8, <1>9, <1>10

LEMMA RowKept ==
  ASSUME Types, Next, Row(row)
  PROVE  Row(row')
<1>1. CASE RemoteMoves \/ DbLockExpires \/ MemLockExpires \/ Restart
  BY <1>1 DEF RemoteMoves, DbLockExpires, MemLockExpires, Restart
<1>2. ASSUME NEW h \in Handlers,
             \/ Operate(h) \/ Follow(h)
             \/ BeginPoll(h) \/ PollAnswers(h) \/ PollFails(h) \/ ReceiveQr(h)
             \/ \E op \in Offered : AskLock(h, op)
             \/ \E state \in Reported : ReceiveState(h, state)
      PROVE  Row(row')
  <2>1. \/ row' = row
        \/ Prepare(h) \/ FinishConnect(h) \/ WriteFailure(h) \/ WriteQr(h) \/ WriteRepair(h)
        \/ MarkDisconnect(h) \/ FinishDisconnect(h) \/ FailDisconnect(h)
        \/ PollWrites(h) \/ StoreQr(h) \/ StoreState(h)
    BY <1>2 DEF Operate, Follow, Connect, RequestQr, Repair, Disconnect, TakeLock, MarkLock,
       Unlock, ClearLock, StartConnect, Lookup, Create, StartQr, AskQr, StartRepair,
       StartDisconnect, Logout, Delete, BeginPoll, PollAnswers, PollFails, ReceiveQr,
       AskLock, ReceiveState
  <2> QED BY <2>1, RowWrites
<1> QED BY <1>1, <1>2 DEF Next

\* The rest of TypeOK.
Environment ==
    /\ dbLock \in BOOLEAN
    /\ memLock \in {{}} \cup {{h} : h \in Handlers}
    /\ remote \in Reported \cup {"absent"}
    /\ news \subseteq Reported \cup {"qr"}
    /\ restarts \in 0..MaxRestarts
    /\ farewell \in {"no", "asked", "done"}
    /\ loose \subseteq Handlers

LEMMA Sending ==
  ASSUME NEW ns \in SUBSET (Reported \cup {"qr"}), Send(ns), news \subseteq Reported \cup {"qr"}
  PROVE  news' \subseteq Reported \cup {"qr"}
  BY DEF Send

LEMMA EnvironmentKept ==
  ASSUME Environment, Next
  PROVE  Environment'
<1> USE DEF Environment, external, locks, Reported
<1>1. CASE RemoteMoves
  BY <1>1, Sending DEF RemoteMoves, Becomes
<1>2. CASE DbLockExpires \/ MemLockExpires
  BY <1>2 DEF DbLockExpires, MemLockExpires
<1>8. CASE Restart
  <2>1. restarts' \in 0..MaxRestarts
    BY <1>8 DEF Restart
  <2> QED BY <1>8, <2>1 DEF Restart
<1>3. ASSUME NEW h \in Handlers,
             TakeLock(h) \/ MarkLock(h) \/ Unlock(h) \/ ClearLock(h)
      PROVE  Environment'
  <2>1. UNCHANGED <<external, farewell>>
    BY <1>3 DEF TakeLock, MarkLock, Unlock, ClearLock
  <2>2. dbLock' \in BOOLEAN
    BY <1>3 DEF TakeLock, MarkLock, Unlock, ClearLock
  <2>3. memLock' \in {memLock, {h}, memLock \ {h}}
    BY <1>3 DEF TakeLock, MarkLock, Unlock, ClearLock
  <2>4. loose' \in {loose, loose \ {h}}
    BY <1>3 DEF TakeLock, MarkLock, Unlock, ClearLock
  <2> QED BY <2>1, <2>2, <2>3, <2>4
<1>4. ASSUME NEW h \in Handlers, Connect(h)
      PROVE  Environment'
  BY <1>4, Sending
  DEF Connect, StartConnect, Prepare, Lookup, Create, FinishConnect, WriteFailure
<1>5. ASSUME NEW h \in Handlers, RequestQr(h) \/ Repair(h)
      PROVE  Environment'
  BY <1>5, Sending DEF RequestQr, StartQr, AskQr, WriteQr, Repair, StartRepair, WriteRepair
<1>6. ASSUME NEW h \in Handlers, Disconnect(h)
      PROVE  Environment'
  BY <1>6, Sending
  DEF Disconnect, StartDisconnect, MarkDisconnect, Logout, Delete, FinishDisconnect,
      FailDisconnect, Becomes
<1>7. ASSUME NEW h \in Handlers,
             \/ Follow(h) \/ BeginPoll(h) \/ PollAnswers(h) \/ PollFails(h) \/ ReceiveQr(h)
             \/ \E op \in Offered : AskLock(h, op)
             \/ \E state \in Reported : ReceiveState(h, state)
      PROVE  Environment'
  BY <1>7 DEF Follow, PollWrites, StoreQr, StoreState, BeginPoll, PollAnswers, PollFails,
     ReceiveQr, AskLock, ReceiveState
<1> QED BY <1>1, <1>2, <1>3, <1>4, <1>5, <1>6, <1>7, <1>8 DEF Next, Operate

\* The types, and rows that show a QR code only while there is one to scan.
Rows == Types /\ Row(row) /\ Environment

LEMMA RowsAlways == Spec => []Rows
<1>1. Init => Rows
  <2> SUFFICES ASSUME Init PROVE Rows
    OBVIOUS
  <2>1. Types
    BY IdleType DEF Init, Types
  <2>2. row \in RowType /\ row.status # "connected"
    BY IdleType DEF Init, NoRow
  <2>3. restarts \in 0..MaxRestarts
    BY DEF Init
  <2>4. Environment
    BY <2>3 DEF Init, Environment
  <2> QED BY <2>1, <2>2, <2>4 DEF Rows, Row
<1>2. Rows /\ [Next]_vars => Rows'
  <2>1. CASE Next
    BY <2>1, HandlersKept, RowKept, EnvironmentKept DEF Rows, Types, Row, Environment
  <2>2. CASE UNCHANGED vars
    BY <2>2 DEF Rows, Types, Row, Environment, vars
  <2> QED BY <2>1, <2>2
<1> QED BY <1>1, <1>2, PTL DEF Spec

\* The row, the locks and what is in progress keep their types.
THEOREM ConnectionTypesHold == Spec => []TypeOK
<1>1. Rows => TypeOK
  BY DEF Rows, Types, Environment, TypeOK
<1> QED BY <1>1, RowsAlways, PTL

\* However operations, polls and webhooks overlap, and whatever stale row each
\* of them writes from, a connected row never shows a QR code.
THEOREM ConnectedRowsHideQr == Spec => []ConnectedHidesQr
<1>1. Rows => ConnectedHidesQr
  BY DEF Rows, Row, ConnectedHidesQr
<1> QED BY <1>1, RowsAlways, PTL

-----------------------------------------------------------------------------
(* One operation at a time *)

\* The handlers that hold the lock in memory, if its timer does not fire.
Holding == Locked \cup {"unlock"}

\* Who holds the lock is in the map, alone, and who is between the two lookups
\* of withOperationLock has nobody beside it, save the loose ones.
LockInv ==
    /\ \A h \in Handlers \ loose : handler[h].pc \in Holding => memLock = {h}
    /\ \A g \in Handlers : handler[g].pc = "lock" =>
         \A h \in Handlers \ {g} : handler[h].pc \in Holding \cup {"lock"} => h \in loose

\* A step of h that stays among those who hold the lock, or outside it.
LEMMA SameLock ==
  ASSUME NEW h \in Handlers, NEW pcs, Moves(h, pcs), LockInv, UNCHANGED memLock,
         \/ UNCHANGED loose /\ handler[h].pc \in Holding /\ pcs \subseteq Holding
         \/ /\ pcs \cap (Holding \cup {"lock"}) = {}
            /\ loose \ {h} \subseteq loose'
  PROVE  LockInv'
<1>1. ASSUME NEW g \in Handlers \ loose', handler'[g].pc \in Holding
      PROVE  memLock' = {g}
  <2>1. g \in Handlers \ loose /\ handler[g].pc \in Holding
    BY <1>1 DEF Moves, Holding, Locked
  <2> QED BY <2>1 DEF LockInv
<1>2. ASSUME NEW g \in Handlers, handler'[g].pc = "lock",
             NEW k \in Handlers \ {g}, handler'[k].pc \in Holding \cup {"lock"}
      PROVE  k \in loose'
  <2>1. handler[g].pc = "lock"
    BY <1>2 DEF Moves, Holding, Locked
  <2>2. handler[k].pc \in Holding \cup {"lock"} /\ (k = h => UNCHANGED loose)
    BY <1>2 DEF Moves, Holding, Locked
  <2>3. k \in loose
    BY <2>1, <2>2 DEF LockInv
  <2> QED BY <2>2, <2>3
<1> QED BY <1>1, <1>2 DEF LockInv

LEMMA OperationKeepsLock ==
  ASSUME Types, LockInv, NEW h \in Handlers,
         MarkLock(h) \/ Connect(h) \/ RequestQr(h) \/ Repair(h) \/ Disconnect(h)
  PROVE  LockInv'
<1>1. /\ handler[h].pc \in Holding
      /\ UNCHANGED <<memLock, loose>>
  BY DEF MarkLock, Connect, RequestQr, Repair, Disconnect, StartConnect, Prepare, Lookup,
     Create, FinishConnect, WriteFailure, StartQr, AskQr, WriteQr, StartRepair, WriteRepair,
     StartDisconnect, MarkDisconnect, Logout, Delete, FinishDisconnect, FailDisconnect,
     Holding, Locked, locks
<1>2. Moves(h, Holding)
  BY OperationMoves
  DEF Moves, Holding, Locked, Connect, RequestQr, Repair, Disconnect
<1> QED BY <1>1, <1>2, SameLock

\* Who asks for the lock while others wait for it crosses them.
LEMMA AskKeepsLock ==
  ASSUME Types, LockInv, NEW h \in Handlers, NEW op \in Offered, AskLock(h, op)
  PROVE  LockInv'
<1> DEFINE waiting == {g \in Handlers : handler[g].pc = "lock"}
<1>1. /\ memLock = {} /\ memLock' = {} /\ handler[h].pc = "idle"
      /\ loose' = loose \cup waiting \cup {g \in {h} : waiting # {}}
  BY DEF AskLock
<1>2. Moves(h, {"lock"})
  BY OtherMoves
<1>3. \A g \in Handlers \ loose : handler[g].pc \notin Holding
  BY <1>1 DEF LockInv
<1>4. \A g \in Handlers \ loose' : handler'[g].pc \notin Holding
  BY <1>1, <1>2, <1>3 DEF Moves, Holding, Locked
<1>5. ASSUME NEW g \in Handlers, handler'[g].pc = "lock",
             NEW k \in Handlers \ {g}, handler'[k].pc \in Holding \cup {"lock"}
      PROVE  k \in loose'
  <2>1. CASE k = h
    <3>1. g \in waiting
      BY <1>2, <1>5, <2>1 DEF Moves
    <3> QED BY <1>1, <2>1, <3>1
  <2>2. CASE k # h
    <3>1. handler[k].pc \in Holding \cup {"lock"}
      BY <1>2, <1>5, <2>2 DEF Moves
    <3>2. k \in loose \/ k \in waiting
      BY <1>3, <3>1
    <3> QED BY <1>1, <3>2
  <2> QED BY <2>1, <2>2
<1> HIDE DEF waiting
<1> QED BY <1>4, <1>5 DEF LockInv

LEMMA TakeKeepsLock ==
  ASSUME Types, LockInv, NEW h \in Handlers, TakeLock(h)
  PROVE  LockInv'
<1>1. handler[h].pc = "lock" /\ Moves(h, {"idle", "mark"})
  BY OtherMoves DEF TakeLock
<1>2. CASE dbLock
  <2>1. Moves(h, {"idle"}) /\ loose' = loose \ {h} /\ UNCHANGED memLock
    BY <1>2, IdleMoves DEF TakeLock
  <2> QED BY <2>1, SameLock DEF Holding, Locked
<1>3. CASE ~dbLock
  <2>1. Moves(h, {"mark"}) /\ UNCHANGED loose /\ memLock' = {h}
    BY <1>3, GotoMoves DEF TakeLock, Pcs, Locked
  <2>2. \A g \in Handlers \ {h} : handler[g].pc \in Holding \cup {"lock"} => g \in loose
    BY <1>1 DEF LockInv
  <2>3. ASSUME NEW g \in Handlers, handler'[g].pc = "lock"
        PROVE  /\ h \in loose /\ g # h
               /\ handler[g].pc = "lock"
    <3>1. g # h /\ handler[g].pc = "lock"
      BY <2>1, <2>3 DEF Moves
    <3> QED BY <1>1, <3>1 DEF LockInv
  <2>4. \A g \in Handlers \ loose' : handler'[g].pc \in Holding => memLock' = {g}
    BY <2>1, <2>2 DEF Moves
  <2>5. ASSUME NEW g \in Handlers, handler'[g].pc = "lock",
               NEW k \in Handlers \ {g}, handler'[k].pc \in Holding \cup {"lock"}
        PROVE  k \in loose'
    BY <2>1, <2>2, <2>3, <2>5 DEF Moves
  <2> QED BY <2>4, <2>5 DEF LockInv
<1> QED BY <1>2, <1>3

LEMMA UnlockKeepsLock ==
  ASSUME Types, LockInv, NEW h \in Handlers, Unlock(h)
  PROVE  LockInv'
<1>1. /\ handler[h].pc = "unlock" /\ Moves(h, {"clear"})
      /\ memLock' = memLock \ {h} /\ UNCHANGED loose
  BY OtherMoves DEF Unlock
<1>2. ASSUME NEW g \in Handlers \ loose', handler'[g].pc \in Holding
      PROVE  memLock' = {g}
  <2>1. g # h /\ handler[g].pc \in Holding /\ g \notin loose
    BY <1>1, <1>2 DEF Moves, Holding, Locked
  <2>2. memLock = {g}
    BY <2>1 DEF LockInv
  <2> QED BY <1>1, <2>1, <2>2
<1>3. ASSUME NEW g \in Handlers, handler'[g].pc = "lock",
             NEW k \in Handlers \ {g}, handler'[k].pc \in Holding \cup {"lock"}
      PROVE  k \in loose'
  <2>1. handler[g].pc = "lock" /\ handler[k].pc \in Holding \cup {"lock"}
    BY <1>1, <1>3 DEF Moves, Holding, Locked
  <2> QED BY <1>1, <2>1 DEF LockInv
<1> QED BY <1>2, <1>3 DEF LockInv

LEMMA LockKept ==
  ASSUME Types, LockInv, Next
  PROVE  LockInv'
<1>1. CASE RemoteMoves \/ DbLockExpires
  BY <1>1 DEF RemoteMoves, DbLockExpires, locks, LockInv
<1>2. CASE MemLockExpires
  <2>1. UNCHANGED handler /\ memLock' = {} /\ loose' = loose \cup memLock
    BY <1>2 DEF MemLockExpires
  <2> QED BY <2>1 DEF LockInv
<1>3. CASE Restart
  BY <1>3 DEF Restart, LockInv, Holding, Locked, Idle
<1>4. ASSUME NEW h \in Handlers, Operate(h)
      PROVE  LockInv'
  <2>1. CASE ClearLock(h)
    <3>1. Moves(h, {"idle"}) /\ UNCHANGED memLock /\ loose' = loose \ {h}
      BY <2>1, OtherMoves DEF ClearLock
    <3> QED BY <3>1, SameLock DEF Holding, Locked
  <2> QED BY <1>4, <2>1, TakeKeepsLock, UnlockKeepsLock, OperationKeepsLock DEF Operate
<1>5. ASSUME NEW h \in Handlers,
             \/ Follow(h) \/ BeginPoll(h) \/ PollAnswers(h) \/ PollFails(h) \/ ReceiveQr(h)
             \/ \E state \in Reported : ReceiveState(h, state)
      PROVE  LockInv'
  <2>1. UNCHANGED <<memLock, loose>>
    BY <1>5 DEF Follow, PollWrites, StoreQr, StoreState, BeginPoll, PollAnswers, PollFails,
       ReceiveQr, ReceiveState, locks
  <2>2. Moves(h, {"idle", "sync", "state", "qrnews", "statenews"})
    BY <1>5, OtherMoves DEF Moves, Follow
  <2> QED BY <2>1, <2>2, SameLock DEF Holding, Locked
<1> QED BY <1>1, <1>2, <1>3, <1>4, <1>5, AskKeepsLock DEF Next

\* withOperationLock keeps the operations of a company apart, for any number of
\* them, of restarts and of expiries: of two that go on together, one crossed
\* some operation between the lookup and the writing of the map, or outlived its
\* 45 seconds.
THEOREM OperationsAreApart == Spec => []OneOperation
<1>1. Init => LockInv
  BY DEF Init, LockInv, Holding, Locked, Idle
<1>2. Rows /\ LockInv /\ [Next]_vars => LockInv'
  <2>1. CASE UNCHANGED vars
    BY <2>1 DEF vars, LockInv
  <2> QED BY <2>1, LockKept DEF Rows
<1>3. LockInv => OneOperation
  BY DEF LockInv, OneOperation, Inside, Holding
<1> QED BY <1>1, <1>2, <1>3, RowsAlways, PTL DEF Spec

-----------------------------------------------------------------------------
(* A disconnection sticks *)

\* Where a handler would carry a row from before the disconnection to a write.
Overlaps == {"state", "sync", "qrnews", "lookup", "create", "finish"}

\* What a handler knows does not undo the disconnection.
Quiet(h) ==
    /\ handler[h].pc \notin Overlaps
    /\ handler[h].pc = "statenews" => handler[h].snap.bye
    /\ handler[h].pc = "repair" => handler[h].snap.status # "connected"
    /\ handler[h].pc = "gone" => remote = "absent"

StickInv == farewell # "no" => DisconnectSticks /\ \A h \in Handlers : Quiet(h)

\* A step to a place where nothing has to be known.
LEMMA StaysQuiet ==
  ASSUME NEW h \in Handlers, NEW pcs, Moves(h, pcs), \A g \in Handlers : Quiet(g),
         pcs \cap (Overlaps \cup {"statenews", "repair", "gone"}) = {},
         remote = "absent" => remote' = "absent"
  PROVE  \A g \in Handlers : Quiet(g)'
  BY DEF Moves, Quiet

LEMMA LockSticks ==
  ASSUME Types, StickInv, farewell' # "no", NEW h \in Handlers,
         \/ \E op \in Offered : AskLock(h, op)
         \/ TakeLock(h) \/ MarkLock(h) \/ Unlock(h) \/ ClearLock(h)
  PROVE  StickInv'
<1>1. UNCHANGED <<row, remote, farewell>>
  BY DEF AskLock, TakeLock, MarkLock, Unlock, ClearLock, external
<1>2. Moves(h, {"lock", "idle", "mark", "start", "clear"})
  BY OperationMoves, OtherMoves DEF Moves
<1>3. \A g \in Handlers : Quiet(g)'
  BY <1>1, <1>2, StaysQuiet DEF StickInv, Overlaps
<1> QED BY <1>1, <1>3 DEF StickInv, DisconnectSticks

LEMMA ConnectSticks ==
  ASSUME Types, StickInv, farewell' # "no", NEW h \in Handlers, Connect(h) \/ RequestQr(h)
  PROVE  StickInv'
<1>1. CASE StartConnect(h) \/ StartQr(h)
  <2>1. UNCHANGED <<row, remote, farewell>>
    BY <1>1 DEF StartConnect, StartQr, external
  <2>2. Moves(h, {"unlock", "prepare", "ask"})
    BY <1>1, OperationMoves DEF Moves
  <2>3. \A g \in Handlers : Quiet(g)'
    BY <2>1, <2>2, StaysQuiet DEF StickInv, Overlaps
  <2> QED BY <2>1, <2>3 DEF StickInv, DisconnectSticks
<1>2. CASE WriteFailure(h)
  <2>1. /\ row'.bye = row.bye /\ row'.status # "connected"
        /\ UNCHANGED <<remote, farewell>>
    BY <1>2 DEF WriteFailure, Types, RowType, Failures, external
  <2>2. Moves(h, {"unlock"})
    BY <1>2, OperationMoves
  <2>3. \A g \in Handlers : Quiet(g)'
    BY <2>1, <2>2, StaysQuiet DEF StickInv, Overlaps
  <2> QED BY <2>1, <2>3 DEF StickInv, DisconnectSticks
<1>3. CASE AskQr(h)
  <2>1. /\ UNCHANGED <<row, farewell>>
        /\ remote = "absent" => remote' = "absent"
    BY <1>3 DEF AskQr, locks
  <2>2. Moves(h, {"fail", "answer"})
    BY <1>3, OperationMoves
  <2>3. \A g \in Handlers : Quiet(g)'
    BY <2>1, <2>2, StaysQuiet DEF StickInv, Overlaps
  <2> QED BY <2>1, <2>3 DEF StickInv, DisconnectSticks
<1>4. CASE Prepare(h) \/ WriteQr(h)
  BY <1>4 DEF Prepare, WriteQr
<1>5. CASE Lookup(h) \/ Create(h) \/ FinishConnect(h)
  <2>1. handler[h].pc \in Overlaps
    BY <1>5 DEF Lookup, Create, FinishConnect, Overlaps
  <2>2. farewell' \in {"no", farewell}
    BY <1>5 DEF Lookup, Create, FinishConnect, locks
  <2> QED BY <2>1, <2>2 DEF StickInv, Quiet
<1> QED BY <1>1, <1>2, <1>3, <1>4, <1>5 DEF Connect, RequestQr

LEMMA RepairSticks ==
  ASSUME Types, StickInv, farewell' # "no", NEW h \in Handlers, Repair(h)
  PROVE  StickInv'
<1>1. CASE StartRepair(h)
  <2>1. UNCHANGED <<row, remote, farewell>> /\ Moves(h, {"unlock", "repair"})
    BY <1>1, OperationMoves DEF StartRepair, external
  <2>2. handler'[h].pc = "repair" => handler'[h].snap = row
    <3> DEFINE r == [Idle EXCEPT !.pc = "repair", !.snap = row]
    <3>1. r \in HandlerType /\ r.snap = row
      BY IdleType DEF HandlerType, Pcs, Locked, Idle, Types
    <3>2. Set(h, r) \/ End(h)
      BY <1>1 DEF StartRepair
    <3> HIDE DEF r
    <3> QED BY <3>1, <3>2, SetMoves, EndMoves DEF Moves
  <2>3. \A g \in Handlers : Quiet(g)'
    BY <2>1, <2>2 DEF StickInv, DisconnectSticks, Moves, Quiet, Overlaps
  <2> QED BY <2>1, <2>3 DEF StickInv, DisconnectSticks
<1>2. CASE WriteRepair(h)
  <2>1. UNCHANGED <<remote, farewell>> /\ Moves(h, {"unlock"})
    BY <1>2, OperationMoves DEF WriteRepair, external
  <2>2. handler[h].snap.status # "connected"
    BY <1>2, <2>1 DEF WriteRepair, StickInv, Quiet
  <2>3. row'.bye = row.bye /\ row'.status # "connected"
    BY <1>2, <2>2 DEF WriteRepair, Types, RowType
  <2>4. \A g \in Handlers : Quiet(g)'
    BY <2>1, StaysQuiet DEF StickInv, Overlaps
  <2> QED BY <2>1, <2>3, <2>4 DEF StickInv, DisconnectSticks
<1> QED BY <1>1, <1>2 DEF Repair

LEMMA DisconnectingSticks ==
  ASSUME Types, StickInv, farewell' # "no", NEW h \in Handlers, Disconnect(h)
  PROVE  StickInv'
<1>1. CASE StartDisconnect(h)
  <2>1. UNCHANGED <<row, remote, farewell>> /\ Moves(h, {"unlock", "bye"})
    BY <1>1, OperationMoves DEF StartDisconnect, external
  <2>2. \A g \in Handlers : Quiet(g)'
    BY <2>1, StaysQuiet DEF StickInv, Overlaps
  <2> QED BY <2>1, <2>2 DEF StickInv, DisconnectSticks
<1>2. CASE MarkDisconnect(h)
  <2>1. farewell' = "asked" /\ \A g \in Handlers \ {h} : handler[g].pc = "idle"
    BY <1>2 DEF MarkDisconnect
  <2>2. row'.bye /\ row'.status # "connected"
    BY <1>2 DEF MarkDisconnect, Types, RowType
  <2>3. Moves(h, {"logout"})
    BY <1>2, OperationMoves
  <2> QED BY <2>1, <2>2, <2>3 DEF StickInv, DisconnectSticks, Quiet, Moves, Overlaps
<1>3. CASE Logout(h)
  <2>1. /\ UNCHANGED <<row, farewell>> /\ Moves(h, {"delete", "byefail"})
        /\ remote = "absent" => remote' = "absent"
    BY <1>3, OperationMoves DEF Logout, Becomes
  <2>2. \A g \in Handlers : Quiet(g)'
    BY <2>1, StaysQuiet DEF StickInv, Overlaps
  <2> QED BY <2>1, <2>2 DEF StickInv, DisconnectSticks
<1>4. CASE Delete(h)
  <2>1. UNCHANGED <<row, farewell>> /\ Moves(h, {"gone", "byefail"})
    BY <1>4, OperationMoves DEF Delete
  <2>2. remote' = "absent" \/ (handler'[h].pc = "byefail" /\ remote' = remote)
    BY <1>4, GotoMoves DEF Delete, Moves, Pcs, Locked
  <2>3. \A g \in Handlers : Quiet(g)'
    BY <2>1, <2>2 DEF StickInv, Moves, Quiet, Overlaps
  <2> QED BY <2>1, <2>2, <2>3 DEF StickInv, DisconnectSticks
<1>5. CASE FinishDisconnect(h) \/ FailDisconnect(h)
  <2>1. UNCHANGED remote /\ Moves(h, {"unlock"}) /\ row'.bye /\ row'.status # "connected"
    BY <1>5, OperationMoves DEF FinishDisconnect, FailDisconnect, Pending, external
  <2>2. farewell # "no" /\ \A g \in Handlers : Quiet(g)
    BY <1>5 DEF FinishDisconnect, FailDisconnect, StickInv
  <2>3. farewell' = farewell \/ remote = "absent"
    BY <1>5, <2>2 DEF FinishDisconnect, FailDisconnect, Quiet
  <2>4. \A g \in Handlers : Quiet(g)'
    BY <2>1, <2>2, StaysQuiet DEF Overlaps
  <2> QED BY <2>1, <2>2, <2>3, <2>4 DEF StickInv, DisconnectSticks
<1> QED BY <1>1, <1>2, <1>3, <1>4, <1>5 DEF Disconnect

LEMMA NewsSticks ==
  ASSUME Types, StickInv, farewell' # "no", NEW h \in Handlers,
         \/ Follow(h) \/ BeginPoll(h) \/ PollAnswers(h) \/ PollFails(h) \/ ReceiveQr(h)
         \/ \E state \in Reported : ReceiveState(h, state)
  PROVE  StickInv'
<1>1. UNCHANGED <<remote, farewell>>
  BY DEF Follow, PollWrites, StoreQr, StoreState, BeginPoll, PollAnswers, PollFails,
     ReceiveQr, ReceiveState, external
<1>2. /\ row.bye /\ row.status # "connected"
      /\ \A g \in Handlers : Quiet(g)
  BY <1>1 DEF StickInv, DisconnectSticks
<1>3. CASE PollWrites(h) \/ StoreQr(h) \/ PollAnswers(h) \/ PollFails(h)
  <2>1. handler[h].pc \in Overlaps
    BY <1>3 DEF PollWrites, StoreQr, PollAnswers, PollFails, Overlaps
  <2> QED BY <1>2, <2>1 DEF Quiet
<1>4. CASE StoreState(h)
  <2>1. handler[h].snap.bye
    BY <1>2, <1>4 DEF StoreState, Quiet
  <2>2. row'.bye /\ row'.status # "connected"
    BY <1>4, <2>1 DEF StoreState, StatusOf
  <2>3. Moves(h, {"idle"})
    BY <1>4, OtherMoves
  <2>4. \A g \in Handlers : Quiet(g)'
    BY <1>1, <1>2, <2>3, StaysQuiet DEF Overlaps
  <2> QED BY <1>1, <2>2, <2>4 DEF StickInv, DisconnectSticks
<1>5. CASE BeginPoll(h)
  BY <1>2, <1>5 DEF BeginPoll
<1>6. CASE ReceiveQr(h)
  <2>1. UNCHANGED <<row, remote, farewell, handler>>
    BY <1>1, <1>2, <1>6 DEF ReceiveQr
  <2>2. \A g \in Handlers : Quiet(g)'
    BY <1>2, <2>1 DEF Quiet
  <2> QED BY <2>1, <2>2 DEF StickInv, DisconnectSticks
<1>7. ASSUME NEW state \in Reported, ReceiveState(h, state)
      PROVE  StickInv'
  <2>1. /\ Moves(h, {"idle", "statenews"}) /\ UNCHANGED row
        /\ handler'[h].pc = "statenews" => handler'[h].snap = row
    BY <1>7, OtherMoves DEF ReceiveState
  <2>2. \A g \in Handlers : Quiet(g)'
    BY <1>1, <1>2, <2>1 DEF Moves, Quiet, Overlaps
  <2> QED BY <1>1, <2>1, <2>2 DEF StickInv, DisconnectSticks
<1> QED BY <1>3, <1>4, <1>5, <1>6, <1>7 DEF Follow

LEMMA OutsideSticks ==
  ASSUME StickInv, RemoteMoves \/ DbLockExpires \/ MemLockExpires \/ Restart
  PROVE  StickInv'
<1>1. UNCHANGED <<row, farewell>> /\ (remote = "absent" => remote' = "absent")
  BY DEF RemoteMoves, DbLockExpires, MemLockExpires, Restart, external, Becomes
<1>2. CASE Restart
  BY <1>1, <1>2 DEF Restart, StickInv, DisconnectSticks, Quiet, Idle, Overlaps
<1>3. CASE RemoteMoves \/ DbLockExpires \/ MemLockExpires
  BY <1>1, <1>3
  DEF RemoteMoves, DbLockExpires, MemLockExpires, StickInv, DisconnectSticks, Quiet
<1> QED BY <1>2, <1>3

\* A disconnection that nothing in progress overlapped is not undone by a late
\* webhook, by a poll, by a repair or by a restart: the row stays marked and is
\* never shown connected, and the instance stays away, until somebody connects.
THEOREM DisconnectionSticks == Spec => []DisconnectSticks
<1>1. Init => StickInv
  BY DEF Init, StickInv
<1>2. Rows /\ StickInv /\ [Next]_vars => StickInv'
  <2> SUFFICES ASSUME Rows, StickInv, [Next]_vars, farewell' # "no"
               PROVE  StickInv'
    BY DEF StickInv
  <2>1. CASE UNCHANGED vars
    BY <2>1 DEF vars, StickInv, DisconnectSticks, Quiet
  <2> QED BY <2>1, LockSticks, ConnectSticks, RepairSticks, DisconnectingSticks,
             NewsSticks, OutsideSticks DEF Next, Operate, Rows
<1>3. StickInv => DisconnectSticks
  BY DEF StickInv, DisconnectSticks
<1> QED BY <1>1, <1>2, <1>3, RowsAlways, PTL DEF Spec
=============================================================================
