------------------------------- MODULE Inbox -------------------------------
(***************************************************************************)
(* What a webhook intake with an event table promises, whatever the sender *)
(* repeats, reorders or delivers twice at a time: an event is recorded     *)
(* before it is acknowledged, its effect is applied at most once and only  *)
(* while the record is open, the record is closed once, and it is closed   *)
(* as processed only if the effect was applied.                            *)
(***************************************************************************)
EXTENDS Naturals

CONSTANT Events

VARIABLES
    record,     \* the event's row: none, stored, processed or failed
    applied,    \* how often its effect has been applied
    acked       \* events the sender was told not to send again

inboxVars == <<record, applied, acked>>

InboxInit ==
    /\ record = [e \in Events |-> "none"]
    /\ applied = [e \in Events |-> 0]
    /\ acked = {}

Store(e) ==
    /\ record[e] = "none"
    /\ record' = [record EXCEPT ![e] = "stored"]
    /\ UNCHANGED <<applied, acked>>

ApplyOnce(e) ==
    /\ record[e] = "stored" /\ applied[e] = 0
    /\ applied' = [applied EXCEPT ![e] = 1]
    /\ UNCHANGED <<record, acked>>

Close(e, outcome) ==
    /\ record[e] = "stored"
    /\ outcome = "processed" => applied[e] = 1
    /\ record' = [record EXCEPT ![e] = outcome]
    /\ acked' = acked \cup {e}
    /\ UNCHANGED applied

Ack(e) ==
    /\ record[e] # "none"
    /\ acked' = acked \cup {e}
    /\ UNCHANGED <<record, applied>>

InboxNext ==
    \E e \in Events :
        \/ Store(e) \/ ApplyOnce(e) \/ Ack(e)
        \/ \E outcome \in {"processed", "failed"} : Close(e, outcome)

InboxSpec == InboxInit /\ [][InboxNext]_inboxVars
=============================================================================
