------------------------- MODULE MCAttendantActions -------------------------
(***************************************************************************)
(* Small instances of AttendantActions for TLC: a customer who pays an     *)
(* order; one who books an appointment and a meeting, with a failure; and  *)
(* one who books both and says more, without.  Each behaviour is of one of *)
(* them, chosen at the start.                                              *)
(***************************************************************************)
EXTENDS AttendantActions, TLC

CONSTANTS h1, h2, o1, o2

HandlerSymmetry == Permutations(Handlers)

PriceOf == [o \in Orders |-> IF o = o1 THEN 1 ELSE 2]

\* What the messages say: "I paid order o, its price"; "I want to book the
\* service tomorrow at ten", "and a meeting then"; and "ok".
Paid(o) == [intent |-> "sale", fresh |-> FALSE, slot |-> None,
            order |-> o, amount |-> PriceOf[o]]
Booking == [intent |-> "schedule", fresh |-> TRUE, slot |-> "slot",
            order |-> None, amount |-> 0]
Meeting == [Booking EXCEPT !.intent = "meeting", !.fresh = FALSE]
Ok == [Booking EXCEPT !.intent = "general", !.fresh = FALSE, !.slot = None]

PaymentsVisitsOk ==
    "pay" :> Paid(o1) @@ "book" :> Booking @@ "meet" :> Meeting @@ "ok" :> Ok
\* One booking, sent again, overlapping or not.
OneBooking == "first" :> Booking

VARIABLE part

\* Who sends what.
Sends ==
    [pays    |-> {"pay", "ok"},
     books   |-> {"book", "meet"},
     chats   |-> {"book", "meet", "ok"},
     resends |-> {"first"}]

MCInit ==
    /\ part \in {p \in DOMAIN Sends : Sends[p] \subseteq Messages}
    /\ Init

MCNext ==
    /\ Next /\ UNCHANGED part
    /\ \A h \in Handlers : handler'[h].msg \in Sends[part] \cup {None}
    /\ part \in {"books", "chats"} => ~overlapped'     \* no further than NoDuplicateAlone looks
    /\ part = "chats" => faults' = 0

MCSpec == MCInit /\ [][MCNext]_<<part, vars>>
=============================================================================
