------------------------ MODULE MCMercadoLivreOrders ------------------------
(***************************************************************************)
(* Small instances of MercadoLivreOrders for TLC.                          *)
(***************************************************************************)
EXTENDS MercadoLivreOrders

CONSTANTS h1, h2

VARIABLE apart      \* history: no two handlers have been busy at once

OneBusy ==
    \A g, h \in Handlers : handler[g].pc # "idle" /\ handler[h].pc # "idle" => g = h

MCInit == Init /\ apart = TRUE

MCNext == Next /\ apart' = (apart /\ OneBusy')

MCSpec == MCInit /\ [][MCNext]_<<vars, apart>>

\* The fairness of FairSpec.
MCFairSpec ==
    /\ MCSpec
    /\ \A h \in Handlers : WF_vars(Serve(h))
    /\ SF_vars(\E h \in Handlers : ListOrders(h, "daily"))

\* As long as nothing fails and orders are processed one after the other, processing an
\* order again leaves what processing it once would have: upsertOrder reads the links it
\* stored before.
UndisturbedIsIdempotent == faults = 0 /\ apart => ProcessingIsIdempotent
=============================================================================
