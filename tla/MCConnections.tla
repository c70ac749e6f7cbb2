----------------------------- MODULE MCConnections -----------------------------
(***************************************************************************)
(* Small instances, for TLC, of a company's connections to other services: *)
(* the tokens of Mercado Livre, the instance on the Evolution server, the  *)
(* requests to that server and the webhook it reports to.  They share no   *)
(* variable: each behaviour is one of them, chosen at the start, so that   *)
(* their states add up.                                                    *)
(***************************************************************************)
EXTENDS MercadoLivreToken, EvolutionInstance, ProviderCalls, ProviderWebhook, TLC

CONSTANTS h1, h2, h3, e1, e2, c1, c2

CallerOps == c1 :> {"text", "hook", "remove"} @@ c2 :> {"text", "state", "create", "warm"}
Pauses == <<1, 1, 2>>

ConnectionsSymmetry == Permutations(Handlers) \cup Permutations(EvoCalls)

VARIABLE part

MCInit ==
    /\ part \in {"mercadolivre", "evolution", "requests", "webhook"}
    /\ Init /\ EvolutionInit /\ ProviderCallsInit /\ ProviderWebhookInit

MCNext ==
    \/ part = "mercadolivre" /\ Next
       /\ UNCHANGED <<part, evolutionVars, providerCallVars, providerWebhookVars>>
    \/ part = "evolution" /\ EvolutionNext
       /\ UNCHANGED <<part, vars, providerCallVars, providerWebhookVars>>
    \/ part = "requests" /\ ProviderCallsNext
       /\ UNCHANGED <<part, vars, evolutionVars, providerWebhookVars>>
    \/ part = "webhook" /\ ProviderWebhookNext
       /\ UNCHANGED <<part, vars, evolutionVars, providerCallVars>>

MCSpec ==
    MCInit /\ [][MCNext]_<<part, vars, evolutionVars, providerCallVars,
                           providerWebhookVars>>
=============================================================================
