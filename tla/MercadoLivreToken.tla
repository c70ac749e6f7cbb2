------------------------- MODULE MercadoLivreToken --------------------------
(***************************************************************************)
(* The Mercado Livre connection of one company                             *)
(* (mercado-livre/mercado-livre-auth.service.ts): its mercadoLivreOAuth-   *)
(* Token row and the status of its integration row.  Every call to Mercado *)
(* Livre first takes an access token, and renews an expired one with the   *)
(* refresh token of the row; syncAll does so four times at once.  Nothing  *)
(* keeps renewals, the OAuth callback and a disconnect apart.              *)
(*                                                                         *)
(* Mercado Livre is external: a refresh token is good for one renewal,     *)
(* which answers the next one.  Tokens are numbered as they are issued.    *)
(***************************************************************************)
EXTENDS Naturals, FiniteSets

CONSTANTS
    Handlers,       \* calls served at a time
    MaxTokens,      \* bound on tokens issued
    MaxFaults       \* bound on failed calls and restarts

ASSUME TokenBounds == MaxTokens \in Nat /\ MaxFaults \in Nat

VARIABLES
    token,          \* the row: status, refresh token, access token still good
    integration,    \* status of the integration row
    issued,         \* number of refresh tokens issued so far
    spent,          \* refresh tokens Mercado Livre takes no more
    handler,        \* calls in progress
    faults,         \* failed calls and restarts so far
    wish,           \* history: what the user asked for last
    early,          \* history: calls in progress when the user was disconnected
    revived,        \* history: one of those has saved its token meanwhile
    torn,        \* history: a disconnect overlapped a save, or was cut short
    orphaned        \* history: refresh tokens renewed in vain

row == <<token, integration>>
history == <<wish, early, revived, torn, orphaned>>
vars == <<row, issued, spent, handler, faults, history>>

Status == {"none", "connected", "disconnected"}
Idle == [pc |-> "idle", seen |-> 0, got |-> 0, todo |-> {}]
HandlerType == [pc : {"idle", "renew", "exchange", "save", "disconnect"},
                seen : 0..MaxTokens, got : 0..MaxTokens,
                todo : SUBSET {"token", "integration"}]

Set(h, r) == handler' = [handler EXCEPT ![h] = r]

Init ==
    /\ token = [status |-> "none", refresh |-> 0, fresh |-> FALSE]
    /\ integration = "none"
    /\ issued = 0 /\ spent = {} /\ faults = 0
    /\ handler = [h \in Handlers |-> Idle]
    /\ wish = "none"
    /\ early = {} /\ revived = FALSE /\ torn = FALSE /\ orphaned = {}

-----------------------------------------------------------------------------
(* getValidAccessToken *)

Expire ==
    /\ token.fresh
    /\ token' = [token EXCEPT !.fresh = FALSE]
    /\ UNCHANGED <<integration, issued, spent, handler, faults, history>>

\* Mutant: an expired token is renewed whatever the status.
ReadTokenAnyStatus(h) ==
    /\ handler[h].pc = "idle"
    /\ token.status # "none" /\ ~token.fresh
    /\ Set(h, [Idle EXCEPT !.pc = "renew", !.seen = token.refresh])
    /\ UNCHANGED <<row, issued, spent, faults, history>>

\* The row is read.  Not connected is an error, and a good access token is
\* used as it is; both change nothing.
ReadToken(h) ==
    /\ handler[h].pc = "idle"
    /\ token.status = "connected" /\ ~token.fresh
    /\ Set(h, [Idle EXCEPT !.pc = "renew", !.seen = token.refresh])
    /\ UNCHANGED <<row, issued, spent, faults, history>>

\* Mutant: the answer is kept without its refresh token (a
\* number no token has).
RenewNoToken(h) ==
    /\ handler[h].pc = "renew" /\ issued < MaxTokens
    /\ issued' = issued + 1 /\ spent' = spent \cup {handler[h].seen}
    /\ Set(h, [handler[h] EXCEPT !.pc = "save", !.got = MaxTokens + 1])
    /\ UNCHANGED <<row, faults, wish, early, revived, torn, orphaned>>

\* api.refreshToken: refused if the refresh token has been used already.
Renew(h) ==
    /\ handler[h].pc = "renew"
    /\ LET seen == handler[h].seen
       IN  IF seen \in spent
           THEN /\ Set(h, Idle) /\ early' = early \ {h}
                /\ UNCHANGED <<issued, spent>>
           ELSE /\ issued < MaxTokens
                /\ issued' = issued + 1 /\ spent' = spent \cup {seen}
                /\ Set(h, [handler[h] EXCEPT !.pc = "save", !.got = issued + 1])
                /\ UNCHANGED early
    /\ UNCHANGED <<row, faults, wish, revived, torn, orphaned>>

-----------------------------------------------------------------------------
(* handleCallback *)

BeginCallback(h) ==
    /\ handler[h].pc = "idle"
    /\ Set(h, [Idle EXCEPT !.pc = "exchange"])
    /\ UNCHANGED <<row, issued, spent, faults, history>>

\* api.exchangeCode starts a new line of tokens.
ExchangeCode(h) ==
    /\ handler[h].pc = "exchange" /\ issued < MaxTokens
    /\ issued' = issued + 1
    /\ Set(h, [handler[h] EXCEPT !.pc = "save", !.got = issued + 1])
    /\ UNCHANGED <<row, spent, faults, history>>

-----------------------------------------------------------------------------

\* Mutants: the refresh token of a renewal is not kept; the integration row
\* is only created, its status never updated.
SaveTokenKeepsOld(h) ==
    /\ handler[h].pc = "save"
    /\ token' = [status |-> "connected", fresh |-> TRUE,
                 refresh |-> IF handler[h].seen = 0 THEN handler[h].got ELSE token.refresh]
    /\ integration' = "connected"
    /\ wish' = IF handler[h].seen = 0 THEN "connected" ELSE wish
    /\ revived' = (handler[h].seen # 0 /\ (revived \/ h \in early))
    /\ early' = early \ {h}
    /\ torn' = (torn \/ \E g \in Handlers : handler[g].pc = "disconnect")
    /\ Set(h, Idle)
    /\ UNCHANGED <<issued, spent, faults, orphaned>>
SaveTokenCreates(h) ==
    /\ handler[h].pc = "save"
    /\ token' = [status |-> "connected", fresh |-> TRUE, refresh |-> handler[h].got]
    /\ integration' = IF integration = "none" THEN "connected" ELSE integration
    /\ wish' = IF handler[h].seen = 0 THEN "connected" ELSE wish
    /\ revived' = (handler[h].seen # 0 /\ (revived \/ h \in early))
    /\ early' = early \ {h}
    /\ torn' = (torn \/ \E g \in Handlers : handler[g].pc = "disconnect")
    /\ Set(h, Idle)
    /\ UNCHANGED <<issued, spent, faults, orphaned>>

\* saveToken, for a renewal and for the callback (seen is 0) alike: both rows
\* in one transaction, with status connected.
SaveToken(h) ==
    /\ handler[h].pc = "save"
    /\ token' = [status |-> "connected", fresh |-> TRUE, refresh |-> handler[h].got]
    /\ integration' = "connected"
    /\ wish' = IF handler[h].seen = 0 THEN "connected" ELSE wish
    /\ revived' = (handler[h].seen # 0 /\ (revived \/ h \in early))
    /\ early' = early \ {h}
    /\ torn' = (torn \/ \E g \in Handlers : handler[g].pc = "disconnect")
    /\ Set(h, Idle)
    /\ UNCHANGED <<issued, spent, faults, orphaned>>

\* disconnect: the two updates are started together; it answers when both are
\* done.
Disconnect(h) ==
    /\ handler[h].pc = "idle"
    /\ Set(h, [Idle EXCEPT !.pc = "disconnect", !.todo = {"token", "integration"}])
    /\ UNCHANGED <<row, issued, spent, faults, history>>

MarkDisconnected(h, t) ==
    /\ handler[h].pc = "disconnect" /\ t \in handler[h].todo
    /\ token' = IF t = "token" /\ token.status # "none"
                THEN [token EXCEPT !.status = "disconnected"] ELSE token
    /\ integration' = IF t = "integration" /\ integration # "none"
                      THEN "disconnected" ELSE integration
    /\ IF handler[h].todo = {t}
       THEN /\ Set(h, Idle)
            /\ wish' = "disconnected"
            /\ early' = {g \in Handlers : handler[g].pc \in {"renew", "exchange", "save"}}
            /\ revived' = (token'.status = "connected")
       ELSE /\ Set(h, [handler[h] EXCEPT !.todo = @ \ {t}])
            /\ UNCHANGED <<wish, early, revived>>
    /\ UNCHANGED <<issued, spent, faults, torn, orphaned>>

\* A call fails, or the process restarts with this call in progress.
CallFails(h) ==
    /\ faults < MaxFaults /\ handler[h].pc # "idle"
    /\ faults' = faults + 1
    /\ orphaned' = IF handler[h].pc = "save" THEN orphaned \cup {handler[h].seen}
                   ELSE orphaned
    /\ torn' = (torn \/ handler[h].pc = "disconnect")
    /\ early' = early \ {h}
    /\ Set(h, Idle)
    /\ UNCHANGED <<row, issued, spent, wish, revived>>

Step(h) ==
    \/ ReadToken(h) \/ Renew(h) \/ BeginCallback(h) \/ ExchangeCode(h)
    \/ SaveToken(h) \/ Disconnect(h) \/ CallFails(h)
    \/ \E t \in {"token", "integration"} : MarkDisconnected(h, t)

Next == Expire \/ \E h \in Handlers : Step(h)

Spec == Init /\ [][Next]_vars
-----------------------------------------------------------------------------
(* Properties *)

TypeOK ==
    /\ token \in [status : Status, refresh : 0..MaxTokens, fresh : BOOLEAN]
    /\ integration \in Status
    /\ issued \in 0..MaxTokens /\ spent \subseteq 0..MaxTokens
    /\ handler \in [Handlers -> HandlerType]
    /\ faults \in 0..MaxFaults
    /\ wish \in Status /\ early \subseteq Handlers
    /\ revived \in BOOLEAN /\ torn \in BOOLEAN
    /\ orphaned \subseteq 0..MaxTokens

\* However renewals, callbacks and disconnects overlap, the refresh token of
\* the row can still be renewed, or its successor is about to be saved, or was
\* lost by a failure between the renewal and the save.
TokenUsable ==
    token.status # "none" =>
        \/ token.refresh \notin spent
        \/ \E h \in Handlers : handler[h].pc = "save" /\ handler[h].seen = token.refresh
        \/ token.refresh \in orphaned

\* A user who has disconnected and not connected again is connected only by a
\* renewal or callback that was in progress at the time of the disconnect.
DisconnectSticks ==
    token.status = "connected" /\ wish = "disconnected" => revived

\* The token row and the integration row say the same when nothing is in
\* progress, unless a token was saved during a disconnect, or one was cut short.
RowsAgree ==
    ~torn /\ (\A h \in Handlers : handler[h].pc # "disconnect")
        => token.status = integration
=============================================================================
