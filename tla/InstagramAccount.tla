-------------------------- MODULE InstagramAccount ---------------------------
(***************************************************************************)
(* The Instagram connection of one company: OAuth callback, token import,  *)
(* disconnection (instagram.service.ts), and the sending of messages with  *)
(* the renewal of the token on the way and the flagging of the account     *)
(* when Meta refuses it (instagram-send.service.ts).  The credentials are  *)
(* kept twice, in IntegrationAccount and Integration, with the company's   *)
(* id a third time; only the callback and the disconnection write them in  *)
(* one transaction.  Meta knows a business by two ids: the one OAuth       *)
(* returns and the one webhooks name as recipient.                         *)
(*                                                                         *)
(* Signatures, URLs and scopes of the OAuth dialogue, the encryption of    *)
(* tokens and the debug endpoints are left out.                            *)
(***************************************************************************)
EXTENDS Naturals, FiniteSets

CONSTANTS
    Connectors,     \* callbacks and imports at a time
    Senders,        \* sends at a time
    MaxIgTokens     \* bound on tokens Meta issues, numbered

ASSUME InstagramAccountAssumption == MaxIgTokens \in Nat \ {0}

VARIABLES
    account,        \* IntegrationAccount
    igRow,          \* Integration
    companyIg,      \* Company.instagramAccountId
    age,            \* of the tokens, at Meta: their expiry is stored with them
    revoked,        \* tokens Meta no longer accepts
    heard,          \* ids in stored conversations and events: business, customer
    igCall,         \* calls in progress
    excused,        \* history: the account was flagged by a call that had loaded
                    \* an earlier token
    quiet           \* history: disconnected while nothing was in progress

accountVars == <<account, igRow, companyIg, age, revoked, heard, igCall,
                 excused, quiet>>
igRows == <<account, igRow, companyIg>>

-----------------------------------------------------------------------------

OAuthId == "oauth"
WebhookId == "webhook"
CustomerId == "customer"
Ids == {OAuthId, WebhookId, CustomerId}
NoId == "none"

Tokens == 1..MaxIgTokens
NoToken == 0
Flagged == {"token_expired", "reconnect_required"}     \* isReconnectRequiredStatus
Statuses == {"none", "connected", "disconnected"} \cup Flagged

IgCallers == Connectors \cup Senders

AccountType == [status : Statuses, token : Tokens \cup {NoToken}, ids : SUBSET {OAuthId, WebhookId}]
IntegrationType ==
    [status : Statuses, token : Tokens \cup {NoToken}, externalId : Ids \cup {NoId}]
Pcs == {"idle", "exchange", "read", "commit", "upsert", "mirror", "load", "refresh",
        "save", "post", "flag"}
CallType ==
    [pc : Pcs, token : Tokens \cup {NoToken}, known : SUBSET Ids, flag : Flagged,
     todo : SUBSET {"account", "integration", "company"}, expired : BOOLEAN, stale : BOOLEAN]
NoIgCall == [pc |-> "idle", token |-> NoToken, known |-> {}, flag |-> "token_expired",
           todo |-> {}, expired |-> FALSE, stale |-> FALSE]

Active == account.status \notin {"none", "disconnected"}
Dead(t) == t \in revoked \/ age[t] = "expired"
Set2(c, r) == igCall' = [igCall EXCEPT ![c] = r]

\* The account has been read.
Loaded == {"commit", "refresh", "save", "post", "flag"}

\* A new token in the account makes what others have loaded stale.
TokenStored(c, r) ==
    /\ igCall' = [d \in IgCallers |->
         IF d = c THEN r
         ELSE [igCall[d] EXCEPT !.stale = @ \/ igCall[d].pc \in Loaded]]
    /\ excused' = FALSE

AccountInit ==
    /\ account = [status |-> "none", token |-> NoToken, ids |-> {}]
    /\ igRow = [status |-> "none", token |-> NoToken, externalId |-> NoId]
    /\ companyIg = NoId
    /\ age = [t \in Tokens |-> "unborn"]
    /\ revoked = {} /\ heard = {}
    /\ igCall = [c \in IgCallers |-> NoIgCall]
    /\ excused = FALSE /\ quiet = FALSE

-----------------------------------------------------------------------------
(* Meta: a token is fresh, expires within seven days, has expired, is revoked *)

Mint(t, ages) ==
    /\ \A u \in Tokens : (age[u] = "unborn") <=> u >= t
    /\ \E a \in ages : age' = [age EXCEPT ![t] = a]

TokenExpires(t) ==
    /\ age[t] \in {"fresh", "near"}
    /\ age' = [age EXCEPT ![t] = IF age[t] = "fresh" THEN "near" ELSE "expired"]
    /\ UNCHANGED <<igRows, revoked, heard, igCall, excused, quiet>>

Revoke(t) ==
    /\ age[t] \in {"fresh", "near"} /\ t \notin revoked
    /\ revoked' = revoked \cup {t}
    /\ UNCHANGED <<igRows, age, heard, igCall, excused, quiet>>

-----------------------------------------------------------------------------
(* Which company a webhook is for *)

\* shouldRejectCustomerCandidate: an id customers have written from.
CustomerIds == heard \cap {CustomerId}

\* resolveAccountForWebhookDetailed: some candidate is an id of the account, or of
\* the other rows unless it is known to be a customer's.
ResolvesTo(candidates) ==
    /\ Active
    /\ \E i \in candidates :
         \/ i \in account.ids
         \/ /\ i = companyIg \/ (i = igRow.externalId /\ igRow.status # "disconnected")
            /\ i \notin CustomerIds

\* A message names the webhook id as recipient and either id in its entry.  What
\* resolves is stored with all of them, and the customer's.
MessageComes ==
    /\ \E entry \in {OAuthId, WebhookId} :
         /\ ResolvesTo({WebhookId, entry})
         /\ heard' = heard \cup {WebhookId, entry, CustomerId}
    /\ UNCHANGED <<igRows, age, revoked, igCall, excused, quiet>>

-----------------------------------------------------------------------------
(* Connecting *)

BeginAccount(c, pc) ==
    /\ igCall[c].pc = "idle"
    /\ Set2(c, [NoIgCall EXCEPT !.pc = pc])
    /\ quiet' = FALSE
    /\ UNCHANGED <<igRows, age, revoked, heard, excused>>

\* exchangeCodeForToken and exchangeForLongLivedToken, whose failure leaves the
\* short-lived token, one hour from its end.
Exchange(c) ==
    /\ igCall[c].pc = "exchange"
    /\ \E t \in Tokens :
         /\ Mint(t, {"fresh", "near"})
         /\ Set2(c, [igCall[c] EXCEPT !.pc = "read", !.token = t])
    /\ UNCHANGED <<igRows, revoked, heard, excused, quiet>>

\* handleOAuthCallback: the ids of the account, of conversations and of events,
\* without those of customers.
KnownIds == (account.ids \cup heard \cup {OAuthId}) \ CustomerIds

ReadExisting(c) ==
    /\ igCall[c].pc = "read"
    /\ Set2(c, [igCall[c] EXCEPT !.pc = "commit", !.known = KnownIds, !.stale = FALSE])
    /\ UNCHANGED <<igRows, age, revoked, heard, excused, quiet>>

\* The webhook id goes before the one OAuth returns.
PrimaryId(ids) == IF WebhookId \in ids THEN WebhookId ELSE OAuthId

CommitCallback(c) ==
    /\ igCall[c].pc = "commit"
    /\ LET t == igCall[c].token
           ids == igCall[c].known
       IN  /\ account' = [status |-> "connected", token |-> t, ids |-> ids]
           /\ igRow' = [status |-> "connected", token |-> t,
                              externalId |-> PrimaryId(ids)]
           /\ companyIg' = PrimaryId(ids)
    /\ TokenStored(c, NoIgCall)
    /\ UNCHANGED <<age, revoked, heard, quiet>>

\* importToken: an account that is disconnected is not read.
ImportToken(c) ==
    /\ igCall[c].pc = "upsert"
    /\ \E t \in Tokens :
         /\ Mint(t, {"fresh", "near"})
         /\ account' = [status |-> "connected", token |-> t,
                        ids |-> ((IF Active THEN account.ids ELSE {}) \cup {OAuthId})
                                  \ CustomerIds]
         /\ TokenStored(c, [igCall[c] EXCEPT !.pc = "mirror", !.token = t,
                                           !.todo = {"integration", "company"}])
    /\ UNCHANGED <<igRow, companyIg, revoked, heard, quiet>>

\* Two writes started together, not in one transaction with the first.
MirrorImport(c, what) ==
    /\ igCall[c].pc = "mirror" /\ what \in igCall[c].todo
    /\ igRow' = IF what = "integration"
         THEN [status |-> "connected", token |-> igCall[c].token, externalId |-> OAuthId]
         ELSE igRow
    /\ companyIg' = IF what = "company" THEN OAuthId ELSE companyIg
    /\ Set2(c, IF igCall[c].todo = {what} THEN NoIgCall
               ELSE [igCall[c] EXCEPT !.todo = @ \ {what}])
    /\ UNCHANGED <<account, age, revoked, heard, excused, quiet>>

\* Mutant: only the account is disconnected.
DisconnectAccount ==
    /\ account.status # "none"
    /\ account' = [account EXCEPT !.status = "disconnected", !.token = NoToken]
    /\ quiet' = (\A c \in IgCallers : igCall[c].pc = "idle")
    /\ UNCHANGED <<igRow, companyIg, age, revoked, heard, igCall, excused>>

DisconnectIg ==
    /\ account.status # "none"
    /\ account' = [account EXCEPT !.status = "disconnected", !.token = NoToken]
    /\ igRow' = [igRow EXCEPT !.status = "disconnected", !.token = NoToken]
    /\ quiet' = (\A c \in IgCallers : igCall[c].pc = "idle")
    /\ UNCHANGED <<companyIg, age, revoked, heard, igCall, excused>>

-----------------------------------------------------------------------------
(* Sending *)

BeginSend(c) ==
    /\ igCall[c].pc = "idle"
    /\ Set2(c, [NoIgCall EXCEPT !.pc = "load"])
    /\ UNCHANGED <<igRows, age, revoked, heard, excused, quiet>>

\* The writes of markAccountReconnectRequired come next.
Flagging(c, status) ==
    [igCall[c] EXCEPT !.pc = "flag", !.token = NoToken, !.expired = FALSE, !.flag = status,
                    !.todo = {"account", "integration"}]

\* loadSendCredentials and the checks before the call.  Without an active account
\* the Integration row serves, of which no expiry is known; without either the
\* message is refused.
LoadCredentials(c) ==
    /\ igCall[c].pc = "load"
    /\ LET token == IF Active THEN account.token ELSE igRow.token
           loaded == [igCall[c] EXCEPT !.token = token, !.stale = FALSE]
       IN  Set2(c,
             IF ~Active /\ igRow.status \in {"none", "disconnected"} THEN NoIgCall
             ELSE IF token = NoToken
             THEN [Flagging(c, "reconnect_required") EXCEPT !.stale = FALSE]
             ELSE IF Active /\ account.status \in Flagged
             THEN [Flagging(c, "token_expired") EXCEPT !.stale = FALSE]
             ELSE IF Active /\ age[token] \in {"near", "expired"}
             THEN [loaded EXCEPT !.pc = "refresh", !.expired = age[token] = "expired"]
             ELSE [loaded EXCEPT !.pc = "post"])
    /\ UNCHANGED <<igRows, age, revoked, heard, excused, quiet>>

\* refreshToken: Meta renews a token that is still good.  A refusal, or any
\* failure if the token has expired, flags the account.
Refresh(c) ==
    /\ igCall[c].pc = "refresh"
    /\ \/ /\ ~Dead(igCall[c].token)
          /\ \E t \in Tokens :
               /\ Mint(t, {"fresh"})
               /\ Set2(c, [igCall[c] EXCEPT !.pc = "save", !.token = t,
                                          !.expired = FALSE, !.todo = {"account", "integration"}])
       \/ /\ Set2(c, IF igCall[c].expired \/ age[igCall[c].token] = "expired"
                     THEN Flagging(c, "token_expired")
                     ELSE IF igCall[c].token \in revoked
                     THEN Flagging(c, "reconnect_required")
                     ELSE NoIgCall)
          /\ UNCHANGED age
    /\ UNCHANGED <<igRows, revoked, heard, excused, quiet>>

Done(c, what, pc) ==
    IF igCall[c].todo # {what} THEN [igCall[c] EXCEPT !.todo = @ \ {what}]
    ELSE IF pc = "idle" THEN NoIgCall ELSE [igCall[c] EXCEPT !.todo = {}, !.pc = pc]

\* Mutant: the new token is stored whatever the account's status is.
SaveRefreshedAlways(c, what) ==
    /\ igCall[c].pc = "save" /\ what \in igCall[c].todo
    /\ IF what = "account"
       THEN /\ account' = [account EXCEPT !.status = "connected", !.token = igCall[c].token]
            /\ TokenStored(c, Done(c, what, "post"))
            /\ UNCHANGED igRow
       ELSE /\ igRow' =
                 [igRow EXCEPT !.status = "connected", !.token = igCall[c].token]
            /\ Set2(c, Done(c, what, "post"))
            /\ UNCHANGED <<account, excused>>
    /\ UNCHANGED <<companyIg, age, revoked, heard, quiet>>

\* Two updates started together.  A disconnected account is left alone; the
\* Integration row is not.
SaveRefreshed(c, what) ==
    /\ igCall[c].pc = "save" /\ what \in igCall[c].todo
    /\ IF what = "account" /\ Active
       THEN /\ account' = [account EXCEPT !.status = "connected", !.token = igCall[c].token]
            /\ TokenStored(c, Done(c, what, "post"))
       ELSE /\ Set2(c, Done(c, what, "post"))
            /\ UNCHANGED <<account, excused>>
    /\ igRow' = IF what = "integration"
         THEN [igRow EXCEPT !.status = "connected", !.token = igCall[c].token]
         ELSE igRow
    /\ UNCHANGED <<companyIg, age, revoked, heard, quiet>>

\* Mutant: a call that failed for any reason flags the account.
PostFlagsAll(c) ==
    /\ igCall[c].pc = "post"
    /\ \/ ~Dead(igCall[c].token) /\ Set2(c, NoIgCall)
       \/ Set2(c, Flagging(c, "token_expired"))
    /\ UNCHANGED <<igRows, age, revoked, heard, excused, quiet>>

\* The message is accepted, or refused for another reason, or for its token.
Post(c) ==
    /\ igCall[c].pc = "post"
    /\ Set2(c, IF igCall[c].token \in revoked THEN Flagging(c, "reconnect_required")
               ELSE IF age[igCall[c].token] = "expired" THEN Flagging(c, "token_expired")
               ELSE NoIgCall)
    /\ UNCHANGED <<igRows, age, revoked, heard, excused, quiet>>

\* markAccountReconnectRequired: a disconnected account is left alone, the
\* Integration row is not.  Whether the token is still the one that failed is not
\* asked.
FlagAccount(c, what) ==
    /\ igCall[c].pc = "flag" /\ what \in igCall[c].todo
    /\ account' = IF what = "account" /\ Active
         THEN [account EXCEPT !.status = igCall[c].flag] ELSE account
    /\ excused' = (excused \/ (what = "account" /\ Active /\ igCall[c].stale))
    /\ igRow' = IF what = "integration" /\ igRow.status # "none"
         THEN [igRow EXCEPT !.status = igCall[c].flag] ELSE igRow
    /\ Set2(c, Done(c, what, "idle"))
    /\ UNCHANGED <<companyIg, age, revoked, heard, quiet>>

\* A write fails or the process restarts: the call ends where it is.
CallEnds(c) ==
    /\ igCall[c].pc # "idle"
    /\ Set2(c, NoIgCall)
    /\ UNCHANGED <<igRows, age, revoked, heard, excused, quiet>>

-----------------------------------------------------------------------------

AccountNext ==
    \/ \E t \in Tokens : TokenExpires(t) \/ Revoke(t)
    \/ MessageComes \/ DisconnectIg
    \/ \E c \in Connectors :
         \/ \E pc \in {"exchange", "upsert"} : BeginAccount(c, pc)
         \/ Exchange(c) \/ ReadExisting(c) \/ CommitCallback(c) \/ ImportToken(c)
         \/ \E what \in {"integration", "company"} : MirrorImport(c, what)
    \/ \E c \in Senders :
         \/ BeginSend(c) \/ LoadCredentials(c) \/ Refresh(c) \/ Post(c)
         \/ \E what \in {"account", "integration"} :
              SaveRefreshed(c, what) \/ FlagAccount(c, what)
    \/ \E c \in IgCallers : CallEnds(c)

AccountSpec == AccountInit /\ [][AccountNext]_accountVars
-----------------------------------------------------------------------------
(* Properties *)

\* Types of the rows of the Instagram connection; in particular an id customers
\* write from never becomes one of the account's.
AccountTypeOK ==
    /\ account \in AccountType /\ igRow \in IntegrationType
    /\ companyIg \in Ids \cup {NoId}
    /\ age \in [Tokens -> {"unborn", "fresh", "near", "expired"}]
    /\ revoked \subseteq Tokens /\ heard \subseteq Ids
    /\ igCall \in [IgCallers -> CallType]
    /\ {excused, quiet} \subseteq BOOLEAN

\* An account asks to be reconnected only if Meta refuses its token or the token
\* has expired, unless a send that had loaded an earlier token failed late and
\* flagged the account that was reconnected or renewed meanwhile.
FlagIsDeserved ==
    account.status \in Flagged => excused \/ Dead(account.token)

\* Once an account is disconnected while nothing is in progress, no message is
\* sent and no token renewed until it is connected again.  (A renewal in
\* progress writes its token into the disconnected Integration row, which
\* loadSendCredentials then falls back to.)
DisconnectHolds ==
    quiet => \A c \in IgCallers : igCall[c].pc \notin {"refresh", "save", "post"}

\* A disconnected account becomes active again only by a callback or an import,
\* whatever renewals and late failures are still on their way.
OnlyConnectingConnects ==
    [][account.status = "disconnected" /\ account'.status # "disconnected" =>
         \E c \in IgCallers : igCall[c].pc \in {"commit", "upsert"}]_accountVars

\* The account is what Meta and the user have made of it: flagged only if its token is
\* refused, and silent once it was disconnected.
StatusIsEarned == FlagIsDeserved /\ DisconnectHolds
=============================================================================
