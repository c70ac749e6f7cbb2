------------------------------- MODULE Sessions --------------------------------
(***************************************************************************)
(* Signing in and out of one person's account (auth.service.ts), its       *)
(* deletion and its companies (user.service.ts, companies.service.ts).  A  *)
(* sign-in issues a refresh token, which a renewal looks up, revokes and   *)
(* replaces in three queries; renewals of several tabs may overlap.        *)
(*                                                                         *)
(* Passwords, signatures and profiles are not modelled: a call that they   *)
(* refuse changes nothing.                                                 *)
(***************************************************************************)
EXTENDS Naturals, FiniteSets

CONSTANTS
    SessionCalls,   \* calls in progress at a time
    Companies,      \* companies the person may make
    MaxTokens,      \* bound on tokens made
    MaxOverlaps,    \* bound on renewals of a sign-in that find a token held
    MaxAccounts     \* bound on accounts made one after the other

ASSUME SessionsAssumption ==
    {MaxTokens, MaxOverlaps, MaxAccounts} \subseteq Nat /\ IsFiniteSet(SessionCalls)

VARIABLES
    account,    \* the User row
    owned,      \* companies with the person as owner
    others,     \* companies that nobody owns any more
    tokens,     \* RefreshToken rows, by their number
    made,       \* tokens made so far
    auth,       \* calls in progress
    overlaps,   \* history: per sign-in, renewals that found a token another one held
    out         \* history: sign-ins ended with a token that no renewal had looked up

companyVars == <<owned, others>>
sessionHistory == <<overlaps, out>>
sessionVars == <<account, companyVars, tokens, made, auth, sessionHistory>>

-----------------------------------------------------------------------------

Nobody == 0
AuthPcs == {"idle", "create", "link", "revoke", "issue", "remove"}
AuthIdle == [pc |-> "idle", token |-> Nobody, root |-> Nobody, google |-> FALSE,
             company |-> "none", user |-> Nobody]
NoToken == [root |-> Nobody, live |-> FALSE]

LiveTokens(root) == {t \in 1..MaxTokens : tokens[t].live /\ tokens[t].root = root}

\* A renewal has looked the token up and not revoked it yet.
Held(t) == \E c \in SessionCalls : auth[c].pc = "revoke" /\ auth[c].token = t

AuthGo(c, call) == auth' = [auth EXCEPT ![c] = call]
AuthEnds(c) == AuthGo(c, AuthIdle)

\* The number tells the accounts apart that followed each other under one e-mail.
SessionsInit ==
    /\ account = [user |-> Nobody, count |-> 0, google |-> FALSE, company |-> "none"]
    /\ owned = {} /\ others = {}
    /\ tokens = [t \in 1..MaxTokens |-> NoToken]
    /\ made = 0
    /\ auth = [c \in SessionCalls |-> AuthIdle]
    /\ overlaps = [t \in 1..MaxTokens |-> 0]
    /\ out = {}

-----------------------------------------------------------------------------
(* Signing in *)

\* register: the e-mail is looked up as it was typed and stored in lower case, so that
\* an account may exist that the look-up does not find.
BeginRegister(c) ==
    /\ auth[c].pc = "idle"
    /\ AuthGo(c, [AuthIdle EXCEPT !.pc = "create"])
    /\ UNCHANGED <<account, companyVars, tokens, made, sessionHistory>>

\* login.
BeginLogin(c) ==
    /\ auth[c].pc = "idle" /\ account.user # Nobody
    /\ AuthGo(c, [AuthIdle EXCEPT !.pc = "issue", !.user = account.user])
    /\ UNCHANGED <<account, companyVars, tokens, made, sessionHistory>>

\* validateGoogleUser: by the Google id, else by the e-mail, else a new account.
BeginGoogle(c) ==
    /\ auth[c].pc = "idle"
    /\ AuthGo(c, [AuthIdle EXCEPT
         !.google = TRUE, !.user = account.user,
         !.pc = IF account.user = Nobody THEN "create"
                ELSE IF account.google THEN "issue" ELSE "link"])
    /\ UNCHANGED <<account, companyVars, tokens, made, sessionHistory>>

\* The Google id is stored on the account that was found; an error is ignored.
LinkGoogle(c) ==
    /\ auth[c].pc = "link"
    /\ account' \in {account} \cup
         (IF account.user = auth[c].user THEN {[account EXCEPT !.google = TRUE]} ELSE {})
    /\ AuthGo(c, [auth[c] EXCEPT !.pc = "issue"])
    /\ UNCHANGED <<companyVars, tokens, made, sessionHistory>>

\* User, company and their link in one transaction, which the unique e-mail or slug
\* refuses to all but the first.
CreateAccount(c) ==
    /\ auth[c].pc = "create" /\ account.count < MaxAccounts
    /\ \E k \in Companies :
         IF account.user = Nobody /\ k \notin owned \cup others
         THEN /\ account' = [user |-> account.count + 1, count |-> account.count + 1,
                             google |-> auth[c].google, company |-> k]
              /\ owned' = owned \cup {k}
              /\ AuthGo(c, [auth[c] EXCEPT !.pc = "issue", !.user = account.count + 1])
         ELSE AuthEnds(c) /\ UNCHANGED <<account, owned>>
    /\ UNCHANGED <<others, tokens, made, sessionHistory>>

\* issueTokens and persistRefreshToken: the row needs its user; a table that is not
\* there yet ends the sign-in without a refresh token.
Issue(c) ==
    /\ auth[c].pc = "issue"
    /\ \/ UNCHANGED <<tokens, made>>
       \/ /\ account.user = auth[c].user /\ made < MaxTokens
          /\ made' = made + 1
          /\ tokens' = [tokens EXCEPT ![made + 1] =
               [root |-> IF auth[c].root = Nobody THEN made + 1 ELSE auth[c].root,
                live |-> TRUE]]
    /\ AuthEnds(c)
    /\ UNCHANGED <<account, companyVars, sessionHistory>>

-----------------------------------------------------------------------------
(* Renewals *)

Looked(c, t) ==
    LET root == tokens[t].root
    IN  /\ AuthGo(c, [AuthIdle EXCEPT !.pc = "revoke", !.token = t, !.root = root,
                                      !.user = account.user])
        /\ Held(t) => overlaps[root] < MaxOverlaps
        /\ overlaps' = [overlaps EXCEPT ![root] = IF Held(t) THEN @ + 1 ELSE @]

\* Mutant: a token that was revoked is found too.
LookupRevoked(c, t) ==
    /\ auth[c].pc = "idle" /\ t <= made /\ account.user # Nobody
    /\ Looked(c, t)
    /\ UNCHANGED <<account, companyVars, tokens, made, out>>

\* refresh: the token's row and its user.
Lookup(c, t) ==
    /\ auth[c].pc = "idle" /\ tokens[t].live /\ account.user # Nobody
    /\ Looked(c, t)
    /\ UNCHANGED <<account, companyVars, tokens, made, out>>

\* By the row's id, whether it has been revoked meanwhile or not; a row that is gone
\* ends the call.
Revoke(c) ==
    /\ auth[c].pc = "revoke"
    /\ IF account.user = auth[c].user
       THEN /\ tokens' = [tokens EXCEPT ![auth[c].token].live = FALSE]
            /\ AuthGo(c, [auth[c] EXCEPT !.pc = "issue"])
       ELSE AuthEnds(c) /\ UNCHANGED tokens
    /\ UNCHANGED <<account, companyVars, made, sessionHistory>>

\* A token expires after thirty days.
Expire(t) ==
    /\ tokens[t].live
    /\ tokens' = [tokens EXCEPT ![t].live = FALSE]
    /\ UNCHANGED <<account, companyVars, made, auth, sessionHistory>>

-----------------------------------------------------------------------------
(* Signing out and leaving *)

\* A renewal that has looked the token up issues the next one all the same: such a
\* sign-out ends the token and not the sign-in.
SignedOut(t) == out' = IF Held(t) THEN out ELSE out \cup {tokens[t].root}

\* Mutant: only the tokens of a user that is known, which a public route never has.
LogoutKnown(t) ==
    /\ tokens[t].live
    /\ SignedOut(t)
    /\ UNCHANGED <<account, companyVars, tokens, made, auth, overlaps>>

\* logout with a refresh token; without one the route, which is public and knows no
\* user, changes nothing.
Logout(t) ==
    /\ tokens[t].live
    /\ tokens' = [tokens EXCEPT ![t].live = FALSE]
    /\ SignedOut(t)
    /\ UNCHANGED <<account, companyVars, made, auth, overlaps>>

\* deleteAccount: the companies lose their owner, the tokens go with the user.
DeleteAccount ==
    /\ account.user # Nobody
    /\ account' = [account EXCEPT !.user = Nobody, !.google = FALSE, !.company = "none"]
    /\ owned' = {} /\ others' = others \cup owned
    /\ tokens' = [t \in 1..MaxTokens |-> [tokens[t] EXCEPT !.live = FALSE]]
    /\ UNCHANGED <<made, auth, sessionHistory>>

-----------------------------------------------------------------------------
(* Companies *)

\* create: the person owns it, and goes on in the company linked before.
CreateCompany(k) ==
    /\ account.user # Nobody /\ k \notin owned \cup others
    /\ owned' = owned \cup {k}
    /\ UNCHANGED <<account, others, tokens, made, auth, sessionHistory>>

\* ActiveCompanyGuard, and the look-up of findAll and remove: the companies a person
\* owns or is linked to.
MayEnter(k) == account.user # Nobody /\ (k \in owned \/ k = account.company)

BeginRemove(c, k) ==
    /\ auth[c].pc = "idle" /\ MayEnter(k)
    /\ AuthGo(c, [AuthIdle EXCEPT !.pc = "remove", !.company = k])
    /\ UNCHANGED <<account, companyVars, tokens, made, sessionHistory>>

\* remove: the links to the company and the company, in one transaction.
RemoveCompany(c) ==
    /\ auth[c].pc = "remove"
    /\ LET k == auth[c].company
       IN  /\ account' = IF account.company = k /\ k \in owned \cup others
                         THEN [account EXCEPT !.company = "none"] ELSE account
           /\ owned' = owned \ {k} /\ others' = others \ {k}
    /\ AuthEnds(c)
    /\ UNCHANGED <<tokens, made, sessionHistory>>

\* A query fails or the process restarts.
AuthFails(c) ==
    /\ auth[c].pc # "idle"
    /\ AuthEnds(c)
    /\ UNCHANGED <<account, companyVars, tokens, made, sessionHistory>>

SessionsNext ==
    \/ \E c \in SessionCalls :
         \/ BeginRegister(c) \/ BeginLogin(c) \/ BeginGoogle(c) \/ LinkGoogle(c)
         \/ CreateAccount(c) \/ Issue(c) \/ Revoke(c) \/ RemoveCompany(c) \/ AuthFails(c)
         \/ \E t \in 1..MaxTokens : Lookup(c, t)
         \/ \E k \in Companies : BeginRemove(c, k)
    \/ \E t \in 1..MaxTokens : Expire(t) \/ Logout(t)
    \/ DeleteAccount
    \/ \E k \in Companies : CreateCompany(k)

SessionsSpec == SessionsInit /\ [][SessionsNext]_sessionVars
-----------------------------------------------------------------------------
(* Properties *)

\* Types of the account, its companies, tokens and calls.
SessionsTypeOK ==
    /\ account.user \in 0..account.count /\ account.company \in Companies \cup {"none"}
    /\ owned \subseteq Companies /\ others \subseteq Companies /\ owned \cap others = {}
    /\ made \in 0..MaxTokens /\ overlaps \in [1..MaxTokens -> 0..MaxOverlaps]
    /\ tokens \in [1..MaxTokens -> [root : 0..MaxTokens, live : BOOLEAN]]
    /\ \A c \in SessionCalls : auth[c].pc \in AuthPcs
    /\ out \subseteq 1..MaxTokens

\* However renewals, sign-outs, failures and the account's deletion interleave, a
\* sign-in keeps one usable refresh token, and none once it was signed out with a token
\* that no renewal had looked up, save one more for each renewal that looked a token up
\* while another one held it.  A sign-out in the middle of a renewal of its token is not
\* among those that end the sign-in: refresh looks at revokedAt before it revokes and
\* issues, so that the next token comes out after the sign-out.
OneTokenPerSignIn ==
    \A root \in 1..MaxTokens :
        Cardinality(LiveTokens(root)) <= (IF root \in out THEN 0 ELSE 1) + overlaps[root]
=============================================================================
