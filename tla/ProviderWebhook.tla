---------------------------- MODULE ProviderWebhook ----------------------------
(***************************************************************************)
(* The webhook through which the Evolution server reports a WhatsApp       *)
(* connection (whatsapp-connections.service.ts): what the connection's row *)
(* says of it and what the server has, through connections, repairs and    *)
(* disconnections, deployments under another address and changes made at   *)
(* the server.  To spare requests a connection trusts its row, which holds *)
(* a hash of the address and the events last configured.                   *)
(*                                                                         *)
(* One operation at a time: the lock that keeps them apart is the subject  *)
(* of WhatsappConnection.  The server is external; a request that fails    *)
(* may have been carried out.                                              *)
(***************************************************************************)
EXTENDS Naturals, FiniteSets

CONSTANTS
    HookNames,      \* instance names: the generated one and a requested one
    MaxBases,       \* bound on addresses of this program, one per deployment
    MaxTroubles     \* bound on failures and changes from outside

ASSUME ProviderWebhookAssumption == MaxBases \in Nat \ {0} /\ MaxTroubles \in Nat

VARIABLES
    hookRow,        \* the connection's row: name, address, claims about the webhook
    server,         \* the instances on the server with the address they report to
    base,           \* BACKEND_URL of the current deployment
    hookOp,         \* the operation in progress
    cooling,        \* providerActionCooldowns that have not run out
    unsure,         \* history: instances changed from outside, or by a request that
                    \* failed, since this program last saw or set their webhook
    troubles        \* failures and outside changes so far

providerWebhookVars == <<hookRow, server, base, hookOp, cooling, unsure, troubles>>

-----------------------------------------------------------------------------

NoUrl == <<>>
Elsewhere == <<"elsewhere">>
HookUrl(n, b) == <<n, b>>
Urls == {HookUrl(n, b) : n \in HookNames, b \in 1..MaxBases}

\* Mutant: a hash of the events only.
HashOfEvents(url) == NoUrl

\* hashWebhookConfig; the events are constant.
HashOf(url) == url

\* The row's claim, which ensureWebhookIfMissing trusts.
Trusted(r, url) == r.enabled /\ r.url = url /\ r.hash = HashOf(url) /\ ~r.error

NoHookOp == [kind |-> "none", pc |-> "idle", name |-> "", url |-> NoUrl, recent |-> FALSE, ends |-> "none"]

\* An operation's claim at its end: "ensured", or "skipped" without having looked.
HookDone(claim) == hookOp' = [hookOp EXCEPT !.pc = "done", !.ends = claim]
HookGoes(pc) == hookOp' = [hookOp EXCEPT !.pc = pc]

\* After ensureWebhookIfMissing has thrown: a connection fails, a repair goes on.
HookGivesUp == HookDone("failed")

NoInstance == [exists |-> FALSE, hook |-> NoUrl]

ProviderWebhookInit ==
    /\ hookRow = [exists |-> FALSE, name |-> "", url |-> NoUrl, enabled |-> FALSE, hash |-> NoUrl,
                  error |-> FALSE, recent |-> FALSE]
    /\ server = [n \in HookNames |-> NoInstance]
    /\ base = 1 /\ hookOp = NoHookOp /\ cooling = {} /\ unsure = {} /\ troubles = 0

-----------------------------------------------------------------------------
(* connect *)

\* The row takes the name and the address at once, and keeps its claims.
PrepareHook(n) ==
    /\ hookOp.pc = "idle"
    /\ hookRow' = [hookRow EXCEPT !.exists = TRUE, !.name = n, !.url = HookUrl(n, base)]
    /\ hookOp' = [NoHookOp EXCEPT !.kind = "connect", !.pc = "find", !.name = n, !.url = HookUrl(n, base)]
    /\ UNCHANGED <<server, base, cooling, unsure, troubles>>

\* findRemoteInstance; creating an instance has a cooldown of its own.
FindRemote ==
    /\ hookOp.pc = "find"
    /\ IF server[hookOp.name].exists THEN HookGoes("ensure") /\ UNCHANGED cooling
       ELSE IF "create" \in cooling THEN HookGivesUp /\ UNCHANGED cooling
       ELSE HookGoes("create") /\ cooling' = cooling \cup {"create"}
    /\ UNCHANGED <<hookRow, server, base, unsure, troubles>>

MakeRemote(n, url) == server' = [server EXCEPT ![n] = [exists |-> TRUE, hook |-> url]]

\* createInstance, with the webhook; an instance that exists by now is used as it is.
CreateInstance ==
    /\ hookOp.pc = "create"
    /\ IF server[hookOp.name].exists THEN HookGoes("ensure") /\ UNCHANGED <<server, unsure>>
       ELSE /\ MakeRemote(hookOp.name, hookOp.url) /\ HookGoes("mark")
            /\ unsure' = unsure \ {hookOp.name}
    /\ UNCHANGED <<hookRow, base, cooling, troubles>>

Claimed == [hookRow EXCEPT !.url = hookOp.url, !.enabled = TRUE, !.error = FALSE,
                           !.hash = HashOf(hookOp.url)]

MarkProvisioned ==
    /\ hookOp.pc = "mark"
    /\ hookRow' = [Claimed EXCEPT !.recent = TRUE]
    /\ HookDone("ensured")
    /\ UNCHANGED <<server, base, cooling, unsure, troubles>>

-----------------------------------------------------------------------------
(* ensureWebhookIfMissing *)

EnsureReads ==
    /\ hookOp.pc = "ensure"
    /\ IF Trusted(hookRow, hookOp.url) THEN HookDone("ensured")
       ELSE hookOp' = [hookOp EXCEPT !.pc = "get", !.recent = hookRow.recent]
    /\ UNCHANGED <<hookRow, server, base, cooling, unsure, troubles>>

\* Without the webhook at the server, or without an answer, it is set, unless it was
\* tried within the cooldown, with success or without.
Settles == IF hookOp.recent THEN HookDone("skipped") ELSE HookGoes("set")

\* Mutant: a webhook to any address will do.
GetWebhookAny ==
    /\ hookOp.pc = "get"
    /\ IF server[hookOp.name].hook # NoUrl
       THEN HookGoes("seen") /\ unsure' = unsure \ {hookOp.name}
       ELSE Settles /\ UNCHANGED unsure
    /\ UNCHANGED <<hookRow, server, base, cooling, troubles>>

GetWebhook ==
    /\ hookOp.pc = "get"
    /\ IF server[hookOp.name].hook = hookOp.url
       THEN HookGoes("seen") /\ unsure' = unsure \ {hookOp.name}
       ELSE Settles /\ UNCHANGED unsure
    /\ UNCHANGED <<hookRow, server, base, cooling, troubles>>

StoreSeen ==
    /\ hookOp.pc = "seen"
    /\ hookRow' = Claimed
    /\ HookDone("ensured")
    /\ UNCHANGED <<server, base, cooling, unsure, troubles>>

\* setWebhook, refused for an instance that is not there.
SetWebhook ==
    /\ hookOp.pc = "set"
    /\ IF server[hookOp.name].exists
       THEN /\ server' = [server EXCEPT ![hookOp.name].hook = hookOp.url] /\ HookGoes("stored")
            /\ unsure' = unsure \ {hookOp.name}
       ELSE HookGoes("error") /\ UNCHANGED <<server, unsure>>
    /\ UNCHANGED <<hookRow, base, cooling, troubles>>

StoreSet ==
    /\ hookOp.pc = "stored"
    /\ hookRow' = [Claimed EXCEPT !.recent = TRUE]
    /\ HookDone("ensured")
    /\ UNCHANGED <<server, base, cooling, unsure, troubles>>

\* The failure is remembered; "instance requires webhook" alone is no failure.
StoreError ==
    /\ hookOp.pc = "error"
    /\ hookRow' = [hookRow EXCEPT !.error = TRUE, !.recent = TRUE]
    /\ HookGivesUp \/ HookDone("skipped")
    /\ UNCHANGED <<server, base, cooling, unsure, troubles>>

-----------------------------------------------------------------------------
(* restart and disconnect *)

\* A repair renews the address the row has, not that of this deployment.
RepairHook ==
    /\ hookOp.pc = "idle" /\ hookRow.exists /\ ~Trusted(hookRow, hookRow.url)
    /\ hookOp' = [NoHookOp EXCEPT !.kind = "repair", !.pc = "ensure", !.name = hookRow.name,
                                  !.url = hookRow.url]
    /\ UNCHANGED <<hookRow, server, base, cooling, unsure, troubles>>

BeginRemoval ==
    /\ hookOp.pc = "idle" /\ hookRow.exists
    /\ IF "disconnect" \in cooling
       THEN hookOp' = [NoHookOp EXCEPT !.kind = "disconnect", !.pc = "done", !.ends = "failed"] /\ UNCHANGED cooling
       ELSE /\ hookOp' = [NoHookOp EXCEPT !.kind = "disconnect", !.pc = "logout", !.name = hookRow.name]
            /\ cooling' = cooling \cup {"disconnect"}
    /\ UNCHANGED <<hookRow, server, base, unsure, troubles>>

LogoutRemote ==
    /\ hookOp.pc = "logout" /\ server[hookOp.name].exists
    /\ IF "delete" \in cooling THEN HookGivesUp /\ UNCHANGED cooling
       ELSE HookGoes("delete") /\ cooling' = cooling \cup {"delete"}
    /\ UNCHANGED <<hookRow, server, base, unsure, troubles>>

DropRemote(n) == server' = [server EXCEPT ![n] = NoInstance]

DeleteRemoteInstance ==
    /\ hookOp.pc = "delete" /\ server[hookOp.name].exists
    /\ DropRemote(hookOp.name)
    /\ HookGoes("forget")
    /\ UNCHANGED <<hookRow, base, cooling, unsure, troubles>>

\* Only a removal that went through takes the claim back.
ForgetHook ==
    /\ hookOp.pc = "forget"
    /\ hookRow' = [hookRow EXCEPT !.enabled = FALSE, !.error = FALSE]
    /\ HookDone("none")
    /\ UNCHANGED <<server, base, cooling, unsure, troubles>>

Finished ==
    /\ hookOp.pc = "done"
    /\ hookOp' = NoHookOp
    /\ UNCHANGED <<hookRow, server, base, cooling, unsure, troubles>>

-----------------------------------------------------------------------------
(* What goes wrong, and what others do *)

Trouble == troubles < MaxTroubles /\ troubles' = troubles + 1

\* A request that fails, after the server has done it or not.  A failed look at the
\* webhook counts as none there.
RequestLost ==
    /\ Trouble
    /\ \/ /\ hookOp.pc \in {"find", "create", "logout", "delete"} /\ HookGivesUp
          /\ \/ UNCHANGED <<server, unsure>>
             \/ hookOp.pc = "create" /\ ~server[hookOp.name].exists
                /\ MakeRemote(hookOp.name, hookOp.url) /\ UNCHANGED unsure
             \/ hookOp.pc = "delete" /\ DropRemote(hookOp.name) /\ unsure' = unsure \cup {hookOp.name}
       \/ hookOp.pc = "get" /\ Settles /\ UNCHANGED <<server, unsure>>
       \/ /\ hookOp.pc = "set" /\ HookGoes("error") /\ UNCHANGED unsure
          /\ \/ UNCHANGED server
             \/ server[hookOp.name].exists /\ server' = [server EXCEPT ![hookOp.name].hook = hookOp.url]
    /\ UNCHANGED <<hookRow, base, cooling>>

\* The instance to remove is not there: the server refuses.
NothingToRemove ==
    /\ hookOp.pc \in {"logout", "delete"} /\ ~server[hookOp.name].exists
    /\ HookGivesUp
    /\ UNCHANGED <<hookRow, server, base, cooling, unsure, troubles>>

\* A query that fails; after setWebhook it is taken for a failure of the request.
WriteLost ==
    /\ Trouble
    /\ \/ hookOp.pc = "stored" /\ HookGoes("error")
       \/ hookOp.pc \in {"mark", "ensure", "seen", "error", "forget"} /\ HookGivesUp
    /\ unsure' = IF hookOp.pc = "forget" THEN unsure \cup {hookOp.name} ELSE unsure
    /\ UNCHANGED <<hookRow, server, base, cooling>>

\* Somebody makes, deletes or changes an instance at the server.
Outside(n, i) ==
    /\ Trouble /\ server[n] # i
    /\ server' = [server EXCEPT ![n] = i]
    /\ unsure' = unsure \cup {n}
    /\ UNCHANGED <<hookRow, base, hookOp, cooling>>

\* A deployment ends the operation in progress and forgets the cooldowns.
Deploy ==
    /\ base < MaxBases /\ base' = base + 1
    /\ unsure' = IF hookOp.pc = "forget" THEN unsure \cup {hookOp.name} ELSE unsure
    /\ hookOp' = NoHookOp /\ cooling' = {}
    /\ UNCHANGED <<hookRow, server, troubles>>

CooldownEnds ==
    \/ /\ hookRow.recent /\ hookRow' = [hookRow EXCEPT !.recent = FALSE] /\ UNCHANGED cooling
       /\ UNCHANGED <<server, base, hookOp, unsure, troubles>>
    \/ /\ \E a \in cooling : cooling' = cooling \ {a}
       /\ UNCHANGED <<hookRow, server, base, hookOp, unsure, troubles>>

ProviderWebhookNext ==
    \/ \E n \in HookNames : PrepareHook(n)
    \/ FindRemote \/ CreateInstance \/ MarkProvisioned
    \/ EnsureReads \/ GetWebhook \/ StoreSeen \/ SetWebhook \/ StoreSet \/ StoreError
    \/ RepairHook \/ BeginRemoval \/ LogoutRemote \/ DeleteRemoteInstance \/ ForgetHook \/ Finished
    \/ RequestLost \/ NothingToRemove \/ WriteLost \/ Deploy \/ CooldownEnds
    \/ \E n \in HookNames, i \in {NoInstance, [exists |-> TRUE, hook |-> NoUrl],
                                  [exists |-> TRUE, hook |-> Elsewhere]} : Outside(n, i)

ProviderWebhookSpec == ProviderWebhookInit /\ [][ProviderWebhookNext]_providerWebhookVars

-----------------------------------------------------------------------------
(* Properties *)

\* Types of the webhook's state.
ProviderWebhookTypeOK ==
    /\ hookRow.url \in Urls \cup {NoUrl} /\ hookRow.hash \in Urls \cup {NoUrl}
    /\ \A n \in HookNames : server[n].hook \in Urls \cup {NoUrl, Elsewhere}
    /\ base \in 1..MaxBases /\ unsure \subseteq HookNames /\ troubles \in 0..MaxTroubles

\* The claim that ensureWebhookIfMissing trusts instead of asking the server is true, for
\* every address and name the company has had, but for an instance changed from outside
\* or by a removal that failed half way.
RowTellsTheHook ==
    hookOp.pc # "forget" /\ hookRow.exists /\ Trusted(hookRow, hookRow.url)
        => server[hookRow.name].hook = hookRow.url \/ hookRow.name \in unsure

\* A connection or a repair that ends having ensured the webhook leaves the instance
\* reporting to its address, and not to that of an earlier deployment or of another name.
EndsHooked ==
    hookOp.pc = "done" /\ hookOp.ends = "ensured"
        => server[hookOp.name].hook = hookOp.url \/ hookOp.name \in unsure

\* What the row and an ended operation say of the webhook is so on the server.
HookIsTold == RowTellsTheHook /\ EndsHooked
=============================================================================
