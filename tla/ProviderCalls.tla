----------------------------- MODULE ProviderCalls -----------------------------
(***************************************************************************)
(* The requests to the Evolution server about one instance                 *)
(* (whatsapp-provider-evolution.service.ts).  An operation is one request  *)
(* or several, each the answer to the failure or the success of the one    *)
(* before.  A request is throttled (an interval between requests, and none *)
(* while the server has asked to wait), sent, and sent again after a pause *)
(* if the failure looks transient.  The three steps sleep in between, so   *)
(* two operations interleave at every one of them.                         *)
(*                                                                         *)
(* Time passes in Tick.  A sleep lasts as long as it was asked to, or      *)
(* longer.  The server is external: it answers, refuses or keeps silent,   *)
(* and may have done what it was asked in spite of an error.               *)
(***************************************************************************)
EXTENDS Naturals, Sequences

CONSTANTS
    Callers,        \* operations at a time
    OpsOf,          \* the operations each of them may start
    Interval,       \* MIN_PROVIDER_CALL_INTERVAL_MS, in ticks
    Backoff,        \* COLD_START_BACKOFF_MS: pauses after the first attempts
    Cooldown,       \* RATE_LIMIT_COOLDOWN_MS
    Asks,           \* values of Retry-After, 0 where there is none
    MaxFailures     \* bound on failed requests

Ops == {"state", "hook", "remove", "warm", "text", "create", "connect"}

ASSUME ProviderCallsAssumption ==
    /\ Interval \in Nat \ {0} /\ Cooldown \in Nat \ {0} /\ MaxFailures \in Nat
    /\ Asks \subseteq Nat /\ Backoff \in [1..3 -> Nat]
    /\ OpsOf \in [Callers -> SUBSET Ops]

VARIABLES
    call,           \* operations in progress
    sinceLast,      \* lastCallByInstance, as the time that has passed since
    limitedFor,     \* rateLimitedUntilByInstance, as the time that is left
    askedFor,       \* the time the server has asked the instance to wait, as it counts it
    failures        \* failed requests so far

providerCallVars == <<call, sinceLast, limitedFor, askedFor, failures>>

-----------------------------------------------------------------------------
(* Operations and their requests *)

\* Names under which requests are spaced and limited: that of the instance, and the
\* one that warmUp asks about.
Keys == {"instance", "healthcheck"}
KeyOf(op) == IF op = "warm" THEN "healthcheck" ELSE "instance"

\* getConnectionState falls back to the list of instances, setWebhook to two other
\* shapes of the payload, and a disconnection logs out and deletes.
Requests(op) ==
    CASE op = "state" -> <<"connectionState", "fetchInstances">>
      [] op = "hook" -> <<"webhook", "webhook", "webhook">>
      [] op = "remove" -> <<"logout", "delete">>
      [] op = "warm" -> <<"fetchInstances">>
      [] op = "text" -> <<"sendText">>
      [] OTHER -> <<op>>            \* "create", "connect"

MaxAttempts(request) ==
    CASE request \in {"logout", "delete"} -> 1
      [] request \in {"connectionState", "sendText"} -> 3
      [] OTHER -> 4

\* What a request may meet besides success and a 429: an answer by its status, or none.
BadAnswers == {"missing", "shape", "conflict", "refused", "broken", "gateway", "silent"}

\* Mutant: an error of the server itself is taken for a passing one.
IsTransientBroken(a) == a \in {"silent", "gateway", "broken"}

\* isTransientProviderError, without the 429 that request excludes.
IsTransient(a) == a \in {"silent", "gateway"}

\* The failures after which the operation goes on to its next request.
FallsThrough(op, a) ==
    \/ op = "state" /\ a \in {"missing", "broken", "gateway"}
    \/ op = "hook" /\ a = "shape"

\* The request that follows answer a, if any.
HasNext(c, a) ==
    /\ call[c].step < Len(Requests(call[c].op))
    /\ \/ FallsThrough(call[c].op, a)
       \/ call[c].op = "remove" /\ a = "done"

-----------------------------------------------------------------------------

NoCall == [op |-> "none", pc |-> "idle", step |-> 1, attempt |-> 1, left |-> 0,
           sent |-> 0, lost |-> 0, overtaken |-> FALSE, late |-> FALSE]

Request(c) == Requests(call[c].op)[call[c].step]
Key(c) == KeyOf(call[c].op)

ProviderCallsInit ==
    /\ call = [c \in Callers |-> NoCall]
    /\ sinceLast = [k \in Keys |-> Interval]
    /\ limitedFor = [k \in Keys |-> 0] /\ askedFor = [k \in Keys |-> 0]
    /\ failures = 0

\* throttleInstance up to its sleep: refused while limited, else the wait that is left
\* of the interval.
Throttled(r, k) ==
    IF limitedFor[k] > 0 THEN NoCall
    ELSE [r EXCEPT !.pc = "pacing", !.left = Interval - sinceLast[k], !.overtaken = FALSE, !.late = FALSE]

Ask(c, op) ==
    /\ call[c].pc = "idle"
    /\ call' = [call EXCEPT ![c] = Throttled([NoCall EXCEPT !.op = op], KeyOf(op))]
    /\ UNCHANGED <<sinceLast, limitedFor, askedFor, failures>>

\* Mutant: the limit is not looked at again.
RetryOpen(c) ==
    /\ call[c].pc = "backing" /\ call[c].left = 0
    /\ call' = [call EXCEPT ![c].pc = "pacing", ![c].left = Interval - sinceLast[Key(c)],
                            ![c].overtaken = FALSE, ![c].late = FALSE]
    /\ UNCHANGED <<sinceLast, limitedFor, askedFor, failures>>

\* The next attempt, after its pause.
Retry(c) ==
    /\ call[c].pc = "backing" /\ call[c].left = 0
    /\ call' = [call EXCEPT ![c] = Throttled(call[c], Key(c))]
    /\ UNCHANGED <<sinceLast, limitedFor, askedFor, failures>>

\* The sleep is over: the request goes out, whoever went out meanwhile.
SendRequest(c) ==
    /\ call[c].pc = "pacing" /\ call[c].left = 0
    /\ sinceLast' = [sinceLast EXCEPT ![Key(c)] = 0]
    /\ call' = [d \in Callers |->
         IF d = c THEN [call[c] EXCEPT !.pc = "out"]
         ELSE IF call[d].pc = "pacing" /\ Key(d) = Key(c)
              THEN [call[d] EXCEPT !.overtaken = TRUE] ELSE call[d]]
    /\ UNCHANGED <<limitedFor, askedFor, failures>>

Received(r) == [r EXCEPT !.sent = @ + (IF r.op = "text" THEN 1 ELSE 0)]

\* To the operation's next request, which is throttled like every other.
NextRequest(r) == Throttled([r EXCEPT !.step = @ + 1, !.attempt = 1], KeyOf(r.op))

Answer(c) ==
    /\ call[c].pc = "out"
    /\ call' = [call EXCEPT ![c] =
         IF HasNext(c, "done") THEN NextRequest(call[c])
         ELSE [Received(call[c]) EXCEPT !.pc = "ended"]]
    /\ UNCHANGED <<sinceLast, limitedFor, askedFor, failures>>

\* A 429, which is never tried again: the instance is limited for as long as this answer
\* asks, less than before perhaps.
Limit(c, ask) ==
    /\ call[c].pc = "out" /\ failures < MaxFailures /\ failures' = failures + 1
    /\ LET time == IF ask > 0 THEN ask ELSE Cooldown
       IN  /\ limitedFor' = [limitedFor EXCEPT ![Key(c)] = time]
           /\ askedFor' = [askedFor EXCEPT ![Key(c)] = IF time > @ THEN time ELSE @]
    /\ call' = [d \in Callers |->
         IF d = c THEN [call[c] EXCEPT !.pc = "ended"]
         ELSE IF call[d].pc = "pacing" /\ Key(d) = Key(c)
              THEN [call[d] EXCEPT !.late = TRUE] ELSE call[d]]
    /\ UNCHANGED sinceLast

\* Any other failure; reached tells whether the server did it nevertheless, as it may
\* after an error of its own, of a gateway, or without an answer.
RequestFails(c, a, ask, reached) ==
    /\ call[c].pc = "out" /\ failures < MaxFailures /\ failures' = failures + 1
    /\ (reached => a \in {"broken", "gateway", "silent"} /\ call[c].op = "text")
    /\ LET r == IF reached THEN Received(call[c]) ELSE call[c]
           again == IsTransient(a) /\ r.attempt < MaxAttempts(Request(c))
           unsure == IF reached /\ a # "broken" THEN 1 ELSE 0
       IN  call' = [call EXCEPT ![c] =
             IF again
             THEN [r EXCEPT !.pc = "backing", !.attempt = @ + 1, !.lost = @ + unsure,
                            !.left = IF ask > 0 THEN ask ELSE Backoff[r.attempt]]
             ELSE IF HasNext(c, a) THEN NextRequest(r)
             ELSE [r EXCEPT !.pc = "ended", !.lost = @ + unsure]]
    /\ UNCHANGED <<sinceLast, limitedFor, askedFor>>

\* The caller has its result.
Return(c) ==
    /\ call[c].pc = "ended"
    /\ call' = [call EXCEPT ![c] = NoCall]
    /\ UNCHANGED <<sinceLast, limitedFor, askedFor, failures>>

Less(n) == IF n = 0 THEN 0 ELSE n - 1

Tick ==
    /\ call' = [c \in Callers |-> [call[c] EXCEPT !.left = Less(@)]]
    /\ sinceLast' = [k \in Keys |-> IF sinceLast[k] < Interval THEN sinceLast[k] + 1 ELSE Interval]
    /\ limitedFor' = [k \in Keys |-> Less(limitedFor[k])]
    /\ askedFor' = [k \in Keys |-> Less(askedFor[k])]
    /\ UNCHANGED failures

ProviderCallsNext ==
    \/ \E c \in Callers :
         \/ \E op \in OpsOf[c] : Ask(c, op)
         \/ Retry(c) \/ SendRequest(c) \/ Answer(c) \/ Return(c)
         \/ \E ask \in Asks : Limit(c, ask)
         \/ \E a \in BadAnswers, ask \in Asks, reached \in BOOLEAN : RequestFails(c, a, ask, reached)
    \/ Tick

ProviderCallsSpec == ProviderCallsInit /\ [][ProviderCallsNext]_providerCallVars

-----------------------------------------------------------------------------
(* Properties *)

\* Types of the requests' state; no request is sent more often than it may be.
ProviderCallsTypeOK ==
    /\ call \in [Callers ->
         [op : Ops \cup {"none"}, pc : {"idle", "pacing", "out", "backing", "ended"},
          step : Nat, attempt : Nat, left : Nat, sent : Nat, lost : Nat,
          overtaken : BOOLEAN, late : BOOLEAN]]
    /\ \A c \in Callers :
         /\ call[c].step \in 1..Len(Requests(call[c].op))
         /\ call[c].attempt \in 1..MaxAttempts(Request(c))
    /\ sinceLast \in [Keys -> 0..Interval]
    /\ limitedFor \in [Keys -> Nat] /\ askedFor \in [Keys -> Nat]
    /\ failures \in 0..MaxFailures

\* A text reaches the server once, but for the attempts whose answer a gateway ate or
\* that had none: an error the server answers with ends the call, because the text may
\* have gone out before it (isTransientProviderError leaves 500 out).
TextGoesOutOnce == \A c \in Callers : call[c].sent <= 1 + call[c].lost

\* A request leaves an interval after the last one and not while the server has asked
\* the instance to wait, unless it was already asleep in throttleInstance when another
\* one left or was limited, or a second 429 asked for less time than the first.
RequestsAreSpaced ==
    [][\A c \in Callers : call[c].pc = "pacing" /\ call'[c].pc = "out" =>
         LET k == Key(c)
         IN  /\ sinceLast[k] = Interval \/ call[c].overtaken
             /\ askedFor[k] = 0 \/ limitedFor[k] < askedFor[k] \/ call[c].late]_providerCallVars
=============================================================================
