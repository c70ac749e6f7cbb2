---------------------------- MODULE CompanyProofs ----------------------------
(***************************************************************************)
(* Proofs about the modules that keep a company's own data and its plan:   *)
(* its set-up, its people's sign-ins, its imports and its books, the AI    *)
(* usage it is metered for and what its subscription entitles it to, for   *)
(* any number of calls under way, lines of a file, entities of a draft,    *)
(* tokens, rows, limits and months.                                        *)
(*                                                                         *)
(* Each module's calls read the database, compute, and write later, so     *)
(* each inductive invariant says of a call in progress what it may still   *)
(* rely on: of one that nobody disturbed, that what it read is still so;   *)
(* of any other, only that it is well formed.  The tokens of a sign-in are *)
(* counted: those live and those about to be issued are its prospects, and *)
(* no step adds one that it does not account for.                          *)
(*                                                                         *)
(* The invariant of the books says of each thing that may happen which of  *)
(* its rows count, and that each of those says what happened.  From there  *)
(* the figures are sums: of rows on one side, of what happened on the      *)
(* other, the same by lemmas about sums over finite sets, each proved by   *)
(* taking an element out of a smallest set for which it would fail.        *)
(*                                                                         *)
(* A counter of AI usage is bounded by counting, with it, the requests     *)
(* that were admitted or hold a reading below the limit.                   *)
(***************************************************************************)
EXTENDS MCCompany, Sessions, ImportReview, CsvImport, AiUsage, Entitlements,
        FiniteSetTheorems, WellFoundedInduction, TLAPS

-----------------------------------------------------------------------------
(* The setup of a company *)

LayoutRow == [id : 1..MaxSaves, shown : Layouts]
CallType ==
    [at : Places, id : 0..MaxSaves, layout : Layouts, p : Profile, overwrite : BOOLEAN,
     seen : SUBSET LayoutRow, mods : 0..MaxSaves, read : Agents, value : Requests,
     alone : BOOLEAN]

Normal(p) == p.first \cap p.last = {}

\* A call that is alone has read what is still so; what the page reads is a switch.
CallOK(r, ls, ag) ==
    /\ r.at = "replace" /\ r.alone => r.seen = ls
    /\ r.at = "save" => ag # NoConfig /\ r.read # NoConfig /\ (r.alone => r.read = ag)
    /\ Normal(r.p)
    /\ r.at \in {"apply", "replace"} => r.id > 0

OneReplaces(s) ==
    \A c, d \in SetupCalls : c # d /\ s[c].at = "replace" /\ s[d].at = "replace" => ~s[c].alone

\* What was asked of a switch is what it is.
Wished == \A f \in Flags : wish[f] # "either" => agent[f] = wish[f]

\* What is known of all but the calls.
RestOfSetup ==
    /\ profile \in Profile /\ Normal(profile)
    /\ modules \in [on : SUBSET Modules, write : 0..MaxSaves]
    /\ layouts \subseteq LayoutRow /\ agent \in Agents
    /\ legacy \in BOOLEAN /\ data \in {"none", "some", "kept"} /\ saves \in 0..MaxSaves
    /\ followed \in Profile /\ solo \in BOOLEAN /\ asked \in Layouts
    /\ wish \in [Flags -> Switch \cup {"either"}]
    /\ LayoutAsAsked /\ ModulesFollowProfile /\ Wished

CallsOfSetup ==
    /\ setup \in [SetupCalls -> CallType]
    /\ \A d \in SetupCalls : CallOK(setup[d], layouts, agent)
    /\ OneReplaces(setup)

SetupInv == RestOfSetup /\ CallsOfSetup

\* Configurations: that which is created when there is none switches the attendant online.
LEMMA ConfigTypes ==
    /\ NoConfig \in Agents /\ NoConfig \in Requests /\ NoConfig \notin Configs
    /\ Configs \subseteq Agents /\ Either \in [Flags -> Switch \cup {"either"}]
    /\ \A f \in Flags : Either[f] = "either"
    /\ agent \in Agents => Found \in Configs /\ Found["online"] \in Switch
    /\ agent \in Configs => Found = agent
    /\ agent \in Agents \ {NoConfig} => agent \in Configs
<1>1. NoConfig \in Requests /\ Either \in [Flags -> Switch \cup {"either"}]
      /\ \A f \in Flags : Either[f] = "either"
  BY DEF NoConfig, Requests, Either
<1>2. NoConfig \notin Configs
  <2>1. NoConfig["online"] = "none"
    BY DEF NoConfig, Flags
  <2>2. \A k \in Configs : k["online"] \in Switch
    BY DEF Configs, Flags
  <2> QED BY <2>1, <2>2 DEF Switch
<1>3. agent \in Agents \ {NoConfig} => agent \in Configs
  BY DEF Agents
<1>4. [f \in Flags |-> IF f = "online" THEN "on" ELSE "off"] \in Configs
  BY DEF Configs, Switch
<1>5. agent \in Agents => Found \in Configs
  BY <1>3, <1>4 DEF Found
<1>6. \A k \in Configs : k["online"] \in Switch
  BY DEF Configs, Flags
<1> QED BY <1>1, <1>2, <1>3, <1>5, <1>6 DEF Agents, Found

LEMMA SomeTypes ==
    /\ NoProfile \in Profile /\ Normal(NoProfile) /\ NoProfile.done = FALSE
    /\ NoProfile.there = FALSE
    /\ Idle \in CallType /\ Idle.at = "idle" /\ Idle.alone = TRUE /\ Idle.p = NoProfile
    /\ \A q \in SomeProfile : /\ q \in Profile /\ Normal(q) /\ q.there = TRUE /\ q.done = FALSE
                              /\ \A b \in BOOLEAN : /\ [q EXCEPT !.done = b] \in Profile
                                                    /\ Normal([q EXCEPT !.done = b])
                                                    /\ [q EXCEPT !.done = b].there = TRUE
                                                    /\ [q EXCEPT !.done = b].done = b
<1>1. /\ NoProfile \in Profile /\ Normal(NoProfile) /\ NoProfile.done = FALSE
      /\ NoProfile.there = FALSE
  BY DEF NoProfile, Profile, Normal
<1>2. Idle \in CallType /\ Idle.at = "idle" /\ Idle.alone = TRUE /\ Idle.p = NoProfile
  BY <1>1, ConfigTypes, SetupAssumption DEF Idle, CallType, Places
<1>3. ASSUME NEW q \in SomeProfile
      PROVE  q \in Profile /\ Normal(q) /\ q.there = TRUE /\ q.done = FALSE
  <2>1. PICK w \in Recommendable, r \in Rankings : q = NormalizeProfile(w, r[1], r[2])
    BY DEF SomeProfile
  <2>2. w \subseteq Modules /\ r[1] \subseteq Modules /\ r[2] \subseteq Modules
    BY SetupAssumption
  <2> QED BY <2>1, <2>2 DEF NormalizeProfile, Profile, Normal
<1>4. ASSUME NEW q \in SomeProfile, NEW b \in BOOLEAN
      PROVE  /\ [q EXCEPT !.done = b] \in Profile /\ Normal([q EXCEPT !.done = b])
             /\ [q EXCEPT !.done = b].there = TRUE /\ [q EXCEPT !.done = b].done = b
  BY <1>3 DEF Profile, Normal
<1> QED BY <1>1, <1>2, <1>3, <1>4

LEMMA CallsTyped ==
    ASSUME SetupInv
    PROVE  /\ setup \in [SetupCalls -> CallType]
           /\ \A c \in SetupCalls : setup[c] \in CallType /\ CallOK(setup[c], layouts, agent)
           /\ profile \in Profile /\ modules \in [on : SUBSET Modules, write : 0..MaxSaves]
           /\ layouts \subseteq LayoutRow /\ agent \in Agents /\ legacy \in BOOLEAN
           /\ data \in {"none", "some", "kept"} /\ saves \in 0..MaxSaves /\ followed \in Profile
           /\ solo \in BOOLEAN /\ asked \in Layouts /\ wish \in [Flags -> Switch \cup {"either"}]
  BY DEF SetupInv, RestOfSetup, CallsOfSetup

\* What a step makes of the calls: one goes on, and others are no longer alone.
LEMMA CallGoesOn ==
    ASSUME setup \in [SetupCalls -> CallType], NEW c \in SetupCalls, NEW rec \in CallType,
           NEW places, GoOn(c, rec, places)
    PROVE  /\ setup' \in [SetupCalls -> CallType]
           /\ setup'[c] = [rec EXCEPT !.alone = rec.alone /\ Others(c, places) = {}]
           /\ \A d \in SetupCalls \ {c} :
                IF setup[d].at \in places THEN setup'[d] = [setup[d] EXCEPT !.alone = FALSE]
                ELSE setup'[d] = setup[d]
<1> DEFINE n == [rec EXCEPT !.alone = rec.alone /\ Others(c, places) = {}]
<1>1. n \in CallType
  BY DEF CallType
<1>2. \A d \in SetupCalls : [setup[d] EXCEPT !.alone = FALSE] \in CallType
  BY DEF CallType
<1>3. setup' = [d \in SetupCalls |->
                  IF d = c THEN n
                  ELSE IF d \in Others(c, places) THEN [setup[d] EXCEPT !.alone = FALSE]
                  ELSE setup[d]]
  BY DEF GoOn
<1> HIDE DEF n
<1>4. setup'[c] = n
  BY <1>3
<1>5. \A d \in SetupCalls \ {c} :
        IF setup[d].at \in places THEN setup'[d] = [setup[d] EXCEPT !.alone = FALSE]
        ELSE setup'[d] = setup[d]
  BY <1>3 DEF Others
<1> QED BY <1>1, <1>2, <1>3, <1>4, <1>5 DEF n, Others

\* Such a step keeps what is known of the calls: whoever changes the layouts or the
\* attendant leaves no other that relies on them alone.
LEMMA CallsKnown ==
    ASSUME SetupInv, NEW c \in SetupCalls, NEW rec \in CallType, NEW places,
           GoOn(c, rec, places), CallOK(rec, layouts', agent'),
           layouts' = layouts \/ "replace" \in places \/ setup[c].at = "replace",
           agent' = agent \/ "save" \in places,
           agent # NoConfig => agent' # NoConfig,
           rec.at = "replace" => "replace" \in places
    PROVE  /\ setup' \in [SetupCalls -> CallType]
           /\ \A d \in SetupCalls : CallOK(setup'[d], layouts', agent')
           /\ OneReplaces(setup')
<1>1. /\ setup \in [SetupCalls -> CallType]
      /\ \A d \in SetupCalls : setup[d] \in CallType /\ CallOK(setup[d], layouts, agent)
      /\ OneReplaces(setup)
  BY CallsTyped DEF SetupInv, CallsOfSetup
<1> DEFINE n == [rec EXCEPT !.alone = rec.alone /\ Others(c, places) = {}]
<1>2. /\ n.at = rec.at /\ n.id = rec.id /\ n.p = rec.p /\ n.seen = rec.seen
      /\ n.read = rec.read /\ n.alone = (rec.alone /\ Others(c, places) = {})
  BY DEF CallType
<1>3. /\ setup' \in [SetupCalls -> CallType] /\ setup'[c] = n
      /\ \A d \in SetupCalls \ {c} :
           IF setup[d].at \in places THEN setup'[d] = [setup[d] EXCEPT !.alone = FALSE]
           ELSE setup'[d] = setup[d]
  BY <1>1, CallGoesOn
<1> HIDE DEF n
<1>4. \A d \in SetupCalls \ {c} :
        /\ setup'[d].at = setup[d].at /\ setup'[d].id = setup[d].id
        /\ setup'[d].p = setup[d].p /\ setup'[d].seen = setup[d].seen
        /\ setup'[d].read = setup[d].read
        /\ setup'[d].alone => setup[d].alone /\ setup[d].at \notin places
  BY <1>1, <1>3 DEF CallType
<1>5. CallOK(setup'[c], layouts', agent')
  BY <1>2, <1>3 DEF CallOK
<1>6. ASSUME NEW d \in SetupCalls \ {c} PROVE CallOK(setup'[d], layouts', agent')
  <2>1. setup[d].at = "replace" /\ setup'[d].alone => layouts' = layouts
    BY <1>1, <1>4 DEF OneReplaces
  <2>2. setup[d].at = "save" /\ setup'[d].alone => agent' = agent
    BY <1>4
  <2>3. CallOK(setup[d], layouts, agent)
    BY <1>1
  <2> QED BY <1>4, <2>1, <2>2, <2>3 DEF CallOK
<1>7. ASSUME NEW d \in SetupCalls, NEW e \in SetupCalls, d # e, setup'[d].at = "replace",
             setup'[e].at = "replace"
      PROVE  ~setup'[d].alone
  <2>1. CASE d = c
    <3>1. e \in Others(c, places)
      BY <1>2, <1>3, <1>4, <1>7, <2>1 DEF Others
    <3> QED BY <1>2, <1>3, <2>1, <3>1
  <2>2. CASE e = c
    BY <1>2, <1>3, <1>4, <1>7, <2>2
  <2>3. CASE d # c /\ e # c
    BY <1>1, <1>4, <1>7, <2>3 DEF OneReplaces
  <2> QED BY <2>1, <2>2, <2>3
<1> QED BY <1>3, <1>5, <1>6, <1>7 DEF OneReplaces

\* Calls that do not move are known as before; a configuration that is created has not
\* been read by any of them.
LEMMA CallsRest ==
    ASSUME SetupInv, setup' = setup, layouts' = layouts, agent' = agent \/ agent = NoConfig
    PROVE  /\ setup' \in [SetupCalls -> CallType]
           /\ \A d \in SetupCalls : CallOK(setup'[d], layouts', agent')
           /\ OneReplaces(setup')
<1>1. \A d \in SetupCalls : CallOK(setup[d], layouts, agent)
  BY CallsTyped
<1>2. \A d \in SetupCalls : CallOK(setup[d], layouts, agent')
  BY <1>1 DEF CallOK
<1> QED BY <1>2, CallsTyped DEF SetupInv, CallsOfSetup

\* A call that ends.
LEMMA SetupCallEnds ==
    ASSUME SetupInv, NEW c \in SetupCalls, NEW places, Stop(c, places),
           layouts' = layouts \/ "replace" \in places,
           agent' = agent \/ "save" \in places, agent # NoConfig => agent' # NoConfig
    PROVE  /\ setup' \in [SetupCalls -> CallType]
           /\ \A d \in SetupCalls : CallOK(setup'[d], layouts', agent')
           /\ OneReplaces(setup')
<1>1. CallOK(Idle, layouts', agent')
  BY SomeTypes DEF CallOK
<1> QED BY <1>1, SomeTypes, CallsKnown DEF Stop

\* The modules that a profile switches on.
LEMMA ModulesEnabled ==
    ASSUME NEW p \in Profile, Normal(p)
    PROVE  /\ EnabledModules(p) \subseteq Modules /\ p.first \subseteq EnabledModules(p)
           /\ (p.last \ Essential) \cap EnabledModules(p) = {}
  BY DEF EnabledModules, RecommendedModules, Profile, Normal

LEMMA SetupBegins == SetupInit => SetupInv
<1> SUFFICES ASSUME SetupInit PROVE SetupInv
  OBVIOUS
<1>1. setup \in [SetupCalls -> CallType] /\ \A c \in SetupCalls : setup[c] = Idle
  BY SomeTypes DEF SetupInit
<1>2. CallsOfSetup
  BY <1>1, SomeTypes DEF CallsOfSetup, CallOK, OneReplaces
<1>3. LayoutAsAsked /\ ModulesFollowProfile /\ Wished
  BY SomeTypes, ConfigTypes DEF SetupInit, LayoutAsAsked, ModulesFollowProfile, Wished, Shown
<1>4. modules \in [on : SUBSET Modules, write : 0..MaxSaves] /\ saves \in 0..MaxSaves
  BY SetupAssumption DEF SetupInit
<1>5. RestOfSetup
  BY <1>3, <1>4, SomeTypes, ConfigTypes, SetupAssumption DEF SetupInit, RestOfSetup
<1> QED BY <1>2, <1>5 DEF SetupInv

LEMMA SavesCounted == SetupInv /\ (\E c \in SetupCalls : MayStart(c)) /\ Count =>
                        saves' \in 1..MaxSaves /\ saves' = saves + 1
  BY CallsTyped, SetupAssumption DEF MayStart, Count

\* Steps of the profile, the modules and the layout.
LEMMA ProfileChanges ==
    ASSUME SetupInv, NEW c \in SetupCalls, SaveOnboarding(c) \/ UpdateProfile(c)
    PROVE  SetupInv'
<1>1. RestOfSetup /\ saves' \in 1..MaxSaves /\ saves' = saves + 1
  BY SavesCounted DEF SetupInv, SaveOnboarding, UpdateProfile
<1>2. CASE SaveOnboarding(c)
  <2>1. PICK q \in SomeProfile, overwrite \in BOOLEAN :
          /\ profile' = [q EXCEPT !.done = TRUE]
          /\ \/ GoOn(c, [Idle EXCEPT !.at = "apply", !.id = saves + 1, !.layout = CoreLayout,
                                     !.p = profile', !.overwrite = overwrite], {})
             \/ UNCHANGED setup
    BY <1>2 DEF SaveOnboarding
  <2>2. profile' \in Profile /\ Normal(profile')
    BY <2>1, SomeTypes
  <2>3. UNCHANGED <<modules, layouts, agent, legacy, data, followed, solo, asked, wish>>
    BY <1>2 DEF SaveOnboarding
  <2>4. CallsOfSetup'
    <3> DEFINE r == [Idle EXCEPT !.at = "apply", !.id = saves + 1, !.layout = CoreLayout,
                                 !.p = profile', !.overwrite = overwrite]
    <3>1. CASE UNCHANGED setup
      BY <2>3, <3>1, CallsRest DEF CallsOfSetup
    <3>2. CASE GoOn(c, r, {})
      <4>0. Idle \in CallType /\ CoreLayout \in Layouts
        BY SomeTypes, SetupAssumption
      <4>1. r \in CallType /\ r.at = "apply" /\ r.p = profile' /\ r.id = saves'
        <5>1. saves + 1 \in 0..MaxSaves
          BY <1>1
        <5>2. ASSUME NEW k \in CallType
              PROVE  LET n == [k EXCEPT !.at = "apply", !.id = saves + 1, !.layout = CoreLayout,
                                        !.p = profile', !.overwrite = overwrite]
                     IN  n \in CallType /\ n.at = "apply" /\ n.p = profile' /\ n.id = saves + 1
          BY <2>2, <4>0, <5>1 DEF CallType, Places
        <5>3. r \in CallType /\ r.at = "apply" /\ r.p = profile' /\ r.id = saves + 1
          BY <4>0, <5>2, Zenon
        <5> QED BY <1>1, <5>3, Zenon
      <4> HIDE DEF r
      <4>2. CallOK(r, layouts', agent')
        BY <1>1, <2>2, <4>1 DEF CallOK
      <4> QED BY <2>3, <3>2, <4>1, <4>2, CallsKnown DEF CallsOfSetup
    <3> QED BY <2>1, <3>1, <3>2
  <2>5. RestOfSetup'
    <3>1. LayoutAsAsked' /\ ModulesFollowProfile' /\ Wished'
      BY <1>1, <2>3 DEF RestOfSetup, LayoutAsAsked, ModulesFollowProfile, Wished, Shown
    <3>2. saves' \in 0..MaxSaves
      BY <1>1
    <3> QED BY <1>1, <2>2, <2>3, <3>1, <3>2 DEF RestOfSetup
  <2> QED BY <2>4, <2>5 DEF SetupInv
<1>3. CASE UpdateProfile(c)
  <2>1. PICK q \in SomeProfile : profile' = [q EXCEPT !.done = profile.done]
    BY <1>3 DEF UpdateProfile
  <2>2. profile' \in Profile /\ Normal(profile')
    <3>1. profile.done \in BOOLEAN
      BY <1>1 DEF RestOfSetup, Profile
    <3> QED BY <2>1, <3>1, SomeTypes
  <2>3. UNCHANGED <<modules, layouts, agent, legacy, data, followed, solo, asked, wish, setup>>
    BY <1>3 DEF UpdateProfile
  <2>4. CallsOfSetup'
    BY <2>3, CallsRest DEF CallsOfSetup
  <2>5. RestOfSetup'
    <3>1. LayoutAsAsked' /\ ModulesFollowProfile' /\ Wished'
      BY <1>1, <2>3 DEF RestOfSetup, LayoutAsAsked, ModulesFollowProfile, Wished, Shown
    <3>2. saves' \in 0..MaxSaves
      BY <1>1
    <3> QED BY <1>1, <2>2, <2>3, <3>1, <3>2 DEF RestOfSetup
  <2> QED BY <2>4, <2>5 DEF SetupInv
<1> QED BY <1>2, <1>3

LEMMA RecommendationsBegin ==
    ASSUME SetupInv, NEW c \in SetupCalls, ResetRecommendations(c) PROVE SetupInv'
<1>1. RestOfSetup /\ saves' \in 1..MaxSaves /\ saves' = saves + 1
  BY SavesCounted DEF SetupInv, ResetRecommendations
<1> DEFINE r == [Idle EXCEPT !.at = "apply", !.id = saves + 1, !.layout = CoreLayout,
                             !.p = profile]
<1>2. /\ GoOn(c, r, {})
      /\ UNCHANGED <<profile, modules, layouts, agent, legacy, data, followed, solo, asked, wish>>
  BY DEF ResetRecommendations
<1>0. Idle \in CallType /\ CoreLayout \in Layouts /\ profile \in Profile
  BY <1>1, SomeTypes, SetupAssumption DEF RestOfSetup
<1>3. r \in CallType /\ r.at = "apply" /\ r.p = profile /\ r.id = saves'
  <2>1. saves + 1 \in 0..MaxSaves
    BY <1>1
  <2>2. ASSUME NEW k \in CallType
        PROVE  LET n == [k EXCEPT !.at = "apply", !.id = saves + 1, !.layout = CoreLayout,
                                  !.p = profile]
               IN  n \in CallType /\ n.at = "apply" /\ n.p = profile /\ n.id = saves + 1
    BY <1>0, <2>1 DEF CallType, Places
  <2>3. r \in CallType /\ r.at = "apply" /\ r.p = profile /\ r.id = saves + 1
    BY <1>0, <2>2, Zenon
  <2> QED BY <1>1, <2>3, Zenon
<1> HIDE DEF r
<1>4. CallOK(r, layouts', agent')
  BY <1>1, <1>3 DEF CallOK, RestOfSetup
<1>5. CallsOfSetup'
  BY <1>2, <1>3, <1>4, CallsKnown DEF CallsOfSetup
<1>6. RestOfSetup'
  BY <1>1, <1>2 DEF RestOfSetup, LayoutAsAsked, ModulesFollowProfile, Wished, Shown
<1> QED BY <1>5, <1>6 DEF SetupInv

LEMMA ModulesAreSaved ==
    ASSUME SetupInv, NEW c \in SetupCalls, SaveModules(c) PROVE SetupInv'
<1>1. RestOfSetup /\ saves' \in 1..MaxSaves /\ saves' = saves + 1
  BY SavesCounted DEF SetupInv, SaveModules
<1>2. PICK on \in Recommendable : modules' = [on |-> on, write |-> saves + 1]
  BY DEF SaveModules
<1>3. modules' \in [on : SUBSET Modules, write : 0..MaxSaves]
  BY <1>1, <1>2, SetupAssumption
<1>4. /\ followed' = NoProfile
      /\ UNCHANGED <<profile, layouts, agent, legacy, data, setup, solo, asked, wish>>
  BY DEF SaveModules
<1>5. CallsOfSetup'
  BY <1>4, CallsRest DEF CallsOfSetup
<1>6. RestOfSetup'
  <2>1. LayoutAsAsked' /\ ModulesFollowProfile' /\ Wished'
    BY <1>1, <1>4, SomeTypes DEF RestOfSetup, LayoutAsAsked, ModulesFollowProfile, Wished, Shown
  <2> QED BY <1>1, <1>3, <1>4, <2>1, SomeTypes DEF RestOfSetup
<1> QED BY <1>5, <1>6 DEF SetupInv

\* A transaction sees the rows that its delete finds.
LEMMA LayoutIsDeleted ==
    ASSUME SetupInv, NEW c \in SetupCalls, ApplyDelete(c) \/ SaveLayout(c) PROVE SetupInv'
<1>1. RestOfSetup
  BY DEF SetupInv
<1>2. ASSUME NEW rec \in CallType, Delete(c, rec), Normal(rec.p), rec.id > 0,
             UNCHANGED <<layouts, agent>>
      PROVE  CallsOfSetup'
  <2> DEFINE r == [rec EXCEPT !.at = "replace", !.seen = layouts, !.mods = modules.write]
  <2>1. modules.write \in 0..MaxSaves
    BY <1>1 DEF RestOfSetup
  <2>2. /\ r \in CallType /\ r.at = "replace" /\ r.seen = layouts /\ r.p = rec.p
        /\ r.id = rec.id
    BY <1>1, <2>1 DEF RestOfSetup, CallType, Places
  <2>3. GoOn(c, r, OnLayout)
    BY <1>2 DEF Delete
  <2> HIDE DEF r
  <2>4. CallOK(r, layouts', agent') /\ "replace" \in OnLayout
    BY <1>2, <2>2 DEF CallOK, OnLayout
  <2> QED BY <1>2, <2>2, <2>3, <2>4, CallsKnown DEF CallsOfSetup
<1>3. /\ UNCHANGED <<profile, modules, layouts, agent, legacy, data, followed, solo, asked, wish>>
      /\ saves' = saves \/ ((\E d \in SetupCalls : MayStart(d)) /\ Count)
  <2>1. CASE ApplyDelete(c)
    BY <2>1 DEF ApplyDelete
  <2>2. CASE SaveLayout(c)
    BY <2>2, Zenon DEF SaveLayout
  <2> QED BY <2>1, <2>2
<1>4. CallsOfSetup'
  <2>1. CASE ApplyDelete(c)
    <3>1. setup[c] \in CallType /\ Normal(setup[c].p) /\ setup[c].id > 0 /\ Delete(c, setup[c])
      BY <2>1, CallsTyped DEF ApplyDelete, CallOK
    <3> QED BY <1>2, <1>3, <3>1
  <2>2. CASE SaveLayout(c)
    <3>1. PICK l \in Layouts : Delete(c, [Idle EXCEPT !.id = saves + 1, !.layout = l])
      BY <2>2 DEF SaveLayout
    <3> DEFINE rec == [Idle EXCEPT !.id = saves + 1, !.layout = l]
    <3>2. saves + 1 \in 1..MaxSaves
      BY <2>2, SavesCounted DEF SaveLayout
    <3>0. Idle \in CallType /\ Idle.p = NoProfile
      BY SomeTypes
    <3>3. rec \in CallType /\ rec.p = NoProfile /\ rec.id = saves + 1
      <4>1. saves + 1 \in 0..MaxSaves
        BY <3>2
      <4>2. ASSUME NEW k \in CallType
            PROVE  LET n == [k EXCEPT !.id = saves + 1, !.layout = l]
                   IN  n \in CallType /\ n.p = k.p /\ n.id = saves + 1
        BY <4>1 DEF CallType
      <4>3. rec \in CallType /\ rec.p = Idle.p /\ rec.id = saves + 1
        BY <3>0, <4>2, Zenon
      <4> QED BY <3>0, <4>3, Zenon
    <3> HIDE DEF rec
    <3>4. Delete(c, rec)
      BY <3>1 DEF rec
    <3> QED BY <1>2, <1>3, <3>2, <3>3, <3>4, SomeTypes
  <2> QED BY <2>1, <2>2
<1>5. saves' \in 0..MaxSaves
  BY <1>3, CallsTyped, SavesCounted
<1>6. RestOfSetup'
  BY <1>1, <1>3, <1>5
     DEF RestOfSetup, LayoutAsAsked, ModulesFollowProfile, Wished, Shown
<1> QED BY <1>4, <1>6 DEF SetupInv

\* The insert: who is alone replaces all that is there.
LEMMA LayoutIsInserted == ASSUME SetupInv, NEW c \in SetupCalls, Insert(c) PROVE SetupInv'
<1> DEFINE rec == setup[c]
<1>1. /\ RestOfSetup /\ CallsOfSetup /\ rec \in CallType /\ CallOK(rec, layouts, agent)
      /\ rec.at = "replace"
  BY CallsTyped DEF Insert, SetupInv
<1>2. UNCHANGED <<profile, agent, legacy, data, saves, wish>>
  BY DEF Insert
<1>3. /\ rec.id \in 1..MaxSaves /\ rec.layout \in Layouts /\ rec.alone \in BOOLEAN
      /\ rec.p \in Profile /\ Normal(rec.p) /\ (rec.alone => rec.seen = layouts)
  BY <1>1, SetupAssumption DEF CallType, CallOK
<1>4. CASE rec.p.there /\ modules.write # rec.mods
  <2>1. Stop(c, {}) /\ UNCHANGED <<modules, layouts, followed, solo, asked>>
    BY <1>4 DEF Insert
  <2>2. CallsOfSetup'
    BY <1>2, <2>1, SetupCallEnds DEF CallsOfSetup
  <2>3. RestOfSetup'
    BY <1>1, <1>2, <2>1
       DEF RestOfSetup, LayoutAsAsked, ModulesFollowProfile, Wished, Shown
  <2> QED BY <2>2, <2>3 DEF SetupInv
<1>5. CASE ~(rec.p.there /\ modules.write # rec.mods)
  <2> DEFINE entry == [id |-> rec.id, shown |-> rec.layout]
  <2>1. /\ layouts' = (layouts \ rec.seen) \cup {entry}
        /\ solo' = rec.alone /\ asked' = rec.layout
    BY <1>5 DEF Insert
  <2>2. entry \in LayoutRow /\ entry.shown = rec.layout
    BY <1>3 DEF LayoutRow
  <2> HIDE DEF entry
  <2>3. layouts' \subseteq LayoutRow
    BY <1>1, <2>1, <2>2 DEF RestOfSetup
  <2>4. LayoutAsAsked'
    <3>1. CASE ~rec.alone
      BY <2>1, <3>1 DEF LayoutAsAsked
    <3>2. CASE rec.alone
      <4>1. layouts' = {entry}
        BY <1>3, <2>1, <3>2
      <4>2. Shown' = {rec.layout}
        BY <2>2, <4>1 DEF Shown
      <4> QED BY <2>1, <4>2 DEF LayoutAsAsked
    <3> QED BY <1>3, <3>1, <3>2
  <2>5. CASE rec.p.there
    <3> DEFINE r == [rec EXCEPT !.at = "find", !.alone = TRUE]
    <3>1. /\ modules' = [on |-> EnabledModules(rec.p), write |-> rec.id]
          /\ followed' = rec.p /\ GoOn(c, r, {})
      BY <1>5, <2>5 DEF Insert
    <3>2. r \in CallType /\ r.at = "find" /\ r.p = rec.p
      BY <1>1 DEF CallType, Places
    <3> HIDE DEF r
    <3>3. CallOK(r, layouts', agent')
      BY <1>3, <3>2 DEF CallOK
    <3>4. CallsOfSetup'
      BY <1>1, <1>2, <3>1, <3>2, <3>3, CallsKnown DEF CallsOfSetup
    <3>5. /\ modules' \in [on : SUBSET Modules, write : 0..MaxSaves]
          /\ rec.p.first \subseteq modules'.on
          /\ (rec.p.last \ Essential) \cap modules'.on = {}
      <4>1. /\ EnabledModules(rec.p) \subseteq Modules /\ rec.p.first \subseteq EnabledModules(rec.p)
            /\ (rec.p.last \ Essential) \cap EnabledModules(rec.p) = {}
        BY <1>3, ModulesEnabled
      <4>2. modules'.on = EnabledModules(rec.p) /\ rec.id \in 0..MaxSaves
        BY <1>3, <3>1
      <4>3. modules' \in [on : SUBSET Modules, write : 0..MaxSaves]
        BY <3>1, <4>1, <4>2
      <4> QED BY <4>1, <4>2, <4>3
    <3>6. ModulesFollowProfile'
      BY <3>1, <3>5 DEF ModulesFollowProfile
    <3>7. RestOfSetup'
      BY <1>1, <1>2, <1>3, <2>1, <2>3, <2>4, <3>1, <3>5, <3>6 DEF RestOfSetup, Wished
    <3> QED BY <3>4, <3>7 DEF SetupInv
  <2>6. CASE ~rec.p.there
    <3>1. Stop(c, {}) /\ UNCHANGED <<modules, followed>>
      BY <1>5, <2>6 DEF Insert
    <3> DEFINE r == Idle
    <3>2. CallOK(Idle, layouts', agent') /\ Idle \in CallType /\ Idle.at = "idle"
      BY SomeTypes DEF CallOK
    <3>3. CallsOfSetup'
      BY <1>1, <1>2, <3>1, <3>2, CallsKnown DEF CallsOfSetup, Stop
    <3>4. RestOfSetup'
      BY <1>1, <1>2, <1>3, <2>1, <2>3, <2>4, <3>1
         DEF RestOfSetup, ModulesFollowProfile, Wished
    <3> QED BY <3>3, <3>4 DEF SetupInv
  <2> QED BY <2>5, <2>6
<1> QED BY <1>4, <1>5

LEMMA LayoutIsReset == ASSUME SetupInv, NEW c \in SetupCalls, ResetLayout(c) PROVE SetupInv'
<1>1. RestOfSetup /\ saves' \in 1..MaxSaves
  BY SavesCounted DEF SetupInv, ResetLayout
<1>2. /\ layouts' = {} /\ solo' \in BOOLEAN /\ asked' = DefaultLayout /\ Stop(c, OnLayout)
      /\ UNCHANGED <<profile, modules, agent, legacy, data, followed, wish>>
  BY DEF ResetLayout
<1>3. CallsOfSetup'
  BY <1>2, SetupCallEnds DEF CallsOfSetup, OnLayout
<1>4. Shown' = {DefaultLayout}
  BY <1>2 DEF Shown
<1>5. RestOfSetup'
  BY <1>1, <1>2, <1>4, SetupAssumption
     DEF RestOfSetup, LayoutAsAsked, ModulesFollowProfile, Wished
<1> QED BY <1>3, <1>5 DEF SetupInv

\* Steps of the attendant's configuration.
LEMMA AttendantIsSet ==
    ASSUME SetupInv, NEW c \in SetupCalls,
           \/ FindAgent(c) \/ WriteAgent(c) \/ OpenAgentPage(c) \/ SwitchAgent(c)
           \/ ReadBot(c) \/ WriteBot(c)
    PROVE  SetupInv'
<1> DEFINE rec == setup[c]
           Asked == [Flags -> Switch \cup {"either"}]
<1>1. /\ RestOfSetup /\ CallsOfSetup /\ rec \in CallType /\ CallOK(rec, layouts, agent)
      /\ rec.value \in Requests /\ rec.read \in Agents /\ rec.alone \in BOOLEAN
      /\ agent \in Agents /\ wish \in Asked /\ Wished
  BY CallsTyped DEF SetupInv, RestOfSetup, CallType
<1>2. /\ UNCHANGED <<profile, modules, layouts, legacy, data, followed, solo, asked>>
      /\ saves' \in 0..MaxSaves
  <2>1. UNCHANGED <<profile, modules, layouts, legacy, data, followed, solo, asked>>
    BY DEF FindAgent, WriteAgent, OpenAgentPage, SwitchAgent, ReadBot, WriteBot
  <2>2. saves' = saves \/ (MayStart(c) /\ Count)
    BY DEF FindAgent, WriteAgent, OpenAgentPage, SwitchAgent, ReadBot, WriteBot
  <2> QED BY <2>1, <2>2, CallsTyped, SavesCounted
<1>3. ASSUME agent' \in Agents, wish' \in Asked, Wished', CallsOfSetup'
      PROVE  SetupInv'
  <2>1. RestOfSetup'
    BY <1>1, <1>2, <1>3 DEF RestOfSetup, LayoutAsAsked, ModulesFollowProfile, Shown
  <2> QED BY <1>3, <2>1 DEF SetupInv
<1>4. /\ Configs \subseteq Agents /\ NoConfig \notin Configs /\ Found \in Configs
      /\ Either \in Asked /\ \A f \in Flags : Either[f] = "either"
      /\ "save" \in OnAgent
  BY <1>1, ConfigTypes DEF OnAgent
<1>5. CASE FindAgent(c)
  <2>1. agent' = agent /\ wish' = wish
    BY <1>5 DEF FindAgent
  <2>0. Wished'
    BY <1>1, <2>1 DEF Wished
  <2>2. CASE Stop(c, {})
    BY <1>1, <1>2, <1>3, <2>0, <2>1, <2>2, SetupCallEnds DEF CallsOfSetup
  <2>3. CASE GoOn(c, [rec EXCEPT !.at = "write"], OnAgent)
    <3> DEFINE r == [rec EXCEPT !.at = "write"]
    <3>1. r \in CallType /\ r.at = "write" /\ r.p = rec.p
      BY <1>1 DEF CallType, Places
    <3>2. GoOn(c, r, OnAgent)
      BY <2>3
    <3> HIDE DEF r
    <3>3. CallOK(r, layouts', agent')
      BY <1>1, <3>1 DEF CallOK
    <3>4. CallsOfSetup'
      BY <1>2, <2>1, <3>1, <3>2, <3>3, CallsKnown DEF CallsOfSetup
    <3> QED BY <1>1, <1>3, <2>0, <2>1, <3>4
  <2> QED BY <1>5, <2>2, <2>3 DEF FindAgent
<1>6. CASE WriteAgent(c) \/ SwitchAgent(c)
  <2>1. /\ agent' \in Configs /\ Stop(c, OnAgent) /\ wish' \in Asked
        /\ Wished'
    <3>1. CASE WriteAgent(c)
      <4>1. agent' \in Configs /\ Stop(c, OnAgent) /\ wish' = Either
        BY <3>1 DEF WriteAgent
      <4> QED BY <1>4, <4>1 DEF Wished
    <3>2. CASE SwitchAgent(c)
      <4>1. Stop(c, OnAgent)
        BY <3>2 DEF SwitchAgent
      <4>2. PICK value \in Switch :
               /\ agent' = [Found EXCEPT !["enabled"] = value]
               /\ wish' = [wish EXCEPT !["enabled"] =
                              IF Others(c, OnAgent) = {} THEN value ELSE "either"]
        BY <3>2 DEF SwitchAgent
      <4>3. Found \in [Flags -> Switch] /\ wish \in [Flags -> Switch \cup {"either"}]
        BY <1>1, <1>4 DEF Configs
      <4>4. agent' \in [Flags -> Switch] /\ wish' \in [Flags -> Switch \cup {"either"}]
        BY <4>2, <4>3
      <4>5. /\ agent'["enabled"] = value /\ wish'["enabled"] \in {value, "either"}
            /\ \A f \in Flags \ {"enabled"} : agent'[f] = Found[f] /\ wish'[f] = wish[f]
        BY <4>2, <4>3 DEF Flags
      <4>6. \A f \in Flags : wish[f] # "either" => agent # NoConfig /\ agent[f] = wish[f]
        <5>1. \A f \in Flags : NoConfig[f] = "none" /\ wish[f] # "none"
          BY <4>3 DEF NoConfig, Switch
        <5> QED BY <1>1, <5>1 DEF Wished
      <4>7. Wished'
        BY <4>5, <4>6 DEF Wished, Found, Flags
      <4> QED BY <4>1, <4>4, <4>7 DEF Configs
    <3> QED BY <1>6, <3>1, <3>2
  <2>2. CallsOfSetup'
    BY <1>2, <1>4, <2>1, SetupCallEnds DEF CallsOfSetup
  <2> QED BY <1>3, <1>4, <2>1, <2>2
<1>7. \A f \in Flags : wish[f] # "either" => Found[f] = wish[f]
  <2>1. \A f \in Flags : NoConfig[f] = "none" /\ wish[f] # "none"
    BY <1>1 DEF NoConfig, Switch
  <2> QED BY <1>1, <2>1 DEF Wished, Found
<1>8. CASE OpenAgentPage(c)
  <2>1. agent = NoConfig /\ agent' = Found /\ setup' = setup /\ wish' = wish
    BY <1>8 DEF OpenAgentPage
  <2>2. CallsOfSetup'
    BY <1>2, <2>1, CallsRest DEF CallsOfSetup
  <2>3. Wished'
    BY <1>7, <2>1 DEF Wished
  <2> QED BY <1>1, <1>3, <1>4, <2>1, <2>2, <2>3
<1>9. CASE ReadBot(c)
  <2>1. agent' = Found /\ wish' = wish
    BY <1>9 DEF ReadBot
  <2>2. agent' \in Agents /\ agent' # NoConfig /\ Wished'
    BY <1>4, <1>7, <2>1 DEF Wished
  <2>3. PICK value \in Requests :
          GoOn(c, [Idle EXCEPT !.at = "save", !.read = agent', !.value = value], OnAgent)
    BY <1>9 DEF ReadBot
  <2> DEFINE r == [Idle EXCEPT !.at = "save", !.read = agent', !.value = value]
  <2>4. ASSUME NEW k \in CallType
        PROVE  LET n == [k EXCEPT !.at = "save", !.read = agent', !.value = value]
               IN  n \in CallType /\ n.at = "save" /\ n.p = k.p /\ n.read = agent'
    BY <2>2 DEF CallType, Places
  <2>5. Idle \in CallType /\ Normal(Idle.p)
    BY SomeTypes
  <2>6. r \in CallType /\ r.at = "save" /\ r.p = Idle.p /\ r.read = agent'
    BY <2>4, <2>5, Zenon
  <2>7. GoOn(c, r, OnAgent)
    BY <2>3
  <2> HIDE DEF r
  <2>8. CallOK(r, layouts', agent')
    BY <2>2, <2>5, <2>6 DEF CallOK
  <2>10. agent' = agent \/ "save" \in OnAgent
    BY <1>4
  <2>9. CallsOfSetup'
    BY <1>2, <2>2, <2>6, <2>7, <2>8, <2>10, CallsKnown DEF CallsOfSetup
  <2> QED BY <1>1, <1>3, <2>1, <2>2, <2>9
<1>10. CASE WriteBot(c)
  <2>1. /\ rec.at = "save" /\ agent' = BotValue(rec) /\ Stop(c, OnAgent)
        /\ wish' = IF rec.alone
                   THEN [f \in Flags |-> IF rec.value[f] = "none" THEN wish[f] ELSE rec.value[f]]
                   ELSE Either
    BY <1>10 DEF WriteBot
  <2>2. /\ agent # NoConfig /\ rec.read \in Configs /\ (rec.alone => rec.read = agent)
    BY <1>1, <2>1, ConfigTypes DEF CallOK, Agents
  <2>3. /\ rec.read \in [Flags -> Switch] /\ rec.value \in [Flags -> Switch \cup {"none"}]
        /\ wish \in [Flags -> Switch \cup {"either"}]
    BY <1>1, <2>2 DEF Configs, Requests
  <2>4. /\ agent' \in [Flags -> Switch]
        /\ \A f \in Flags : agent'[f] = IF rec.value[f] = "none" THEN rec.read[f] ELSE rec.value[f]
    BY <2>1, <2>3 DEF BotValue
  <2>5. wish' \in Asked
    BY <1>4, <2>1, <2>3
  <2>6. Wished'
    <3>1. CASE rec.alone
      <4>1. \A f \in Flags : wish'[f] = IF rec.value[f] = "none" THEN wish[f] ELSE rec.value[f]
        BY <2>1, <3>1
      <4> QED BY <1>1, <2>2, <2>4, <3>1, <4>1 DEF Wished
    <3>2. CASE ~rec.alone
      BY <1>4, <2>1, <3>2 DEF Wished
    <3> QED BY <3>1, <3>2
  <2>7. agent' \in Configs
    BY <2>4 DEF Configs
  <2>8. CallsOfSetup'
    BY <1>2, <1>4, <2>1, <2>7, SetupCallEnds DEF CallsOfSetup
  <2> QED BY <1>3, <1>4, <2>5, <2>6, <2>7, <2>8
<1> QED BY <1>5, <1>6, <1>8, <1>9, <1>10

LEMMA SetupGoesOn == SetupInv /\ [SetupNext]_setupVars => SetupInv'
<1> SUFFICES ASSUME SetupInv, [SetupNext]_setupVars PROVE SetupInv'
  OBVIOUS
<1>1. RestOfSetup
  BY DEF SetupInv
<1>2. ASSUME NEW c \in SetupCalls, SetupFails(c) PROVE SetupInv'
  <2>1. /\ Stop(c, {})
        /\ UNCHANGED <<profile, modules, layouts, agent, legacy, data, saves, followed, solo,
                       asked, wish>>
    BY <1>2 DEF SetupFails
  <2>2. CallsOfSetup'
    BY <2>1, SetupCallEnds DEF CallsOfSetup
  <2>3. RestOfSetup'
    BY <1>1, <2>1
       DEF RestOfSetup, LayoutAsAsked, ModulesFollowProfile, Wished, Shown
  <2> QED BY <2>2, <2>3 DEF SetupInv
<1>3. CASE Record \/ RemoveLast \/ UNCHANGED setupVars
  <2>1. /\ UNCHANGED <<profile, modules, layouts, agent, legacy, setup, saves, followed, solo,
                       asked, wish>>
        /\ data' \in {"none", "some", "kept"}
    BY <1>1, <1>3 DEF Record, RemoveLast, RestOfSetup, setupVars
  <2>2. CallsOfSetup'
    BY <2>1, CallsRest DEF CallsOfSetup
  <2>3. RestOfSetup'
    BY <1>1, <2>1
       DEF RestOfSetup, LayoutAsAsked, ModulesFollowProfile, Wished, Shown
  <2> QED BY <2>2, <2>3 DEF SetupInv
<1>4. CASE \E c \in SetupCalls : \/ SaveOnboarding(c) \/ UpdateProfile(c)
                                 \/ ResetRecommendations(c) \/ SaveModules(c)
  BY <1>4, ProfileChanges, RecommendationsBegin, ModulesAreSaved
<1>5. CASE \E c \in SetupCalls : \/ ApplyDelete(c) \/ SaveLayout(c) \/ Insert(c)
                                 \/ ResetLayout(c)
  BY <1>5, LayoutIsDeleted, LayoutIsInserted, LayoutIsReset
<1>6. CASE \E c \in SetupCalls : \/ FindAgent(c) \/ WriteAgent(c) \/ OpenAgentPage(c)
                                 \/ SwitchAgent(c) \/ ReadBot(c) \/ WriteBot(c)
  BY <1>6, AttendantIsSet
<1> QED BY <1>2, <1>3, <1>4, <1>5, <1>6 DEF SetupNext

\* What was asked of the switches is what those who answer look at.
LEMMA GatesAsAsked == ASSUME SetupInv PROVE AttendantAsAsked
<1>1. /\ agent \in Agents /\ wish \in [Flags -> Switch \cup {"either"}]
      /\ \A f \in Flags : wish[f] # "either" => agent[f] = wish[f]
  BY CallsTyped DEF SetupInv, RestOfSetup, Wished
<1>2. /\ wish["enabled"] # "either" => agent["enabled"] = wish["enabled"]
      /\ wish["online"] # "either" => agent["online"] = wish["online"]
      /\ wish["online"] # "none"
  BY <1>1 DEF Flags, Switch
<1>3. wish["online"] # "either" => Found["online"] = wish["online"]
  <2>1. NoConfig["online"] = "none"
    BY DEF NoConfig, Flags
  <2> QED BY <1>2, <2>1 DEF Found
<1> QED BY <1>2, <1>3 DEF AttendantAsAsked, Answers

\* The company gets the layout, the modules and the attendant that were asked for last,
\* for any modules, layouts and number of requests that overlap.
THEOREM CompanyIsSetUpAsAsked == SetupSpec => [](SetupTypeOK /\ SetupAsAsked)
<1>1. ASSUME SetupInv, NEW c \in SetupCalls
      PROVE  setup[c].at \in Places /\ setup[c].read \in Agents
  BY <1>1, CallsTyped DEF CallType
<1>2. SetupInv => SetupTypeOK /\ SetupAsAsked
  BY <1>1, GatesAsAsked DEF SetupInv, RestOfSetup, SetupTypeOK, SetupAsAsked, LayoutRow
<1> QED BY <1>2, SetupBegins, SetupGoesOn, PTL DEF SetupSpec

\* What keeps a client from the onboarding stays: a profile that is done, a
\* configuration of the attendant, and records but those that can be removed.
LEMMA DoneStays ==
    ASSUME SetupInv, [SetupNext]_setupVars
    PROVE  /\ profile.done => profile'.done
           /\ HasData => HasData' \/ (data = "some" /\ data' = "none")
           /\ legacy' = legacy
<1>1. legacy' = legacy
  BY DEF SetupNext, setupVars, SaveOnboarding, UpdateProfile, ResetRecommendations, SaveModules,
         ApplyDelete, SaveLayout, Insert, ResetLayout, FindAgent, WriteAgent, OpenAgentPage,
         SwitchAgent, ReadBot, WriteBot, SetupFails, Record, RemoveLast
<1>2. data # "none" => data' # "none" \/ (data = "some" /\ data' = "none")
  BY DEF SetupNext, setupVars, SaveOnboarding, UpdateProfile, ResetRecommendations, SaveModules,
         ApplyDelete, SaveLayout, Insert, ResetLayout, FindAgent, WriteAgent, OpenAgentPage,
         SwitchAgent, ReadBot, WriteBot, SetupFails, Record, RemoveLast
<1>3. agent # NoConfig => agent' # NoConfig
  <2>1. ASSUME NEW c \in SetupCalls,
               \/ WriteBot(c) \/ WriteAgent(c) \/ OpenAgentPage(c) \/ SwitchAgent(c) \/ ReadBot(c)
        PROVE  agent' \in Configs
    <3>1. Found \in [Flags -> Switch] /\ CallOK(setup[c], layouts, agent) /\ setup[c] \in CallType
      BY CallsTyped, ConfigTypes DEF Configs
    <3>2. CASE WriteBot(c)
      <4>1. /\ setup[c].read \in [Flags -> Switch] /\ agent' = BotValue(setup[c])
            /\ setup[c].value \in [Flags -> Switch \cup {"none"}]
        BY <3>1, <3>2, ConfigTypes DEF WriteBot, CallOK, CallType, Configs, Requests, Agents
      <4> QED BY <4>1 DEF BotValue, Configs
    <3>3. CASE SwitchAgent(c)
      <4>1. PICK value \in Switch : agent' = [Found EXCEPT !["enabled"] = value]
        BY <3>3 DEF SwitchAgent
      <4> QED BY <3>1, <4>1 DEF Configs
    <3> QED BY <2>1, <3>1, <3>2, <3>3 DEF WriteAgent, OpenAgentPage, ReadBot, Configs
  <2>2. agent' = agent \/ agent' \in Configs
    BY <2>1
      DEF SetupNext, setupVars, SaveOnboarding, UpdateProfile, ResetRecommendations, SaveModules,
          ApplyDelete, SaveLayout, Insert, ResetLayout, FindAgent, SetupFails, Record, RemoveLast
  <2> QED BY <2>2, ConfigTypes
<1>4. profile.done => profile'.done
  <2>1. profile.done \in BOOLEAN
    BY CallsTyped DEF Profile
  <2>2. ASSUME NEW c \in SetupCalls, SaveOnboarding(c) PROVE profile'.done
    <3>1. PICK q \in SomeProfile : profile' = [q EXCEPT !.done = TRUE]
      BY <2>2 DEF SaveOnboarding
    <3> QED BY <3>1, SomeTypes
  <2>3. ASSUME NEW c \in SetupCalls, UpdateProfile(c) PROVE profile'.done = profile.done
    <3>1. PICK q \in SomeProfile : profile' = [q EXCEPT !.done = profile.done]
      BY <2>3 DEF UpdateProfile
    <3> QED BY <2>1, <3>1, SomeTypes
  <2> QED BY <2>2, <2>3
      DEF SetupNext, setupVars, ResetRecommendations, SaveModules, ApplyDelete, SaveLayout,
          Insert, ResetLayout, FindAgent, WriteAgent, OpenAgentPage, SwitchAgent, ReadBot,
          WriteBot, SetupFails, Record, RemoveLast
<1> QED BY <1>1, <1>2, <1>3, <1>4 DEF HasData

\* Nobody is sent back to the onboarding but in the two cases that are named, for any
\* modules, layouts and number of requests.
THEOREM OnboardingIsOnce == SetupSpec => NeverSentBack
<1>1. ASSUME SetupInv, [SetupNext]_setupVars
      PROVE  [SentToOnboarding' /\ ~SentToOnboarding =>
                 \/ legacy /\ ~profile.there /\ profile'.there
                 \/ data = "some" /\ data' = "none"]_setupVars
  <2>1. /\ profile.done => profile'.done
        /\ HasData => HasData' \/ (data = "some" /\ data' = "none")
        /\ legacy' = legacy
    BY <1>1, DoneStays
  <2> QED BY <2>1 DEF SentToOnboarding
<1> QED BY <1>1, SetupBegins, SetupGoesOn, PTL DEF SetupSpec, NeverSentBack

-----------------------------------------------------------------------------
(* The refresh tokens of an account *)

AuthType ==
    [pc : AuthPcs, token : 0..MaxTokens, root : 0..MaxTokens, google : BOOLEAN,
     company : Companies \cup {"none"}, user : Nat]
AccountType == [user : Nat, count : Nat, google : BOOLEAN, company : Companies \cup {"none"}]

\* A renewal holds the token that it has looked up and not yet revoked; it is busy with
\* its sign-in until it has issued another one.
BusyWith(k, n) == k.pc \in {"revoke", "issue"} /\ k.root = n
Holds(k, t) == k.pc = "revoke" /\ k.token = t
Renewals(n) == {c \in SessionCalls : BusyWith(auth[c], n)}
FreeTokens(n) == {t \in LiveTokens(n) : \A c \in SessionCalls : ~Holds(auth[c], t)}

\* What a sign-in may end up with: a token per renewal and those that nobody renews.
Prospects(n) == Cardinality(Renewals(n)) + Cardinality(FreeTokens(n))
Allowed(n) == (IF n \in out THEN 0 ELSE 1) + overlaps[n]

SessTypes ==
    /\ account \in AccountType /\ account.user <= account.count
    /\ owned \subseteq Companies /\ others \subseteq Companies /\ owned \cap others = {}
    /\ made \in 0..MaxTokens /\ overlaps \in [1..MaxTokens -> 0..MaxOverlaps]
    /\ tokens \in [1..MaxTokens -> [root : 0..MaxTokens, live : BOOLEAN]]
    /\ auth \in [SessionCalls -> AuthType]
    /\ out \subseteq 1..made

\* Tokens and calls know only sign-ins that have begun.
CallKnows(k, toks, mk) ==
    /\ k.root <= mk
    /\ k.pc = "revoke" => k.token \in 1..mk /\ k.root = toks[k.token].root
    /\ k.pc = "remove" => k.company \in Companies
    /\ k.pc \in {"create", "link"} => k.root = 0
RootsKnown ==
    /\ \A t \in 1..MaxTokens : tokens[t].live => t \in 1..made /\ tokens[t].root \in 1..made
    /\ \A c \in SessionCalls : CallKnows(auth[c], tokens, made)

SessInv == SessTypes /\ RootsKnown /\ \A n \in 1..MaxTokens : Prospects(n) <= Allowed(n)

\* How a set that gains or loses one element counts.
LEMMA SetsCount ==
    ASSUME NEW S, IsFiniteSet(S), NEW T
    PROVE  /\ Cardinality(S) \in Nat
           /\ T \subseteq S => /\ Cardinality(T) \in Nat
                               /\ Cardinality(T) <= Cardinality(S)
           /\ \A x : T \subseteq S \cup {x} => /\ Cardinality(T) \in Nat
                                               /\ Cardinality(T) <= Cardinality(S) + 1
           /\ \A x \in S : T \subseteq S \ {x} => /\ Cardinality(T) \in Nat
                                                  /\ Cardinality(T) <= Cardinality(S) - 1
<1>1. Cardinality(S) \in Nat
  BY FS_CardinalityType
<1>2. ASSUME T \subseteq S
      PROVE  Cardinality(T) \in Nat /\ Cardinality(T) <= Cardinality(S)
  <2>1. IsFiniteSet(T) /\ Cardinality(T) <= Cardinality(S)
    BY <1>2, FS_Subset
  <2> QED BY <2>1, FS_CardinalityType
<1>3. ASSUME NEW x, T \subseteq S \cup {x}
      PROVE  Cardinality(T) \in Nat /\ Cardinality(T) <= Cardinality(S) + 1
  <2>1. /\ IsFiniteSet(S \cup {x})
        /\ Cardinality(S \cup {x}) = Cardinality(S) \/ Cardinality(S \cup {x}) = Cardinality(S) + 1
    BY FS_AddElement
  <2>2. IsFiniteSet(T) /\ Cardinality(T) <= Cardinality(S \cup {x})
    BY <1>3, <2>1, FS_Subset
  <2>3. Cardinality(T) \in Nat
    BY <2>2, FS_CardinalityType
  <2> QED BY <1>1, <2>1, <2>2, <2>3
<1>4. ASSUME NEW x \in S, T \subseteq S \ {x}
      PROVE  Cardinality(T) \in Nat /\ Cardinality(T) <= Cardinality(S) - 1
  <2>1. IsFiniteSet(S \ {x}) /\ Cardinality(S \ {x}) = Cardinality(S) - 1
    BY FS_RemoveElement
  <2>2. IsFiniteSet(T) /\ Cardinality(T) <= Cardinality(S \ {x})
    BY <1>4, <2>1, FS_Subset
  <2>3. Cardinality(T) \in Nat
    BY <2>2, FS_CardinalityType
  <2> QED BY <1>1, <2>1, <2>2, <2>3
<1> QED BY <1>1, <1>2, <1>3, <1>4

LEMMA ProspectsCounted ==
    ASSUME NEW n
    PROVE  /\ IsFiniteSet(Renewals(n)) /\ IsFiniteSet(FreeTokens(n)) /\ IsFiniteSet(LiveTokens(n))
           /\ Cardinality(Renewals(n)) \in Nat /\ Cardinality(FreeTokens(n)) \in Nat
           /\ Prospects(n) \in Nat
<1>1. IsFiniteSet(1..MaxTokens)
  BY SessionsAssumption, FS_Interval
<1>2. /\ Renewals(n) \subseteq SessionCalls /\ LiveTokens(n) \subseteq 1..MaxTokens
      /\ FreeTokens(n) \subseteq 1..MaxTokens
  BY DEF Renewals, FreeTokens, LiveTokens
<1>3. /\ IsFiniteSet(Renewals(n)) /\ IsFiniteSet(FreeTokens(n)) /\ IsFiniteSet(LiveTokens(n))
  BY <1>1, <1>2, SessionsAssumption, FS_Subset
<1>4. Cardinality(Renewals(n)) \in Nat /\ Cardinality(FreeTokens(n)) \in Nat
  BY <1>3, FS_CardinalityType
<1> QED BY <1>3, <1>4 DEF Prospects

\* How the step of one call changes what its sign-in may end up with.
LEMMA ProspectsChange ==
    ASSUME NEW n, NEW c \in SessionCalls, NEW r, auth \in [SessionCalls -> AuthType],
           auth' = [auth EXCEPT ![c] = r]
    PROVE  /\ Prospects(n)' \in Int
           /\ (BusyWith(r, n) => BusyWith(auth[c], n)) /\ FreeTokens(n)' \subseteq FreeTokens(n)
                => Prospects(n)' <= Prospects(n)
           /\ BusyWith(auth[c], n) /\ ~BusyWith(r, n)
              /\ (\E t : FreeTokens(n)' \subseteq FreeTokens(n) \cup {t})
                => Prospects(n)' <= Prospects(n)
           /\ (\E t \in FreeTokens(n) : FreeTokens(n)' \subseteq FreeTokens(n) \ {t})
                => Prospects(n)' <= Prospects(n)
           /\ FreeTokens(n)' \subseteq FreeTokens(n) => Prospects(n)' <= Prospects(n) + 1
           /\ (BusyWith(r, n) => BusyWith(auth[c], n))
              /\ (\E t : FreeTokens(n)' \subseteq FreeTokens(n) \cup {t})
                => Prospects(n)' <= Prospects(n) + 1
<1> DEFINE b == Cardinality(Renewals(n))
           f == Cardinality(FreeTokens(n))
           b2 == Cardinality(Renewals(n)')
           f2 == Cardinality(FreeTokens(n)')
<1>1. /\ auth'[c] = r /\ \A d \in SessionCalls \ {c} : auth'[d] = auth[d]
  OBVIOUS
<1>2. /\ Renewals(n)' \subseteq Renewals(n) \cup {c}
      /\ (BusyWith(r, n) => BusyWith(auth[c], n)) => Renewals(n)' \subseteq Renewals(n)
      /\ BusyWith(auth[c], n) /\ ~BusyWith(r, n) =>
           c \in Renewals(n) /\ Renewals(n)' \subseteq Renewals(n) \ {c}
  BY <1>1 DEF Renewals
<1>3. IsFiniteSet(Renewals(n)) /\ IsFiniteSet(FreeTokens(n))
  BY ProspectsCounted
<1>4. /\ b \in Nat /\ b2 \in Nat /\ b2 <= b + 1
      /\ (BusyWith(r, n) => BusyWith(auth[c], n)) => b2 <= b
      /\ BusyWith(auth[c], n) /\ ~BusyWith(r, n) => b2 <= b - 1
  BY <1>2, <1>3, SetsCount
<1>5. FreeTokens(n)' \subseteq 1..MaxTokens
  BY DEF FreeTokens, LiveTokens
<1>6. IsFiniteSet(1..MaxTokens)
  BY SessionsAssumption, FS_Interval
<1>7. /\ f \in Nat /\ f2 \in Nat
      /\ FreeTokens(n)' \subseteq FreeTokens(n) => f2 <= f
      /\ (\E t : FreeTokens(n)' \subseteq FreeTokens(n) \cup {t}) => f2 <= f + 1
      /\ (\E t \in FreeTokens(n) : FreeTokens(n)' \subseteq FreeTokens(n) \ {t}) => f2 <= f - 1
  BY <1>3, <1>5, <1>6, SetsCount
<1>8. Prospects(n) = b + f /\ Prospects(n)' = b2 + f2
  BY DEF Prospects
<1> HIDE DEF b, f, b2, f2
<1> QED BY <1>4, <1>7, <1>8

LEMMA SessTyped ==
    ASSUME SessInv
    PROVE  /\ auth \in [SessionCalls -> AuthType] /\ made \in 0..MaxTokens
           /\ tokens \in [1..MaxTokens -> [root : 0..MaxTokens, live : BOOLEAN]]
           /\ account \in AccountType /\ account.user <= account.count
           /\ account.user \in Nat /\ account.count \in Nat
           /\ owned \subseteq Companies /\ others \subseteq Companies /\ owned \cap others = {}
           /\ overlaps \in [1..MaxTokens -> 0..MaxOverlaps] /\ out \subseteq 1..made
           /\ \A c \in SessionCalls : auth[c] \in AuthType /\ CallKnows(auth[c], tokens, made)
           /\ \A t \in 1..MaxTokens : tokens[t].live => t \in 1..made /\ tokens[t].root \in 1..made
           /\ \A n \in 1..MaxTokens : /\ Prospects(n) <= Allowed(n) /\ Allowed(n) \in Nat
                                      /\ Prospects(n) \in Nat /\ overlaps[n] \in Nat
<1>1. SessTypes /\ RootsKnown
  BY DEF SessInv
<1>2. \A n \in 1..MaxTokens : overlaps[n] \in Nat
  BY <1>1, SessionsAssumption DEF SessTypes
<1>3. \A n \in 1..MaxTokens : Allowed(n) \in Nat
  BY <1>2 DEF Allowed
<1> QED BY <1>1, <1>2, <1>3, ProspectsCounted DEF SessInv, SessTypes, RootsKnown, AccountType

LEMMA IdleTyped ==
    /\ AuthIdle \in AuthType /\ AuthIdle.pc = "idle" /\ AuthIdle.root = 0 /\ AuthIdle.token = 0
    /\ \A toks, mk : mk \in Nat => CallKnows(AuthIdle, toks, mk)
  BY SessionsAssumption DEF AuthIdle, AuthType, AuthPcs, Nobody, CallKnows

LEMMA SessionsBegin == SessionsInit => SessInv
<1> SUFFICES ASSUME SessionsInit PROVE SessInv
  OBVIOUS
<1>1. auth \in [SessionCalls -> AuthType] /\ \A c \in SessionCalls : auth[c] = AuthIdle
  BY IdleTyped DEF SessionsInit
<1>2. SessTypes
  <2>1. tokens \in [1..MaxTokens -> [root : 0..MaxTokens, live : BOOLEAN]]
    BY SessionsAssumption DEF SessionsInit, NoToken, Nobody
  <2>2. account \in AccountType /\ account.user <= account.count
    BY DEF SessionsInit, AccountType, Nobody
  <2> QED BY <1>1, <2>1, <2>2, SessionsAssumption DEF SessionsInit, SessTypes
<1>3. \A t \in 1..MaxTokens : ~tokens[t].live
  BY DEF SessionsInit, NoToken
<1>4. RootsKnown
  BY <1>1, <1>3, IdleTyped, SessionsAssumption DEF SessionsInit, RootsKnown
<1>5. ASSUME NEW n \in 1..MaxTokens PROVE Prospects(n) <= Allowed(n)
  <2>1. Renewals(n) = {} /\ FreeTokens(n) = {}
    BY <1>1, <1>3, IdleTyped DEF Renewals, BusyWith, FreeTokens, LiveTokens
  <2>2. Prospects(n) = 0
    BY <2>1, FS_EmptySet DEF Prospects
  <2> QED BY <2>2 DEF SessionsInit, Allowed
<1> QED BY <1>2, <1>4, <1>5 DEF SessInv

\* What a step has to keep besides the tokens.
AccountKept ==
    /\ account' \in AccountType /\ account'.user <= account'.count
    /\ owned' \subseteq Companies /\ others' \subseteq Companies /\ owned' \cap others' = {}

\* A call that holds no token, before or afterwards, and is busy with no other sign-in.
LEMMA CallMoves ==
    ASSUME SessInv, AccountKept, NEW c \in SessionCalls, NEW r \in AuthType,
           auth' = [auth EXCEPT ![c] = r], UNCHANGED <<tokens, made, overlaps, out>>,
           CallKnows(r, tokens, made), auth[c].pc # "revoke", r.pc # "revoke",
           r.pc = "issue" => r.root = 0
    PROVE  SessInv'
<1>1. /\ auth' \in [SessionCalls -> AuthType] /\ auth'[c] = r
      /\ \A d \in SessionCalls \ {c} : auth'[d] = auth[d]
  BY SessTyped
<1>2. SessTypes'
  BY <1>1, SessTyped DEF SessTypes, AccountKept
<1>3. RootsKnown'
  BY <1>1, SessTyped DEF RootsKnown
<1>4. ASSUME NEW n \in 1..MaxTokens PROVE Prospects(n)' <= Allowed(n)'
  <2>1. BusyWith(r, n) => BusyWith(auth[c], n)
    BY <1>4 DEF BusyWith
  <2>2. FreeTokens(n)' \subseteq FreeTokens(n)
    BY <1>1 DEF FreeTokens, LiveTokens, Holds
  <2>3. Prospects(n)' <= Prospects(n) /\ Prospects(n)' \in Int
    BY <2>1, <2>2, SessTyped, ProspectsChange
  <2>4. Allowed(n)' = Allowed(n)
    BY DEF Allowed
  <2> QED BY <2>3, <2>4, SessTyped
<1> QED BY <1>2, <1>3, <1>4 DEF SessInv

\* A renewal that ends early gives its token back.
LEMMA RenewalEnds ==
    ASSUME SessInv, NEW c \in SessionCalls, auth[c].pc = "revoke", AuthEnds(c),
           UNCHANGED <<account, companyVars, tokens, made, sessionHistory>>
    PROVE  SessInv'
<1>1. /\ auth' = [auth EXCEPT ![c] = AuthIdle] /\ auth \in [SessionCalls -> AuthType]
      /\ UNCHANGED <<account, owned, others, tokens, made, overlaps, out>>
  BY SessTyped DEF AuthEnds, AuthGo, companyVars, sessionHistory
<1>2. /\ auth' \in [SessionCalls -> AuthType] /\ auth'[c] = AuthIdle
      /\ \A d \in SessionCalls \ {c} : auth'[d] = auth[d]
  BY <1>1, IdleTyped
<1>3. SessTypes'
  BY <1>1, <1>2, SessTyped DEF SessTypes
<1>4. RootsKnown'
  BY <1>1, <1>2, SessTyped, IdleTyped DEF RootsKnown
<1>5. ASSUME NEW n \in 1..MaxTokens PROVE Prospects(n)' <= Allowed(n)'
  <2>1. ~BusyWith(AuthIdle, n)
    BY IdleTyped DEF BusyWith
  <2>2. Prospects(n)' <= Prospects(n) /\ Prospects(n)' \in Int
    <3>1. CASE auth[c].root = n
      <4>1. FreeTokens(n)' \subseteq FreeTokens(n) \cup {auth[c].token}
        BY <1>1, <1>2 DEF FreeTokens, LiveTokens, Holds
      <4>2. BusyWith(auth[c], n)
        BY <3>1 DEF BusyWith
      <4> QED BY <1>1, <2>1, <4>1, <4>2, ProspectsChange
    <3>2. CASE auth[c].root # n
      <4>1. tokens[auth[c].token].root # n
        BY <3>2, SessTyped DEF CallKnows
      <4>2. FreeTokens(n)' \subseteq FreeTokens(n)
        BY <1>1, <1>2, <4>1 DEF FreeTokens, LiveTokens, Holds
      <4> QED BY <1>1, <2>1, <4>2, ProspectsChange
    <3> QED BY <3>1, <3>2
  <2>3. Allowed(n)' = Allowed(n)
    BY <1>1 DEF Allowed
  <2> QED BY <2>2, <2>3, SessTyped
<1> QED BY <1>3, <1>4, <1>5 DEF SessInv

\* A token is looked up: nobody held it, or the overlap is counted.
LEMMA TokenIsLookedUp ==
    ASSUME SessInv, NEW c \in SessionCalls, NEW t \in 1..MaxTokens, Lookup(c, t)
    PROVE  SessInv'
<1> DEFINE root == tokens[t].root
           held == Held(t)
           r == [AuthIdle EXCEPT !.pc = "revoke", !.token = t, !.root = root,
                                 !.user = account.user]
<1>1. /\ auth' = [auth EXCEPT ![c] = r] /\ tokens[t].live /\ auth[c].pc = "idle"
      /\ UNCHANGED <<account, owned, others, tokens, made, out>>
      /\ held => overlaps[root] < MaxOverlaps
      /\ overlaps' = [overlaps EXCEPT ![root] = IF held THEN @ + 1 ELSE @]
  BY DEF Lookup, Looked, AuthGo, companyVars, Holds
<1>2. /\ t \in 1..made /\ root \in 1..made /\ root \in 1..MaxTokens /\ account.user \in Nat
      /\ auth \in [SessionCalls -> AuthType] /\ made \in Nat
  BY <1>1, SessTyped, SessionsAssumption
<1>3. ASSUME NEW k \in AuthType
      PROVE  LET n == [k EXCEPT !.pc = "revoke", !.token = t, !.root = root, !.user = account.user]
             IN  n \in AuthType /\ n.pc = "revoke" /\ n.token = t /\ n.root = root
  <2>2. t \in 0..MaxTokens /\ root \in 0..MaxTokens /\ account.user \in Nat
    BY <1>2
  <2> HIDE DEF root
  <2> QED BY <1>3, <2>2 DEF AuthType, AuthPcs
<1>4. r \in AuthType /\ r.pc = "revoke" /\ r.token = t /\ r.root = root
  BY <1>3, IdleTyped, Zenon
<1> HIDE DEF r, held, root
<1>5. /\ auth' \in [SessionCalls -> AuthType] /\ auth'[c] = r
      /\ \A d \in SessionCalls \ {c} : auth'[d] = auth[d]
  BY <1>1, <1>2, <1>4
<1>6. /\ overlaps' \in [1..MaxTokens -> 0..MaxOverlaps]
      /\ \A n \in 1..MaxTokens : overlaps'[n] = IF n = root /\ held THEN overlaps[n] + 1
                                                ELSE overlaps[n]
  <2>1. overlaps \in [1..MaxTokens -> 0..MaxOverlaps] /\ MaxOverlaps \in Nat
    BY SessTyped, SessionsAssumption
  <2>2. CASE held
    BY <1>1, <1>2, <2>1, <2>2
  <2>3. CASE ~held
    BY <1>1, <1>2, <2>1, <2>3
  <2> QED BY <2>2, <2>3
<1>7. SessTypes'
  BY <1>1, <1>5, <1>6, SessTyped DEF SessTypes
<1>8. RootsKnown'
  <2>1. CallKnows(r, tokens, made)
    BY <1>2, <1>4 DEF CallKnows, root
  <2> QED BY <1>1, <1>5, <2>1, SessTyped DEF RootsKnown
<1>9. ASSUME NEW n \in 1..MaxTokens PROVE Prospects(n)' <= Allowed(n)'
  <2>1. /\ FreeTokens(n)' \subseteq FreeTokens(n) /\ t \notin FreeTokens(n)'
    BY <1>1, <1>4, <1>5 DEF FreeTokens, LiveTokens, Holds
  <2>2. Allowed(n)' = IF n = root /\ held THEN Allowed(n) + 1 ELSE Allowed(n)
    <3>1. out' = out /\ overlaps[n] \in Nat
      BY <1>1, SessTyped, SessionsAssumption
    <3>2. overlaps'[n] = IF n = root /\ held THEN overlaps[n] + 1 ELSE overlaps[n]
      BY <1>6
    <3> QED BY ONLY <3>1, <3>2 DEF Allowed
  <2>3. CASE n # root
    <3>1. ~BusyWith(r, n)
      BY <1>4, <2>3 DEF BusyWith
    <3>2. Prospects(n)' <= Prospects(n) /\ Prospects(n)' \in Int
      BY <1>1, <1>2, <2>1, <3>1, ProspectsChange
    <3> QED BY <2>2, <2>3, <3>2, SessTyped
  <2>4. CASE n = root /\ held
    <3>1. Prospects(n)' <= Prospects(n) + 1 /\ Prospects(n)' \in Int
      BY <1>1, <1>2, <2>1, ProspectsChange
    <3> QED BY <2>2, <2>4, <3>1, SessTyped
  <2>5. CASE n = root /\ ~held
    <3>1. t \in FreeTokens(n)
      BY <1>1, <2>5 DEF FreeTokens, LiveTokens, Held, Holds, held, root
    <3>2. FreeTokens(n)' \subseteq FreeTokens(n) \ {t}
      BY <2>1
    <3>3. Prospects(n)' <= Prospects(n) /\ Prospects(n)' \in Int
      BY <1>1, <1>2, <3>1, <3>2, ProspectsChange
    <3> QED BY <2>2, <2>5, <3>3, SessTyped
  <2> QED BY <2>3, <2>4, <2>5
<1> QED BY <1>7, <1>8, <1>9 DEF SessInv

\* The token that is held is revoked, whoever else holds it.
LEMMA TokenIsRevoked ==
    ASSUME SessInv, NEW c \in SessionCalls, auth[c].pc = "revoke",
           tokens' = [tokens EXCEPT ![auth[c].token].live = FALSE],
           AuthGo(c, [auth[c] EXCEPT !.pc = "issue"]),
           UNCHANGED <<account, companyVars, made, sessionHistory>>
    PROVE  SessInv'
<1> DEFINE t == auth[c].token
           r == [auth[c] EXCEPT !.pc = "issue"]
<1>1. /\ auth[c] \in AuthType /\ auth \in [SessionCalls -> AuthType]
      /\ CallKnows(auth[c], tokens, made) /\ made \in 0..MaxTokens
      /\ tokens \in [1..MaxTokens -> [root : 0..MaxTokens, live : BOOLEAN]]
  BY SessTyped
<1>2. t \in 1..MaxTokens /\ auth[c].root \in Nat
  BY <1>1, SessionsAssumption DEF CallKnows, AuthType
<1>3. r \in AuthType /\ r.pc = "issue" /\ r.root = auth[c].root
  BY <1>1 DEF AuthType, AuthPcs
<1>4. /\ auth' = [auth EXCEPT ![c] = r]
      /\ UNCHANGED <<account, owned, others, made, overlaps, out>>
  BY DEF AuthGo, companyVars, sessionHistory
<1>5. /\ tokens' \in [1..MaxTokens -> [root : 0..MaxTokens, live : BOOLEAN]]
      /\ ~tokens'[t].live
      /\ \A u \in 1..MaxTokens : tokens'[u].root = tokens[u].root
      /\ \A u \in 1..MaxTokens : tokens'[u].live => tokens[u].live
  BY <1>1, <1>2
<1> HIDE DEF r
<1>6. /\ auth' \in [SessionCalls -> AuthType] /\ auth'[c] = r
      /\ \A d \in SessionCalls \ {c} : auth'[d] = auth[d]
  BY <1>1, <1>3, <1>4
<1>7. SessTypes'
  BY <1>4, <1>5, <1>6, SessTyped DEF SessTypes
<1>8. RootsKnown'
  <2>1. CallKnows(r, tokens', made)
    BY <1>1, <1>3 DEF CallKnows
  <2>2. ASSUME NEW d \in SessionCalls \ {c} PROVE CallKnows(auth[d], tokens', made)
    <3>1. CallKnows(auth[d], tokens, made) /\ auth[d].token \in 0..MaxTokens
      BY SessTyped DEF AuthType
    <3>2. auth[d].pc = "revoke" => auth[d].token \in 1..MaxTokens
      BY <1>1, <3>1, SessionsAssumption DEF CallKnows
    <3> QED BY <1>5, <3>1, <3>2 DEF CallKnows
  <2>3. \A u \in 1..MaxTokens : tokens'[u].live => u \in 1..made' /\ tokens'[u].root \in 1..made'
    BY <1>4, <1>5, SessTyped
  <2>4. \A d \in SessionCalls : CallKnows(auth'[d], tokens', made')
    BY <1>4, <1>6, <2>1, <2>2
  <2> QED BY <2>3, <2>4 DEF RootsKnown
<1>9. ASSUME NEW n \in 1..MaxTokens PROVE Prospects(n)' <= Allowed(n)'
  <2>1. FreeTokens(n)' \subseteq FreeTokens(n)
    BY <1>5, <1>6 DEF FreeTokens, LiveTokens, Holds
  <2>2. BusyWith(r, n) => BusyWith(auth[c], n)
    BY <1>3 DEF BusyWith
  <2>3. Prospects(n)' <= Prospects(n) /\ Prospects(n)' \in Int
    BY <1>1, <1>4, <2>1, <2>2, ProspectsChange
  <2>4. Allowed(n)' = Allowed(n)
    BY <1>4 DEF Allowed
  <2> QED BY <2>3, <2>4, SessTyped
<1> QED BY <1>7, <1>8, <1>9 DEF SessInv

\* The call issues a token, the first of a sign-in or the next one.
LEMMA TokenIsIssued ==
    ASSUME SessInv, NEW c \in SessionCalls, Issue(c), made' = made + 1
    PROVE  SessInv'
<1> DEFINE u == made + 1
           root == IF auth[c].root = Nobody THEN made + 1 ELSE auth[c].root
           entry == [root |-> root, live |-> TRUE]
<1>1. /\ auth[c] \in AuthType /\ auth \in [SessionCalls -> AuthType]
      /\ CallKnows(auth[c], tokens, made) /\ made \in 0..MaxTokens
      /\ tokens \in [1..MaxTokens -> [root : 0..MaxTokens, live : BOOLEAN]]
  BY SessTyped
<1>2. /\ auth[c].pc = "issue" /\ made < MaxTokens /\ tokens' = [tokens EXCEPT ![u] = entry]
      /\ auth' = [auth EXCEPT ![c] = AuthIdle]
      /\ UNCHANGED <<account, owned, others, overlaps, out>>
  BY <1>1, SessionsAssumption DEF Issue, AuthEnds, AuthGo, companyVars, sessionHistory
<1>3. /\ u \in 1..MaxTokens /\ root \in 1..u /\ root \in 1..MaxTokens /\ made \in Nat
  BY <1>1, <1>2, SessionsAssumption DEF CallKnows, AuthType, Nobody
<1>4. root = auth[c].root \/ (auth[c].root = 0 /\ root = u)
  BY DEF Nobody
<1>5. entry \in [root : 0..MaxTokens, live : BOOLEAN] /\ entry.root = root /\ entry.live = TRUE
  BY <1>3
<1> HIDE DEF root, entry
<1>6. /\ auth' \in [SessionCalls -> AuthType] /\ auth'[c] = AuthIdle
      /\ \A d \in SessionCalls \ {c} : auth'[d] = auth[d]
  BY <1>1, <1>2, IdleTyped
<1>7. /\ tokens' \in [1..MaxTokens -> [root : 0..MaxTokens, live : BOOLEAN]]
      /\ tokens'[u] = entry /\ \A t \in 1..MaxTokens \ {u} : tokens'[t] = tokens[t]
  BY <1>1, <1>2, <1>3, <1>5
<1>8. SessTypes'
  <2>1. made' \in 0..MaxTokens /\ out' \subseteq 1..made'
    BY <1>2, <1>3, SessTyped
  <2> QED BY <1>2, <1>6, <1>7, <2>1, SessTyped DEF SessTypes
<1>9. RootsKnown'
  <2>1. ASSUME NEW t \in 1..MaxTokens, tokens'[t].live
        PROVE  t \in 1..made' /\ tokens'[t].root \in 1..made'
    <3>1. CASE t = u
      BY <1>3, <1>5, <1>7, <3>1
    <3>2. CASE t # u
      <4>1. t \in 1..made /\ tokens'[t].root \in 1..made
        BY <1>7, <2>1, <3>2, SessTyped
      <4> QED BY <1>3, <4>1
    <3> QED BY <3>1, <3>2
  <2>2. ASSUME NEW d \in SessionCalls PROVE CallKnows(auth'[d], tokens', made')
    <3>1. CASE d = c
      BY <1>3, <1>6, <3>1, IdleTyped
    <3>2. CASE d # c
      <4>1. /\ CallKnows(auth[d], tokens, made) /\ auth'[d] = auth[d]
            /\ auth[d].root \in 0..MaxTokens
        BY <1>6, <3>2, SessTyped DEF AuthType
      <4>2. auth[d].pc = "revoke" =>
              auth[d].token \in 1..made' /\ tokens'[auth[d].token] = tokens[auth[d].token]
        <5>1. SUFFICES ASSUME auth[d].pc = "revoke"
                       PROVE  auth[d].token \in 1..made'
                              /\ tokens'[auth[d].token] = tokens[auth[d].token]
          OBVIOUS
        <5>2. auth[d].token \in 1..made
          BY <4>1, <5>1 DEF CallKnows
        <5>3. auth[d].token \in 1..MaxTokens \ {u} /\ auth[d].token \in 1..made'
          BY <1>3, <5>2, SessionsAssumption
        <5> QED BY <1>7, <5>3
      <4>3. auth[d].root <= made'
        BY <1>3, <4>1 DEF CallKnows
      <4> QED BY <4>1, <4>2, <4>3 DEF CallKnows
    <3> QED BY <3>1, <3>2
  <2> QED BY <2>1, <2>2 DEF RootsKnown
<1>10. ASSUME NEW n \in 1..MaxTokens PROVE Prospects(n)' <= Allowed(n)'
  <2>1. ~BusyWith(AuthIdle, n)
    BY IdleTyped DEF BusyWith
  <2>2. FreeTokens(n)' \subseteq FreeTokens(n) \cup {u}
    BY <1>2, <1>6, <1>7 DEF FreeTokens, LiveTokens, Holds
  <2>3. Allowed(n)' = Allowed(n)
    BY <1>2 DEF Allowed
  <2>4. CASE n # root
    <3>1. u \notin FreeTokens(n)'
      BY <1>5, <1>7, <2>4 DEF FreeTokens, LiveTokens
    <3>2. FreeTokens(n)' \subseteq FreeTokens(n)
      BY <2>2, <3>1
    <3>3. Prospects(n)' <= Prospects(n) /\ Prospects(n)' \in Int
      BY <1>1, <1>2, <2>1, <3>2, ProspectsChange
    <3> QED BY <2>3, <3>3, SessTyped
  <2>5. CASE n = root /\ root = auth[c].root
    <3>1. BusyWith(auth[c], n)
      BY <1>2, <2>5 DEF BusyWith
    <3>2. Prospects(n)' <= Prospects(n) /\ Prospects(n)' \in Int
      BY <1>1, <1>2, <2>1, <2>2, <3>1, ProspectsChange
    <3> QED BY <2>3, <3>2, SessTyped
  <2>6. CASE n = root /\ root = u
    <3>1. Renewals(n) = {}
      <4>1. \A d \in SessionCalls : auth[d].root <= made /\ auth[d].root \in Nat
        BY SessTyped, SessionsAssumption DEF CallKnows, AuthType
      <4> QED BY <1>3, <2>6, <4>1 DEF Renewals, BusyWith
    <3>2. FreeTokens(n) = {}
      BY <1>3, <2>6, SessTyped DEF FreeTokens, LiveTokens
    <3>3. Prospects(n) = 0
      BY <3>1, <3>2, FS_EmptySet DEF Prospects
    <3>4. Prospects(n)' <= Prospects(n) + 1 /\ Prospects(n)' \in Int
      BY <1>1, <1>2, <2>1, <2>2, ProspectsChange
    <3>5. n \notin out
      BY <1>3, <2>6, SessTyped
    <3>6. Allowed(n) >= 1
      BY <3>5, SessTyped DEF Allowed
    <3> QED BY <2>3, <3>3, <3>4, <3>6, SessTyped
  <2> QED BY <1>4, <2>4, <2>5, <2>6
<1> QED BY <1>8, <1>9, <1>10 DEF SessInv

\* Tokens die, while no call moves: a sign-in is ended by a sign-out that takes one of
\* its free tokens.
LEMMA TokensDie ==
    ASSUME SessInv, AccountKept, UNCHANGED <<auth, made, overlaps>>,
           tokens' \in [1..MaxTokens -> [root : 0..MaxTokens, live : BOOLEAN]],
           \A t \in 1..MaxTokens : /\ tokens'[t].root = tokens[t].root
                                   /\ tokens'[t].live => tokens[t].live,
           out' \subseteq 1..made,
           \A n \in 1..MaxTokens : (n \in out' <=> n \in out) \/ \E t \in FreeTokens(n) : ~tokens'[t].live
    PROVE  SessInv'
<1>1. SessTypes'
  BY SessTyped DEF SessTypes, AccountKept
<1>2. RootsKnown'
  <2>1. ASSUME NEW c \in SessionCalls PROVE CallKnows(auth[c], tokens', made)
    <3>1. CallKnows(auth[c], tokens, made)
      BY SessTyped
    <3>2. auth[c].pc = "revoke" => auth[c].token \in 1..MaxTokens
      BY <3>1, SessTyped, SessionsAssumption DEF CallKnows
    <3> QED BY <3>1, <3>2 DEF CallKnows
  <2> QED BY <2>1, SessTyped DEF RootsKnown
<1>3. ASSUME NEW n \in 1..MaxTokens PROVE Prospects(n)' <= Allowed(n)'
  <2>1. Renewals(n)' = Renewals(n) /\ FreeTokens(n)' \subseteq FreeTokens(n)
    BY DEF Renewals, FreeTokens, LiveTokens
  <2>2. /\ Cardinality(Renewals(n)) \in Nat /\ Cardinality(FreeTokens(n)) \in Nat
        /\ Cardinality(FreeTokens(n)') <= Cardinality(FreeTokens(n))
        /\ Cardinality(FreeTokens(n)') \in Nat
    BY <2>1, ProspectsCounted, SetsCount
  <2>3. Prospects(n)' <= Prospects(n) /\ Prospects(n)' \in Int
    BY <2>1, <2>2 DEF Prospects
  <2>4. CASE n \in out' <=> n \in out
    <3>1. Allowed(n)' = Allowed(n)
      BY <2>4 DEF Allowed
    <3> QED BY <2>3, <3>1, SessTyped
  <2>5. CASE \E t \in FreeTokens(n) : ~tokens'[t].live
    <3>1. PICK t \in FreeTokens(n) : ~tokens'[t].live
      BY <2>5
    <3>2. FreeTokens(n)' \subseteq FreeTokens(n) \ {t}
      BY <2>1, <3>1 DEF FreeTokens, LiveTokens
    <3>3. Cardinality(FreeTokens(n)') <= Cardinality(FreeTokens(n)) - 1
      BY <3>2, ProspectsCounted, SetsCount
    <3>4. Prospects(n)' <= Prospects(n) - 1
      BY <2>1, <2>2, <3>3 DEF Prospects
    <3>5. Allowed(n) - 1 <= Allowed(n)' /\ Allowed(n)' \in Int
      BY SessTyped DEF Allowed
    <3> QED BY <2>3, <3>4, <3>5, SessTyped
  <2> QED BY <2>4, <2>5
<1> QED BY <1>1, <1>2, <1>3 DEF SessInv

LEMMA TokenIsEnded ==
    ASSUME SessInv, NEW t \in 1..MaxTokens, Expire(t) \/ Logout(t) PROVE SessInv'
<1>1. /\ tokens' = [tokens EXCEPT ![t].live = FALSE] /\ tokens[t].live
      /\ UNCHANGED <<account, owned, others, auth, made, overlaps>>
      /\ out' = out \/ (~Held(t) /\ out' = out \cup {tokens[t].root})
  BY DEF Expire, Logout, SignedOut, companyVars, sessionHistory
<1>2. /\ tokens' \in [1..MaxTokens -> [root : 0..MaxTokens, live : BOOLEAN]]
      /\ ~tokens'[t].live
      /\ \A u \in 1..MaxTokens : /\ tokens'[u].root = tokens[u].root
                                 /\ tokens'[u].live => tokens[u].live
  <2>1. tokens \in [1..MaxTokens -> [root : 0..MaxTokens, live : BOOLEAN]]
    BY SessTyped
  <2> QED BY <1>1, <2>1
<1>3. out' \subseteq 1..made
  BY <1>1, SessTyped
<1>4. ASSUME NEW n \in 1..MaxTokens
      PROVE  (n \in out' <=> n \in out) \/ \E u \in FreeTokens(n) : ~tokens'[u].live
  <2>1. CASE out' = out \/ n # tokens[t].root
    BY <1>1, <2>1
  <2>2. CASE n = tokens[t].root /\ ~Held(t)
    <3>1. t \in FreeTokens(n)
      BY <1>1, <2>2 DEF FreeTokens, LiveTokens, Held, Holds
    <3> QED BY <1>2, <3>1
  <2> QED BY <1>1, <2>1, <2>2
<1>5. AccountKept
  BY <1>1, SessTyped DEF AccountKept
<1> QED BY <1>1, <1>2, <1>3, <1>4, <1>5, TokensDie

\* Steps of the account and of its companies that no call takes.
LEMMA AccountChanges ==
    ASSUME SessInv, \/ DeleteAccount
                    \/ \E k \in Companies : CreateCompany(k)
                    \/ UNCHANGED sessionVars
    PROVE  SessInv'
<1>1. UNCHANGED <<auth, made, overlaps, out>>
  BY DEF DeleteAccount, CreateCompany, sessionVars, sessionHistory
<1>2. AccountKept
  <2>1. CASE DeleteAccount
    <3>1. /\ account' = [account EXCEPT !.user = Nobody, !.google = FALSE, !.company = "none"]
          /\ owned' = {} /\ others' = others \cup owned
      BY <2>1 DEF DeleteAccount
    <3>2. account \in AccountType /\ account.count \in Nat
      BY SessTyped
    <3>3. account' \in AccountType /\ account'.user = 0 /\ account'.count = account.count
      BY <3>1, <3>2 DEF AccountType, Nobody
    <3> QED BY <3>1, <3>2, <3>3, SessTyped DEF AccountKept
  <2>2. CASE \E k \in Companies : CreateCompany(k)
    BY <2>2, SessTyped DEF CreateCompany, AccountKept
  <2>3. CASE UNCHANGED sessionVars
    BY <2>3, SessTyped DEF sessionVars, companyVars, AccountKept
  <2> QED BY <2>1, <2>2, <2>3
<1>3. /\ tokens' \in [1..MaxTokens -> [root : 0..MaxTokens, live : BOOLEAN]]
      /\ \A t \in 1..MaxTokens : /\ tokens'[t].root = tokens[t].root
                                 /\ tokens'[t].live => tokens[t].live
  <2>1. tokens \in [1..MaxTokens -> [root : 0..MaxTokens, live : BOOLEAN]]
    BY SessTyped
  <2>2. CASE tokens' = tokens
    BY <2>1, <2>2
  <2>3. CASE tokens' = [t \in 1..MaxTokens |-> [tokens[t] EXCEPT !.live = FALSE]]
    BY <2>1, <2>3
  <2> QED BY <2>2, <2>3 DEF DeleteAccount, CreateCompany, sessionVars
<1> QED BY <1>1, <1>2, <1>3, SessTyped, TokensDie

\* Calls before they hold or issue a token, and those that have nothing to do with one.
LEMMA SignInGoesOn ==
    ASSUME SessInv, NEW c \in SessionCalls,
           \/ BeginRegister(c) \/ BeginLogin(c) \/ BeginGoogle(c) \/ LinkGoogle(c)
           \/ \E k \in Companies : BeginRemove(c, k)
    PROVE  SessInv'
<1>1. /\ auth[c] \in AuthType /\ CallKnows(auth[c], tokens, made) /\ made \in Nat
      /\ account \in AccountType /\ account.user \in Nat
      /\ AuthIdle \in AuthType /\ AuthIdle.root = 0
  BY SessTyped, IdleTyped, SessionsAssumption
<1>2. UNCHANGED <<tokens, made, overlaps, out, owned, others>>
  BY DEF BeginRegister, BeginLogin, BeginGoogle, LinkGoogle, BeginRemove, sessionHistory,
         companyVars
<1>3. AccountKept
  <2>1. account' = account \/ account' = [account EXCEPT !.google = TRUE]
    BY DEF BeginRegister, BeginLogin, BeginGoogle, LinkGoogle, BeginRemove
  <2>2. account' \in AccountType /\ account'.user <= account'.count
    BY <1>1, <2>1, SessTyped DEF AccountType
  <2> QED BY <1>2, <2>2, SessTyped DEF AccountKept
<1>4. ASSUME NEW r \in AuthType, AuthGo(c, r), auth[c].pc # "revoke", r.pc # "revoke",
             r.root = 0, r.pc = "remove" => r.company \in Companies
      PROVE  SessInv'
  <2>1. CallKnows(r, tokens, made)
    BY <1>1, <1>4 DEF CallKnows
  <2> QED BY <1>2, <1>3, <1>4, <2>1, CallMoves DEF AuthGo
<1>5. CASE BeginRegister(c)
  <2>1. ASSUME NEW k \in AuthType, k.root = 0
        PROVE  LET n == [k EXCEPT !.pc = "create"]
               IN  n \in AuthType /\ n.pc = "create" /\ n.root = 0
    BY <2>1 DEF AuthType, AuthPcs
  <2> DEFINE r == [AuthIdle EXCEPT !.pc = "create"]
  <2>2. r \in AuthType /\ r.pc = "create" /\ r.root = 0
    BY <1>1, <2>1, Zenon
  <2>3. AuthGo(c, r) /\ auth[c].pc = "idle"
    BY <1>5 DEF BeginRegister
  <2> HIDE DEF r
  <2> QED BY <1>4, <2>2, <2>3
<1>6. CASE BeginLogin(c)
  <2>1. ASSUME NEW k \in AuthType, k.root = 0
        PROVE  LET n == [k EXCEPT !.pc = "issue", !.user = account.user]
               IN  n \in AuthType /\ n.pc = "issue" /\ n.root = 0
    BY <1>1, <2>1 DEF AuthType, AuthPcs
  <2> DEFINE r == [AuthIdle EXCEPT !.pc = "issue", !.user = account.user]
  <2>2. r \in AuthType /\ r.pc = "issue" /\ r.root = 0
    BY <1>1, <2>1, Zenon
  <2>3. AuthGo(c, r) /\ auth[c].pc = "idle"
    BY <1>6 DEF BeginLogin
  <2> HIDE DEF r
  <2> QED BY <1>4, <2>2, <2>3
<1>7. CASE BeginGoogle(c)
  <2> DEFINE p == IF account.user = Nobody THEN "create"
                  ELSE IF account.google THEN "issue" ELSE "link"
  <2>1. p \in {"create", "issue", "link"}
    OBVIOUS
  <2>2. ASSUME NEW k \in AuthType, k.root = 0
        PROVE  LET n == [k EXCEPT !.google = TRUE, !.user = account.user, !.pc = p]
               IN  n \in AuthType /\ n.pc = p /\ n.root = 0
    <3> HIDE DEF p
    <3> QED BY <1>1, <2>1, <2>2 DEF AuthType, AuthPcs
  <2> DEFINE r == [AuthIdle EXCEPT !.google = TRUE, !.user = account.user, !.pc = p]
  <2>3. AuthGo(c, r) /\ auth[c].pc = "idle"
    BY <1>7 DEF BeginGoogle
  <2>4. r \in AuthType /\ r.pc = p /\ r.root = 0
    <3> HIDE DEF p
    <3> QED BY <1>1, <2>2, Zenon
  <2> HIDE DEF r, p
  <2> QED BY <1>4, <2>1, <2>3, <2>4
<1>8. CASE LinkGoogle(c)
  <2> DEFINE r == [auth[c] EXCEPT !.pc = "issue"]
  <2>1. AuthGo(c, r) /\ auth[c].pc = "link" /\ auth[c].root = 0
    BY <1>1, <1>8 DEF LinkGoogle, CallKnows
  <2>2. r \in AuthType /\ r.pc = "issue" /\ r.root = 0
    BY <1>1, <2>1 DEF AuthType, AuthPcs
  <2> HIDE DEF r
  <2> QED BY <1>4, <2>1, <2>2
<1>9. ASSUME NEW m \in Companies, BeginRemove(c, m) PROVE SessInv'
  <2>1. ASSUME NEW k \in AuthType, k.root = 0
        PROVE  LET n == [k EXCEPT !.pc = "remove", !.company = m]
               IN  n \in AuthType /\ n.pc = "remove" /\ n.root = 0 /\ n.company = m
    BY <2>1 DEF AuthType, AuthPcs
  <2> DEFINE r == [AuthIdle EXCEPT !.pc = "remove", !.company = m]
  <2>2. r \in AuthType /\ r.pc = "remove" /\ r.root = 0 /\ r.company = m
    BY <1>1, <2>1, Zenon
  <2>3. AuthGo(c, r) /\ auth[c].pc = "idle"
    BY <1>9 DEF BeginRemove
  <2> HIDE DEF r
  <2> QED BY <1>4, <2>2, <2>3
<1> QED BY <1>5, <1>6, <1>7, <1>8, <1>9

\* The account is made, or refused; a sign-in without a refresh token; a call that fails.
LEMMA SignInEnds ==
    ASSUME SessInv, NEW c \in SessionCalls, AuthEnds(c), auth[c].pc # "revoke", AccountKept,
           UNCHANGED <<tokens, made, sessionHistory>>
    PROVE  SessInv'
<1>1. made \in Nat /\ CallKnows(AuthIdle, tokens, made)
  BY SessTyped, IdleTyped, SessionsAssumption
<1> QED BY <1>1, IdleTyped, CallMoves DEF AuthEnds, AuthGo, sessionHistory

LEMMA AccountIsMade ==
    ASSUME SessInv, NEW c \in SessionCalls, CreateAccount(c) PROVE SessInv'
<1>1. /\ auth[c] \in AuthType /\ CallKnows(auth[c], tokens, made) /\ made \in Nat
      /\ auth[c].pc = "create" /\ auth[c].root = 0 /\ auth[c].google \in BOOLEAN
      /\ account.count \in Nat /\ UNCHANGED <<others, tokens, made, overlaps, out>>
  BY SessTyped, SessionsAssumption DEF CreateAccount, CallKnows, sessionHistory, AuthType
<1>2. CASE AuthEnds(c) /\ UNCHANGED <<account, owned>>
  <2>1. AccountKept
    BY <1>1, <1>2, SessTyped DEF AccountKept
  <2> QED BY <1>1, <1>2, <2>1, SignInEnds DEF sessionHistory
<1>3. ASSUME NEW k \in Companies, k \notin owned \cup others,
             account' = [user |-> account.count + 1, count |-> account.count + 1,
                         google |-> auth[c].google, company |-> k],
             owned' = owned \cup {k},
             AuthGo(c, [auth[c] EXCEPT !.pc = "issue", !.user = account.count + 1])
      PROVE  SessInv'
  <2> DEFINE r == [auth[c] EXCEPT !.pc = "issue", !.user = account.count + 1]
  <2>1. r \in AuthType /\ r.pc = "issue" /\ r.root = 0
    <3>1. ASSUME NEW m \in Nat
          PROVE  LET n == [auth[c] EXCEPT !.pc = "issue", !.user = m]
                 IN  n \in AuthType /\ n.pc = "issue" /\ n.root = 0
      BY <1>1 DEF AuthType, AuthPcs
    <3>2. account.count + 1 \in Nat
      BY <1>1
    <3> QED BY <3>1, <3>2
  <2>2. CallKnows(r, tokens, made)
    <3> HIDE DEF r
    <3> QED BY <1>1, <2>1 DEF CallKnows
  <2>3. account' \in AccountType /\ account'.user = account'.count /\ account'.count \in Nat
    BY <1>1, <1>3 DEF AccountType
  <2>4. AccountKept
    BY <1>1, <1>3, <2>3, SessTyped DEF AccountKept
  <2>5. auth' = [auth EXCEPT ![c] = r]
    BY <1>3 DEF AuthGo
  <2> HIDE DEF r
  <2> QED BY <1>1, <2>1, <2>2, <2>4, <2>5, CallMoves
<1> QED BY <1>2, <1>3 DEF CreateAccount

LEMMA CallsEnd ==
    ASSUME SessInv, NEW c \in SessionCalls,
           \/ RemoveCompany(c) \/ AuthFails(c)
           \/ Issue(c) /\ UNCHANGED <<tokens, made>>
           \/ Revoke(c) /\ AuthEnds(c) /\ UNCHANGED tokens
    PROVE  SessInv'
<1>1. AuthEnds(c) /\ UNCHANGED <<tokens, made, sessionHistory>>
  BY DEF RemoveCompany, AuthFails, Issue, Revoke
<1>2. CASE RemoveCompany(c)
  <2>1. account' \in AccountType /\ account'.user <= account'.count
    <3>1. account' = account \/ account' = [account EXCEPT !.company = "none"]
      BY <1>2 DEF RemoveCompany
    <3>2. account \in AccountType /\ account.user <= account.count
      BY SessTyped
    <3> QED BY <3>1, <3>2 DEF AccountType
  <2>2. AccountKept
    BY <1>2, <2>1, SessTyped DEF RemoveCompany, AccountKept
  <2> QED BY <1>1, <1>2, <2>2, SignInEnds DEF RemoveCompany
<1>3. CASE UNCHANGED <<account, companyVars>>
  <2>1. AccountKept
    BY <1>3, SessTyped DEF AccountKept, companyVars
  <2>2. CASE auth[c].pc = "revoke"
    BY <1>1, <1>3, <2>2, RenewalEnds
  <2> QED BY <1>1, <2>1, <2>2, SignInEnds
<1> QED BY <1>2, <1>3 DEF AuthFails, Issue, Revoke

LEMMA SessionsGoOn == SessInv /\ [SessionsNext]_sessionVars => SessInv'
<1> SUFFICES ASSUME SessInv, [SessionsNext]_sessionVars PROVE SessInv'
  OBVIOUS
<1>1. ASSUME NEW c \in SessionCalls,
             \/ BeginRegister(c) \/ BeginLogin(c) \/ BeginGoogle(c) \/ LinkGoogle(c)
             \/ \E k \in Companies : BeginRemove(c, k)
      PROVE  SessInv'
  BY <1>1, SignInGoesOn
<1>2. ASSUME NEW c \in SessionCalls, CreateAccount(c) PROVE SessInv'
  BY <1>2, AccountIsMade
<1>3. ASSUME NEW c \in SessionCalls, Issue(c) PROVE SessInv'
  <2>1. (UNCHANGED <<tokens, made>>) \/ made' = made + 1
    BY <1>3 DEF Issue
  <2> QED BY <1>3, <2>1, CallsEnd, TokenIsIssued
<1>4. ASSUME NEW c \in SessionCalls, Revoke(c) PROVE SessInv'
  <2>1. CASE account.user = auth[c].user
    BY <1>4, <2>1, TokenIsRevoked DEF Revoke
  <2>2. CASE account.user # auth[c].user
    <3>1. AuthEnds(c) /\ UNCHANGED tokens
      BY <1>4, <2>2 DEF Revoke
    <3> QED BY <1>4, <3>1, CallsEnd
  <2> QED BY <2>1, <2>2
<1>5. ASSUME NEW c \in SessionCalls, RemoveCompany(c) \/ AuthFails(c) PROVE SessInv'
  BY <1>5, CallsEnd
<1>6. ASSUME NEW c \in SessionCalls, NEW t \in 1..MaxTokens, Lookup(c, t) PROVE SessInv'
  BY <1>6, TokenIsLookedUp
<1>7. ASSUME NEW t \in 1..MaxTokens, Expire(t) \/ Logout(t) PROVE SessInv'
  BY <1>7, TokenIsEnded
<1>8. CASE DeleteAccount \/ (\E k \in Companies : CreateCompany(k)) \/ UNCHANGED sessionVars
  BY <1>8, AccountChanges
<1> QED BY <1>1, <1>2, <1>3, <1>4, <1>5, <1>6, <1>7, <1>8 DEF SessionsNext

\* A token that is held belongs to the sign-in of its holder, so that a sign-in has no more
\* tokens than its prospects.
LEMMA LiveAreProspects ==
    ASSUME SessInv, NEW n PROVE Cardinality(LiveTokens(n)) <= Prospects(n)
<1> DEFINE S == {c \in Renewals(n) : auth[c].pc = "revoke"}
           f == [c \in S |-> auth[c].token]
           H == {t \in LiveTokens(n) : t \notin FreeTokens(n)}
           R == {f[c] : c \in S}
<1>1. IsFiniteSet(Renewals(n)) /\ IsFiniteSet(FreeTokens(n)) /\ IsFiniteSet(LiveTokens(n))
  BY ProspectsCounted
<1>2. IsFiniteSet(S) /\ Cardinality(S) <= Cardinality(Renewals(n))
  <2>1. S \subseteq Renewals(n)
    OBVIOUS
  <2> QED BY <1>1, <2>1, FS_Subset
<1>3. IsFiniteSet(R) /\ Cardinality(R) <= Cardinality(S)
  <2>1. f \in [S -> R] /\ \A y \in R : \E c \in S : f[c] = y
    OBVIOUS
  <2> HIDE DEF S, f, R
  <2>2. f \in Surjection(S, R)
    BY <2>1 DEF Surjection
  <2> QED BY <1>2, <2>2, FS_Surjection
<1>4. H \subseteq R
  <2>1. SUFFICES ASSUME NEW t \in H PROVE t \in R
    OBVIOUS
  <2>2. PICK c \in SessionCalls : Holds(auth[c], t)
    BY <2>1 DEF FreeTokens
  <2>3. auth[c].pc = "revoke" /\ auth[c].token = t /\ auth[c].root = tokens[t].root
    BY <2>2, SessTyped DEF Holds, CallKnows
  <2>4. c \in S
    BY <2>1, <2>3 DEF Renewals, BusyWith, LiveTokens
  <2> QED BY <2>3, <2>4
<1>5. IsFiniteSet(H) /\ Cardinality(H) <= Cardinality(R)
  <2> HIDE DEF H, R
  <2> QED BY <1>3, <1>4, FS_Subset
<1>6. LiveTokens(n) = H \cup FreeTokens(n) /\ H \cap FreeTokens(n) = {}
  BY DEF FreeTokens
<1> HIDE DEF S, f, H, R
<1>7. Cardinality(LiveTokens(n)) = Cardinality(H) + Cardinality(FreeTokens(n))
  <2>1. Cardinality(H \cap FreeTokens(n)) = 0
    BY <1>6, FS_EmptySet
  <2>2. Cardinality(H \cup FreeTokens(n)) =
          Cardinality(H) + Cardinality(FreeTokens(n)) - Cardinality(H \cap FreeTokens(n))
    BY <1>1, <1>5, FS_Union
  <2>3. Cardinality(H) \in Nat /\ Cardinality(FreeTokens(n)) \in Nat
    BY <1>1, <1>5, FS_CardinalityType
  <2> QED BY <1>6, <2>1, <2>2, <2>3
<1>8. /\ Cardinality(H) \in Nat /\ Cardinality(R) \in Nat /\ Cardinality(S) \in Nat
      /\ Cardinality(Renewals(n)) \in Nat /\ Cardinality(FreeTokens(n)) \in Nat
  BY <1>1, <1>2, <1>3, <1>5, FS_CardinalityType
<1> QED BY <1>2, <1>3, <1>5, <1>7, <1>8 DEF Prospects

\* However renewals, sign-outs, failures and the account's deletion interleave, a sign-in
\* keeps one usable refresh token, and none once it was signed out with a token that no
\* renewal had looked up, save one more for each renewal that looked a token up while
\* another one held it (auth.service.ts, refresh and logout).
THEOREM OneTokenIsLeft == SessionsSpec => [](SessionsTypeOK /\ OneTokenPerSignIn)
<1>1. SessInv => SessionsTypeOK /\ OneTokenPerSignIn
  <2> SUFFICES ASSUME SessInv PROVE SessionsTypeOK /\ OneTokenPerSignIn
    OBVIOUS
  <2>1. SessionsTypeOK
    <3>1. \A c \in SessionCalls : auth[c].pc \in AuthPcs
      BY SessTyped DEF AuthType
    <3>2. account.company \in Companies \cup {"none"}
      BY SessTyped DEF AccountType
    <3>3. out \subseteq 1..MaxTokens
      BY SessTyped, SessionsAssumption
    <3>4. account.user \in 0..account.count
      BY SessTyped
    <3> QED BY <3>1, <3>2, <3>3, <3>4, SessTyped DEF SessionsTypeOK
  <2>2. ASSUME NEW n \in 1..MaxTokens
        PROVE  Cardinality(LiveTokens(n)) <= Allowed(n)
    <3>1. Cardinality(LiveTokens(n)) \in Nat
      BY ProspectsCounted, FS_CardinalityType
    <3> QED BY <3>1, LiveAreProspects, SessTyped
  <2>3. OneTokenPerSignIn
    BY <2>2 DEF OneTokenPerSignIn, Allowed
  <2> QED BY <2>1, <2>3
<1> QED BY <1>1, SessionsBegin, SessionsGoOn, PTL DEF SessionsSpec

-----------------------------------------------------------------------------
(* The review and the booking of an import *)

ImportRow == [status : ImportStatuses, input : InputTypes, draft : SUBSET Entities]
AllMarks == UNION {Marks[e] : e \in Entities}
ContactRow == [by : Nat, of : Entities, marks : SUBSET AllMarks]
TaskRow ==
    [pc : TaskPcs, draft : SUBSET Entities, stale : BOOLEAN,
     seen : SUBSET [by : Nat, draft : SUBSET Entities], left : SUBSET Entities,
     rows : SUBSET ContactRow]

\* What a call that nothing has overtaken has read is still so.
Current(k, entry) ==
    /\ k.pc \in {"mark", "analysis", "review"} => entry.status \notin Closed
    /\ k.pc = "reject" => entry.status # "confirmed"
    /\ k.pc \in {"confirm", "transaction"} => entry.status = "needs_review" /\ k.draft = entry.draft

\* The contacts a transaction has booked so far.
Done(k) == OfKind(k.draft, "contact") \ k.left

\* The rows a transaction has written: those it created, and those of n confirmations.
Writes(k, n) ==
    /\ k.pc # "transaction" => k.rows = {}
    /\ k.pc = "transaction" => k.left \subseteq OfKind(k.draft, "contact")
    /\ \A r \in k.rows : r.by <= n /\ (r.by = 0 => r.of \in Done(k))
    /\ \A r, q \in k.rows : SameRow(r, q) => r = q

\* A first transaction has written only rows it created, with the marks of those booked so
\* far; who shares no mark has the row created for it.
Fresh(k) ==
    k.pc = "transaction" =>
        /\ k.seen = {}
        /\ \A r \in k.rows : r.by = 0 /\ \A m \in r.marks : \E g \in Done(k) : m \in Marks[g]
        /\ \A e \in Done(k) : OnItsOwn(k.draft, e) => NewContact(e) \in k.rows

BooksTyped ==
    /\ confirms \in Nat
    /\ metrics \subseteq [by : 1..confirms, draft : SUBSET Entities]
    /\ revenue \in [EntityKeys -> Entities \cup {NoEntity}]
    /\ costs \in [Entities -> 0..confirms] /\ expensed \subseteq EntityKeys
    /\ contacts \subseteq ContactRow /\ \A r \in contacts : r.by \in 1..confirms

CallsOfImport ==
    /\ imp \in ImportRow /\ overtaken \in Nat
    /\ task \in [ImportCalls -> TaskRow]
    /\ \A c \in ImportCalls :
         /\ task[c].pc # "idle" => imp.status # "none"
         /\ ~task[c].stale => Current(task[c], imp)
         /\ Writes(task[c], confirms)
         /\ overtaken = 0 /\ ~task[c].stale => Fresh(task[c])

\* An import that is confirmed again has been reopened, or was by a call overtaken.
Counted == confirms <= overtaken + IF imp.status = "confirmed" THEN 1 ELSE 0

ImportInv == BooksTyped /\ CallsOfImport /\ Counted /\ BookedAsConfirmed

LEMMA NoTaskTyped ==
    /\ NoTask \in TaskRow /\ NoTask.pc = "idle" /\ NoTask.stale = FALSE /\ NoTask.rows = {}
    /\ NoTask.left = {}
    /\ \A entry : Current(NoTask, entry)
    /\ \A n : Writes(NoTask, n)
  BY DEF NoTask, TaskRow, TaskPcs, Current, Writes

\* A call writes the import: the others are overtaken.
LEMMA ImportIsWritten ==
    ASSUME CallsOfImport, NEW c \in ImportCalls, NEW entry \in ImportRow, NEW next \in TaskRow,
           WriteImport(c, entry, next), entry.status # "none",
           ~next.stale => Current(next, entry),
           next.pc # "transaction", next.rows = {},
           confirms \in Nat, confirms' \in Nat, confirms <= confirms'
    PROVE  /\ CallsOfImport' /\ imp' = entry
           /\ \/ overtaken' = overtaken + 1
              \/ overtaken' = overtaken /\ ~task[c].stale /\ Current(task[c], imp)
<1>1. /\ imp' = entry /\ overtaken' = overtaken + IF task[c].stale THEN 1 ELSE 0
      /\ task' = [d \in ImportCalls |->
           IF d = c THEN next ELSE [task[d] EXCEPT !.stale = @ \/ task[d].pc # "idle"]]
      /\ task \in [ImportCalls -> TaskRow] /\ overtaken \in Nat
      /\ task[c].stale \in BOOLEAN
  BY DEF WriteImport, CallsOfImport, TaskRow
<1>2. /\ task'[c] = next
      /\ \A d \in ImportCalls \ {c} :
           task'[d] = [task[d] EXCEPT !.stale = @ \/ task[d].pc # "idle"]
  BY <1>1
<1>3. ASSUME NEW d \in ImportCalls \ {c}
      PROVE  /\ task'[d] \in TaskRow /\ task'[d].pc = task[d].pc
             /\ task'[d].draft = task[d].draft /\ task'[d].left = task[d].left
             /\ task'[d].rows = task[d].rows /\ (~task'[d].stale => task[d].pc = "idle")
  <2>1. task[d] \in TaskRow
    BY <1>1
  <2> DEFINE b == task[d].stale \/ task[d].pc # "idle"
  <2>2. b \in BOOLEAN /\ (~b => task[d].pc = "idle")
    OBVIOUS
  <2>3. task'[d] = [task[d] EXCEPT !.stale = b]
    BY <1>2
  <2> HIDE DEF b
  <2>4. /\ task'[d] \in TaskRow /\ task'[d].pc = task[d].pc /\ task'[d].stale = b
        /\ task'[d].draft = task[d].draft /\ task'[d].left = task[d].left
        /\ task'[d].rows = task[d].rows
    BY <2>1, <2>2, <2>3 DEF TaskRow
  <2> QED BY <2>2, <2>4
<1>4. task' \in [ImportCalls -> TaskRow]
  <2>1. \A d \in ImportCalls : task'[d] \in TaskRow
    BY <1>2, <1>3
  <2>2. task' = [d \in ImportCalls |-> task'[d]]
    BY <1>1
  <2> QED BY <2>1, <2>2
<1>5. overtaken' \in Nat
      /\ (overtaken' = overtaken + 1 \/ (overtaken' = overtaken /\ ~task[c].stale))
  BY <1>1
<1>6. ASSUME NEW d \in ImportCalls
      PROVE  /\ ~task'[d].stale => Current(task'[d], imp')
             /\ Writes(task'[d], confirms')
             /\ overtaken' = 0 /\ ~task'[d].stale => Fresh(task'[d])
  <2>1. CASE d = c
    <3>1. Writes(next, confirms') /\ Fresh(next)
      BY DEF Writes, Fresh
    <3> QED BY <1>1, <1>2, <1>5, <2>1, <3>1
  <2>2. CASE d # c
    <3>1. Writes(task[d], confirms)
      BY DEF CallsOfImport
    <3>2. \A q \in task[d].rows : q.by \in Nat
      BY <1>1 DEF TaskRow, ContactRow
    <3>3. \A q \in task[d].rows : q.by <= confirms => q.by <= confirms'
      BY <3>2
    <3>4. Writes(task'[d], confirms')
      BY <1>3, <2>2, <3>1, <3>3 DEF Writes, Done
    <3> QED BY <1>3, <2>2, <3>4 DEF Current, Fresh
  <2> QED BY <2>1, <2>2
<1>7. ~task[c].stale => Current(task[c], imp)
  BY DEF CallsOfImport
<1>8. imp' \in ImportRow /\ imp'.status # "none"
  BY <1>1
<1> QED BY <1>1, <1>4, <1>5, <1>6, <1>7, <1>8 DEF CallsOfImport

\* A call changes alone.
LEMMA TaskChanges ==
    ASSUME CallsOfImport, NEW c \in ImportCalls, NEW r \in TaskRow,
           task' = [task EXCEPT ![c] = r], UNCHANGED <<imp, confirms, overtaken>>,
           r.pc # "idle" => imp.status # "none",
           ~r.stale => Current(r, imp), Writes(r, confirms),
           overtaken = 0 /\ ~r.stale => Fresh(r)
    PROVE  CallsOfImport'
<1>1. /\ task' \in [ImportCalls -> TaskRow] /\ task'[c] = r
      /\ \A d \in ImportCalls \ {c} : task'[d] = task[d]
  BY DEF CallsOfImport
<1>2. ASSUME NEW d \in ImportCalls
      PROVE  /\ task'[d].pc # "idle" => imp'.status # "none"
             /\ ~task'[d].stale => Current(task'[d], imp')
             /\ Writes(task'[d], confirms')
             /\ overtaken' = 0 /\ ~task'[d].stale => Fresh(task'[d])
  BY <1>1 DEF CallsOfImport
<1> QED BY <1>1, <1>2 DEF CallsOfImport

LEMMA ImportBegins == ImportInit => ImportInv
<1> SUFFICES ASSUME ImportInit PROVE ImportInv
  OBVIOUS
<1>1. BooksTyped
  BY ImportReviewAssumption DEF ImportInit, BooksTyped
<1>2. CallsOfImport
  <2>1. imp \in ImportRow
    BY DEF ImportInit, ImportRow, ImportStatuses, InputTypes
  <2>2. task \in [ImportCalls -> TaskRow] /\ \A c \in ImportCalls : task[c] = NoTask
    BY NoTaskTyped DEF ImportInit
  <2>3. Fresh(NoTask)
    BY NoTaskTyped DEF Fresh
  <2> QED BY <2>1, <2>2, <2>3, NoTaskTyped DEF ImportInit, CallsOfImport
<1>3. BookedAsConfirmed /\ Counted
  <2>1. BookedOnceEach
    BY DEF ImportInit, BookedOnceEach
  <2> QED BY <2>1 DEF ImportInit, BookedAsConfirmed, BooksEmpty, Counted
<1> QED BY <1>1, <1>2, <1>3 DEF ImportInv

\* The books stay as they are.
LEMMA BooksStay ==
    ASSUME ImportInv, UNCHANGED books, CallsOfImport',
           \/ UNCHANGED <<imp, overtaken>>
           \/ overtaken' = overtaken /\ imp.status # "confirmed" /\ imp'.status # "confirmed"
           \/ overtaken' = overtaken + 1
    PROVE  ImportInv'
<1>1. /\ UNCHANGED <<metrics, revenue, costs, expensed, contacts, confirms>>
      /\ confirms \in Nat /\ overtaken \in Nat /\ Counted
  BY DEF books, ImportInv, BooksTyped, CallsOfImport
<1>2. BooksTyped'
  BY <1>1 DEF ImportInv, BooksTyped
<1>3. Counted'
  BY <1>1 DEF Counted
<1>4. BookedOnceEach'
  <2>1. confirms' <= overtaken' + 1
    <3>1. confirms' <= overtaken' + 1 \/ confirms' <= overtaken' + 0
      BY <1>3 DEF Counted
    <3>2. confirms' \in Nat /\ overtaken' \in Nat
      BY <1>1 DEF CallsOfImport
    <3>3. \A a, b \in Nat : a <= b + 0 => a <= b + 1
      OBVIOUS
    <3> QED BY <3>1, <3>2, <3>3
  <2> QED BY <1>1, <2>1 DEF ImportInv, BookedAsConfirmed, BookedOnceEach
<1>5. ASSUME overtaken' = 0
      PROVE  IF imp'.status = "confirmed" THEN BooksOf(imp.draft)' ELSE BooksEmpty'
  <2>1. BooksEmpty => BooksEmpty'
    BY <1>1 DEF BooksEmpty
  <2>2. CASE UNCHANGED <<imp, overtaken>>
    <3>1. BooksOf(imp.draft) => BooksOf(imp.draft)'
      BY <1>1, <2>2 DEF BooksOf
    <3> QED BY <1>5, <2>1, <2>2, <3>1 DEF ImportInv, BookedAsConfirmed
  <2>3. CASE overtaken' = overtaken /\ imp.status # "confirmed" /\ imp'.status # "confirmed"
    BY <1>5, <2>1, <2>3 DEF ImportInv, BookedAsConfirmed
  <2>4. overtaken' # overtaken + 1
    BY <1>1, <1>5
  <2> QED BY <2>2, <2>3, <2>4
<1> QED BY <1>2, <1>3, <1>4, <1>5 DEF ImportInv, BookedAsConfirmed

\* A look at the import, whatever for.
LEMMA ImportIsOpened ==
    ASSUME ImportInv, NEW c \in ImportCalls, NEW pc, Open(c, pc),
           pc \in {"mark", "review", "reject", "confirm"},
           pc \in {"mark", "review"} => imp.status \notin Closed,
           pc = "reject" => imp.status # "confirmed",
           pc = "confirm" => imp.status = "needs_review"
    PROVE  ImportInv'
<1> DEFINE r == [NoTask EXCEPT !.pc = pc, !.draft = imp.draft]
<1>1. /\ imp.draft \in SUBSET Entities /\ imp.status # "none"
      /\ task' = [task EXCEPT ![c] = r] /\ UNCHANGED <<imp, books, overtaken>>
  BY DEF Open, ImportInv, CallsOfImport, ImportRow
<1>2. ASSUME NEW k \in TaskRow
      PROVE  LET n == [k EXCEPT !.pc = pc, !.draft = imp.draft]
             IN  n \in TaskRow /\ n.pc = pc /\ n.draft = imp.draft /\ n.rows = k.rows
  BY <1>1, <1>2 DEF TaskRow, TaskPcs
<1>3. r \in TaskRow /\ r.pc = pc /\ r.draft = imp.draft /\ r.rows = {}
  BY <1>2, NoTaskTyped, Zenon
<1> HIDE DEF r
<1>4. Current(r, imp) /\ Writes(r, confirms) /\ Fresh(r)
  BY <1>3 DEF Current, Writes, Fresh
<1>5. CallsOfImport'
  BY <1>1, <1>3, <1>4, TaskChanges DEF ImportInv, books
<1> QED BY <1>1, <1>5, BooksStay

LEMMA AnswersAreEntities ==
    ASSUME NEW input PROVE AnalysisResults(input) \subseteq SUBSET Entities
  BY ImportReviewAssumption
     DEF AnalysisResults, AnswerToBinary, CsvEntities, ModelAnswers, MergeAnalysis

\* Analysis, review and rejection write over what they have read.
LEMMA ImportIsStored ==
    ASSUME ImportInv, NEW c \in ImportCalls,
           MarkAnalyzing(c) \/ StoreAnalysis(c) \/ StoreReview(c) \/ StoreReject(c)
    PROVE  ImportInv'
<1>1. /\ imp \in ImportRow /\ task[c] \in TaskRow /\ CallsOfImport
      /\ UNCHANGED books /\ task[c].pc \in {"mark", "analysis", "review", "reject"}
  BY DEF ImportInv, CallsOfImport, MarkAnalyzing, StoreAnalysis, StoreReview, StoreReject
<1>2. ASSUME NEW entry \in ImportRow, NEW next \in TaskRow, WriteImport(c, entry, next),
             entry.status \notin {"none", "confirmed"}, next.pc # "transaction", next.rows = {},
             ~next.stale => Current(next, entry)
      PROVE  ImportInv'
  <2>1. confirms \in Nat /\ confirms' = confirms
    BY <1>1 DEF books, ImportInv, BooksTyped
  <2>2. /\ CallsOfImport' /\ imp' = entry
        /\ \/ overtaken' = overtaken + 1
           \/ overtaken' = overtaken /\ ~task[c].stale /\ Current(task[c], imp)
    BY <1>1, <1>2, <2>1, ImportIsWritten
  <2>3. \/ overtaken' = overtaken + 1
        \/ overtaken' = overtaken /\ imp.status # "confirmed" /\ imp'.status # "confirmed"
    BY <1>1, <1>2, <2>2 DEF Current, Closed
  <2> QED BY <1>1, <2>2, <2>3, BooksStay
<1>3. CASE MarkAnalyzing(c)
  <2> DEFINE entry == [imp EXCEPT !.status = "analyzing"]
             next == [task[c] EXCEPT !.pc = "analysis"]
  <2>1. entry \in ImportRow /\ entry.status = "analyzing"
    BY <1>1 DEF ImportRow, ImportStatuses
  <2>2. next \in TaskRow /\ next.stale = task[c].stale /\ next.pc = "analysis" /\ next.rows = {}
    BY <1>1 DEF TaskRow, TaskPcs, CallsOfImport, Writes
  <2>3. WriteImport(c, entry, next)
    BY <1>3 DEF MarkAnalyzing
  <2> HIDE DEF entry, next
  <2>4. Current(next, entry)
    BY <2>1, <2>2 DEF Current, Closed
  <2> QED BY <1>2, <2>1, <2>2, <2>3, <2>4
<1>4. CASE StoreAnalysis(c)
  <2>1. PICK draft \in AnalysisResults(imp.input) :
          \E status \in AnalysisStatuses(imp.input, draft) :
            WriteImport(c, [imp EXCEPT !.status = status, !.draft = draft], NoTask)
    BY <1>4 DEF StoreAnalysis
  <2>2. PICK status \in {"needs_review", "failed"} :
          WriteImport(c, [imp EXCEPT !.status = status, !.draft = draft], NoTask)
    BY <2>1 DEF AnalysisStatuses
  <2> DEFINE entry == [imp EXCEPT !.status = status, !.draft = draft]
  <2>3. draft \in SUBSET Entities
    BY <2>1, AnswersAreEntities
  <2>4. entry \in ImportRow /\ entry.status = status
    BY <1>1, <2>2, <2>3 DEF ImportRow, ImportStatuses
  <2> HIDE DEF entry
  <2> QED BY <1>2, <2>2, <2>4, NoTaskTyped DEF entry
<1>5. CASE StoreReview(c)
  <2>1. PICK draft \in Extractions \cup {task[c].draft} :
          WriteImport(c, [imp EXCEPT !.status = "needs_review", !.draft = draft], NoTask)
    BY <1>5 DEF StoreReview
  <2> DEFINE entry == [imp EXCEPT !.status = "needs_review", !.draft = draft]
  <2>2. draft \in SUBSET Entities
    BY <1>1, <2>1, ImportReviewAssumption DEF TaskRow
  <2>3. entry \in ImportRow /\ entry.status = "needs_review"
    BY <1>1, <2>2 DEF ImportRow, ImportStatuses
  <2> HIDE DEF entry
  <2> QED BY <1>2, <2>1, <2>3, NoTaskTyped DEF entry
<1>6. CASE StoreReject(c)
  <2> DEFINE entry == [imp EXCEPT !.status = "rejected"]
  <2>1. entry \in ImportRow /\ entry.status = "rejected"
    BY <1>1 DEF ImportRow, ImportStatuses
  <2>2. WriteImport(c, entry, NoTask)
    BY <1>6 DEF StoreReject
  <2> HIDE DEF entry
  <2> QED BY <1>2, <2>1, <2>2, NoTaskTyped
<1> QED BY <1>3, <1>4, <1>5, <1>6

LEMMA TransactionOpens ==
    ASSUME ImportInv, NEW c \in ImportCalls, OpenTransaction(c) PROVE ImportInv'
<1> DEFINE left == OfKind(task[c].draft, "contact")
           r == [task[c] EXCEPT !.pc = "transaction", !.seen = metrics, !.left = left]
<1>1. /\ task[c] \in TaskRow /\ task[c].pc = "confirm" /\ task \in [ImportCalls -> TaskRow]
      /\ imp.status # "none" /\ UNCHANGED <<imp, books, overtaken>> /\ CallsOfImport
      /\ task[c].rows = {} /\ (~task[c].stale => Current(task[c], imp))
      /\ task' = [task EXCEPT ![c].pc = "transaction", ![c].seen = metrics, ![c].left = left]
  BY DEF OpenTransaction, ImportInv, CallsOfImport, Writes
<1>2. task' = [task EXCEPT ![c] = r]
  BY <1>1 DEF TaskRow
<1>3. metrics \in SUBSET [by : Nat, draft : SUBSET Entities] /\ left \in SUBSET Entities
  BY <1>1 DEF ImportInv, BooksTyped, OfKind, TaskRow
<1>4. /\ r \in TaskRow /\ r.pc = "transaction" /\ r.seen = metrics /\ r.left = left
      /\ r.draft = task[c].draft /\ r.stale = task[c].stale /\ r.rows = {}
  <2> HIDE DEF left
  <2> QED BY <1>1, <1>3 DEF TaskRow, TaskPcs
<1> HIDE DEF r
<1>5. ~r.stale => Current(r, imp)
  BY <1>1, <1>4 DEF Current, Closed
<1>6. Writes(r, confirms)
  BY <1>4 DEF Writes
<1>7. ASSUME overtaken = 0, ~r.stale PROVE Fresh(r)
  <2>1. imp.status = "needs_review"
    BY <1>1, <1>4, <1>7 DEF Current
  <2>2. metrics = {}
    BY <1>7, <2>1 DEF ImportInv, BookedAsConfirmed, BooksEmpty
  <2>3. Done(r) = {}
    BY <1>4 DEF Done
  <2> QED BY <1>4, <2>2, <2>3 DEF Fresh
<1>8. CallsOfImport'
  BY <1>1, <1>2, <1>4, <1>5, <1>6, <1>7, TaskChanges DEF books
<1> QED BY <1>1, <1>8, BooksStay

LEMMA ContactIsUpdated ==
    ASSUME NEW r \in ContactRow, NEW e \in Entities
    PROVE  /\ Updated(r, e) \in ContactRow /\ Updated(r, e).by = r.by /\ Updated(r, e).of = r.of
           /\ \A m \in Updated(r, e).marks : m \in Marks[e] \/ m \in r.marks
<1> DEFINE kept == {m \in r.marks : \A n \in Marks[e] : FieldOf[n] # FieldOf[m]}
           marks == Marks[e] \cup kept
<1>1. Updated(r, e) = [r EXCEPT !.marks = marks]
  BY DEF Updated, ContactRow
<1>2. marks \in SUBSET AllMarks /\ \A m \in marks : m \in Marks[e] \/ m \in r.marks
  BY DEF ContactRow, AllMarks
<1> HIDE DEF marks
<1>3. [r EXCEPT !.marks = marks] \in ContactRow
  BY <1>2 DEF ContactRow
<1> QED BY <1>1, <1>2, <1>3 DEF ContactRow

\* A contact is booked: into a row that has one of its marks, or a new one.
LEMMA ContactIsBooked ==
    ASSUME ImportInv, NEW c \in ImportCalls, NEW e \in Entities, BookContact(c, e)
    PROVE  ImportInv'
<1> DEFINE k == task[c]
           found == {r \in View(k) : r.marks \cap Marks[e] # {}}
<1>1. /\ k \in TaskRow /\ k.pc = "transaction" /\ e \in k.left
      /\ task \in [ImportCalls -> TaskRow] /\ imp.status # "none" /\ confirms \in Nat
      /\ UNCHANGED <<imp, books, overtaken>> /\ CallsOfImport
      /\ Writes(k, confirms) /\ (~k.stale => Current(k, imp))
      /\ overtaken = 0 /\ ~k.stale => Fresh(k)
  BY DEF BookContact, ImportInv, CallsOfImport, BooksTyped
<1>2. PICK held :
        /\ task' = [task EXCEPT ![c].left = @ \ {e}, ![c].rows = held]
        /\ \/ found = {} /\ held = k.rows \cup {NewContact(e)}
           \/ \E r \in found :
                held = {q \in k.rows : ~SameRow(q, r)} \cup {Updated(r, e)}
  BY DEF BookContact
<1> DEFINE left == k.left \ {e}
           n == [k EXCEPT !.left = left, !.rows = held]
<1>3. /\ contacts \subseteq ContactRow /\ (\A r \in contacts : r.by \in 1..confirms)
      /\ k.rows \subseteq ContactRow /\ View(k) \subseteq ContactRow
      /\ k.left \subseteq OfKind(k.draft, "contact")
  BY <1>1 DEF ImportInv, BooksTyped, TaskRow, View, Writes
<1>4. /\ NewContact(e) \in ContactRow /\ NewContact(e).by = 0 /\ NewContact(e).of = e
      /\ NewContact(e).marks = Marks[e]
  BY DEF NewContact, ContactRow, AllMarks
<1>5. ASSUME NEW r \in found
      PROVE  /\ r \in ContactRow /\ r.by \in Nat /\ r.by <= confirms
             /\ (r.by = 0 => r \in k.rows /\ r.of \in Done(k))
             /\ Updated(r, e) \in ContactRow
             /\ Updated(r, e).by = r.by /\ Updated(r, e).of = r.of
             /\ \A m \in Updated(r, e).marks : m \in Marks[e] \/ m \in r.marks
  <2>1. r \in ContactRow /\ (r \in contacts \/ r \in k.rows)
    BY <1>3 DEF View
  <2>2. r.by \in Nat
    BY <2>1 DEF ContactRow
  <2>3. r \in contacts => r.by <= confirms /\ r.by # 0
    BY <1>1, <1>3
  <2>4. r \in k.rows => r.by <= confirms /\ (r.by = 0 => r.of \in Done(k))
    BY <1>1 DEF Writes
  <2> QED BY <2>1, <2>2, <2>3, <2>4, ContactIsUpdated
<1>6. held \in SUBSET ContactRow
  BY <1>2, <1>3, <1>4, <1>5
<1>7. task' = [task EXCEPT ![c] = n]
  <2>1. n = [k EXCEPT !.left = left, !.rows = held]
    BY DEF n
  <2> QED BY <1>1, <1>2, <2>1 DEF TaskRow
<1>8. /\ n \in TaskRow /\ n.pc = "transaction" /\ n.left = left /\ n.rows = held
      /\ n.draft = k.draft /\ n.stale = k.stale /\ n.seen = k.seen
  <2>1. left \in SUBSET Entities
    BY <1>1 DEF TaskRow
  <2> HIDE DEF left, k
  <2> QED BY <1>1, <1>6, <2>1 DEF TaskRow
<1> HIDE DEF n
<1>9. Done(n) = Done(k) \cup {e} /\ e \notin Done(k)
  BY <1>1, <1>3, <1>8 DEF Done
<1>10. ~n.stale => Current(n, imp)
  BY <1>1, <1>8 DEF Current
<1>11. Writes(n, confirms)
  <2>1. ASSUME NEW r \in held PROVE r.by <= confirms /\ (r.by = 0 => r.of \in Done(n))
    <3>1. r \in k.rows => r.by <= confirms /\ (r.by = 0 => r.of \in Done(k))
      BY <1>1 DEF Writes
    <3> QED BY <1>1, <1>2, <1>4, <1>5, <1>9, <2>1, <3>1
  <2>2. ASSUME NEW r \in held, NEW q \in held, SameRow(r, q) PROVE r = q
    <3>1. \A x, y \in k.rows : SameRow(x, y) => x = y
      BY <1>1 DEF Writes
    <3>2. CASE held = k.rows \cup {NewContact(e)}
      <4>1. \A x \in k.rows : x.by = 0 => x.of # e
        BY <1>1, <1>9 DEF Writes
      <4> QED BY <1>4, <2>2, <3>1, <3>2, <4>1 DEF SameRow
    <3>3. ASSUME NEW x \in found, held = {y \in k.rows : ~SameRow(y, x)} \cup {Updated(x, e)}
          PROVE  r = q
      <4>1. \A y : SameRow(y, Updated(x, e)) => SameRow(y, x)
        BY <1>5 DEF SameRow
      <4>2. SameRow(q, r)
        BY <2>2 DEF SameRow
      <4> QED BY <2>2, <3>1, <3>3, <4>1, <4>2
    <3> QED BY <1>2, <3>2, <3>3
  <2>3. n.left \subseteq OfKind(n.draft, "contact")
    BY <1>3, <1>8
  <2> QED BY <1>8, <2>1, <2>2, <2>3 DEF Writes
<1>12. ASSUME overtaken = 0, ~n.stale PROVE Fresh(n)
  <2>1. /\ Fresh(k) /\ imp.status = "needs_review"
    BY <1>1, <1>8, <1>12 DEF Current
  <2>2. contacts = {}
    BY <1>12, <2>1 DEF ImportInv, BookedAsConfirmed, BooksEmpty
  <2>3. View(k) = k.rows
    BY <2>2 DEF View
  <2>4. /\ k.seen = {}
        /\ \A r \in k.rows : r.by = 0 /\ \A m \in r.marks : \E g \in Done(k) : m \in Marks[g]
        /\ \A x \in Done(k) : OnItsOwn(k.draft, x) => NewContact(x) \in k.rows
    BY <1>1, <2>1 DEF Fresh
  <2>5. ASSUME NEW r \in held
        PROVE  r.by = 0 /\ \A m \in r.marks : \E g \in Done(n) : m \in Marks[g]
    <3>1. r \in k.rows \/ r = NewContact(e) \/ \E x \in found : r = Updated(x, e)
      BY <1>2, <2>5
    <3>2. CASE r \in k.rows \/ r = NewContact(e)
      BY <1>4, <1>9, <2>4, <3>2
    <3>3. ASSUME NEW x \in found, r = Updated(x, e)
          PROVE  r.by = 0 /\ \A m \in r.marks : \E g \in Done(n) : m \in Marks[g]
      BY <1>5, <1>9, <2>3, <2>4, <3>3
    <3> QED BY <3>1, <3>2, <3>3
  <2>6. ASSUME NEW x \in Done(n), OnItsOwn(n.draft, x) PROVE NewContact(x) \in held
    <3>1. \A g \in Done(k) : g \in OfKind(k.draft, "contact")
      BY DEF Done
    <3>2. e \in OfKind(k.draft, "contact")
      BY <1>1, <1>3
    <3>3. CASE x = e
      <4>1. ASSUME NEW r \in k.rows PROVE r.marks \cap Marks[e] = {}
        <5>1. \A m \in r.marks : \E g \in OfKind(k.draft, "contact") \ {e} : m \in Marks[g]
          BY <1>9, <2>4, <3>1, <4>1
        <5>2. \A g \in OfKind(k.draft, "contact") \ {e} : Marks[g] \cap Marks[e] = {}
          BY <1>8, <2>6, <3>3 DEF OnItsOwn
        <5> QED BY <5>1, <5>2
      <4>2. found = {}
        BY <2>3, <4>1
      <4> QED BY <1>2, <3>3, <4>2
    <3>4. CASE x # e
      <4>1. x \in Done(k) /\ NewContact(x) \in k.rows
        BY <1>8, <1>9, <2>4, <2>6, <3>4
      <4>2. /\ NewContact(x).marks = Marks[x] /\ NewContact(x).by = 0 /\ NewContact(x).of = x
            /\ Marks[x] \cap Marks[e] = {}
        BY <1>8, <2>6, <3>2, <3>4 DEF OnItsOwn, NewContact
      <4>3. ASSUME NEW r \in found, SameRow(NewContact(x), r) PROVE FALSE
        <5>1. r \in k.rows /\ r.marks \cap Marks[e] # {}
          BY <2>3
        <5>2. NewContact(x) = r
          BY <1>1, <4>1, <4>3, <5>1 DEF Writes
        <5> QED BY <4>2, <5>1, <5>2
      <4> QED BY <1>2, <4>1, <4>3
    <3> QED BY <3>3, <3>4
  <2> QED BY <1>8, <2>4, <2>5, <2>6 DEF Fresh
<1>13. CallsOfImport'
  BY <1>1, <1>7, <1>8, <1>10, <1>11, <1>12, TaskChanges DEF books
<1> QED BY <1>1, <1>13, BooksStay

\* The entities are booked, once more if it is not the first time.
LEMMA ImportIsBooked ==
    ASSUME ImportInv, NEW c \in ImportCalls, CommitConfirm(c) PROVE ImportInv'
<1> DEFINE k == task[c]
           draft == k.draft
           entry == [imp EXCEPT !.status = "confirmed"]
           m == [by |-> confirms + 1, draft |-> draft]
<1>1. /\ k \in TaskRow /\ draft \in SUBSET Entities /\ imp \in ImportRow
      /\ CallsOfImport /\ BooksTyped /\ k.pc = "transaction" /\ k.left = {}
      /\ confirms \in Nat /\ confirms' = confirms + 1 /\ overtaken \in Nat
      /\ metrics' = (metrics \ k.seen) \cup {m}
      /\ Writes(k, confirms) /\ (overtaken = 0 /\ ~k.stale => Fresh(k))
  BY DEF ImportInv, CallsOfImport, TaskRow, CommitConfirm, BooksTyped
<1>2. BookOrders(draft) /\ BookCosts(draft) /\ BookContacts(k) /\ WriteImport(c, entry, NoTask)
  BY DEF CommitConfirm
<1>3. entry \in ImportRow /\ entry.status = "confirmed" /\ entry.draft = imp.draft
  BY <1>1 DEF ImportRow, ImportStatuses
<1> HIDE DEF entry
<1>4. /\ CallsOfImport' /\ imp' = entry
      /\ \/ overtaken' = overtaken + 1
         \/ overtaken' = overtaken /\ ~k.stale /\ Current(k, imp)
  BY <1>1, <1>2, <1>3, NoTaskTyped, ImportIsWritten
<1>5. \A r \in k.rows : r \in ContactRow /\ r.by \in Nat /\ r.of \in Entities /\ r.by <= confirms
  BY <1>1 DEF TaskRow, ContactRow, Writes
<1> DEFINE Placed(q) == [q EXCEPT !.by = IF @ = 0 THEN confirms + 1 ELSE @]
<1>6. ASSUME NEW q \in k.rows
      PROVE  /\ Placed(q) \in ContactRow /\ Placed(q).of = q.of /\ Placed(q).marks = q.marks
             /\ Placed(q).by = IF q.by = 0 THEN confirms + 1 ELSE q.by
  <2> DEFINE by == IF q.by = 0 THEN confirms + 1 ELSE q.by
  <2>1. q \in ContactRow /\ by \in Nat
    BY <1>1, <1>5
  <2>2. Placed(q) = [q EXCEPT !.by = by]
    BY <2>1 DEF ContactRow
  <2> HIDE DEF by, Placed
  <2>3. /\ [q EXCEPT !.by = by] \in ContactRow /\ [q EXCEPT !.by = by].by = by
        /\ [q EXCEPT !.by = by].of = q.of /\ [q EXCEPT !.by = by].marks = q.marks
    BY <2>1 DEF ContactRow
  <2> QED BY <2>2, <2>3 DEF by
<1>7. contacts' = {r \in contacts : \A q \in k.rows : ~SameRow(r, q)} \cup {Placed(q) : q \in k.rows}
  BY <1>2 DEF BookContacts
<1> HIDE DEF Placed
<1>8. BooksTyped'
  <2>1. metrics' \subseteq [by : 1..confirms', draft : SUBSET Entities]
    <3>1. m \in [by : 1..confirms', draft : SUBSET Entities]
      BY <1>1
    <3>2. metrics \subseteq [by : 1..confirms', draft : SUBSET Entities]
      BY <1>1 DEF BooksTyped
    <3> QED BY <1>1, <3>1, <3>2
  <2>2. revenue' \in [EntityKeys -> Entities \cup {NoEntity}]
    <3> DEFINE orders == OfKind(draft, "order")
               keys == {EntityKey[e] : e \in orders}
    <3>1. PICK last \in [keys -> orders] :
            revenue' = [x \in EntityKeys |-> IF x \in keys THEN last[x] ELSE revenue[x]]
      BY <1>2 DEF BookOrders
    <3>2. orders \subseteq Entities
      BY <1>1 DEF OfKind
    <3>3. \A x \in keys : last[x] \in Entities
      BY <3>1, <3>2
    <3>4. \A x \in EntityKeys : revenue[x] \in Entities \cup {NoEntity}
      BY <1>1 DEF BooksTyped
    <3> HIDE DEF keys, orders
    <3> QED BY <3>1, <3>3, <3>4
  <2>3. costs' \in [Entities -> 0..confirms'] /\ expensed' \subseteq EntityKeys
    <3>1. costs' \in [Entities -> 0..confirms']
      BY <1>1, <1>2 DEF BookCosts, BooksTyped
    <3>2. {EntityKey[e] : e \in OfKind(draft, "cost")} \subseteq EntityKeys
      BY <1>1 DEF OfKind, EntityKeys
    <3> QED BY <1>1, <1>2, <3>1, <3>2 DEF BookCosts, BooksTyped
  <2>4. contacts' \subseteq ContactRow /\ \A r \in contacts' : r.by \in 1..confirms'
    <3>1. ASSUME NEW r \in contacts' PROVE r \in ContactRow /\ r.by \in 1..confirms'
      <4>1. CASE r \in contacts
        BY <1>1, <4>1 DEF BooksTyped
      <4>2. ASSUME NEW q \in k.rows, r = Placed(q) PROVE r \in ContactRow /\ r.by \in 1..confirms'
        BY <1>1, <1>5, <1>6, <4>2
      <4> QED BY <1>7, <3>1, <4>1, <4>2
    <3> QED BY <3>1
  <2> QED BY <1>1, <2>1, <2>2, <2>3, <2>4 DEF BooksTyped
<1>9. confirms <= overtaken' /\ Counted'
  <2>1. confirms <= overtaken + IF imp.status = "confirmed" THEN 1 ELSE 0
    BY DEF ImportInv, Counted
  <2>2. CASE overtaken' = overtaken + 1
    BY <1>1, <1>3, <1>4, <2>1, <2>2 DEF Counted
  <2>3. CASE overtaken' = overtaken /\ Current(k, imp)
    BY <1>1, <1>3, <1>4, <2>1, <2>3 DEF Counted, Current
  <2> QED BY <1>4, <2>2, <2>3
<1>10. BookedOnceEach'
  <2>1. confirms' <= overtaken' + 1 /\ \A e \in Entities : costs'[e] <= confirms'
    <3>1. overtaken' \in Nat /\ confirms' <= overtaken' + 1
      BY <1>1, <1>4, <1>9
    <3>2. costs' \in [Entities -> 0..confirms'] /\ confirms' \in Nat
      BY <1>1, <1>8 DEF BooksTyped
    <3>3. \A n \in Nat : \A f \in [Entities -> 0..n] : \A e \in Entities : f[e] <= n
      OBVIOUS
    <3> QED BY <3>1, <3>2, <3>3
  <2>2. expensed' = {EntityKey[e] : e \in {x \in Entities : costs'[x] > 0}}
    <3>1. expensed = {EntityKey[e] : e \in {x \in Entities : costs[x] > 0}}
      BY DEF ImportInv, BookedAsConfirmed, BookedOnceEach
    <3>2. /\ expensed' = expensed \cup {EntityKey[e] : e \in OfKind(draft, "cost")}
          /\ \A e \in Entities : costs[e] \in Nat
          /\ \A e \in Entities : costs'[e] = costs[e] + IF e \in OfKind(draft, "cost") THEN 1 ELSE 0
      BY <1>1, <1>2 DEF BookCosts, BooksTyped
    <3>3. OfKind(draft, "cost") \subseteq Entities
      BY <1>1 DEF OfKind
    <3>4. \A e \in Entities : costs'[e] > 0 <=> costs[e] > 0 \/ e \in OfKind(draft, "cost")
      BY <3>2
    <3> QED BY <3>1, <3>2, <3>3, <3>4
  <2>3. ASSUME NEW r \in contacts', NEW q \in contacts', SameRow(r, q) PROVE r = q
    <3>1. /\ \A x, y \in contacts : SameRow(x, y) => x = y
          /\ \A x, y \in k.rows : SameRow(x, y) => x = y
      BY <1>1 DEF ImportInv, BookedAsConfirmed, BookedOnceEach, Writes
    <3>2. \A x \in contacts : x.by \in 1..confirms
      BY <1>1 DEF BooksTyped
    <3>3. ASSUME NEW x \in contacts, NEW y \in k.rows, SameRow(x, Placed(y)) PROVE SameRow(x, y)
      <4>1. x.by <= confirms /\ x.by = IF y.by = 0 THEN confirms + 1 ELSE y.by
        BY <1>1, <1>6, <3>2, <3>3 DEF SameRow
      <4> QED BY <1>1, <1>6, <3>3, <4>1 DEF SameRow
    <3>4. ASSUME NEW x \in k.rows, NEW y \in k.rows, SameRow(Placed(x), Placed(y)) PROVE x = y
      <4>1. /\ x.of = y.of /\ x.by \in Nat /\ y.by \in Nat /\ x.by <= confirms /\ y.by <= confirms
            /\ (IF x.by = 0 THEN confirms + 1 ELSE x.by) = (IF y.by = 0 THEN confirms + 1 ELSE y.by)
        BY <1>5, <1>6, <3>4 DEF SameRow
      <4>2. x.by = y.by
        BY <1>1, <4>1
      <4> QED BY <3>1, <4>1, <4>2 DEF SameRow
    <3>5. SameRow(q, r)
      BY <2>3 DEF SameRow
    <3> QED BY <1>7, <2>3, <3>1, <3>3, <3>4, <3>5
  <2> QED BY <2>1, <2>2, <2>3 DEF BookedOnceEach
<1>11. ASSUME overtaken' = 0 PROVE BooksOf(imp.draft)'
  <2>1. /\ overtaken = 0 /\ confirms = 0 /\ ~k.stale /\ Current(k, imp) /\ Fresh(k)
    BY <1>1, <1>4, <1>9, <1>11
  <2>2. /\ imp.status = "needs_review" /\ draft = imp.draft /\ imp'.draft = draft /\ k.seen = {}
    BY <1>1, <1>3, <1>4, <2>1 DEF Current, Fresh
  <2>3. BooksEmpty
    BY <2>1, <2>2 DEF ImportInv, BookedAsConfirmed
  <2>4. metrics' = {[by |-> 1, draft |-> draft]}
    BY <1>1, <2>1, <2>3 DEF BooksEmpty
  <2>5. ASSUME NEW x \in EntityKeys
        PROVE  IF \E e \in OfKind(draft, "order") : EntityKey[e] = x
               THEN revenue'[x] \in draft /\ EntityKey[revenue'[x]] = x
               ELSE revenue'[x] = NoEntity
    <3> DEFINE orders == OfKind(draft, "order")
               keys == {EntityKey[e] : e \in orders}
    <3>1. PICK last \in [keys -> orders] :
            /\ \A y \in keys : EntityKey[last[y]] = y
            /\ revenue' = [y \in EntityKeys |-> IF y \in keys THEN last[y] ELSE revenue[y]]
      BY <1>2 DEF BookOrders
    <3>2. CASE x \in keys
      <4>1. revenue'[x] = last[x] /\ last[x] \in orders
        BY <3>1, <3>2
      <4> QED BY <3>1, <3>2, <4>1 DEF OfKind
    <3>3. CASE x \notin keys
      <4>1. revenue'[x] = revenue[x]
        BY <3>1, <3>3
      <4> QED BY <2>3, <3>3, <4>1 DEF BooksEmpty
    <3> QED BY <3>2, <3>3
  <2>6. ASSUME NEW e \in Entities PROVE costs'[e] = IF e \in OfKind(draft, "cost") THEN 1 ELSE 0
    BY <1>2, <2>3 DEF BookCosts, BooksEmpty
  <2>7. contacts' = {Placed(q) : q \in k.rows}
    BY <1>7, <2>3 DEF BooksEmpty
  <2>8. Done(k) = OfKind(draft, "contact")
    BY <1>1 DEF Done
  <2>9. \A r \in contacts' : r.of \in OfKind(draft, "contact")
    <3>1. \A q \in k.rows : q.by = 0 /\ q.of \in Done(k)
      BY <1>1, <2>1 DEF Fresh, Writes
    <3> QED BY <1>6, <2>7, <2>8, <3>1
  <2>10. ASSUME NEW e \in OfKind(draft, "contact"), OnItsOwn(draft, e)
         PROVE  \E r \in contacts' : r.of = e /\ r.marks = Marks[e]
    <3>1. NewContact(e) \in k.rows
      BY <1>1, <2>1, <2>8, <2>10 DEF Fresh
    <3>2. NewContact(e).of = e /\ NewContact(e).marks = Marks[e]
      BY DEF NewContact
    <3> QED BY <1>6, <2>7, <3>1, <3>2
  <2> QED BY <2>2, <2>4, <2>5, <2>6, <2>9, <2>10 DEF BooksOf
<1>12. BookedAsConfirmed'
  BY <1>3, <1>4, <1>10, <1>11 DEF BookedAsConfirmed
<1> QED BY <1>4, <1>8, <1>9, <1>12 DEF ImportInv

LEMMA ImportGoesOn == ImportInv /\ [ImportNext]_importVars => ImportInv'
<1> SUFFICES ASSUME ImportInv, [ImportNext]_importVars PROVE ImportInv'
  OBVIOUS
<1>1. ASSUME NEW input \in InputTypes, Upload(input) PROVE ImportInv'
  <2>1. /\ imp.status = "none" /\ UNCHANGED <<books, task, overtaken>>
        /\ imp' = [status |-> "uploaded", input |-> input, draft |-> {}]
    BY <1>1 DEF Upload
  <2>2. imp' \in ImportRow /\ imp'.status = "uploaded"
    BY <2>1 DEF ImportRow, ImportStatuses
  <2>3. \A c \in ImportCalls : task[c].pc = "idle"
    BY <2>1 DEF ImportInv, CallsOfImport
  <2>4. UNCHANGED <<task, overtaken, confirms>>
    BY <2>1 DEF books
  <2>5. CallsOfImport'
    BY <2>2, <2>3, <2>4 DEF ImportInv, CallsOfImport, Current
  <2> QED BY <2>1, <2>2, <2>5, BooksStay
<1>2. ASSUME NEW c \in ImportCalls,
             BeginAnalysis(c) \/ BeginReview(c) \/ BeginReject(c) \/ BeginConfirm(c)
      PROVE  ImportInv'
  BY <1>2, ImportIsOpened DEF BeginAnalysis, BeginReview, BeginReject, BeginConfirm
<1>3. ASSUME NEW c \in ImportCalls,
             MarkAnalyzing(c) \/ StoreAnalysis(c) \/ StoreReview(c) \/ StoreReject(c)
      PROVE  ImportInv'
  BY <1>3, ImportIsStored
<1>4. ASSUME NEW c \in ImportCalls, TaskEnds(c) PROVE ImportInv'
  <2>1. task' = [task EXCEPT ![c] = NoTask] /\ UNCHANGED <<imp, books, overtaken>>
    BY <1>4 DEF TaskEnds
  <2>2. Fresh(NoTask)
    BY NoTaskTyped DEF Fresh
  <2>3. CallsOfImport'
    BY <2>1, <2>2, NoTaskTyped, TaskChanges DEF ImportInv, books
  <2> QED BY <2>1, <2>3, BooksStay
<1>5. CASE UNCHANGED importVars
  <2>1. UNCHANGED <<imp, books, task, overtaken>>
    BY <1>5 DEF importVars, books
  <2>2. CallsOfImport'
    BY <2>1 DEF ImportInv, CallsOfImport, books
  <2> QED BY <2>1, <2>2, BooksStay
<1> QED BY <1>1, <1>2, <1>3, <1>4, <1>5, TransactionOpens, ContactIsBooked,
           ImportIsBooked DEF ImportNext

\* An import is booked again only for a call that wrote over what it had not read, and as
\* long as none has, the books hold exactly the extraction of a confirmed import, once, and
\* nothing of one that is not (intelligent-imports.service.ts, confirmImport).
THEOREM ImportIsBookedOnce == ImportSpec => [](ImportTypeOK /\ BookedAsConfirmed)
<1>1. ImportInv => ImportTypeOK /\ BookedAsConfirmed
  <2> SUFFICES ASSUME ImportInv PROVE ImportTypeOK /\ BookedAsConfirmed
    OBVIOUS
  <2>1. \A m \in metrics : m.by \in 1..confirms /\ m.draft \subseteq Entities
    BY DEF ImportInv, BooksTyped
  <2>2. \A c \in ImportCalls : task[c].pc \in TaskPcs /\ task[c].draft \subseteq Entities
    BY DEF ImportInv, CallsOfImport, TaskRow
  <2>3. \A r \in contacts : r.by \in 1..confirms /\ r.of \in Entities
    BY DEF ImportInv, BooksTyped, ContactRow
  <2> QED BY <2>1, <2>2, <2>3
          DEF ImportInv, ImportTypeOK, BooksTyped, CallsOfImport, ImportRow
<1> QED BY <1>1, ImportBegins, ImportGoesOn, PTL DEF ImportSpec

-----------------------------------------------------------------------------
(* The confirmations of a CSV job *)

ConfirmRow ==
    [pc : ConfirmPcs, mapping : Mappings \cup {NoMapping}, line : 1..CsvLines,
     seen : SUBSET CsvValues, imported : Nat, failed : Nat, dropped : BOOLEAN]
JobRow ==
    [status : CsvStatuses, mapping : Mappings \cup {NoMapping}, imported : Nat, failed : Nat,
     kind : CsvKinds]

\* IsStored and CsvEndedMeansStored of the rows s.
Matched(s, v) == \E w \in Duplicates(v) : s[w] > 0
Kept(s, v) == (v \in CsvValues /\ s[v] > 0) \/ Matched(s, v)
LineStored(s, v) == v # "invalid" => Kept(s, v)
FileStored(s, kind, m) ==
    kind # "order" => \A i \in 1..CsvLines : LineStored(s, Reading[m][i])

\* No value is stored twice that finds itself, nor two that find each other.
StoredOnce(s) ==
    \A v, w \in CsvValues :
        s[v] > 0 /\ s[w] > 0 /\ w \in Duplicates(v) /\ v \in Duplicates(w)
          => v = w /\ s[v] = 1

\* The lines that a confirmation has behind it are stored, unless it dropped one.
ConfirmOK(r, s, kind) ==
    /\ r.pc # "idle" => r.mapping \in Mappings
    /\ r.pc \in {"mark", "clear"} => r.line = 1 /\ r.seen = {} /\ r.imported = 0 /\ r.failed = 0
    /\ r.pc = "insert" => kind # "order" /\ Reading[r.mapping][r.line] # "invalid"
    /\ ~r.dropped /\ kind # "order" =>
         /\ r.pc \in {"look", "insert"} =>
              \A i \in 1..CsvLines : i < r.line => LineStored(s, Reading[r.mapping][i])
         /\ r.pc \in {"errors", "finish"} => FileStored(s, kind, r.mapping)
         /\ \A v \in r.seen : \/ Kept(s, v)
                              \/ r.pc = "insert" /\ v = Reading[r.mapping][r.line]

\* A confirmation that nobody overlaps has counted its lines, and inserts what is still
\* not there.
AloneOK(r, s, kind, errors, status) ==
    /\ r.pc = "insert" => ~Matched(s, Reading[r.mapping][r.line])
    /\ r.pc \in {"look", "insert"} => r.imported + r.failed = r.line - 1
    /\ r.pc \in {"errors", "finish"} => r.imported + r.failed = CsvLines
    /\ r.pc \in {"look", "insert", "errors"} => errors = 0
    /\ r.pc = "finish" => errors = r.failed
    /\ r.pc \notin {"idle", "mark"} => status \notin {"completed", "failed"}

Reported(j, errors) ==
    j.status \in {"completed", "failed"} => j.imported + j.failed = CsvLines /\ errors = j.failed

OthersIdle(c) == \A d \in CsvCalls \ {c} : confirm[d].pc = "idle"

CsvTypes ==
    /\ job \in JobRow /\ rowErrors \in Nat /\ csvMishaps \in Nat
    /\ stored \in [CsvValues -> Nat] /\ confirm \in [CsvCalls -> ConfirmRow]
    /\ ended \subseteq Mappings /\ together \in BOOLEAN
CsvInv ==
    /\ CsvTypes
    /\ \A c \in CsvCalls : ConfirmOK(confirm[c], stored, job.kind)
    /\ \A m \in ended : FileStored(stored, job.kind, m)
    /\ ~together =>
         /\ \A c \in CsvCalls : confirm[c].pc # "idle" => OthersIdle(c)
         /\ \A c \in CsvCalls : AloneOK(confirm[c], stored, job.kind, rowErrors, job.status)
         /\ StoredOnce(stored) /\ Reported(job, rowErrors)

LEMMA NoConfirmTyped ==
    /\ NoConfirm \in ConfirmRow /\ NoConfirm.pc = "idle" /\ NoConfirm.line = 1
    /\ NoConfirm.seen = {} /\ NoConfirm.imported = 0 /\ NoConfirm.failed = 0
    /\ \A s, kind : ConfirmOK(NoConfirm, s, kind)
    /\ \A s, kind, errors, status : AloneOK(NoConfirm, s, kind, errors, status)
  BY CsvImportAssumption DEF NoConfirm, ConfirmRow, ConfirmPcs, ConfirmOK, AloneOK

\* Rows are only added, so that what was stored stays stored.
LEMMA StoredStays ==
    ASSUME NEW s, NEW t, NEW kind, \A w \in CsvValues : s[w] > 0 => t[w] > 0
    PROVE  /\ \A v : LineStored(s, v) => LineStored(t, v)
           /\ \A v : Kept(s, v) => Kept(t, v)
           /\ \A m : FileStored(s, kind, m) => FileStored(t, kind, m)
           /\ \A r : ConfirmOK(r, s, kind) => ConfirmOK(r, t, kind)
<1>1. \A v : Kept(s, v) => Kept(t, v)
  BY DEF Kept, Matched, Duplicates
<1>2. \A v : LineStored(s, v) => LineStored(t, v)
  BY <1>1 DEF LineStored
<1>3. \A m : FileStored(s, kind, m) => FileStored(t, kind, m)
  BY <1>2 DEF FileStored
<1>4. \A r : ConfirmOK(r, s, kind) => ConfirmOK(r, t, kind)
  BY <1>1, <1>2, <1>3 DEF ConfirmOK
<1> QED BY <1>1, <1>2, <1>3, <1>4

\* What a step of one confirmation has to keep.
LEMMA ConfirmMoves ==
    ASSUME CsvInv, NEW c \in CsvCalls, NEW r \in ConfirmRow, confirm' = [confirm EXCEPT ![c] = r],
           job' \in JobRow, job'.kind = job.kind, rowErrors' \in Nat, csvMishaps' \in Nat,
           stored' \in [CsvValues -> Nat], \A w \in CsvValues : stored[w] > 0 => stored'[w] > 0,
           ended' \subseteq Mappings, together' \in BOOLEAN, together => together',
           ConfirmOK(r, stored', job.kind),
           \A m \in ended' \ ended : FileStored(stored', job.kind, m),
           ~together' => /\ OthersIdle(c)
                         /\ AloneOK(r, stored', job.kind, rowErrors', job'.status)
                         /\ StoredOnce(stored') /\ Reported(job', rowErrors')
    PROVE  CsvInv'
<1>1. /\ confirm \in [CsvCalls -> ConfirmRow]
      /\ \A d \in CsvCalls : ConfirmOK(confirm[d], stored, job.kind)
      /\ \A m \in ended : FileStored(stored, job.kind, m)
  BY DEF CsvInv, CsvTypes
<1>2. /\ confirm' \in [CsvCalls -> ConfirmRow] /\ confirm'[c] = r
      /\ \A d \in CsvCalls \ {c} : confirm'[d] = confirm[d]
  BY <1>1
<1>3. CsvTypes'
  BY <1>2 DEF CsvTypes
<1>4. \A d \in CsvCalls : ConfirmOK(confirm'[d], stored', job'.kind)
  BY <1>1, <1>2, StoredStays
<1>5. \A m \in ended' : FileStored(stored', job'.kind, m)
  BY <1>1, StoredStays
<1>6. ASSUME ~together'
      PROVE  /\ \A d \in CsvCalls : confirm'[d].pc # "idle" => OthersIdle(d)'
             /\ \A d \in CsvCalls :
                  AloneOK(confirm'[d], stored', job'.kind, rowErrors', job'.status)
             /\ StoredOnce(stored') /\ Reported(job', rowErrors')
  <2>1. \A d \in CsvCalls \ {c} : confirm'[d].pc = "idle"
    BY <1>2, <1>6 DEF OthersIdle
  <2>2. \A d \in CsvCalls : confirm'[d].pc # "idle" => OthersIdle(d)'
    BY <2>1 DEF OthersIdle
  <2>3. ASSUME NEW d \in CsvCalls
        PROVE  AloneOK(confirm'[d], stored', job'.kind, rowErrors', job'.status)
    BY <1>2, <1>6, <2>1 DEF AloneOK
  <2> QED BY <1>6, <2>2, <2>3
<1> QED BY <1>3, <1>4, <1>5, <1>6 DEF CsvInv

LEMMA CsvTyped ==
    ASSUME CsvInv
    PROVE  /\ job \in JobRow /\ job.kind \in CsvKinds /\ rowErrors \in Nat /\ csvMishaps \in Nat
           /\ stored \in [CsvValues -> Nat] /\ confirm \in [CsvCalls -> ConfirmRow]
           /\ ended \subseteq Mappings /\ together \in BOOLEAN
           /\ \A c \in CsvCalls :
                /\ confirm[c] \in ConfirmRow /\ ConfirmOK(confirm[c], stored, job.kind)
                /\ confirm[c].line \in Nat /\ confirm[c].line <= CsvLines /\ 1 <= confirm[c].line
                /\ ~together /\ confirm[c].pc # "idle" => OthersIdle(c)
                /\ ~together => AloneOK(confirm[c], stored, job.kind, rowErrors, job.status)
           /\ ~together => StoredOnce(stored) /\ Reported(job, rowErrors)
           /\ \A m \in ended : FileStored(stored, job.kind, m)
<1>1. job.kind \in CsvKinds
  BY DEF CsvInv, CsvTypes, JobRow
<1>2. \A c \in CsvCalls : confirm[c] \in ConfirmRow
  BY DEF CsvInv, CsvTypes
<1>3. \A r \in ConfirmRow : r.line \in Nat /\ r.line <= CsvLines /\ 1 <= r.line
  BY CsvImportAssumption DEF ConfirmRow
<1> QED BY <1>1, <1>2, <1>3 DEF CsvInv, CsvTypes

LEMMA CsvBegins == CsvInit => CsvInv
<1> SUFFICES ASSUME CsvInit PROVE CsvInv
  OBVIOUS
<1>1. job \in JobRow /\ job.status = "none"
  BY DEF CsvInit, JobRow, CsvStatuses
<1>2. confirm \in [CsvCalls -> ConfirmRow] /\ \A c \in CsvCalls : confirm[c] = NoConfirm
  BY NoConfirmTyped DEF CsvInit
<1>3. stored \in [CsvValues -> Nat] /\ \A v \in CsvValues : stored[v] = 0
  BY DEF CsvInit
<1>4. CsvTypes
  BY <1>1, <1>2, <1>3 DEF CsvInit, CsvTypes
<1>5. StoredOnce(stored) /\ Reported(job, rowErrors)
  BY <1>1, <1>3 DEF StoredOnce, Reported
<1> QED BY <1>2, <1>4, <1>5, NoConfirmTyped DEF CsvInit, CsvInv, OthersIdle

\* The job is uploaded, or its columns are mapped, whatever confirmations do.
LEMMA JobChanges ==
    ASSUME CsvInv, job' \in JobRow, job'.kind = job.kind,
           job'.status \notin {"completed", "failed"},
           UNCHANGED <<rowErrors, stored, confirm, csvMishaps, ended, together>>
    PROVE  CsvInv'
<1>1. CsvTypes'
  BY DEF CsvInv, CsvTypes
<1>2. \A c \in CsvCalls :
        AloneOK(confirm[c], stored, job.kind, rowErrors, job.status) =>
          AloneOK(confirm[c], stored, job.kind, rowErrors, job'.status)
  BY DEF AloneOK
<1>3. Reported(job', rowErrors)
  BY DEF Reported
<1> QED BY <1>1, <1>2, <1>3 DEF CsvInv, OthersIdle

\* A confirmation has dealt with its line: it goes on to the next, or has done with all.
Beyond(r, n) ==
    /\ n \in ConfirmRow /\ n.mapping = r.mapping
    /\ r.line < CsvLines => n.pc = "look" /\ n.line = r.line + 1
    /\ r.line = CsvLines => n.pc = "errors"
    /\ n.imported + n.failed = r.imported + r.failed + 1

LEMMA NextLineTyped ==
    ASSUME NEW r \in ConfirmRow
    PROVE  /\ Beyond(r, RowFails(r)) /\ RowFails(r).seen = r.seen
           /\ RowFails(r).dropped = r.dropped
           /\ Beyond(r, RowPasses(r)) /\ RowPasses(r).seen = r.seen
           /\ RowPasses(r).dropped = r.dropped
<1>1. ASSUME NEW k \in ConfirmRow
      PROVE  /\ NextLine(k) \in ConfirmRow /\ NextLine(k).mapping = k.mapping
             /\ k.line < CsvLines => NextLine(k).pc = "look" /\ NextLine(k).line = k.line + 1
             /\ k.line = CsvLines => NextLine(k).pc = "errors"
             /\ NextLine(k).imported = k.imported /\ NextLine(k).failed = k.failed
             /\ NextLine(k).seen = k.seen /\ NextLine(k).dropped = k.dropped
  <2>1. k.line \in 1..CsvLines /\ CsvLines \in Nat /\ k.line \in Nat
    BY CsvImportAssumption DEF ConfirmRow
  <2>2. CASE k.line < CsvLines
    <3>1. k.line + 1 \in 1..CsvLines
      BY <2>1, <2>2
    <3>2. NextLine(k) = [k EXCEPT !.line = k.line + 1, !.pc = "look"]
      BY <2>2 DEF NextLine, ConfirmRow
    <3> DEFINE l == k.line + 1
    <3> HIDE DEF l
    <3>3. LET n == [k EXCEPT !.line = l, !.pc = "look"]
          IN  /\ n \in ConfirmRow /\ n.mapping = k.mapping /\ n.pc = "look" /\ n.line = l
              /\ n.imported = k.imported /\ n.failed = k.failed
              /\ n.seen = k.seen /\ n.dropped = k.dropped
      BY <1>1, <3>1 DEF ConfirmRow, ConfirmPcs, l
    <3> QED BY <2>1, <2>2, <3>2, <3>3 DEF l
  <2>3. CASE k.line = CsvLines
    <3>1. ~(k.line < CsvLines) /\ 1 \in 1..CsvLines
      BY <2>1, <2>3, CsvImportAssumption
    <3>2. NextLine(k) = [k EXCEPT !.line = 1, !.pc = "errors"]
      BY <3>1 DEF NextLine, ConfirmRow
    <3> DEFINE l == 1
    <3> HIDE DEF l
    <3>3. LET n == [k EXCEPT !.line = l, !.pc = "errors"]
          IN  /\ n \in ConfirmRow /\ n.mapping = k.mapping /\ n.pc = "errors"
              /\ n.imported = k.imported /\ n.failed = k.failed
              /\ n.seen = k.seen /\ n.dropped = k.dropped
      BY <1>1, <3>1 DEF ConfirmRow, ConfirmPcs, l
    <3> QED BY <3>1, <3>2, <3>3 DEF l
  <2> QED BY <2>1, <2>2, <2>3
<1>2. LET k == [r EXCEPT !.failed = @ + 1]
      IN  /\ k \in ConfirmRow /\ k.mapping = r.mapping /\ k.line = r.line
          /\ k.imported = r.imported /\ k.failed = r.failed + 1
          /\ k.seen = r.seen /\ k.dropped = r.dropped
  BY DEF ConfirmRow
<1>3. LET k == [r EXCEPT !.imported = @ + 1]
      IN  /\ k \in ConfirmRow /\ k.mapping = r.mapping /\ k.line = r.line
          /\ k.imported = r.imported + 1 /\ k.failed = r.failed
          /\ k.seen = r.seen /\ k.dropped = r.dropped
  BY DEF ConfirmRow
<1>4. r.imported \in Nat /\ r.failed \in Nat
  BY DEF ConfirmRow
<1>5. Beyond(r, RowFails(r)) /\ RowFails(r).seen = r.seen /\ RowFails(r).dropped = r.dropped
  <2> DEFINE k == [r EXCEPT !.failed = @ + 1]
  <2>1. RowFails(r) = NextLine(k)
    BY DEF RowFails
  <2>2. /\ k \in ConfirmRow /\ k.mapping = r.mapping /\ k.line = r.line
        /\ k.imported = r.imported /\ k.failed = r.failed + 1
        /\ k.seen = r.seen /\ k.dropped = r.dropped
    BY <1>2
  <2> HIDE DEF k
  <2> QED BY <1>1, <1>4, <2>1, <2>2 DEF Beyond
<1>6. Beyond(r, RowPasses(r)) /\ RowPasses(r).seen = r.seen /\ RowPasses(r).dropped = r.dropped
  <2> DEFINE k == [r EXCEPT !.imported = @ + 1]
  <2>1. RowPasses(r) = NextLine(k)
    BY DEF RowPasses
  <2>2. /\ k \in ConfirmRow /\ k.mapping = r.mapping /\ k.line = r.line
        /\ k.imported = r.imported + 1 /\ k.failed = r.failed
        /\ k.seen = r.seen /\ k.dropped = r.dropped
    BY <1>3
  <2> HIDE DEF k
  <2> QED BY <1>1, <1>4, <2>1, <2>2 DEF Beyond
<1> QED BY <1>5, <1>6

\* The line is stored, or invalid, or has been dropped; the file is then one line further.
LEMMA LineIsDone ==
    ASSUME NEW r \in ConfirmRow, NEW n, NEW s, NEW t, NEW kind,
           ConfirmOK(r, s, kind), r.pc \in {"look", "insert"}, Beyond(r, n),
           \A w \in CsvValues : s[w] > 0 => t[w] > 0,
           n.seen \subseteq r.seen \cup {Reading[r.mapping][r.line]},
           ~n.dropped => ~r.dropped,
           ~n.dropped /\ kind # "order" =>
             \/ Kept(t, Reading[r.mapping][r.line])
             \/ Reading[r.mapping][r.line] = "invalid" /\ n.seen \subseteq r.seen
    PROVE  ConfirmOK(n, t, kind)
<1> DEFINE m == r.mapping
           v == Reading[m][r.line]
<1>1. /\ r.line \in 1..CsvLines /\ CsvLines \in Nat /\ m \in Mappings
      /\ n.mapping = m /\ n.pc \in {"look", "errors"}
  BY CsvImportAssumption DEF ConfirmRow, ConfirmOK, Beyond
<1>2. ASSUME ~n.dropped, kind # "order"
      PROVE  /\ \A i \in 1..CsvLines : i <= r.line => LineStored(t, Reading[m][i])
             /\ \A w \in n.seen : Kept(t, w)
  <2>1. /\ \A i \in 1..CsvLines : i < r.line => LineStored(s, Reading[m][i])
        /\ \A w \in r.seen : Kept(s, w) \/ (r.pc = "insert" /\ w = v)
    BY <1>2 DEF ConfirmOK
  <2>2. LineStored(t, v)
    BY <1>2 DEF LineStored
  <2>3. \A i \in 1..CsvLines : i < r.line => LineStored(t, Reading[m][i])
    BY <2>1, StoredStays
  <2>4. ASSUME NEW w \in n.seen PROVE Kept(t, w)
    <3>1. r.pc = "insert" => v # "invalid"
      BY DEF ConfirmOK
    <3>2. CASE Kept(t, v)
      BY <2>1, <2>4, <3>2, StoredStays
    <3>3. CASE v = "invalid" /\ n.seen \subseteq r.seen
      BY <2>1, <2>4, <3>1, <3>3, StoredStays
    <3> QED BY <1>2, <3>2, <3>3
  <2>5. ASSUME NEW i \in 1..CsvLines, i <= r.line PROVE LineStored(t, Reading[m][i])
    <3>1. i < r.line \/ i = r.line
      BY <1>1, <2>5
    <3> QED BY <2>2, <2>3, <3>1
  <2> QED BY <2>4, <2>5
<1>3. CASE r.line < CsvLines
  <2>1. n.pc = "look" /\ n.line = r.line + 1
    BY <1>3 DEF Beyond
  <2>2. \A i \in 1..CsvLines : i < n.line => i <= r.line
    BY <1>1, <2>1
  <2> QED BY <1>1, <1>2, <2>1, <2>2 DEF ConfirmOK
<1>4. CASE r.line = CsvLines
  <2>1. n.pc = "errors"
    BY <1>4 DEF Beyond
  <2>2. \A i \in 1..CsvLines : i <= r.line
    BY <1>1, <1>4
  <2> QED BY <1>1, <1>2, <2>1, <2>2 DEF ConfirmOK, FileStored
<1>5. r.line < CsvLines \/ r.line = CsvLines
  BY <1>1
<1> QED BY <1>3, <1>4, <1>5

LEMMA LineIsCounted ==
    ASSUME NEW r \in ConfirmRow, NEW n, NEW s, NEW t, NEW kind, NEW errors, NEW status,
           AloneOK(r, s, kind, errors, status), r.pc \in {"look", "insert"}, Beyond(r, n)
    PROVE  AloneOK(n, t, kind, errors, status)
<1>1. /\ r.line \in 1..CsvLines /\ CsvLines \in Nat /\ r.line \in Nat
      /\ r.imported + r.failed = r.line - 1
      /\ n.imported + n.failed = r.imported + r.failed + 1
      /\ errors = 0 /\ status \notin {"completed", "failed"}
  BY CsvImportAssumption DEF ConfirmRow, AloneOK, Beyond
<1>2. CASE r.line < CsvLines
  <2>1. n.pc = "look" /\ n.line = r.line + 1
    BY <1>2 DEF Beyond
  <2>2. n.imported + n.failed = n.line - 1
    BY <1>1, <2>1
  <2> QED BY <1>1, <2>1, <2>2 DEF AloneOK
<1>3. CASE r.line = CsvLines
  <2>1. n.pc = "errors"
    BY <1>3 DEF Beyond
  <2>2. n.imported + n.failed = CsvLines
    BY <1>1, <1>3
  <2> QED BY <1>1, <2>1, <2>2 DEF AloneOK
<1>4. r.line < CsvLines \/ r.line = CsvLines
  BY <1>1
<1> QED BY <1>2, <1>3, <1>4

LEMMA ConfirmBegins == ASSUME CsvInv, NEW c \in CsvCalls, BeginCsv(c) PROVE CsvInv'
<1> DEFINE r == [NoConfirm EXCEPT !.pc = "mark", !.mapping = job.mapping]
<1>1. /\ confirm' = [confirm EXCEPT ![c] = r] /\ job.mapping # NoMapping
      /\ together' = (together \/ \E d \in CsvCalls \ {c} : confirm[d].pc # "idle")
      /\ UNCHANGED <<job, rowErrors, stored, csvMishaps, ended>>
  BY DEF BeginCsv
<1>2. job.mapping \in Mappings
  BY <1>1, CsvTyped DEF JobRow
<1>3. ASSUME NEW k \in ConfirmRow
      PROVE  LET n == [k EXCEPT !.pc = "mark", !.mapping = job.mapping]
             IN  /\ n \in ConfirmRow /\ n.pc = "mark" /\ n.mapping = job.mapping
                 /\ n.line = k.line /\ n.seen = k.seen /\ n.imported = k.imported
                 /\ n.failed = k.failed
  BY <1>2, <1>3 DEF ConfirmRow, ConfirmPcs
<1>4. /\ r \in ConfirmRow /\ r.pc = "mark" /\ r.mapping = job.mapping
      /\ r.line = 1 /\ r.seen = {} /\ r.imported = 0 /\ r.failed = 0
  <2>1. /\ r \in ConfirmRow /\ r.pc = "mark" /\ r.mapping = job.mapping
        /\ r.line = NoConfirm.line /\ r.seen = NoConfirm.seen
        /\ r.imported = NoConfirm.imported /\ r.failed = NoConfirm.failed
    BY <1>3, NoConfirmTyped, Zenon
  <2> HIDE DEF r
  <2> QED BY <2>1, NoConfirmTyped
<1> HIDE DEF r
<1>5. ConfirmOK(r, stored, job.kind)
  BY <1>2, <1>4 DEF ConfirmOK
<1>6. AloneOK(r, stored, job.kind, rowErrors, job.status)
  BY <1>4 DEF AloneOK
<1>7. ~together' => OthersIdle(c) /\ ~together
  BY <1>1, CsvTyped DEF OthersIdle
<1>8. together' \in BOOLEAN /\ (together => together')
  BY <1>1
<1> QED BY <1>1, <1>4, <1>5, <1>6, <1>7, <1>8, CsvTyped, ConfirmMoves

LEMMA ConfirmGetsReady ==
    ASSUME CsvInv, NEW c \in CsvCalls, MarkProcessing(c) \/ ClearErrors(c) PROVE CsvInv'
<1>1. /\ confirm[c] \in ConfirmRow /\ ConfirmOK(confirm[c], stored, job.kind)
      /\ confirm[c].pc \in {"mark", "clear"} /\ job \in JobRow /\ CsvLines \in Nat
      /\ UNCHANGED <<stored, csvMishaps, ended, together>>
  BY CsvTyped, CsvImportAssumption DEF MarkProcessing, ClearErrors
<1>2. /\ confirm[c].mapping \in Mappings /\ confirm[c].line = 1 /\ confirm[c].seen = {}
      /\ confirm[c].imported = 0 /\ confirm[c].failed = 0
  BY <1>1 DEF ConfirmOK
<1>3. CASE MarkProcessing(c)
  <2> DEFINE r == [confirm[c] EXCEPT !.pc = "clear"]
  <2>1. /\ confirm' = [confirm EXCEPT ![c] = r] /\ rowErrors' = rowErrors
        /\ job' = [job EXCEPT !.status = "processing", !.imported = 0, !.failed = 0]
    BY <1>3, CsvTyped DEF MarkProcessing
  <2>2. job' \in JobRow /\ job'.kind = job.kind /\ job'.status = "processing"
    BY <1>1, <2>1 DEF JobRow, CsvStatuses
  <2>3. /\ r \in ConfirmRow /\ r.pc = "clear" /\ r.mapping = confirm[c].mapping
        /\ r.line = 1 /\ r.seen = {} /\ r.imported = 0 /\ r.failed = 0
    BY <1>1, <1>2 DEF ConfirmRow, ConfirmPcs
  <2> HIDE DEF r
  <2>4. ConfirmOK(r, stored, job.kind)
    BY <1>2, <2>3 DEF ConfirmOK
  <2>5. AloneOK(r, stored, job.kind, rowErrors, job'.status) /\ Reported(job', rowErrors)
    BY <2>2, <2>3 DEF AloneOK, Reported
  <2> QED BY <1>1, <2>1, <2>2, <2>3, <2>4, <2>5, CsvTyped, ConfirmMoves
<1>4. CASE ClearErrors(c)
  <2> DEFINE r == [confirm[c] EXCEPT !.pc = "look"]
  <2>1. /\ confirm' = [confirm EXCEPT ![c] = r] /\ rowErrors' = 0 /\ job' = job
        /\ confirm[c].pc = "clear"
    BY <1>4, CsvTyped DEF ClearErrors
  <2>3. /\ r \in ConfirmRow /\ r.pc = "look" /\ r.mapping = confirm[c].mapping
        /\ r.line = 1 /\ r.seen = {} /\ r.imported = 0 /\ r.failed = 0
    BY <1>1, <1>2 DEF ConfirmRow, ConfirmPcs
  <2> HIDE DEF r
  <2>4. ConfirmOK(r, stored, job.kind)
    BY <1>2, <2>3 DEF ConfirmOK
  <2>5. ~together => AloneOK(r, stored, job.kind, 0, job.status) /\ Reported(job, 0)
    <3>1. ~together => job.status \notin {"completed", "failed"}
      BY <2>1, CsvTyped DEF AloneOK
    <3> QED BY <2>3, <3>1 DEF AloneOK, Reported
  <2> QED BY <1>1, <2>1, <2>3, <2>4, <2>5, CsvTyped, ConfirmMoves
<1> QED BY <1>3, <1>4

\* The line is looked at: it is invalid, or a duplicate, or goes in.
LEMMA LineIsLookedAt == ASSUME CsvInv, NEW c \in CsvCalls, LookAtLine(c) PROVE CsvInv'
<1> DEFINE r == confirm[c]
           v == Reading[r.mapping][r.line]
           seen == [r EXCEPT !.seen = @ \cup {v}]
           kind == job.kind
<1>1. /\ r \in ConfirmRow /\ ConfirmOK(r, stored, kind) /\ r.pc = "look"
      /\ r.line \in 1..CsvLines /\ r.mapping \in Mappings
      /\ UNCHANGED <<job, rowErrors, stored, csvMishaps, ended, together>>
      /\ confirm \in [CsvCalls -> ConfirmRow]
      /\ ~together => OthersIdle(c) /\ AloneOK(r, stored, kind, rowErrors, job.status)
  BY CsvTyped DEF LookAtLine, ConfirmRow, ConfirmOK
<1>2. confirm' = [confirm EXCEPT ![c] =
         IF v = "invalid" \/ v \in r.seen THEN RowFails(r)
         ELSE IF kind = "order" THEN RowPasses(seen)
         ELSE IF Matched(stored, v) THEN RowFails(seen)
         ELSE [seen EXCEPT !.pc = "insert"]]
  BY DEF LookAtLine, IsStored, Matched
<1>3. v # "invalid" => v \in CsvValues
  BY <1>1 DEF CsvValues
<1>4. ASSUME v \in CsvValues
      PROVE  /\ seen \in ConfirmRow /\ seen.seen = r.seen \cup {v} /\ seen.mapping = r.mapping
             /\ seen.line = r.line /\ seen.imported = r.imported /\ seen.failed = r.failed
             /\ seen.dropped = r.dropped /\ seen.pc = "look"
  BY <1>1, <1>4 DEF ConfirmRow
<1>5. ASSUME NEW n, confirm' = [confirm EXCEPT ![c] = n], Beyond(r, n),
             n.seen \subseteq r.seen \cup {v}, n.dropped = r.dropped,
             ~n.dropped /\ kind # "order" =>
               Kept(stored, v) \/ (v = "invalid" /\ n.seen \subseteq r.seen)
      PROVE  CsvInv'
  <2>1. ConfirmOK(n, stored, kind)
    BY <1>1, <1>5, LineIsDone
  <2>2. AloneOK(r, stored, kind, rowErrors, job.status) =>
          AloneOK(n, stored, kind, rowErrors, job.status)
    BY <1>1, <1>5, LineIsCounted
  <2>3. n \in ConfirmRow
    BY <1>5 DEF Beyond
  <2> QED BY <1>1, <1>5, <2>1, <2>2, <2>3, CsvTyped, ConfirmMoves
<1>6. ASSUME NEW n, Beyond(seen, n), v \in CsvValues PROVE Beyond(r, n)
  <2> HIDE DEF r, v, seen
  <2> QED BY <1>4, <1>6 DEF Beyond
<1>7. CASE v = "invalid" \/ v \in r.seen
  <2>1. confirm' = [confirm EXCEPT ![c] = RowFails(r)]
    BY <1>2, <1>7
  <2>2. Beyond(r, RowFails(r)) /\ RowFails(r).seen = r.seen /\ RowFails(r).dropped = r.dropped
    BY <1>1, NextLineTyped
  <2>3. v \in r.seen /\ ~r.dropped /\ kind # "order" => Kept(stored, v)
    BY <1>1 DEF ConfirmOK
  <2> QED BY <1>5, <1>7, <2>1, <2>2, <2>3
<1>8. CASE v # "invalid" /\ v \notin r.seen /\ kind = "order"
  <2>1. confirm' = [confirm EXCEPT ![c] = RowPasses(seen)]
    BY <1>2, <1>8
  <2>2. /\ Beyond(seen, RowPasses(seen)) /\ RowPasses(seen).seen = seen.seen
        /\ RowPasses(seen).dropped = seen.dropped
    BY <1>3, <1>4, <1>8, NextLineTyped
  <2> QED BY <1>3, <1>4, <1>5, <1>6, <1>8, <2>1, <2>2
<1>9. CASE v # "invalid" /\ v \notin r.seen /\ kind # "order" /\ Matched(stored, v)
  <2>1. confirm' = [confirm EXCEPT ![c] = RowFails(seen)]
    BY <1>2, <1>9
  <2>2. /\ Beyond(seen, RowFails(seen)) /\ RowFails(seen).seen = seen.seen
        /\ RowFails(seen).dropped = seen.dropped
    BY <1>3, <1>4, <1>9, NextLineTyped
  <2> QED BY <1>3, <1>4, <1>5, <1>6, <1>9, <2>1, <2>2 DEF Kept
<1>10. CASE v # "invalid" /\ v \notin r.seen /\ kind # "order" /\ ~Matched(stored, v)
  <2> DEFINE n == [seen EXCEPT !.pc = "insert"]
  <2>1. confirm' = [confirm EXCEPT ![c] = n]
    BY <1>2, <1>10
  <2>2. /\ n \in ConfirmRow /\ n.pc = "insert" /\ n.mapping = r.mapping /\ n.line = r.line
        /\ n.seen = r.seen \cup {v} /\ n.dropped = r.dropped
        /\ n.imported = r.imported /\ n.failed = r.failed
    <3> HIDE DEF r, v, seen
    <3> QED BY <1>3, <1>4, <1>10 DEF ConfirmRow, ConfirmPcs
  <2> HIDE DEF n
  <2>3. ConfirmOK(n, stored, kind)
    BY <1>1, <1>10, <2>2 DEF ConfirmOK
  <2>4. AloneOK(r, stored, kind, rowErrors, job.status) =>
          AloneOK(n, stored, kind, rowErrors, job.status)
    BY <1>1, <1>10, <2>2 DEF AloneOK
  <2> QED BY <1>1, <2>1, <2>2, <2>3, <2>4, CsvTyped, ConfirmMoves
<1> QED BY <1>7, <1>8, <1>9, <1>10

\* A row goes in that was looked for before: alone, the look found nothing.
LEMMA OneMoreStored ==
    ASSUME NEW s \in [CsvValues -> Nat], NEW v \in CsvValues, StoredOnce(s), ~Matched(s, v)
    PROVE  StoredOnce([s EXCEPT ![v] = @ + 1])
<1> DEFINE t == [s EXCEPT ![v] = @ + 1]
<1>1. t[v] = s[v] + 1 /\ s[v] \in Nat /\ \A w \in CsvValues \ {v} : t[w] = s[w]
  OBVIOUS
<1> HIDE DEF t
<1>2. \A w \in CsvValues : s[w] > 0 => w \notin Duplicates(v)
  BY DEF Matched
<1>3. ASSUME NEW x \in CsvValues, NEW w \in CsvValues, t[x] > 0, t[w] > 0,
             w \in Duplicates(x), x \in Duplicates(w)
      PROVE  x = w /\ t[x] = 1
  <2>1. CASE x # v /\ w # v
    BY <1>1, <1>3, <2>1 DEF StoredOnce
  <2>2. CASE x # v /\ w = v
    BY <1>1, <1>2, <1>3, <2>2
  <2>3. CASE x = v /\ w # v
    BY <1>1, <1>2, <1>3, <2>3
  <2>4. CASE x = v /\ w = v
    <3>1. s[v] = 0
      BY <1>1, <1>2, <1>3, <2>4
    <3> QED BY <1>1, <2>4, <3>1
  <2> QED BY <2>1, <2>2, <2>3, <2>4
<1>4. StoredOnce(t)
  BY <1>3 DEF StoredOnce
<1> QED BY <1>4 DEF t

LEMMA RowIsInserted == ASSUME CsvInv, NEW c \in CsvCalls, InsertRow(c) PROVE CsvInv'
<1> DEFINE r == confirm[c]
           v == Reading[r.mapping][r.line]
           kind == job.kind
<1>1. /\ r \in ConfirmRow /\ ConfirmOK(r, stored, kind) /\ r.pc = "insert"
      /\ r.line \in 1..CsvLines /\ r.mapping \in Mappings /\ v # "invalid"
      /\ UNCHANGED <<job, rowErrors, ended, together>>
      /\ confirm \in [CsvCalls -> ConfirmRow] /\ stored \in [CsvValues -> Nat]
      /\ ~together => OthersIdle(c) /\ AloneOK(r, stored, kind, rowErrors, job.status)
  BY CsvTyped DEF InsertRow, ConfirmRow, ConfirmOK
<1>2. v \in CsvValues
  BY <1>1 DEF CsvValues
<1>3. CASE /\ stored' = [stored EXCEPT ![v] = @ + 1]
           /\ confirm' = [confirm EXCEPT ![c] = RowPasses(r)] /\ UNCHANGED csvMishaps
  <2>1. /\ Beyond(r, RowPasses(r)) /\ RowPasses(r).seen = r.seen
        /\ RowPasses(r).dropped = r.dropped
    BY <1>1, NextLineTyped
  <2>2. /\ stored' \in [CsvValues -> Nat] /\ stored'[v] > 0
        /\ \A w \in CsvValues : stored[w] > 0 => stored'[w] > 0
    BY <1>1, <1>2, <1>3
  <2>3. Kept(stored', v)
    BY <1>2, <2>2 DEF Kept
  <2>4. ConfirmOK(RowPasses(r), stored', kind)
    BY <1>1, <2>1, <2>2, <2>3, LineIsDone
  <2>5. AloneOK(r, stored, kind, rowErrors, job.status) =>
          AloneOK(RowPasses(r), stored', kind, rowErrors, job.status)
    BY <1>1, <2>1, LineIsCounted
  <2>6. ~together => StoredOnce(stored')
    <3>1. ~together => StoredOnce(stored) /\ ~Matched(stored, v)
      BY <1>1, CsvTyped DEF AloneOK
    <3> QED BY <1>1, <1>2, <1>3, <3>1, OneMoreStored
  <2>7. RowPasses(r) \in ConfirmRow
    BY <2>1 DEF Beyond
  <2> QED BY <1>1, <1>3, <2>2, <2>4, <2>5, <2>6, <2>7, CsvTyped, ConfirmMoves
<1>4. CASE /\ csvMishaps' = csvMishaps + 1 /\ UNCHANGED stored
           /\ confirm' = [confirm EXCEPT ![c] = RowFails([r EXCEPT !.dropped = TRUE])]
  <2> DEFINE k == [r EXCEPT !.dropped = TRUE]
             n == RowFails(k)
  <2>1. /\ k \in ConfirmRow /\ k.mapping = r.mapping /\ k.line = r.line /\ k.seen = r.seen
        /\ k.imported = r.imported /\ k.failed = r.failed /\ k.dropped = TRUE
    BY <1>1 DEF ConfirmRow
  <2> HIDE DEF k
  <2>2. Beyond(k, n) /\ n.seen = r.seen /\ n.dropped = TRUE
    BY <2>1, NextLineTyped
  <2> HIDE DEF n
  <2>3. Beyond(r, n) /\ n \in ConfirmRow
    <3> HIDE DEF r
    <3> QED BY <2>1, <2>2 DEF Beyond
  <2>4. ConfirmOK(n, stored, kind)
    BY <1>1, <2>2, <2>3, LineIsDone
  <2>5. AloneOK(r, stored, kind, rowErrors, job.status) =>
          AloneOK(n, stored, kind, rowErrors, job.status)
    BY <1>1, <2>3, LineIsCounted
  <2>6. confirm' = [confirm EXCEPT ![c] = n] /\ csvMishaps' \in Nat
    BY <1>4, CsvTyped DEF n, k
  <2> QED BY <1>1, <1>4, <2>3, <2>4, <2>5, <2>6, CsvTyped, ConfirmMoves
<1> QED BY <1>3, <1>4 DEF InsertRow

LEMMA ErrorsAreSaved == ASSUME CsvInv, NEW c \in CsvCalls, SaveErrors(c) PROVE CsvInv'
<1> DEFINE r == confirm[c]
           n == [r EXCEPT !.pc = "finish"]
<1>1. /\ r \in ConfirmRow /\ ConfirmOK(r, stored, job.kind) /\ r.pc = "errors"
      /\ r.failed \in Nat /\ rowErrors' = rowErrors + r.failed
      /\ UNCHANGED <<job, stored, csvMishaps, ended, together>>
      /\ confirm' = [confirm EXCEPT ![c] = n]
      /\ ~together => OthersIdle(c) /\ AloneOK(r, stored, job.kind, rowErrors, job.status)
  BY CsvTyped DEF SaveErrors, ConfirmRow
<1>2. /\ n \in ConfirmRow /\ n.pc = "finish" /\ n.mapping = r.mapping /\ n.seen = r.seen
      /\ n.dropped = r.dropped /\ n.imported = r.imported /\ n.failed = r.failed
  BY <1>1 DEF ConfirmRow, ConfirmPcs
<1> HIDE DEF n
<1>3. ConfirmOK(n, stored, job.kind)
  BY <1>1, <1>2 DEF ConfirmOK
<1>4. AloneOK(r, stored, job.kind, rowErrors, job.status) =>
        AloneOK(n, stored, job.kind, rowErrors', job.status) /\ Reported(job, rowErrors')
  BY <1>1, <1>2 DEF AloneOK, Reported
<1>5. rowErrors' \in Nat
  BY <1>1, CsvTyped
<1> QED BY <1>1, <1>2, <1>3, <1>4, <1>5, CsvTyped, ConfirmMoves

LEMMA ConfirmFinishes == ASSUME CsvInv, NEW c \in CsvCalls, FinishCsv(c) PROVE CsvInv'
<1> DEFINE r == confirm[c]
<1>1. /\ r \in ConfirmRow /\ ConfirmOK(r, stored, job.kind) /\ r.pc = "finish"
      /\ r.failed \in Nat /\ r.imported \in Nat /\ r.mapping \in Mappings
      /\ UNCHANGED <<rowErrors, stored, csvMishaps, together>> /\ job \in JobRow
      /\ confirm' = [confirm EXCEPT ![c] = NoConfirm]
      /\ ~together => OthersIdle(c) /\ AloneOK(r, stored, job.kind, rowErrors, job.status)
  BY CsvTyped DEF FinishCsv, ConfirmRow, ConfirmOK
<1>2. PICK st \in {"completed", "failed"} :
        job' = [job EXCEPT !.imported = r.imported, !.failed = r.failed, !.status = st]
  BY DEF FinishCsv
<1>3. /\ job' \in JobRow /\ job'.kind = job.kind /\ job'.imported = r.imported
      /\ job'.failed = r.failed
  BY <1>1, <1>2 DEF JobRow, CsvStatuses
<1>4. /\ ended' \subseteq Mappings
      /\ \A m \in ended' \ ended : FileStored(stored, job.kind, m)
  <2>1. CASE r.dropped
    BY <2>1, CsvTyped DEF FinishCsv
  <2>2. CASE ~r.dropped
    <3>1. ended' = ended \cup {r.mapping}
      BY <2>2 DEF FinishCsv
    <3>2. FileStored(stored, job.kind, r.mapping)
      BY <1>1, <2>2 DEF ConfirmOK, FileStored
    <3> QED BY <1>1, <3>1, <3>2, CsvTyped
  <2> QED BY <2>1, <2>2
<1>5. AloneOK(r, stored, job.kind, rowErrors, job.status) => Reported(job', rowErrors)
  BY <1>1, <1>3 DEF AloneOK, Reported
<1> QED BY <1>1, <1>3, <1>4, <1>5, CsvTyped, NoConfirmTyped, ConfirmMoves

LEMMA CsvGoesOn == CsvInv /\ [CsvNext]_csvVars => CsvInv'
<1> SUFFICES ASSUME CsvInv, [CsvNext]_csvVars PROVE CsvInv'
  OBVIOUS
<1>1. CASE UploadCsv
  <2>1. job \in JobRow /\ job' = [job EXCEPT !.status = "uploaded"]
    BY <1>1, CsvTyped DEF UploadCsv
  <2>2. job' \in JobRow /\ job'.kind = job.kind /\ job'.status = "uploaded"
    BY <2>1 DEF JobRow, CsvStatuses
  <2> QED BY <1>1, <2>2, JobChanges DEF UploadCsv
<1>2. ASSUME NEW m \in Mappings, SaveMapping(m) PROVE CsvInv'
  <2>1. job \in JobRow /\ job' = [job EXCEPT !.status = "mapped", !.mapping = m]
    BY <1>2, CsvTyped DEF SaveMapping
  <2>2. job' \in JobRow /\ job'.kind = job.kind /\ job'.status = "mapped"
    BY <2>1 DEF JobRow, CsvStatuses
  <2> QED BY <1>2, <2>2, JobChanges DEF SaveMapping
<1>3. ASSUME NEW c \in CsvCalls, CsvEnds(c) PROVE CsvInv'
  <2>1. /\ confirm' = [confirm EXCEPT ![c] = NoConfirm] /\ csvMishaps' \in Nat
        /\ UNCHANGED <<job, rowErrors, stored, ended, together>>
        /\ ~together => OthersIdle(c)
    BY <1>3, CsvTyped DEF CsvEnds
  <2> QED BY <2>1, CsvTyped, NoConfirmTyped, ConfirmMoves
<1>4. CASE UNCHANGED csvVars
  BY <1>4 DEF csvVars, CsvInv, CsvTypes, OthersIdle
<1> QED BY <1>1, <1>2, <1>3, <1>4, ConfirmBegins, ConfirmGetsReady, LineIsLookedAt,
           RowIsInserted, ErrorsAreSaved, ConfirmFinishes DEF CsvNext

\* Every valid line of a file is stored, and once: not less whatever fails or overlaps, not
\* more as long as nothing overlaps (csv-imports.service.ts, confirmImport).
THEOREM CsvFileIsStored == CsvSpec => [](CsvTypeOK /\ CsvLinesStored)
<1>1. CsvInv => CsvTypeOK /\ CsvLinesStored
  <2> SUFFICES ASSUME CsvInv PROVE CsvTypeOK /\ CsvLinesStored
    OBVIOUS
  <2>1. CsvTypeOK
    BY CsvTyped DEF CsvTypeOK, JobRow, ConfirmRow
  <2>2. CsvEndedMeansStored
    BY CsvTyped DEF CsvEndedMeansStored, FileStored, LineStored, Kept, IsStored, Matched
  <2>3. CsvOnceAlone
    BY CsvTyped DEF CsvOnceAlone, StoredOnce, Reported
  <2> QED BY <2>1, <2>2, <2>3 DEF CsvLinesStored
<1> QED BY <1>1, CsvBegins, CsvGoesOn, PTL DEF CsvSpec

-----------------------------------------------------------------------------
(* Sums over finite sets: SumFunction is a fold that takes out an element of the *)
(* set that CHOOSE gives; what it returns is shown for every finite set by        *)
(* taking a smallest exception.                                                   *)

\* A set of natural numbers has a least element.
LEMMA NatIsWellFounded ==
  ASSUME NEW T, T \subseteq Nat, T # {}
  PROVE  \E x \in T : \A y \in T : ~(y < x)
<1>1. \E x \in T : \A y \in T : ~(<<y, x>> \in OpToRel(<, Nat))
  BY NatLessThanWellFounded, WFMin
<1>2. PICK x \in T : \A y \in T : ~(<<y, x>> \in OpToRel(<, Nat))
  BY <1>1
<1>3. ASSUME NEW y \in T PROVE ~(y < x)
  BY <1>2, <1>3 DEF OpToRel
<1> QED BY <1>3

\* Induction over finite sets: exceptions, each with a smaller one, are none.
LEMMA NoSmallestException ==
  ASSUME NEW B, \A S \in B : IsFiniteSet(S),
         \A S \in B : \E T \in B : T \subseteq S /\ T # S
  PROVE  B = {}
<1> SUFFICES ASSUME B # {} PROVE FALSE OBVIOUS
<1> DEFINE sizes == {Cardinality(S) : S \in B}
<1>1. sizes \subseteq Nat /\ sizes # {}
  BY FS_CardinalityType
<1>2. PICK n \in sizes : \A m \in sizes : ~(m < n)
  BY <1>1, NatIsWellFounded
<1>3. PICK S \in B : n = Cardinality(S)
  OBVIOUS
<1>4. PICK T \in B : T \subseteq S /\ T # S
  OBVIOUS
<1>5. Cardinality(T) < Cardinality(S)
  <2>1. IsFiniteSet(S) /\ T \in SUBSET S /\ T # S BY <1>4
  <2>2. Cardinality(T) <= Cardinality(S) /\ Cardinality(T) # Cardinality(S)
    BY <2>1, FS_Subset
  <2>3. Cardinality(T) \in Nat /\ Cardinality(S) \in Nat
    BY <2>1, FS_Subset, FS_CardinalityType
  <2> QED BY <2>2, <2>3
<1> QED BY <1>2, <1>3, <1>5

Pick(s) == CHOOSE x \in s : TRUE

LEMMA PickIsIn == ASSUME NEW s, s # {} PROVE Pick(s) \in s
  BY DEF Pick

\* f is the table of the sums of g over the subsets of S.
IsSum(g, S, f) ==
    f = [s \in SUBSET S |-> IF s = {} THEN 0 ELSE g[Pick(s)] + f[s \ {Pick(s)}]]

SumTable(g, S) == CHOOSE f : IsSum(g, S, f)

LEMMA SumIs == ASSUME NEW g, NEW S PROVE SumFunctionOnSet(g, S) = SumTable(g, S)[S]
  BY DEF SumFunctionOnSet, FoldFunctionOnSet, MapThenFoldSet, IsSum, Pick, SumTable

LEMMA SumTablesAgree ==
  ASSUME NEW g, NEW S, NEW T, NEW e, NEW f, IsSum(g, S, e), IsSum(g, T, f),
         NEW u, u \subseteq S, u \subseteq T, IsFiniteSet(u)
  PROVE  e[u] = f[u]
<1> DEFINE B == {s \in SUBSET u : e[s] # f[s]}
<1>1. \A s \in B : IsFiniteSet(s) BY FS_Subset
<1>2. ASSUME NEW s \in B PROVE \E t \in B : t \subseteq s /\ t # s
  <2> DEFINE t == s \ {Pick(s)}
  <2>1. s \in SUBSET S /\ s \in SUBSET T /\ t \in SUBSET u OBVIOUS
  <2>2. e[s] = IF s = {} THEN 0 ELSE g[Pick(s)] + e[t] BY <2>1 DEF IsSum
  <2>3. f[s] = IF s = {} THEN 0 ELSE g[Pick(s)] + f[t] BY <2>1 DEF IsSum
  <2>4. s # {} /\ e[t] # f[t] BY <2>2, <2>3
  <2>5. Pick(s) \in s BY <2>4, PickIsIn
  <2> QED BY <2>1, <2>4, <2>5
<1>3. B = {}
  <2> HIDE DEF B
  <2> QED BY <1>1, <1>2, NoSmallestException
<1> QED BY <1>3

LEMMA SumTableExists ==
  ASSUME NEW g, NEW S, IsFiniteSet(S)
  PROVE  IsSum(g, S, SumTable(g, S))
<1> DEFINE B == {s \in SUBSET S : ~\E f : IsSum(g, s, f)}
<1>1. \A s \in B : IsFiniteSet(s) BY FS_Subset
<1>2. ASSUME NEW s \in B PROVE \E t \in B : t \subseteq s /\ t # s
  <2> SUFFICES ASSUME \A t \in SUBSET s : t # s => \E f : IsSum(g, t, f)
               PROVE  FALSE
    OBVIOUS
  <2> DEFINE f == [t \in SUBSET s |->
                     IF t = {} THEN 0
                     ELSE g[Pick(t)] + SumTable(g, t \ {Pick(t)})[t \ {Pick(t)}]]
  <2>1. ASSUME NEW t \in SUBSET s, t # s PROVE IsSum(g, t, SumTable(g, t))
    BY <2>1 DEF SumTable
  <2>2. ASSUME NEW t \in SUBSET s, t # s PROVE SumTable(g, t)[t] = f[t]
    <3> DEFINE r == t \ {Pick(t)}
               h == SumTable(g, t)
    <3>1. IsSum(g, t, h) BY <2>1, <2>2
    <3>2. h[t] = IF t = {} THEN 0 ELSE g[Pick(t)] + h[r] BY <3>1 DEF IsSum
    <3>3. r \in SUBSET s /\ r # s BY <2>2
    <3>4. IsSum(g, r, SumTable(g, r)) BY <3>3, <2>1
    <3>5. IsFiniteSet(r) BY FS_Subset, <3>3
    <3>6. h[r] = SumTable(g, r)[r] BY <3>1, <3>4, <3>5, SumTablesAgree
    <3> QED BY <3>2, <3>6
  <2>3. ASSUME NEW t \in SUBSET s, t # {}
        PROVE  SumTable(g, t \ {Pick(t)})[t \ {Pick(t)}] = f[t \ {Pick(t)}]
    <3>1. Pick(t) \in t BY <2>3, PickIsIn
    <3>2. t \ {Pick(t)} \in SUBSET s /\ t \ {Pick(t)} # s BY <3>1
    <3> QED BY <3>2, <2>2
  <2> HIDE DEF f
  <2>4. f = [t \in SUBSET s |-> IF t = {} THEN 0 ELSE g[Pick(t)] + f[t \ {Pick(t)}]]
    BY <2>3 DEF f
  <2>5. IsSum(g, s, f) BY <2>4 DEF IsSum
  <2> QED BY <2>5
<1>3. B = {}
  <2> HIDE DEF B
  <2> QED BY <1>1, <1>2, NoSmallestException
<1>4. \E f : IsSum(g, S, f) BY <1>3
<1> QED BY <1>4 DEF SumTable

\* A sum over a set, as a fold, takes out the elements one by one.
Sum(g, S) == SumFunctionOnSet(g, S)

LEMMA SumOfNone == ASSUME NEW g PROVE Sum(g, {}) = 0
<1>1. IsSum(g, {}, SumTable(g, {})) BY SumTableExists, FS_EmptySet
<1> QED BY <1>1, SumIs DEF IsSum, Sum

LEMMA SumPicks ==
  ASSUME NEW g, NEW S, IsFiniteSet(S), S # {}
  PROVE  Pick(S) \in S /\ Sum(g, S) = g[Pick(S)] + Sum(g, S \ {Pick(S)})
<1> DEFINE T == S \ {Pick(S)}
<1>1. IsSum(g, S, SumTable(g, S)) BY SumTableExists
<1>2. IsFiniteSet(T) BY FS_Subset
<1>3. IsSum(g, T, SumTable(g, T)) BY <1>2, SumTableExists
<1>4. SumTable(g, S)[S] = g[Pick(S)] + SumTable(g, S)[T] BY <1>1 DEF IsSum
<1>5. SumTable(g, S)[T] = SumTable(g, T)[T] BY <1>1, <1>2, <1>3, SumTablesAgree
<1> QED BY <1>4, <1>5, SumIs, PickIsIn DEF Sum

\* g has integers on S.
Ints(g, S) == \A x \in S : g[x] \in Int

LEMMA SumType ==
  ASSUME NEW g, NEW S, IsFiniteSet(S), Ints(g, S)
  PROVE  Sum(g, S) \in Int
<1> DEFINE B == {s \in SUBSET S : Sum(g, s) \notin Int}
<1>1. \A s \in B : IsFiniteSet(s) BY FS_Subset
<1>2. ASSUME NEW s \in B PROVE \E t \in B : t \subseteq s /\ t # s
  <2>1. s # {} BY SumOfNone
  <2>2. Pick(s) \in s /\ Sum(g, s) = g[Pick(s)] + Sum(g, s \ {Pick(s)})
    BY <2>1, <1>1, SumPicks
  <2>3. g[Pick(s)] \in Int BY <2>2 DEF Ints
  <2>4. Sum(g, s \ {Pick(s)}) \notin Int BY <2>2, <2>3
  <2>5. s \ {Pick(s)} \in B BY <2>4
  <2> QED BY <2>2, <2>5
<1>3. B = {}
  <2> HIDE DEF B
  <2> QED BY <1>1, <1>2, NoSmallestException
<1> QED BY <1>3

LEMMA SumTakesOut ==
  ASSUME NEW g, NEW S, IsFiniteSet(S), Ints(g, S), NEW x \in S
  PROVE  Sum(g, S) = g[x] + Sum(g, S \ {x})
<1> DEFINE B == {s \in SUBSET S : \E y \in s : Sum(g, s) # g[y] + Sum(g, s \ {y})}
<1>1. \A s \in B : IsFiniteSet(s) BY FS_Subset
<1>2. ASSUME NEW s \in B PROVE \E t \in B : t \subseteq s /\ t # s
  <2> DEFINE p == Pick(s)
  <2>1. PICK y \in s : Sum(g, s) # g[y] + Sum(g, s \ {y}) OBVIOUS
  <2>2. IsFiniteSet(s) BY <1>1
  <2>3. p \in s /\ Sum(g, s) = g[p] + Sum(g, s \ {p}) BY <2>1, <2>2, SumPicks
  <2>4. p # y BY <2>1, <2>3
  <2>5. SUFFICES ASSUME s \ {p} \notin B, s \ {y} \notin B PROVE FALSE
    BY <2>1, <2>3
  <2>6. y \in s \ {p} /\ s \ {p} \in SUBSET S BY <2>4
  <2>7. p \in s \ {y} /\ s \ {y} \in SUBSET S BY <2>3, <2>4
  <2>8. Sum(g, s \ {p}) = g[y] + Sum(g, (s \ {p}) \ {y}) BY <2>5, <2>6
  <2>9. Sum(g, s \ {y}) = g[p] + Sum(g, (s \ {y}) \ {p}) BY <2>5, <2>7
  <2>10. (s \ {p}) \ {y} = (s \ {y}) \ {p} OBVIOUS
  <2>11. g[p] \in Int /\ g[y] \in Int BY <2>3 DEF Ints
  <2>12. Sum(g, (s \ {y}) \ {p}) \in Int
    <3>1. IsFiniteSet((s \ {y}) \ {p}) BY <2>2, FS_Subset
    <3>2. Ints(g, (s \ {y}) \ {p}) BY DEF Ints
    <3> QED BY <3>1, <3>2, SumType
  <2> DEFINE rest == Sum(g, (s \ {y}) \ {p})
  <2>13. Sum(g, s \ {p}) = g[y] + rest /\ Sum(g, s \ {y}) = g[p] + rest
    BY <2>8, <2>9, <2>10
  <2>14. rest \in Int BY <2>12
  <2> HIDE DEF B, rest, p
  <2>15. Sum(g, s) = g[p] + (g[y] + rest) BY <2>3, <2>13
  <2>16. Sum(g, s) # g[y] + (g[p] + rest) BY <2>1, <2>13
  <2> QED BY <2>11, <2>14, <2>15, <2>16
<1>3. B = {}
  <2> HIDE DEF B
  <2> QED BY <1>1, <1>2, NoSmallestException
<1> QED BY <1>3

\* What is summed over the union of two sets apart.
LEMMA SumSplits ==
  ASSUME NEW g, NEW S, NEW T, IsFiniteSet(S), IsFiniteSet(T), Ints(g, S), Ints(g, T),
         S \cap T = {}
  PROVE  Sum(g, S \cup T) = Sum(g, S) + Sum(g, T)
<1> DEFINE B == {t \in SUBSET T : Sum(g, S \cup t) # Sum(g, S) + Sum(g, t)}
<1>1. \A t \in B : IsFiniteSet(t) BY FS_Subset
<1>2. ASSUME NEW t \in B PROVE \E r \in B : r \subseteq t /\ r # t
  <2>1. Sum(g, S) \in Int BY SumType
  <2>2. t # {}
    <3> SUFFICES ASSUME t = {} PROVE FALSE OBVIOUS
    <3>1. S \cup t = S OBVIOUS
    <3> QED BY <2>1, <3>1, SumOfNone
  <2>3. PICK x \in t : TRUE BY <2>2
  <2> DEFINE r == t \ {x}
  <2>4. IsFiniteSet(t) /\ IsFiniteSet(r) /\ Ints(g, t) /\ Ints(g, r)
    BY <1>1, FS_Subset DEF Ints
  <2>5. IsFiniteSet(S \cup t) /\ Ints(g, S \cup t) /\ x \in S \cup t
    BY <2>4, FS_Union DEF Ints
  <2>6. Sum(g, S \cup t) = g[x] + Sum(g, (S \cup t) \ {x}) BY <2>5, SumTakesOut
  <2>7. (S \cup t) \ {x} = S \cup r BY <2>3
  <2>8. Sum(g, t) = g[x] + Sum(g, r) BY <2>4, SumTakesOut
  <2>9. Sum(g, r) \in Int /\ g[x] \in Int BY <2>4, SumType DEF Ints
  <2>10. Sum(g, S \cup t) # Sum(g, S) + Sum(g, t) /\ r \in SUBSET T OBVIOUS
  <2>11. Sum(g, S \cup r) # Sum(g, S) + Sum(g, r)
    <3> DEFINE a == g[x] b == Sum(g, r) c == Sum(g, S) d == Sum(g, S \cup r)
    <3>1. a \in Int /\ b \in Int /\ c \in Int BY <2>1, <2>9
    <3>2. a + d # c + (a + b) BY <2>6, <2>7, <2>8, <2>10
    <3> HIDE DEF a, b, c, d
    <3>3. d # c + b BY <3>1, <3>2
    <3> QED BY <3>3 DEF a, b, c, d
  <2> QED BY <2>3, <2>10, <2>11
<1>3. B = {}
  <2> HIDE DEF B
  <2> QED BY <1>1, <1>2, NoSmallestException
<1> QED BY <1>3

\* Sums of the same values over sets that correspond one to one.
LEMMA SumMaps ==
  ASSUME NEW g, NEW h, NEW S, NEW f, IsFiniteSet(S), Ints(g, S),
         \A x \in S : h[f[x]] = g[x],
         \A x, y \in S : f[x] = f[y] => x = y
  PROVE  Sum(h, {f[x] : x \in S}) = Sum(g, S)
<1> DEFINE Im(s) == {f[x] : x \in s}
           B == {s \in SUBSET S : Sum(h, Im(s)) # Sum(g, s)}
<1>1. \A s \in B : IsFiniteSet(s) BY FS_Subset
<1>2. ASSUME NEW s \in B PROVE \E t \in B : t \subseteq s /\ t # s
  <2>1. s # {}
    <3> SUFFICES ASSUME s = {} PROVE FALSE OBVIOUS
    <3>1. Im(s) = {} OBVIOUS
    <3> QED BY <3>1, SumOfNone
  <2>2. PICK x \in s : TRUE BY <2>1
  <2> DEFINE t == s \ {x}
  <2>3. IsFiniteSet(s) /\ Ints(g, s) BY <1>1, FS_Subset DEF Ints
  <2>4. IsFiniteSet(Im(s))
    <3> DEFINE e == [y \in s |-> f[y]]
    <3>2. e \in Surjection(s, Im(s)) BY DEF Surjection
    <3> QED BY <2>3, <3>2, FS_Surjection
  <2>5. Ints(h, Im(s)) /\ f[x] \in Im(s) BY <2>3 DEF Ints
  <2>6. Sum(h, Im(s)) = h[f[x]] + Sum(h, Im(s) \ {f[x]})
    <3> HIDE DEF Im
    <3> QED BY <2>4, <2>5, SumTakesOut
  <2>7. Im(s) \ {f[x]} = Im(t) OBVIOUS
  <2>8. Sum(g, s) = g[x] + Sum(g, t) BY <2>3, SumTakesOut
  <2>9. h[f[x]] = g[x] OBVIOUS
  <2>10. Sum(h, Im(t)) # Sum(g, t) BY <2>6, <2>7, <2>8, <2>9
  <2>11. t \in B /\ t \subseteq s /\ t # s BY <2>2, <2>10
  <2> HIDE DEF B, t
  <2> QED BY <2>11
<1>3. B = {}
  <2> HIDE DEF B
  <2> QED BY <1>1, <1>2, NoSmallestException
<1> QED BY <1>3

LEMMA SumsAgree ==
  ASSUME NEW g, NEW h, NEW S, IsFiniteSet(S), Ints(g, S), \A x \in S : h[x] = g[x]
  PROVE  Sum(h, S) = Sum(g, S)
<1> DEFINE f == [x \in S |-> x]
<1>1. {f[x] : x \in S} = S OBVIOUS
<1>2. (\A x \in S : h[f[x]] = g[x]) /\ (\A x, y \in S : f[x] = f[y] => x = y) OBVIOUS
<1> HIDE DEF f
<1>3. Sum(h, {f[x] : x \in S}) = Sum(g, S) BY <1>2, SumMaps
<1> QED BY <1>1, <1>3

\* The parts that the labels of S cut it into, and f the sums of g over them.
CutBy(lab, parts, S, L) ==
    (\A x \in S : lab[x] \in L) /\ (\A l \in L : parts[l] = {x \in S : lab[x] = l})
SumsOf(f, g, parts, L) == \A l \in L : f[l] = Sum(g, parts[l])

\* A sum is the sum of the sums of its parts.
LEMMA SumParts ==
  ASSUME NEW g, NEW S, NEW L, NEW f, NEW lab, NEW parts, IsFiniteSet(S), IsFiniteSet(L),
         Ints(g, S), CutBy(lab, parts, S, L), SumsOf(f, g, parts, L)
  PROVE  Sum(f, L) = Sum(g, S)
<1> DEFINE At(K) == {x \in S : lab[x] \in K}
           One(l) == {x \in S : lab[x] = l}
           B == {K \in SUBSET L : Sum(f, K) # Sum(g, At(K))}
<1>0. \A l \in L : IsFiniteSet(One(l)) /\ Ints(g, One(l)) BY FS_Subset DEF Ints
<1>a. \A l \in L : f[l] = Sum(g, One(l)) BY DEF CutBy, SumsOf
<1>b. \A x \in S : lab[x] \in L BY DEF CutBy
<1>1. \A K \in B : IsFiniteSet(K) BY FS_Subset
<1>2. ASSUME NEW K \in B PROVE \E t \in B : t \subseteq K /\ t # K
  <2>1. K # {}
    <3> SUFFICES ASSUME K = {} PROVE FALSE OBVIOUS
    <3>1. At(K) = {} OBVIOUS
    <3> QED BY <3>1, SumOfNone
  <2>2. PICK k \in K : TRUE BY <2>1
  <2> DEFINE t == K \ {k}
  <2>3. IsFiniteSet(K) BY <1>1
  <2>4. \A l \in L : f[l] \in Int
    <3>1. ASSUME NEW l \in L PROVE f[l] \in Int
      <4>1. f[l] = Sum(g, One(l)) BY <1>a
      <4> HIDE DEF One
      <4> QED BY <4>1, <1>0, SumType
    <3> QED BY <3>1
  <2>5. Ints(f, K) BY <2>4 DEF Ints
  <2>6. Sum(f, K) = f[k] + Sum(f, t) BY <2>3, <2>5, SumTakesOut
  <2>7. At(K) = One(k) \cup At(t) /\ One(k) \cap At(t) = {} BY <2>2
  <2>8. IsFiniteSet(At(t)) /\ Ints(g, At(t)) BY FS_Subset DEF Ints
  <2>9. Sum(g, At(K)) = Sum(g, One(k)) + Sum(g, At(t))
    <3>1. IsFiniteSet(One(k)) /\ Ints(g, One(k)) BY <1>0
    <3> HIDE DEF At, One
    <3> QED BY <3>1, <2>7, <2>8, SumSplits
  <2>10. f[k] = Sum(g, One(k)) BY <1>a
  <2>11. Sum(f, K) # Sum(g, At(K)) /\ t \in SUBSET L OBVIOUS
  <2>12. Sum(f, t) # Sum(g, At(t)) BY <2>6, <2>9, <2>10, <2>11
  <2>13. t \in B /\ t \subseteq K /\ t # K BY <2>2, <2>11, <2>12
  <2> HIDE DEF B, t
  <2> QED BY <2>13
<1>3. B = {}
  <2> HIDE DEF B
  <2> QED BY <1>1, <1>2, NoSmallestException
<1>4. At(L) = S BY <1>b
<1>5. L \notin B BY <1>3
<1> QED BY <1>4, <1>5

LEMMA SumNat ==
  ASSUME NEW g, NEW S, IsFiniteSet(S), \A x \in S : g[x] \in Nat
  PROVE  Sum(g, S) \in Nat
<1> DEFINE B == {s \in SUBSET S : Sum(g, s) \notin Nat}
<1>1. \A s \in B : IsFiniteSet(s) BY FS_Subset
<1>2. ASSUME NEW s \in B PROVE \E t \in B : t \subseteq s /\ t # s
  <2>1. s # {} BY SumOfNone
  <2>2. Pick(s) \in s /\ Sum(g, s) = g[Pick(s)] + Sum(g, s \ {Pick(s)})
    BY <2>1, <1>1, SumPicks
  <2>3. g[Pick(s)] \in Nat BY <2>2
  <2>4. Sum(g, s \ {Pick(s)}) \notin Nat BY <2>2, <2>3
  <2>5. s \ {Pick(s)} \in B BY <2>4
  <2> QED BY <2>2, <2>5
<1>3. B = {}
  <2> HIDE DEF B
  <2> QED BY <1>1, <1>2, NoSmallestException
<1> QED BY <1>3

-----------------------------------------------------------------------------
(* Totals of amounts *)

Amounted(S) == IsFiniteSet(S) /\ \A r \in S : r.amount \in Int

LEMMA TotalIs ==
  ASSUME NEW S, NEW U, S \subseteq U, Amounted(S)
  PROVE  Total(S) = Sum([r \in U |-> r.amount], S) /\ Ints([r \in U |-> r.amount], S)
<1> DEFINE g == [r \in S |-> r.amount]
           h == [r \in U |-> r.amount]
<1>1. Total(S) = Sum(g, S)
  BY DEF Total, SumFunction, Sum
<1>2. (\A r \in S : g[r] = h[r]) /\ Ints(g, S) /\ Ints(h, S)
  BY DEF Amounted, Ints
<1> HIDE DEF g, h
<1>3. Sum(h, S) = Sum(g, S)
  BY <1>2, SumsAgree DEF Amounted
<1> QED BY <1>1, <1>2, <1>3 DEF g, h

LEMMA TotalType == ASSUME NEW S, Amounted(S) PROVE Total(S) \in Int
<1> DEFINE h == [r \in S |-> r.amount]
<1>1. Total(S) = Sum(h, S) /\ Ints(h, S) /\ IsFiniteSet(S)
  BY TotalIs DEF Amounted
<1> HIDE DEF h
<1> QED BY <1>1, SumType

LEMMA TotalSplits ==
  ASSUME NEW S, NEW T, Amounted(S), Amounted(T), S \cap T = {}
  PROVE  Total(S \cup T) = Total(S) + Total(T)
<1> DEFINE h == [r \in S \cup T |-> r.amount]
<1>1. Amounted(S \cup T)
  BY FS_Union DEF Amounted
<1>2. /\ Total(S) = Sum(h, S) /\ Ints(h, S) /\ Total(T) = Sum(h, T) /\ Ints(h, T)
      /\ Total(S \cup T) = Sum(h, S \cup T)
  BY <1>1, TotalIs
<1> HIDE DEF h
<1>3. Sum(h, S \cup T) = Sum(h, S) + Sum(h, T)
  BY <1>2, SumSplits DEF Amounted
<1> QED BY <1>2, <1>3

LEMMA TotalMaps ==
  ASSUME NEW S, NEW f, Amounted(S), \A x \in S : f[x].amount = x.amount,
         \A x, y \in S : f[x] = f[y] => x = y
  PROVE  Total({f[x] : x \in S}) = Total(S)
<1> DEFINE T == {f[x] : x \in S}
           g == [r \in S |-> r.amount]
           h == [e \in T |-> e.amount]
<1>1. IsFiniteSet(T)
  <2> DEFINE e == [y \in S |-> f[y]]
  <2>1. e \in Surjection(S, T) BY DEF Surjection
  <2> QED BY <2>1, FS_Surjection DEF Amounted
<1>2. Amounted(T)
  BY <1>1 DEF Amounted
<1>3. Total(S) = Sum(g, S) /\ Ints(g, S) /\ IsFiniteSet(S)
  BY TotalIs DEF Amounted
<1>4. Total(T) = Sum(h, T)
  <2> HIDE DEF T
  <2> QED BY <1>2, TotalIs
<1>5. \A x \in S : h[f[x]] = g[x]
  OBVIOUS
<1> HIDE DEF g, h
<1>6. Sum(h, {f[x] : x \in S}) = Sum(g, S)
  BY <1>3, <1>5, SumMaps
<1> QED BY <1>3, <1>4, <1>6

LEMMA TotalParts ==
  ASSUME NEW S, NEW L, NEW lab, Amounted(S), IsFiniteSet(L), \A x \in S : lab[x] \in L
  PROVE  SumFunction([l \in L |-> Total({x \in S : lab[x] = l})]) = Total(S)
<1> DEFINE f == [l \in L |-> Total({x \in S : lab[x] = l})]
           g == [r \in S |-> r.amount]
<1>1. Total(S) = Sum(g, S) /\ Ints(g, S) /\ IsFiniteSet(S)
  BY TotalIs DEF Amounted
<1>2. ASSUME NEW l \in L PROVE f[l] = Sum(g, {x \in S : lab[x] = l})
  <2> DEFINE P == {x \in S : lab[x] = l}
  <2>1. P \subseteq S /\ Amounted(P)
    BY FS_Subset DEF Amounted
  <2> HIDE DEF P
  <2>2. Total(P) = Sum(g, P)
    BY <2>1, TotalIs
  <2> QED BY <2>2 DEF P
<1>3. SumFunction(f) = Sum(f, L)
  BY DEF SumFunction, Sum
<1> HIDE DEF f, g
<1> DEFINE parts == [l \in L |-> {x \in S : lab[x] = l}]
<1>4. CutBy(lab, parts, S, L) /\ SumsOf(f, g, parts, L)
  BY <1>2 DEF CutBy, SumsOf
<1> HIDE DEF parts
<1>5. Sum(f, L) = Sum(g, S)
  BY <1>1, <1>4, SumParts
<1> QED BY <1>1, <1>3, <1>5 DEF f

-----------------------------------------------------------------------------
(* What the books hold of one thing *)

Counts(r) == ~SaleBacked(r)

\* What a row that counts says has happened.
Seen(r) ==
    Event(r.id, IF r.table \in {"sale", "income"} THEN "in" ELSE "out",
          IF r.table = "cost" /\ r.source # "none" THEN 1 ELSE r.copy, r.at, r.amount)

\* Its rows R, what happened E and again A, its credits C and whether it changed.
Recorded(R, E, A) == \A r \in R : Counts(r) => Seen(r) \in E \cup A
Booked(R, E, A) == \A e \in E \cup A : \E r \in R : Counts(r) /\ Seen(r) = e
OneKind(R) ==
    \A r, q \in R : r.source = q.source /\ (r.source = "none" => r.table = q.table)
Written(R, A) ==
    \A r \in R : r.source # "none" =>
        /\ r.copy = 0 /\ r.table # "ad"
        /\ r.table = "sale" => \E q \in R : q.table = "income"
        /\ r.table \notin {"sale", "income"} => A # {}
Single(R, E, A) ==
    /\ A = {} => \A r \in R : r.copy = 0
    /\ \A e, f \in E : e = f
Credited(R, C, ch) ==
    \A c \in C : \E r \in R :
        /\ r.table = "sale" /\ r.copy = c.copy
        /\ ~ch => r.at = c.at /\ (c.amount \notin Claims[c.id] => c.amount = r.amount)

Sound(R, E, A, C, ch) ==
    /\ Recorded(R, E, A) /\ Booked(R, E, A) /\ OneKind(R) /\ Written(R, A)
    /\ Single(R, E, A) /\ Credited(R, C, ch)

SoundOf(i) == Sound(Of(rows, i), Of(real, i), Of(again, i), Of(credits, i), i \in changed)

BooksTypes ==
    /\ BooksTypeOK
    /\ IsFiniteSet(rows) /\ IsFiniteSet(real) /\ IsFiniteSet(again)

BooksInv == BooksTypes /\ \A i \in Things : SoundOf(i)

RowsOf(i) == {r \in Row : r.id = i}
EventsOf(i) == {e \in Happening : e.id = i}
CreditsOf(i) ==
    {c \in [id : Things, copy : Nat, at : Instants, amount : Values \cup Stateable] : c.id = i}

\* A row that counts is known by what it says.
LEMMA SeenOnce ==
  ASSUME NEW i, NEW R, R \subseteq RowsOf(i), NEW A, OneKind(R), Written(R, A),
         NEW r \in R, NEW q \in R, Counts(r), Counts(q), Seen(r) = Seen(q)
  PROVE  r = q
<1>1. r \in Row /\ q \in Row
  BY DEF RowsOf
<1>2. r.source = q.source /\ (r.source = "none" => r.table = q.table)
  BY DEF OneKind
<1>3. r.id = q.id /\ r.at = q.at /\ r.amount = q.amount
  BY DEF Seen, Event
<1>4. /\ (r.table \in {"sale", "income"}) = (q.table \in {"sale", "income"})
      /\ r.copy = q.copy \/ (r.table = "cost" /\ r.source # "none")
           \/ (q.table = "cost" /\ q.source # "none")
  BY DEF Seen, Event
<1>5. r.table = q.table /\ r.copy = q.copy
  <2>1. CASE r.source = "none"
    BY <1>2, <1>4, <2>1
  <2>2. CASE r.source # "none"
    <3>1. r.copy = 0 /\ q.copy = 0 /\ r.table # "ad" /\ q.table # "ad"
      BY <1>2, <2>2 DEF Written
    <3>2. r.table # "income" /\ q.table # "income"
      BY <1>1, <1>2, <2>2 DEF Counts, SaleBacked, Row
    <3>3. r.table \in {"sale", "expense", "cost"} /\ q.table \in {"sale", "expense", "cost"}
      BY <1>1, <3>1, <3>2 DEF Row, Tables
    <3>4. (r.table = "cost") = (q.table = "cost")
      <4>1. Seen(r).copy = Seen(q).copy
        OBVIOUS
      <4> QED BY <1>2, <2>2, <3>1, <4>1 DEF Seen, Event
    <3> QED BY <1>4, <3>1, <3>3, <3>4
  <2> QED BY <2>1, <2>2
<1> QED BY <1>1, <1>2, <1>3, <1>5 DEF Row

\* What was never booked once more than it happened has one row that counts.
LEMMA Alone ==
  ASSUME NEW i, NEW R, R \subseteq RowsOf(i), NEW E, NEW C, NEW ch, Sound(R, E, {}, C, ch),
         NEW r \in R, Counts(r), NEW q \in R, Counts(q)
  PROVE  r = q
<1>1. Seen(r) \in E /\ Seen(q) \in E
  BY DEF Sound, Recorded
<1>2. Seen(r) = Seen(q)
  BY <1>1 DEF Sound, Single
<1> QED BY <1>2, SeenOnce DEF Sound

LEMMA NewRowIs ==
  ASSUME NEW i \in Things, NEW at \in Times[i], NEW a \in Amounts[i], NEW copy \in Nat,
         NEW t \in Tables, NEW src \in Channels \cup {"none"}
  PROVE  /\ NewRow(t, i, copy, src, at, a) \in RowsOf(i)
         /\ \A w \in {a} \cup Claims[i] : Credit(NewRow(t, i, copy, src, at, a), w) \in CreditsOf(i)
         /\ \A way \in {"in", "out"} : Event(i, way, copy, at, a) \in EventsOf(i)
<1>1. at \in Instants /\ a \in Values /\ {a} \cup Claims[i] \subseteq Values \cup Stateable
  BY DEF Instants, Values, Stateable
<1>2. NewRow(t, i, copy, src, at, a) \in RowsOf(i)
  BY <1>1 DEF RowsOf, NewRow, Row
<1>3. \A way \in {"in", "out"} : Event(i, way, copy, at, a) \in EventsOf(i)
  BY <1>1 DEF EventsOf, Event, Happening
<1>4. \A w \in {a} \cup Claims[i] : Credit(NewRow(t, i, copy, src, at, a), w) \in CreditsOf(i)
  BY <1>1 DEF CreditsOf, NewRow, Credit
<1> QED BY <1>2, <1>3, <1>4

\* A first sale, or one entered again after its credit was refused.
LEMMA SaleEntered ==
  ASSUME NEW i, NEW R, R \subseteq RowsOf(i), NEW A, NEW C, NEW ch, Sound(R, {}, A, C, ch),
         \A r \in R : r.table = "sale", NEW copy \in Nat, copy = 0 <=> R = {},
         NEW at, NEW a, NEW w \in {a} \cup Claims[i]
  PROVE  LET n == NewRow("sale", i, copy, "none", at, a)
             e == Event(i, "in", copy, at, a)
         IN  /\ Sound(R \cup {n}, {e}, A, C, ch)
             /\ Sound(R \cup {n}, {}, A \cup {e}, C, ch)
             /\ Sound(R \cup {n}, {e}, A, C \cup {Credit(n, w)}, ch)
             /\ Sound(R \cup {n}, {}, A \cup {e}, C \cup {Credit(n, w)}, ch)
<1> DEFINE n == NewRow("sale", i, copy, "none", at, a)
           e == Event(i, "in", copy, at, a)
<1>0. n.table = "sale" /\ n.source = "none" /\ n.copy = copy /\ Counts(n) /\ Seen(n) = e
      /\ Credit(n, w).copy = n.copy /\ Credit(n, w).at = n.at /\ Credit(n, w).amount = w
      /\ Credit(n, w).id = i /\ n.amount = a
  BY DEF NewRow, Counts, SaleBacked, Seen, Event, Credit
<1> HIDE DEF n, e
<1>1. Recorded(R, {}, A) /\ Booked(R, {}, A) /\ OneKind(R) /\ Written(R, A)
      /\ Single(R, {}, A) /\ Credited(R, C, ch)
  BY DEF Sound
<1>2. \A r \in R : r.source = "none"
  <2>1. ASSUME NEW r \in R, r.source # "none" PROVE FALSE
    BY <1>1, <2>1 DEF Written
  <2> QED BY <2>1
<1>3. OneKind(R \cup {n})
  BY <1>0, <1>2 DEF OneKind
<1>4. A = {} => R = {}
  BY <1>1 DEF Recorded, Counts, SaleBacked
<1>5. Recorded(R \cup {n}, {e}, A) /\ Recorded(R \cup {n}, {}, A \cup {e})
  BY <1>0, <1>1 DEF Recorded
<1>6. Booked(R \cup {n}, {e}, A) /\ Booked(R \cup {n}, {}, A \cup {e})
  BY <1>0, <1>1 DEF Booked
<1>7. Written(R \cup {n}, A) /\ Written(R \cup {n}, A \cup {e})
  BY <1>0, <1>2 DEF Written
<1>8. Single(R \cup {n}, {e}, A) /\ Single(R \cup {n}, {}, A \cup {e})
  BY <1>0, <1>4 DEF Single
<1>9. Credited(R \cup {n}, C, ch) /\ Credited(R \cup {n}, C \cup {Credit(n, w)}, ch)
  BY <1>0, <1>1 DEF Credited
<1> QED BY <1>3, <1>5, <1>6, <1>7, <1>8, <1>9 DEF Sound, n, e

\* The one row that counts, and what is left of the others.
LEMMA RowIsAlone ==
  ASSUME NEW i, NEW R, R \subseteq RowsOf(i), NEW E, NEW C, NEW ch, Sound(R, E, {}, C, ch),
         NEW r \in R, r.table \in {"sale", "cost"}
  PROVE  /\ r \in Row /\ r.id = i /\ r.copy = 0 /\ (r.table = "cost" => r.source = "none")
         /\ \A q \in R : Counts(q) \/ q.table = "sale" => q = r
         /\ \A c \in C : r.table = "sale" /\ c.copy = r.copy
<1>1. Recorded(R, E, {}) /\ Booked(R, E, {}) /\ OneKind(R) /\ Written(R, {})
      /\ Single(R, E, {}) /\ Credited(R, C, ch)
  BY DEF Sound
<1>2. Counts(r) /\ r.copy = 0 /\ r \in Row /\ r.id = i
  BY <1>1 DEF Counts, SaleBacked, Single, RowsOf
<1>3. \A q \in R : Counts(q) \/ q.table = "sale" => q = r
  <2>1. \A q \in R : q.table = "sale" => Counts(q)
    BY DEF Counts, SaleBacked
  <2>2. \A q \in R : Counts(q) => q = r
    BY <1>2, Alone
  <2> QED BY <2>1, <2>2
<1>4. r.table = "cost" => r.source = "none"
  BY <1>1 DEF Written
<1>5. ASSUME NEW c \in C PROVE r.table = "sale" /\ c.copy = r.copy
  <2>1. PICK q \in R : q.table = "sale" /\ q.copy = c.copy
    BY <1>1 DEF Credited
  <2>2. q = r
    BY <1>3, <2>1
  <2> QED BY <2>1, <2>2
<1> QED BY <1>2, <1>3, <1>4, <1>5

\* A row that counts is changed.
LEMMA RowChanged ==
  ASSUME NEW i, NEW R, R \subseteq RowsOf(i), NEW E, NEW C, NEW ch, Sound(R, E, {}, C, ch),
         NEW r \in R, r.table \in {"sale", "cost"}, NEW at, NEW a,
         NEW n, n.table = r.table, n.source = r.source, n.copy = r.copy, n.id = r.id,
         n.at = at, n.amount = a,
         NEW e, r.table = "sale" => e = Event(i, "in", 0, at, a),
         r.table = "cost" => e = Event(i, "out", 0, at, a),
         NEW new, r.table = "sale" => new
  PROVE  Sound((R \ {r}) \cup {n}, {e}, {}, C, new)
<1>1. Recorded(R, E, {}) /\ Booked(R, E, {}) /\ OneKind(R) /\ Written(R, {})
      /\ Single(R, E, {}) /\ Credited(R, C, ch)
  BY DEF Sound
<1>2. /\ r \in Row /\ r.id = i /\ r.copy = 0 /\ (r.table = "cost" => r.source = "none")
      /\ \A q \in R : Counts(q) \/ q.table = "sale" => q = r
      /\ \A c \in C : r.table = "sale" /\ c.copy = r.copy
  BY RowIsAlone
<1>3. Counts(n) /\ Seen(n) = e
  BY <1>2 DEF Counts, SaleBacked, Seen, Event
<1>4. Recorded((R \ {r}) \cup {n}, {e}, {}) /\ Booked((R \ {r}) \cup {n}, {e}, {})
  BY <1>2, <1>3 DEF Recorded, Booked
<1>5. OneKind((R \ {r}) \cup {n})
  <2>1. \A q \in (R \ {r}) \cup {n} : q.source = r.source /\ (q.source = "none" => q.table = r.table)
    BY <1>1 DEF OneKind
  <2> QED BY <2>1 DEF OneKind
<1>6. Written((R \ {r}) \cup {n}, {})
  <2>1. r.table = "sale" /\ r.source # "none" => \E q \in R \ {r} : q.table = "income"
    BY <1>1 DEF Written
  <2> QED BY <1>1, <1>2, <2>1 DEF Written
<1>7. Single((R \ {r}) \cup {n}, {e}, {})
  BY <1>1, <1>2 DEF Single
<1>8. Credited((R \ {r}) \cup {n}, C, new)
  BY <1>2 DEF Credited
<1> QED BY <1>4, <1>5, <1>6, <1>7, <1>8 DEF Sound

\* A row that counts is taken out.
LEMMA RowRemoved ==
  ASSUME NEW i, NEW R, R \subseteq RowsOf(i), NEW E, NEW C, NEW ch, Sound(R, E, {}, C, ch),
         NEW r \in R, r.table \in {"sale", "cost"}
  PROVE  Sound(R \ {r}, {}, {}, {c \in C : c.copy # r.copy}, ch)
<1>1. OneKind(R) /\ Written(R, {}) /\ Single(R, E, {})
  BY DEF Sound
<1>2. /\ \A q \in R : Counts(q) \/ q.table = "sale" => q = r
      /\ \A c \in C : c.copy = r.copy
  BY RowIsAlone
<1>3. Recorded(R \ {r}, {}, {}) /\ Booked(R \ {r}, {}, {}) /\ OneKind(R \ {r})
  BY <1>1, <1>2 DEF Recorded, Booked, OneKind
<1>4. Written(R \ {r}, {}) /\ Single(R \ {r}, {}, {})
  BY <1>1, <1>2 DEF Written, Single
<1>5. Credited(R \ {r}, {c \in C : c.copy # r.copy}, ch)
  BY <1>2 DEF Credited
<1> QED BY <1>3, <1>4, <1>5 DEF Sound

\* What has no row has not happened.
LEMMA NothingYet ==
  ASSUME NEW E, NEW A, NEW C, NEW ch, Sound({}, E, A, C, ch)
  PROVE  E = {} /\ A = {} /\ C = {}
  BY DEF Sound, Booked, Credited

\* Something that happened once and is written once, without a source.
LEMMA FirstRow ==
  ASSUME NEW i, NEW at, NEW a, NEW ch, NEW t \in Tables,
         NEW way, way = IF t \in {"sale", "income"} THEN "in" ELSE "out"
  PROVE  Sound({NewRow(t, i, 0, "none", at, a)}, {Event(i, way, 0, at, a)}, {}, {}, ch)
<1> DEFINE n == NewRow(t, i, 0, "none", at, a)
           e == Event(i, way, 0, at, a)
<1>1. n.table = t /\ n.source = "none" /\ n.copy = 0
  BY DEF NewRow
<1>2. Counts(n) /\ Seen(n) = e
  BY DEF NewRow, Counts, SaleBacked, Channels, Seen, Event
<1> HIDE DEF n, e
<1>3. Recorded({n}, {e}, {}) /\ Booked({n}, {e}, {}) /\ OneKind({n})
  BY <1>1, <1>2 DEF Recorded, Booked, OneKind
<1>4. Written({n}, {}) /\ Single({n}, {e}, {}) /\ Credited({n}, {}, ch)
  BY <1>1 DEF Written, Single, Credited
<1> QED BY <1>3, <1>4 DEF Sound, n, e

\* An imported cost is written as a cost and as an expense.
LEMMA CostImported ==
  ASSUME NEW i, NEW at, NEW a, NEW ch
  PROVE  Sound({NewRow("cost", i, 0, "intelligent_import", at, a),
                NewRow("expense", i, 0, "intelligent_import", at, a)},
               {Event(i, "out", 0, at, a)}, {Event(i, "out", 1, at, a)}, {}, ch)
<1> DEFINE n == NewRow("cost", i, 0, "intelligent_import", at, a)
           m == NewRow("expense", i, 0, "intelligent_import", at, a)
           e == Event(i, "out", 0, at, a)
           f == Event(i, "out", 1, at, a)
<1>1. /\ n.table = "cost" /\ n.source = "intelligent_import" /\ n.copy = 0
      /\ m.table = "expense" /\ m.source = "intelligent_import" /\ m.copy = 0
  BY DEF NewRow
<1>2. Counts(n) /\ Seen(n) = f /\ Counts(m) /\ Seen(m) = e
  BY DEF NewRow, Counts, SaleBacked, Seen, Event
<1> HIDE DEF n, m, e, f
<1>3. Recorded({n, m}, {e}, {f}) /\ Booked({n, m}, {e}, {f})
  BY <1>2 DEF Recorded, Booked
<1>4. OneKind({n, m}) /\ Written({n, m}, {f}) /\ Single({n, m}, {e}, {f})
  BY <1>1 DEF OneKind, Written, Single
<1>5. Credited({n, m}, {}, ch)
  BY DEF Credited
<1> QED BY <1>3, <1>4, <1>5 DEF Sound, n, m, e, f

\* A sale of a channel, written twice, replaces what the channel had written.
LEMMA ChannelWrites ==
  ASSUME NEW i, NEW R, NEW E, NEW C, NEW ch, Sound(R, E, {}, C, ch),
         NEW src \in Channels, \A r \in R : r.source = src, NEW at, NEW a
  PROVE  LET e == Event(i, "in", 0, at, a)
         IN  /\ \A r \in R : r.table \in {"sale", "income"}
             /\ Sound(Both(i, src, at, a), {e}, {}, C, ch \/ C # {})
             /\ Sound(Both(i, src, at, a), {e}, {},
                      {Credit(NewRow("sale", i, 0, src, at, a), a)}, FALSE)
<1> DEFINE n == NewRow("sale", i, 0, src, at, a)
           m == NewRow("income", i, 0, src, at, a)
           e == Event(i, "in", 0, at, a)
<1>0. src # "none"
  BY DEF Channels
<1>1. /\ n.table = "sale" /\ n.source = src /\ n.copy = 0
      /\ m.table = "income" /\ m.source = src /\ m.copy = 0
      /\ Credit(n, a).copy = 0 /\ Credit(n, a).at = n.at /\ Credit(n, a).amount = n.amount
  BY DEF NewRow, Credit
<1>2. Counts(n) /\ Seen(n) = e /\ ~Counts(m)
  BY DEF NewRow, Counts, SaleBacked, Seen, Event
<1>3. Both(i, src, at, a) = {n, m}
  BY DEF Both
<1> HIDE DEF n, m, e
<1>4. Written(R, {}) /\ Credited(R, C, ch)
  BY DEF Sound
<1>5. \A r \in R : r.copy = 0 /\ r.table \in {"sale", "income"}
  BY <1>0, <1>4 DEF Written
<1>6. Recorded({n, m}, {e}, {}) /\ Booked({n, m}, {e}, {})
  BY <1>2 DEF Recorded, Booked
<1>7. OneKind({n, m}) /\ Written({n, m}, {}) /\ Single({n, m}, {e}, {})
  BY <1>0, <1>1 DEF OneKind, Written, Single
<1>8. \A c \in C : c.copy = 0
  BY <1>4, <1>5 DEF Credited
<1>9. Credited({n, m}, C, ch \/ C # {}) /\ Credited({n, m}, {Credit(n, a)}, FALSE)
  BY <1>1, <1>8 DEF Credited
<1> QED BY <1>3, <1>5, <1>6, <1>7, <1>9 DEF Sound, n, e

\* A delivery of a webhook, the first or a second.
LEMMA RowRepeated ==
  ASSUME NEW i, NEW R, NEW E, NEW A, NEW C, NEW ch, Sound(R, E, A, C, ch),
         NEW t \in {"sale", "ad"}, \A r \in R : r.table = t /\ r.source = "none",
         NEW way, way = IF t = "sale" THEN "in" ELSE "out", NEW copy \in Nat, NEW at, NEW a
  PROVE  Sound(R \cup {NewRow(t, i, copy, "none", at, a)}, E,
               A \cup {Event(i, way, copy, at, a)}, C, ch)
<1> DEFINE n == NewRow(t, i, copy, "none", at, a)
           e == Event(i, way, copy, at, a)
<1>0. n.table = t /\ n.source = "none" /\ Counts(n) /\ Seen(n) = e
  BY DEF NewRow, Counts, SaleBacked, Channels, Seen, Event
<1> HIDE DEF n, e
<1>1. Recorded(R, E, A) /\ Booked(R, E, A) /\ Single(R, E, A) /\ Credited(R, C, ch)
  BY DEF Sound
<1>2. Recorded(R \cup {n}, E, A \cup {e}) /\ Booked(R \cup {n}, E, A \cup {e})
  BY <1>0, <1>1 DEF Recorded, Booked
<1>3. OneKind(R \cup {n}) /\ Written(R \cup {n}, A \cup {e})
  BY <1>0 DEF OneKind, Written
<1>4. Single(R \cup {n}, E, A \cup {e}) /\ Credited(R \cup {n}, C, ch)
  BY <1>1 DEF Single, Credited
<1> QED BY <1>2, <1>3, <1>4 DEF Sound, n, e

\* A sale is credited: a credit of it is replaced.
LEMMA SaleCredited ==
  ASSUME NEW i, NEW R, R \subseteq RowsOf(i), NEW E, NEW A, NEW C, NEW ch, Sound(R, E, A, C, ch),
         NEW r \in R, r.table = "sale", NEW w \in {r.amount} \cup Claims[i],
         NEW new, ch => new \/ \A q \in R : q.table = "sale" => q = r
  PROVE  Sound(R, E, A, {c \in C : c.copy # r.copy} \cup {Credit(r, w)}, new)
<1>1. Credited(R, C, ch)
  BY DEF Sound
<1>2. /\ Credit(r, w).copy = r.copy /\ Credit(r, w).at = r.at /\ Credit(r, w).amount = w
      /\ Credit(r, w).id = i
  BY DEF Credit, RowsOf
<1>3. Credited(R, {c \in C : c.copy # r.copy} \cup {Credit(r, w)}, new)
  BY <1>1, <1>2 DEF Credited
<1> QED BY <1>3 DEF Sound

\* Rows, events and credits of one thing, and a step that leaves it with them.
Fits(i, R, E, A, C) ==
    /\ R \subseteq RowsOf(i) /\ E \subseteq EventsOf(i) /\ A \subseteq EventsOf(i)
    /\ C \subseteq CreditsOf(i)
    /\ IsFiniteSet(R) /\ IsFiniteSet(E) /\ IsFiniteSet(A)
Turns(i, R, E, A, C) ==
    /\ rows' = Without(rows, i) \cup R /\ real' = Without(real, i) \cup E
    /\ again' = Without(again, i) \cup A /\ credits' = Without(credits, i) \cup C
    /\ changed' \subseteq Things
    /\ \A j \in Things \ {i} : (j \in changed') <=> (j \in changed)

LEMMA FewAreFinite ==
  /\ IsFiniteSet({}) /\ (\A x : IsFiniteSet({x})) /\ (\A x, y : IsFiniteSet({x, y}))
  /\ \A S, x : IsFiniteSet(S) => IsFiniteSet(S \cup {x}) /\ IsFiniteSet(S \ {x})
<1>1. \A S, x : IsFiniteSet(S) => IsFiniteSet(S \cup {x}) /\ IsFiniteSet(S \ {x})
  BY FS_AddElement, FS_RemoveElement
<1>2. IsFiniteSet({}) /\ \A x : IsFiniteSet({x})
  BY FS_EmptySet, FS_Singleton
<1>3. ASSUME NEW x, NEW y PROVE IsFiniteSet({x, y})
  <2>1. {x, y} = {x} \cup {y} OBVIOUS
  <2>2. IsFiniteSet({x} \cup {y}) BY <1>1, <1>2
  <2> QED BY <2>1, <2>2
<1> QED BY <1>1, <1>2, <1>3

\* What becomes of one thing is what becomes of the books.
LEMMA Happens ==
  ASSUME BooksInv, NEW i \in Things, NEW R, NEW E, NEW A, NEW C, Fits(i, R, E, A, C),
         Turns(i, R, E, A, C), Sound(R, E, A, C, i \in changed'),
         UNCHANGED <<imported, unitCost, now>>
  PROVE  BooksInv'
<1>1. BooksTypeOK /\ IsFiniteSet(rows) /\ IsFiniteSet(real) /\ IsFiniteSet(again)
  BY DEF BooksInv, BooksTypes
<1>2. IsFiniteSet(rows') /\ IsFiniteSet(real') /\ IsFiniteSet(again')
  BY <1>1, FS_Union, FS_Difference DEF Without, Fits, Turns
<1>3. BooksTypeOK'
  <2>1. rows' \subseteq Row
    BY <1>1 DEF BooksTypeOK, Without, RowsOf, Fits, Turns
  <2>2. real' \subseteq Happening /\ again' \subseteq Happening
    BY <1>1 DEF BooksTypeOK, Without, EventsOf, Fits, Turns
  <2>3. credits' \subseteq [id : Things, copy : Nat, at : Instants, amount : Values \cup Stateable]
    BY <1>1 DEF BooksTypeOK, Without, CreditsOf, Fits, Turns
  <2>4. /\ imported' \subseteq Imports /\ unitCost' \in 0..1 /\ now' \in Nows
        /\ changed' \subseteq Things
    BY <1>1 DEF BooksTypeOK, Turns
  <2> QED BY <2>1, <2>2, <2>3, <2>4 DEF BooksTypeOK
<1>4. Of(rows', i) = R
  BY DEF Of, Without, RowsOf, Fits, Turns
<1>5. Of(real', i) = E /\ Of(again', i) = A
  BY DEF Of, Without, EventsOf, Fits, Turns
<1>6. Of(credits', i) = C
  BY DEF Of, Without, CreditsOf, Fits, Turns
<1>7. SoundOf(i)'
  BY <1>4, <1>5, <1>6 DEF SoundOf
<1>8. ASSUME NEW j \in Things, j # i PROVE SoundOf(j)'
  <2>1. Of(rows', j) = Of(rows, j)
    BY <1>8 DEF Of, Without, RowsOf, Fits, Turns
  <2>2. Of(real', j) = Of(real, j) /\ Of(again', j) = Of(again, j)
    BY <1>8 DEF Of, Without, EventsOf, Fits, Turns
  <2>3. Of(credits', j) = Of(credits, j)
    BY <1>8 DEF Of, Without, CreditsOf, Fits, Turns
  <2>4. (j \in changed') = (j \in changed)
    BY <1>8 DEF Turns
  <2>5. SoundOf(j)
    BY DEF BooksInv
  <2> QED BY <2>1, <2>2, <2>3, <2>4, <2>5 DEF SoundOf
<1>9. \A j \in Things : SoundOf(j)'
  BY <1>7, <1>8
<1> QED BY <1>2, <1>3, <1>9 DEF BooksInv, BooksTypes

\* What the invariant says of one thing.
LEMMA OneThing ==
  ASSUME BooksInv, NEW i \in Things
  PROVE  /\ Fits(i, Of(rows, i), Of(real, i), Of(again, i), Of(credits, i))
         /\ Sound(Of(rows, i), Of(real, i), Of(again, i), Of(credits, i), i \in changed)
         /\ rows = Without(rows, i) \cup Of(rows, i) /\ real = Without(real, i) \cup Of(real, i)
         /\ again = Without(again, i) \cup Of(again, i)
         /\ credits = Without(credits, i) \cup Of(credits, i)
         /\ changed \subseteq Things
<1>1. BooksTypeOK /\ IsFiniteSet(rows) /\ IsFiniteSet(real) /\ IsFiniteSet(again) /\ SoundOf(i)
  BY DEF BooksInv, BooksTypes
<1>2. Of(rows, i) \subseteq RowsOf(i) /\ Of(credits, i) \subseteq CreditsOf(i)
  BY <1>1 DEF BooksTypeOK, Of, RowsOf, CreditsOf
<1>3. Of(real, i) \subseteq EventsOf(i) /\ Of(again, i) \subseteq EventsOf(i)
  BY <1>1 DEF BooksTypeOK, Of, EventsOf
<1>4. IsFiniteSet(Of(rows, i)) /\ IsFiniteSet(Of(real, i)) /\ IsFiniteSet(Of(again, i))
  BY <1>1, FS_Subset DEF Of
<1>5. \A S : S = Without(S, i) \cup Of(S, i)
  BY DEF Of, Without
<1> QED BY <1>1, <1>2, <1>3, <1>4, <1>5 DEF SoundOf, Fits, BooksTypeOK

LEMMA BooksBegin == BooksInit => BooksInv
<1> SUFFICES ASSUME BooksInit PROVE BooksInv OBVIOUS
<1>1. BooksTypes
  BY FS_EmptySet DEF BooksInit, BooksTypes, BooksTypeOK
<1>2. ASSUME NEW i \in Things PROVE SoundOf(i)
  BY DEF BooksInit, SoundOf, Of, Sound, Recorded, Booked, OneKind, Written, Single, Credited
<1> QED BY <1>1, <1>2 DEF BooksInv

\* The product, the report and the clock are not what a row or a credit is about.
LEMMA NothingHappens ==
  ASSUME BooksInv, UNCHANGED <<rows, credits, real, again, changed>>,
         imported' \subseteq Imports, unitCost' \in 0..1, now' \in Nows
  PROVE  BooksInv'
<1>1. BooksTypes'
  BY DEF BooksInv, BooksTypes, BooksTypeOK
<1>2. ASSUME NEW i \in Things PROVE SoundOf(i)'
  BY DEF BooksInv, SoundOf
<1> QED BY <1>1, <1>2 DEF BooksInv

LEMMA SaleIsEntered ==
  ASSUME BooksInv, NEW i \in Things, NEW at \in Times[i], NEW a \in Amounts[i],
         EnterSale(i, at, a)
  PROVE  BooksInv'
<1> DEFINE R == Of(rows, i) E == Of(real, i) A == Of(again, i) C == Of(credits, i)
           copy == Cardinality(Sales(i))
           n == NewRow("sale", i, copy, "none", at, a)
           e == Event(i, "in", copy, at, a)
<1>1. PICK w \in {a} \cup Claims[i] :
         /\ E = {} /\ R = Sales(i) /\ rows' = rows \cup {n}
         /\ credits' = credits \/ credits' = credits \cup {Credit(n, w)}
         /\ \/ real' = real \cup {e} /\ again' = again
            \/ again' = again \cup {e} /\ real' = real
         /\ UNCHANGED <<imported, unitCost, changed, now>>
  BY DEF EnterSale, MayBook
<1>2. \A r \in R : r.table = "sale"
  BY <1>1 DEF Sales
<1>3. Fits(i, R, E, A, C) /\ Sound(R, E, A, C, i \in changed)
  BY OneThing
<1>4. copy \in Nat /\ (copy = 0 <=> R = {})
  BY <1>1, <1>3, FS_CardinalityType, FS_EmptySet DEF Fits
<1>5. n \in RowsOf(i) /\ Credit(n, w) \in CreditsOf(i) /\ e \in EventsOf(i)
  BY <1>4, NewRowIs DEF Tables
<1>6. /\ rows = Without(rows, i) \cup R /\ real = Without(real, i) \cup E
      /\ again = Without(again, i) \cup A /\ credits = Without(credits, i) \cup C
      /\ changed \subseteq Things
  BY OneThing
<1> HIDE DEF R, E, A, C, copy, n, e
<1>7. \A D \in {C, C \cup {Credit(n, w)}} :
         /\ Sound(R \cup {n}, {e}, A, D, i \in changed')
         /\ Sound(R \cup {n}, {}, A \cup {e}, D, i \in changed')
  <2>1. R \subseteq RowsOf(i) /\ Sound(R, {}, A, C, i \in changed') /\ changed' = changed
    BY <1>1, <1>3 DEF Fits
  <2>2. /\ Sound(R \cup {n}, {e}, A, C, i \in changed')
        /\ Sound(R \cup {n}, {}, A \cup {e}, C, i \in changed')
        /\ Sound(R \cup {n}, {e}, A, C \cup {Credit(n, w)}, i \in changed')
        /\ Sound(R \cup {n}, {}, A \cup {e}, C \cup {Credit(n, w)}, i \in changed')
    BY <1>1, <1>2, <1>4, <2>1, SaleEntered DEF n, e
  <2> QED BY <2>2
<1>8. \A D \in {C, C \cup {Credit(n, w)}} :
         Fits(i, R \cup {n}, {e}, A, D) /\ Fits(i, R \cup {n}, {}, A \cup {e}, D)
  BY <1>3, <1>5, FewAreFinite DEF Fits
<1>9. PICK D \in {C, C \cup {Credit(n, w)}} : credits' = Without(credits, i) \cup D
  <2>1. credits \cup {Credit(n, w)} = Without(credits, i) \cup (C \cup {Credit(n, w)})
    BY <1>6
  <2> QED BY <1>1, <1>6, <2>1
<1>10. Turns(i, R \cup {n}, {e}, A, D) \/ Turns(i, R \cup {n}, {}, A \cup {e}, D)
  <2>1. rows' = Without(rows, i) \cup (R \cup {n}) /\ real = Without(real, i)
    BY <1>1, <1>6
  <2>2. again \cup {e} = Without(again, i) \cup (A \cup {e})
    BY <1>6
  <2> QED BY <1>1, <1>6, <1>9, <2>1, <2>2 DEF Turns
<1>11. UNCHANGED <<imported, unitCost, now>>
  BY <1>1
<1> QED BY <1>7, <1>8, <1>10, <1>11, Happens

\* What is written of something that had not happened yet.
LEMMA FirstTime ==
  ASSUME BooksInv, NEW i \in Things, Of(rows, i) = {}, NEW R, NEW E, NEW A,
         Fits(i, R, E, A, {}), Sound(R, E, A, {}, i \in changed),
         rows' = rows \cup R, real' = real \cup E, again' = again \cup A,
         UNCHANGED <<credits, imported, unitCost, changed, now>>
  PROVE  BooksInv'
<1>1. Of(real, i) = {} /\ Of(again, i) = {} /\ Of(credits, i) = {}
  <2>1. Sound({}, Of(real, i), Of(again, i), Of(credits, i), i \in changed)
    BY OneThing
  <2> QED BY <2>1, NothingYet
<1>2. /\ rows = Without(rows, i) /\ real = Without(real, i) /\ again = Without(again, i)
      /\ credits = Without(credits, i) \cup {} /\ changed \subseteq Things
  BY <1>1, OneThing
<1>3. Turns(i, R, E, A, {})
  BY <1>2 DEF Turns
<1>4. Sound(R, E, A, {}, i \in changed')
  OBVIOUS
<1> QED BY <1>3, <1>4, Happens

LEMMA RowIsEntered ==
  ASSUME BooksInv, NEW i \in Things, NEW at \in Times[i], NEW a \in Amounts[i],
         NEW t \in Tables, NEW way \in {"in", "out"},
         way = IF t \in {"sale", "income"} THEN "in" ELSE "out", Of(rows, i) = {},
         Take(i, way, {NewRow(t, i, 0, "none", at, a)}, at, a),
         UNCHANGED <<credits, imported, unitCost, again, changed, now>>
  PROVE  BooksInv'
<1> DEFINE n == NewRow(t, i, 0, "none", at, a)
           e == Event(i, way, 0, at, a)
<1>1. n \in RowsOf(i) /\ e \in EventsOf(i)
  BY NewRowIs
<1>2. Sound({n}, {e}, {}, {}, i \in changed)
  BY FirstRow
<1>3. rows' = rows \cup {n} /\ real' = real \cup {e} /\ again' = again \cup {}
  BY DEF Take, Upsert, Of
<1> HIDE DEF n, e
<1>4. Fits(i, {n}, {e}, {}, {})
  BY <1>1, FewAreFinite DEF Fits
<1> QED BY <1>2, <1>3, <1>4, FirstTime

LEMMA CostIsImported ==
  ASSUME BooksInv, NEW i \in Things, NEW at \in Times[i], NEW a \in Amounts[i],
         ImportCost(i, at, a)
  PROVE  BooksInv'
<1> DEFINE n == NewRow("cost", i, 0, "intelligent_import", at, a)
           m == NewRow("expense", i, 0, "intelligent_import", at, a)
           e == Event(i, "out", 0, at, a)
           f == Event(i, "out", 1, at, a)
<1>1. n \in RowsOf(i) /\ m \in RowsOf(i) /\ e \in EventsOf(i) /\ f \in EventsOf(i)
  BY NewRowIs DEF Tables, Channels
<1>2. Sound({n, m}, {e}, {f}, {}, i \in changed)
  BY CostImported
<1>3. /\ rows' = rows \cup {n, m} /\ real' = real \cup {e} /\ again' = again \cup {f}
      /\ Of(rows, i) = {} /\ UNCHANGED <<credits, imported, unitCost, changed, now>>
  BY DEF ImportCost, Take, Upsert, Of
<1> HIDE DEF n, m, e, f
<1>4. Fits(i, {n, m}, {e}, {f}, {})
  BY <1>1, FewAreFinite DEF Fits
<1> QED BY <1>2, <1>3, <1>4, FirstTime

\* A sale or a cost that was booked once is changed, or taken out.
LEMMA RowIsChanged ==
  ASSUME BooksInv, NEW i \in Things, NEW at \in Times[i], NEW a \in Amounts[i],
         Of(again, i) = {}, NEW r \in Of(rows, i), r.table \in {"sale", "cost"},
         rows' = (rows \ {r}) \cup {[r EXCEPT !.at = at, !.amount = a]},
         real' = Without(real, i)
                   \cup {Event(i, IF r.table = "sale" THEN "in" ELSE "out", 0, at, a)},
         changed' = IF r.table = "sale" THEN changed \cup {i} ELSE changed,
         UNCHANGED <<credits, imported, unitCost, again, now>>
  PROVE  BooksInv'
<1> DEFINE R == Of(rows, i) E == Of(real, i) C == Of(credits, i) was == i \in changed
           new == i \in changed'
           n == [r EXCEPT !.at = at, !.amount = a]
           e == Event(i, IF r.table = "sale" THEN "in" ELSE "out", 0, at, a)
<1>1. Fits(i, R, E, {}, C) /\ Sound(R, E, {}, C, was) /\ r \in R /\ changed \subseteq Things
  BY OneThing
<1>2. r \in Row /\ r.id = i
  BY <1>1 DEF Fits, RowsOf
<1>3. n \in RowsOf(i) /\ e \in EventsOf(i)
  <2>1. at \in Instants /\ a \in Values
    BY DEF Instants, Values
  <2> QED BY <1>2, <2>1 DEF RowsOf, Row, EventsOf, Event, Happening
<1>4. /\ rows' = Without(rows, i) \cup ((R \ {r}) \cup {n})
      /\ real' = Without(real, i) \cup {e}
  BY <1>2 DEF Of, Without
<1>5. again' = Without(again, i) \cup {} /\ credits' = Without(credits, i) \cup C
  BY OneThing
<1>6. /\ n.table = r.table /\ n.source = r.source /\ n.copy = r.copy /\ n.id = r.id
      /\ n.at = at /\ n.amount = a
  BY <1>2 DEF Row
<1>7. /\ r.table = "sale" => e = Event(i, "in", 0, at, a)
      /\ r.table = "cost" => e = Event(i, "out", 0, at, a)
      /\ r.table = "sale" => new
  OBVIOUS
<1>8. changed' \subseteq Things /\ \A j \in Things \ {i} : (j \in changed') <=> (j \in changed)
  BY <1>1
<1>9. Sound((R \ {r}) \cup {n}, {e}, {}, C, new)
  <2>1. R \subseteq RowsOf(i)
    BY <1>1 DEF Fits
  <2> HIDE DEF R, E, C, was, new, n, e
  <2> QED BY <1>1, <1>6, <1>7, <2>1, RowChanged
<1>10. Sound((R \ {r}) \cup {n}, {e}, {}, C, i \in changed')
  BY <1>9
<1> HIDE DEF R, E, C, was, new, n, e
<1>11. Fits(i, (R \ {r}) \cup {n}, {e}, {}, C)
  BY <1>1, <1>3, FewAreFinite DEF Fits
<1>12. Turns(i, (R \ {r}) \cup {n}, {e}, {}, C)
  BY <1>4, <1>5, <1>8 DEF Turns
<1> QED BY <1>10, <1>11, <1>12, Happens

LEMMA RowIsRemoved ==
  ASSUME BooksInv, NEW i \in Things, Of(again, i) = {},
         NEW r \in Of(rows, i), r.table \in {"sale", "cost"}, rows' = rows \ {r},
         real' = Without(real, i), credits' = {c \in credits : c.id # i \/ c.copy # r.copy},
         UNCHANGED <<imported, unitCost, again, changed, now>>
  PROVE  BooksInv'
<1> DEFINE R == Of(rows, i) E == Of(real, i) C == Of(credits, i) was == i \in changed
           D == {c \in C : c.copy # r.copy}
<1>1. Fits(i, R, E, {}, C) /\ Sound(R, E, {}, C, was) /\ r \in R
  BY OneThing
<1>2. r.id = i
  BY <1>1 DEF Fits, RowsOf
<1>3. Sound(R \ {r}, {}, {}, D, was)
  <2>1. R \subseteq RowsOf(i)
    BY <1>1 DEF Fits
  <2> HIDE DEF R, E, C, was
  <2> QED BY <1>1, <2>1, RowRemoved
<1>4. rows' = Without(rows, i) \cup (R \ {r}) /\ credits' = Without(credits, i) \cup D
  BY <1>2 DEF Of, Without
<1>5. /\ again' = Without(again, i) \cup {} /\ real' = Without(real, i) \cup {}
      /\ changed \subseteq Things
  BY OneThing
<1>6. Fits(i, R \ {r}, {}, {}, D)
  <2> HIDE DEF R, E, C
  <2> QED BY <1>1, FewAreFinite DEF Fits
<1>7. Turns(i, R \ {r}, {}, {}, D)
  <2> HIDE DEF R, D
  <2> QED BY <1>4, <1>5 DEF Turns
<1>8. Sound(R \ {r}, {}, {}, D, i \in changed')
  BY <1>3
<1> HIDE DEF R, D
<1> QED BY <1>6, <1>7, <1>8, Happens

LEMMA SaleIsCredited ==
  ASSUME BooksInv, NEW i \in Things, AttributeSale(i)
  PROVE  BooksInv'
<1> DEFINE R == Of(rows, i) E == Of(real, i) A == Of(again, i) C == Of(credits, i)
           was == i \in changed
           new == i \in changed'
<1>1. /\ Fits(i, R, E, A, C) /\ Sound(R, E, A, C, was)
      /\ rows = Without(rows, i) \cup R /\ real = Without(real, i) \cup E
      /\ again = Without(again, i) \cup A /\ changed \subseteq Things
  BY OneThing
<1>0. PICK r \in Sales(i) : \E w \in {r.amount} \cup Claims[i] :
        credits' = {c \in credits : c.id # i \/ c.copy # r.copy} \cup {Credit(r, w)}
  BY DEF AttributeSale
<1>2. PICK w \in {r.amount} \cup Claims[i] :
        credits' = {c \in credits : c.id # i \/ c.copy # r.copy} \cup {Credit(r, w)}
  BY <1>0
<1> DEFINE D == {c \in C : c.copy # r.copy} \cup {Credit(r, w)}
<1>3. r \in R /\ r.table = "sale"
  BY DEF Sales
<1>4. Cardinality(Sales(i)) = 1 => \A q \in R : q.table = "sale" => q = r
  <2>1. IsFiniteSet(Sales(i))
    BY <1>1, FS_Subset DEF Sales, Fits
  <2>2. Cardinality(Sales(i)) = 1 => \E x : Sales(i) = {x}
    BY <2>1, FS_Singleton
  <2> QED BY <2>2 DEF Sales
<1>5. /\ changed' = IF Cardinality(Sales(i)) = 1 THEN changed \ {i} ELSE changed
      /\ UNCHANGED <<rows, real, again, imported, unitCost, now>>
  BY DEF AttributeSale
<1>6. was => new \/ \A q \in R : q.table = "sale" => q = r
  BY <1>4, <1>5
<1>7. Sound(R, E, A, D, new)
  <2>1. R \subseteq RowsOf(i)
    BY <1>1 DEF Fits
  <2> HIDE DEF R, E, A, C, was, new
  <2> QED BY <1>1, <1>3, <1>6, <2>1, SaleCredited
<1>8. Sound(R, E, A, D, i \in changed')
  BY <1>7
<1>9. credits' = Without(credits, i) \cup D
  BY <1>2 DEF Of, Without
<1>10. D \subseteq CreditsOf(i)
  <2>1. r \in Row /\ r.id = i
    BY <1>1, <1>3 DEF RowsOf, Fits
  <2>2. Claims[i] \subseteq Stateable
    BY DEF Stateable
  <2>3. Credit(r, w) \in CreditsOf(i)
    BY <2>1, <2>2 DEF Row, Credit, CreditsOf
  <2> QED BY <1>1, <2>3 DEF Fits
<1>11. changed' \subseteq Things /\ \A j \in Things \ {i} : (j \in changed') <=> (j \in changed)
  BY <1>1, <1>5
<1> HIDE DEF R, E, A, C, was, new, D
<1>12. Fits(i, R, E, A, D)
  BY <1>1, <1>10 DEF Fits
<1>13. Turns(i, R, E, A, D)
  BY <1>1, <1>5, <1>9, <1>11 DEF Turns
<1> QED BY <1>5, <1>8, <1>12, <1>13, Happens

LEMMA ChannelIsWritten ==
  ASSUME BooksInv, NEW i \in Things, NEW at \in Times[i], NEW a \in Amounts[i],
         NEW src \in Channels, Channel(i, src, at, a), UNCHANGED <<imported, unitCost, again, now>>,
         \/ credits' = credits /\ changed' = changed \cup {c.id : c \in Of(credits, i)}
         \/ /\ credits' = Without(credits, i) \cup {Credit(NewRow("sale", i, 0, src, at, a), a)}
            /\ changed' = changed \ {i}
  PROVE  BooksInv'
<1> DEFINE R == Of(rows, i) E == Of(real, i) C == Of(credits, i)
           was == i \in changed
           ch == was \/ C # {}
           n == NewRow("sale", i, 0, src, at, a)
           e == Event(i, "in", 0, at, a)
           B == Both(i, src, at, a)
<1>1. /\ Fits(i, R, E, {}, C) /\ Sound(R, E, {}, C, was) /\ \A r \in R : r.source = src
      /\ credits = Without(credits, i) \cup C /\ changed \subseteq Things
      /\ again = Without(again, i) \cup {} /\ Of(again, i) = {}
  <2>1. Of(again, i) = {} /\ \A r \in R : r.source = src
    BY DEF Channel
  <2> QED BY <2>1, OneThing
<1>2. n \in RowsOf(i) /\ Credit(n, a) \in CreditsOf(i) /\ e \in EventsOf(i)
  BY NewRowIs DEF Tables
<1>3. B \subseteq RowsOf(i) /\ IsFiniteSet(B)
  <2>1. NewRow("income", i, 0, src, at, a) \in RowsOf(i)
    BY NewRowIs DEF Tables
  <2> QED BY <1>2, <2>1, FewAreFinite DEF Both
<1>4. /\ \A r \in R : r.table \in {"sale", "income"}
      /\ Sound(B, {e}, {}, C, ch) /\ Sound(B, {e}, {}, {Credit(n, a)}, FALSE)
  <2> HIDE DEF R, E, C, was
  <2> QED BY <1>1, ChannelWrites
<1>5. rows' = Without(rows, i) \cup B
  <2>1. {b.table : b \in B} = {"sale", "income"}
    BY DEF Both, NewRow
  <2>2. rows' = {r \in rows : r.id # i \/ r.table \notin {"sale", "income"}} \cup B
    BY <2>1 DEF Channel, Upsert
  <2> HIDE DEF B
  <2> QED BY <1>4, <2>2 DEF Of, Without
<1>6. real' = Without(real, i) \cup {e} /\ again' = again
  BY DEF Channel
<1>7. CASE credits' = credits /\ changed' = changed \cup {c.id : c \in C}
  <2>1. {c.id : c \in C} = IF C = {} THEN {} ELSE {i}
    BY DEF Of
  <2>2. (i \in changed') = ch
    <3>1. CASE C = {}
      BY <1>7, <2>1, <3>1
    <3>2. CASE C # {}
      BY <1>7, <2>1, <3>2
    <3> QED BY <3>1, <3>2
  <2>3. Sound(B, {e}, {}, C, i \in changed')
    BY <1>4, <2>2
  <2>4. changed' \subseteq Things /\ \A j \in Things \ {i} : (j \in changed') <=> (j \in changed)
    BY <1>1, <1>7, <2>1
  <2> HIDE DEF R, E, C, was, ch, n, e, B
  <2>5. Fits(i, B, {e}, {}, C)
    BY <1>1, <1>2, <1>3, FewAreFinite DEF Fits
  <2>6. Turns(i, B, {e}, {}, C)
    BY <1>1, <1>5, <1>6, <1>7, <2>4 DEF Turns
  <2> QED BY <2>3, <2>5, <2>6, Happens
<1>8. CASE credits' = Without(credits, i) \cup {Credit(n, a)} /\ changed' = changed \ {i}
  <2>1. (i \in changed') = FALSE
    BY <1>8
  <2>2. Sound(B, {e}, {}, {Credit(n, a)}, i \in changed')
    BY <1>4, <2>1
  <2>3. changed' \subseteq Things /\ \A j \in Things \ {i} : (j \in changed') <=> (j \in changed)
    BY <1>1, <1>8
  <2> HIDE DEF R, E, C, was, ch, n, e, B
  <2>4. Fits(i, B, {e}, {}, {Credit(n, a)})
    BY <1>2, <1>3, FewAreFinite DEF Fits
  <2>5. Turns(i, B, {e}, {}, {Credit(n, a)})
    BY <1>1, <1>5, <1>6, <1>8, <2>3 DEF Turns
  <2> QED BY <2>2, <2>4, <2>5, Happens
<1> QED BY <1>7, <1>8

LEMMA RowIsRepeated ==
  ASSUME BooksInv, NEW i \in Things, NEW at \in Times[i], NEW a \in Amounts[i],
         NEW t \in {"sale", "ad"}, NEW way \in {"in", "out"},
         way = IF t = "sale" THEN "in" ELSE "out", Repeated(i, t, way, at, a)
  PROVE  BooksInv'
<1> DEFINE R == Of(rows, i) E == Of(real, i) A == Of(again, i) C == Of(credits, i)
           copy == Cardinality(R) was == i \in changed
           n == NewRow(t, i, copy, "none", at, a)
           e == Event(i, way, copy, at, a)
<1>1. /\ Fits(i, R, E, A, C) /\ Sound(R, E, A, C, was)
      /\ rows = Without(rows, i) \cup R /\ real = Without(real, i) \cup E
      /\ again = Without(again, i) \cup A /\ credits = Without(credits, i) \cup C
      /\ changed \subseteq Things
  BY OneThing
<1>2. copy \in Nat
  BY <1>1, FS_CardinalityType DEF Fits
<1>3. n \in RowsOf(i) /\ e \in EventsOf(i)
  BY <1>2, NewRowIs DEF Tables
<1>4. /\ \A r \in R : r.table = t /\ r.source = "none"
      /\ rows' = rows \cup {n}
      /\ IF copy = 0 THEN real' = real \cup {e} /\ again' = again
         ELSE again' = again \cup {e} /\ real' = real
      /\ UNCHANGED <<credits, imported, unitCost, changed, now>>
  BY DEF Repeated
<1>5. CASE copy = 0
  <2>1. R = {}
    BY <1>1, <1>5, FS_EmptySet DEF Fits
  <2>2. e = Event(i, way, 0, at, a) /\ n = NewRow(t, i, 0, "none", at, a)
    BY <1>5
  <2>3. Sound({n}, {e}, {}, {}, i \in changed)
    <3>1. t \in Tables /\ way = IF t \in {"sale", "income"} THEN "in" ELSE "out"
      BY DEF Tables
    <3> QED BY <2>2, <3>1, FirstRow
  <2> HIDE DEF n, e, copy
  <2>4. Fits(i, {n}, {e}, {}, {})
    BY <1>3, FewAreFinite DEF Fits
  <2>5. rows' = rows \cup {n} /\ again' = again \cup {} /\ real' = real \cup {e}
    BY <1>4, <1>5
  <2> QED BY <1>4, <2>1, <2>3, <2>4, <2>5, FirstTime
<1>6. CASE copy # 0
  <2>1. Sound(R \cup {n}, E, A \cup {e}, C, was)
    <3> HIDE DEF R, E, A, C, copy, was
    <3>1. t \in {"sale", "ad"} /\ \A r \in R : r.table = t /\ r.source = "none"
      BY <1>4
    <3>2. Sound(R, E, A, C, was)
      BY <1>1
    <3> QED BY <1>2, <3>1, <3>2, RowRepeated
  <2> HIDE DEF R, E, A, C, copy, n, e
  <2>2. Sound(R \cup {n}, E, A \cup {e}, C, i \in changed')
    BY <1>4, <2>1
  <2>3. Fits(i, R \cup {n}, E, A \cup {e}, C)
    BY <1>1, <1>3, FewAreFinite DEF Fits
  <2>4. Turns(i, R \cup {n}, E, A \cup {e}, C)
    <3>1. /\ rows \cup {n} = Without(rows, i) \cup (R \cup {n})
          /\ again \cup {e} = Without(again, i) \cup (A \cup {e})
      BY <1>1
    <3> QED BY <1>1, <1>4, <1>6, <3>1 DEF Turns
  <2> QED BY <1>4, <2>2, <2>3, <2>4, Happens
<1> QED BY <1>5, <1>6

LEMMA SaleIsChanged ==
  ASSUME BooksInv, NEW i \in Things, NEW at \in Times[i], NEW a \in Amounts[i],
         ChangeSale(i, at, a)
  PROVE  BooksInv'
<1>1. PICK r \in Sales(i) : rows' = (rows \ {r}) \cup {[r EXCEPT !.at = at, !.amount = a]}
  BY DEF ChangeSale
<1>2. r \in Of(rows, i) /\ r.table = "sale"
  BY DEF Sales
<1>3. /\ Of(again, i) = {} /\ changed' = changed \cup {i}
      /\ real' = Without(real, i) \cup {Event(i, "in", 0, at, a)}
      /\ UNCHANGED <<credits, imported, unitCost, again, now>>
  BY DEF ChangeSale
<1> QED BY <1>1, <1>2, <1>3, RowIsChanged

LEMMA CostIsChanged ==
  ASSUME BooksInv, NEW i \in Things, NEW at \in Times[i], NEW a \in Amounts[i],
         ChangeCost(i, at, a)
  PROVE  BooksInv'
<1>1. PICK r \in Of(rows, i) :
        r.table = "cost" /\ rows' = (rows \ {r}) \cup {[r EXCEPT !.at = at, !.amount = a]}
  BY DEF ChangeCost
<1>2. /\ Of(again, i) = {} /\ changed' = changed
      /\ real' = Without(real, i) \cup {Event(i, "out", 0, at, a)}
      /\ UNCHANGED <<credits, imported, unitCost, again, now>>
  BY DEF ChangeCost
<1> QED BY <1>1, <1>2, RowIsChanged

LEMMA SaleIsRemoved == ASSUME BooksInv, NEW i \in Things, RemoveSale(i) PROVE BooksInv'
<1>1. PICK r \in Sales(i) :
        rows' = rows \ {r} /\ credits' = {c \in credits : c.id # i \/ c.copy # r.copy}
  BY DEF RemoveSale
<1>2. r \in Of(rows, i) /\ r.table = "sale"
  BY DEF Sales
<1>3. /\ Of(again, i) = {} /\ real' = Without(real, i)
      /\ UNCHANGED <<imported, unitCost, again, changed, now>>
  BY DEF RemoveSale
<1> QED BY <1>1, <1>2, <1>3, RowIsRemoved

LEMMA CostIsRemoved == ASSUME BooksInv, NEW i \in Things, RemoveCost(i) PROVE BooksInv'
<1>1. PICK r \in Of(rows, i) : r.table = "cost" /\ rows' = rows \ {r}
  BY DEF RemoveCost
<1>2. /\ Of(again, i) = {} /\ real' = Without(real, i)
      /\ UNCHANGED <<credits, imported, unitCost, again, changed, now>>
  BY DEF RemoveCost
<1>3. Of(credits, i) = {}
  <2>1. /\ Of(rows, i) \subseteq RowsOf(i)
        /\ Sound(Of(rows, i), Of(real, i), {}, Of(credits, i), i \in changed)
    BY <1>2, OneThing DEF Fits
  <2> DEFINE R == Of(rows, i) C == Of(credits, i)
  <2>2. R \subseteq RowsOf(i) /\ Sound(R, Of(real, i), {}, C, i \in changed) /\ r \in R
    BY <2>1
  <2> HIDE DEF R, C
  <2>3. \A c \in C : r.table = "sale"
    BY <1>1, <2>2, RowIsAlone
  <2> QED BY <1>1, <2>3 DEF C
<1>4. credits' = {c \in credits : c.id # i \/ c.copy # r.copy}
  BY <1>2, <1>3 DEF Of
<1> QED BY <1>1, <1>2, <1>4, RowIsRemoved

LEMMA TransactionIsEntered ==
  ASSUME BooksInv, NEW i \in Things, NEW at \in Times[i], NEW a \in Amounts[i],
         EnterTransaction(i, at, a)
  PROVE  BooksInv'
<1>1. /\ Of(rows, i) = {} /\ UNCHANGED <<credits, imported, unitCost, again, changed, now>>
      /\ \/ Take(i, "in", {NewRow("income", i, 0, "none", at, a)}, at, a)
         \/ Take(i, "out", {NewRow("expense", i, 0, "none", at, a)}, at, a)
  BY DEF EnterTransaction
<1>2. "income" \in Tables /\ "expense" \in Tables
  BY DEF Tables
<1>3. CASE Take(i, "in", {NewRow("income", i, 0, "none", at, a)}, at, a)
  BY <1>1, <1>2, <1>3, RowIsEntered
<1>4. CASE Take(i, "out", {NewRow("expense", i, 0, "none", at, a)}, at, a)
  BY <1>1, <1>2, <1>4, RowIsEntered
<1> QED BY <1>1, <1>3, <1>4

LEMMA CostIsEntered ==
  ASSUME BooksInv, NEW i \in Things, NEW at \in Times[i], NEW a \in Amounts[i],
         EnterCost(i, at, a)
  PROVE  BooksInv'
<1>1. /\ Of(rows, i) = {} /\ UNCHANGED <<credits, imported, unitCost, again, changed, now>>
      /\ Take(i, "out", {NewRow("cost", i, 0, "none", at, a)}, at, a)
  BY DEF EnterCost
<1>2. "cost" \in Tables
  BY DEF Tables
<1> QED BY <1>1, <1>2, RowIsEntered

LEMMA LineIsImported ==
  ASSUME BooksInv, NEW i \in Things, NEW at \in Times[i], NEW a \in Amounts[i],
         NEW t \in {"sale", "cost", "ad"}, ImportLine(i, at, a, t)
  PROVE  BooksInv'
<1> DEFINE way == IF t = "sale" THEN "in" ELSE "out"
<1>1. /\ Of(rows, i) = {} /\ UNCHANGED <<credits, imported, unitCost, again, changed, now>>
      /\ Take(i, way, {NewRow(t, i, 0, "none", at, a)}, at, a)
  BY DEF ImportLine
<1>2. /\ t \in Tables /\ way \in {"in", "out"}
      /\ way = IF t \in {"sale", "income"} THEN "in" ELSE "out"
  BY DEF Tables
<1> HIDE DEF way
<1> QED BY <1>1, <1>2, RowIsEntered

LEMMA ChannelsWrite ==
  ASSUME BooksInv, NEW i \in Things, NEW at \in Times[i], NEW a \in Amounts[i],
         \/ SyncOrder(i, at, a) \/ ImportOrder(i, at, a)
         \/ \E c \in {"whatsapp", "instagram"} : BookAttended(i, c, at, a)
  PROVE  BooksInv'
<1>1. {"mercadolivre", "whatsapp", "instagram", "intelligent_import"} \subseteq Channels
  BY DEF Channels
<1>2. CASE SyncOrder(i, at, a)
  <2>1. /\ Channel(i, "mercadolivre", at, a) /\ credits' = credits
        /\ changed' = changed \cup {c.id : c \in Of(credits, i)}
        /\ UNCHANGED <<imported, unitCost, again, now>>
    BY <1>2 DEF SyncOrder
  <2> QED BY <1>1, <2>1, ChannelIsWritten
<1>3. CASE ImportOrder(i, at, a)
  <2>1. /\ Channel(i, "intelligent_import", at, a) /\ credits' = credits
        /\ changed' = changed \cup {c.id : c \in Of(credits, i)}
        /\ UNCHANGED <<imported, unitCost, again, now>>
    BY <1>3 DEF ImportOrder
  <2> QED BY <1>1, <2>1, ChannelIsWritten
<1>4. ASSUME NEW c \in {"whatsapp", "instagram"}, BookAttended(i, c, at, a) PROVE BooksInv'
  <2>1. /\ Channel(i, c, at, a) /\ changed' = changed \ {i}
        /\ credits' = Without(credits, i) \cup {Credit(NewRow("sale", i, 0, c, at, a), a)}
        /\ UNCHANGED <<imported, unitCost, again, now>>
    BY <1>4 DEF BookAttended
  <2>2. c \in Channels
    BY <1>1
  <2> QED BY <2>1, <2>2, ChannelIsWritten
<1> QED BY <1>2, <1>3, <1>4

LEMMA WebhookRepeats ==
  ASSUME BooksInv, NEW i \in Things, NEW at \in Times[i], NEW a \in Amounts[i],
         ShopifyOrder(i, at, a) \/ MetaSpend(i, a)
  PROVE  BooksInv'
<1>1. CASE ShopifyOrder(i, at, a)
  <2>1. Repeated(i, "sale", "in", at, a)
    BY <1>1 DEF ShopifyOrder
  <2> QED BY <2>1, RowIsRepeated
<1>2. CASE MetaSpend(i, a)
  <2>1. now \in Times[i] /\ Repeated(i, "ad", "out", now, a)
    BY <1>2 DEF MetaSpend
  <2> QED BY <2>1, RowIsRepeated
<1> QED BY <1>1, <1>2

LEMMA BooksGoOn == BooksInv /\ [BooksNext]_bookVars => BooksInv'
<1> SUFFICES ASSUME BooksInv, [BooksNext]_bookVars PROVE BooksInv' OBVIOUS
<1>0. imported \subseteq Imports /\ unitCost \in 0..1 /\ now \in Nows
  BY DEF BooksInv, BooksTypes, BooksTypeOK
<1>1. ASSUME NEW i \in Things, NEW at \in Times[i], NEW a \in Amounts[i],
             \/ EnterSale(i, at, a) \/ ChangeSale(i, at, a) \/ EnterTransaction(i, at, a)
             \/ EnterCost(i, at, a) \/ ChangeCost(i, at, a)
             \/ SyncOrder(i, at, a) \/ ImportOrder(i, at, a) \/ ImportCost(i, at, a)
             \/ ShopifyOrder(i, at, a) \/ MetaSpend(i, a)
             \/ \E t \in {"sale", "cost", "ad"} : ImportLine(i, at, a, t)
             \/ \E c \in {"whatsapp", "instagram"} : BookAttended(i, c, at, a)
      PROVE  BooksInv'
  <2>1. CASE EnterSale(i, at, a) BY <2>1, SaleIsEntered
  <2>2. CASE ChangeSale(i, at, a) BY <2>2, SaleIsChanged
  <2>3. CASE EnterTransaction(i, at, a) BY <2>3, TransactionIsEntered
  <2>4. CASE EnterCost(i, at, a) BY <2>4, CostIsEntered
  <2>5. CASE ChangeCost(i, at, a) BY <2>5, CostIsChanged
  <2>6. CASE ImportCost(i, at, a) BY <2>6, CostIsImported
  <2>7. CASE \E t \in {"sale", "cost", "ad"} : ImportLine(i, at, a, t)
    BY <2>7, LineIsImported
  <2>8. CASE \/ SyncOrder(i, at, a) \/ ImportOrder(i, at, a)
             \/ \E c \in {"whatsapp", "instagram"} : BookAttended(i, c, at, a)
    BY <2>8, ChannelsWrite
  <2>9. CASE ShopifyOrder(i, at, a) \/ MetaSpend(i, a)
    BY <2>9, WebhookRepeats
  <2> QED BY <1>1, <2>1, <2>2, <2>3, <2>4, <2>5, <2>6, <2>7, <2>8, <2>9
<1>2. ASSUME NEW i \in Things, AttributeSale(i) \/ RemoveSale(i) \/ RemoveCost(i)
      PROVE  BooksInv'
  BY <1>2, SaleIsCredited, SaleIsRemoved, CostIsRemoved
<1>3. ASSUME EditProduct \/ ConfirmReport \/ Pass \/ UNCHANGED bookVars PROVE BooksInv'
  <2>1. /\ UNCHANGED <<rows, credits, real, again, changed>>
        /\ imported' \subseteq Imports /\ unitCost' \in 0..1 /\ now' \in Nows
    BY <1>0, <1>3 DEF EditProduct, ConfirmReport, Pass, bookVars
  <2> QED BY <2>1, NothingHappens
<1> QED BY <1>1, <1>2, <1>3 DEF BooksNext

-----------------------------------------------------------------------------
(* The figures *)

LEMMA InstantsAndValues ==
  /\ Instants \subseteq Nat /\ Values \subseteq Nat \ {0} /\ Nows \subseteq Nat
<1>1. ASSUME NEW i \in Things PROVE Times[i] \subseteq Nat /\ Amounts[i] \subseteq Nat \ {0}
  BY BooksAssumption
<1> QED BY <1>1, BooksAssumption DEF Instants, Values

LEMMA RowsAreAmounted ==
  ASSUME BooksInv
  PROVE  /\ \A S : S \subseteq rows \/ S \subseteq real \cup again => Amounted(S)
         /\ \A r \in rows \cup real \cup again : r.at \in Nat /\ r.amount \in Nat
         /\ \A r \in rows : r \in Row /\ r.table \in Tables /\ r.id \in Things
         /\ \A e \in real \cup again : e \in Happening /\ e.id \in Things /\ e.way \in {"in", "out"}
<1>1. /\ rows \subseteq Row /\ real \cup again \subseteq Happening
      /\ IsFiniteSet(rows) /\ IsFiniteSet(real \cup again)
  BY FS_Union DEF BooksInv, BooksTypes, BooksTypeOK
<1>2. \A r \in rows \cup real \cup again : r.at \in Nat /\ r.amount \in Nat
  BY <1>1, InstantsAndValues DEF Row, Happening
<1>3. ASSUME NEW S, S \subseteq rows \/ S \subseteq real \cup again PROVE Amounted(S)
  <2>1. IsFiniteSet(S)
    BY <1>1, <1>3, FS_Subset
  <2>2. \A r \in S : r.amount \in Int
    BY <1>2, <1>3
  <2> QED BY <2>1, <2>2 DEF Amounted
<1> QED BY <1>1, <1>2, <1>3 DEF Row, Happening

LEMMA TotalNat ==
  ASSUME NEW S, Amounted(S), \A r \in S : r.amount \in Nat
  PROVE  Total(S) \in Nat
<1> DEFINE h == [r \in S |-> r.amount]
<1>1. Total(S) = Sum(h, S) /\ IsFiniteSet(S) /\ \A r \in S : h[r] \in Nat
  BY TotalIs DEF Amounted
<1> HIDE DEF h
<1> QED BY <1>1, SumNat

\* What the rows of a period that count say is what happened in it.
LEMMA SeenIsTruth ==
  ASSUME BooksInv, NEW s, NEW way \in {"in", "out"}
  PROVE  Total({r \in In(s) : Counts(r) /\ Seen(r).way = way}) = Truth(way, s)
<1> DEFINE S == {r \in In(s) : Counts(r) /\ Seen(r).way = way}
           T == {e \in real \cup again : e.way = way /\ s.from <= e.at /\ e.at <= s.to}
           f == [r \in rows |-> Seen(r)]
<1>1. S \subseteq rows /\ Amounted(S)
  BY RowsAreAmounted DEF In
<1>2. ASSUME NEW r \in rows PROVE r \in Of(rows, r.id) /\ r.id \in Things
  BY RowsAreAmounted DEF Of
<1>3. ASSUME NEW i \in Things
      PROVE  /\ Recorded(Of(rows, i), Of(real, i), Of(again, i))
             /\ Booked(Of(rows, i), Of(real, i), Of(again, i))
             /\ OneKind(Of(rows, i)) /\ Written(Of(rows, i), Of(again, i))
             /\ Of(rows, i) \subseteq RowsOf(i)
  BY OneThing DEF Sound, Fits
<1>4. \A r : Seen(r).at = r.at /\ Seen(r).amount = r.amount /\ Seen(r).id = r.id
  BY DEF Seen, Event
<1>5. \A x \in S : f[x].amount = x.amount
  BY <1>1, <1>4
<1>6. ASSUME NEW x \in S, NEW y \in S, f[x] = f[y] PROVE x = y
  <2>1. Seen(x) = Seen(y) /\ Counts(x) /\ Counts(y) /\ x.id = y.id
    BY <1>1, <1>4, <1>6
  <2>2. x \in Of(rows, x.id) /\ y \in Of(rows, x.id) /\ x.id \in Things
    BY <1>1, <1>2, <2>1
  <2> QED BY <1>3, <2>1, <2>2, SeenOnce
<1>7. {f[x] : x \in S} = T
  <2>1. ASSUME NEW x \in S PROVE f[x] \in T
    <3>1. Seen(x) \in Of(real, x.id) \cup Of(again, x.id)
      BY <1>1, <1>2, <1>3 DEF Recorded
    <3> QED BY <1>1, <1>4, <3>1 DEF Of, In
  <2>2. ASSUME NEW e \in T PROVE \E x \in S : f[x] = e
    <3>1. e.id \in Things /\ e \in Of(real, e.id) \cup Of(again, e.id)
      BY RowsAreAmounted DEF Of
    <3>2. PICK x \in Of(rows, e.id) : Counts(x) /\ Seen(x) = e
      BY <1>3, <3>1 DEF Booked
    <3>3. x \in S /\ f[x] = e
      BY <1>4, <3>2 DEF Of, In
    <3> QED BY <3>3
  <2> HIDE DEF S, T, f
  <2> QED BY <2>1, <2>2
<1>8. Total(S) = Total({f[x] : x \in S})
  <2> HIDE DEF S, f
  <2> QED BY <1>1, <1>5, <1>6, TotalMaps
<1> QED BY <1>7, <1>8 DEF Truth

LEMMA RevenueIsTruth ==
  ASSUME BooksInv, NEW s
  PROVE  Revenue(s) = Truth("in", s) /\ Losses(s) = Truth("out", s)
<1>1. \A r \in In(s) : r.table \in Tables
  BY RowsAreAmounted DEF In
<1>2. RevenueRows(s) = {r \in In(s) : Counts(r) /\ Seen(r).way = "in"}
  BY <1>1 DEF RevenueRows, Counts, SaleBacked, Seen, Event
<1>3. LossRows(s) = {r \in In(s) : Counts(r) /\ Seen(r).way = "out"}
  BY <1>1 DEF LossRows, Counts, SaleBacked, Seen, Event, Tables
<1> QED BY <1>2, <1>3, SeenIsTruth DEF Revenue, Losses

LEMMA StatedType == ASSUME BooksInv, NEW key, NEW s PROVE Stated(key, s) \in Int
<1> DEFINE S == {f \in imported : f.key = key /\ f.from <= s.to /\ s.from <= f.to}
           g == [f \in S |-> f.value]
<1>1. S \subseteq Imports
  BY DEF BooksInv, BooksTypes, BooksTypeOK
<1>2. IsFiniteSet(S)
  BY <1>1, FS_Subset, BooksAssumption
<1>3. Ints(g, S)
  BY <1>1, BooksAssumption DEF Ints
<1>4. Stated(key, s) = Sum(g, S)
  BY DEF Stated, SumFunction, Sum
<1> HIDE DEF g, S
<1> QED BY <1>2, <1>3, <1>4, SumType

\* The parts that the metrics add and subtract.
LEMMA MetricsParts ==
  ASSUME BooksInv, NEW s
  PROVE  /\ Total(SalesIn(s)) + Total({r \in In(s) : r.table = "income"})
              - Total({r \in In(s) : SaleBacked(r)}) = Revenue(s)
         /\ Losses(s) = TableIn("expense", s) + TableIn("cost", s) + TableIn("ad", s)
         /\ \A t \in Tables : TableIn(t, s) \in Nat
         /\ Revenue(s) \in Nat /\ Losses(s) \in Nat
         /\ Cardinality(SalesIn(s)) \in Nat
<1> DEFINE income == {r \in In(s) : r.table = "income"}
           backed == {r \in In(s) : SaleBacked(r)}
           own == {r \in In(s) : r.table = "income" /\ ~SaleBacked(r)}
           At(t) == {r \in In(s) : r.table = t}
<1>1. \A S : S \subseteq In(s) => Amounted(S) /\ Total(S) \in Nat
  <2>1. ASSUME NEW S, S \subseteq In(s) PROVE Amounted(S) /\ Total(S) \in Nat
    <3>1. Amounted(S) /\ \A r \in S : r.amount \in Nat
      BY <2>1, RowsAreAmounted DEF In
    <3> QED BY <3>1, TotalNat
  <2> QED BY <2>1
<1>2. /\ income = backed \cup own /\ backed \cap own = {} /\ backed \subseteq In(s)
      /\ own \subseteq In(s) /\ SalesIn(s) \subseteq In(s)
      /\ RevenueRows(s) = SalesIn(s) \cup own /\ SalesIn(s) \cap own = {}
  BY DEF SaleBacked, RevenueRows, SalesIn
<1>3. /\ LossRows(s) = (At("expense") \cup At("cost")) \cup At("ad")
      /\ (At("expense") \cup At("cost")) \cap At("ad") = {} /\ At("expense") \cap At("cost") = {}
      /\ \A t : At(t) \subseteq In(s)
      /\ At("expense") \cup At("cost") \subseteq In(s)
  BY DEF LossRows
<1> HIDE DEF income, backed, own, At
<1>4. Total(income) = Total(backed) + Total(own)
  BY <1>1, <1>2, TotalSplits
<1>5. Revenue(s) = Total(SalesIn(s)) + Total(own)
  BY <1>1, <1>2, TotalSplits DEF Revenue
<1>6. /\ Losses(s) = Total(At("expense") \cup At("cost")) + Total(At("ad"))
      /\ Total(At("expense") \cup At("cost")) = Total(At("expense")) + Total(At("cost"))
  BY <1>1, <1>3, TotalSplits DEF Losses
<1>7. \A t : TableIn(t, s) = Total(At(t))
  BY DEF TableIn, At
<1>8. Revenue(s) \in Nat /\ Losses(s) \in Nat
  <2>1. RevenueRows(s) \subseteq In(s) /\ LossRows(s) \subseteq In(s)
    BY DEF RevenueRows, LossRows
  <2> QED BY <1>1, <2>1 DEF Revenue, Losses
<1>9. Cardinality(SalesIn(s)) \in Nat
  BY <1>1, <1>2, FS_CardinalityType DEF Amounted
<1>10. Total(SalesIn(s)) + Total(income) - Total(backed) = Revenue(s)
  <2>1. Total(SalesIn(s)) \in Nat /\ Total(backed) \in Nat /\ Total(own) \in Nat
    BY <1>1, <1>2
  <2> QED BY <1>4, <1>5, <2>1
<1>11. \A t \in Tables : TableIn(t, s) \in Nat
  BY <1>1, <1>3, <1>7
<1>12. Losses(s) = TableIn("expense", s) + TableIn("cost", s) + TableIn("ad", s)
  BY <1>6, <1>7
<1> QED BY <1>8, <1>9, <1>10, <1>11, <1>12 DEF income, backed

LEMMA MetricsAre ==
  ASSUME BooksInv, NEW s
  PROVE  LET m == Metrics(s)
             spent == Losses(s) + Filled("expense", "expenses", s)
                        + Filled("cost", "costs", s) + unitCost * Cardinality(SalesIn(s))
         IN  /\ m.revenue = (IF Revenue(s) > 0 THEN Revenue(s) ELSE Stated("revenue", s))
             /\ m.outflows = (IF spent > 0 THEN spent ELSE Stated("losses", s))
             /\ m.revenue \in Int /\ m.profit \in Int /\ m.cash \in Int
<1> DEFINE base == Total(SalesIn(s)) + Total({r \in In(s) : r.table = "income"})
                     - Total({r \in In(s) : SaleBacked(r)})
           n == Cardinality(SalesIn(s))
           inflow == OrStated(base, "revenue", s)
           upkeep == OrStated(TableIn("cost", s), "costs", s)
           expenses == OrStated(TableIn("expense", s), "expenses", s)
           ad == TableIn("ad", s)
           cashOut == expenses + upkeep + ad
           outflows == OrStated(cashOut + unitCost * n, "losses", s)
           spent == Losses(s) + Filled("expense", "expenses", s)
                      + Filled("cost", "costs", s) + unitCost * n
           m == Metrics(s)
<1>1. /\ m.revenue = inflow /\ m.outflows = outflows
      /\ m.profit = IF inflow > 0 \/ outflows > 0 THEN inflow - outflows ELSE Stated("profit", s)
      /\ m.cash = IF \E booked \in {inflow, expenses, upkeep, ad} : booked > 0
                  THEN inflow - cashOut ELSE Stated("cash", s)
  BY DEF Metrics
<1> HIDE DEF m
<1>2. base = Revenue(s)
  BY MetricsParts
<1>3. /\ TableIn("expense", s) \in Nat /\ TableIn("cost", s) \in Nat /\ ad \in Nat /\ n \in Nat
      /\ Revenue(s) \in Nat
      /\ Losses(s) = TableIn("expense", s) + TableIn("cost", s) + ad
  BY MetricsParts DEF Tables
<1>4. \A key : Stated(key, s) \in Int
  BY StatedType
<1>5. unitCost * n \in Int
  <2>1. unitCost \in 0..1
    BY DEF BooksInv, BooksTypes, BooksTypeOK
  <2> HIDE DEF n
  <2> QED BY <1>3, <2>1
<1>6. /\ expenses = TableIn("expense", s) + Filled("expense", "expenses", s)
      /\ upkeep = TableIn("cost", s) + Filled("cost", "costs", s)
      /\ Filled("expense", "expenses", s) \in Int /\ Filled("cost", "costs", s) \in Int
  <2> DEFINE x == TableIn("expense", s) y == TableIn("cost", s)
             p == Stated("expenses", s) q == Stated("costs", s)
  <2>1. x \in Nat /\ y \in Nat /\ p \in Int /\ q \in Int
    BY <1>3, <1>4
  <2>2. /\ expenses = (IF x > 0 THEN x ELSE p) /\ upkeep = (IF y > 0 THEN y ELSE q)
        /\ Filled("expense", "expenses", s) = (IF x > 0 THEN 0 ELSE p)
        /\ Filled("cost", "costs", s) = (IF y > 0 THEN 0 ELSE q)
    BY DEF OrStated, Filled
  <2> HIDE DEF x, y, p, q, expenses, upkeep
  <2>3. expenses = x + (IF x > 0 THEN 0 ELSE p) /\ upkeep = y + (IF y > 0 THEN 0 ELSE q)
    BY <2>1, <2>2
  <2> QED BY <2>1, <2>2, <2>3 DEF x, y
<1>7. cashOut \in Int /\ cashOut + unitCost * n = spent /\ spent \in Int
  <2> DEFINE x == TableIn("expense", s) y == TableIn("cost", s)
             p == Filled("expense", "expenses", s) q == Filled("cost", "costs", s)
             u == unitCost * n l == Losses(s)
  <2>1. /\ x \in Nat /\ y \in Nat /\ ad \in Nat /\ p \in Int /\ q \in Int /\ u \in Int
        /\ l = x + y + ad /\ expenses = x + p /\ upkeep = y + q
    BY <1>3, <1>5, <1>6
  <2>2. cashOut = expenses + upkeep + ad /\ spent = l + p + q + u
    OBVIOUS
  <2> HIDE DEF x, y, p, q, u, l, expenses, upkeep, ad, cashOut, spent
  <2>3. cashOut \in Int /\ cashOut + u = spent /\ spent \in Int
    BY <2>1, <2>2
  <2> QED BY <2>3 DEF u
<1>8. /\ inflow = (IF Revenue(s) > 0 THEN Revenue(s) ELSE Stated("revenue", s))
      /\ outflows = (IF spent > 0 THEN spent ELSE Stated("losses", s))
  <2> HIDE DEF base, cashOut, n, spent
  <2> QED BY <1>2, <1>7 DEF OrStated
<1>9. inflow \in Int /\ outflows \in Int
  <2> HIDE DEF inflow, outflows, spent
  <2> QED BY <1>3, <1>4, <1>7, <1>8
<1>10. m.profit \in Int /\ m.cash \in Int
  <2> HIDE DEF inflow, outflows, spent, cashOut, expenses, upkeep, ad
  <2>1. inflow - outflows \in Int /\ inflow - cashOut \in Int
    BY <1>7, <1>9
  <2>2. m.profit = inflow - outflows \/ m.profit = Stated("profit", s)
    BY <1>1
  <2>3. m.cash = inflow - cashOut \/ m.cash = Stated("cash", s)
    BY <1>1
  <2> QED BY <1>4, <2>1, <2>2, <2>3
<1> HIDE DEF inflow, outflows, spent
<1>11. /\ m.revenue = (IF Revenue(s) > 0 THEN Revenue(s) ELSE Stated("revenue", s))
       /\ m.outflows = (IF spent > 0 THEN spent ELSE Stated("losses", s))
       /\ m.revenue \in Int /\ m.profit \in Int /\ m.cash \in Int
  BY <1>1, <1>8, <1>9, <1>10
<1> QED BY <1>11 DEF m, spent, n

LEMMA FiguresAreTrue == ASSUME BooksInv PROVE BooksAddUp
<1>1. \A s : Revenue(s) = Truth("in", s) /\ Losses(s) = Truth("out", s)
  BY RevenueIsTruth
<1>2. ASSUME NEW p \in MetricsPeriods
      PROVE  LET s == MetricsRange(p, now)
                 figures == Metrics(s)
                 earned == Truth("in", s)
                 spent == Truth("out", s) + Filled("expense", "expenses", s)
                              + Filled("cost", "costs", s) + unitCost * Cardinality(SalesIn(s))
             IN  /\ figures.revenue = (IF earned > 0 THEN earned ELSE Stated("revenue", s))
                 /\ figures.outflows = (IF spent > 0 THEN spent ELSE Stated("losses", s))
  <2> DEFINE s == MetricsRange(p, now)
  <2> HIDE DEF s
  <2>1. LET figures == Metrics(s)
            earned == Truth("in", s)
            spent == Truth("out", s) + Filled("expense", "expenses", s)
                         + Filled("cost", "costs", s) + unitCost * Cardinality(SalesIn(s))
        IN  /\ figures.revenue = (IF earned > 0 THEN earned ELSE Stated("revenue", s))
            /\ figures.outflows = (IF spent > 0 THEN spent ELSE Stated("losses", s))
    BY <1>1, MetricsAre
  <2> QED BY <2>1 DEF s
<1> QED BY <1>1, <1>2 DEF BooksAddUp

\* Every credit is of a sale in the books.
LEMMA CreditsAreOfSales == ASSUME BooksInv PROVE CreditsAreSales
<1>1. ASSUME NEW c \in credits
      PROVE  \E r \in rows : /\ r.table = "sale" /\ r.id = c.id /\ r.copy = c.copy
                             /\ c.id \notin changed => r.at = c.at
                             /\ c.id \notin changed /\ c.amount \notin Claims[c.id] =>
                                  c.amount = r.amount
  <2>1. c.id \in Things /\ c \in Of(credits, c.id)
    BY DEF BooksInv, BooksTypes, BooksTypeOK, Of
  <2>2. Credited(Of(rows, c.id), Of(credits, c.id), c.id \in changed)
    BY <2>1, OneThing DEF Sound
  <2> QED BY <2>1, <2>2 DEF Credited, Of
<1> QED BY <1>1 DEF CreditsAreSales

-----------------------------------------------------------------------------
(* Days, months and what is compared *)

LEMMA Division ==
  ASSUME NEW n \in Int, NEW d \in Nat \ {0}
  PROVE  /\ n \div d \in Int /\ n % d \in 0..(d - 1)
         /\ d * (n \div d) <= n /\ n < d * (n \div d) + d
<1>1. n = d * (n \div d) + (n % d) /\ n \div d \in Int
  OBVIOUS
<1>2. n % d \in Int /\ 0 <= n % d /\ n % d < d
  OBVIOUS
<1> DEFINE m == d * (n \div d) r == n % d
<1>3. n = m + r /\ m \in Int /\ r \in Int /\ 0 <= r /\ r < d
  BY <1>1, <1>2
<1> HIDE DEF m, r
<1>4. m <= n /\ n < m + d /\ r \in 0..(d - 1)
  BY <1>3
<1> QED BY <1>1, <1>4 DEF m, r

LEMMA Multiplies ==
  ASSUME NEW a \in Int, NEW b \in Int, NEW d \in Nat, a <= b
  PROVE  d * a <= d * b
<1>1. b - a \in Nat /\ d * (b - a) \in Nat
  OBVIOUS
<1>2. d * b = d * a + d * (b - a) /\ d * a \in Int
  OBVIOUS
<1> DEFINE x == d * a y == d * (b - a)
<1> HIDE DEF x, y
<1> QED BY <1>1, <1>2 DEF x, y

LEMMA DivisionIs ==
  ASSUME NEW n \in Int, NEW d \in Nat \ {0}, NEW q \in Int
  PROVE  /\ d * q <= n => q <= n \div d
         /\ n < d * q + d => n \div d <= q
<1> DEFINE k == n \div d
<1>1. k \in Int /\ d * k <= n /\ n < d * k + d
  BY Division
<1> HIDE DEF k
<1>2. ASSUME d * q <= n, q > k PROVE FALSE
  <2>1. d * (k + 1) <= d * q
    BY <1>1, <1>2, Multiplies
  <2>2. d * (k + 1) = d * k + d
    BY <1>1
  <2> QED BY <1>1, <1>2, <2>1, <2>2
<1>3. ASSUME n < d * q + d, k > q PROVE FALSE
  <2>1. d * (q + 1) <= d * k
    BY <1>1, <1>3, Multiplies
  <2>2. d * (q + 1) = d * q + d
    OBVIOUS
  <2> QED BY <1>1, <1>3, <2>1, <2>2
<1> QED BY <1>1, <1>2, <1>3 DEF k

LEMMA DivisionGrows ==
  ASSUME NEW a \in Int, NEW b \in Int, NEW d \in Nat \ {0}, a <= b
  PROVE  a \div d <= b \div d
<1>1. a \div d \in Int /\ d * (a \div d) <= a
  BY Division
<1>2. d * (a \div d) <= b
  BY <1>1
<1> QED BY <1>1, <1>2, DivisionIs

LEMMA CalendarTypes ==
  /\ DayTicks \in Nat \ {0} /\ MonthLen \in Nat \ {0} /\ YearLen \in Nat \ {0}
  /\ WeekDays \in Nat \ {0} /\ ThirtyDays \in Nat \ {0} /\ Zone \in Nat
  BY BooksAssumption

LEMMA DayIs ==
  ASSUME NEW t \in Int
  PROVE  /\ DayStart(t) \in Int /\ DayStart(t) <= t /\ t <= DayEnd(t) /\ DayEnd(t) \in Int
         /\ DayEnd(t) = DayStart(t) + DayTicks - 1
         /\ DayStart(DayStart(t)) = DayStart(t)
         /\ DayStart(t + DayTicks) = DayStart(t) + DayTicks
<1> DEFINE q == t \div DayTicks
<1>1. q \in Int /\ DayTicks * q <= t /\ t < DayTicks * q + DayTicks
  BY Division, CalendarTypes
<1>2. DayStart(t) = DayTicks * q /\ DayTicks * q \in Int
  BY <1>1, CalendarTypes DEF DayStart
<1>3. (DayTicks * q) \div DayTicks = q
  <2> HIDE DEF q
  <2>1. DayTicks * q <= DayTicks * q /\ DayTicks * q < DayTicks * q + DayTicks
    BY <1>1, CalendarTypes
  <2>2. q <= (DayTicks * q) \div DayTicks /\ (DayTicks * q) \div DayTicks <= q
    BY <1>1, <1>2, <2>1, CalendarTypes, DivisionIs
  <2>3. (DayTicks * q) \div DayTicks \in Int
    BY <1>1, CalendarTypes, Division
  <2> QED BY <1>1, <2>2, <2>3
<1>4. (t + DayTicks) \div DayTicks = q + 1
  <2> HIDE DEF q
  <2>1. DayTicks * (q + 1) = DayTicks * q + DayTicks
    BY <1>1, CalendarTypes
  <2>2. t + DayTicks \in Int
    BY CalendarTypes
  <2>3. DayTicks * (q + 1) <= t + DayTicks /\ t + DayTicks < DayTicks * (q + 1) + DayTicks
    <3> DEFINE m == DayTicks * q
    <3>1. m \in Int /\ m <= t /\ t < m + DayTicks /\ DayTicks * (q + 1) = m + DayTicks
      BY <1>1, <1>2, <2>1
    <3> HIDE DEF m
    <3> QED BY <3>1, CalendarTypes
  <2>4. q + 1 <= (t + DayTicks) \div DayTicks /\ (t + DayTicks) \div DayTicks <= q + 1
    BY <1>1, <2>2, <2>3, CalendarTypes, DivisionIs
  <2>5. (t + DayTicks) \div DayTicks \in Int
    BY <2>2, CalendarTypes, Division
  <2> QED BY <1>1, <2>4, <2>5
<1>5. DayStart(t + DayTicks) = DayTicks * q + DayTicks
  <2> HIDE DEF q
  <2>1. (q + 1) * DayTicks = DayTicks * q + DayTicks
    BY <1>1, CalendarTypes
  <2> QED BY <1>4, <2>1 DEF DayStart
<1>6. DayStart(DayStart(t)) = DayTicks * q
  <2> HIDE DEF q
  <2>1. q * DayTicks = DayTicks * q
    BY <1>1, CalendarTypes
  <2> QED BY <1>2, <1>3, <2>1 DEF DayStart
<1> DEFINE m == DayTicks * q
<1>7. /\ DayStart(t) = m /\ DayStart(t + DayTicks) = m + DayTicks /\ DayStart(DayStart(t)) = m
      /\ m \in Int /\ m <= t /\ t < m + DayTicks
  BY <1>1, <1>2, <1>5, <1>6
<1> HIDE DEF m, q
<1>8. DayEnd(t) = m + DayTicks - 1
  BY <1>7 DEF DayEnd
<1> QED BY <1>7, <1>8, CalendarTypes

LEMMA NowIs == ASSUME BooksInv PROVE now \in Nat
  BY InstantsAndValues DEF BooksInv, BooksTypes, BooksTypeOK

LEMMA DaysAreChained == ASSUME BooksInv PROVE DaysChain
<1> DEFINE next == now + DayTicks
           d == DayStart(now)
           u == UtcDayStart(now)
<1>1. now \in Int /\ now + Zone \in Int /\ DayTicks \in Nat \ {0}
  BY NowIs, CalendarTypes
<1>2. d \in Int /\ DayStart(next) = d + DayTicks /\ DayStart(d) = d
  BY <1>1, DayIs
<1>3. u \in Int /\ UtcDayStart(next) = u + DayTicks
  <2>1. DayStart(now + Zone) \in Int
    BY <1>1, DayIs
  <2>2. DayStart((now + Zone) + DayTicks) = DayStart(now + Zone) + DayTicks
    BY <1>1, DayIs
  <2>3. next + Zone = (now + Zone) + DayTicks
    BY <1>1, CalendarTypes
  <2> DEFINE x == (now + Zone) + DayTicks
  <2> HIDE DEF next, x
  <2>4. UtcDayStart(next) = DayStart(now + Zone) + DayTicks - Zone
    <3>1. DayStart(x) = DayStart(now + Zone) + DayTicks /\ next + Zone = x
      BY <2>2, <2>3 DEF x
    <3>2. UtcDayStart(next) = DayStart(next + Zone) - Zone
      BY DEF UtcDayStart
    <3>3. UtcDayStart(next) = DayStart(x) - Zone
      BY <3>1, <3>2
    <3> QED BY <1>1, <2>1, <3>1, <3>3, CalendarTypes
  <2> QED BY <1>1, <2>1, <2>4, CalendarTypes DEF UtcDayStart
<1> HIDE DEF next, d, u
<1>4. MetricsRange("today", now) = Span(d, d + DayTicks - 1)
  BY DEF MetricsRange, DayEnd, d
<1>5. MetricsRange("yesterday", next) = Span(d, d + DayTicks - 1)
  <2>1. Back(next, 1) = d
    BY <1>1, <1>2 DEF Back
  <2> QED BY <1>2, <2>1 DEF MetricsRange, DayEnd
<1>6. Previous(MetricsRange("today", next)) = Span(d, d + DayTicks - 1)
  <2>1. MetricsRange("today", next) = Span(d + DayTicks, (d + DayTicks) + DayTicks - 1)
    BY <1>2 DEF MetricsRange, DayEnd
  <2>2. Previous(Span(d + DayTicks, (d + DayTicks) + DayTicks - 1))
          = Span((d + DayTicks) - 1 - (((d + DayTicks) + DayTicks - 1) - (d + DayTicks)),
                 (d + DayTicks) - 1)
    BY DEF Previous, Span
  <2>3. /\ (d + DayTicks) - 1 - (((d + DayTicks) + DayTicks - 1) - (d + DayTicks)) = d
        /\ (d + DayTicks) - 1 = d + DayTicks - 1
    BY <1>1, <1>2
  <2> QED BY <2>1, <2>2, <2>3
<1>7. SalesSum(SalesYesterday(next))
        = SalesSum(SalesToday(now)) + SalesSum(Span(UtcDayStart(next), UtcDayStart(next)))
  <2> DEFINE all == SalesIn(Span(u, u + DayTicks))
             day == SalesIn(Span(u, u + DayTicks - 1))
             last == SalesIn(Span(u + DayTicks, u + DayTicks))
  <2>1. SalesYesterday(next) = Span(u, u + DayTicks)
    <3>1. (u + DayTicks) - DayTicks = u
      BY <1>1, <1>3
    <3> QED BY <1>3, <3>1 DEF SalesYesterday
  <2>2. SalesToday(now) = Span(u, u + DayTicks - 1)
    BY DEF SalesToday, u
  <2>3. all = day \cup last /\ day \cap last = {}
    <3>1. \A r \in rows : r.at \in Int
      BY RowsAreAmounted
    <3>2. \A r \in rows : /\ u <= r.at /\ r.at <= u + DayTicks <=>
                               \/ u <= r.at /\ r.at <= u + DayTicks - 1
                               \/ u + DayTicks <= r.at /\ r.at <= u + DayTicks
                          /\ ~(r.at <= u + DayTicks - 1 /\ u + DayTicks <= r.at)
      BY <1>1, <1>3, <3>1
    <3> QED BY <3>2 DEF SalesIn, In, Span
  <2>4. Amounted(day) /\ Amounted(last)
    BY RowsAreAmounted DEF SalesIn, In
  <2> HIDE DEF all, day, last
  <2>5. Total(all) = Total(day) + Total(last)
    BY <2>3, <2>4, TotalSplits
  <2> QED BY <1>3, <2>1, <2>2, <2>5 DEF SalesSum, all, day, last
<1> QED BY <1>4, <1>5, <1>6, <1>7 DEF DaysChain, next

\* Rows that a set of labels covers are drawn as they are summed.
LEMMA LineAddsUp ==
  ASSUME NEW p, NEW S, NEW L, Amounted(S), IsFiniteSet(L), \A r \in S : Label(p, r.at) \in L
  PROVE  SumFunction([l \in L |-> Total({r \in S : Label(p, r.at) = l})]) = Total(S)
<1> DEFINE lab == [r \in S |-> Label(p, r.at)]
<1>1. \A l : {x \in S : lab[x] = l} = {r \in S : Label(p, r.at) = l}
  OBVIOUS
<1>2. [l \in L |-> Total({x \in S : lab[x] = l})]
        = [l \in L |-> Total({r \in S : Label(p, r.at) = l})]
  BY <1>1
<1>3. \A x \in S : lab[x] \in L
  OBVIOUS
<1> HIDE DEF lab
<1>4. SumFunction([l \in L |-> Total({x \in S : lab[x] = l})]) = Total(S)
  BY <1>3, TotalParts
<1> QED BY <1>2, <1>4

LEMMA HalvesCover ==
  ASSUME NEW t \in Nat PROVE (t % DayTicks) \div (DayTicks \div 2) \in {0, 1}
<1> DEFINE h == DayTicks \div 2 x == t % DayTicks k == x \div h
<1>1. DayTicks \in Nat \ {0} /\ DayTicks % 2 = 0
  BY BooksAssumption
<1>2. h \in Nat \ {0} /\ DayTicks = 2 * h
  BY <1>1
<1>3. x \in 0..(DayTicks - 1)
  BY <1>1, Division
<1> HIDE DEF h, x
<1>4. x \in Int /\ h * 0 <= x /\ x < h * 1 + h
  BY <1>2, <1>3
<1>5. 0 <= k /\ k <= 1 /\ k \in Int
  BY <1>2, <1>4, Division, DivisionIs
<1> HIDE DEF k
<1>6. k \in {0, 1}
  BY <1>5
<1> QED BY <1>6 DEF k, h, x

LEMMA MonthsCover ==
  ASSUME NEW n \in Nat, NEW t \in Nat,
         MonthStart(MonthOf(n) - (YearLen - 1)) <= t, t <= DayEnd(n)
  PROVE  /\ MonthOf(MonthStart(MonthOf(n) - (YearLen - 1))) = MonthOf(n) - (YearLen - 1)
         /\ MonthOf(t) \in Int /\ MonthOf(n) \in Int
         /\ MonthOf(n) - (YearLen - 1) <= MonthOf(t) /\ MonthOf(t) <= MonthOf(n)
<1> DEFINE m == DayTicks * MonthLen
           q == n \div m
           k == q - (YearLen - 1)
           day == n \div DayTicks
<1>1. DayTicks \in Nat \ {0} /\ MonthLen \in Nat \ {0} /\ YearLen \in Nat \ {0}
  BY CalendarTypes
<1>2. m \in Nat \ {0}
  BY <1>1
<1>3. \A x : MonthOf(x) = x \div m
  BY DEF MonthOf
<1>4. ASSUME NEW x \in Int PROVE MonthStart(x) = m * x
  BY <1>1, <1>4 DEF MonthStart
<1>5. q \in Int /\ m * q <= n /\ n < m * q + m
  <2> HIDE DEF m
  <2> QED BY <1>2, Division
<1>6. k \in Int
  BY <1>1, <1>5
<1>7. (m * k) \div m = k /\ m * k \in Int
  <2> HIDE DEF m, k
  <2>1. m * k \in Int /\ m * k <= m * k /\ m * k < m * k + m
    BY <1>2, <1>6
  <2>2. k <= (m * k) \div m /\ (m * k) \div m <= k /\ (m * k) \div m \in Int
    BY <1>2, <1>6, <2>1, Division, DivisionIs
  <2> QED BY <1>6, <2>1, <2>2
<1>8. m * k <= t => k <= t \div m
  <2> HIDE DEF m, k
  <2> QED BY <1>2, <1>6, DivisionIs
<1>9. DayEnd(n) < m * q + m
  <2> DEFINE b == MonthLen * q + MonthLen
  <2>1. b \in Int /\ DayTicks * b = m * q + m
    <3> HIDE DEF q
    <3> QED BY <1>1, <1>5
  <2>2. day \in Int
    BY <1>1, Division
  <2>3. DayTicks * (b - 1) + DayTicks = DayTicks * b
    <3> HIDE DEF b
    <3> QED BY <1>1, <2>1
  <2>4. day <= b - 1
    <3>1. n < DayTicks * (b - 1) + DayTicks /\ b - 1 \in Int
      <4> HIDE DEF b, m, q
      <4> QED BY <1>5, <2>1, <2>3
    <3> DEFINE e == b - 1
    <3>2. n < DayTicks * e + DayTicks /\ e \in Int /\ n \in Int
      BY <3>1
    <3> HIDE DEF e
    <3>3. n \div DayTicks <= e
      BY <1>1, <3>2, DivisionIs
    <3> QED BY <3>3 DEF e
  <2>5. DayTicks * day <= DayTicks * (b - 1)
    <3> HIDE DEF b, day
    <3> QED BY <1>1, <2>1, <2>2, <2>4, Multiplies
  <2>6. DayEnd(n) = DayTicks * day + DayTicks - 1
    <3>1. day * DayTicks = DayTicks * day
      <4> HIDE DEF day
      <4> QED BY <1>1, <2>2
    <3> QED BY <3>1 DEF DayEnd, DayStart
  <2> DEFINE x == DayTicks * day y == DayTicks * (b - 1) z == DayTicks * b
  <2>7. x \in Int /\ y \in Int /\ z \in Int /\ x <= y /\ y + DayTicks = z
        /\ DayEnd(n) = x + DayTicks - 1 /\ z = m * q + m
    <3> HIDE DEF b, day
    <3> QED BY <1>1, <2>1, <2>2, <2>3, <2>5, <2>6
  <2> HIDE DEF x, y, z
  <2>8. DayEnd(n) < z
    BY <1>1, <2>7
  <2> QED BY <2>7, <2>8
<1>10. t < m * q + m
  <2>1. DayEnd(n) \in Int
    BY DayIs
  <2> DEFINE z == m * q + m
  <2>2. z \in Int
    <3> HIDE DEF m, q
    <3> QED BY <1>2, <1>5
  <2> HIDE DEF z
  <2> QED BY <1>9, <2>1, <2>2 DEF z
<1>11. t \div m <= q /\ t \div m \in Int
  <2> HIDE DEF m, q
  <2>1. t \in Int /\ q \in Int /\ m \in Nat \ {0}
    BY <1>2, <1>5
  <2>2. t \div m <= q
    BY <1>10, <2>1, DivisionIs
  <2>3. t \div m \in Int
    BY <2>1, Division
  <2> QED BY <2>2, <2>3
<1>12. MonthOf(n) = q /\ MonthOf(t) = t \div m
  BY <1>3
<1>13. MonthOf(n) - (YearLen - 1) = k /\ MonthStart(k) = m * k
  BY <1>4, <1>6, <1>12
<1> HIDE DEF m, q, k
<1>14. MonthOf(m * k) = k
  BY <1>3, <1>7
<1>15. m * k <= t
  BY <1>13
<1> QED BY <1>5, <1>8, <1>11, <1>12, <1>13, <1>14, <1>15

LEMMA LabelsCover ==
  ASSUME NEW p \in SummaryPeriods, NEW n \in Nat
  PROVE  /\ IsFiniteSet(Labels(p, SummaryRange(p, n)))
         /\ \A t \in Nat : SummaryRange(p, n).from <= t /\ t <= SummaryRange(p, n).to
               => Label(p, t) \in Labels(p, SummaryRange(p, n))
<1> DEFINE s == SummaryRange(p, n)
<1>1. CASE p \in {"today", "yesterday"}
  <2>1. Labels(p, s) = {0, 1}
    BY <1>1 DEF Labels
  <2>2. \A t : Label(p, t) = (t % DayTicks) \div (DayTicks \div 2)
    BY <1>1 DEF Label
  <2> HIDE DEF s
  <2>3. \A t \in Nat : Label(p, t) \in Labels(p, s)
    BY <2>1, <2>2, HalvesCover
  <2> QED BY <2>1, <2>3, FewAreFinite DEF s
<1>2. CASE p = "year"
  <2> DEFINE f == MonthOf(n) - (YearLen - 1)
  <2>1. s.from = MonthStart(f) /\ s.to = DayEnd(n)
    BY <1>2 DEF SummaryRange, Span
  <2>2. Labels(p, s) = {(MonthOf(MonthStart(f)) + i) % YearLen : i \in 0..(YearLen - 1)}
    BY <1>2, <2>1 DEF Labels
  <2>3. \A t : Label(p, t) = MonthOf(t) % YearLen
    BY <1>2 DEF Label
  <2>4. IsFiniteSet(Labels(p, s))
    <3> DEFINE g == [i \in 0..(YearLen - 1) |-> (MonthOf(MonthStart(f)) + i) % YearLen]
    <3>1. g \in Surjection(0..(YearLen - 1), Labels(p, s))
      BY <2>2 DEF Surjection
    <3>2. IsFiniteSet(0..(YearLen - 1))
      BY CalendarTypes, FS_Interval
    <3> QED BY <3>1, <3>2, FS_Surjection
  <2>5. ASSUME NEW t \in Nat, s.from <= t, t <= s.to PROVE Label(p, t) \in Labels(p, s)
    <3>1. /\ MonthOf(MonthStart(f)) = f /\ MonthOf(t) \in Int /\ MonthOf(n) \in Int
          /\ f <= MonthOf(t) /\ MonthOf(t) <= MonthOf(n)
      BY <2>1, <2>5, MonthsCover
    <3> DEFINE i == MonthOf(t) - f
    <3>2. i \in 0..(YearLen - 1) /\ f + i = MonthOf(t)
      BY <3>1, CalendarTypes
    <3> HIDE DEF i, f, s
    <3>3. Label(p, t) = (MonthOf(MonthStart(f)) + i) % YearLen
      BY <2>3, <3>1, <3>2
    <3> QED BY <2>2, <3>2, <3>3
  <2> QED BY <2>4, <2>5
<1>3. CASE p \in {"week", "month"}
  <2>1. /\ Labels(p, s) = (s.from \div DayTicks)..(s.to \div DayTicks)
        /\ \A t : Label(p, t) = t \div DayTicks
    BY <1>3 DEF Labels, Label
  <2>2. s.from \in Int /\ s.to \in Int
    <3>1. s.to = DayEnd(n) /\ (s.from = Back(n, WeekDays - 1) \/ s.from = Back(n, ThirtyDays - 1))
      BY <1>3 DEF SummaryRange, Span
    <3>2. DayEnd(n) \in Int /\ DayStart(n) \in Int
      BY DayIs
    <3>3. Back(n, WeekDays - 1) \in Int /\ Back(n, ThirtyDays - 1) \in Int
      BY <3>2, CalendarTypes DEF Back
    <3> QED BY <3>1, <3>2, <3>3
  <2> HIDE DEF s
  <2>3. s.from \div DayTicks \in Int /\ s.to \div DayTicks \in Int
    BY <2>2, CalendarTypes, Division
  <2>4. IsFiniteSet(Labels(p, s))
    BY <2>1, <2>3, FS_Interval
  <2>5. ASSUME NEW t \in Nat, s.from <= t, t <= s.to PROVE Label(p, t) \in Labels(p, s)
    <3>1. /\ s.from \div DayTicks <= t \div DayTicks /\ t \div DayTicks <= s.to \div DayTicks
          /\ t \div DayTicks \in Int
      <4>1. t \in Int /\ DayTicks \in Nat \ {0}
        BY CalendarTypes
      <4>2. s.from \div DayTicks <= t \div DayTicks
        BY <2>2, <2>5, <4>1, DivisionGrows
      <4>3. t \div DayTicks <= s.to \div DayTicks
        BY <2>2, <2>5, <4>1, DivisionGrows
      <4>4. t \div DayTicks \in Int
        BY <4>1, Division
      <4> QED BY <4>2, <4>3, <4>4
    <3> QED BY <2>1, <2>3, <3>1
  <2> QED BY <2>4, <2>5 DEF s
<1> QED BY <1>1, <1>2, <1>3 DEF SummaryPeriods

LEMMA CurveAddsUp == ASSUME BooksInv PROVE TimelineAddsUp
<1>1. ASSUME NEW p \in SummaryPeriods, NEW s, s = SummaryRange(p, now)
      PROVE  LET line == Timeline(p, s)
             IN  /\ SumFunction([l \in DOMAIN line |-> line[l].inflow]) = Revenue(s)
                 /\ SumFunction([l \in DOMAIN line |-> line[l].outflow]) = Losses(s)
  <2> DEFINE L == Labels(p, s)
             line == Timeline(p, s)
             up == [l \in L |-> Total({r \in RevenueRows(s) : Label(p, r.at) = l})]
             down == [l \in L |-> Total({r \in LossRows(s) : Label(p, r.at) = l})]
  <2>1. /\ IsFiniteSet(L)
        /\ \A t \in Nat : s.from <= t /\ t <= s.to => Label(p, t) \in L
    BY <1>1, NowIs, LabelsCover
  <2>2. /\ RevenueRows(s) \subseteq In(s) /\ LossRows(s) \subseteq In(s) /\ In(s) \subseteq rows
        /\ \A r \in In(s) : r.at \in Nat /\ s.from <= r.at /\ r.at <= s.to
    BY RowsAreAmounted DEF RevenueRows, LossRows, In
  <2>3. Amounted(RevenueRows(s)) /\ Amounted(LossRows(s))
    BY <2>2, RowsAreAmounted
  <2>4. [l \in DOMAIN line |-> line[l].inflow] = up /\ [l \in DOMAIN line |-> line[l].outflow] = down
    BY DEF Timeline
  <2>5. SumFunction(up) = Total(RevenueRows(s)) /\ SumFunction(down) = Total(LossRows(s))
    <3> HIDE DEF L
    <3>1. \A r \in RevenueRows(s) : Label(p, r.at) \in L
      BY <2>1, <2>2
    <3>2. \A r \in LossRows(s) : Label(p, r.at) \in L
      BY <2>1, <2>2
    <3> QED BY <2>1, <2>3, <3>1, <3>2, LineAddsUp
  <2> HIDE DEF line, up, down
  <2> QED BY <2>4, <2>5 DEF Revenue, Losses, line
<1> QED BY <1>1 DEF TimelineAddsUp

LEMMA ArrowIs ==
  ASSUME NEW v \in Int, NEW b \in Int
  PROVE  /\ Direction(v, b) = "up" => v > b \/ b = 0
         /\ Direction(v, b) = "down" => v < b
         /\ Direction(v, b) = "flat" => ~Noticed(v, b)
<1> DEFINE size == IF b < 0 THEN -b ELSE b
           y == 20000 * (v - b) + size
           change == y \div (2 * size)
<1>1. Direction(v, b) = IF b = 0 THEN (IF v = 0 THEN "flat" ELSE "up")
                        ELSE IF change > 0 THEN "up" ELSE IF change < 0 THEN "down" ELSE "flat"
  BY DEF Direction
<1>2. CASE b = 0
  <2>1. v = 0 => ~Noticed(v, b)
    BY <1>2 DEF Noticed
  <2> QED BY <1>1, <1>2, <2>1
<1>3. CASE b # 0
  <2>1. size \in Nat \ {0} /\ 2 * size \in Nat \ {0} /\ y \in Int /\ b <= size /\ -b <= size
        /\ (size = b \/ size = -b)
    BY <1>3
  <2>2. change \in Int /\ (2 * size) * change <= y /\ y < (2 * size) * change + 2 * size
    <3> HIDE DEF size, y
    <3> QED BY <2>1, Division
  <2> HIDE DEF change
  <2>3. change > 0 => v > b
    <3> SUFFICES ASSUME change > 0 PROVE v > b OBVIOUS
    <3>1. (2 * size) * 1 <= (2 * size) * change
      <4> HIDE DEF size
      <4> QED BY <2>1, <2>2, Multiplies
    <3> DEFINE z == (2 * size) * change
    <3>2. z \in Int /\ 2 * size <= z /\ z <= y
      <4> HIDE DEF size, y
      <4> QED BY <2>1, <2>2, <3>1
    <3> HIDE DEF z, size
    <3> QED BY <2>1, <3>2
  <2>4. change < 0 => v < b
    <3> SUFFICES ASSUME change < 0 PROVE v < b OBVIOUS
    <3>1. (2 * size) * change <= (2 * size) * (-1)
      <4> HIDE DEF size
      <4> QED BY <2>1, <2>2, Multiplies
    <3> DEFINE z == (2 * size) * change
    <3>2. z \in Int /\ z <= -(2 * size) /\ y < z + 2 * size
      <4> HIDE DEF size, y
      <4> QED BY <2>1, <2>2, <3>1
    <3> HIDE DEF z, size
    <3> QED BY <2>1, <3>2
  <2>5. change = 0 => ~Noticed(v, b)
    <3> SUFFICES ASSUME change = 0 PROVE ~Noticed(v, b) OBVIOUS
    <3>1. 0 <= y /\ y < 2 * size
      <4> HIDE DEF size, y
      <4> QED BY <2>1, <2>2
    <3> HIDE DEF size
    <3>2. ASSUME NEW x \in {v - b, b - v}, 20000 * x > b, 20000 * x > -b PROVE FALSE
      <4>1. x \in Int /\ 20000 * x > size
        BY <2>1, <3>2
      <4> QED BY <2>1, <3>1, <3>2, <4>1
    <3> QED BY <3>2 DEF Noticed
  <2> QED BY <1>1, <1>3, <2>2, <2>3, <2>4, <2>5
<1> QED BY <1>2, <1>3

LEMMA ArrowsTell == ASSUME BooksInv PROVE ArrowTells
<1>1. \A s : Metrics(s).revenue \in Int /\ Metrics(s).profit \in Int /\ Metrics(s).cash \in Int
  BY MetricsAre
<1>2. \A s : \A k \in {"revenue", "profit", "cash"} : Metrics(s)[k] \in Int
  BY <1>1
<1>3. ASSUME NEW p \in {"today", "month"}, NEW k \in {"revenue", "profit", "cash"}
      PROVE  LET c == Compared(p, now)
                 arrow == Direction(c.this[k], c.before[k])
             IN  /\ arrow = "up" => c.this[k] > c.before[k] \/ c.before[k] = 0
                 /\ arrow = "down" => c.this[k] < c.before[k]
                 /\ arrow = "flat" => ~Noticed(c.this[k], c.before[k])
  <2> DEFINE s == MetricsRange(p, now)
  <2>1. Compared(p, now).this = Metrics(s) /\ Compared(p, now).before = Metrics(Previous(s))
    BY DEF Compared
  <2> QED BY <1>2, <2>1, ArrowIs
<1> QED BY <1>3 DEF ArrowTells

-----------------------------------------------------------------------------

\* In the part of the books, what is known of them.
BooksPartInv == part = "books" => BooksInv

LEMMA BooksPartBegins == MCInit => BooksPartInv
  BY BooksBegin DEF MCInit, BooksPartInv

LEMMA BooksPartGoesOn ==
  BooksPartInv /\ [MCNext]_<<part, bookVars, setupVars>> => BooksPartInv'
<1> SUFFICES ASSUME BooksPartInv, [MCNext]_<<part, bookVars, setupVars>> PROVE BooksPartInv'
  OBVIOUS
<1>1. CASE part = "books" /\ BooksNext /\ UNCHANGED <<part, setupVars>>
  BY <1>1, BooksGoOn DEF BooksPartInv
<1>2. CASE part = "setup" /\ SetupNext /\ UNCHANGED <<part, bookVars>>
  BY <1>2 DEF BooksPartInv
<1>3. CASE UNCHANGED <<part, bookVars, setupVars>>
  BY <1>3, BooksGoOn DEF BooksPartInv
<1> QED BY <1>1, <1>2, <1>3 DEF MCNext

\* The figures of the dashboard and of the metrics count what happened in their
\* period once, but for what is booked twice, their curve adds up to them, and each
\* credit of the attendant is of a sale in the books: in every calendar, for any
\* things that may happen, at any time, of any amount, and any report.
THEOREM FiguresAddUpAlways == MCSpec => []FiguresAddUp
<1>1. BooksPartInv => FiguresAddUp
  BY FiguresAreTrue, CurveAddsUp, CreditsAreOfSales DEF FiguresAddUp, BooksPartInv
<1> QED BY <1>1, BooksPartBegins, BooksPartGoesOn, PTL DEF MCSpec

\* What is shown as today is shown as yesterday, and compared with, a day later; and
\* the arrows tell which way the figures went, but from zero.
THEOREM FiguresCompareAlways == MCSpec => []FiguresCompare
<1>1. BooksPartInv => FiguresCompare
  BY DaysAreChained, ArrowsTell DEF FiguresCompare, BooksPartInv
<1> QED BY <1>1, BooksPartBegins, BooksPartGoesOn, PTL DEF MCSpec

-----------------------------------------------------------------------------
(* Type correctness *)

\* A request that may still call a provider has one left to call: what keeps
\* the fallback counter a natural number.
ProviderLeft ==
    \A r \in Slots :
        slot[r].pc \in {"checking", "quota", "calling"} => slot[r].left >= 1

TypeInv == TypeOK /\ ProviderLeft

\* Plan resolution always ends at a plan, whose limit is a number or none.
LEMMA ResolvedPlanIsPlan ==
  ASSUME NEW s, NEW r, NEW o \in Plans
  PROVE  /\ ResolvedPlan(s, r, o) \in Plans
         /\ FeatureLimit(ResolvedPlan(s, r, o)) \in Nat \cup {Unlimited}
BY PlansAssumption, LimitAssumption DEF ResolvedPlan, FeatureLimit

LEMMA LimitInForceType ==
  ASSUME TypeOK PROVE LimitInForce \in Nat \cup {Unlimited}
BY ResolvedPlanIsPlan DEF LimitInForce, TypeOK

\* Recording the peak keeps its type and never lowers it.
LEMMA RecordPeakType ==
  ASSUME ownerPlan' \in Plans, peak \in Nat \cup {Unlimited}, RecordPeak
  PROVE  /\ peak' \in Nat \cup {Unlimited}
         /\ LimitInForce' \in Nat \cup {Unlimited}
<1>1. LimitInForce' \in Nat \cup {Unlimited}
  BY ResolvedPlanIsPlan DEF LimitInForce
<1>2. QED
  BY <1>1 DEF RecordPeak, LargerLimit

LEMMA IdleSlotType == IdleSlot \in SlotType
BY BoundAssumption DEF IdleSlot, SlotType, Pcs, Outcomes, Unread

\* The two ways a slot changes that many actions share.
LEMMA FinishType ==
  ASSUME TypeInv, NEW r \in Slots, NEW outcome \in Outcomes, Finish(r, outcome)
  PROVE  slot' \in [Slots -> SlotType] /\ ProviderLeft'
<1>1. slot[r] \in SlotType
  BY DEF TypeInv, TypeOK
<1>2. [IdleSlot EXCEPT !.flow = slot[r].flow, !.meters = slot[r].meters,
                       !.out = outcome] \in SlotType
  BY <1>1, IdleSlotType DEF SlotType
<1>3. slot' \in [Slots -> SlotType]
  BY <1>2 DEF Finish, TypeInv, TypeOK
<1>4. ProviderLeft'
  BY DEF Finish, TypeInv, TypeOK, ProviderLeft, IdleSlot
<1>5. QED
  BY <1>3, <1>4

LEMMA GotoType ==
  ASSUME TypeInv, NEW r \in Slots, NEW pc \in Pcs, Goto(r, pc),
         pc \in {"checking", "quota", "calling"} => slot[r].left >= 1
  PROVE  slot' \in [Slots -> SlotType] /\ ProviderLeft'
<1>1. slot[r] \in SlotType
  BY DEF TypeInv, TypeOK
<1>2. slot' = [slot EXCEPT ![r] = [slot[r] EXCEPT !.pc = pc]]
  BY DEF Goto
<1>3. [slot[r] EXCEPT !.pc = pc] \in SlotType
  BY <1>1 DEF SlotType
<1>4. QED
  BY <1>1, <1>2, <1>3 DEF TypeInv, TypeOK, ProviderLeft, SlotType

LEMMA AfterErrorType ==
  ASSUME TypeInv, NEW r \in Slots, NEW left \in 0..Providers, AfterError(r, left)
  PROVE  slot' \in [Slots -> SlotType] /\ ProviderLeft'
<1>1. CASE slot[r].flow = "chat"
  BY <1>1, FinishType DEF AfterError, Outcomes
<1>2. ASSUME NEW pc \in {"calling", "failing"}, pc = "calling" => left >= 1,
             slot' = [slot EXCEPT ![r].pc = pc, ![r].left = left]
      PROVE  slot' \in [Slots -> SlotType] /\ ProviderLeft'
  <2> DEFINE new == [slot[r] EXCEPT !.pc = pc, !.left = left]
  <2>1. slot[r] \in SlotType
    BY DEF TypeInv, TypeOK
  <2>2. slot' = [slot EXCEPT ![r] = new]
    BY <1>2
  <2>3. new \in SlotType /\ new.pc = pc /\ new.left = left
    BY <2>1 DEF SlotType, Pcs
  <2> HIDE DEF new
  <2>4. QED
    BY <1>2, <2>2, <2>3 DEF TypeInv, TypeOK, ProviderLeft
<1>3. CASE slot[r].flow # "chat"
  BY <1>2, <1>3, BoundAssumption DEF AfterError
<1>4. QED
  BY <1>1, <1>3

LEMMA TypeInit == Init => TypeInv
<1> SUFFICES ASSUME Init PROVE TypeInv
  OBVIOUS
<1>1. slot \in [Slots -> SlotType] /\ ProviderLeft
  BY IdleSlotType DEF Init, ProviderLeft, IdleSlot
<1>2. peak \in Nat \cup {Unlimited}
  BY ResolvedPlanIsPlan DEF Init, LimitInForce
<1>3. QED
  BY <1>1, <1>2, BoundAssumption DEF Init, TypeInv, TypeOK

\* Type correctness of the steps of one request, action by action.
LEMMA TypeServe ==
  ASSUME TypeInv, NEW r \in Slots, Serve(r)
  PROVE  TypeInv'
<1> USE DEF TypeInv
<1>0. slot[r] \in SlotType
  BY DEF TypeOK
<1>1. CASE ReadLimit(r)
  <2>1. [slot[r] EXCEPT !.limit = LimitInForce] \in SlotType
    BY <1>0, LimitInForceType DEF SlotType
  <2>2. QED
    BY <1>1, <2>1 DEF ReadLimit, TypeOK, ProviderLeft
<1>2. CASE ReadUsage(r)
  <2>1. [slot[r] EXCEPT !.seen = usage[slot[r].month]] \in SlotType
    BY <1>0 DEF SlotType, TypeOK
  <2>2. QED
    BY <1>2, <2>1 DEF ReadUsage, TypeOK, ProviderLeft
<1>3. CASE Decide(r)
  <2>1. CASE WithinLimit(slot[r].limit, slot[r].seen)
    <3>1. ASSUME NEW pc \in {"quota", "calling"}
          PROVE  [slot[r] EXCEPT !.pc = pc, !.limit = Unread, !.seen = Unread]
                   \in SlotType
      BY <1>0 DEF SlotType, Pcs
    <3>2. PICK pc \in {"quota", "calling"} :
            slot' = [slot EXCEPT ![r] =
                [slot[r] EXCEPT !.pc = pc, !.limit = Unread, !.seen = Unread]]
      BY <1>3, <2>1 DEF Decide
    <3>3. slot[r].left >= 1
      BY <1>3 DEF Decide, ProviderLeft
    <3>4. slot' \in [Slots -> SlotType] /\ ProviderLeft'
      BY <1>0, <3>1, <3>2, <3>3 DEF TypeOK, ProviderLeft, SlotType
    <3>5. QED
      BY <1>3, <3>4 DEF Decide, TypeOK
  <2>2. CASE ~WithinLimit(slot[r].limit, slot[r].seen)
    BY <1>3, <2>2, FinishType DEF Decide, TypeOK, Outcomes
  <2>3. QED
    BY <2>1, <2>2
<1>4. CASE EnsureQuota(r)
  <2>1. row' \in [tier : Plans \cup {"none"}, tokens : Nat]
    BY <1>4, PlansAssumption DEF EnsureQuota, TypeOK
  <2>2. slot' \in [Slots -> SlotType] /\ ProviderLeft'
    BY <1>4, FinishType, GotoType DEF EnsureQuota, Outcomes, Pcs, ProviderLeft
  <2>3. peak' \in Nat \cup {Unlimited}
    BY <1>4, RecordPeakType DEF EnsureQuota, TypeOK
  <2>4. QED
    BY <1>4, <2>1, <2>2, <2>3 DEF EnsureQuota, TypeOK
<1>5. CASE CallAnswers(r)
  <2>1. slot[r].left - 1 \in 0..Providers
    BY <1>0, <1>5, BoundAssumption DEF CallAnswers, ProviderLeft, SlotType
  <2>2. PICK c \in {0, 1} :
          slot' = [slot EXCEPT ![r] = [slot[r] EXCEPT
              !.pc = "logging", !.cost = c, !.left = slot[r].left - 1]]
    BY <1>5 DEF CallAnswers
  <2>3. [slot[r] EXCEPT !.pc = "logging", !.cost = c, !.left = slot[r].left - 1]
          \in SlotType
    BY <1>0, <2>1 DEF SlotType, Pcs
  <2>4. slot' \in [Slots -> SlotType] /\ ProviderLeft'
    BY <1>0, <2>2, <2>3 DEF TypeOK, ProviderLeft, SlotType
  <2>5. QED
    BY <1>5, <2>4 DEF CallAnswers, TypeOK
<1>6. CASE CallFails(r)
  <2>1. slot[r].left - 1 \in 0..Providers
    BY <1>0, <1>6, BoundAssumption DEF CallFails, ProviderLeft, SlotType
  <2>2. QED
    BY <1>6, <2>1, AfterErrorType DEF CallFails, TypeOK
<1>7. CASE CallThrottled(r)
  BY <1>7, FinishType DEF CallThrottled, TypeOK, Outcomes
<1>8. CASE WriteLog(r)
  <2>1. CASE slot' = [slot EXCEPT ![r] = [slot[r] EXCEPT !.pc = "metering", !.month = month]]
    <3>1. [slot[r] EXCEPT !.pc = "metering", !.month = month] \in SlotType
      BY <1>0 DEF SlotType, Pcs, TypeOK
    <3>2. slot' \in [Slots -> SlotType] /\ ProviderLeft'
      BY <1>0, <2>1, <3>1 DEF TypeOK, ProviderLeft, SlotType
    <3>3. QED
      BY <1>8, <3>2 DEF WriteLog, TypeOK
  <2>2. CASE AfterError(r, slot[r].left)
    <3>1. slot' \in [Slots -> SlotType] /\ ProviderLeft'
      BY <1>0, <2>2, AfterErrorType DEF SlotType
    <3>2. QED
      BY <1>8, <3>1 DEF WriteLog, TypeOK
  <2>3. QED
    BY <1>8, <2>1, <2>2 DEF WriteLog
<1>9. CASE Meter(r)
  <2>1. slot[r].meters + 1 \in Nat
    BY <1>0 DEF SlotType
  <2>2. slot' = [slot EXCEPT ![r] = [slot[r] EXCEPT
                   !.pc = "legacy", !.meters = slot[r].meters + 1]]
    BY <1>9 DEF Meter
  <2>3. [slot[r] EXCEPT !.pc = "legacy", !.meters = slot[r].meters + 1] \in SlotType
    BY <1>0, <2>1 DEF SlotType, Pcs
  <2>4. slot' \in [Slots -> SlotType] /\ ProviderLeft'
    BY <1>0, <2>2, <2>3 DEF TypeOK, ProviderLeft, SlotType
  <2>5. usage' \in [0..Months -> Nat] /\ tokenCount' \in [0..Months -> Nat]
    BY <1>0, <1>9 DEF Meter, TypeOK, SlotType
  <2>6. QED
    BY <1>9, <2>4, <2>5 DEF Meter, TypeOK
<1>10. CASE MeterFails(r)
  <2>1. slot' \in [Slots -> SlotType] /\ ProviderLeft'
    BY <1>0, <1>10, AfterErrorType DEF MeterFails, SlotType
  <2>2. QED
    BY <1>10, <2>1 DEF MeterFails, TypeOK
<1>11. CASE MeterLegacy(r)
  <2>1. row' \in [tier : Plans \cup {"none"}, tokens : Nat]
    BY <1>0, <1>11, PlansAssumption DEF MeterLegacy, TypeOK, SlotType
  <2>2. slot' \in [Slots -> SlotType] /\ ProviderLeft'
    BY <1>11, FinishType, GotoType DEF MeterLegacy, Outcomes, Pcs
  <2>3. peak' \in Nat \cup {Unlimited}
    BY <1>11, RecordPeakType DEF MeterLegacy, TypeOK
  <2>4. QED
    BY <1>11, <2>1, <2>2, <2>3 DEF MeterLegacy, TypeOK
<1>12. CASE SaveChat(r)
  BY <1>12, FinishType DEF SaveChat, TypeOK, Outcomes
<1>13. CASE LogFailed(r)
  BY <1>13, FinishType DEF LogFailed, TypeOK, Outcomes
<1>14. QED
  BY <1>1, <1>2, <1>3, <1>4, <1>5, <1>6, <1>7, <1>8, <1>9, <1>10, <1>11,
     <1>12, <1>13 DEF Serve

LEMMA TypeNext == TypeInv /\ [Next]_vars => TypeInv'
<1> SUFFICES ASSUME TypeInv, [Next]_vars PROVE TypeInv'
  OBVIOUS
<1> USE DEF TypeInv
<1>1. ASSUME NEW r \in Slots, Serve(r) PROVE TypeInv'
  BY <1>1, TypeServe
<1>2. ASSUME NEW r \in Slots, NEW f \in Flows, Arrive(r, f) PROVE TypeInv'
  <2> DEFINE left == IF f = "generate" THEN Providers ELSE 1
             new == [IdleSlot EXCEPT !.pc = "checking", !.flow = f,
                                     !.month = month, !.left = left]
  <2>1. slot' = [slot EXCEPT ![r] = new]
    BY <1>2 DEF Arrive
  <2>2. left \in 0..Providers /\ left >= 1
    BY BoundAssumption
  <2> HIDE DEF left
  <2>3. new \in SlotType /\ new.left >= 1
    BY <2>2, IdleSlotType DEF SlotType, Pcs, TypeOK, IdleSlot
  <2> HIDE DEF new
  <2>4. slot' \in [Slots -> SlotType] /\ ProviderLeft'
    BY <2>1, <2>3 DEF TypeOK, ProviderLeft
  <2>5. QED
    BY <1>2, <2>4 DEF Arrive, TypeOK
<1>3. CASE NextMonth
  BY <1>3, BoundAssumption DEF NextMonth, TypeOK, ProviderLeft
<1>4. ASSUME NEW s \in Plans \cup {"lapsed"}, ChangeSubscription(s) PROVE TypeInv'
  <2>1. peak' \in Nat \cup {Unlimited}
    BY <1>4, RecordPeakType DEF ChangeSubscription, TypeOK
  <2>2. QED
    BY <1>4, <2>1 DEF ChangeSubscription, TypeOK, ProviderLeft
<1>5. CASE SyncTier
  <2>1. peak' \in Nat \cup {Unlimited}
    BY <1>5, RecordPeakType DEF SyncTier, TypeOK
  <2>2. row' \in [tier : Plans \cup {"none"}, tokens : Nat]
    BY <1>5, PlansAssumption DEF SyncTier, TypeOK
  <2>3. QED
    BY <1>5, <2>1, <2>2 DEF SyncTier, TypeOK, ProviderLeft
<1>6. CASE ResetQuota
  BY <1>6 DEF ResetQuota, TypeOK, ProviderLeft
<1>7. CASE Crash
  <2>1. slot' \in [Slots -> SlotType]
    BY <1>7, IdleSlotType DEF Crash, TypeOK
  <2>2. ProviderLeft'
    BY <1>7 DEF Crash, ProviderLeft, IdleSlot
  <2>3. QED
    BY <1>7, <2>1, <2>2 DEF Crash, TypeOK
<1>8. CASE UNCHANGED vars
  BY <1>8 DEF vars, TypeOK, ProviderLeft
<1>9. QED
  BY <1>1, <1>2, <1>3, <1>4, <1>5, <1>6, <1>7, <1>8 DEF Next

\* The metering state of ai-usage.service.ts and of the requests in progress
\* keeps its types, for every number of requests, plans, limits and months.
THEOREM TypeCorrect == Spec => []TypeOK
<1>1. Spec => []TypeInv
  BY TypeInit, TypeNext, PTL DEF Spec
<1>2. TypeInv => TypeOK
  BY DEF TypeInv
<1>3. QED
  BY <1>1, <1>2, PTL
-----------------------------------------------------------------------------
(* The overshoot of a monthly limit *)

Inv == TypeInv /\ OvershootInv(Nat \ {0})

\* Slots are finite, and so is every set of pending ones.
LEMMA SlotsCard ==
  Cardinality(Slots) \in Nat /\ Cardinality(Slots) >= 1
BY SlotsAssumption, FS_CardinalityType, FS_EmptySet

LEMMA PendingCard ==
  ASSUME NEW t
  PROVE  /\ IsFiniteSet(Pending(t)) /\ Pending(t) \subseteq Slots
         /\ Cardinality(Pending(t)) \in Nat
         /\ Cardinality(Pending(t)) <= Cardinality(Slots)
<1>1. Pending(t) \subseteq Slots
  BY DEF Pending
<1>2. QED
  BY <1>1, SlotsAssumption, FS_Subset, FS_CardinalityType

LEMMA PendingCardNext ==
  ASSUME NEW t
  PROVE  /\ IsFiniteSet(Pending(t)') /\ Pending(t)' \subseteq Slots
         /\ Cardinality(Pending(t)') \in Nat
         /\ Cardinality(Pending(t)') <= Cardinality(Slots)
<1>1. Pending(t)' \subseteq Slots
  BY DEF Pending
<1>2. QED
  BY <1>1, SlotsAssumption, FS_Subset, FS_CardinalityType

LEMMA LateCard ==
  ASSUME NEW m
  PROVE  IsFiniteSet(Late(m)) /\ Cardinality(Late(m)) \in Nat
<1>1. Late(m) \subseteq Slots
  BY DEF Late
<1>2. QED
  BY <1>1, SlotsAssumption, FS_Subset, FS_CardinalityType

\* Nobody reads the clock in a month that is over: those who may still add to it
\* only become fewer.
LEMMA PastKept ==
  ASSUME TypeInv, NEW m \in 0..Months, Late(m)' \subseteq Late(m), usage'[m] = usage[m],
         peak \in Nat, peak' \in Nat, peak <= peak',
         usage[m] + Cardinality(Late(m)) <= peak - 1 + Cardinality(Slots)
  PROVE  usage'[m] + Cardinality(Late(m)') <= peak' - 1 + Cardinality(Slots)
<1>1. Cardinality(Late(m)') <= Cardinality(Late(m)) /\ Cardinality(Late(m)') \in Nat
  <2>1. IsFiniteSet(Late(m)') /\ Cardinality(Late(m)') \in Nat
    BY LateCard, FS_Subset, FS_CardinalityType
  <2>2. QED
    BY <2>1, LateCard, FS_Subset
<1>2. usage[m] \in Nat
  BY DEF TypeInv, TypeOK
<1>3. QED
  BY <1>1, <1>2, LateCard, SlotsCard

\* The counting step: the counter stays, and no request becomes pending.
LEMMA OvershootShrinks ==
  ASSUME NEW t \in Nat \ {0}, TypeInv, month \in 0..Months,
         Pending(t)' \subseteq Pending(t), usage'[month'] = usage[month],
         OvershootAt(t)
  PROVE  OvershootAt(t)'
<1>1. Cardinality(Pending(t)') <= Cardinality(Pending(t))
  BY PendingCard, FS_Subset
<1>2. usage[month] \in Nat
  BY DEF TypeInv, TypeOK
<1>3. QED
  BY <1>1, <1>2, PendingCard, PendingCardNext, SlotsCard DEF OvershootAt

\* A limit that was covered stays covered when the peak is recorded, and a
\* threshold above the new peak is above the old one.
LEMMA RecordPeakCovers ==
  ASSUME TypeInv, ownerPlan' \in Plans, RecordPeak
  PROVE  /\ Covers(LimitInForce)'
         /\ \A l \in Nat \cup {Unlimited, Unread} : Covers(l) => Covers(l)'
         /\ peak' = 0 => peak = 0
         /\ peak' # Unlimited => peak # Unlimited /\ peak <= peak'
<1>1. /\ peak \in Nat \cup {Unlimited}
      /\ peak' \in Nat \cup {Unlimited}
      /\ LimitInForce' \in Nat \cup {Unlimited}
  BY RecordPeakType DEF TypeInv, TypeOK
<1>2. QED
  BY <1>1, LimitAssumption DEF RecordPeak, LargerLimit, Covers, Unread

\* What most steps do to the slots: one stays as it is, ends up neither
\* checking nor admitted, or stays admitted and counts, if it comes to that, for
\* the month it is.
SlotsSettle ==
    \A r \in Slots :
        /\ \/ slot'[r] = slot[r]
           \/ slot'[r].pc \notin Admitted \cup {"checking"}
           \/ /\ slot[r].pc \in Admitted /\ slot'[r].pc \in Admitted
              /\ slot'[r].pc = "metering" => slot'[r].month = month
        /\ slot'[r].month \in {slot[r].month, month, 0}

LEMMA SettlePreserves ==
  ASSUME Inv, TypeInv', SlotsSettle, UNCHANGED <<month, usage>>,
         RecordPeak \/ UNCHANGED <<peak, LimitInForce>>
  PROVE  OvershootInv(Nat \ {0})'
<1>1. /\ Covers(LimitInForce)'
      /\ \A l \in Nat \cup {Unlimited, Unread} : Covers(l) => Covers(l)'
      /\ peak' = 0 => peak = 0
      /\ peak' # Unlimited => peak # Unlimited /\ peak <= peak'
  <2>1. CASE RecordPeak
    BY <2>1, RecordPeakCovers DEF Inv, TypeInv, TypeOK
  <2>2. CASE UNCHANGED <<peak, LimitInForce>>
    BY <2>2 DEF Covers, Inv, OvershootInv, TypeInv, TypeOK
  <2>3. QED
    BY <2>1, <2>2
<1>2. (\A r \in Slots : slot[r].pc = "checking" => Covers(slot[r].limit))'
  <2>1. SUFFICES ASSUME NEW r \in Slots, slot'[r].pc = "checking"
                 PROVE  Covers(slot[r].limit)'
    OBVIOUS
  <2>2. slot'[r] = slot[r]
    BY <2>1 DEF SlotsSettle, Admitted
  <2>3. slot[r].limit \in Nat \cup {Unlimited, Unread}
    BY DEF Inv, TypeInv, TypeOK, SlotType
  <2>4. Covers(slot[r].limit)
    BY <2>1, <2>2 DEF Inv, OvershootInv
  <2>5. \A l \in Nat \cup {Unlimited, Unread} :
            Covers(l) => peak' = Unlimited \/ (l # Unlimited /\ l <= peak')
    BY <1>1 DEF Covers
  <2>6. QED
    BY <2>2, <2>3, <2>4, <2>5 DEF Covers
<1>9. (\A r \in Slots : slot[r].month <= month)'
  <2>1. ASSUME NEW r \in Slots PROVE slot'[r].month <= month
    <3>1. slot'[r].month \in {slot[r].month, month, 0} /\ month \in Nat
      BY BoundAssumption DEF SlotsSettle, Inv, TypeInv, TypeOK
    <3>2. slot[r].month <= month
      BY DEF Inv, OvershootInv
    <3>3. QED
      BY <3>1, <3>2
  <2>2. QED
    BY <2>1
<1>3. Inflight' \subseteq Inflight
  BY DEF SlotsSettle, Inflight, Admitted
<1>4. \A t : Pending(t)' \subseteq Pending(t)
  BY DEF SlotsSettle, Pending, Admitted
<1>5. peak' # Unlimited => \A m \in 0..Months : m < month' =>
          usage'[m] + Cardinality(Late(m)') <= peak' - 1 + Cardinality(Slots)
  <2>1. SUFFICES ASSUME peak' # Unlimited, NEW m \in 0..Months, m < month
                 PROVE  usage'[m] + Cardinality(Late(m)') <= peak' - 1 + Cardinality(Slots)
    OBVIOUS
  <2>2. usage[m] + Cardinality(Late(m)) <= peak - 1 + Cardinality(Slots)
    BY <1>1, <2>1 DEF Inv, OvershootInv
  <2>3. peak \in Nat /\ peak' \in Nat /\ peak <= peak'
    BY <1>1, <2>1 DEF Inv, TypeInv, TypeOK
  <2>4. Late(m)' \subseteq Late(m)
    BY <2>1 DEF SlotsSettle, Late, Admitted, Inv, TypeInv, TypeOK
  <2>5. QED
    BY <2>2, <2>3, <2>4, PastKept DEF Inv
<1>6. ASSUME NEW t \in Nat \ {0}, peak' # Unlimited, peak' <= t
      PROVE  OvershootAt(t)'
  <2>1. peak # Unlimited /\ peak <= t
    BY <1>1, <1>6 DEF Inv, TypeInv, TypeOK
  <2>2. OvershootAt(t)
    BY <2>1 DEF Inv, OvershootInv
  <2>3. QED
    BY <1>4, <2>2, OvershootShrinks DEF Inv, TypeInv, TypeOK
<1>7. QED
  BY <1>1, <1>2, <1>9, <1>3, <1>5, <1>6 DEF Inv, OvershootInv, Covers

\* The actions of a request that settle it: everything after the decision but
\* the counting itself.
LEMMA FinishSettles ==
  ASSUME TypeInv, NEW r \in Slots, NEW outcome, Finish(r, outcome)
  PROVE  SlotsSettle
BY DEF Finish, SlotsSettle, TypeInv, TypeOK, IdleSlot, Admitted

LEMMA GotoSettles ==
  ASSUME TypeInv, NEW r \in Slots, NEW pc, Goto(r, pc),
         \/ pc \notin Admitted \cup {"checking"}
         \/ slot[r].pc \in Admitted /\ pc \in Admitted \ {"metering"}
  PROVE  SlotsSettle
<1>1. slot[r] \in SlotType
  BY DEF TypeInv, TypeOK
<1>2. slot'[r].pc = pc /\ slot'[r].month = slot[r].month /\ \A q \in Slots \ {r} : slot'[q] = slot[q]
  BY <1>1 DEF Goto, TypeInv, TypeOK, SlotType
<1>3. QED
  BY <1>2 DEF SlotsSettle

LEMMA AfterErrorSettles ==
  ASSUME TypeInv, NEW r \in Slots, NEW left, AfterError(r, left),
         slot[r].pc \in Admitted
  PROVE  SlotsSettle
<1>1. CASE slot[r].flow = "chat"
  BY <1>1, FinishSettles DEF AfterError
<1>2. CASE slot[r].flow # "chat"
  <2>1. slot[r] \in SlotType
    BY DEF TypeInv, TypeOK
  <2>2. /\ slot'[r].pc \in {"calling", "failing"} /\ slot'[r].month = slot[r].month
        /\ \A q \in Slots \ {r} : slot'[q] = slot[q]
    BY <1>2, <2>1 DEF AfterError, TypeInv, TypeOK, SlotType
  <2>3. QED
    BY <2>2 DEF SlotsSettle, Admitted
<1>3. QED
  BY <1>1, <1>2

LEMMA SettlingActions ==
  ASSUME Inv, TypeInv', NEW r \in Slots,
         \/ EnsureQuota(r) \/ CallAnswers(r) \/ CallFails(r) \/ CallThrottled(r)
         \/ WriteLog(r) \/ MeterFails(r) \/ MeterLegacy(r) \/ SaveChat(r)
         \/ LogFailed(r)
  PROVE  OvershootInv(Nat \ {0})'
<1>1. TypeInv
  BY DEF Inv
<1>2. UNCHANGED <<sub, row, ownerPlan>> => UNCHANGED LimitInForce
  BY DEF LimitInForce
<1>3. CASE EnsureQuota(r)
  <2>1. SlotsSettle
    BY <1>1, <1>3, FinishSettles, GotoSettles DEF EnsureQuota, Admitted
  <2>2. QED
    BY <1>3, <2>1, SettlePreserves DEF EnsureQuota
<1>4. CASE CallAnswers(r)
  <2>1. slot[r] \in SlotType
    BY <1>1 DEF TypeInv, TypeOK
  <2>2. /\ slot'[r].pc = "logging" /\ slot'[r].month = slot[r].month
        /\ \A q \in Slots \ {r} : slot'[q] = slot[q]
    BY <1>1, <1>4, <2>1 DEF CallAnswers, TypeInv, TypeOK, SlotType
  <2>3. SlotsSettle
    BY <1>4, <2>2 DEF CallAnswers, SlotsSettle, Admitted
  <2>4. QED
    BY <1>2, <1>4, <2>3, SettlePreserves DEF CallAnswers
<1>5. CASE CallFails(r)
  <2>1. SlotsSettle
    BY <1>1, <1>5, AfterErrorSettles DEF CallFails, Admitted
  <2>2. QED
    BY <1>2, <1>5, <2>1, SettlePreserves DEF CallFails
<1>6. CASE CallThrottled(r)
  BY <1>1, <1>2, <1>6, FinishSettles, SettlePreserves DEF CallThrottled
<1>7. CASE WriteLog(r)
  <2>1. SlotsSettle
    <3>1. CASE slot' = [slot EXCEPT ![r] = [slot[r] EXCEPT !.pc = "metering", !.month = month]]
      <4>1. /\ slot'[r].pc = "metering" /\ slot'[r].month = month
            /\ \A q \in Slots \ {r} : slot'[q] = slot[q]
        BY <1>1, <3>1 DEF TypeInv, TypeOK, SlotType
      <4>2. QED
        BY <1>7, <4>1 DEF WriteLog, SlotsSettle, Admitted
    <3>2. CASE AfterError(r, slot[r].left)
      BY <1>1, <1>7, <3>2, AfterErrorSettles DEF WriteLog, Admitted
    <3>3. QED
      BY <1>7, <3>1, <3>2 DEF WriteLog
  <2>2. QED
    BY <1>2, <1>7, <2>1, SettlePreserves DEF WriteLog
<1>8. CASE MeterFails(r)
  <2>1. SlotsSettle
    BY <1>1, <1>8, AfterErrorSettles DEF MeterFails, Admitted
  <2>2. QED
    BY <1>2, <1>8, <2>1, SettlePreserves DEF MeterFails
<1>9. CASE MeterLegacy(r)
  <2>1. SlotsSettle
    BY <1>1, <1>9, FinishSettles, GotoSettles DEF MeterLegacy, Admitted
  <2>2. QED
    BY <1>9, <2>1, SettlePreserves DEF MeterLegacy
<1>10. CASE SaveChat(r)
  BY <1>1, <1>2, <1>10, FinishSettles, SettlePreserves DEF SaveChat
<1>11. CASE LogFailed(r)
  BY <1>1, <1>2, <1>11, FinishSettles, SettlePreserves DEF LogFailed
<1>12. QED
  BY <1>3, <1>4, <1>5, <1>6, <1>7, <1>8, <1>9, <1>10, <1>11

\* The reads of checkLimit.
LEMMA ReadLimitPreserves ==
  ASSUME Inv, TypeInv', NEW r \in Slots, ReadLimit(r)
  PROVE  OvershootInv(Nat \ {0})'
<1>1. /\ slot[r] \in SlotType /\ slot[r].pc = "checking"
      /\ slot' = [slot EXCEPT ![r] = [slot[r] EXCEPT !.limit = LimitInForce]]
      /\ UNCHANGED <<month, sub, ownerPlan, row, usage, tokenCount, peak>>
  BY DEF Inv, TypeInv, TypeOK, ReadLimit
<1>2. /\ slot'[r].limit = LimitInForce
      /\ \A q \in Slots : /\ slot'[q].pc = slot[q].pc
                          /\ slot'[q].month = slot[q].month
                          /\ slot'[q].seen = slot[q].seen
                          /\ q # r => slot'[q] = slot[q]
  BY <1>1 DEF Inv, TypeInv, TypeOK, SlotType
<1>3. UNCHANGED LimitInForce
  BY <1>1 DEF LimitInForce
<1>4. (\A q \in Slots : slot[q].pc = "checking" => Covers(slot[q].limit))'
  <2>1. SUFFICES ASSUME NEW q \in Slots, slot'[q].pc = "checking"
                 PROVE  Covers(slot[q].limit)'
    OBVIOUS
  <2>2. CASE q = r
    BY <1>1, <1>2, <2>1, <2>2 DEF Inv, OvershootInv, Covers
  <2>3. CASE q # r
    BY <1>1, <1>2, <2>1, <2>3 DEF Inv, OvershootInv, Covers
  <2>4. QED
    BY <2>2, <2>3
<1>5. UNCHANGED Inflight
  BY <1>2 DEF Inflight
<1>6. \A t : UNCHANGED Pending(t)
  BY <1>1, <1>2 DEF Pending
<1>7. \A t : UNCHANGED OvershootAt(t)
  BY <1>1, <1>6 DEF OvershootAt
<1>9. (\A q \in Slots : slot[q].month <= month)' /\ \A m : UNCHANGED Late(m)
  BY <1>1, <1>2 DEF Inv, OvershootInv, Late
<1>8. QED
  BY <1>1, <1>3, <1>4, <1>5, <1>7, <1>9 DEF Inv, OvershootInv, Covers

\* A request that reads a count below the threshold becomes pending, but the
\* count it read leaves room for all the slots.
LEMMA ReadUsagePreserves ==
  ASSUME Inv, TypeInv', NEW r \in Slots, ReadUsage(r)
  PROVE  OvershootInv(Nat \ {0})'
<1>1. /\ slot[r] \in SlotType /\ slot[r].pc = "checking" /\ slot[r].seen = Unread
      /\ slot' = [slot EXCEPT ![r] = [slot[r] EXCEPT !.seen = usage[slot[r].month]]]
      /\ UNCHANGED <<month, sub, ownerPlan, row, usage, tokenCount, peak>>
  BY DEF Inv, TypeInv, TypeOK, ReadUsage
<1>2. /\ slot'[r].seen = usage[slot[r].month]
      /\ \A q \in Slots : /\ slot'[q].pc = slot[q].pc
                          /\ slot'[q].month = slot[q].month
                          /\ slot'[q].limit = slot[q].limit
                          /\ q # r => slot'[q] = slot[q]
  BY <1>1 DEF Inv, TypeInv, TypeOK, SlotType
<1>3. UNCHANGED LimitInForce
  BY <1>1 DEF LimitInForce
<1>4. UNCHANGED Inflight
  BY <1>2 DEF Inflight
<1>5. /\ month \in 0..Months /\ slot[r].month \in 0..Months
      /\ slot[r].month <= month
      /\ usage[month] \in Nat
  BY <1>1 DEF Inv, OvershootInv, TypeInv, TypeOK, SlotType
<1>6. ASSUME NEW t \in Nat \ {0}, OvershootAt(t)
      PROVE  OvershootAt(t)'
  <2>1. CASE slot[r].month < month \/ ~(usage[month] < t)
    <3>1. slot[r].month < month \/ ~(slot'[r].seen < t)
      BY <1>2, <1>5, <2>1
    <3>2. Pending(t)' \subseteq Pending(t)
      BY <1>1, <1>2, <3>1 DEF Pending, Unread
    <3>3. QED
      BY <1>1, <1>5, <1>6, <3>2, OvershootShrinks DEF Inv
  <2>2. CASE usage[month] < t
    BY <1>1, <1>5, <2>2, PendingCardNext, SlotsCard DEF OvershootAt
  <2>3. QED
    BY <2>1, <2>2
<1>8. (\A q \in Slots : slot[q].month <= month)' /\ \A m : UNCHANGED Late(m)
  BY <1>1, <1>2 DEF Inv, OvershootInv, Late
<1>7. QED
  BY <1>1, <1>2, <1>3, <1>4, <1>6, <1>8 DEF Inv, OvershootInv, Covers

\* A request that is admitted had read a count below the limit it had read,
\* which the threshold covers: it was pending already.
LEMMA DecidePreserves ==
  ASSUME Inv, TypeInv', NEW r \in Slots, Decide(r)
  PROVE  OvershootInv(Nat \ {0})'
<1>1. UNCHANGED <<month, sub, ownerPlan, row, usage, tokenCount, peak>>
  BY DEF Decide
<1>2. UNCHANGED LimitInForce
  BY <1>1 DEF LimitInForce
<1>3. CASE ~WithinLimit(slot[r].limit, slot[r].seen)
  BY <1>1, <1>2, <1>3, FinishSettles, SettlePreserves DEF Decide, Inv
<1>4. CASE WithinLimit(slot[r].limit, slot[r].seen)
  <2>1. /\ slot[r] \in SlotType /\ slot[r].pc = "checking"
        /\ slot[r].limit # Unread /\ slot[r].seen # Unread
    BY DEF Decide, Inv, TypeInv, TypeOK
  <2>2. PICK pc \in {"quota", "calling"} :
          slot' = [slot EXCEPT ![r] =
              [slot[r] EXCEPT !.pc = pc, !.limit = Unread, !.seen = Unread]]
    BY <1>4 DEF Decide
  <2>3. /\ slot'[r].pc = pc /\ slot'[r].month = slot[r].month
        /\ \A q \in Slots \ {r} : slot'[q] = slot[q]
    BY <2>1, <2>2 DEF Inv, TypeInv, TypeOK, SlotType
  <2>4. (\A q \in Slots : slot[q].pc = "checking" => Covers(slot[q].limit))'
    BY <1>1, <2>3 DEF Inv, OvershootInv, Covers
  <2>10. (\A q \in Slots : slot[q].month <= month)' /\ \A m : UNCHANGED Late(m)
    BY <1>1, <2>1, <2>3 DEF Inv, OvershootInv, Late
  <2>5. /\ slot[r].seen \in Nat
        /\ slot[r].limit \in Nat \cup {Unlimited}
        /\ peak \in Nat \cup {Unlimited}
        /\ Covers(slot[r].limit)
    BY <2>1 DEF Inv, OvershootInv, TypeInv, TypeOK, SlotType
  <2>6. peak # Unlimited => slot[r].seen < peak
    BY <1>4, <2>5 DEF WithinLimit, Covers
  <2>7. peak # 0
    BY <2>5, <2>6, LimitAssumption
  <2>8. ASSUME NEW t \in Nat \ {0}, peak # Unlimited, peak <= t
        PROVE  OvershootAt(t)'
    <3>1. slot[r].seen < t
      BY <2>5, <2>6, <2>8
    <3>2. r \in Pending(t)
      BY <2>1, <3>1 DEF Pending
    <3>3. Pending(t)' \subseteq Pending(t)
      BY <1>1, <2>3, <3>2 DEF Pending
    <3>4. OvershootAt(t)
      BY <2>8 DEF Inv, OvershootInv
    <3>5. QED
      BY <1>1, <3>3, <3>4, OvershootShrinks DEF Inv, TypeInv, TypeOK
  <2>9. QED
    BY <1>1, <1>2, <2>4, <2>7, <2>8, <2>10 DEF Inv, OvershootInv, Covers
<1>5. QED
  BY <1>3, <1>4

\* A request that is counted is pending no more: if it counts for the month it
\* is, the sum stays the same; if for one that is over, it was late there.
LEMMA MeterPreserves ==
  ASSUME Inv, TypeInv', NEW r \in Slots, Meter(r)
  PROVE  OvershootInv(Nat \ {0})'
<1> DEFINE counted == slot[r].month
<1>1. /\ slot[r] \in SlotType /\ slot[r].pc = "metering"
      /\ month \in 0..Months /\ usage \in [0..Months -> Nat]
      /\ counted \in 0..Months /\ counted <= month
      /\ usage' = [usage EXCEPT ![counted] = usage[counted] + 1]
      /\ UNCHANGED <<month, sub, ownerPlan, row, peak>>
  BY DEF Inv, OvershootInv, TypeInv, TypeOK, SlotType, Meter
<1>2. /\ slot'[r].pc = "legacy" /\ slot'[r].month = counted
      /\ \A q \in Slots \ {r} : slot'[q] = slot[q]
  BY <1>1 DEF Meter, Inv, TypeInv, TypeOK, SlotType
<1> HIDE DEF counted
<1>3. UNCHANGED LimitInForce
  BY <1>1 DEF LimitInForce
<1>4. /\ (\A q \in Slots : slot[q].pc = "checking" => Covers(slot[q].limit))'
      /\ (\A q \in Slots : slot[q].month <= month)'
  BY <1>1, <1>2 DEF Inv, OvershootInv, Covers
<1>5. \A m \in 0..Months : m # counted => usage'[m] = usage[m]
  BY <1>1
<1>6. peak # 0
  BY <1>1 DEF Inv, OvershootInv, Inflight, Admitted
<1>7. ASSUME NEW t \in Nat \ {0}, OvershootAt(t)
      PROVE  OvershootAt(t)'
  <2>1. r \in Pending(t)
    BY <1>1 DEF Pending, Admitted
  <2>2. Pending(t)' = Pending(t) \ {r}
    BY <1>1, <1>2 DEF Pending, Admitted
  <2>3. Cardinality(Pending(t)') = Cardinality(Pending(t)) - 1
    <3>1. IsFiniteSet(Pending(t)) /\ Cardinality(Pending(t)) \in Nat
      BY PendingCard
    <3>2. Cardinality(Pending(t) \ {r}) = Cardinality(Pending(t)) - 1
      BY <2>1, <3>1, FS_RemoveElement
    <3> QED BY <2>2, <3>2
  <2>4. usage'[month'] \in Nat /\ usage'[month'] <= usage[month] + 1
    BY <1>1
  <2>5. QED
    BY <1>1, <1>7, <2>3, <2>4, PendingCard, SlotsCard DEF OvershootAt
<1>8. (\A m \in 0..Months : m > month => usage[m] = 0)'
  BY <1>1, <1>5 DEF Inv, OvershootInv
<1>9. (peak # Unlimited => \A m \in 0..Months :
          m < month => usage[m] + Cardinality(Late(m)) <= peak - 1 + Cardinality(Slots))'
  <2>1. SUFFICES ASSUME peak # Unlimited, NEW m \in 0..Months, m < month
                 PROVE  usage'[m] + Cardinality(Late(m)') <= peak - 1 + Cardinality(Slots)
    BY <1>1
  <2>2. /\ usage[m] + Cardinality(Late(m)) <= peak - 1 + Cardinality(Slots)
        /\ peak \in Nat /\ usage[m] \in Nat
    BY <2>1 DEF Inv, OvershootInv, TypeInv, TypeOK
  <2>3. CASE m # counted
    <3>1. Late(m)' = Late(m)
      BY <1>1, <1>2, <2>3 DEF Late, counted
    <3>2. QED
      BY <1>5, <2>2, <2>3, <3>1
  <2>4. CASE m = counted
    <3>1. r \in Late(m) /\ Late(m)' = Late(m) \ {r}
      BY <1>1, <1>2, <2>4 DEF Late, counted
    <3>2. Cardinality(Late(m)') = Cardinality(Late(m)) - 1
      BY <3>1, LateCard, FS_RemoveElement
    <3>3. usage'[m] = usage[m] + 1
      BY <1>1, <2>4
    <3>4. QED
      BY <2>2, <3>2, <3>3, LateCard, SlotsCard
  <2>5. QED
    BY <2>3, <2>4
<1>10. QED
  BY <1>1, <1>3, <1>4, <1>6, <1>7, <1>8, <1>9 DEF Inv, OvershootInv, Covers

\* A request that arrives is not pending before it has read the counter.
LEMMA ArrivePreserves ==
  ASSUME Inv, TypeInv', NEW r \in Slots, NEW f \in Flows, Arrive(r, f)
  PROVE  OvershootInv(Nat \ {0})'
<1>1. /\ slot[r].pc = "idle"
      /\ UNCHANGED <<month, sub, ownerPlan, row, usage, tokenCount, peak>>
      /\ month \in 0..Months
  BY DEF Arrive, Inv, TypeInv, TypeOK
<1>2. /\ slot'[r].pc = "checking" /\ slot'[r].month = month
      /\ slot'[r].limit = Unread /\ slot'[r].seen = Unread
      /\ \A q \in Slots \ {r} : slot'[q] = slot[q]
  BY DEF Arrive, Inv, TypeInv, TypeOK, IdleSlot
<1>3. UNCHANGED LimitInForce
  BY <1>1 DEF LimitInForce
<1>4. Covers(Unread)'
  BY <1>1, LimitAssumption DEF Covers, Unread, Inv, TypeInv, TypeOK
<1>9. (\A q \in Slots : slot[q].month <= month)' /\ \A m : UNCHANGED Late(m)
  BY <1>1, <1>2 DEF Inv, OvershootInv, Late
<1>5. (\A q \in Slots : slot[q].pc = "checking" => Covers(slot[q].limit))'
  <2>1. SUFFICES ASSUME NEW q \in Slots, slot'[q].pc = "checking"
                 PROVE  Covers(slot[q].limit)'
    OBVIOUS
  <2>2. CASE q = r
    BY <1>1, <1>2, <1>4, <2>2 DEF Covers
  <2>3. CASE q # r
    BY <1>1, <1>2, <2>1, <2>3 DEF Inv, OvershootInv, Covers
  <2>4. QED
    BY <2>2, <2>3
<1>6. Inflight' \subseteq Inflight
  BY <1>1, <1>2 DEF Inflight, Admitted
<1>7. ASSUME NEW t \in Nat \ {0}, OvershootAt(t)
      PROVE  OvershootAt(t)'
  <2>1. Pending(t)' \subseteq Pending(t)
    BY <1>1, <1>2 DEF Pending, Admitted
  <2>2. QED
    BY <1>1, <1>7, <2>1, OvershootShrinks DEF Inv
<1>8. QED
  BY <1>1, <1>3, <1>5, <1>6, <1>7, <1>9 DEF Inv, OvershootInv, Covers

\* A month that begins has no usage and at most all the slots pending.
LEMMA NextMonthPreserves ==
  ASSUME Inv, TypeInv', NextMonth
  PROVE  OvershootInv(Nat \ {0})'
<1>1. /\ month \in 0..Months /\ month' = month + 1 /\ month' \in 0..Months
      /\ usage \in [0..Months -> Nat]
      /\ UNCHANGED <<sub, ownerPlan, row, usage, tokenCount, slot, peak>>
      /\ peak \in Nat \cup {Unlimited}
  BY DEF NextMonth, Inv, TypeInv, TypeOK
<1>2. UNCHANGED LimitInForce /\ UNCHANGED Inflight
  BY <1>1 DEF LimitInForce, Inflight
<1>3. /\ (\A r \in Slots : slot[r].pc = "checking" => Covers(slot[r].limit))'
      /\ (\A r \in Slots : slot[r].month <= month)'
      /\ \A m : UNCHANGED Late(m)
  BY <1>1 DEF Late, Inv, OvershootInv, Covers, TypeInv, TypeOK, SlotType
<1>4. usage'[month'] = 0
  BY <1>1 DEF Inv, OvershootInv
<1>5. ASSUME NEW t \in Nat \ {0} PROVE OvershootAt(t)'
  BY <1>4, PendingCardNext, SlotsCard DEF OvershootAt
<1>6. ASSUME peak # Unlimited, NEW m \in 0..Months, m < month'
      PROVE  usage[m] + Cardinality(Late(m)) <= peak - 1 + Cardinality(Slots)
  <2>1. CASE m < month
    BY <1>6, <2>1 DEF Inv, OvershootInv
  <2>2. CASE m = month /\ peak = 0
    <3>1. Late(m) = {}
      BY <2>2 DEF Late, Inv, OvershootInv, Inflight, Admitted
    <3>2. Cardinality(Late(m)) = 0
      BY <3>1, FS_EmptySet
    <3>3. QED
      BY <1>1, <2>2, <3>2, SlotsCard DEF Inv, OvershootInv
  <2>3. CASE m = month /\ peak # 0
    <3>1. OvershootAt(peak)
      BY <1>1, <1>6, <2>3 DEF Inv, OvershootInv
    <3>2. Late(m) \subseteq Pending(peak)
      BY DEF Late, Pending, Admitted
    <3>3. Cardinality(Late(m)) <= Cardinality(Pending(peak))
      BY <3>2, PendingCard, FS_Subset
    <3>4. QED
      BY <1>1, <1>6, <2>3, <3>1, <3>3, LateCard, PendingCard, SlotsCard DEF OvershootAt
  <2>4. QED
    BY <1>1, <1>6, <2>1, <2>2, <2>3
<1>7. (\A m \in 0..Months : m > month => usage[m] = 0)'
  BY <1>1 DEF Inv, OvershootInv
<1>8. QED
  BY <1>1, <1>2, <1>3, <1>5, <1>6, <1>7 DEF Inv, OvershootInv, Covers

LEMMA InvInit == Init => Inv
<1> SUFFICES ASSUME Init PROVE Inv
  OBVIOUS
<1>1. TypeInv
  BY TypeInit
<1>2. Covers(LimitInForce)
  BY LimitInForceType, <1>1, LimitAssumption DEF Init, Covers, TypeInv
<1>3. Inflight = {}
  BY DEF Init, Inflight, Admitted, IdleSlot
<1>4. \A t : Pending(t) = {}
  BY DEF Init, Pending, Admitted, IdleSlot
<1>5. ASSUME NEW t \in Nat \ {0} PROVE OvershootAt(t)
  <2>1. Cardinality(Pending(t)) = 0
    BY <1>4, FS_EmptySet
  <2>2. usage[month] = 0
    BY BoundAssumption DEF Init
  <2>3. QED
    BY <2>1, <2>2, SlotsCard DEF OvershootAt
<1>6. QED
  BY <1>1, <1>2, <1>3, <1>5, BoundAssumption
     DEF Init, Inv, OvershootInv, IdleSlot

LEMMA InvNext == Inv /\ [Next]_vars => Inv'
<1> SUFFICES ASSUME Inv, [Next]_vars PROVE Inv'
  OBVIOUS
<1>0. TypeInv'
  BY TypeNext DEF Inv
<1>1. ASSUME NEW r \in Slots, Serve(r) PROVE OvershootInv(Nat \ {0})'
  BY <1>0, <1>1, ReadLimitPreserves, ReadUsagePreserves, DecidePreserves,
     MeterPreserves, SettlingActions DEF Serve
<1>2. ASSUME NEW r \in Slots, NEW f \in Flows, Arrive(r, f)
      PROVE  OvershootInv(Nat \ {0})'
  BY <1>0, <1>2, ArrivePreserves
<1>3. CASE NextMonth
  BY <1>0, <1>3, NextMonthPreserves DEF Inv
<1>4. UNCHANGED slot => SlotsSettle
  BY DEF SlotsSettle
<1>5. ASSUME NEW s \in Plans \cup {"lapsed"}, ChangeSubscription(s)
      PROVE  OvershootInv(Nat \ {0})'
  BY <1>0, <1>4, <1>5, SettlePreserves DEF ChangeSubscription
<1>6. CASE SyncTier
  BY <1>0, <1>4, <1>6, SettlePreserves DEF SyncTier, Inv
<1>7. CASE ResetQuota
  <2>1. row'.tier = row.tier
    BY <1>7 DEF ResetQuota, Inv, TypeInv, TypeOK
  <2>2. UNCHANGED LimitInForce
    BY <1>7, <2>1 DEF ResetQuota, LimitInForce, ResolvedPlan
  <2>3. QED
    BY <1>0, <1>4, <1>7, <2>2, SettlePreserves DEF ResetQuota, Inv
<1>8. CASE Crash
  <2>1. SlotsSettle
    BY <1>8 DEF Crash, SlotsSettle, IdleSlot, Admitted
  <2>2. UNCHANGED LimitInForce
    BY <1>8 DEF Crash, LimitInForce
  <2>3. QED
    BY <1>0, <1>8, <2>1, <2>2, SettlePreserves DEF Crash, Inv
<1>9. CASE UNCHANGED vars
  BY <1>0, <1>4, <1>9, SettlePreserves DEF vars, LimitInForce, Inv
<1>10. QED
  BY <1>0, <1>1, <1>2, <1>3, <1>5, <1>6, <1>7, <1>8, <1>9 DEF Next, Inv

\* The invariant gives the bound of every month: the current one by the
\* counting argument at the threshold peak, past ones because it held when
\* they ended, later ones because they are unused.
LEMMA InvOvershootBound == Inv => OvershootBound
<1> SUFFICES ASSUME Inv, peak # Unlimited, NEW m \in 0..Months
             PROVE  usage[m] <= IF peak = 0 THEN 0 ELSE peak - 1 + Cardinality(Slots)
  BY DEF OvershootBound
<1>1. /\ peak \in Nat /\ month \in 0..Months
      /\ usage[m] \in Nat /\ usage[month] \in Nat
  BY DEF Inv, TypeInv, TypeOK
<1>2. CASE peak = 0
  BY <1>2 DEF Inv, OvershootInv
<1>3. CASE peak # 0 /\ m < month
  BY <1>1, <1>3, LateCard, SlotsCard DEF Inv, OvershootInv
<1>4. CASE peak # 0 /\ m > month
  BY <1>1, <1>4, SlotsCard DEF Inv, OvershootInv
<1>5. CASE peak # 0 /\ m = month
  <2>1. OvershootAt(peak)
    BY <1>1, <1>5 DEF Inv, OvershootInv
  <2>2. QED
    BY <1>1, <1>5, <2>1, PendingCard, SlotsCard DEF OvershootAt
<1>6. QED
  BY <1>1, <1>2, <1>3, <1>4, <1>5, BoundAssumption

\* N concurrent requests overshoot a monthly limit of L >= 1 by N - 1 at most,
\* and a limit of 0 never, for all N, L, numbers of months and plan changes.
THEOREM OvershootBounded == Spec => []OvershootBound
<1>1. Spec => []Inv
  BY InvInit, InvNext, PTL DEF Spec
<1>2. QED
  BY <1>1, InvOvershootBound, PTL

-----------------------------------------------------------------------------
(* Metering once *)

\* How often a request has been counted, by the step it is at.
MeteredSlot(s) ==
    /\ s.pc \in {"checking", "quota", "calling", "logging", "metering", "failing"}
          => s.meters = 0
    /\ s.pc \in {"legacy", "saving"} => s.meters = 1
    /\ s.pc = "saving" => s.flow = "chat"
    /\ s.pc # "idle" => s.out = "none"
    /\ s.meters <= 1
    /\ s.out = "answered" => s.meters = 1
    /\ s.out \in {"blocked", "quotaExceeded"} => s.meters = 0
    /\ s.out = "error" /\ s.meters = 1 => s.flow = "chat"

MeteredInv == \A r \in Slots : MeteredSlot(slot[r])

\* A request ends answered only after it was counted, and refused only before.
LEMMA FinishMeters ==
  ASSUME TypeInv, MeteredInv, NEW r \in Slots, NEW outcome \in Outcomes, Finish(r, outcome),
         outcome = "answered" => slot[r].meters = 1,
         outcome \in {"blocked", "quotaExceeded"} => slot[r].meters = 0,
         outcome = "error" => slot[r].meters = 0 \/ slot[r].flow = "chat"
  PROVE  MeteredInv'
<1>1. slot[r] \in SlotType
  BY DEF TypeInv, TypeOK
<1>2. /\ slot'[r].pc = "idle" /\ slot'[r].out = outcome
      /\ slot'[r].meters = slot[r].meters /\ slot'[r].flow = slot[r].flow
      /\ \A q \in Slots \ {r} : slot'[q] = slot[q]
  BY <1>1 DEF Finish, IdleSlot, TypeInv, TypeOK
<1>3. MeteredSlot(slot'[r])
  BY <1>1, <1>2 DEF MeteredInv, MeteredSlot, SlotType
<1>4. QED
  BY <1>2, <1>3 DEF MeteredInv

\* A step of a request that is not counted yet to another such step.
LEMMA GotoMeters ==
  ASSUME TypeInv, MeteredInv, NEW r \in Slots, slot[r].pc # "idle",
         slot[r].meters = 0,
         slot'[r].pc \in {"quota", "calling", "logging", "metering", "failing"},
         slot'[r].meters = 0, slot'[r].out = slot[r].out,
         \A q \in Slots \ {r} : slot'[q] = slot[q]
  PROVE  MeteredInv'
BY DEF MeteredInv, MeteredSlot

LEMMA AfterErrorMeters ==
  ASSUME TypeInv, MeteredInv, NEW r \in Slots, NEW left, AfterError(r, left),
         slot[r].pc # "idle", slot[r].meters = 0
  PROVE  MeteredInv'
<1>1. CASE slot[r].flow = "chat"
  BY <1>1, FinishMeters DEF AfterError, Outcomes
<1>2. CASE slot[r].flow # "chat"
  <2>1. slot[r] \in SlotType
    BY DEF TypeInv, TypeOK
  <2>2. /\ slot'[r].pc \in {"calling", "failing"} /\ slot'[r].meters = slot[r].meters
        /\ slot'[r].out = slot[r].out
        /\ \A q \in Slots \ {r} : slot'[q] = slot[q]
    BY <1>2, <2>1 DEF AfterError, TypeInv, TypeOK, SlotType
  <2>3. QED
    BY <2>2, GotoMeters
<1>3. QED
  BY <1>1, <1>2

LEMMA MeteredServe ==
  ASSUME TypeInv, MeteredInv, NEW r \in Slots, Serve(r)
  PROVE  MeteredInv'
<1>0. slot[r] \in SlotType /\ MeteredSlot(slot[r]) /\ slot \in [Slots -> SlotType]
  BY DEF TypeInv, TypeOK, MeteredInv
<1>1. CASE ReadLimit(r)
  BY <1>0, <1>1 DEF ReadLimit, MeteredInv, MeteredSlot, SlotType
<1>2. CASE ReadUsage(r)
  BY <1>0, <1>2 DEF ReadUsage, MeteredInv, MeteredSlot, SlotType
<1>3. CASE Decide(r)
  <2>1. slot[r].meters = 0 /\ slot[r].pc = "checking"
    BY <1>0, <1>3 DEF Decide, MeteredSlot
  <2>2. CASE WithinLimit(slot[r].limit, slot[r].seen)
    <3>1. PICK pc \in {"quota", "calling"} :
            slot' = [slot EXCEPT ![r] =
                [slot[r] EXCEPT !.pc = pc, !.limit = Unread, !.seen = Unread]]
      BY <1>3, <2>2 DEF Decide
    <3>2. /\ slot'[r].pc = pc /\ slot'[r].meters = 0
          /\ slot'[r].out = slot[r].out
          /\ \A q \in Slots \ {r} : slot'[q] = slot[q]
      BY <1>0, <2>1, <3>1 DEF SlotType
    <3>3. QED
      BY <2>1, <3>2, GotoMeters
  <2>3. CASE ~WithinLimit(slot[r].limit, slot[r].seen)
    BY <1>3, <2>1, <2>3, FinishMeters DEF Decide, Outcomes
  <2>4. QED
    BY <2>2, <2>3
<1>4. CASE EnsureQuota(r)
  <2>1. slot[r].meters = 0 /\ slot[r].pc = "quota"
    BY <1>0, <1>4 DEF EnsureQuota, MeteredSlot
  <2>2. CASE Finish(r, "quotaExceeded")
    BY <2>1, <2>2, FinishMeters DEF Outcomes
  <2>3. CASE Goto(r, "calling")
    <3>1. /\ slot'[r].pc = "calling" /\ slot'[r].meters = 0
          /\ slot'[r].out = slot[r].out
          /\ \A q \in Slots \ {r} : slot'[q] = slot[q]
      BY <1>0, <2>1, <2>3 DEF Goto, SlotType
    <3>2. QED
      BY <2>1, <3>1, GotoMeters
  <2>4. QED
    BY <1>4, <2>2, <2>3 DEF EnsureQuota
<1>5. CASE CallAnswers(r)
  <2>1. slot[r].meters = 0 /\ slot[r].pc = "calling"
    BY <1>0, <1>5 DEF CallAnswers, MeteredSlot
  <2>2. /\ slot'[r].pc = "logging" /\ slot'[r].meters = 0
        /\ slot'[r].out = slot[r].out
        /\ \A q \in Slots \ {r} : slot'[q] = slot[q]
    BY <1>0, <1>5, <2>1 DEF CallAnswers, SlotType
  <2>3. QED
    BY <2>1, <2>2, GotoMeters
<1>6. CASE CallFails(r)
  BY <1>0, <1>6, AfterErrorMeters DEF CallFails, MeteredSlot
<1>7. CASE CallThrottled(r)
  BY <1>0, <1>7, FinishMeters DEF CallThrottled, MeteredSlot, Outcomes
<1>8. CASE WriteLog(r)
  <2>1. slot[r].meters = 0 /\ slot[r].pc = "logging"
    BY <1>0, <1>8 DEF WriteLog, MeteredSlot
  <2>2. CASE slot' = [slot EXCEPT ![r] = [slot[r] EXCEPT !.pc = "metering", !.month = month]]
    <3>1. /\ slot'[r].pc = "metering" /\ slot'[r].meters = 0
          /\ slot'[r].out = slot[r].out
          /\ \A q \in Slots \ {r} : slot'[q] = slot[q]
      BY <1>0, <2>1, <2>2 DEF SlotType
    <3>2. QED
      BY <2>1, <3>1, GotoMeters
  <2>3. CASE AfterError(r, slot[r].left)
    BY <2>1, <2>3, AfterErrorMeters
  <2>4. QED
    BY <1>8, <2>2, <2>3 DEF WriteLog
<1>9. CASE Meter(r)
  <2>1. slot[r].meters = 0 /\ slot[r].out = "none"
    BY <1>0, <1>9 DEF Meter, MeteredSlot
  <2>2. /\ slot'[r].pc = "legacy" /\ slot'[r].meters = 0 + 1
        /\ slot'[r].out = "none"
        /\ \A q \in Slots \ {r} : slot'[q] = slot[q]
    BY <1>0, <1>9, <2>1 DEF Meter, SlotType
  <2>3. QED
    BY <2>2 DEF MeteredInv, MeteredSlot
<1>10. CASE MeterFails(r)
  BY <1>0, <1>10, AfterErrorMeters DEF MeterFails, MeteredSlot
<1>11. CASE MeterLegacy(r)
  <2>1. slot[r].meters = 1 /\ slot[r].out = "none"
    BY <1>0, <1>11 DEF MeterLegacy, MeteredSlot
  <2>2. CASE slot[r].flow = "chat"
    <3>1. /\ slot'[r].pc = "saving" /\ slot'[r].meters = 1
          /\ slot'[r].out = "none" /\ slot'[r].flow = "chat"
          /\ \A q \in Slots \ {r} : slot'[q] = slot[q]
      BY <1>0, <1>11, <2>1, <2>2 DEF MeterLegacy, Goto, SlotType
    <3>2. QED
      BY <3>1 DEF MeteredInv, MeteredSlot
  <2>3. CASE slot[r].flow # "chat"
    BY <1>11, <2>1, <2>3, FinishMeters DEF MeterLegacy, Outcomes
  <2>4. QED
    BY <2>2, <2>3
<1>12. CASE SaveChat(r)
  BY <1>0, <1>12, FinishMeters DEF SaveChat, MeteredSlot, Outcomes
<1>13. CASE LogFailed(r)
  BY <1>0, <1>13, FinishMeters DEF LogFailed, MeteredSlot, Outcomes
<1>14. QED
  BY <1>1, <1>2, <1>3, <1>4, <1>5, <1>6, <1>7, <1>8, <1>9, <1>10, <1>11,
     <1>12, <1>13 DEF Serve

\* A caller that gets an answer has been counted exactly once, and one that is
\* turned away never, for every number of requests, providers and failures.
THEOREM AnsweredIsMeteredOnce == Spec => []AnsweredMeteredOnce
<1>1. Init => MeteredInv
  BY DEF Init, MeteredInv, MeteredSlot, IdleSlot
<1>2. TypeInv /\ MeteredInv /\ [Next]_vars => MeteredInv'
  <2> SUFFICES ASSUME TypeInv, MeteredInv, [Next]_vars PROVE MeteredInv'
    OBVIOUS
  <2>1. ASSUME NEW r \in Slots, Serve(r) PROVE MeteredInv'
    BY <2>1, MeteredServe
  <2>2. ASSUME NEW r \in Slots, NEW f \in Flows, Arrive(r, f) PROVE MeteredInv'
    <3>1. /\ slot'[r].pc = "checking" /\ slot'[r].meters = 0 /\ slot'[r].out = "none"
          /\ \A q \in Slots \ {r} : slot'[q] = slot[q]
      BY <2>2 DEF Arrive, IdleSlot, TypeInv, TypeOK
    <3>2. QED
      BY <3>1 DEF MeteredInv, MeteredSlot
  <2>3. UNCHANGED slot => MeteredInv'
    BY DEF MeteredInv
  <2>4. CASE Crash
    BY <2>4 DEF Crash, MeteredInv, MeteredSlot, IdleSlot
  <2>5. QED
    BY <2>1, <2>2, <2>3, <2>4
       DEF Next, vars, NextMonth, ChangeSubscription, SyncTier, ResetQuota
<1>3. MeteredInv => AnsweredMeteredOnce
  BY DEF MeteredInv, MeteredSlot, AnsweredMeteredOnce
<1>4. QED
  BY <1>1, <1>2, <1>3, TypeInit, TypeNext, PTL DEF Spec

-----------------------------------------------------------------------------
(* The plan of a company *)

EntitlementTypes == EntitlementsTypeOK /\ home \in Shops

\* What a call has read of the subscriptions, if none was written since.
Lone(c) ==
    /\ work[c].at \in {"user", "latest", "grant", "reuse", "write"} =>
         \A k \in Shops : k = work[c].shop => LiveRows(k) = {}
    /\ work[c].at \in {"plan", "tier"} =>
         /\ subs[work[c].row].shop = work[c].shop
         /\ subs[work[c].row].status = "active" =>
              subs[work[c].row].plan = work[c].plan /\ ~subs[work[c].row].over
         /\ subs[work[c].row].status # "active" => work[c].plan = "COMMON"
         /\ work[c].source # "none" =>
              \A k \in Shops : k = work[c].shop => LiveRows(k) \subseteq {work[c].row}

CallFits(c) ==
    /\ work[c].at \notin {"idle", "cancel"} => work[c].shop \in Shops
    /\ work[c].at \in {"latest", "grant", "reuse", "write", "plan", "tier"} =>
         work[c].target \in Shops /\ work[c].plan \in PlanKeys
    /\ work[c].at \in {"grant", "reuse", "write"} => work[c].source \in {"admin", "legacy"}
    /\ work[c].at \in {"plan", "tier", "cancel"} => work[c].row \in DOMAIN subs
    /\ work[c].at = "write" => work[c].row = 0 \/ work[c].row \in DOMAIN subs
    /\ work[c].alone => Lone(c)

\* A company whose tier nothing has disturbed has a tier only if it has subscriptions,
\* and the one they give it.
Even(shop) ==
    /\ Rows(shop) = {} => quotaTier[shop] = NoQuotaRow
    /\ Rows(shop) # {} /\ quotaTier[shop] # NoQuotaRow => quotaTier[shop] = ResolvePlan(shop)

EntitlementInv ==
    /\ EntitlementTypes
    /\ \A c \in Calls : CallFits(c)
    /\ \A shop \in Shops \ uneven : Even(shop)
    /\ GuardAgreesWithGates

\* The newest row of all is looked at, and it is the one that counts.
LEMMA NewestCounts ==
    ASSUME NEW some, NEW i \in some, some \subseteq Nat, \A j \in some : j <= i
    PROVE  Newest(some) = i
<1>1. \A k \in some : (\A j \in some : j <= k) => k = i
  BY DEF Newest
<1> QED BY <1>1 DEF Newest

LEMMA OnlyCounts ==
    ASSUME NEW i \in Nat PROVE Newest({i}) = i
<1>1. i \in {i} /\ {i} \subseteq Nat /\ \A j \in {i} : j <= i
  OBVIOUS
<1> QED BY <1>1, NewestCounts

LEMMA SomeIsNewest ==
    ASSUME NEW n \in Nat, NEW some \in SUBSET (1..n), some # {}
    PROVE  Newest(some) \in some /\ \A j \in some : j <= Newest(some)
<1> DEFINE above == {u \in Nat : \A j \in some : j <= u}
<1>1. n \in above /\ above \subseteq Nat
  OBVIOUS
<1>2. PICK u \in above : \A v \in above : u <= v
  <2>1. PICK u \in above : \A v \in above : ~(v < u)
    BY <1>1, NatIsWellFounded
  <2>2. \A v \in above : u <= v
    BY <1>1, <2>1
  <2> QED BY <2>2
<1>3. u \in some
  <2>1. SUFFICES ASSUME u \notin some PROVE FALSE
    OBVIOUS
  <2>2. u > 0
    <3>1. PICK j : j \in some
      OBVIOUS
    <3>2. j \in 1..n
      BY <3>1
    <3> QED BY <1>2, <3>1, <3>2
  <2>3. u - 1 \in above
    BY <1>2, <2>1, <2>2
  <2> QED BY <1>2, <2>2, <2>3
<1> QED BY <1>2, <1>3 DEF Newest

LEMMA RowsAreNumbers ==
    ASSUME subs \in Seq(SubRow), NEW k
    PROVE  /\ Rows(k) \subseteq DOMAIN subs /\ DOMAIN subs \subseteq Nat
           /\ Active(Rows(k)) \subseteq Rows(k) /\ LiveRows(k) \subseteq Active(Rows(k))
  BY DEF Rows, Active, LiveRows, Running, LookedAt

LEMMA LastIsLookedAt ==
    ASSUME NEW some, NEW i \in Active(some), some \subseteq Nat, \A j \in Active(some) : j <= i
    PROVE  i \in LookedAt(some)
<1>1. {j \in Active(some) : j > i} = {}
  <2>1. Active(some) \subseteq Nat
    BY DEF Active
  <2> QED BY <2>1
<1>2. Cardinality({j \in Active(some) : j > i}) = 0
  BY <1>1, FS_EmptySet
<1> QED BY <1>2, EntitlementsAssumption DEF LookedAt

\* The same active subscriptions give the same plan.
LEMMA LiveStay ==
    ASSUME subs \in Seq(SubRow), NEW k, Active(Rows(k))' = Active(Rows(k)),
           \A i \in Active(Rows(k)) : subs'[i] = subs[i]
    PROVE  /\ LiveRows(k)' = LiveRows(k)
           /\ Rows(k) # {} /\ Rows(k)' # {} => ResolvePlan(k)' = ResolvePlan(k)
<1> DEFINE A == Active(Rows(k))
           seen(S) == {i \in S : Cardinality({j \in S : j > i}) < Taken}
<1>1. LookedAt(Rows(k)) = seen(A) /\ LookedAt(Rows(k))' = seen(A')
  BY DEF LookedAt
<1>2. LookedAt(Rows(k))' = LookedAt(Rows(k)) /\ LookedAt(Rows(k)) \subseteq A
  BY <1>1
<1> HIDE DEF A, seen
<1>3. LiveRows(k)' = {i \in LookedAt(Rows(k))' : ~subs'[i].over}
  BY DEF LiveRows, Running
<1>4. LiveRows(k) = {i \in LookedAt(Rows(k)) : ~subs[i].over}
  BY DEF LiveRows, Running
<1>5. \A i \in LookedAt(Rows(k)) : subs'[i] = subs[i]
  BY <1>2 DEF A
<1>6. LiveRows(k)' = LiveRows(k) /\ LiveRows(k) \subseteq LookedAt(Rows(k))
  BY <1>2, <1>3, <1>4, <1>5
<1>7. ASSUME Rows(k) # {}, Rows(k)' # {} PROVE ResolvePlan(k)' = ResolvePlan(k)
  <2> DEFINE n == Newest(LiveRows(k))
  <2>1. ResolvePlan(k) = IF LiveRows(k) # {} THEN subs[n].plan ELSE "COMMON"
    BY <1>7 DEF ResolvePlan
  <2>2. ResolvePlan(k)' = IF LiveRows(k)' # {} THEN subs'[Newest(LiveRows(k)')].plan ELSE "COMMON"
    BY <1>7 DEF ResolvePlan, Newest
  <2>3. ResolvePlan(k)' = IF LiveRows(k) # {} THEN subs'[n].plan ELSE "COMMON"
    BY <1>6, <2>2
  <2>4. CASE LiveRows(k) = {}
    BY <2>1, <2>3, <2>4
  <2>5. CASE LiveRows(k) # {}
    <3>1. LiveRows(k) \subseteq 1..Len(subs) /\ Len(subs) \in Nat
      <4>1. DOMAIN subs = 1..Len(subs) /\ Len(subs) \in Nat
        OBVIOUS
      <4> QED BY <4>1, RowsAreNumbers
    <3>2. n \in LiveRows(k)
      BY <2>5, <3>1, SomeIsNewest
    <3>3. subs'[n] = subs[n]
      BY <1>5, <1>6, <3>2
    <3> QED BY <2>1, <2>3, <3>3
  <2> QED BY <2>4, <2>5
<1> QED BY <1>6, <1>7

\* One subscription is made active at a company that had none that counts.
LEMMA OneMayLive ==
    ASSUME subs \in Seq(SubRow), subs' \in Seq(SubRow), NEW shop, NEW r \in DOMAIN subs',
           DOMAIN subs \subseteq DOMAIN subs',
           \A i \in DOMAIN subs' \ {r} : i \in DOMAIN subs /\ subs'[i] = subs[i],
           subs'[r].shop = shop, subs'[r].status = "active", LiveRows(shop) = {}
    PROVE  LiveRows(shop)' \subseteq {r}
<1> DEFINE A == Active(Rows(shop))
           B == Active(Rows(shop))'
<1>1. A = {i \in DOMAIN subs : subs[i].shop = shop /\ subs[i].status = "active"}
  BY DEF Active, Rows
<1>2. B = {i \in DOMAIN subs' : subs'[i].shop = shop /\ subs'[i].status = "active"}
  BY DEF Active, Rows
<1>3. r \in B /\ (\A i \in B \ {r} : i \in A /\ subs'[i] = subs[i]) /\ \A i \in A : i \in B
  BY <1>1, <1>2
<1>4. /\ LookedAt(Rows(shop)) = {i \in A : Cardinality({j \in A : j > i}) < Taken}
      /\ LookedAt(Rows(shop))' = {i \in B : Cardinality({j \in B : j > i}) < Taken}
  BY DEF LookedAt
<1>5. /\ LiveRows(shop) = {i \in LookedAt(Rows(shop)) : ~subs[i].over}
      /\ LiveRows(shop)' = {i \in LookedAt(Rows(shop))' : ~subs'[i].over}
  BY DEF LiveRows, Running
<1>6. B \subseteq 1..Len(subs') /\ Len(subs') \in Nat
  BY <1>2
<1> HIDE DEF A, B
<1>7. SUFFICES ASSUME NEW i \in LiveRows(shop)', i # r PROVE FALSE
  OBVIOUS
<1>8. i \in B /\ i \in A /\ subs'[i] = subs[i] /\ ~subs[i].over
  BY <1>3, <1>4, <1>5, <1>7
<1>9. Cardinality({j \in A : j > i}) < Taken
  <2> DEFINE a == {j \in A : j > i}
             b == {j \in B : j > i}
  <2>1. a \subseteq b
    BY <1>3
  <2>2. IsFiniteSet(b)
    <3>1. IsFiniteSet(1..Len(subs'))
      BY <1>6, FS_Interval
    <3>2. b \subseteq 1..Len(subs')
      BY <1>6
    <3> HIDE DEF b
    <3> QED BY <3>1, <3>2, FS_Subset
  <2>3. Cardinality(a) \in Nat /\ Cardinality(b) \in Nat /\ Cardinality(a) <= Cardinality(b)
    BY <2>1, <2>2, FS_Subset, FS_CardinalityType
  <2>4. Cardinality(b) < Taken
    BY <1>4, <1>5, <1>7
  <2> HIDE DEF a, b
  <2>5. Cardinality(a) < Taken
    BY <2>3, <2>4, EntitlementsAssumption
  <2> QED BY <2>5 DEF a
<1> QED BY <1>4, <1>5, <1>8, <1>9

\* The only active subscription of a company.
LEMMA OnlyActive ==
    ASSUME subs \in Seq(SubRow), NEW k, NEW i \in DOMAIN subs, subs[i].shop = k,
           Active(Rows(k)) \subseteq {i}, NEW plan,
           subs[i].status = "active" => subs[i].plan = plan /\ ~subs[i].over,
           subs[i].status # "active" => plan = "COMMON"
    PROVE  Rows(k) # {} /\ ResolvePlan(k) = plan
<1>1. i \in Rows(k) /\ i \in Nat
  BY DEF Rows
<1>2. CASE subs[i].status = "active"
  <2>1. Active(Rows(k)) = {i}
    BY <1>1, <1>2 DEF Active
  <2>2. i \in LookedAt(Rows(k))
    BY <1>1, <2>1, LastIsLookedAt, RowsAreNumbers
  <2>3. LiveRows(k) = {i}
    BY <1>2, <2>1, <2>2 DEF LiveRows, Running, LookedAt
  <2>4. Newest(LiveRows(k)) = i
    BY <1>1, <2>3, OnlyCounts
  <2> QED BY <1>1, <1>2, <2>3, <2>4 DEF ResolvePlan
<1>3. CASE subs[i].status # "active"
  <2>1. LiveRows(k) = {}
    BY <1>3, RowsAreNumbers DEF Active
  <2> QED BY <1>1, <1>3, <2>1 DEF ResolvePlan
<1> QED BY <1>2, <1>3

-----------------------------------------------------------------------------
(* Steps that write no subscription *)

\* A call that is not touched, and nor are the subscriptions.
LEMMA CallStays ==
    ASSUME EntitlementInv, NEW c \in Calls, work'[c] = work[c], UNCHANGED subs
    PROVE  CallFits(c)'
<1>1. subs \in Seq(SubRow) /\ CallFits(c)
  BY DEF EntitlementInv, EntitlementTypes, EntitlementsTypeOK
<1>2. \A k : Rows(k)' = Rows(k)
  BY DEF Rows
<1>3. \A k : Active(Rows(k))' = Active(Rows(k))
  BY <1>2 DEF Active
<1>4. \A k : LiveRows(k)' = LiveRows(k)
  BY <1>1, <1>3, LiveStay
<1>5. work[c].alone => Lone(c)'
  BY <1>1, <1>4 DEF CallFits, Lone
<1> QED BY <1>1, <1>5 DEF CallFits

LEMMA PlansStay ==
    ASSUME EntitlementInv, UNCHANGED subs
    PROVE  \A k : /\ Rows(k)' = Rows(k) /\ LiveRows(k)' = LiveRows(k)
                  /\ Active(Rows(k))' = Active(Rows(k))
                  /\ Rows(k) # {} => ResolvePlan(k)' = ResolvePlan(k)
<1>1. subs \in Seq(SubRow)
  BY DEF EntitlementInv, EntitlementTypes, EntitlementsTypeOK
<1>2. \A k : Rows(k)' = Rows(k)
  BY DEF Rows
<1>3. \A k : Active(Rows(k))' = Active(Rows(k))
  BY <1>2 DEF Active
<1> QED BY <1>1, <1>2, <1>3, LiveStay

\* A call goes on to its next read or write.
LEMMA CallProceeds ==
    ASSUME EntitlementInv, NEW c \in Calls, NEW call \in Work, Proceed(c, call),
           CallFits(c)', UNCHANGED <<subs, quotaTier, uneven>>, userPlan' \in PlanKeys,
           home' \in Shops, GuardAgreesWithGates'
    PROVE  EntitlementInv'
<1>1. /\ work' \in [Calls -> Work] /\ work'[c] = call
      /\ \A d \in Calls \ {c} : work'[d] = work[d]
  BY DEF EntitlementInv, EntitlementTypes, EntitlementsTypeOK, Proceed
<1>2. \A d \in Calls : CallFits(d)'
  BY <1>1, CallStays
<1>3. EntitlementTypes'
  BY <1>1 DEF EntitlementInv, EntitlementTypes, EntitlementsTypeOK
<1>4. ASSUME NEW k \in Shops \ uneven PROVE Even(k)'
  <2>1. Even(k) /\ quotaTier'[k] = quotaTier[k]
    BY <1>4 DEF EntitlementInv
  <2> QED BY <2>1, PlansStay DEF Even
<1> QED BY <1>2, <1>3, <1>4 DEF EntitlementInv

LEMMA IdleFits == ASSUME NEW c, work'[c] = NoCall PROVE NoCall \in Work /\ CallFits(c)'
  BY DEF NoCall, Begun, Work, CallFits, Lone

LEMMA Silence == NotLetThrough => GuardAgreesWithGates'
<1> SUFFICES ASSUME NotLetThrough PROVE GuardAgreesWithGates'
  OBVIOUS
<1>1. served'.right
  BY DEF NotLetThrough, NotServed
<1> QED BY <1>1 DEF GuardAgreesWithGates

\* A guard that ran alone takes up a live subscription of the company only if the gates
\* go by its plan.
LEMMA GuardAnswers ==
    ASSUME NEW call, NEW i, NEW plan, LetThrough(call, i, plan),
           call.alone /\ i \in LiveRows(call.shop) => plan = ResolvePlan(call.shop)
    PROVE  GuardAgreesWithGates'
<1>1. /\ served'.right = (plan = ResolvePlan(call.shop)) /\ served'.alone = call.alone
      /\ served'.elsewhere = (i \notin LiveRows(call.shop))
  BY DEF LetThrough
<1> QED BY <1>1 DEF GuardAgreesWithGates

LEMMA GuardLooks ==
    ASSUME EntitlementInv, NEW c \in Calls, NEW shop \in Shops, Guard(c, shop)
    PROVE  EntitlementInv'
<1> DEFINE call == Begun("user", shop, 0, "none")
<1>0. call \in Work /\ call.at = "user" /\ call.shop = shop
  BY DEF Begun, Work
<1>1. /\ call.shop = shop /\ work[c] = NoCall /\ work \in [Calls -> Work]
      /\ userPlan \in PlanKeys /\ home \in Shops
      /\ UNCHANGED <<subs, quotaTier, userPlan, admin, grace, home, uneven>>
  <2>1. call.shop = shop
    BY <1>0
  <2> HIDE DEF call
  <2> QED BY <2>1 DEF Guard, EntitlementInv, EntitlementTypes, EntitlementsTypeOK
<1>2. CASE LiveRows(shop) # {}
  <2>1. /\ LetThrough(call, Newest(LiveRows(shop)), subs[Newest(LiveRows(shop))].plan)
        /\ UNCHANGED work
    BY <1>2 DEF Guard
  <2>2. subs[Newest(LiveRows(shop))].plan = ResolvePlan(shop)
    BY <1>2 DEF ResolvePlan
  <2> HIDE DEF call
  <2>3. GuardAgreesWithGates'
    BY <1>1, <2>1, <2>2, GuardAnswers
  <2>4. Proceed(c, NoCall) /\ CallFits(c)' /\ NoCall \in Work
    BY <1>1, <2>1, IdleFits DEF Proceed
  <2> QED BY <1>1, <2>3, <2>4, CallProceeds
<1>3. CASE LiveRows(shop) = {}
  <2>1. Proceed(c, call) /\ NotLetThrough
    BY <1>3 DEF Guard
  <2>2. call \in Work /\ work'[c] = call
    <3> HIDE DEF call
    <3> QED BY <1>0, <1>1, <2>1 DEF Proceed
  <2>3. LiveRows(shop)' = {}
    BY <1>1, <1>3, PlansStay
  <2>4. call.at = "user" /\ call.shop = shop
    BY <1>0
  <2> HIDE DEF call
  <2>5. CallFits(c)'
    BY <1>1, <2>2, <2>3, <2>4 DEF CallFits, Lone
  <2> QED BY <1>1, <2>1, <2>2, <2>5, Silence, CallProceeds
<1> QED BY <1>2, <1>3

LEMMA OwnerIsRead ==
    ASSUME EntitlementInv, NEW c \in Calls, ReadOwner(c)
    PROVE  EntitlementInv'
<1> DEFINE call == work[c]
           next == IF admin /\ call.shop = home
                   THEN [call EXCEPT !.at = "grant", !.plan = "PRO_BUSINESS",
                                     !.source = "admin", !.target = home]
                   ELSE [call EXCEPT !.at = "latest", !.plan = userPlan, !.target = home]
<1>1. /\ call \in Work /\ call.at = "user" /\ Proceed(c, next) /\ NotLetThrough
      /\ work \in [Calls -> Work] /\ userPlan \in PlanKeys /\ home \in Shops /\ CallFits(c)
      /\ UNCHANGED <<subs, quotaTier, userPlan, admin, grace, home, uneven>>
  BY DEF ReadOwner, EntitlementInv, EntitlementTypes, EntitlementsTypeOK
<1>2. /\ next \in Work /\ next.at \in {"grant", "latest"} /\ next.shop = call.shop
      /\ next.at = "grant" => next.source = "admin"
      /\ next.plan \in PlanKeys /\ next.target \in Shops /\ next.alone = call.alone
  BY <1>1 DEF Work, PlanKeys
<1>3. work'[c] = next
  BY <1>1 DEF Proceed
<1>4. call.shop \in Shops /\ (call.alone => \A k \in Shops : k = call.shop => LiveRows(k)' = {})
  BY <1>1, PlansStay DEF CallFits, Lone
<1> HIDE DEF next, call
<1>5. CallFits(c)'
  BY <1>2, <1>3, <1>4 DEF CallFits, Lone
<1> QED BY <1>1, <1>2, <1>5, Silence, CallProceeds

LEMMA LatestIsRead ==
    ASSUME EntitlementInv, NEW c \in Calls, ReadLatest(c)
    PROVE  EntitlementInv'
<1> DEFINE call == work[c]
           i == Newest(Rows(call.shop))
           next == IF grace /\ call.plan # "COMMON"
                   THEN [call EXCEPT !.at = "grant", !.source = "legacy"] ELSE NoCall
<1>1. /\ call \in Work /\ call.at = "latest" /\ CallFits(c)
      /\ work \in [Calls -> Work] /\ userPlan \in PlanKeys /\ home \in Shops
      /\ UNCHANGED <<subs, quotaTier, userPlan, admin, grace, home, uneven>>
  BY DEF ReadLatest, EntitlementInv, EntitlementTypes, EntitlementsTypeOK
<1>2. call.shop \in Shops /\ (call.alone => LiveRows(call.shop) = {})
  BY <1>1 DEF CallFits, Lone
<1>3. CASE Proceed(c, NoCall) /\ (NotLetThrough \/ LetThrough(call, i, subs[i].plan))
  <2>1. GuardAgreesWithGates'
    BY <1>2, <1>3, Silence, GuardAnswers
  <2>2. CallFits(c)' /\ NoCall \in Work
    BY <1>1, <1>3, IdleFits DEF Proceed
  <2> QED BY <1>1, <1>3, <2>1, <2>2, CallProceeds
<1>4. CASE Proceed(c, next) /\ NotLetThrough /\ next # NoCall
  <2>1. next = [call EXCEPT !.at = "grant", !.source = "legacy"]
    BY <1>4
  <2>2. /\ next \in Work /\ next.at = "grant" /\ next.shop = call.shop /\ next.source = "legacy"
        /\ next.plan = call.plan /\ next.target = call.target /\ next.alone = call.alone
    BY <1>1, <2>1 DEF Work
  <2>3. work'[c] = next
    BY <1>1, <1>4 DEF Proceed
  <2>4. call.alone => \A k \in Shops : k = call.shop => LiveRows(k)' = {}
    BY <1>1, PlansStay DEF CallFits, Lone
  <2>5. call.plan \in PlanKeys /\ call.target \in Shops
    BY <1>1 DEF CallFits
  <2> HIDE DEF next, call
  <2>6. CallFits(c)'
    BY <1>2, <2>2, <2>3, <2>4, <2>5 DEF CallFits, Lone
  <2> QED BY <1>1, <1>4, <2>2, <2>6, Silence, CallProceeds
<1>5. \/ Proceed(c, NoCall) /\ (NotLetThrough \/ LetThrough(call, i, subs[i].plan))
      \/ Proceed(c, next) /\ NotLetThrough
  BY DEF ReadLatest
<1> HIDE DEF next, i
<1> QED BY <1>3, <1>4, <1>5

LEMMA GrantIsSought ==
    ASSUME EntitlementInv, NEW c \in Calls, FindGrant(c) \/ FindReusable(c)
    PROVE  EntitlementInv'
<1> DEFINE call == work[c]
<1>1. /\ call \in Work /\ call.at \in {"grant", "reuse"} /\ CallFits(c)
      /\ work \in [Calls -> Work] /\ userPlan \in PlanKeys /\ home \in Shops
      /\ subs \in Seq(SubRow) /\ subs' = subs
      /\ UNCHANGED <<subs, quotaTier, userPlan, admin, grace, home, uneven>>
  BY DEF FindGrant, FindReusable, EntitlementInv, EntitlementTypes, EntitlementsTypeOK
<1>2. /\ call.shop \in Shops /\ call.plan \in PlanKeys /\ call.target \in Shops
      /\ call.source \in {"admin", "legacy"} /\ (call.alone => LiveRows(call.shop) = {})
      /\ call.alone => \A k \in Shops : k = call.shop => LiveRows(k)' = {}
  BY <1>1, PlansStay DEF CallFits, Lone
<1>3. ASSUME NEW i, LetThrough(call, i, subs[i].plan), Proceed(c, NoCall)
      PROVE  EntitlementInv'
  <2>1. GuardAgreesWithGates'
    BY <1>2, <1>3, GuardAnswers
  <2>2. CallFits(c)' /\ NoCall \in Work
    BY <1>1, <1>3, IdleFits DEF Proceed
  <2> QED BY <1>1, <1>3, <2>1, <2>2, CallProceeds
<1>4. ASSUME NEW next \in Work, Proceed(c, next), NotLetThrough,
             next.at = "reuse" \/ (next.at = "write" /\ (next.row = 0 \/ next.row \in DOMAIN subs)),
             next.shop = call.shop, next.plan = call.plan, next.target = call.target,
             next.source = call.source, next.alone = call.alone
      PROVE  EntitlementInv'
  <2>1. work'[c] = next
    BY <1>1, <1>4 DEF Proceed
  <2>2. CallFits(c)'
    BY <1>1, <1>2, <1>4, <2>1 DEF CallFits, Lone
  <2> QED BY <1>1, <1>4, <2>2, Silence, CallProceeds
<1>5. CASE FindGrant(c)
  <2>1. \/ \E i : LetThrough(call, i, subs[i].plan) /\ Proceed(c, NoCall)
        \/ Proceed(c, [call EXCEPT !.at = "reuse"]) /\ NotLetThrough
    BY <1>5 DEF FindGrant
  <2> DEFINE next == [call EXCEPT !.at = "reuse"]
  <2>2. /\ next \in Work /\ next.at = "reuse" /\ next.shop = call.shop /\ next.plan = call.plan
        /\ next.target = call.target /\ next.source = call.source /\ next.alone = call.alone
    BY <1>1 DEF Work
  <2> HIDE DEF next
  <2>3. \/ \E i : LetThrough(call, i, subs[i].plan) /\ Proceed(c, NoCall)
        \/ Proceed(c, next) /\ NotLetThrough
    BY <2>1 DEF next
  <2> HIDE DEF call
  <2> QED BY <1>3, <1>4, <2>2, <2>3
<1>6. CASE FindReusable(c)
  <2> DEFINE old == Grants(call.source)
             held == IF old = {} THEN 0 ELSE Newest(old)
             next == [call EXCEPT !.at = "write", !.row = held]
  <2>1. held = 0 \/ held \in DOMAIN subs
    <3>1. old \subseteq 1..Len(subs) /\ old \subseteq DOMAIN subs /\ Len(subs) \in Nat
      BY <1>1 DEF Grants
    <3>2. old # {} => Newest(old) \in old
      BY <3>1, SomeIsNewest
    <3> QED BY <3>1, <3>2
  <2>2. held \in Nat
    BY <1>1, <2>1
  <2>3. Proceed(c, next) /\ NotLetThrough
    BY <1>6 DEF FindReusable
  <2> HIDE DEF held
  <2>4. /\ next \in Work /\ next.at = "write" /\ next.shop = call.shop /\ next.plan = call.plan
        /\ next.target = call.target /\ next.source = call.source /\ next.alone = call.alone
        /\ next.row = held
    BY <1>1, <2>2 DEF Work
  <2> HIDE DEF next, call
  <2> QED BY <1>4, <2>1, <2>3, <2>4
<1> QED BY <1>5, <1>6

\* A call stops, or has written the owner.
LEMMA GuardGoesOn ==
    ASSUME EntitlementInv, NEW c \in Calls, BreakOff(c) \/ Cancel(c) \/ WriteOwner(c)
    PROVE  EntitlementInv'
<1>1. /\ work[c] \in Work /\ CallFits(c) /\ work \in [Calls -> Work] /\ userPlan \in PlanKeys
      /\ home \in Shops /\ subs \in Seq(SubRow)
      /\ UNCHANGED <<subs, quotaTier, admin, grace, home, uneven>> /\ NotLetThrough
  BY DEF BreakOff, Cancel, WriteOwner, EntitlementInv, EntitlementTypes, EntitlementsTypeOK
<1>2. CASE BreakOff(c)
  <2>1. Proceed(c, NoCall) /\ userPlan' = userPlan /\ CallFits(c)' /\ NoCall \in Work
    BY <1>1, <1>2, IdleFits DEF BreakOff, Proceed
  <2> QED BY <1>1, <2>1, Silence, CallProceeds
<1>3. CASE Cancel(c)
  <2> DEFINE i == Newest(Active(DOMAIN subs))
             next == Begun("cancel", "none", i, "none")
  <2>1. Active(DOMAIN subs) # {} /\ Proceed(c, next) /\ userPlan' = userPlan
    BY <1>3 DEF Cancel
  <2>2. i \in DOMAIN subs /\ i \in Nat
    <3>1. DOMAIN subs = 1..Len(subs) /\ Len(subs) \in Nat
      BY <1>1
    <3>2. Active(DOMAIN subs) \subseteq 1..Len(subs)
      BY <3>1 DEF Active
    <3>3. i \in Active(DOMAIN subs)
      BY <2>1, <3>1, <3>2, SomeIsNewest
    <3> QED BY <3>1, <3>2, <3>3
  <2> HIDE DEF i
  <2>4. /\ next \in Work /\ next.at = "cancel" /\ next.row = i
    BY <2>2 DEF Begun, Work
  <2> HIDE DEF next
  <2>5. work'[c] = next
    BY <1>1, <2>1 DEF Proceed
  <2>6. CallFits(c)'
    BY <1>1, <2>2, <2>4, <2>5 DEF CallFits, Lone
  <2> QED BY <1>1, <2>1, <2>4, <2>6, Silence, CallProceeds
<1>4. CASE WriteOwner(c)
  <2> DEFINE call == work[c]
             next == [call EXCEPT !.at = "tier"]
  <2>1. call.at = "plan" /\ userPlan' = call.plan /\ Proceed(c, next) /\ call.plan \in PlanKeys
    BY <1>1, <1>4 DEF WriteOwner, CallFits
  <2>2. /\ next \in Work /\ next.at = "tier" /\ next.shop = call.shop /\ next.plan = call.plan
        /\ next.target = call.target /\ next.source = call.source /\ next.alone = call.alone
        /\ next.row = call.row
    BY <1>1 DEF Work
  <2>3. work'[c] = next
    BY <1>1, <2>1 DEF Proceed
  <2>4. \A k \in Shops : LiveRows(k)' = LiveRows(k)
    BY <1>1, PlansStay
  <2>5. /\ call.shop \in Shops /\ call.target \in Shops /\ call.row \in DOMAIN subs
        /\ call.alone => Lone(c)
    BY <1>1, <2>1 DEF CallFits
  <2> HIDE DEF next
  <2>6. call.alone => Lone(c)'
    BY <1>1, <2>1, <2>2, <2>3, <2>4, <2>5 DEF Lone
  <2>7. CallFits(c)'
    BY <1>1, <2>1, <2>2, <2>3, <2>5, <2>6 DEF CallFits
  <2> QED BY <1>1, <2>1, <2>2, <2>7, Silence, CallProceeds
<1> QED BY <1>2, <1>3, <1>4

\* The tier is written: by the call that ran alone about the only active subscription,
\* as the subscriptions say.
LEMMA TierIsWritten ==
    ASSUME EntitlementInv, NEW c \in Calls, WriteTier(c)
    PROVE  EntitlementInv'
<1> DEFINE call == work[c]
           k == call.target
           undisturbed == /\ call.alone /\ call.shop = k
                          /\ Active(Rows(k)) \subseteq {call.row}
<1>1. /\ call \in Work /\ call.at = "tier" /\ CallFits(c) /\ work \in [Calls -> Work]
      /\ userPlan \in PlanKeys /\ home \in Shops /\ subs \in Seq(SubRow)
      /\ quotaTier' = [quotaTier EXCEPT ![k] = call.plan]
      /\ quotaTier \in [Shops -> PlanKeys \cup {NoQuotaRow}] /\ uneven \subseteq Shops
      /\ uneven' = IF undisturbed THEN uneven \ {k} ELSE uneven \cup {k}
      /\ Proceed(c, NoCall) /\ UNCHANGED <<subs, userPlan, admin, grace, home>>
      /\ (call.source = "none" /\ NotLetThrough) \/ LetThrough(call, call.row, call.plan)
  <2>1. IF call.source = "none" THEN NotLetThrough ELSE LetThrough(call, call.row, call.plan)
    BY DEF WriteTier, NotLetThrough
  <2>2. (call.source = "none" /\ NotLetThrough) \/ LetThrough(call, call.row, call.plan)
    BY <2>1
  <2> QED BY <2>2 DEF WriteTier, EntitlementInv, EntitlementTypes, EntitlementsTypeOK
<1>2. k \in Shops /\ call.plan \in PlanKeys /\ call.shop \in Shops /\ call.row \in DOMAIN subs
  BY <1>1 DEF CallFits
<1>3. call.alone =>
        /\ subs[call.row].shop = call.shop
        /\ subs[call.row].status = "active" =>
             subs[call.row].plan = call.plan /\ ~subs[call.row].over
        /\ subs[call.row].status # "active" => call.plan = "COMMON"
        /\ call.source # "none" => LiveRows(call.shop) \subseteq {call.row}
  BY <1>1, <1>2 DEF CallFits, Lone
<1>4. /\ work' = [work EXCEPT ![c] = NoCall] /\ work' \in [Calls -> Work]
      /\ \A d \in Calls : CallFits(d)'
  <2>1. NoCall \in Work /\ CallFits(c)'
    BY <1>1, IdleFits DEF Proceed
  <2>2. /\ work' \in [Calls -> Work] /\ work' = [work EXCEPT ![c] = NoCall]
        /\ \A d \in Calls \ {c} : work'[d] = work[d]
    BY <1>1, <2>1 DEF Proceed
  <2> QED BY <1>1, <2>1, <2>2, CallStays
<1>5. \A x : /\ Rows(x)' = Rows(x)
             /\ Rows(x) # {} => ResolvePlan(x)' = ResolvePlan(x)
  BY <1>1, PlansStay
<1>6. undisturbed => Rows(k) # {} /\ ResolvePlan(k) = call.plan
  BY <1>1, <1>2, <1>3, OnlyActive
<1>7. /\ quotaTier' \in [Shops -> PlanKeys \cup {NoQuotaRow}] /\ quotaTier'[k] = call.plan
      /\ \A x \in Shops \ {k} : quotaTier'[x] = quotaTier[x]
  BY <1>1, <1>2
<1>8. ASSUME NEW x \in Shops \ uneven' PROVE Even(x)'
  <2>1. CASE x # k
    <3>1. x \notin uneven
      BY <1>1, <1>8, <2>1
    <3>2. Even(x) /\ quotaTier'[x] = quotaTier[x]
      BY <1>7, <2>1, <3>1 DEF EntitlementInv
    <3> QED BY <1>5, <3>2 DEF Even
  <2>2. CASE x = k
    <3>1. undisturbed
      BY <1>1, <1>2, <1>8, <2>2
    <3>2. Rows(x)' # {} /\ ResolvePlan(x)' = call.plan /\ quotaTier'[x] = call.plan
      BY <1>5, <1>6, <1>7, <2>2, <3>1
    <3> QED BY <3>2 DEF Even
  <2> QED BY <2>1, <2>2
<1>9. GuardAgreesWithGates'
  <2>1. ASSUME call.source # "none", call.alone, call.row \in LiveRows(call.shop)
        PROVE  call.plan = ResolvePlan(call.shop)
    <3>1. LiveRows(call.shop) = {call.row} /\ call.row \in Nat
      BY <1>1, <1>2, <1>3, <2>1
    <3>2. Newest(LiveRows(call.shop)) = call.row
      BY <3>1, OnlyCounts
    <3>3. subs[call.row].status = "active"
      BY <2>1, <1>1, RowsAreNumbers DEF Active
    <3> QED BY <1>3, <2>1, <3>1, <3>2, <3>3 DEF ResolvePlan
  <2>2. CASE call.source = "none"
    <3>1. NotLetThrough
      BY <2>2 DEF WriteTier, NotLetThrough
    <3> QED BY <3>1, Silence
  <2>3. CASE call.source # "none"
    BY <1>1, <2>1, <2>3, GuardAnswers
  <2> QED BY <2>2, <2>3
<1>10. EntitlementTypes'
  <2>1. uneven' \subseteq Shops
    BY <1>1, <1>2
  <2> HIDE DEF undisturbed
  <2> QED BY <1>1, <1>4, <1>7, <2>1 DEF EntitlementTypes, EntitlementsTypeOK
<1> QED BY <1>4, <1>8, <1>9, <1>10 DEF EntitlementInv

-----------------------------------------------------------------------------
(* Steps that write a subscription *)

\* A row is added at the end.
LEMMA RowAdded ==
    ASSUME NEW s \in Seq(SubRow), NEW added \in SubRow
    PROVE  LET t == Append(s, added)
           IN  /\ t \in Seq(SubRow) /\ DOMAIN t = DOMAIN s \cup {Len(s) + 1}
               /\ Len(s) + 1 \notin DOMAIN s /\ Len(s) + 1 \in Nat /\ DOMAIN s \subseteq Nat
               /\ \A i \in DOMAIN s : t[i] = s[i] /\ i <= Len(s)
               /\ t[Len(s) + 1] = added
  OBVIOUS

LEMMA RowWritten ==
    ASSUME NEW s \in Seq(SubRow), NEW i \in DOMAIN s, NEW added \in SubRow
    PROVE  LET t == [s EXCEPT ![i] = added]
           IN  /\ t \in Seq(SubRow) /\ DOMAIN t = DOMAIN s /\ t[i] = added
               /\ \A j \in DOMAIN s \ {i} : t[j] = s[j]
  OBVIOUS

\* Companies whose rows are not written keep their plan.
LEMMA OthersKeepPlan ==
    ASSUME EntitlementInv, NEW k \in Shops \ uneven, quotaTier' = quotaTier,
           \A i \in DOMAIN subs : i \in DOMAIN subs',
           \A i \in DOMAIN subs : subs[i].shop = k => subs'[i] = subs[i],
           \A i \in DOMAIN subs' : subs'[i].shop = k => i \in DOMAIN subs /\ subs[i].shop = k
    PROVE  Even(k)'
<1>1. subs \in Seq(SubRow) /\ Even(k)
  BY DEF EntitlementInv, EntitlementTypes, EntitlementsTypeOK
<1>2. Rows(k)' = Rows(k) /\ \A i \in Rows(k) : subs'[i] = subs[i]
  BY DEF Rows
<1>3. Active(Rows(k))' = Active(Rows(k)) /\ \A i \in Active(Rows(k)) : subs'[i] = subs[i]
  BY <1>2 DEF Active
<1>4. Rows(k) # {} /\ Rows(k)' # {} => ResolvePlan(k)' = ResolvePlan(k)
  BY <1>1, <1>3, LiveStay
<1> QED BY <1>1, <1>2, <1>4 DEF Even

\* The other calls no longer run alone.
LEMMA OthersAreStirred ==
    ASSUME EntitlementInv, NEW c \in Calls, NEW call \in Work, Stir(c, call),
           DOMAIN subs \subseteq DOMAIN subs'
    PROVE  /\ work' \in [Calls -> Work] /\ work'[c] = call
           /\ \A d \in Calls \ {c} : CallFits(d)'
<1>1. /\ work \in [Calls -> Work] /\ \A d \in Calls : CallFits(d)
      /\ work' = [d \in Calls |-> IF d = c THEN call
                                  ELSE IF work[d] = NoCall THEN NoCall
                                  ELSE [work[d] EXCEPT !.alone = FALSE]]
  BY DEF EntitlementInv, EntitlementTypes, EntitlementsTypeOK, Stir
<1>2. ASSUME NEW d \in Calls
      PROVE  /\ [work[d] EXCEPT !.alone = FALSE] \in Work
             /\ [work[d] EXCEPT !.alone = FALSE].at = work[d].at
             /\ [work[d] EXCEPT !.alone = FALSE].shop = work[d].shop
             /\ [work[d] EXCEPT !.alone = FALSE].plan = work[d].plan
             /\ [work[d] EXCEPT !.alone = FALSE].source = work[d].source
             /\ [work[d] EXCEPT !.alone = FALSE].row = work[d].row
             /\ [work[d] EXCEPT !.alone = FALSE].target = work[d].target
             /\ [work[d] EXCEPT !.alone = FALSE].alone = FALSE
  BY <1>1 DEF Work
<1>3. NoCall \in Work
  BY DEF NoCall, Begun, Work
<1>4. work' \in [Calls -> Work] /\ work'[c] = call
  BY <1>1, <1>2, <1>3
<1>5. ASSUME NEW d \in Calls \ {c} PROVE CallFits(d)'
  <2>1. CASE work[d] = NoCall
    <3>1. work'[d] = NoCall
      BY <1>1, <2>1
    <3> QED BY <3>1, IdleFits
  <2>2. CASE work[d] # NoCall
    <3> DEFINE w == [work[d] EXCEPT !.alone = FALSE]
    <3>1. work'[d] = w
      BY <1>1, <2>2
    <3>2. /\ w.at = work[d].at /\ w.shop = work[d].shop /\ w.plan = work[d].plan
          /\ w.source = work[d].source /\ w.row = work[d].row /\ w.target = work[d].target
          /\ w.alone = FALSE
      BY <1>2
    <3>3. CallFits(d)
      BY <1>1
    <3> HIDE DEF w
    <3> QED BY <3>1, <3>2, <3>3 DEF CallFits
  <2> QED BY <2>1, <2>2
<1> QED BY <1>4, <1>5

LEMMA CheckoutIsOpened ==
    ASSUME EntitlementInv, NEW shop \in Shops, NEW plan \in Sold, OpenCheckout(shop, plan)
    PROVE  EntitlementInv'
<1> DEFINE added == [shop |-> shop, plan |-> plan, status |-> "pending", over |-> FALSE,
                   source |-> "stripe"]
           n == Len(subs) + 1
<1>1. /\ subs \in Seq(SubRow) /\ subs' = Append(subs, added) /\ added \in SubRow
      /\ UNCHANGED <<quotaTier, userPlan, admin, grace, home, work, uneven>> /\ NotLetThrough
  BY EntitlementsAssumption DEF EntitlementInv, EntitlementTypes, EntitlementsTypeOK,
       OpenCheckout, SubRow
<1>2. /\ subs' \in Seq(SubRow) /\ DOMAIN subs' = DOMAIN subs \cup {n} /\ subs'[n] = added
      /\ \A i \in DOMAIN subs : subs'[i] = subs[i]
  BY <1>1, RowAdded
<1>3. added.shop = shop /\ added.status = "pending"
  OBVIOUS
<1> HIDE DEF added, n
<1>4. \A k : /\ Active(Rows(k))' = Active(Rows(k))
             /\ \A i \in Active(Rows(k)) : subs'[i] = subs[i]
             /\ Rows(k) # {} => Rows(k)' # {}
             /\ Rows(k)' # {} => Rows(k) # {} \/ k = shop
  BY <1>2, <1>3 DEF Active, Rows
<1>5. \A k : /\ LiveRows(k)' = LiveRows(k)
             /\ Rows(k) # {} => ResolvePlan(k)' = ResolvePlan(k)
  BY <1>1, <1>4, LiveStay
<1>6. ASSUME NEW k \in Shops \ uneven PROVE Even(k)'
  BY <1>1, <1>4, <1>5, <1>6 DEF Even, EntitlementInv
<1>7. ASSUME NEW c \in Calls PROVE CallFits(c)'
  <2>1. CallFits(c) /\ work'[c] = work[c]
    BY <1>1 DEF EntitlementInv
  <2>2. work[c].alone => Lone(c)'
    <3>1. work[c].alone => Lone(c)
      BY <2>1 DEF CallFits
    <3>2. work[c].at \in {"plan", "tier"} => subs'[work[c].row] = subs[work[c].row]
      BY <1>2, <2>1 DEF CallFits
    <3> QED BY <1>5, <2>1, <3>1, <3>2 DEF Lone
  <2> QED BY <1>2, <2>1, <2>2 DEF CallFits
<1>8. EntitlementTypes'
  BY <1>1, <1>2 DEF EntitlementInv, EntitlementTypes, EntitlementsTypeOK
<1> QED BY <1>1, <1>6, <1>7, <1>8, Silence DEF EntitlementInv

\* An event of Stripe's about one subscription, or a grant that is closed.
LEMMA EventArrives ==
    ASSUME EntitlementInv, NEW c \in Calls, NEW i \in DOMAIN subs,
           NEW status \in {"active", "blocked", "pending"}, NEW plan \in Sold,
           StripeEvent(c, i, status, plan)
    PROVE  EntitlementInv'
<1> DEFINE k == subs[i].shop
           added == [subs[i] EXCEPT !.status = status, !.plan = plan, !.over = FALSE]
           call == CASE status = "active" -> SyncOf(i, plan)
                     [] status = "blocked" -> SyncOf(i, "COMMON")
                     [] OTHER -> NoCall
<1>1. subs \in Seq(SubRow) /\ plan \in PlanKeys /\ home \in Shops /\ uneven \subseteq Shops
  BY EntitlementsAssumption DEF EntitlementInv, EntitlementTypes, EntitlementsTypeOK
<1>2. subs[i] \in SubRow /\ k \in Shops /\ i \in Nat /\ subs[i].status \in {"pending", "active", "blocked"}
  <2>1. subs[i] \in SubRow /\ i \in Nat
    BY <1>1
  <2> QED BY <2>1 DEF SubRow
<1>3. /\ added \in SubRow /\ added.shop = k /\ added.status = status /\ added.plan = plan
      /\ ~added.over
  BY <1>1, <1>2 DEF SubRow
<1>4. /\ subs' = [subs EXCEPT ![i] = added] /\ Stir(c, call) /\ NotLetThrough
      /\ uneven' = IF status = "pending" /\ subs[i].status # "active" THEN uneven
                   ELSE uneven \cup {k}
      /\ UNCHANGED <<quotaTier, userPlan, admin, grace, home>>
  BY DEF StripeEvent
<1> HIDE DEF added
<1>5. /\ subs' \in Seq(SubRow) /\ DOMAIN subs' = DOMAIN subs /\ subs'[i] = added
      /\ \A j \in DOMAIN subs \ {i} : subs'[j] = subs[j]
  BY <1>1, <1>3, <1>4, RowWritten
<1>6. ASSUME NEW p \in PlanKeys
      PROVE  /\ SyncOf(i, p) \in Work /\ SyncOf(i, p).at = "plan" /\ SyncOf(i, p).shop = k
             /\ SyncOf(i, p).target = k /\ SyncOf(i, p).plan = p /\ SyncOf(i, p).row = i
             /\ SyncOf(i, p).source = "none"
  BY <1>2 DEF SyncOf, Begun, Work
<1>7. call \in Work
  <2>1. "COMMON" \in PlanKeys /\ NoCall \in Work
    BY DEF PlanKeys, NoCall, Begun, Work
  <2> QED BY <1>1, <1>6, <2>1
<1> HIDE DEF call
<1>8. /\ work' \in [Calls -> Work] /\ work'[c] = call
      /\ \A d \in Calls \ {c} : CallFits(d)'
  BY <1>4, <1>5, <1>7, OthersAreStirred
<1>9. CallFits(c)'
  <2>1. CASE status = "pending"
    <3>1. call = NoCall
      BY <2>1 DEF call
    <3> QED BY <1>8, <3>1, IdleFits
  <2>2. CASE status # "pending"
    <3> DEFINE p == IF status = "active" THEN plan ELSE "COMMON"
    <3>1. call = SyncOf(i, p) /\ p \in PlanKeys
      BY <1>1, <2>2 DEF call, PlanKeys
    <3>2. p = plan \/ status # "active"
      OBVIOUS
    <3>3. status # "active" => p = "COMMON"
      OBVIOUS
    <3> HIDE DEF p
    <3>4. /\ call.at = "plan" /\ call.shop = k /\ call.target = k /\ call.plan = p
          /\ call.row = i /\ call.source = "none"
      BY <1>6, <3>1
    <3> QED BY <1>2, <1>3, <1>5, <1>8, <3>1, <3>2, <3>3, <3>4 DEF CallFits, Lone
  <2> QED BY <2>1, <2>2
<1>10. ASSUME NEW x \in Shops \ uneven' PROVE Even(x)'
  <2>1. x \in Shops \ uneven
    BY <1>4, <1>10
  <2>2. CASE x # k
    <3>1. \A j \in DOMAIN subs : subs[j].shop = x => subs'[j] = subs[j]
      BY <1>5, <2>2
    <3>2. \A j \in DOMAIN subs' : subs'[j].shop = x => j \in DOMAIN subs /\ subs[j].shop = x
      BY <1>3, <1>5, <2>2
    <3> QED BY <1>4, <1>5, <2>1, <3>1, <3>2, OthersKeepPlan
  <2>3. CASE x = k
    <3>1. status = "pending" /\ subs[i].status # "active"
      BY <1>2, <1>4, <1>10, <2>3
    <3>2. /\ Active(Rows(x))' = Active(Rows(x)) /\ Rows(x) # {} /\ Rows(x)' # {}
          /\ \A j \in Active(Rows(x)) : subs'[j] = subs[j]
      BY <1>3, <1>5, <2>3, <3>1 DEF Active, Rows
    <3>3. ResolvePlan(x)' = ResolvePlan(x)
      BY <1>1, <3>2, LiveStay
    <3> QED BY <1>4, <2>1, <3>2, <3>3 DEF Even, EntitlementInv
  <2> QED BY <2>2, <2>3
<1>11. EntitlementTypes'
  BY <1>1, <1>2, <1>4, <1>5, <1>8 DEF EntitlementInv, EntitlementTypes, EntitlementsTypeOK
<1> QED BY <1>4, <1>8, <1>9, <1>10, <1>11, Silence DEF EntitlementInv

LEMMA GrantIsClosed ==
    ASSUME EntitlementInv, NEW c \in Calls, CloseGrant(c)
    PROVE  EntitlementInv'
<1> DEFINE i == work[c].row
           k == subs[i].shop
           added == [subs[i] EXCEPT !.status = "blocked"]
           call == SyncOf(i, "COMMON")
<1>1. /\ subs \in Seq(SubRow) /\ home \in Shops /\ uneven \subseteq Shops /\ i \in DOMAIN subs
  <2>1. work[c].at = "cancel" /\ CallFits(c)
    BY DEF CloseGrant, EntitlementInv
  <2> QED BY <2>1 DEF CallFits, EntitlementInv, EntitlementTypes, EntitlementsTypeOK
<1>2. subs[i] \in SubRow /\ k \in Shops /\ i \in Nat
  <2>1. subs[i] \in SubRow /\ i \in Nat
    BY <1>1
  <2> QED BY <2>1 DEF SubRow
<1>3. added \in SubRow /\ added.shop = k /\ added.status = "blocked"
  BY <1>2 DEF SubRow
<1>4. /\ subs' = [subs EXCEPT ![i] = added] /\ Stir(c, call) /\ NotLetThrough
      /\ uneven' = uneven \cup {k}
      /\ UNCHANGED <<quotaTier, userPlan, admin, grace, home>>
  BY DEF CloseGrant
<1>5. /\ call \in Work /\ call.at = "plan" /\ call.shop = k /\ call.target = k
      /\ call.plan = "COMMON" /\ call.row = i /\ call.source = "none" /\ "COMMON" \in PlanKeys
  BY <1>2 DEF SyncOf, Begun, Work, PlanKeys
<1> HIDE DEF added, call
<1>6. /\ subs' \in Seq(SubRow) /\ DOMAIN subs' = DOMAIN subs /\ subs'[i] = added
      /\ \A j \in DOMAIN subs \ {i} : subs'[j] = subs[j]
  BY <1>1, <1>3, <1>4, RowWritten
<1>7. /\ work' \in [Calls -> Work] /\ work'[c] = call
      /\ \A d \in Calls \ {c} : CallFits(d)'
  BY <1>4, <1>5, <1>6, OthersAreStirred
<1>8. CallFits(c)'
  BY <1>1, <1>2, <1>3, <1>5, <1>6, <1>7 DEF CallFits, Lone
<1>9. ASSUME NEW x \in Shops \ uneven' PROVE Even(x)'
  <2>1. x \in Shops \ uneven /\ x # k
    BY <1>4, <1>9
  <2>2. \A j \in DOMAIN subs : subs[j].shop = x => subs'[j] = subs[j]
    BY <1>6, <2>1
  <2>3. \A j \in DOMAIN subs' : subs'[j].shop = x => j \in DOMAIN subs /\ subs[j].shop = x
    BY <1>3, <1>6, <2>1
  <2> QED BY <1>4, <1>6, <2>1, <2>2, <2>3, OthersKeepPlan
<1>10. EntitlementTypes'
  BY <1>1, <1>2, <1>4, <1>6, <1>7 DEF EntitlementInv, EntitlementTypes, EntitlementsTypeOK
<1> QED BY <1>4, <1>7, <1>8, <1>9, <1>10, Silence DEF EntitlementInv

\* A grant is made, or an old one moved to the company.
LEMMA GrantIsWritten ==
    ASSUME EntitlementInv, NEW c \in Calls, WriteGrant(c)
    PROVE  EntitlementInv'
<1> DEFINE call == work[c]
           added == [shop |-> call.shop, plan |-> call.plan, status |-> "active",
                     over |-> FALSE, source |-> call.source]
<1>1. /\ subs \in Seq(SubRow) /\ home \in Shops /\ uneven \subseteq Shops
      /\ call \in Work /\ call.at = "write" /\ CallFits(c)
      /\ NotLetThrough /\ UNCHANGED <<quotaTier, userPlan, admin, grace, home>>
  BY DEF WriteGrant, EntitlementInv, EntitlementTypes, EntitlementsTypeOK
<1>2. /\ call.shop \in Shops /\ call.plan \in PlanKeys /\ call.target \in Shops
      /\ call.source \in {"admin", "legacy"} /\ (call.row = 0 \/ call.row \in DOMAIN subs)
      /\ call.alone => LiveRows(call.shop) = {}
  BY <1>1 DEF CallFits, Lone
<1>3. /\ added \in SubRow /\ added.shop = call.shop /\ added.plan = call.plan
      /\ added.status = "active" /\ ~added.over
  BY <1>2 DEF SubRow
<1>4. ASSUME NEW r \in DOMAIN subs', r \in Nat, NEW next \in Work, Stir(c, next),
             subs' \in Seq(SubRow), DOMAIN subs' = DOMAIN subs \cup {r}, subs'[r] = added,
             \A j \in DOMAIN subs \ {r} : subs'[j] = subs[j],
             uneven \subseteq uneven', call.shop \in uneven', uneven' \subseteq Shops,
             r \in DOMAIN subs => subs[r].shop \in uneven',
             next.at = "plan", next.row = r, next.shop = call.shop, next.plan = call.plan,
             next.target = call.target, next.source = call.source, next.alone = call.alone
      PROVE  EntitlementInv'
  <2> HIDE DEF added
  <2>1. /\ work' \in [Calls -> Work] /\ work'[c] = next
        /\ \A d \in Calls \ {c} : CallFits(d)'
    BY <1>4, OthersAreStirred
  <2>0. PICK shop : shop = call.shop
    OBVIOUS
  <2>2. ASSUME call.alone PROVE LiveRows(shop)' \subseteq {r}
    <3>1. LiveRows(shop) = {} /\ subs'[r].shop = shop /\ subs'[r].status = "active"
      BY <1>2, <1>3, <1>4, <2>0, <2>2
    <3>2. \A j \in DOMAIN subs' \ {r} : j \in DOMAIN subs /\ subs'[j] = subs[j]
      BY <1>4
    <3> QED BY <1>1, <1>4, <3>1, <3>2, OneMayLive
  <2>3. CallFits(c)'
    BY <1>2, <1>3, <1>4, <2>0, <2>1, <2>2 DEF CallFits, Lone
  <2>4. ASSUME NEW x \in Shops \ uneven' PROVE Even(x)'
    <3>1. x \in Shops \ uneven /\ x # call.shop /\ (r \in DOMAIN subs => subs[r].shop # x)
      BY <1>4, <2>4
    <3>2. \A j \in DOMAIN subs : subs[j].shop = x => subs'[j] = subs[j]
      BY <1>4, <3>1
    <3>3. \A j \in DOMAIN subs' : subs'[j].shop = x => j \in DOMAIN subs /\ subs[j].shop = x
      BY <1>3, <1>4, <3>1
    <3> QED BY <1>1, <1>4, <3>1, <3>2, <3>3, OthersKeepPlan
  <2>5. EntitlementTypes'
    BY <1>1, <1>4, <2>1 DEF EntitlementInv, EntitlementTypes, EntitlementsTypeOK
  <2> QED BY <1>1, <2>1, <2>3, <2>4, <2>5, Silence DEF EntitlementInv
<1>5. \/ /\ subs' = Append(subs, added) /\ uneven' = uneven \cup {call.shop}
         /\ Stir(c, [call EXCEPT !.at = "plan", !.row = Len(subs) + 1])
      \/ /\ call.row # 0 /\ subs' = [subs EXCEPT ![call.row] = added]
         /\ uneven' = uneven \cup {call.shop, subs[call.row].shop}
         /\ Stir(c, [call EXCEPT !.at = "plan"])
  BY DEF WriteGrant
<1> HIDE DEF added
<1>6. CASE /\ subs' = Append(subs, added) /\ uneven' = uneven \cup {call.shop}
           /\ Stir(c, [call EXCEPT !.at = "plan", !.row = Len(subs) + 1])
  <2> DEFINE n == Len(subs) + 1
             next == [call EXCEPT !.at = "plan", !.row = n]
  <2>1. /\ subs' \in Seq(SubRow) /\ DOMAIN subs' = DOMAIN subs \cup {n} /\ subs'[n] = added
        /\ n \in Nat /\ n \notin DOMAIN subs /\ \A j \in DOMAIN subs : subs'[j] = subs[j]
    BY <1>1, <1>3, <1>6, RowAdded
  <2> HIDE DEF n
  <2>2. /\ next \in Work /\ next.at = "plan" /\ next.row = n /\ next.shop = call.shop
        /\ next.plan = call.plan /\ next.target = call.target /\ next.source = call.source
        /\ next.alone = call.alone
    BY <1>1, <2>1 DEF Work
  <2>3. Stir(c, next)
    BY <1>6 DEF n
  <2> HIDE DEF next, call
  <2>4. n \in DOMAIN subs' /\ uneven' \subseteq Shops /\ uneven \subseteq uneven' /\ call.shop \in uneven'
    BY <1>1, <1>2, <1>6, <2>1
  <2> QED BY <1>4, <2>1, <2>2, <2>3, <2>4
<1>7. CASE /\ call.row # 0 /\ subs' = [subs EXCEPT ![call.row] = added]
           /\ uneven' = uneven \cup {call.shop, subs[call.row].shop}
           /\ Stir(c, [call EXCEPT !.at = "plan"])
  <2> DEFINE r == call.row
             next == [call EXCEPT !.at = "plan"]
  <2>1. r \in DOMAIN subs /\ r \in Nat /\ subs[r].shop \in Shops
    <3>1. r \in DOMAIN subs
      BY <1>2, <1>7
    <3>2. subs[r] \in SubRow /\ r \in Nat
      BY <1>1, <3>1
    <3> QED BY <3>1, <3>2 DEF SubRow
  <2>2. /\ subs' \in Seq(SubRow) /\ DOMAIN subs' = DOMAIN subs /\ subs'[r] = added
        /\ \A j \in DOMAIN subs \ {r} : subs'[j] = subs[j]
    BY <1>1, <1>3, <1>7, <2>1, RowWritten
  <2>3. /\ next \in Work /\ next.at = "plan" /\ next.row = r /\ next.shop = call.shop
        /\ next.plan = call.plan /\ next.target = call.target /\ next.source = call.source
        /\ next.alone = call.alone
    BY <1>1 DEF Work
  <2>4. Stir(c, next)
    BY <1>7
  <2> HIDE DEF next
  <2>5. /\ uneven' \subseteq Shops /\ uneven \subseteq uneven' /\ call.shop \in uneven'
        /\ subs[r].shop \in uneven' /\ r \in DOMAIN subs' /\ DOMAIN subs' = DOMAIN subs \cup {r}
    BY <1>1, <1>2, <1>7, <2>1, <2>2
  <2> HIDE DEF r, call
  <2> QED BY <1>4, <2>1, <2>2, <2>3, <2>4, <2>5
<1> QED BY <1>5, <1>6, <1>7

\* A period ends: whoever is under way no longer runs alone.
LEMMA PeriodEnds ==
    ASSUME EntitlementInv, NEW i \in DOMAIN subs, PeriodPasses(i)
    PROVE  EntitlementInv'
<1> DEFINE k == subs[i].shop
           added == [subs[i] EXCEPT !.over = TRUE]
<1>1. subs \in Seq(SubRow) /\ home \in Shops /\ uneven \subseteq Shops /\ work \in [Calls -> Work]
  BY DEF EntitlementInv, EntitlementTypes, EntitlementsTypeOK
<1>2. subs[i] \in SubRow /\ k \in Shops
  <2>1. subs[i] \in SubRow
    BY <1>1
  <2> QED BY <2>1 DEF SubRow
<1>3. added \in SubRow /\ added.shop = k
  BY <1>2 DEF SubRow
<1>4. /\ subs' = [subs EXCEPT ![i] = added] /\ NotLetThrough /\ uneven' = uneven \cup {k}
      /\ work' = [d \in Calls |-> IF work[d] = NoCall THEN NoCall
                                  ELSE [work[d] EXCEPT !.alone = FALSE]]
      /\ UNCHANGED <<quotaTier, userPlan, admin, grace, home>>
  BY DEF PeriodPasses
<1> HIDE DEF added
<1>5. /\ subs' \in Seq(SubRow) /\ DOMAIN subs' = DOMAIN subs /\ subs'[i] = added
      /\ \A j \in DOMAIN subs \ {i} : subs'[j] = subs[j]
  BY <1>1, <1>3, <1>4, RowWritten
<1>6. ASSUME NEW c \in Calls PROVE work' \in [Calls -> Work] /\ CallFits(c)'
  <2> DEFINE call == IF work[c] = NoCall THEN NoCall ELSE [work[c] EXCEPT !.alone = FALSE]
  <2>1. Stir(c, call)
    BY <1>4 DEF Stir
  <2>2. call \in Work
    <3>1. NoCall \in Work
      BY DEF NoCall, Begun, Work
    <3>2. [work[c] EXCEPT !.alone = FALSE] \in Work
      BY <1>1 DEF Work
    <3> QED BY <3>1, <3>2
  <2> HIDE DEF call
  <2>3. work' \in [Calls -> Work] /\ work'[c] = call
    BY <1>5, <2>1, <2>2, OthersAreStirred
  <2>4. CASE work[c] = NoCall
    BY <2>3, <2>4, IdleFits DEF call
  <2>5. CASE work[c] # NoCall
    <3> DEFINE w == [work[c] EXCEPT !.alone = FALSE]
    <3>1. work'[c] = w
      BY <2>3, <2>5 DEF call
    <3>2. /\ w.at = work[c].at /\ w.shop = work[c].shop /\ w.plan = work[c].plan
          /\ w.source = work[c].source /\ w.row = work[c].row /\ w.target = work[c].target
          /\ w.alone = FALSE
      BY <1>1 DEF Work
    <3>3. CallFits(c)
      BY DEF EntitlementInv
    <3> HIDE DEF w
    <3> QED BY <1>5, <2>3, <3>1, <3>2, <3>3 DEF CallFits
  <2> QED BY <2>3, <2>4, <2>5
<1>7. ASSUME NEW x \in Shops \ uneven' PROVE Even(x)'
  <2>1. x \in Shops \ uneven /\ x # k
    BY <1>4, <1>7
  <2>2. \A j \in DOMAIN subs : subs[j].shop = x => subs'[j] = subs[j]
    BY <1>5, <2>1
  <2>3. \A j \in DOMAIN subs' : subs'[j].shop = x => j \in DOMAIN subs /\ subs[j].shop = x
    BY <1>3, <1>5, <2>1
  <2> QED BY <1>4, <1>5, <2>1, <2>2, <2>3, OthersKeepPlan
<1>8. work' \in [Calls -> Work]
  <2>1. \A c \in Calls : NoCall \in Work /\ [work[c] EXCEPT !.alone = FALSE] \in Work
    BY <1>1 DEF NoCall, Begun, Work
  <2> QED BY <1>4, <2>1
<1>9. EntitlementTypes'
  BY <1>1, <1>2, <1>4, <1>5, <1>8 DEF EntitlementInv, EntitlementTypes, EntitlementsTypeOK
<1> QED BY <1>4, <1>6, <1>7, <1>9, Silence DEF EntitlementInv

\* A tier is edited, the owner is linked to another company.
LEMMA TierIsDisturbed ==
    ASSUME EntitlementInv,
           \/ \E shop \in Shops, plan \in Sold : EditTier(shop, plan)
           \/ \E shop \in Shops : MoveHome(shop)
           \/ UNCHANGED entitlementVars
    PROVE  EntitlementInv'
<1>1. /\ UNCHANGED <<subs, userPlan, work>> /\ (NotLetThrough \/ served' = served)
      /\ home' \in Shops /\ uneven \subseteq uneven' /\ uneven' \subseteq Shops
      /\ quotaTier' \in [Shops -> PlanKeys \cup {NoQuotaRow}]
      /\ \A k \in Shops \ uneven' : quotaTier'[k] = quotaTier[k]
  BY EntitlementsAssumption DEF EditTier, MoveHome, entitlementVars, EntitlementInv,
       EntitlementTypes, EntitlementsTypeOK
<1>2. \A c \in Calls : CallFits(c)'
  BY <1>1, CallStays
<1>3. ASSUME NEW k \in Shops \ uneven' PROVE Even(k)'
  <2>1. Even(k) /\ quotaTier'[k] = quotaTier[k]
    BY <1>1, <1>3 DEF EntitlementInv
  <2> QED BY <1>1, <2>1, PlansStay DEF Even
<1>4. GuardAgreesWithGates'
  BY <1>1, Silence DEF EntitlementInv, GuardAgreesWithGates
<1>5. EntitlementTypes'
  BY <1>1 DEF EntitlementInv, EntitlementTypes, EntitlementsTypeOK
<1> QED BY <1>2, <1>3, <1>4, <1>5 DEF EntitlementInv

LEMMA EntitlementsBegin == EntitlementsInit => EntitlementInv
<1> SUFFICES ASSUME EntitlementsInit PROVE EntitlementInv
  OBVIOUS
<1>1. subs = <<>> /\ subs \in Seq(SubRow) /\ DOMAIN subs = {}
  BY DEF EntitlementsInit
<1>2. NoCall \in Work /\ \A c \in Calls : work[c] = NoCall /\ CallFits(c)
  <2>1. NoCall \in Work /\ \A c \in Calls : work[c] = NoCall
    BY DEF EntitlementsInit, NoCall, Begun, Work
  <2> QED BY <2>1 DEF NoCall, Begun, CallFits, Lone
<1>3. EntitlementTypes
  BY <1>1, <1>2 DEF EntitlementsInit, EntitlementTypes, EntitlementsTypeOK, PlanKeys
<1>4. \A shop \in Shops : Even(shop)
  BY <1>1 DEF EntitlementsInit, Even, Rows
<1>5. GuardAgreesWithGates
  <2>1. served.right
    BY DEF EntitlementsInit, NotServed
  <2> QED BY <2>1 DEF GuardAgreesWithGates
<1> QED BY <1>2, <1>3, <1>4, <1>5 DEF EntitlementInv

LEMMA EntitlementsGoOn ==
    EntitlementInv /\ [EntitlementsNext]_entitlementVars => EntitlementInv'
<1> SUFFICES ASSUME EntitlementInv, [EntitlementsNext]_entitlementVars PROVE EntitlementInv'
  OBVIOUS
<1> QED BY CheckoutIsOpened, EventArrives, GrantIsClosed, GrantIsWritten, PeriodEnds,
           TierIsDisturbed, GuardLooks, OwnerIsRead, LatestIsRead, GrantIsSought,
           GuardGoesOn, TierIsWritten DEF EntitlementsNext

(* The catalog *)

LEMMA Levels ==
    /\ Level("COMMON") = 1 /\ Level("PREMIUM") = 2 /\ Level("PRO_BUSINESS") = 3
    /\ \A p \in PlanKeys : p \in {"COMMON", "PREMIUM", "PRO_BUSINESS"}
  BY DEF Level, PlanKeys

LEMMA LowestIs ==
    ASSUME NEW plans \in SUBSET PlanKeys, NEW p \in plans,
           \A q \in plans : Level(p) <= Level(q)
    PROVE  LowestOf(plans) = p
<1>1. \A x, y \in PlanKeys : Level(x) <= Level(y) /\ Level(y) <= Level(x) => x = y
  BY Levels
<1> DEFINE c == CHOOSE x \in plans : \A q \in plans : Level(x) <= Level(q)
<1>2. c \in plans /\ \A q \in plans : Level(c) <= Level(q)
  OBVIOUS
<1>3. LowestOf(plans) = c
  BY DEF LowestOf
<1> HIDE DEF c
<1>4. c = p
  BY <1>1, <1>2
<1> QED BY <1>3, <1>4

LEMMA Catalog ==
    /\ PlanCatalog["COMMON"] =
         [features |-> BasicFeatures,
          quotas |-> [chat |-> 400, whatsapp |-> 0, instagram |-> 0, imports |-> 30]]
    /\ PlanCatalog["PREMIUM"] =
         [features |-> PremiumFeatures,
          quotas |-> [chat |-> 1000, whatsapp |-> 3000, instagram |-> 3000, imports |-> 240]]
    /\ PlanCatalog["PRO_BUSINESS"] =
         [features |-> AllFeatures,
          quotas |-> [chat |-> 5000, whatsapp |-> 10000, instagram |-> 10000,
                      imports |-> NoQuota]]
  BY DEF PlanCatalog, PlanKeys

Common == "COMMON"
Premium == "PREMIUM"
Pro == "PRO_BUSINESS"

LEMMA FeaturesGrow ==
    /\ \A f \in AllFeatures :
         /\ CanAccessFeature(Common, f) <=> f \in BasicFeatures
         /\ CanAccessFeature(Premium, f) <=> f \in PremiumFeatures
         /\ CanAccessFeature(Pro, f)
    /\ BasicFeatures \subseteq PremiumFeatures /\ PremiumFeatures \subseteq AllFeatures
<1>1. /\ PlanCatalog[Common].features = BasicFeatures
      /\ PlanCatalog[Premium].features = PremiumFeatures
      /\ PlanCatalog[Pro].features = AllFeatures
  BY Catalog DEF Common, Premium, Pro
<1>2. BasicFeatures \subseteq PremiumFeatures /\ PremiumFeatures \subseteq AllFeatures
  BY DEF PremiumFeatures, AllFeatures
<1> QED BY <1>1, <1>2 DEF CanAccessFeature

LEMMA RequiredOf ==
    ASSUME NEW f \in AllFeatures
    PROVE  RequiredPlan(f) = IF f \in BasicFeatures THEN Common
                             ELSE IF f \in PremiumFeatures THEN Premium ELSE Pro
<1> DEFINE plans == {p \in PlanKeys : CanAccessFeature(p, f)}
<1>1. RequiredPlan(f) = LowestOf(plans)
  BY DEF RequiredPlan
<1>2. /\ plans \subseteq PlanKeys /\ Pro \in plans
      /\ Common \in plans <=> f \in BasicFeatures
      /\ Premium \in plans <=> f \in PremiumFeatures
      /\ f \in BasicFeatures => f \in PremiumFeatures
      /\ \A p \in plans : p \in {Common, Premium, Pro}
  BY FeaturesGrow DEF PlanKeys, Common, Premium, Pro
<1>3. Level(Common) = 1 /\ Level(Premium) = 2 /\ Level(Pro) = 3
  BY Levels DEF Common, Premium, Pro
<1> HIDE DEF plans
<1>4. CASE f \in BasicFeatures
  <2>1. \A q \in plans : Level(Common) <= Level(q)
    BY <1>2, <1>3
  <2> QED BY <1>1, <1>2, <1>4, <2>1, LowestIs
<1>5. CASE f \notin BasicFeatures /\ f \in PremiumFeatures
  <2>1. \A q \in plans : Level(Premium) <= Level(q)
    BY <1>2, <1>3, <1>5
  <2> QED BY <1>1, <1>2, <1>5, <2>1, LowestIs
<1>6. CASE f \notin BasicFeatures /\ f \notin PremiumFeatures
  <2>1. \A q \in plans : Level(Pro) <= Level(q)
    BY <1>2, <1>3, <1>6
  <2> QED BY <1>1, <1>2, <1>6, <2>1, LowestIs
<1> QED BY <1>4, <1>5, <1>6

QuotaKeys == {"chat", "whatsapp", "instagram", "imports"}

LEMMA Quotas ==
    /\ \A key \in QuotaKeys :
         /\ PlanCatalog[Common].quotas[key] \in Nat
         /\ PlanCatalog[Premium].quotas[key] \in Nat /\ PlanCatalog[Premium].quotas[key] # NoQuota
         /\ PlanCatalog[Common].quotas[key] < PlanCatalog[Premium].quotas[key]
         /\ PlanCatalog[Premium].quotas[key] < PlanCatalog[Pro].quotas[key]
         /\ PlanCatalog[Pro].quotas[key] \in Nat
         /\ PlanCatalog[Common].quotas[key] # NoQuota
         /\ PlanCatalog[Common].quotas[key] = 0 <=> key \in {"whatsapp", "instagram"}
    /\ DOMAIN FeatureOf = QuotaKeys
<1>1. /\ PlanCatalog[Common].quotas =
           [chat |-> 400, whatsapp |-> 0, instagram |-> 0, imports |-> 30]
      /\ PlanCatalog[Premium].quotas =
           [chat |-> 1000, whatsapp |-> 3000, instagram |-> 3000, imports |-> 240]
      /\ PlanCatalog[Pro].quotas =
           [chat |-> 5000, whatsapp |-> 10000, instagram |-> 10000, imports |-> 1000000]
  BY Catalog DEF Common, Premium, Pro, NoQuota
<1>2. DOMAIN FeatureOf = QuotaKeys
  BY DEF FeatureOf, QuotaKeys
<1> QED BY <1>1, <1>2 DEF QuotaKeys, NoQuota

LEMMA RecommendedOf ==
    ASSUME NEW key \in QuotaKeys
    PROVE  RecommendedUpgrade(Common, key) = Premium /\ RecommendedUpgrade(Premium, key) = Pro
<1> DEFINE over(plan) == {p \in PlanKeys : /\ Level(p) > Level(plan)
                                         /\ PlanCatalog[p].quotas[key] > PlanCatalog[plan].quotas[key]}
<1>1. \A plan : RecommendedUpgrade(plan, key) = LowestOf(over(plan))
  BY DEF RecommendedUpgrade
<1>2. Level(Common) = 1 /\ Level(Premium) = 2 /\ Level(Pro) = 3 /\ PlanKeys = {Common, Premium, Pro}
  BY Levels DEF Common, Premium, Pro, PlanKeys
<1>3. over(Common) = {Premium, Pro} /\ over(Premium) = {Pro}
  <2> DEFINE c == PlanCatalog[Common].quotas[key]
             p == PlanCatalog[Premium].quotas[key]
             b == PlanCatalog[Pro].quotas[key]
  <2>1. c \in Nat /\ p \in Nat /\ b \in Nat /\ c < p /\ p < b
    BY Quotas
  <2> HIDE DEF c, p, b
  <2>2. c < b /\ ~(c < c) /\ ~(p < p) /\ ~(p < c)
    BY <2>1
  <2> QED BY <1>2, <2>1, <2>2 DEF c, p, b
<1> HIDE DEF over
<1>4. LowestOf(over(Common)) = Premium
  <2>1. \A q \in over(Common) : Level(Premium) <= Level(q)
    BY <1>2, <1>3
  <2> QED BY <1>2, <1>3, <2>1, LowestIs
<1>5. LowestOf(over(Premium)) = Pro
  <2>1. \A q \in over(Premium) : Level(Pro) <= Level(q)
    BY <1>2, <1>3
  <2> QED BY <1>2, <1>3, <2>1, LowestIs
<1> QED BY <1>1, <1>4, <1>5

LEMMA CatalogHelps == UpgradeHelps
<1>1. /\ Level(Common) = 1 /\ Level(Premium) = 2 /\ Level(Pro) = 3
      /\ PlanKeys = {Common, Premium, Pro}
  BY Levels DEF Common, Premium, Pro, PlanKeys
<1>2. ASSUME NEW f \in AllFeatures, NEW plan \in PlanKeys
      PROVE  CanAccessFeature(plan, f) <=> Level(plan) >= Level(RequiredPlan(f))
  <2>1. /\ CanAccessFeature(Common, f) <=> f \in BasicFeatures
        /\ CanAccessFeature(Premium, f) <=> f \in PremiumFeatures
        /\ CanAccessFeature(Pro, f) /\ (f \in BasicFeatures => f \in PremiumFeatures)
    BY FeaturesGrow
  <2>2. Level(RequiredPlan(f)) = IF f \in BasicFeatures THEN 1
                                 ELSE IF f \in PremiumFeatures THEN 2 ELSE 3
    BY <1>1, RequiredOf
  <2> QED BY <1>1, <2>1, <2>2
<1>3. ASSUME NEW key \in QuotaKeys, NEW plan \in PlanKeys
      PROVE  LET used == PlanCatalog[plan].quotas[key]
             IN  /\ ~QuotaAvailable(plan, key, used) /\ plan # "PRO_BUSINESS" =>
                      QuotaAvailable(RecommendedUpgrade(plan, key), key, used)
                 /\ CanAccessFeature(plan, FeatureOf[key]) <=> QuotaAvailable(plan, key, 0)
  <2> DEFINE used == PlanCatalog[plan].quotas[key]
  <2>1. plan # Pro => QuotaAvailable(RecommendedUpgrade(plan, key), key, used)
    BY <1>1, Quotas, RecommendedOf DEF QuotaAvailable
  <2>2. CanAccessFeature(plan, FeatureOf[key]) <=> QuotaAvailable(plan, key, 0)
    <3>1. /\ FeatureOf["chat"] \in BasicFeatures /\ FeatureOf["imports"] \in BasicFeatures
          /\ FeatureOf["whatsapp"] \in PremiumFeatures \ BasicFeatures
          /\ FeatureOf["instagram"] \in PremiumFeatures \ BasicFeatures
      BY DEF FeatureOf, BasicFeatures, PremiumFeatures
    <3>2. /\ FeatureOf[key] \in AllFeatures /\ FeatureOf[key] \in PremiumFeatures
          /\ FeatureOf[key] \in BasicFeatures <=> key \notin {"whatsapp", "instagram"}
      BY <3>1, FeaturesGrow DEF QuotaKeys
    <3>3. /\ QuotaAvailable(Common, key, 0) <=> key \notin {"whatsapp", "instagram"}
          /\ QuotaAvailable(Premium, key, 0) /\ QuotaAvailable(Pro, key, 0)
      BY Quotas DEF QuotaAvailable, NoQuota
    <3>4. /\ CanAccessFeature(Common, FeatureOf[key]) <=> FeatureOf[key] \in BasicFeatures
          /\ CanAccessFeature(Premium, FeatureOf[key]) /\ CanAccessFeature(Pro, FeatureOf[key])
      BY <3>2, FeaturesGrow
    <3> QED BY <1>1, <3>2, <3>3, <3>4
  <2> QED BY <2>1, <2>2 DEF Pro
<1>4. DOMAIN FeatureOf = QuotaKeys
  BY Quotas
<1> QED BY <1>2, <1>3, <1>4 DEF UpgradeHelps

\* Guard, gates, tier and the upgrades that are offered go by one plan, for any number of
\* companies, subscriptions, events, requests and cancellations under way, stopped
\* anywhere: but for a guard that took up a grant the gates do not look at, or that a
\* subscription was written under; the tier from the moment a call about the company's
\* only active subscription ran undisturbed to its end, until something disturbs it
\* (billing.service.ts, plan-entitlements.service.ts).
THEOREM OnePlanDecides == EntitlementsSpec => [](EntitlementsTypeOK /\ OnePlan)
<1>1. EntitlementInv => EntitlementsTypeOK /\ OnePlan
  BY CatalogHelps DEF EntitlementInv, EntitlementTypes, Even, TierFollowsPlan, OnePlan
<1> QED BY <1>1, EntitlementsBegin, EntitlementsGoOn, PTL DEF EntitlementsSpec
=============================================================================
