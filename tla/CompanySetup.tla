---------------------------- MODULE CompanySetup ----------------------------
(***************************************************************************)
(* How a company is set up: the onboarding and its recommendations, the    *)
(* modules shown, the layout of the dashboard and the configuration of the *)
(* attendant, which two pages edit.                                        *)
(*                                                                         *)
(* A layout is replaced by a deleteMany and a createMany in one            *)
(* transaction.  The delete sees the rows committed before it, so that two *)
(* replacements that overlap both insert; the unique index of              *)
(* DashboardPreference does not help, its userId being null.  That of      *)
(* CompanyModulePreference does: the second transaction fails.             *)
(***************************************************************************)
EXTENDS Integers, FiniteSets

CONSTANTS
    SetupCalls,     \* requests at work
    Modules,        \* COMPANY_MODULES
    Essential,      \* ESSENTIAL_MODULE_KEYS
    Always,         \* modules that every recommendation holds
    Protected,      \* modules that a recommendation never drops
    Recommendable,  \* sets of modules that a business type and its flags ask for
    Rankings,       \* pairs of the modules that a user puts first and last
    Layouts,        \* layouts: sets of metrics that are shown
    DefaultLayout,  \* the metrics with defaultEnabled
    CoreLayout,     \* CORE_DASHBOARD_METRIC_KEYS
    MaxSaves        \* bound: requests begun

ASSUME SetupAssumption ==
    /\ Always \subseteq Protected /\ Protected \subseteq Modules /\ Essential \subseteq Modules
    /\ \A r \in Recommendable : r \subseteq Modules
    /\ \A r \in Rankings : r[1] \subseteq Modules /\ r[2] \subseteq Modules
    /\ {DefaultLayout, CoreLayout} \subseteq Layouts /\ MaxSaves \in Nat

VARIABLES
    profile,   \* CompanyProfile, or NoProfile
    modules,   \* CompanyModulePreference: the modules switched on, and the write
    layouts,   \* DashboardPreference: the layouts that the rows make up
    agent,     \* AgentConfig: NoConfig, or its switches isEnabled and isOnline
    legacy,    \* the company is older than the onboarding
    data,      \* it has records: "none", "some", or some that cannot be removed
    setup,     \* what each call is doing
    saves,     \* calls begun
    followed,  \* history: the profile that the modules were last set from
    solo,      \* history: the last change of the layout overlapped no other
    asked,     \* history: the layout it asked for
    wish       \* history: what the user last asked of each switch

setupVars == <<profile, modules, layouts, agent, legacy, data, setup, saves,
               followed, solo, asked, wish>>

NoProfile == [there |-> FALSE, done |-> FALSE, wanted |-> {}, first |-> {}, last |-> {}]
Profile == [there : BOOLEAN, done : BOOLEAN,
            wanted : SUBSET Modules, first : SUBSET Modules, last : SUBSET Modules]

\* The switches of an AgentConfig.
Flags == {"enabled", "online"}
Switch == {"on", "off"}
NoConfig == [f \in Flags |-> "none"]
Configs == [Flags -> Switch]
Agents == {NoConfig} \cup Configs
Requests == [Flags -> Switch \cup {"none"}]

\* at: where the call is; id: its number; layout: the layout it saves; p: the
\* profile it applies; overwrite: it may replace the configuration; seen, mods:
\* the rows its delete saw; read, value: the configuration it read and what
\* it was asked for; alone: no other call that may change the same is at work.
Idle == [at |-> "idle", id |-> 0, layout |-> DefaultLayout, p |-> NoProfile, overwrite |-> FALSE,
         seen |-> {}, mods |-> 0, read |-> NoConfig, value |-> NoConfig, alone |-> TRUE]

Places == {"idle", "apply", "replace", "find", "write", "save"}

SetupTypeOK ==
    /\ profile \in Profile
    /\ modules \in [on : SUBSET Modules, write : 0..MaxSaves]
    /\ layouts \subseteq [id : 1..MaxSaves, shown : Layouts]
    /\ agent \in Agents /\ legacy \in BOOLEAN /\ data \in {"none", "some", "kept"}
    /\ \A c \in SetupCalls : setup[c].at \in Places /\ setup[c].read \in Agents
    /\ saves \in 0..MaxSaves /\ followed \in Profile /\ solo \in BOOLEAN /\ asked \in Layouts
    /\ wish \in [Flags -> Switch \cup {"either"}]
-----------------------------------------------------------------------------
\* Mutant: a module may be both first and last.
NormalizeProfileRaw(wanted, first, last) ==
    [there |-> TRUE, done |-> FALSE, wanted |-> wanted, first |-> first, last |-> last]

\* normalizeProfileInput: a module is not both first and last.
NormalizeProfile(wanted, first, last) ==
    [there |-> TRUE, done |-> FALSE, wanted |-> wanted, first |-> first, last |-> last \ first]

\* buildPersonalizationRecommendations.
RecommendedModules(p) == (p.wanted \cup Always \cup p.first) \ (p.last \ Protected)

\* The modules that applyRecommendations switches on.
EnabledModules(p) ==
    {m \in Modules : m \in Essential \/ (m \notin p.last /\ m \in RecommendedModules(p))}

\* What may be shown: of several rows of a metric the map keeps one.
Shown == IF layouts = {} THEN {DefaultLayout} ELSE {l.shown : l \in layouts}

\* getStatus: whether the client is sent to the onboarding.
HasData == data # "none" \/ agent # NoConfig
SentToOnboarding == ~profile.done /\ ~((~profile.there /\ legacy) \/ HasData)

\* Nothing is known to be asked of a switch, and of neither.
Either == [f \in Flags |-> "either"]

MayStart(c) == setup[c].at = "idle" /\ saves < MaxSaves
Others(c, places) == {d \in SetupCalls \ {c} : setup[d].at \in places}
OnLayout == {"replace"}
OnAgent == {"find", "write", "save"}

\* c goes on as rec; the calls it runs into are no longer alone.
GoOn(c, rec, places) ==
    setup' = [d \in SetupCalls |->
                 IF d = c THEN [rec EXCEPT !.alone = @ /\ Others(c, places) = {}]
                 ELSE IF d \in Others(c, places) THEN [setup[d] EXCEPT !.alone = FALSE]
                 ELSE setup[d]]
Stop(c, places) == GoOn(c, Idle, places)
Count == saves' = saves + 1

SetupInit ==
    /\ profile = NoProfile
    /\ modules = [on |-> Essential, write |-> 0]
    /\ layouts = {} /\ agent = NoConfig
    /\ legacy \in BOOLEAN /\ data = "none"
    /\ setup = [c \in SetupCalls |-> Idle]
    /\ saves = 0 /\ followed = NoProfile
    /\ solo = TRUE /\ asked = DefaultLayout /\ wish = Either
-----------------------------------------------------------------------------
(* Profile, modules and layout.                                            *)

SomeProfile == {NormalizeProfile(w, r[1], r[2]) : w \in Recommendable, r \in Rankings}

\* saveOnboarding: the profile is completed before anything is applied.
SaveOnboarding(c) ==
    /\ MayStart(c) /\ Count
    /\ \E q \in SomeProfile, overwrite \in BOOLEAN :
          /\ profile' = [q EXCEPT !.done = TRUE]
          /\ \/ GoOn(c, [Idle EXCEPT !.at = "apply", !.id = saves + 1, !.layout = CoreLayout,
                                     !.p = profile', !.overwrite = overwrite], {})
             \/ UNCHANGED setup
    /\ UNCHANGED <<modules, layouts, agent, legacy, data, followed, solo, asked, wish>>

\* Mutant: saving the profile begins the onboarding anew.
UpdateProfileFresh(c) ==
    /\ MayStart(c) /\ Count
    /\ profile' \in SomeProfile
    /\ UNCHANGED <<modules, layouts, agent, legacy, data, setup, followed, solo, asked, wish>>

UpdateProfile(c) ==
    /\ MayStart(c) /\ Count
    /\ \E q \in SomeProfile : profile' = [q EXCEPT !.done = profile.done]
    /\ UNCHANGED <<modules, layouts, agent, legacy, data, setup, followed, solo, asked, wish>>

ResetRecommendations(c) ==
    /\ MayStart(c) /\ Count /\ profile.there
    /\ GoOn(c, [Idle EXCEPT !.at = "apply", !.id = saves + 1, !.layout = CoreLayout,
                            !.p = profile], {})
    /\ UNCHANGED <<profile, modules, layouts, agent, legacy, data, followed, solo, asked, wish>>

\* The user may switch any module, an essential one too.  Rows that a transaction
\* has deleted are locked until it ends.
SaveModules(c) ==
    /\ MayStart(c) /\ Count
    /\ modules.write = 0 \/ \A d \in SetupCalls : setup[d].at = "replace" => ~setup[d].p.there
    /\ \E on \in Recommendable : modules' = [on |-> on, write |-> saves + 1]
    /\ followed' = NoProfile
    /\ UNCHANGED <<profile, layouts, agent, legacy, data, setup, solo, asked, wish>>

\* Mutant: only what the same call wrote is deleted.
DeleteNothing(c, rec) ==
    GoOn(c, [rec EXCEPT !.at = "replace", !.seen = {}, !.mods = modules.write], OnLayout)

\* The delete of a transaction, of applyRecommendations or of savePreferences.
Delete(c, rec) ==
    GoOn(c, [rec EXCEPT !.at = "replace", !.seen = layouts, !.mods = modules.write], OnLayout)

ApplyDelete(c) ==
    /\ setup[c].at = "apply"
    /\ Delete(c, setup[c])
    /\ UNCHANGED <<profile, modules, layouts, agent, legacy, data, saves, followed, solo, asked, wish>>

SaveLayout(c) ==
    /\ MayStart(c) /\ Count
    /\ \E l \in Layouts : Delete(c, [Idle EXCEPT !.id = saves + 1, !.layout = l])
    /\ UNCHANGED <<profile, modules, layouts, agent, legacy, data, followed, solo, asked, wish>>

\* Its insert.  The modules are unique: when others were written since the
\* delete, the transaction fails, and with it the request.
Insert(c) ==
    LET rec == setup[c]
    IN  /\ rec.at = "replace"
        /\ IF rec.p.there /\ modules.write # rec.mods
           THEN Stop(c, {}) /\ UNCHANGED <<modules, layouts, followed, solo, asked>>
           ELSE /\ layouts' = (layouts \ rec.seen) \cup {[id |-> rec.id, shown |-> rec.layout]}
                /\ IF rec.p.there
                   THEN /\ modules' = [on |-> EnabledModules(rec.p), write |-> rec.id]
                        /\ followed' = rec.p
                        /\ GoOn(c, [rec EXCEPT !.at = "find", !.alone = TRUE], {})
                   ELSE Stop(c, {}) /\ UNCHANGED <<modules, followed>>
                /\ solo' = rec.alone /\ asked' = rec.layout
        /\ UNCHANGED <<profile, agent, legacy, data, saves, wish>>

ResetLayout(c) ==
    /\ MayStart(c) /\ Count
    /\ layouts' = {}
    /\ solo' = (Others(c, OnLayout) = {}) /\ asked' = DefaultLayout
    /\ Stop(c, OnLayout)
    /\ UNCHANGED <<profile, modules, agent, legacy, data, followed, wish>>
-----------------------------------------------------------------------------
(* The attendant's configuration.                                          *)

\* applyAgentRecommendation: what is there is kept unless it may be overwritten.
FindAgent(c) ==
    LET rec == setup[c]
    IN  /\ rec.at = "find"
        /\ IF agent # NoConfig /\ ~rec.overwrite
           THEN Stop(c, {})
           ELSE GoOn(c, [rec EXCEPT !.at = "write"], OnAgent)
        /\ UNCHANGED <<profile, modules, layouts, agent, legacy, data, saves, followed, solo, asked, wish>>

WriteAgent(c) ==
    /\ setup[c].at = "write"
    /\ agent' \in {k \in Configs : k.online = "on"}
    /\ wish' = Either
    /\ Stop(c, OnAgent)
    /\ UNCHANGED <<profile, modules, layouts, legacy, data, saves, followed, solo, asked>>

\* The configuration, created when there is none: isOnline is on by default.
Found == IF agent = NoConfig THEN [f \in Flags |-> IF f = "online" THEN "on" ELSE "off"] ELSE agent

\* WhatsappAgentConfigService.get, and what a message does that finds no row.
OpenAgentPage(c) ==
    /\ MayStart(c) /\ Count /\ agent = NoConfig
    /\ agent' = Found
    /\ UNCHANGED <<profile, modules, layouts, legacy, data, setup, followed, solo, asked, wish>>

\* WhatsappAgentConfigService.update: only what is sent is written, never isOnline.
SwitchAgent(c) ==
    /\ MayStart(c) /\ Count
    /\ \E value \in Switch :
          /\ agent' = [Found EXCEPT !.enabled = value]
          /\ wish' = [wish EXCEPT !.enabled = IF Others(c, OnAgent) = {} THEN value ELSE "either"]
    /\ Stop(c, OnAgent)
    /\ UNCHANGED <<profile, modules, layouts, legacy, data, followed, solo, asked>>

\* AttendantService.updateBotConfig: the configuration is read, or created, and
\* written back whole, with what was sent: attendantActive is for isEnabled alone,
\* isActive for both.
ReadBot(c) ==
    /\ MayStart(c) /\ Count
    /\ agent' = Found
    /\ \E value \in Requests :
          GoOn(c, [Idle EXCEPT !.at = "save", !.read = agent', !.value = value], OnAgent)
    /\ UNCHANGED <<profile, modules, layouts, legacy, data, followed, solo, asked, wish>>

\* Mutant: what is not sent is switched on.
BotValueOn(rec) == [f \in Flags |-> IF rec.value[f] = "none" THEN "on" ELSE rec.value[f]]

BotValue(rec) == [f \in Flags |-> IF rec.value[f] = "none" THEN rec.read[f] ELSE rec.value[f]]

WriteBot(c) ==
    LET rec == setup[c]
    IN  /\ rec.at = "save"
        /\ agent' = BotValue(rec)
        /\ wish' = IF rec.alone
                   THEN [f \in Flags |-> IF rec.value[f] = "none" THEN wish[f] ELSE rec.value[f]]
                   ELSE Either
        /\ Stop(c, OnAgent)
        /\ UNCHANGED <<profile, modules, layouts, legacy, data, saves, followed, solo, asked>>

\* A query fails, or the process ends.
SetupFails(c) ==
    /\ setup[c].at # "idle"
    /\ Stop(c, {})
    /\ UNCHANGED <<profile, modules, layouts, agent, legacy, data, saves, followed, solo, asked, wish>>

\* Records are entered: sales, costs, products and customers can be removed again,
\* transactions and connections cannot.
Record ==
    /\ data' \in {"some", "kept"} /\ data # "kept"
    /\ UNCHANGED <<profile, modules, layouts, agent, legacy, setup, saves, followed, solo, asked, wish>>

\* The last of those that can be is removed.
RemoveLast ==
    /\ data = "some" /\ data' = "none"
    /\ UNCHANGED <<profile, modules, layouts, agent, legacy, setup, saves, followed, solo, asked, wish>>

SetupNext ==
    \/ \E c \in SetupCalls :
          \/ SaveOnboarding(c) \/ UpdateProfile(c) \/ ResetRecommendations(c) \/ SaveModules(c)
          \/ ApplyDelete(c) \/ SaveLayout(c) \/ Insert(c) \/ ResetLayout(c)
          \/ FindAgent(c) \/ WriteAgent(c)
          \/ OpenAgentPage(c) \/ SwitchAgent(c) \/ ReadBot(c) \/ WriteBot(c)
          \/ SetupFails(c)
    \/ Record \/ RemoveLast

SetupSpec == SetupInit /\ [][SetupNext]_setupVars
-----------------------------------------------------------------------------
(* Properties.                                                             *)

\* The dashboard shows the layout that was asked for last, whoever asked before
\* and whatever overlapped then, when the last change overlapped no other: two
\* that overlap leave the rows of both.
LayoutAsAsked == solo => Shown = {asked}

\* Once a profile was applied, and until the user switches modules by hand, the
\* modules put first are on, and those put last are off but for the essential,
\* whatever the templates and the flags recommend.
ModulesFollowProfile ==
    followed.there =>
        /\ followed.first \subseteq modules.on
        /\ (followed.last \ Essential) \cap modules.on = {}

\* Who answers a message: the instance of WhatsApp looks at isEnabled, Instagram at
\* both, and the queue of WhatsApp at isOnline alone.
Answers(gate) ==
    CASE gate = "whatsapp" -> agent.enabled = "on"
      [] gate = "instagram" -> agent.enabled = "on" /\ agent.online = "on"
      [] gate = "queue" -> Found.online = "on"

\* The attendant answers, or is silent, as the user last asked of each switch,
\* however the two pages and the onboarding are interleaved, unless they
\* overlapped.  Switching it off by isEnabled (the page of WhatsApp has no other)
\* silences the instance and Instagram but not the queue, which goes on answering
\* until isOnline is off; on Instagram it answers when both are on.
AttendantAsAsked ==
    /\ wish.enabled = "off" => ~Answers("whatsapp") /\ ~Answers("instagram")
    /\ wish.enabled = "on" => Answers("whatsapp")
    /\ wish.online = "off" => ~Answers("queue") /\ ~Answers("instagram")
    /\ wish.online = "on" => Answers("queue")
    /\ wish.enabled = "on" /\ wish.online = "on" => Answers("instagram")

\* A client that is not sent to the onboarding never is later, but in two cases: a
\* company older than the onboarding saves its profile without having any data, or
\* one that has not done it removes the last of its records.
NeverSentBack ==
    [][SentToOnboarding' /\ ~SentToOnboarding =>
          \/ legacy /\ ~profile.there /\ profile'.there
          \/ data = "some" /\ data' = "none"]_setupVars

\* What was asked for last is what the company gets: the layout of its dashboard, its
\* modules and an attendant that answers or is silent.
SetupAsAsked == LayoutAsAsked /\ ModulesFollowProfile /\ AttendantAsAsked
=============================================================================
