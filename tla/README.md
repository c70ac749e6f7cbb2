# Formal models of the NEXT LEVEL backend

This directory holds TLA+ models of the parts of the backend whose correctness
depends on the order in which things happen: requests, webhooks, jobs and
polls that interleave at every `await` of the Node process, calls of external
services that fail or answer late, restarts, and notifications that are
repeated, reordered or lost. TLC checks the models on small instances, and nearly
every safety property is proved with TLAPS for every value of the constants. Paths
below are relative to `src/modules` of the backend unless they start with `docs/`,
`prisma/` or `scripts/`.

## 1. Inventory

The backend is a NestJS monolith over one PostgreSQL database (Prisma). It is
multi-tenant: almost every row belongs to a company. One Node process serves
HTTP requests, webhooks, cron jobs and, when Redis is configured, BullMQ jobs;
there are no database transactions around the flows below except where noted,
so the unit of atomicity is one Prisma call.

| Component | State it keeps | Operations | Talks to | What is hard |
|---|---|---|---|---|
| AI usage (`usage`, `ai/ai.service.ts`, `ai/chat.service.ts`, import AI, attendants) | monthly request and token counters, usage log, legacy `usageQuota` | admit, call, log, meter, reset | AI providers, n8n, plan entitlements | check-then-act over slow calls, fallback between providers, the month turning, half-done logging |
| Plan entitlements and guards (`billing/plan-entitlements.service.ts`, guards, grants of `billing.service.ts`) | none of its own: resolves a plan from four places, and grants subscriptions | resolve plan, feature and quota checks, grant, cancel, write an event's plan | subscriptions, `usageQuota`, `user.plan` | four copies of the plan written one after the other, any write of which may fail; two answers from the same rows |
| Billing (`billing/billing.service.ts`) | subscriptions, payment events, `user.plan`, tier | checkout, status, change, cancel, webhook | Stripe | events repeated, late, out of order; failures after acknowledgement; two writers of the same row |
| Mercado Livre orders (`mercado-livre`) | orders, items, sales, transactions, `lastSyncAt` | notification, manual and daily synchronisation | Mercado Livre, queue | one order stored by several handlers at once, in seven writes without a transaction |
| Mercado Livre connection | token row, integration row | OAuth callback, renewal, disconnect | Mercado Livre | single-use refresh tokens renewed in parallel |
| WhatsApp connection (`whatsapp/services/whatsapp-connections.service.ts`) | one row per company, lock in memory and in the row, claims about the webhook | connect, QR, repair, disconnect, poll, webhooks | Evolution API | a lock with an `await` inside, stale reads written back, late webhooks, a cached claim about another server |
| WhatsApp provider client (`whatsapp-provider-evolution.service.ts`) | clocks per instance, in memory | spaced, limited and repeated requests with fallbacks | Evolution API | sleeping callers that overtake each other; answers that get lost |
| WhatsApp messages and conversations (`whatsapp`, `attendant`, `queue`, `webhooks`) | message events, conversations, message rows, ids seen in memory, queue | receive, queue, claim, answer, send, pause, recover | Evolution, Meta, n8n, attendant actions, AI usage | duplicate deliveries, claims, restarts, a queue that forgets failures |
| Instagram messages and account (`integrations/instagram-*`) | inbound events, conversations, credentials in two rows | webhook, process, send, renew, callback, disconnect | Meta Graph API, AI | retries, duplicate deliveries, refused and renewed tokens, late failures |
| Evolution integration (`integrations/evolution.service.ts`) | instance row, flag of the company | connect, QR, look, webhooks, disconnect | Evolution API | unlocked reads and writes back across slow calls |
| Attendant actions (`attendant-actions`) | customers, leads, action drafts, appointments, sales | analyse a message and store what follows | WhatsApp, Instagram | several writes per message, merging of drafts, duplicate messages |
| Imports (`csv-imports`, `intelligent-imports`) | import jobs, rows, drafts | analyse, review, confirm, reject | AI | confirmation twice, half-done imports, rows that find each other by e-mail, phone, code or name, ambiguous texts and amounts |
| Auth, companies, users | users, refresh tokens, owners | sign-in, renewal, sign-out, deletion | | rotation of refresh tokens over three queries |
| Company profile, onboarding, dashboard layout | profile, modules, layouts, the agent's switches `isEnabled` and `isOnline` | save, apply, recommend, switch, the records that stand for a finished onboarding | | two pages that write the same rows; transactions that overlap; three gates that read the switches differently |
| Sales, finance, costs, dashboard figures | sales, transactions, costs, ad spend, credits | take in, change, remove, aggregate | all intakes | one sale in two tables, time zones, ranges, counting once |
| Products, customers, market intelligence, analytics, forecast, insights, strategy, reports, exports, admin | their tables and caches | single writes, reads and aggregates | AI | none of the kinds above |
| Meta and OAuth integrations, Shopee scraper | integration rows | connect, synchronise | Meta, Shopee | |

For each component the properties that make it correct are those of section 3.
`PROJECT.json` lists every component with its status, and under `hazards` what can go
wrong in each, at its line, with the property that covers it.

## 2. Modules

| Module | Models | State | Actions |
|---|---|---|---|
| `AiUsage` | admission and metering of AI requests of one company and feature | `usage`, `tokenCount` (per month), `row` (`usageQuota`), `sub`, `ownerPlan`, one `slot` per request in progress | one per awaited step of `enforceLimit` / `ensureQuota` / the call / `logUsage`, for the four kinds of callers |
| `Entitlements` | what plan a company is served with: guard, gates, grants, tier | `subs`, `quotaTier`, `userPlan`, `admin`, `grace`, `home`, `work`, `served` | one per query of the guard and its grant, of the writes of an event and of a cancellation, each of which may be the last (`BreakOff`); a checkout, the end of a period, edits of an administrator; the catalog of plans as operators |
| `Billing` | subscriptions of one company and its owner | `sub`, `user`, `tier`, `stored` (payment events), `handler`; at Stripe: `session`, `stripe`, `events` | one per awaited step of the endpoints and of `handleStripeWebhook`; Stripe's own moves are external |
| `Inbox` | what the webhook promises: an at-most-once inbox | `record`, `applied`, `acked` | store, apply once, close, acknowledge |
| `MercadoLivreOrders` | orders into sales and transactions | `row`, `items`, `sale`, `tx`, `covered` (`lastSyncAt`), `handler` | one per write of `upsertOrder`, the three intakes, failures |
| `MercadoLivreToken` | the OAuth connection | `token`, `integration`, `handler`; `issued`, `spent` at Mercado Livre | read, renew, exchange, save, disconnect |
| `WhatsappConnection` | the connection row of one company | `row`, `dbLock`, `memLock`, `handler`; `remote`, `news` at Evolution; `loose` (history) | one per awaited step of the four operations under the lock, of the poll and of the two connection webhooks |
| `ProviderCalls` | requests to the Evolution server about one instance | `call`, `sinceLast`, `limitedFor`, `askedFor` | begin, wait, throttle, send, answer of each kind, pause, next request of the fallback; `Tick` |
| `ProviderWebhook` | the webhook registered at that server | `hookRow`, `server`, `base` (`BACKEND_URL`), `hookOp`, `cooling` | steps of connection, repair and disconnection; deployments and outside changes |
| `EvolutionInstance` | the instance of the integrations page | `instance`, `connected`, `evo`; `remote`, `news` at the server | steps of connection, QR code, look and disconnection; webhooks |
| `InstagramMessages` | direct messages, from webhook to answer | `event`, `queue`, `inbound`, `thread`, `worker`, `now` | store, claim, load, gate, answer, pause, reprocess, a failed query, restart; `Tick` |
| `InstagramAccount` | the account that sends them | `account`, `igRow`, `companyIg`, `age`, `heard`, `igCall`; `revoked` at Meta | callback, import, disconnection, load, renew, post, flag |
| `WhatsappInbox` | a customer's messages on the way to the assistant | `entry`, `posting`, `waiting`, `conv`, `hand` | store, queue, claim, gate, answer, close, pause, recover, restart |
| `Conversations` | the rows of one conversation | `rows`, `marked`, `listener` | webhooks with and without text, the flow's log, the pages |
| `AttendantActions` | what becomes of the WhatsApp messages of one customer | `seen` (in memory), `stored`, `customers`, `requests`, `appointments`, `sale`, `tx`, `attribution`, `handler` | one per awaited step of `handleIncomingAutomationMessage`, of storing, of `analyzeAndPrepare`; n8n's log call, expiry of the map and of drafts, failures |
| `ImportReview` | one intelligent import | `imp`, `metrics`, `revenue`, `costs`, `expensed`, `contacts`, `task` | analyse, review, confirm (one transaction), reject |
| `CsvImport` | one CSV job | `job`, `rowErrors`, `stored`, `confirm` | upload, map, confirm line by line, fail |
| `CsvText`, `AmountText` | how texts become rows, and rows numbers | the text | pure operators, against a writer of such texts |
| `Sessions` | one person's account and sign-ins | `account`, `owned`, `others`, `tokens`, `auth` | sign-in, the three queries of a renewal, sign-out, deletion, creation of a company |
| `Books` | the rows of sales, transactions, costs and spend, and the figures computed from them | `rows`, `credits`, `imported`, `unitCost` | one per way of taking in, crediting, changing and removing a record |
| `CompanySetup` | onboarding, modules, layout and the attendant's two switches | `profile`, `modules`, `layouts`, `agent`, `data`, `setup` | the reads and transactions of each page; records made and removed |
| `*Proofs` | theorems about the modules they extend | | |
| `MC*` | instances for TLC | | |

How they fit together. `Billing` is shown to implement `Inbox`. What `Billing` writes is
read by `Entitlements`, where events change any of several subscriptions, and by `AiUsage`,
where the plan changes at any time to anything, so that each holds whatever the other
does. `WhatsappConnection` models the operations under the lock with everything that
runs beside it, `ProviderWebhook` what one operation at a time does at the server, and
`ProviderCalls` the single requests below both. `WhatsappInbox` and `Conversations` share no row that
decides anything: the first follows a message to its answer, the second the rows the page
shows; `AttendantActions` is what the stored message leads to. `Books` takes in what orders,
imports and attendants book. An MC module that holds several modules lets each behaviour be
of one of them, chosen at the start (`part`); they share no variable.

Conventions. A handler (slot, worker, call) is a record with a program counter `pc` and the
local variables of the function it runs; an action is what happens between two
`await`s. A read that is awaited and used later is stored in the handler, so
every stale read of the code is a stale read of the model. Failures are actions of
their own, bounded (`MaxFaults`, `MaxMishaps`, `MaxBreaks`, ...); a restart drops every handler and
all that is kept in memory. Histories (`peak`, `applied`, `sold`, `settled`, `farewell`, ...)
are written and never read by the actions that model code; they let a property relate
a state to earlier ones. Next to a definition that models code stand, marked
"Mutant", variants of it with a plausible mistake: no specification uses them, and each one
breaks the property it was written for.

## 3. What is checked

| Run | Instance | What it shows |
|---|---|---|
| `ai_usage` | 2 requests at a time and 2 per slot of 3 kinds of callers, 2 providers, limits 0 and 1, one change of month; 2 companies of one owner with 2 subscriptions, 2 calls at a time, 3 calls | Requests admitted together overshoot the limit by at most one (`OvershootBound`), through every change of plan, tier and month; what is answered is counted once whatever falls back or fails (`AnsweredMeteredOnce`); guard, gates, tier and offered upgrades go by one plan (`OnePlan`). |
| `billing` | 1 checkout, 2 events in any order, 2 handlers, 1 failure; and 1 checkout, 7 events in order, 2 period ends | No plan is in use that was not bought and paid (`PlanWasBought`); the webhook is an at-most-once inbox (`WebhookIsInbox`); every event is acknowledged in the end (`AckedInTheEnd`); when everything is delivered in order the rows say what Stripe says, and tier and `user.plan` are the plan of the entitlements (`BillingSettles`). |
| `ml_orders` | 1 order, 2 handlers, repeated notifications, daily synchronisation, 1 failure | A processing that runs alone to its end repairs row, items and revenue (`SoloRunRepairs`); without failures and overlaps processing an order again leaves what processing it once would (`UndisturbedIsIdempotent`); an order whose notification is lost is stored in the end (`OrderIsImported`). |
| `ml_orders_restart` | 1 order, 1 handler, 1 failure; violated | After a failure between the sale and the row, reprocessing a cancelled order leaves its revenue counted (`ProcessingIsIdempotent`). |
| `connections` | Mercado Livre: 3 calls, 4 tokens, 1 failure; instance: 2 calls, 2 QR codes, 2 webhooks under way; requests: 2 callers, 2 failures, interval 1; webhook: 2 names, 2 addresses over 3 deployments, 1 failure or outside change | The stored refresh token stays usable (`TokenUsable`), a disconnection sticks (`DisconnectSticks`), the page of the instance is consistent and a disconnection is for good (`InstanceIsShown`), a text goes out once (`TextGoesOutOnce`), requests are spaced (`RequestsAreSpaced`), what is said of the webhook is so (`HookIsTold`), each with the exceptions it names. |
| `whatsapp` | 2 handlers; connect, repair and disconnect begun at any moment and outlasting the lock; 1 notification under way; 1 restart | Two operations go on together only if one crossed another between the lookup and the writing of the map, or outlived the lock (`OneOperation`); a disconnection that overlapped nothing sticks (`DisconnectSticks`). |
| `whatsapp_live` | 2 handlers; connect and QR, overlapping or not; 1 notification under way | A phone that stays connected is noticed (`ScanIsNoticed`). |
| `attendant` | a payment and an "ok"; an appointment and a meeting, with an "ok" (no failure) or without; a booking sent again; 2 handlers, 1 failure or restart | Revenue is booked as it was stated (`RevenueAsStated`); a stored message takes effect unless its own analysis was cut short (`MessageTakesEffect`); it goes to n8n once unless two webhooks raced or something failed (`ForwardedOnce`); without overlap one customer, and one appointment per intent and time until one is given another (`NoDuplicateAlone`). |
| `attendant_resend` | one booking, 2 handlers, no failure; violated | Two deliveries of one message that overlap create two customers (`ResendKeepsOneCustomer`). |
| `messages` | 2 direct messages, 2 workers, 1 reprocessing, 1 mishap, a pause of 1 tick on a clock of 2; the account with 1 connector and 1 sender, 2 tokens; a message of Evolution and one of Meta, 2 deliveries each, 2 hands, 1 failure, 1 pause; a conversation of 2 messages, 2 listeners, 2 sendings, 1 failure | Each direct message is taken up by nobody twice and by somebody always (`EachDmTakenUp`), a person's pause holds until it runs out (`HumanPauseHolds`), the account's status is earned (`StatusIsEarned`) and only connecting connects (`OnlyConnectingConnects`); a WhatsApp message always has a carrier (`OpenMessageHasCarrier`), is answered once (`AnsweredOnce`), not over a person (`PersonIsNotTalkedOver`); the conversation has each message once (`ConversationComplete`). |
| `back_office` | an import of 2 orders with one id, 2 costs of one name and amount, 2 customers without a name and a product, 2 calls, 1 write over what was not read; a CSV job of 2 lines under 2 mappings, of which one finds the other only, 2 confirmations, 1 failure; every table of 2 records of 2 fields; amounts of up to 7 digits; 3 tokens, 2 calls, 1 deletion | What is confirmed is booked once (`BookedAsConfirmed`), every line is stored, and once if nothing overlapped and each look finds the other (`CsvLinesStored`), texts become the rows and numbers they were written for, by each of the readers (`TextsReadBack`), a sign-in keeps one token, and none after a sign-out no renewal was ahead of (`OneTokenPerSignIn`). |
| `company` | 2 things that happen around the end of a year, every way of taking them in, one of them credited with its amount or more, seen on 2 days; set-up with 2 calls, 3 requests | Every figure counts what happened once (`FiguresAddUp`), today becomes yesterday (`FiguresCompare`), the last request decides, at each gate by its own switch (`SetupAsAsked`), nobody is sent back to the onboarding but in two cases (`NeverSentBack`). |

What the properties except is part of what they say, and each exception is something the code
lets happen; the comment above each property names it. Histories mark the exceptions: a tier
that was disturbed (`uneven`), a guard that found a grant elsewhere or was overtaken
(`served`), a token renewed in vain (`orphaned`), an answer that got
lost (`lost`), a webhook changed from outside (`unsure`), a message whose analysis, claim or
worker was cut short (`broken`, `dropped`, `left`, `lost`), two webhooks that took a message for new
(`raced`), an appointment given another intent or time (`moved`), operations that crossed or
outlived their lock (`loose`), a state reported before its message (`ahead`), an import written over
(`overtaken`), confirmations or renewals that overlapped (`together`, `overlaps`).

Why the bounds are enough to be interesting:

- Two handlers are the fewest that race; every race listed under `hazards` is one of two
  parties, the connection of Mercado Livre excepted, where a third call may renew or
  disconnect between the two. For the properties that are proved the number of handlers is arbitrary.
- One failure or restart can hit any step; where the code repairs what it left, the repair
  is another run of the same handler. The proofs take any number of failures.
- `ai_usage`: with limit 1 a second request sees either 0 or 1, which is every answer of
  `checkLimit`; limit 0 is the feature a plan does not include. Two subscriptions are the fewest of which one
  ends while the other lives, two companies the fewest between which a grant can be taken for another's; two
  calls are the fewest that interleave their queries, and three in all (`MaxTurns`) let an event follow two
  that disturbed each other.
- `billing`: two events are the fewest that come out of order; `Horizon` is 0 there, the
  lifetime of a subscription being the matter of the long part, whose seven events cover a
  purchase, a renewal or default, a recovery, a plan change and a cancellation. With the portal's
  moves, events out of order or failures `BillingSettles` does not hold; that is
  what that part excludes, and it is listed below.
- `whatsapp` and `whatsapp_live` each offer a part of the operations: what is left out of one run is in the
  other, and the proofs cover all of them together. `MaxNews` bounds how many notifications of Evolution
  are under way. `whatsapp_live` leaves the history `loose` out of its states (`VIEW LiveView`): no step and no
  property of that run looks at it.
- `attendant`: the text "ok" has no meaning of its own and joins whatever draft is open,
  which is how fields travel between messages; a payment carries order and amount. An appointment and a
  meeting at one time are what `maybeUpsertAppointmentRequest` must keep apart by their intent. The parts
  with both stop at the first overlap, beyond which `NoDuplicateAlone` says nothing.
- `messages`: one of the two direct messages asks for a person, which is what pauses the bot; of the two
  WhatsApp messages one takes each route, and the queue is in Redis or in memory. One tick of the clock stands
  for the 24 hours of `HUMAN_PAUSE_HOURS`: within two, a pause runs out before, between and after the steps of
  a message.
- `back_office`: two mappings under which a line means different things show what confirming again
  under another one leaves; a line with a name only finds one with name and e-mail and is not found by it,
  as in `persistCustomer`. The two customers share the name "Cliente importado", which is what
  `persistNormalizedEntity` calls those without one. One write over what was not read (`MaxOvertaken`) is
  enough to book twice; the proof takes any number. Seven digits give an amount two thousands separators.
- `company`: the arrow beside a figure may be missing though the figure changed, by less than half a
  hundredth of a percent: the code rounds the change before it looks at its sign (`Noticed`). A day is 4 ticks, a month 2 days, a year 2 months, and local time is one tick
  behind that of the database, so that every boundary is crossed by something.

Deadlock is checked in `ai_usage`, `ml_orders`, `whatsapp`, `whatsapp_live` and `attendant`, and in the two
violated runs. In the others the model stops because a bound is used up: no more events (`billing`), tokens or time
(`connections`), deliveries (`messages`), confirmations (`back_office`), requests (`company`).

### Disagreements with the documents

- `ml_orders_restart` (`docs/SECURITY_NOTES.md`): processing of an order is said to be
  idempotent. `upsertOrder` writes the sale before the row that links to it; when it fails in
  between and the order is cancelled before it is processed again, no link leads to the
  sale and it stays counted. Without failures and overlaps it is idempotent, which is proved.
- `attendant_resend` (`docs/MVP_SMOKE_TEST.md`): a message sent again is said to make no
  second customer. Looking for one and creating it are two awaits, and no key is unique. Analyses
  that do not overlap make none, which is proved.

Things the models show that no document rules out, and no run keeps:

- the token counter of `usageQuota` is not monthly: nothing resets it but an administrator;
- the success page of the checkout writes the subscription like an event would, and can be
  undone by a late one; the proof of the settled company excludes the page for that reason;
- a plan changed in Stripe's portal changes the price but not the metadata, which wins;
- the end of an old subscription sets tier and `user.plan` to the free plan although a
  newer one is active; the entitlements are right all the same;
- a grant that the guard finds instead of making is always one that the gates do not look at;
- an order created while a synchronisation runs is passed over by the next one, which
  lists from the time the first one ended: `OrderIsImported` excludes it;
- two operations on a WhatsApp connection asked for at the same moment both pass the lock, which awaits
  between looking and taking, and one that outlives its 45 seconds goes on beside the next:
  `OneOperation` excepts both (`loose`), and only those;
- a repair after `BACKEND_URL` has changed renews the row's old address, not the new one;
- what the page says of the webhook (`webhookStatus`, `whatsapp-connections.service.ts:1037`) does not look
  at the hash that tells whether the row's address is the current one;
- a failed attempt to set the webhook counts for the minute in which it is not tried again;
- a sale without an order number stays an open draft, so that the next "ok" books it again
  under its own id, and a payment without its order number overwrites that of the draft:
  `RevenueAsStated` is about texts that state both;
- a second request for an appointment without its time leaves a second appointment:
  `NoDuplicateAlone` is about texts that state it;
- a message without an intent of its own, analysed again after a later one has changed the draft, takes the
  appointment it made before over to the other intent or time (`moved`);
- a restart between storing a message and analysing it again loses the message
  (`MessageTakesEffect` names it in `broken`);
- an Instagram event in status `processing` after a restart, a failed read of the claimed event (outside the
  `try`) or a failed last write stays so: no claim matches it; one whose claim fails waits with nobody;
- a direct message after the bot has paused once clears a later pause of a person (`botPaused`
  is never reset);
- a sign-out does not end a renewal in progress: `refresh` looks at `revokedAt` before it revokes and issues,
  so that the next token comes out after the sign-out;
- the attendant switched off on the page of WhatsApp (`isEnabled`, all that page writes) goes on answering the
  queue of WhatsApp, whose gate reads `isOnline`;
- a company that has not done the onboarding and removes its last record is sent to it;
- two contacts of one import without a name become one row, and a later import's overwrites it;
- a CSV line with only a name is refused after one with that name and an e-mail, and stored before it;
- a pending or trial outcome of an event writes neither `user.plan` nor tier;
- a message written on the page is stored a second time by the report of its state;
- the queue's job ends when its event is emitted, so that the queue never retries a message;
- two changes of the dashboard's layout that overlap leave the rows of both;
- quotes in a CSV protect line feeds but not delimiters, and "1500" in a chat is read as 150.

## 4. Fairness

Only `billing`, `ml_orders` and `whatsapp_live` check liveness.

- *Handlers take their next step* (weak fairness per handler). The steps are continuations
  of promises in one process with timeouts on every HTTP call; none can wait for another handler. Failures
  are bounded by `MaxFaults` and are not fair.
- *Stripe sends an event again until it is acknowledged* (strong fairness of each
  delivery): strong, because a delivery needs a free handler, which is not free all the time.
- *The daily job of Mercado Livre runs again and again* (strong, for the same reason); it
  is a cron job of `mercado-livre-cron.service.ts`.
- *The front end polls the connection* and *Evolution answers some of the polls* (strong):
  the first because a poll begins only when nobody operates, the second because polls fail
  now and then, but not forever. Nothing is assumed of webhooks: they may all be lost.

## 5. What is proved

The theorems hold for every value of the constants that the named assumptions of the
modules allow (`TypeOK`-like facts about bounds, and tables of the right shape): any number of
handlers, messages, orders, checkouts, plans, tokens, failures and restarts. Their proofs are in
the `*Proofs` modules, one per group of components. The argument is the same
everywhere: an inductive invariant is established by `Init`, kept by each action (one lemma
per action or per group of actions that touch the same state) and implies the property. What
makes the work is that a property speaks of rows while the code changes them from stale copies, so
that the invariant has to say of each program counter what the handler that stands
there still knows and is about to write.

**`BillingProofs`** (`Billing`)

| Theorem | Invariant and argument |
|---|---|
| `BillingTypes` | `TypeInv`: types, and that a handler that works on an event works on one that was sent. |
| `WebhookImplementsInbox` | the refinement of `Inbox`: `InboxInv` says at which program counter an event is recorded, applied and acknowledged, and each step of `Billing` maps to a step of `Inbox` or to none. |
| `PlansAreBought` | `BoughtInv`: every copy of a plan, in a row, an event, a handler or the tier, was bought at a checkout, or comes from the portal or the free plan. |
| `SettledRowsMirrorStripe` | `SettleInv`: what is on the way (events not yet delivered, the handler's snapshot) applied to the rows gives what Stripe has. Its hypothesis `Orderly` is about constants only: calls come one at a time and events in order, period ends are known, nobody uses the portal or the success page, and nothing fails. |
| `SettledTierFollows` | the part of `SettleInv` about tier and `user.plan`; with two checkouts it does not hold (the end of the older subscription), hence `OneCheckout`. |

**`MCBillingProofs`** (`MCBilling`, both of its parts)

| Theorem | Invariant and argument |
|---|---|
| `EveryPartSettles` | `MCInv`: in the first part the invariants of `BillingProofs` as they are, in the second (`LongInv`) the same invariants with its parameters. Its one hypothesis is `NumCheckouts = 1`, as in the run: of two subscriptions the later event sets the tier. That calls come one at a time and events in order is what the second part is (`LongIsOrderly`). |
| `EveryPlanIsBought` | from `MCInv`, in both parts. |
| `EveryPartIsInbox` | the composed refinement: each step maps to a step of `Inbox`, over the events of its part, or to none. |

The lemmas about the second part are those of `BillingProofs` once more, through an `INSTANCE` with the
parameters of that part; the lemmas `Same...` show, operation by operation, that the instance of `Billing`
that the run checks and the one that the proofs are about are the same.

**`MercadoLivreOrdersProofs`** (`MercadoLivreOrders`, and its instance for TLC)

| Theorem | Invariant and argument |
|---|---|
| `OrderTypesHold` | `TypeOK` with the handlers' local variables. |
| `SoloRunsRepair` | `RepairInv`: who is alone on an order (`AloneInv`), how far a lone processing has repaired it at each of its seven writes (`Progress`), and what it leaves (`SettledInv`). |
| `UndisturbedRunsAreIdempotent` | `LinkInv`, under no overlap and no failure: row, items, sale and transaction are linked as far as the processing in progress has come, and every count is the one of a single processing. Stated of the specification that the run checks. |

**`ConnectionsProofs`** (`EvolutionInstance`, `ProviderCalls`, `ProviderWebhook`, `MercadoLivreToken`)

| Theorem | Invariant and argument |
|---|---|
| `InstanceShown` | `EvoInv`: types, consistency of the row with every snapshot that is to be written back, and that calls begun before a disconnection are the only ones that can undo it. |
| `TextsGoOutOnce`, `RequestsSpaced` | `CallsInv`: a request is received when and only when its caller has sent it, and no request of the fallback is begun before the one before it was refused; the clocks are those of the last request that left. |
| `HookTold` | `HookInv`: per program counter of the operation under the lock, what the server, the row and the cached claim say of the webhook's address and events. |
| `TypesHold`, `TokenStaysUsable` | `Inv`: tokens are numbered in the order Mercado Livre issues them (`Numbers`), the newest is known to the row or to the handler that is about to save it (`Secret`). |
| `DisconnectHolds` | `StickInv`: after a disconnection only calls that began before it can still write. |

**`WhatsappConnectionProofs`** (`WhatsappConnection`)

| Theorem | Invariant and argument |
|---|---|
| `ConnectionTypesHold`, `ConnectedRowsHideQr` | every writer that sets the state to connected clears the QR code in the same write, and none that shows a code writes a connected state. |
| `OperationsAreApart` | `LockInv`: of the handlers that are not `loose`, the one in an operation holds the lock of the map, alone, and one between the lookups of map and row has nobody beside it; after a restart no handler is left. Operations asked for at the same moment and ones that outlive the lock are part of the specification. |
| `DisconnectionSticks` | `StickInv`: once a disconnection that overlapped nothing has ended, no handler holds a reading of the row from before. |

**`AttendantActionsProofs`** (`AttendantActions`)

| Theorem | Invariant and argument |
|---|---|
| `AttendantTypesHold` | `TypeInv`: types, and that the draft, sale or appointment that a handler is about to write to exists (`HandlersSound`). |
| `CustomersAreBounded` | `CustomersInv`: the customer rows plus the handlers that have found none and are about to create one are at most as many as handlers. |
| `RevenueIsAsStated` | `RightInv`: every draft, transaction and local copy with an order number has the amount stated with it. |
| `ForwardedOnceOnly` | `ForwardInv`: between the message's mark in memory, its row and the handlers, at most one still may forward it. |
| `MessagesTakeEffect` | `EffectInv`: of every stored message, either its handler is at work at a known step or what it leads to is there. |
| `NoDuplicatesAlone` | `TimedInv` and `AloneInv`: if no analyses overlap, what the one handler has read is what the rows hold; per intent and time, as long as no appointment was `moved`. |

**`MessagesProofs`** (`InstagramMessages`, `InstagramAccount`, `WhatsappInbox`, `Conversations`)

| Theorem | Invariant and argument |
|---|---|
| `DmsAreTakenUp`, `HumanPauseIsRespected` | `DmInv`: the answers posted, the workers about to post and the claims still open are together at most one and one more per reprocessing (`AnswerInv`); who holds the claim (`ClaimInv`), but for the events in `lost`; until when the pause a worker has passed was to hold, by the clock (`PauseInv`). |
| `AccountStatusIsEarned`, `ConnectingConnects` | `AccInv`: a call that is about to flag the account has a refusal of the token it holds; a disconnected account is `Silent` towards every call but a connection. |
| `MessagesAreCarried`, `MessagesAreAnsweredOnce`, `PersonsAreNotTalkedOver` | `InbInv`: types, an open message has a carrier, one hand works on a message, answers are accounted for per delivery, and a hand past the gate has seen no pause that still holds (`PersonInv`). |
| `ConversationIsComplete` | `ConvInv`: ids are unique, a row keeps its text unless its state was reported ahead of it, and who was told that a message is stored finds its row. |

**`CompanyProofs`** (`CompanySetup`, `Sessions`, `ImportReview`, `CsvImport`, `Books` in its instance for TLC, `AiUsage`, `Entitlements`)

| Theorem | Invariant and argument |
|---|---|
| `CompanyIsSetUpAsAsked`, `OnboardingIsOnce` | `SetupInv`: what each call is about to write follows from what was asked last, unless it overlapped, per switch of the attendant. |
| `OneTokenIsLeft` | `SessInv`: per sign-in, its live tokens and the ones that renewals in progress may still create are at most as many as allowed: one, none after a sign-out that no renewal was ahead of, and one per overlapping renewal. |
| `ImportIsBookedOnce` | `ImportInv`: as long as no call wrote over what it had not read, the books hold the extraction of the confirmation that counts; a transaction has written one row per contact, with the marks of those booked so far, and whoever shares no mark has the row made for it (`Writes`, `Fresh`). |
| `CsvFileIsStored` | `CsvInv`: per program counter of a confirmation, which lines are stored, and once if it was alone and its look is found by what it finds; no assumption on what finds what. |
| `FiguresAddUpAlways`, `FiguresCompareAlways` | `BooksInv`: per thing that can happen (`SoundOf`), which of its rows count and that each of those says what happened, once or as often as it is booked twice by name. A figure is then a sum over rows, and what happened a sum over events; that the two agree, that the labels of a curve cut a period into parts whose sums make the whole, and that two windows of one day hold the same rows, are lemmas about sums over finite sets (`SumMaps`, `SumParts`, `SumSplits`). Stated of the specification that the run checks, for any things, amounts, calendar and time zone. |
| `TypeCorrect` | `TypeInv`: the types, and that a caller that tries a provider has one left. |
| `OvershootBounded` | `OvershootInv`, for every threshold not below the limits in force: the counter plus the slots that were admitted, or hold a reading below the threshold, stay below the threshold plus the number of slots. The bound is the instance for the highest limit. |
| `AnsweredIsMeteredOnce` | `MeteredInv`: per program counter of a slot, whether its request has been counted. |
| `OnePlanDecides` | `EntitlementInv`: the newest usable subscription decides for guard and gates; what each call has read and still has to write is its company's plan unless a subscription was written meanwhile, and the tier equals it unless marked as disturbed. |

Sums are recursive, and the induction theorems of the library take an operator, which no installed
prover can instantiate. The lemmas about sums are proved without them: of the finite sets for
which a lemma fails, one would have no proper subset for which it fails (`NoSmallestException`, from
the well-foundedness of the natural numbers), and taking one element out of it gives a smaller one.

Only model-checked:

- *liveness* (`AckedInTheEnd`, `OrderIsImported`, `ScanIsNoticed`): the prover has no rules for
  fairness and `ENABLED`;
- `TextsReadBack`: what folds over sequences of characters compute, for all tables and amounts up to
  the bounds; it is an induction over the text with the scanner's state in the hypothesis;
- the two violated runs, which refute by one behaviour.

Otherwise the theorems are about the specifications that the runs check: the parts of a run are
behaviours of one specification, or of modules that share no variable.

## 6. Plan

Next, in this order:

1. the readers of `CsvText` and `AmountText`: that a text is read back, for texts of any length, by
   the smallest-exception argument of the sums;
2. an abstract at-least-once inbox, with its own specification, that `InstagramMessages` and
   `WhatsappInbox` implement but for the named exceptions;
3. parts of modelled components that are still missing: creation of the Stripe customer and
   portal session, leads of the attendant, registration and Google sign-in, the listing of
   more orders than fit one page (50) of Mercado Livre, the caches of analytics.

## 7. Not modelled

- What a text means: the AI's answers, prompts, wording and classification. Models take
  the outcome from a small set (`Text`, `Kind`, `Extractions`).
- The inside of Stripe, Mercado Livre, Evolution, Meta, n8n and the AI providers: modelled from how
  the code uses them, marked external in the map.
- Reads and aggregates that keep no state beyond those of `Books`, and services that do a single
  write per request (customers, products, market intelligence, forecast, insights, strategy,
  reports, exports, administration).
- Products, questions, reviews and shipments of Mercado Livre: each call overwrites a row with
  what the server just said.
- Meta and OAuth connections other than Instagram's: one row, one write.
- The Shopee scraper: `launchBrowser` always throws (`integrations/shopee-scraper.service.ts:538`).
- Rounding of money (amounts are integers of cents) and several tenants in one state: every
  query filters by company, so that a model is of one company, `Entitlements` excepted.
- Generated and vendored code, scripts, migrations and data.
