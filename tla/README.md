# A verification project for the Stock Trends API

This directory holds TLA+ models of the Stock Trends API, the TLC configurations that
check them, and proofs of their main invariants that TLAPS checks. The models cover
the request path, where mistakes cost money (who is charged, for what, how often, and
whether the records say so); the stores that requests share with other programs
(agents, published artifacts, outcome summaries); and the endpoints that answer from
the weekly tables while a loader extends them. Paths below are relative to `src/`.

## The system

The API is one FastAPI process image run as several workers over a shared MySQL
database. A request passes, outermost first, CORS, `RequestIdMiddleware`,
`ApiKeyMiddleware`, `MeteringMiddleware`, `RequestLoggerMiddleware`, and then the
mounted `v1` application (`main.py`), whose routes are wrapped by
`install_payment_execution_boundary` (`api/routing.py`).

| Component | State it keeps | Operations | Correct when |
|---|---|---|---|
| x402 enforcement and claims (`payments/enforcement.py`, `payments/x402_claims.py`) | the `x402_payment_claims` table: per authorization, none, settling, settled, uncertain or failed, and the owning request | acquire a claim by INSERT under a unique key, record its outcome by a guarded UPDATE, settle in between | one settlement per authorization; paid work only after a recorded settlement; a claim agrees with the funds |
| Facilitator client (`payments/x402.py`) | none | verify, settle; parse and validate payment payloads; build challenges | only a confirmed reply counts as settled; a silent facilitator cannot hold a request |
| Metering middleware (`middleware/metering.py`) | per-request state: gate, validation, enforcement result, collection | classify, refuse early, challenge early, publish the gate, finalise (backstop, capture or void, rows) | no unpaid delivery; no charge for a request that did not run; rows that agree with each other and with the money |
| Execution boundary (`api/routing.py`, `api/route_recognition.py`) | wrapped endpoints, fixed at startup | semantic validation, then the one-shot gate, then the endpoint | validation always before payment; nothing paid runs around the gate |
| MPP rail (`payments/mpp.py`, `payments/mpp_client.py`) | none here; reservations at the control plane | authorize, capture, void | captured for a success only, voided for a failure only, nothing left open silently |
| Log writer (`metering/logger.py`) | `api_request_logs`, `api_request_economics` | insert an event, insert or update an economics row | a row says what happened; a failed insert harms nothing else |
| Policy provider (`payments/policy_provider.py`) | a process-wide cache: policy, time, last known good; a snapshot per request | refresh after the TTL, fall back, bind a snapshot | one policy per request; never an unpriced fallback |
| Authentication (`middleware/api_key.py`) | identity on the request | path classes, key lookup, artifact availability | each path reaches exactly its entitlement decision |
| Classifier (`pricing/classifier.py`) | none | map a path and an identity to a pricing decision | total, and paid paths are never free |
| Artifact store and availability (`services/intelligence_artifact_store.py`, `..._availability.py`) | one snapshot of the validated artifacts per worker, keyed by file signatures and expiry | load, refresh, availability before payment, the endpoint's read after it | what is returned was published; the cache is not noticed; who paid is served unless the store changed |
| Agent registry (`ensure_agent_record`, `routers/agents.py`) | `api_agents`, `api_external_agents` | lookup, INSERT IGNORE, refresh; list, show, disable, enable | one id per agent; a disabled agent is refused, and stays disabled until its customer enables it |
| Outcome summaries (`services/stim_select_outcome_summary.py`, `scripts/refresh_stim_select_outcome_summary.py`, `routers/selections.py`) | a table with one row per exchange and rank cutoff | a maintenance command replaces rows in one transaction; the endpoint serves a row or computes a live answer | a row is of one view of the data; what was refreshed stays served; the two computations agree |
| Data routers and services (`routers/prices.py` to `stocktrends_strategies.py`, `services/regime_*.py`, `decision_service.py`) | none; they read tables other programs write | validate before payment, pick a week or a window, query, answer | an answer is of the week it names; truncation is said; a paid request is not refused for its form |
| Discovery, pricing pages, `ai`, `workflows`, `meta`, `observability` | none (static tables, the log) | describe the API | not modelled |

How they interact. `ApiKeyMiddleware` binds the policy snapshot and the caller's
identity on `request.state`. `MeteringMiddleware` classifies the request, resolves
a price and a rail, and publishes a *deferred gate* on `request.state`; the wrapper
around the endpoint calls it after FastAPI accepted the input and the route's
semantic validator passed. The gate runs `enforce_x402_payment` or
`enforce_mpp_payment`, which call the facilitator or the control plane and, for
x402, the claims table. Its result travels back on `request.state` to the
middleware's finaliser, which captures or voids an MPP authorization and writes the
two rows. The rows feed back: the replay lookup of a later request reads
`api_request_economics`.

Before classification the metering middleware registers the caller's agent and after
it refuses a disabled one; the agent endpoints that disable and enable take the same
way as every request. The artifact store is asked twice, by `ApiKeyMiddleware` before
payment and by the endpoint after it. An exporter, the refresh command, the weekly
loader and the portfolio program write what the endpoints read, at any time.

What is hard. Several workers share the claims and economics tables with no other
coordination; the two remote services can be slow, silent or lose a reply after
acting on it; a worker can die between any two steps; commits can be acknowledged
to nobody; the fleet is reconfigured while it serves; money moves early in a
request whose outcome is decided late; statuses are compared by name in places far
apart; a handler picks its week in one connection and reads the rows of it in another,
while tables are loaded one after the other; and files are replaced while they are
read. `PROJECT.json` lists each hazard at its line with the properties that
cover it, or why none does yet.

## Modules

| Module | Models | Built from |
|---|---|---|
| `X402Claims` | the x402 rail across workers: probe, replay lookup, verify, claim, settle, record, execute, economics | `enforce_x402_payment`, `x402_claims.py`, `settle_with_facilitator`, `logger.py` |
| `SettlementLedger` | the abstract promise of that rail | refined by `X402Claims` |
| `X402Claims_proofs` | theorems about `X402Claims` | TLAPS |
| `RequestLifecycle` | one request through the metering middleware and the execution boundary, both rails seen by their outcomes, MPP in full | `MeteringMiddleware.dispatch`, `api/routing.py`, `mpp.py`, `mpp_client.py` |
| `PaidDelivery` | the abstract promise of the middleware | refined by `RequestLifecycle` |
| `RequestLifecycle_proofs` | theorems about `RequestLifecycle` | TLAPS |
| `PolicyConfig` | the payment policy as data: parse, repair, gap filling, lookup, effective rails (no state) | `_parse_config_payload`, `_build_effective_endpoint_policy` |
| `PolicyCache` | the policy cache of one worker: lock, TTL, fetch, fallback, restart | `get_runtime_payment_policy_config` |
| `Admission` | a request through `ApiKeyMiddleware` and the classifier, each asking the policy cache; extends `PolicyCache` | `ApiKeyMiddleware.dispatch`, `classify_request`, `payment_policy_snapshot_for_request` |
| `Admission_proofs` | theorems about `PolicyConfig`, `PolicyCache` and `Admission` | TLAPS |
| `ArtifactStore` | the store as a worker reads it, the exporter, and a paid request around its two calls | `_load_valid_artifacts`, `check_intelligence_artifact_availability` |
| `ArtifactStore_proofs` | theorems about `ArtifactStore` | TLAPS |
| `AgentRegistry` | registration, refusal, attribution and management of agents by concurrent requests | `ensure_agent_record`, `ensure_external_agent_record`, `routers/agents.py` |
| `AgentRegistry_proofs` | theorems about `AgentRegistry` | TLAPS |
| `OutcomeSummary` | overlapping runs of the refresh command, the weekly loads, and the endpoint | `refresh_stim_select_outcome_summary`, `stim_select_outcomes_summary` |
| `OutcomeSummary_proofs` | theorems about `OutcomeSummary` | TLAPS |
| `WeeklyTables` | the tables, the connections of a handler, the bounds of histories; no request of its own | `utils/history_bounds.py`, the `engine.connect()` blocks of the routers |
| `SymbolRoutes`, `ListRoutes`, `StwrReports`, `BreadthRoutes`, `ModelPortfolios` | the endpoints of these groups, each extending `WeeklyTables` | the routers of the same names |
| `Decisions`, `RegimeRoutes`, `PortfolioRoutes` | the judgement of symbols, markets and portfolios, and their endpoints | `decision_service.py`, `regime_*.py`, `market.py`, `decision.py`, `portfolio.py` |
| `DataRoutes` | composes them: validation, payment, handler, loader | `PrePaymentSemanticRoute` and all of the above |
| `WeeklyTables_proofs` | lemmas about orders, limits, weeks and buckets of any tables | TLAPS |
| `DataRoutes_proofs` | theorems about `DataRoutes`, on top of them | TLAPS |
| `MC...` | the instance of each module for TLC | |

### X402Claims

State. Per request: `pc`, the authorization and encoding it presents, whether it runs
in claiming mode, its outcome, and its `/settle` call (`post`). Shared: `claim` and
`owner` are the rows of `x402_payment_claims`, `moved` what the facilitator did,
`econ` the economics rows, `flags` the two environment switches of each worker.
`claimant` and `executed` are history. One action is one step between two points where
another worker can act: `ReplayCheck`, `Verify`, `Acquire` (the INSERT in its own
transaction), `PostSettle`, the reply (`SettleConfirmed`, `SettleUnconfirmed`),
`RecordSettled` or `RecordUncertain` (the UPDATE in its own transaction), `Execute`,
`Finalise`. A commit under a database fault may have happened or not and the caller
sees the error in both cases. `FacilitatorSettle` moves the funds at any time after
the POST, also after the caller gave up. `Restart` kills a worker's requests and
starts it with other flags, subject to `FleetRule`, the rollout order of
`docs/operations/x402_atomic_claims_runbook.md`.

### RequestLifecycle

A request arrives as a *profile*: what the middleware knows before routing (the
classifier's decision, the rail, whether proof or a reference is presented, whether
a price resolved, whether its route is wrapped). `Profile` is the set of all of
them. Actions follow `dispatch`: `AnswerEarly`, `ChallengeEarly`, `PublishGate`,
`RouteRequest`, `ValidateSemantics`, `ConsultGate` or `NoGate`, `EnforceX402`,
`EnforceMpp`, `Authorize`, `Endpoint`, `Finalise`, `Capture`, `Void`, `LogEvent`,
`LogEconomics`. `EnforceX402` collapses the inside of `X402Claims` to what its
outcomes say of the money. Requests have distinct ids here; a reused id is in
`X402Claims`. The control plane is external: each accepted authorize call reserves,
and a reservation may expire.

`cancel` covers the case the finaliser guards against: the downstream call ends
with no response at all. An exception below the middleware normally arrives as an
error response, because the mounted `v1` application turns it into one.

### PolicyConfig and PolicyCache

`PolicyConfig` is a pure module. A path stands for a path and its method; a list of
paths or prefixes is the set of paths it covers; endpoint policies are a set of
records, each with its `place` in the list the code searches from the front.
`Parse` is `_parse_config_payload` with its repair of entries that name no rule, or
an identifier for one (`Repair`), and its filling of gaps from the defaults
(`Complete`). `Lookup` and the operators after it are the questions the
middlewares ask.

`PolicyCache` is one worker. Its threads are the event loop, on which the
middlewares run, and the pool, on which endpoints run. State: `cached`, `cachedAt`,
`lastGood` and the lock (`holder`) are the globals of the module; `pc`, `waiting`,
`answer` and `result` are a call's control point and locals; `published` is the
control plane's present policy; `sentAt`, `asOf` and `failedAt` are history. `Call`,
`Hit`, `Miss`, `Reply`, `Store`, `FetchFails`, `FetchRaises` and `Leave` are one
call of `get_runtime_payment_policy_config`. `FetchFails` is any exception of the
`except` tuples; `FetchRaises` is any other (`http.client.IncompleteRead` from
`response.read()` is one), which passes through the `with` block. `urlopen` and
`read` wait separately, each for at most the socket timeout: `Reply` restarts
`waiting`, and `Tick` lets no single wait pass `Timeout`. `Restart` is a worker
that dies and is replaced.

### Admission

Per request: the middleware it has reached (`stage`), the bound `snapshot`, the
authentication mode (`auth`), the classifier's `decision`, and the configuration
each middleware went by (`used`, history). `serving` is the request for which the
event loop is inside the policy call: the call is synchronous, so while it lasts no
other request's middleware moves, but pool threads, the control plane and the clock
do. `Admit` is the path from the artifact check to the end of
`ApiKeyMiddleware.dispatch`, `Classify` is `classify_request`. A caller is a member
of `Caller`: its path, whether it is a preflight, what its key is worth, how it
identifies itself as an agent, the payment method it names, and whether the
artifact its path sells is gone. An exception in the policy call fails the request.

### ArtifactStore

State. `manifest`, `file` and `stamp` are the directory and its modification times;
`snapshot` and `holder` are `_cache` and `_cache_lock`; `loading` is the locals of
`_load_valid_artifacts`. Each `stat` and each read of a file is an action
(`CheckManifest`, `CheckEntries`, `StatManifest`, `ReadManifest`, `SignEntries`,
`LoadEntries`, `Store`), so the exporter can act between any two. Around it a request
goes through `CheckAvailability`, `AvailabilityKnown`, `CallEndpoint` and `Respond`.
The exporter (external) may tear, replace or remove a file and the manifest; `Orderly`
says that it writes files before the manifest that lists them. Every edit gives a new
signature: two edits that leave a file with one time and one size are not modelled.
Without `Orderly` a file that is missing when it is signed gets no signature, and its
appearance is never noticed: the code relies on the order, and so do the theorems.

### AgentRegistry

Each SQL statement of `ensure_agent_record` and of the agent endpoints is an action
and a transaction; any may fail, and the request goes on with the record it has. A
call draws a uuid of its own, named as the call. `agents` is a function of the unique
key, so that an agent has one row; what is to be shown is that every request uses the
id in it. Requests refused by artifact availability are logged before registration
and without an agent; they are not in the model.

### OutcomeSummary

Time is counted in `loaded` weekly loads. A run of the command creates the table,
takes `generated_at`, and then in one transaction computes, deletes and inserts the
row of each key it was asked for; `view` is the snapshot its first SELECT fixed,
`lock` the row locks it keeps until the end, `Victim` the deadlock that InnoDB breaks.
The endpoint changes nothing: `stim_select_outcomes_summary` is an operator, and the
properties speak of what it answers in every state. Rates and averages are fractions.

### The data routes

A loader commits batches of rows (`Load`), each after the batches it `needs`. A
handler opens connections one after another; `view` is the snapshot of the open one,
taken at its first query. `pc` names the point between two connections or queries
where a load can fall. `matched` is what a query selected before it was cut to the
limit, and `first` what was committed when the handler began (both history).
`DataRoutes` puts a request through its validator, payment and handler. The weights,
thresholds and scores of the decision rules are exact integers or fractions.

What the code does that a reader may not expect, and the model has:
the latest selections, published list and screener take their week from all
exchanges, also when one is asked for; `stim/latest` compares estimates and data of
two connections; an `exchange` given beside a pair replaces the pair's; the handler of
the leadership summary accepts `*` and `EQ`, which its validator refuses; an evaluated
portfolio is scored over the positions that were found, with their weights normalised;
the windowed histories (reports, breadth, rotation) are sent oldest first, so that a
truncated one lacks its newest weeks; and a symbol without rows is a 404 after
payment.

## Runs

| Run | Question | Bounds |
|---|---|---|
| `claim` | who settles, who executes, what the records say; refinement of `SettlementLedger` | 3 requests, 2 request ids, 1 authorization in 2 encodings, 1 worker, crashes and database faults |
| `rollout` | do claiming and legacy requests ever race while operators follow the rollout order; does every request end and every claim resolve | 2 requests, 2 workers, restarts with other flags, no database fault |
| `uncertain` | (violation) does the economics row of an uncertain settlement stay pending | 2 requests with one request id |
| `lifecycle` | unpaid delivery, wrong charge, wrong capture, disagreeing rows, authorizations left open; refinement of `PaidDelivery` | 1 request, every profile, every switch, every fault |
| `policy` | what concurrent readers of the policy get, how old it is, what a partial payload does to prices, whether the lock is ever lost | 2 threads, 3 payloads, TTLs of 1 and 2, waits of 1, clock to 5, failures, exceptions, restarts |
| `admission` | is one request judged under one policy; does anyone reach the subscription lane without a key; is a subscriber ever charged | 1 request with every caller class, event loop and a pool thread, 4 payloads, clock to 1, all faults |
| `enforced` | (violation) is a keyless caller let in for the challenge challenged | as `admission`, no faults |
| `artifacts` | what a reader of the store is answered while it changes and expires; what a payer is left with; does the lock come free | 2 requests, 2 files, 3 envelopes (one replaced, one tampered), 2 manifests, 1 edit, 1 tick |
| `agents` | who is refused, under which id a request is logged, what a customer is told | 3 calls (interchangeable), 2 customers and an external caller, 1 failed statement |
| `outcomes` | what the rows are summaries of, what is served while they are replaced, do stored and live answers agree, does a run end | 2 runs with 3 choices of keys, 3 loads (one without a mature outcome), failures, lock waits |
| `data` | what the answers of the data endpoints may say of weeks, truncation, staleness, leaders, regimes and portfolios | about 150 requests, 6 instruments on 4 exchanges, 3 weeks, 16 batches, window of 5 |
| `notes` | (violation) do the notes of an evaluation speak of the week's performance | as `data` |

Several properties are conjunctions of named parts, each with its own comment:
`RowsAreOfOneView`, `AnswersAgree` and, in `DataRoutes`, `LatestIsCoherent`,
`HistoryIsWhole`, `DerivedIsExact`, `JudgementsAreOfTheirWeeks`, `PortfoliosAreFair`
and `OnlyThePastIsTold`. `PublishedIsWhole` and `SummaryIsExact` rest on the loader's
order, which `needs` states and which is not under `src/`: estimates before the
selections drawn from them, weekly rows before the summaries of them. The other
properties hold for batches in any order the instance allows.

Why the bounds are enough. The claims protocol has two roles per authorization, the
winner of the INSERT and everybody else; three requests give a winner, a loser and
a latecomer, and two encodings separate the artifact's reference from the payment's
identity. Authorizations do not interact except through a reused request id, of which
`claim` has two for three requests. In `RequestLifecycle` requests meet only in the
replay lookup, whose outcome is part of what a single request may meet. In
`PolicyCache` the lock leaves two roles, its holder and who waits; a clock of 5 holds
a fetch, an expiry, a failure, a second expiry and a recovery. The payloads of
`policy` are one that says nothing, one with an identifier for a rule, and one that
omits a rail and adds an endpoint in front. In `Admission` requests meet only in the
cache, which the pool thread also fills and expires, so one request suffices; the
paths of `MCAdmission` are one for each class the two middlewares tell apart, and its
payloads move a path from one class to another. In `ArtifactStore` a lock again leaves
two roles, and one edit or one expiry at any point of a two-file load is every way a
load can be overtaken once. In `AgentRegistry` three calls are two that race to
register and one that disables. In `OutcomeSummary` the arguments hold the two
opposite lock orders and an overlap of a single key. In `DataRoutes` requests do not
meet at all, so one at a time suffices; the batches of the newest week arrive table by
table and instrument by instrument, and the weeks lie 4 and 13 apart, as the trend
report asks. The theorems remove these bounds for the properties they state.

Fairness. `FairSpec` of `X402Claims` and of `RequestLifecycle` asks weak fairness of
the steps of each request and nothing of the facilitator, the control plane, the
database, crashes or operators. The code justifies it: a request runs on its worker's
thread until it returns, and each remote call is bounded by a timeout (`_post_json`,
`_mpp_post`), after which the caller takes the failure branch. `FairSpec` of
`PolicyCache` asks weak fairness of each thread's steps inside a call, for the same
reason (`urlopen(..., timeout=...)`). Crashes are not fair: they may happen or not.
`threading.Lock` promises no order among its waiters, so the liveness property there
is `LockReleased`, that the lock always comes free, and not that every waiting thread
gets it; `LockComesFree` of `ArtifactStore` is the same for its lock, under weak
fairness of the steps of a thread inside it. `FairSpec` of `OutcomeSummary` asks weak
fairness of each run's steps: a run that waits for a lock waits for a run that goes
on, or InnoDB ends one of the two (`Victim`). `AgentRegistry` and `DataRoutes` have
straight-line handlers and no liveness property.

### Disagreements found

Each is a run that TLC refutes and an entry under `findings`.

* `uncertain`: the update of pending economics rows is keyed by the request id the
  client sends, so a later request can finalise the row of an uncertain settlement.
* `enforced`: on a path that the enforcement prefixes cover and the agent-pay
  prefixes do not, `ApiKeyMiddleware` lets a keyless caller in "so the 402 challenge
  flow can run", and the classifier, which does not ask for the enforcement
  prefixes, returns the subscription decision. The hardcoded prefixes are the same
  in both lists; a control-plane payload can make them differ.
* `notes`: the notes of a symbol's evaluation look for the performance flags `U` and
  `D`, and the column holds `+` and `-`, so the note is never written.

Met on the way, without a run of their own: an MPP request whose gate raised before
authorize is recorded `presented`, which the comment reserves for an opened
authorization; the local replay lookup searches for statuses that no MPP request is
recorded with; the runbook's usage query selects statuses under which nothing is
billed; a request refused because its agent is disabled is recorded `pending`,
although it was not challenged; the classifier's comment that all traffic past a point
is on an enforcement scope does not hold for the same reason as `enforced`; a path
under `/v1/docs/` is public to `ApiKeyMiddleware` and subscription usage to the
classifier, whose list of non-metered paths has no such prefix (`EntitledByKey` speaks
of the paths that are not skipped for this reason); a slower run of the refresh
command that began earlier replaces the newer row of a later one; a file that is
missing when the artifact store signs it is not noticed when it appears.

## Proofs

Eight modules hold proofs. They assume only the `ASSUME`s of the modules they are
about, which say how the constants are typed and that the `No...` values are not
values, that the hardcoded defaults name a rule for each of their endpoints once
(`PolicyAssumption`), that the control plane's entries stand in front of the
defaults (`CacheAssumption`, as `Complete` concatenates them), and that a set of
artifacts has a latest one (`RankAssumption`, the sort key is total); TLC evaluates
each of them in a passing run. Two hypotheses are stated in the theorems that need
them: the fleets a run starts with keep the operators' rule (`ModesAreKeptApart`), and
the exporter is `Orderly` (the theorems on what the store returns).

`X402Claims_proofs` proves, for any finite or infinite sets of requests, workers,
authorizations and encodings, any flags and any faults: type correctness, that only
the winner of a claim sends it to `/settle`, that execution is paid, that the claims
and the economics rows agree with the funds, that a claim is final, that the two modes
never race under the rule, and the refinement of `SettlementLedger`. The argument: the
invariants are not inductive, since nothing in them says that a request that is about
to settle holds the claim. `Inv` adds what each control point knows (from `acquire`
on, which row the request owns; after `SettleConfirmed`, that the funds moved), that
the `claimant` of a row never changes, and that a resolved row was resolved by it.
Each action preserves each conjunct; the refinement maps every step to a ledger step
or a stutter. `FleetInv` adds the fleet: it keeps the rule, and a request that is past
the suspension check runs on a worker that is not suspended.

`RequestLifecycle_proofs` proves type correctness, the safety invariants
`NoUnpaidDelivery`, `ChargesAreEarned` and `BooksAgree`, and the refinement of
`PaidDelivery`, for any requests, references, profiles, switches and faults. The
invariant `RInv` is about one request and says what each stretch of `dispatch` has
established: where it can be (`Progress`), what the gate decided (`Gated`), that
delivered work is covered (`Covered`), what the outcome says of the money (`Money`),
how an authorization was resolved (`Resolved`), which response was sent (`Answered`)
and what the rows say of all that (`Recorded`). `Frame` shows that an action of one
request leaves the others alone, `Stable` that a request left alone keeps `RInv`,
`Keeps` that the one that acts does; `View` is the refinement mapping.

`Admission_proofs` first proves of the policy as data that whatever the control plane
sends, `Parse` yields a well-typed configuration that keeps the defaults' endpoints,
prices and machine rails. Over that stands an invariant of three parts: the lock is
held exactly by the thread that fetches (`LockInv`), everything that can be served is a
proper configuration (`ConfigInv`), and the times fit: a cached control-plane
configuration was stored within one wait of being sent or was kept by a failure at
that very moment, and no failure is younger than the cache (`TimeInv`). The safety
and action properties of the `policy` run follow. Every step of `Admission` is a step
of the cache or leaves it alone (`PolicyStep`), so all of this carries over, and the
module adds per request: what either middleware used is what is bound, and `auth` and
`decision` are the two decision functions applied to it. The decision functions are
then compared as such (`KeyBeforeSubscription`, `SubscriberVerdict`).

`ArtifactStore_proofs` proves the four safety and action properties of its run. The
signatures are the heart of it: an edit gives a signature that was never recorded
(`StampInv`), so a file whose signature is still the recorded one still holds what the
snapshot, or the load in progress, has of it (`RecordInv`); `NamedInv` is the
exporter's order. Over that, `QuietInv` says that a call during which nothing changed
has seen the store as it is, `PayerInv` what a payer's first call has established,
`FreshInv` that nothing expired is carried on.

`AgentRegistry_proofs` proves the run's four properties. `IdInv` says that a uuid
drawn by a call is the id of that call's agent or of none, `EnsureInv` what each step
of the registration knows of the row it works for, `HandleInv` the same for the
management endpoints, and `LogInv` that a logged id is the agent's.

`OutcomeSummary_proofs` proves `RowsAreOfOneView`, `RefreshedIsServed` and
`AnswersAgree`. A run's pending rows are of its one view, which is not before its stamp
(`RunInv`), and the table only ever changes by a commit of rows that were locked until
then (`TableInv`). `AnswersAgree` is about the figures of one answer, for any loads:
a stored row is the summary of the load it names (by `RowsAreOfOneView`), the averages
and rates of a horizon are over the outcomes it counts (`RatesAgree`), and a request that
gives the window of a stored row as its dates selects the same outcomes
(`ImplementationsAgree`).

`WeeklyTables_proofs` has what the data routers share. Induction over numbers is done
without the library's induction theorems: the set of the numbers a fact does not hold
for has no least member (`Inductive`), and a recursive function that is chosen is shown
to exist and to satisfy its equation (`Recursion`). From that: `FirstInOrder` (ORDER BY
... LIMIT) returns the right number of rows, none that any row left out comes before,
and does so for every order that is total on the rows; the newest week is the week of a
row; a probe of one row more than the limit tells whether there are more; and the
buckets of a history are whole but for the last.

`DataRoutes_proofs` proves all that the `data` run checks, and the types, for any tables,
batches, requests, limits and windows:

- `TypeOK`, within `Frame`: an open connection sees a set of batches that the loader
  had committed at some moment of the call, and no connection is open where the
  handler does not read. `Moved` is what every step of every handler does to it.
- `PaidIsNotRefused`: `HandlerRefusesLess` compares the validators with the handlers,
  `HandledElsewhere` shows that no other handler refuses (`PayInv`).
- `OnlyThePastIsTold` (`PastInv`): of a model portfolio only closed positions are told.
- `LatestIsCoherent`: the week in `anchor` is the newest week its endpoint had in a
  snapshot between the first one and now, and the rows of the answer are of it (`LatestInv`, with
  what each handler holds between two of its reads).
- `HistoryIsWhole` (`HistoryInv`): the answer is truncated exactly when rows are
  missing, keeps the newest, and cuts at most the last bucket.
- `PortfoliosAreFair`: the sums over positions are recursive functions on finite sets,
  which the lemmas first show to exist and to be bounded term by term; then a weighted
  score lies between its positions' scores, rounding included, a portfolio leans to a
  side only if a position does, a comparison does not depend on the order of its
  sides, and the best candidates are those taken.
- `JudgementsAreOfTheirWeeks`: a symbol is judged in the newest week of the market it is
  judged against (`MarketHeld`, what a request knows between its two queries), high
  confidence is earned by the score, ties between candidates are broken by estimates
  of the portfolio's own week, and the average change of the forecast telescopes to the
  span of its weeks (`SpansTheWeeks`).
- `DerivedIsExact` (`DerivedInv`): a week that has selections is whole in every table they
  are made from, so what is published is what meets the thresholds; the summary is
  asked exactly by those it can answer, and the scope a request names is the scope its
  summary rows were made of, so such a row is what aggregating its week would give; a
  request that falls back on the raw rows aggregates rows of one snapshot.

Assumptions on the constants of `DataRoutes` and `OutcomeSummary`, all evaluated by TLC
on the instances: tables are finite and their rows dated, as the schema's primary keys
make them (`TablesAssumption`, `RowsAssumption`, `DataAssumption`); the values that stand
for an absent parameter are not values (`OmittedAssumption`, `ExchangesAssumption`,
`RowAssumption`); a request is what FastAPI's declarations let through to a handler
(`QueryAssumption`, `PositionsAssumption`, `PathAssumption`); and, about the loader, which
is not in the repository, estimates of a week are loaded after rows of that week
(`EstimatesAssumption`), as `stim_is_stale` presupposes: only estimates that are behind
are looked for; a week's selections are loaded together and after the rows they are made
of (`SelectionsAssumption`); and a summary row is the aggregate of its week's rows, all
of them loaded before (`SummaryAssumption`). What the code adds to these is what is
proved: that between two queries, two tables and two snapshots nothing of it is lost.

Only model-checked: liveness (`RequestsEnd`, `ClaimResolves`, `AuthorizationResolved`,
`LockReleased`, `LockComesFree`, `RunEnds`), which the installed provers cannot reach.

## Not modelled

Payload parsing, amounts and signatures (data the properties do not tell apart); the
content of challenges and of discovery documents; the startup assertion and the route
table of the execution boundary; the routers `ai`, `workflows`, `pricing`, `meta` and
`observability`, which answer from static tables or from the log; `signals.py`, which
is not mounted; rounding and formatting of figures; the legacy column fallback of the
log writer; `record_failed`, which has no caller. `PROJECT.json` gives each component's
status.

## Left for later work

1. Composition: the profiles of `RequestLifecycle` drawn from what `Admission`
   decides, in place of all of `Profile`; the x402 step of `RequestLifecycle`
   implemented by `X402Claims`. To be proved: every decision of `Admission` is a
   profile, and the money of a settled claim is the money of its request.
2. Route recognition and the startup assertion: that a challenge before routing goes
   only to routes the boundary would have enforced.
3. The OpenAPI contract cache of `main.py`.
