# APIcost in TLA+

APIcost is a proxy between an application and its LLM providers. A client sends
OpenAI-shaped requests with a *proxy key*; the proxy authenticates the key,
enforces the project's budgets, may answer from a semantic cache or route to a
cheaper model, forwards to the provider, and records every request in a ledger.
A control plane (a second FastAPI application) changes projects, keys, budgets
and rules and serves the dashboards; a worker (ARQ) drains the ledger and runs
the scheduled jobs. The processes share two stores and nothing else: Postgres,
which is durable and transactional, and Redis, which is fast, may lose its data
and takes part in no transaction.

The modules below are translated from the Python under `src/backend/src/apicost`
(paths in this file are relative to it). `PROJECT.json` maps each definition to
the lines it stands for, and lists the hazards each property is about.

## 1. Inventory

| component | state | operations | interacts by | what is hard | what makes it correct | module |
|---|---|---|---|---|---|---|
| key authentication `proxy/auth.py` | `auth:*` entries in Redis (TTL 60 s), `proxy_keys` rows | resolve, purge | reads what every control-plane handler writes | a resolution is several reads and a Redis write with no transaction; purges fail or are overtaken | a revoked key stops working; staleness is bounded | `AuthCache` |
| control plane `api/routers/{proxy_keys,projects,routing,budgets}.py` | rows of keys, projects, rules, budgets | create, revoke, edit, kill | commits after the handler returned (`api/deps.py`), purges Redis before or after | purge and commit in either order | every change reaches the data plane | `AuthCache` |
| provider-key vault `vault/provider_keys.py`, `api/routers/keys.py` | encrypted keys in Postgres, ciphertext cache in Redis | add, delete, load, test | used by the pipeline | purge before commit, a conflict check with no constraint behind it | a deleted key is not used for long | `ProviderKeys` |
| budget enforcement `budgets/enforcement.py` | Redis spend counters per project, period and bucket | check, record | definitions come with the resolved key | check-then-act over a whole provider call; fail-closed only for hard stops; period rollover | hard stops hold, counters follow the ledger | `Budget` |
| pipeline `proxy/pipeline.py`, `core/deadline.py` | one request's progress, its deadline | budget, cache, routing, key, forward, escalate, record | calls every component of the data plane | fail-open stages under one deadline, second attempts | an optimisation never costs the user the answer; a served request has one ledger event that tells what happened | `Pipeline` |
| streaming `proxy/streaming.py` | a stream on its way, its tee | read, yield, inspect, record, keep, replay | provider, client, pipeline, cache | reads end anywhere, either end hangs up, cancellation at any await | bytes unaltered, honest row, only whole answers replayed | `Streaming` |
| routing `routing/` | none (rules come with the key) | classify, decide, escalate | pipeline | rule order, cost of second attempts | an excluded request stays on its model | `Pipeline` |
| semantic cache `cache/` | exact entries in Redis, rows with embeddings in Postgres, hit counters | look up, store, invalidate, expire, flush hits | pipeline, cache router, worker | two stores, TTLs, two calls that count one hit, counters read and then deleted | an invalidated answer is not served; no count is applied twice | `SemanticCache`, `Pipeline` |
| ledger writer, drain `ledger/writer.py`, `worker/tasks.py` | capped Redis stream, consumer group, `requests_log` | XADD; read, insert, score, acknowledge | feeds statistics, rollups, dashboards | overlapping jobs, crashes between any two steps, trims, Redis flush | what is acknowledged is durable, nothing folded twice | `LedgerDrain` |
| statistics, anomalies `anomaly/{store,pipeline,zscore}.py`, `stats/` | windows, running mean and variance; Redis copy and Postgres checkpoint | load, fold, score, save | fed by the drain, raise alerts | lost updates, rows out of order, a baseline recovered by undoing an update in doubles | windows judged by the windows before them, on ledgered requests only | `LedgerDrain`, `SpendWatch` |
| alerts `anomaly/alerts.py` | cooldown keys, `alert_events` | claim, persist, send | scan jobs, drain | claim before persist | a lasting incident is filed | `Alerts` |
| rollups `ledger/rollup.py` | daily sums and histograms | windowed rebuild | read the ledger | overlapping rebuilds, late rows | counted rows stay counted, every row is counted | `Rollup` |
| cost and dashboards `ledger/{cost,pricing}.py`, `api/routers/{usage,requests,cache,routing}.py` | none | price, sum, page | read the ledger and rollups | many queries of the same numbers, cursors over a growing log | one story on every page; pages skip nothing | `UsageReports`, `RequestLog` |
| digest `notify/digest.py` | `last_digest_sent_at` | due, build, send, mark, unsubscribe | reads the ledger | send-then-mark, retries, hour drift | one mail a week, no week skipped | `Digest` |
| advisor `advisor/` | recommendations | replace open ones; break-even | user decides in a tab | job and tab race on rows | decisions are final; honest break-even | `Advisor`, `BreakEven` |
| accounts `api/routers/auth.py` | refresh-token families | sign in, refresh, logout | control plane | concurrent rotation, reuse detection | a dead family stays dead | `RefreshTokens` |
| billing `billing/stripe_gateway.py` | plan of the account, `billing_events` | webhook: claim, apply, release | Stripe | duplicated, reordered, half-applied events, a second subscription beside the first | each event once; the plan that is paid for | `Billing` |
| the rest | web client, provider adapters, metrics, logging, configuration, router training | | | | | none |

## 2. Modules

One module per component; `MC*` give the constants their values and, where
several small components are checked together, compose them; `*Proofs` hold the
theorems, `ControlPlaneProofs` and `JobsProofs` those about every part of the two
compositions, and `ProofLemmas` what the proofs share; operators named as "a bug ... could have" are deliberate mistakes,
kept beside the definition they falsify, and no specification uses them.

**`RevocationLease`** is the abstract specification of both credential caches: a
cached entry is a lease that only somebody who saw the key live can write, that
lasts TTL ticks and is not renewed by use. It has no handlers, messages or purges.

**`AuthCache`** (implements it): `proxy/auth.py` with every handler that changes
what a key resolves to. `resolve_proxy_key` is `CacheHit`, or `CacheMiss`,
`ReadKeyRow`, `ReadProject`, `Store`: one action per await, so that any commit can
fall between two of its reads. Revocation is `RevokeFlush`, `RevokePurge`,
`RevokeCommit`, in that order, because `get_session` commits after the handler
has returned; edits of settings, rules and budgets have the same shape; the kill
switch commits first and purges then. A purge or read of Redis may fail; any
request or handler may end at any point. What a resolution carries of the project
is one version number. `quiet` is a history variable: how long ago the last
outdated read of a key was in flight.

**`ProviderKeys`** (implements it too): the ciphertext cache has one entry per
user and provider, so `KeyStore` overwrites what another key left there; rotation
is delete, then add. `TestConnection` reads the row and never the copy.

**`Budget`**: the check before a request and the recording after it, for several
overlapping requests of one project. Time is a day, `period_bucket` a function
`Calendar` from days to period instances. A request carries the budgets it
resolved with, which may be the cached ones.

**`Pipeline`**: `run_pipeline` from the budget verdict to the ledger event and the
cache entry, for requests that meet in the cache. One action per stage: `Arrive`
(what cannot be cut off), `LookupExact`, `Embed`, `LookupSimilar`, `RecordHitAgain`
(the second count of a similarity hit, which no guard covers), `Route`, one of the
provider's outcomes, `Escalate`, `Record`, `Store`. `FailOpen` is the guard of a
stage: it takes some time of what the deadline leaves and yields a result or none.
`Aliases` are the names a provider may give a model in a stream: a streamed answer is
recorded, and cached, under one of `NamesOf` its model, any other under the model asked.
`Decisions` is the routing engine, rules before a classifier that may say anything.

**`Streaming`** opens the step `Streams` of `Pipeline`: SSE events as pairs of bytes
(the event and its blank line), reads of any length, a tee that is suspended at its
yield with the event in hand uninspected, a client that leaves, a connection that
breaks, the `finally` block, the cached body and its replay in chunks.

**`SemanticCache`** opens the two stores of `Pipeline` for one prompt: store (INSERT,
Redis, commit), invalidation (DELETE, sweep, commit), and the maintenance job that
moves hit counts from Redis into the rows (HGETALL, DELETE, one transaction), with
the row locks that order them. A lookup that finds an entry owes one call of
`record_hit` by the exact path and two by the similar one; each call is a step of its
own, may be lost, and may come after the entry is gone.

**`LedgerDrain`**: `emit_ledger_event`, `drain_ledger`, and the statistics each batch
is folded into. The cron starts a job every five seconds with no regard to the
last one, and all of them read as one consumer, so `Drains` jobs overlap. An entry
is its position in `log`; the stream is the positions after `first`, which trims
and flushes move. The statistics are abstracted to how often each event was folded in.

**`SpendWatch`** opens those statistics: sorted batches of one or two rows,
one-minute windows, Welford's update and its inverse, the verdict. Doubles are fixed
point with `Scale` units to one: a quotient or product that falls between two units is
rounded to the nearest, so that undoing an update leaves the kind of residue it leaves
in the code. **`Alerts`** is what happens to a verdict.

**`Rollup`**: rebuilds as READ COMMITTED transactions of several statements with a
snapshot each; an INSERT waits for, or fails on, primary keys that another rebuild
has inserted. **`UsageReports`** prices rows as the pipeline records them and
defines each report by its own query; **`RequestLog`** pages through the log with a
cursor while the drain inserts above and below it.

**`RefreshTokens`**: reads without locks, writes at the commit, family UPDATEs that
lock the rows they saw. **`Billing`**: Stripe as the environment, which emits and
redelivers; a handler claims, applies, answers or releases. An account may check out
again while it has a subscription, as the endpoint for a plan change lets it: that
makes a new customer and a new subscription, and the old one runs on until it is
cancelled, so `sold` is a sequence and each event names one of its members. **`Digest`**,
**`Advisor`**, **`BreakEven`**: the weekly mail, the nightly job against the user's tab,
and the search for a break-even volume.

### Composition

`Pipeline` joins the components a request runs through. `MCRedis`, `MCAccount`,
`MCControlPlane` and `MCJobs` join components that share no variable; `MCRedis` and
`MCControlPlane` ask for liveness, and `MCAccount` checks with larger bounds what is
asked of safety only. There every interleaving of one
part with another is equivalent to the parts on their own, so a variable `focus`,
chosen at the start and never changed, says whose steps are taken: the states are
the sum of the parts' and not their product, and every property of a part holds in
the composition exactly if it holds of the part. Their actual interactions are in
the parts themselves, as environment actions (`RowArrives`, `LogInsert`,
`IncidentTurns`, the rows of `UsageReports`).

## 3. Runs

| run | bounds | shows |
|---|---|---|
| `redis` | one key, two resolutions, two handlers, TTL 2, one change, every kind of edit; two events, one malformed, two jobs, one fault | `ImplementsLease`: the cache implements `RevocationLease`; `KillIsFinal`; `RevokedDies`: a revoked key dies for good with no purge needed; `EventuallyDurable`; `TypeOK` |
| `auth_kill_recache` | one of each | violates `KillSwitchContains` |
| `auth_revoke_order` | one of each | violates `RevocationInvalidates` |
| `ledger_reclaim` | one event, one job, one fault | violates `PendingIsReclaimed` |
| `account` | two connections, four budgets over two periods, one edit, one fault, one midnight; three ledger events, one malformed, two jobs, batches and stream of two, two faults; one webhook handler, five events, two paid plans, no fault; two cache entries, one wipe, TTL 1, one lookup of each entry | `CountersAddUp`, `BoundedOvershoot`, `HardStopIsNeverMasked`; `AckedIsDurable`, `BaselineIsDurable`, `FoldedOnce`; `PlanIsPaidFor`; `WithdrawnStaysWithdrawn`, `CountsNotDoubled`; the type invariants |
| `pipeline` | two requests of four profiles (routed; streamed and throttled; excluded by one of two conflicting rules; routed and throttled), two similar prompts, two models, one unit of budget, one row | `TypeOK`, `SharedDeadline`, `ReplaysAreSound`, `CallsAreLicensed`, `EventsTellTheTruth` |
| `pipeline_throttle` | one throttled request | violates `ThrottleIsCheap` |
| `control_plane` | two auth requests and five tokens; two webhook handlers, three events, two paid plans, one fault; three key ids, two handlers, one forward, TTL 2 | `ForksNeedOverlap`, `DeadFamilyStaysDead`; `AppliedExactlyOnce`, `QueueDrains`; `DeletedKeyExpires`, `ActiveKeysBounded`; the type invariants |
| `billing_price` | two handlers, three events | violates `PlanFollowsPrice` |
| `jobs` | one stream of up to four events; one cache entry, one wipe; two ledger rows, two rebuilds over half-days 0 to 4; two report rows around a price change at midnight; three log rows on two timestamps, pages of one; four watched rows of three costs, `Scale` 64; two alert types, one fault; two weeks, one fault; three recommendations of two titles; nine volumes of tokens | one or two properties for each part: `StreamsAreFaithful`, `HistogramNotBehind`, `NeverForgets`, `RollupCatchesUp`, `ReportsAgree`, `PagesAreComplete`, `JudgedByThePast`, `SpikesAreSeen`, `IncidentIsHeard`, `OneDigestAWeek`, `DecisionsAreFinal`, `BreakEvenIsHonest`; the type invariants |
| `savings_escalation` | one row, one price list | violates `EscalationIsALoss` |
| `streams_metered` | one stream of up to two events | violates `StreamsAreMetered` |

Why the bounds are enough. In `AuthCache` every race is between one resolution
and one or two handlers of one key; keys are independent except that a kill or an
edit purges all of them at once, and the theorems cover any number. A TTL of two
ticks distinguishes an entry that is fresh, ageing and gone; the same holds for
`ProviderKeys`, where three ids are a key, its successor and one added beside it.
In `LedgerDrain` two overlapping jobs, a batch smaller than the log and a stream
shorter than it make every delivery, trim and overlap happen; two faults allow a
failure while recovering from one. `EventuallyDurable` excuses every fault, so two events
are enough for it. In `Budget` two requests are enough for one to
overtake the check of the other, a request may cost more than a whole limit, and
`MaxSpend` lets counters pass the bound of `BoundedOvershoot`. In `Pipeline`
requests meet only in the cache; slots are reused, so entries are replayed after
their writer is gone. In `RefreshTokens` five tokens let two requests fork a token,
rotate the forks and meet a reuse. In `Billing` three events are a checkout (which
is two) and a change, a cancellation or a failed payment, delivered to two handlers of
which one may fail; the five of `account` are two checkouts and an event of either
subscription, or one checkout and three changes, delivered in any order to one handler. In `SemanticCache` two stores meet in the one
entry of the exact path, and one lookup by the similar path owes two calls. In `Rollup` the clock starts one
window after zero and the window moves over a midnight, so a row can arrive
before, in and after it. The usages of `UsageReports` lie on both sides of a bucket's bound.
In `SpendWatch` four rows close three windows: two make the smallest baseline a
verdict may rest on, the third is judged. A scale of 64 has no exact third, and none of the
rows' costs is so small that rounding decides a clear case.

Fairness. `AuthCache`: time passes, and a resolution that has begun ends, since
every await of it returns or raises; clients and operators owe nothing, and no
fairness is given to purges. `LedgerDrain`: the cron starts jobs for ever and a job
takes its steps. `Billing`: Stripe redelivers until it gets a 2xx, and a handler
that has claimed goes on; what stops one is a fault, of which there are finitely
many. `Rollup`: the cron starts a rebuild every minute and one that runs goes on.
`Alerts`: Redis expires its keys, the detectors run every few minutes, and a raise
that has begun goes on, faults aside. Weak fairness suffices everywhere: no
liveness property depends on winning a race infinitely often. Nobody is obliged
to sign in, buy, send or hang up. The fairness of `redis`, `control_plane` and `jobs` names
the part in focus, since the others stand still.

Deadlock is checked in the runs of `AuthCache`, `LedgerDrain` and `Pipeline`, which
never stop. The other parts do stop: an account whose last event has been delivered, a stream that is recorded,
a log that is full, two weeks that are over.

## 4. What the runs show

What holds.

- *Credentials.* Staleness of a cached key is bounded by one TTL, counted from the
  last moment an outdated read was in flight (not from the purge, which may come
  too early). A key that is revoked, out of the cache and in nobody's hands stays
  dead. Two active provider keys can coexist, but no more than there were handlers
  at once. A connection test reads the row and says nothing about the copy in use.
- *Accounts.* A refresh token has two successors only when rotations overlapped;
  a family with no live token and no rotation under way never comes back, whatever
  commits late. An access token is not revoked by any of this and outlives a
  logout by its own lifetime (15 minutes).
- *Billing.* An event that met no crash, no lost release and no duplicate in
  mid-air takes effect exactly once. If effects happened in the order of emission the
  plan is the one the last subscription pays for, as long as that costs what it was sold
  at, and no event of an earlier subscription can change it: those name a customer the
  account is no longer linked to. (So nothing of ours cancels an earlier subscription
  either: after a plan change it is the user who has to end the one he had.) Stripe does
  not promise that order and nothing sorts by it.
- *Ledger.* Acknowledged entries have their rows, the statistics never know a
  request the ledger does not, and none is folded twice. A window is judged by the
  windows before it, to within rounding, and a clear spike does not hide itself.
- *Budgets.* A hard stop is never masked by another budget or by an unreadable
  counter, and is overshot by no more than one request for each connection.
- *Requests.* Guarded stages never take more than the one budget they share, a
  replayed answer is whole and belongs to its prompt, an excluded request stays on
  its model, there is a second call only to take a routed request back to the model
  asked for, and the ledger's flags and models agree with the calls, up to the name a
  provider gives a model in a stream. However a stream is cut,
  its bytes reach the client unaltered and its row does not call it complete.
- *Cache.* An answer whose row was invalidated and whose sweep succeeded is not
  served again. (A store that begins during an invalidation and commits after it
  keeps its answer: it was never withdrawn. A sweep that fails leaves the exact
  entry for its TTL.) Whatever the maintenance job meets, a count is lost at worst and
  never applied twice.
- *Numbers.* A counted row stays counted although rebuilds overlap; all reports
  tell one story of the same rows; pages of the log skip and repeat nothing.
- *Jobs.* One digest a week and no week skipped by drift; a user's decision on a
  recommendation survives the job; the break-even volume agrees with the advice.

What the documents say and the code does not do (`findings` in `PROJECT.json`):

- A kill can be undone for up to a TTL by a request that had read the key before
  the kill's commit and stores its resolution after the purge.
- `revoke_proxy_key` purges before its transaction commits. Requests in between
  re-cache the key.
- A batch whose insert failed is never reclaimed: the drain only asks for new entries.
- A throttled request that routing had already sent to the cheap model can still be
  escalated to the strong one, because the branch that would clear the routing
  decision is skipped.
- The cost of escalation is always reported as zero: an escalated request is priced,
  and compared, on one model with the tokens of both calls.
- An Anthropic stream is recorded without its tokens, because nothing calls the
  translation of its chunks and the tee cannot read them.
- A subscription that moves to another price leaves the account on the plan it was sold,
  because `_plan_from_object` looks at the metadata, which never changes, before the price.

Other disagreements met while modelling, stated by no property:

- A similarity hit awaits a second `record_hit` outside every guard
  (`proxy/pipeline.py:372-373`), so a Redis that stalls there takes it beyond the 150 ms
  that `core/deadline.py:9` calls "the ceiling the product promises". The model has the
  call (`RecordHitAgain`) and its time; `SharedDeadline` promises no more once it is due.
- The same call counts the hit a second time (`cache/semantic.py:237`: "Count a cache
  hit, in Redis."). `SemanticCache` counts lookups (`found`) and calls (`recorded`)
  apart, and `CountsNotDoubled` is about calls.
- A flat baseline is not recognised after an update has been undone in doubles, and a
  window slightly dearer than all before it is announced as a spike: after sixty windows of
  $0.01 one of $0.0105 scores z = 1.3e8. `anomaly/pipeline.py:124` calls the update
  "exactly invertible", `anomaly/zscore.py:102-106` wants a plain multiple where every window
  cost the same, and `docs/CODEBASE_GUIDE.md:276-277` says of `stats/welford.py` that windows
  are merged, "never by subtracting". The model rounds as well, so that the false spike is
  among its behaviours; `JudgedByThePast` and `SpikesAreSeen` say what holds in spite of it.
- `budgets/enforcement.py:14-15` speaks of an overshoot of one request, which is
  true of each connection and not of the project; lines 18-20 name a
  `budgets/reconcile.py` that does not exist, so a counter that drifted stays so.
- A budget created in mid-period counts from its creation (`CountersAddUp` speaks of
  budgets that were there from the start).
- The docstring of `ensure_partitions` says the next pass provisions a partition for
  rows older than its window; no pass looks outside the window.
- A digest whose sending fails in the last run of its hour is skipped for the week.
- A title the user adopted is suggested again; only dismissed titles are filtered.
- An alert's cooldown is not given back when its row cannot be written, so the
  incident is filed a cooldown late (`IncidentIsHeard` needs that it lasts).
- The "routed" filter of the log returns rows that the log labels "error".
- A snapshot name that a stream's row is recorded under may have no price; then the
  row costs nothing in the ledger and in the budgets.
- A second checkout bills the user for two subscriptions until he cancels one.
- A stream without a usage block is recorded with estimated tokens and cached with none.
- A hit on an escalated answer carries the tokens of both calls.
- What the throttle saves appears in neither of the two splits of the savings.
- `usage` pages show whole calendar days, also for a range that begins within one.

## 5. Proofs

Eight modules hold theorems, checked by TLAPS for every number of keys, requests,
handlers, jobs, rows and events, every TTL, limit, calendar, window, rule, model
and bound. Every safety property that a passing run checks is a theorem, but
`SpikesAreSeen`. The proofs assume
what the modules name: positive TTLs, stream, batch, page and day sizes, natural
bounds, `Malformed` a subset of `Events`, finite sets of connections, handlers and
models, a set of aliases for every model, a calendar in which later days fall into the same or later instances, cheap
substitutes that have no cheaper one, rules that sorting can put in an order, plan
names other than "free" and "none", log ids and times that are integers (what
matters is that they are ordered), prices and token counts that are naturals, a
positive capacity of a GPU, a digest hour that is no longer than the pause before a
resend, where that pause is over when next week's hour begins (`WeekAssumption`), and a
clock of the rollups that starts no later than it stops. Of the spend watch they assume a
window, a `Scale` and a minimum of observations of at least one, and nothing of how
quotients come out.

- `AuthCacheProofs`: `TypeCorrect`, `CacheIsALease`, `BoundedStaleness`,
  `RevocationIsFinal`, `KillSwitchIsFinal`. `CacheIsALease` maps every step of the
  two planes to a step of `RevocationLease` or a stutter. Staleness is not inductive
  alone: a resolution in flight can still write an outdated entry, so the invariant
  also says that while such a read exists `quiet` is zero; `Tick` is where both meet.
- `LedgerDrainProofs`: `TypeCorrect`, `AcknowledgedIsDurable`, `BaselineFollowsLedger`,
  `RequestsFoldOnce`. The strengthening follows a batch through its job: from the insert
  on, its well-formed entries are in `requests_log`, and so is all that the job's copy
  of the statistics knows. For `RequestsFoldOnce`, an entry is delivered once, so a
  batch that is not folded yet is disjoint from every copy of the statistics.
- `BudgetProofs`: `TypeCorrect`, `HardStopsHold`, `OvershootIsBounded`, `NothingIsLost`.
  `Room` reserves one request's cost for every connection past its check: in every
  instance that is or will be current, the counter plus what those requests may still
  add stays under the limit and one request per connection. `NothingIsLost` is about sums:
  `Balance` says that what was counted and what is `Owed` by rows already in the
  ledger make up the ledger, a step moves one entry of two sequences, and `TotalMoves`
  carries that to their totals.
- `PipelineProofs`: `TypeCorrect`, `OnlySoundReplays`, `BudgetIsShared`,
  `NoUnlicensedCall`, `LedgerTellsTheTruth`. `DataInv` says what a request holds at each
  stage and that every entry of either store is sound; `CallInv` ties a request's stage
  to its calls and events: no call before the provider's stage, one or two after it,
  which two, and by which model, under which name, the answer in hand is. `BudgetIsShared`
  follows the time a request has used through the guarded stages; the unguarded call of
  a similarity hit (`RecordHitAgain`) is a step of that argument, after which the theorem
  promises no more of it.
- `StreamingProofs`: `StreamingTypes`, `StreamsStayFaithful`. Every byte read so far is
  with the client or in the tee's buffer, in order and once; the text the tee has put
  together is that of the events up to the last one it inspected; a row says
  "completed" only if that one was "done". The replayed chunks are consecutive pieces
  of the kept text, whatever their size (`ReplayIsWhole`).
- `ControlPlaneProofs`, of `ProviderKeys`: `CopyImplementsLease`, the second refinement of
  the lease, which needs that the id a handler is about to add is in no row and in no
  other handler's hands; `DeletedKeysExpire`, by the argument of `AuthCache`;
  `KeysAreBounded`, since a commit only moves an addition to the rows and the check
  lets one begin only when there are no rows. Of `RefreshTokens`: `DeadFamiliesStayDead`
  and `ForksAreOverlaps`, from an invariant that ties each rotation to a known token and
  to a new id of its own; only a consumed token has successors, and `Accepted` refuses
  it, so that after the first commit they come only from rotations already open. Of
  `Billing`: `EventsApplyOnce`, whose invariant follows an event from its claim (in one
  handler's hand it is committed exactly if that handler is done; claimed and in nobody's
  hand once; unclaimed not at all), and `PlansArePaidFor`, which charts the
  linked customer and the plan after each prefix of the events (`Charts`) and shows the
  account at the point of the chart that the committed events have reached; an event of a
  subscription that is not the last does not move the chart (`OneOfSeveral`). `ControlPlaneRunsItsParts` and
  `ControlPlaneTypes` put them together.
- `JobsProofs`, part by part:
  - rollups (`HistogramKeepsUp`, `CountedStaysCounted`): what a rebuild has deleted it can
    count again, and what it has counted in one table it counts in the next. That the
    DELETE by day takes nothing the SELECT by timestamp leaves out rests on the window's
    start being a midnight;
  - cache (`InvalidationIsFinal`, `CallsAreNotDoubled`): an invalidation has committed rows
    in hand and has them for itself (`DoomedRows`), and what its sweep took out of Redis
    no store brings back (`SweptOut`); until the DELETE Redis has what the job has read, and
    the calls made and still owed are never more than two for each lookup;
  - log (`LogPagesAreComplete`): what was there when the reader began and is not shown
    lies beyond the cursor, which is the oldest row shown (`Remaining`), hence below
    whatever the next page skips;
  - advisor (`DecisionsStand`): the job locks open rows only, so no user holds one of
    them; what it will insert was not dismissed when it looked, and what was stays dismissed;
  - digest (`OneDigestEachWeek`): nobody marks but the job, and the mark tells which
    weeks are done (`MarkIsHonest`); the argument is about distances on the clock and
    uses every inequality of `WeekAssumption`;
  - break-even (`BreakEvenAgrees`): properties of division rounded up;
  - reports (`ReportsAlwaysAgree`): every row is priced as its model and flags say
    (`ReportsInv`), after which the reports are sums over the same rows, grouped by model,
    day or bucket, and a percentile is a count of a subset;
  - spend watch (`WindowsAreJudgedByThePast`): `SpendInv` says that the running mean is
    that of the closed windows to within n units of the last place and that windows neither
    overlap nor lose a row or a cent (`WindowsStand`, `Holds`). A rounded quotient is off by
    half a unit (`RoundingError`); `UpdateDescribes` adds one such error per update, half
    of n*n in all, and `UpdateAndBack` that of the inverse, which leaves it within n*n. The
    squared deviations carry an error that no such bound holds for (section 4, flat
    baselines); so the theorem speaks of the mean, and of deviations only
    that they are not negative. A longer batch is sorted before it is
    folded row by row, so it is that many batches of one row;
  - all of them (`JobsRunsItsParts`, `JobsTypes`): a run of the composition is a run of each
    part, so that what is proved of a part holds of the whole.
- `ProofLemmas`: what several of these need about rounding, sequences and sums over
  intervals and finite sets (splitting, grouping, subtracting, counting).

Induction. The library's induction theorems take an operator as their parameter,
which no installed prover instantiates. `NatSetInduction` and `SubsetInduction`
say the same with a set in its place, which is enough for particular recursive
functions and for sums over finite sets; a fold of a given short sequence is unfolded
by exhibiting the function it recurses with (`FoldOfTwo`).

Only model-checked: the liveness properties (`RevokedDies`, `EventuallyDurable`,
`QueueDrains`, `RollupCatchesUp`, `IncidentIsHeard`), which need ENABLED and are
beyond the prover, and `SpikesAreSeen`, whose margin covers the rounding of few windows
and is not shown to cover that of any number.

## 6. Abstractions and what is not modelled

- *Doubles* are fixed-point integers in `SpendWatch`, with quotients and products rounded
  to the nearest unit. A double rounds relative to its size and not to a fixed place, and
  its subtractions round too; the residue of an undone update has that cause in the code
  and the other in the model. `welford.merge` is called by nobody.
- *SSE* events are separated by LF LF. A provider that sends CRLF would never be
  split, and its stream would reach the client only when it ends.
- *Similarity* is a relation on prompts, the classifier may say anything, a weak answer
  is any answer; embeddings, features and `normalize_prompt` (which drops fields that
  are lists or objects, so that prompts differing in them share an exact entry) are
  below that level. The isolation forest is library code.
- *The KMS* succeeds or fails; encryption, password hashing and token signing keep no state.
- *A full rebuild* of the rollups is only asked for by hand, and left out, as is the
  provisioning of partitions: it adds tables and takes none away.
- *Plan limits, context advisory, latency metrics* change no control flow of a request
  but an early refusal or a header. Time zones of the digest are one zone.
- *Projects, alert resolution, account deletion* are edits of rows that no other step
  of a model reads.
- *Provider adapters, application shell, logging, configuration* keep no state of the
  system; router training is an offline script over a data set; row-level security is
  Postgres policy; the web client is presentation.

What could follow: `Budget`'s counters with their expiry, `Pipeline` with
`Streaming` in place of its one step, and the spend watch on the statistics that
`LedgerDrain` may lose and reload.
