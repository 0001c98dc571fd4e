# InstantBoard in TLA+

InstantBoard collects finance and technology news from external sources and
pushes it to browsers over server-sent events. This directory specifies the
parts of it that are hard to test: what happens when its asyncio tasks, its two
processes, Redis, PostgreSQL and its clients interleave and fail. Every
definition is translated from the code (paths are relative to the repository);
`PROJECT.json` maps each one to the lines it stands for.

```
tlc   -workers 2 -config SseRouter_safety.cfg MCSseRouter.tla    # any run below
tlapm SseRouter_proofs.tla                                       # any *_proofs module
```

## 1. The system

Two Python processes share PostgreSQL and Redis: the **api** (FastAPI, one
gunicorn worker in production, which also routes the SSE streams) and the
**worker** (APScheduler and the collectors). In development the api embeds the
scheduler. The frontend is a Vue application.

| Component | State | Operations | Talks to |
|---|---|---|---|
| SSE event router and streams (`core/sse_router.py`, `services/sse.py`, `api/v1/sse.py`) | connection table, channel index, one bounded `asyncio.Queue` per stream, history lists in Redis | register, unregister, `push_event`, Redis listener, heartbeat, stream generator, replay | Redis Pub/Sub, browsers; called by api handlers and by collection runs |
| Source lifecycle (`services/source.py`, `api/v1/sources.py`) | table `sources` | create, update, delete; each publishes a *hint* before its transaction commits | Redis Pub/Sub to the worker |
| Worker process (`scheduler/worker.py`) | listener task, heartbeat key | start, snapshot, rebuild, handle hints, shutdown | reads `sources`, drives the scheduler |
| Scheduler and health (`scheduler/manager.py`) | job store, `_original_intervals`, `_adaptive_multipliers`, table `source_health` | add, remove, run, update health, adaptive rescheduling | the SSE router (are there viewers?), the pipeline |
| Collection pipeline (`manager.py` 361-516, `collectors/base.py`, `processors/`) | Redis sets of seen entries, table `items`, rate counter | rate check, fetch with retries, de-duplicate, filter, categorize, transform, store, announce, commit | external sources, Redis, the router |
| Collectors (`collectors/finance`, `collectors/tech`) | none | fetch and parse one kind of source | HTTP, the API key pool |
| API key pool (`core/api_keys.py` and the three keyed collectors) | Redis: a rotation counter per service, marks of limited and invalid keys | get a key, mark it, fall back to the local list | Redis; called for each request to a keyed service |
| Finance service (`services/finance.py`) | quote cache, rate window, `finance_symbols`, `finance_quotes`, watchlist | quotes, indices, commodities, fund values, search; watchlist add, remove, reorder | collectors one after the other, Redis, database, the router |
| Authentication (`services/auth.py`, `core/security.py`, `dependencies.py`) | users, token blacklist, login counters and locks | admin login, SSO login, refresh, logout | database, Redis |
| Categories, tenants, tags (`services/category.py`, `tenant.py`, `item.py`, `api/v1/admin.py`) | tables | guarded writes, each one transaction | database |
| Dashboard (`services/dashboard.py`) | last sample, snapshots; the worker's heartbeat key | sample and push, archive, read the heartbeat | Redis, database, the router |
| Frontend (`utils/api.ts`, `utils/sse.ts`, stores) | tokens in local storage, stream state | single renewal and retry after a 401, reconnect | api |

**What is hard.**
*Router:* a put on a full queue suspends the delivering task in the middle of a
loop over a copied set, so streams come and go under it; three kinds of task do
this at once; a publication comes back as an echo.
*Lifecycle:* hints precede commits, Pub/Sub forgets what nobody hears, the
worker restarts, and two requests on one row meet at its lock.
*Scheduler:* jobs are removed and added during their own run; multipliers are
memory, health is a row.
*Pipeline:* the seen-mark, the announcement and the row of one entry live in
three stores with one commit at the end and no way back.
*Tenant data:* every check reads before it writes and READ COMMITTED keeps
nothing in between; JSON columns are written back whole; cascades meet inserts.
*Keys and quotes:* many callers share one rotation and one rate counter, whose
read and write are apart, and Redis may go in the middle.
*Logins and sessions:* INCR, EXPIRE and SET of a lock are three calls; the check
and the mark of a refresh token are apart; tabs share one storage.
*Dashboard:* a deployment runs two workers over one heartbeat key.
`PROJECT.json` lists each hazard at its line with the properties that watch it;
the few without a property say why there.

**What makes each part correct.** Router: index and table agree; nobody gets
another tenant's event or a channel not asked for; a delivery that ends has
reached its audience; order and multiplicity hold; a slow reader releases those
who wait. Lifecycle: a settled worker has a job exactly for an active row. Scheduler: a job's trigger follows its health,
through restarts and re-adds, and returns to full rate. Pipeline: it keeps the
promises of a ledger (`ItemLedger`); repeats and losses have known causes only.
Tenant data: limits are passed only by overlaps, and by no more than their
number; what is lost is lost to a named overlap. Keys: no usable key is passed
over and every call ends. Quotes: what is cached has been stored, and the rate
counter loses nothing but to an overlap. Sessions: a token is exchanged twice
only by an overlap; a logout ends what it names. Logins: attempts are bounded,
a lock without end has a named cause, the two kinds of users never mix.
Dashboard: a missing heartbeat has a named cause; a page's drift is bounded.

Many of these say what can go wrong and *only* that: where the code has a race,
the property names the overlap that is its cause, so that the run shows that
nothing else leads there.

## 2. Modules

| Module | Models | Extended by |
|---|---|---|
| `SseRouter` | the router and the streams of the api process | `MCSseRouter`, `SseRouter_proofs` |
| `WorkerSync` | requests on sources, hints, the worker's start and listener | `MCWorkerSync`, `WorkerSync_proofs` |
| `Scheduler` | job table, health, adaptive back-off | `MCScheduler`, `Scheduler_proofs` |
| `Collection` | what a run does with the entries of a source | `MCCollection`, `Collection_proofs` |
| `ItemLedger` | what a collection pipeline promises; `Collection` implements it | instantiated by `Collection` |
| `TenantData` | the transactions of a tenant's requests | `MCTenantData`, `TenantData_proofs` |
| `Sessions` | tokens: renewal, logout, revocation, and the tabs that use them | `MCSessions`, `Authentication_proofs` |
| `Logins` | admin and SSO logins: counters, locks, users | `MCLogins`, `Authentication_proofs` |
| `KeyPool` | API keys and the collectors' loops over them | `MCKeyPool`, `KeyPool_proofs` |
| `Quotes` | market data requests: cache, rate window, failover, storage | `MCQuotes`, `MonitorQuotes_proofs` |
| `Monitor` | the worker's heartbeat and the metrics loop | `MCMonitor`, `MonitorQuotes_proofs` |

The modules meet at narrow places. `Collection` details the one step of
`Scheduler` that is abstract there (a run succeeds, fails or breaks).
`WorkerSync` decides which jobs `Scheduler` has; `TenantData` has the same
requests on sources with what they check in the database, and leaves their hints
to it. `push_event`, with which a run announces an item, is `PublishRemote` of
`SseRouter` when the worker calls it and `PushBegin`, `PushPublish`,
`PushDirect` when the api does. A failed call of `Quotes` or `Collection` to a
keyed service is a call that `KeyPool` gives up. `Logins` makes the users whose
token pairs `Sessions` follows.

### SseRouter

*State.* `registered` and `subs` are `_connections` and `_subscriptions`;
`queue` is each connection's queue, kept after unregistration because a
suspended task still holds the object. `pc`, `cur`, `phase`, `todo` and `at`
are the program counter and locals of each task in `_on_redis_message`;
`published` and `read` are the listener's subscription. `owed`, `served` and
`copies` are history.

*Atomicity.* asyncio is cooperative: `running` holds the event loop until its
task awaits. `Queue.put` awaits only on a full queue, so a delivery is a
sequence of `DeliverPut` broken by `DeliverBlock` (the queue is full) and
`Resume` (a `get` woke the put). Every other action requires a free loop. A
delivery walks its set in any order (Python iterates a set).

*Handlers.* `Register` is `connect` up to its audit commit, which may fail
(`AuditCommit`); `EnterLoop`, `Drain`, `Unregister` are the generator with its
`finally`; `LeaveEarly` is a client that goes before the `try`. `push_event` is
three steps, since history and publication await. `DeliverAll` is the second
loop, over the "all" subscribers, whose set is copied when the first loop ends.
`ListenerDies` ends the listener at the first connection error for good.

### WorkerSync

*State.* `row` is the committed `is_active` of each source; `req` each request
with the value it read (`seen`), wants and holds after refresh (`value`);
`inbox` the hints received and not handled; `hint` the source whose settings
the listener awaits; `snap` the startup query; `jobs` the job store.
`disturbed` is history: the sources hit, since the worker started, by one of
the races and failures that the code does not survive. They are: a hint the
worker does not hear; a hint of an update that wrote nothing itself; a hint
published after that of an uncommitted delete; a transaction that fails after
its publication; a hint handled between snapshot and rebuild that removes a
snapshotted source; a request uncommitted at the snapshot; hints lost with the
listener.

*Atomicity.* One action per stretch between awaits on the database or Redis.
`Locked` is PostgreSQL's row lock: an update that changes a column holds it from
flush to commit, a delete takes it at commit. Reads see committed rows only.

### Scheduler

*State.* `jobs`, `paused`, `interval` are the APScheduler store; `original` and
`mult` the two dictionaries of the manager (multipliers in quarters, since
10.0 halves to 5.0, 2.5, 1.25 and is cut at 1.0); `status`, `fails` the row of
`source_health`; `stage` the one run a job may have. `embedded` tells the api's
scheduler, which pauses jobs nobody watches and hears no hints, from the
worker's.

*Handlers.* `AddJob`, `RemoveJob`, `Restart` act on the table at any point of a
run; `RunSucceeds`, `RunFails` are `_update_health_after_collection`;
`RunBreaks` is every exit that reaches neither health nor rescheduling; `Adapt`
is `adaptive_reschedule`. Every source has its row of `source_health` from the
transaction that creates it (`source.py` 274-283, `init_db.py` 512-546) and loses
it only with itself; the branch that inserts a missing one (`manager.py` 561-574)
then fails on the foreign key and is part of `RunBreaks`.

### Collection

*State.* `marks` is the Redis set of seen entries; `rows` and `told` count the
items and the announcements of each article (0, 1, many); `todo`, `passed`,
`session` are the entries before the chain, after it and in the database
session. `lapsed` and `hit` are history: articles whose mark was lost or not
consulted, and articles of a batch that was rolled back or died.

*Handlers.* `DedupCheck` and `DedupMark` are the two awaits of the first
processor, both open on errors; the other processors await nothing and follow
at once (`PassOn`). `StoreNext` adds one item and announces it. `CommitOk` and
`CommitFails` are the one commit of the batch, `Refused` the constraint
`uq_items_dedup`. `MarksLapse` is the 24-hour lifetime, eviction or a restart of
Redis. An article is one title and url, which is what the mark hashes; an edited
headline is another article with the same url and date (`KeyOf`), and an
undated article gets a new date at every passage.

The variables `rows`, `told` and `lapsed` (as `excused`) are, under the refinement
mapping of `Collection`, the state of `ItemLedger`: rows enter by whole batches
and are never taken back, announcements come one by one, and nothing comes twice
but an article that has been excused by name. Fetches, retries, marks, the
chain, crashes and rollbacks are stutters of it.

### TenantData

*State.* The rows of one tenant that its requests race for: `slugOf` each
category (`None`: no row), `sources`, the `tags` of one item, `overrides`, the
watchlist `pos`, `maxSources`. `at`, `seen`, `next`, `dirty` are each request's
transaction, `held` the rows and index keys it has locked. `overtook` is
history: which request committed between another's first read and its end.

*Atomicity.* Each await on the database is a step: `Advance` reads committed
rows and ends the request if a check fails, `Write` waits for the locks of
others and lets the constraints decide again, `Commit` makes the effect visible,
`Abort` is any error of the database, Redis or the process. An insert with a
foreign key shares the row it points to, a delete excludes that (`KeyShare`,
`Exclusive`); two reorders of the watchlist that wait for each other are broken
by the database (`Deadlocked`).

*Handlers.* One operator per endpoint, with a disjunct for each of its steps.
Tags and overrides are read, changed and written back whole. `Reclassify` writes
whatever list the categorizer gives: only `add_tag` knows `MAX_ITEM_TAGS`, so that
a collected item (`ItemTags`) or a reclassified one may have more tags than the
limit (`category.py` 381-388, `categorizer.py` 201-221), which `TagsLimited`
names; the comments and documents promise no more. `AddToWatchlist`
stores position 0, because the request model fills in the field that the
service tests for being absent. `EditTenant` never commits: the handler flushes
only.

### Sessions

*State.* A login or renewal issues one pair of tokens, known by its number;
`expired` and `stale` are pairs whose access or refresh token has run out;
`accessMarks`, `refreshMarks` the blacklist in Redis; `store` the local storage
that all tabs share; `tab` the one request of each. `traded`, `raced`, `lost`,
`ended`, `crossed` are history.

*Handlers.* `Refused`, `StoreRenewed`, `Leave` are the interceptors of
`api.ts`: one renewal for each 401 with the refresh token stored at that moment,
only the new access token kept, the storage cleared at the end whatever another
tab stored meanwhile. `RefreshCheck` and `RefreshIssue` are `refresh_token`
before and after its awaits; `RefreshDies` loses the answer after the mark.
`Logout` marks the access token alone. `Restart` turns the kill switch of local
sessions, a setting of the process.

### Logins

*State.* `fails`, `ticking`, `locks` are the Redis counters of failed attempts,
which of them have a lifetime, and the locks; `users` the table with its two
unique constraints; `req` the request of each handler.

*Handlers.* `admin_login` is `Check`, `VerifyOk` or `VerifyFails`, and then
either `Incr`, `Expire`, `Lock` (twice: for the email, for the address), any of
which may break off, or `Clear` and `UpsertAdmin`. `sso_login` is `SsoFind` (by
identity), `SsoByEmail`, `SsoSave`, or `SsoRefresh` for a known identity. An
account may come with any email of `SsoEmails` or none; then the placeholder of
the code is used. Counts stop at the threshold, which is as far as they matter.

### KeyPool

*State.* `rotation`, `limited`, `invalid` in Redis, and `call`: one caller of
`fetch_data` followed through its loop, beside any number of others, who turn
the rotation and mark keys at any moment (`OthersRotate`, `OthersMark`).
`call.fresh` is history: keys without a mark since the call began.

*Handlers.* `KeyCount` is the INCR of `get_key`, `KeyScan` one key of its lap
(each is an await of its own), `KeyFallback` the process-local cursor without
Redis. `Use` is what the collector does with a key or with none: finnhub and
iex_cloud try a symbol again with another key, at most once more than there are
keys; alpha_vantage asks for a key for each symbol. `CallRefused` marks the key
(429: limited; 401, 403: invalid), `CallEnds` is every other outcome.

### Quotes

*State.* `cache` (the symbols whose data each ask holds), `window` (the one
counter that all these calls share, because their source id is always "mock"),
`rows` and `stored` (symbols and quotes in the database; a quote names the
symbol it is *of*, so that a foreign quote shows). `overlapped`, `passed`,
`exceeded` are the history of the window.

*Handlers.* `Ask` is a miss; `RateRead`, `RateWrite`, `RateUnknown` the rate
check with its await; `FetchEnds` what a collector returns after its retries;
`RowRead`, `StoreQuote`, `Publish` the storage, the cache and the event. A symbol
without a row gets one with the type of the item, and the database refuses the
types "cn_index" (any quote of eastmoney) and "cn_stock" (yfinance, of a symbol in
.SS or .SZ): then the request fails and leaves nothing (`Refused`). Rows of such
symbols come from searches, whose types are all accepted, or are there at the
start (`Known`). `SearchRows`, `SearchOutside`, `NavRead` the search and the fund value.

### Monitor

*State.* `beat` is the time left to the heartbeat key, in heartbeat intervals;
`worker` the main loop and heartbeat task of each process; `last`, `since`,
`round` the locals of the metrics loop; `view` what a browser shows. `wiped`,
`quiet`, `gap`, `misses` are history.

*Handlers.* `Write` refreshes the key; `Signal`, `CancelBeat`, `ClearBeat` are
the shutdown, which deletes the key whoever wrote it; `Tick` is one interval, in
which no loop oversleeps. `Collect` samples, pushes the fields that changed
enough and keeps the sample as the base of the next comparison whether the push
arrives or not; `Archive` stores a snapshot or fails and tries again next round.

## 3. Runs

| Run | Properties | Shows |
|---|---|---|
| `SseRouter_safety` | `IndexMatchesRegistry`, `TenantIsolation`, `OnlySubscribedChannels`, `CopiesBounded`, `ListenerOrder`, `DeliveryComplete` | the router's safety, with suspensions, leaving streams and an outage |
| `SseRouter_live` | `SlowReaderReleases` | a suspended task goes on when its client reads, with three tasks waiting for one place |
| `WorkerSync_hints` | `TypeOK`, `SettledInSync`, `Resyncs` | jobs follow rows outside the named races, and a restart repairs them |
| `Scheduler_health` | `TypeOK`, `BackoffFollowsHealth`, `RecoversStepwise`, `FullRateReturns` | health and trigger stay in step and recover |
| `Collection_runs` | `TypeOK`, `RepeatsNeedLapse`, `LossesAreNamed`, `EventuallyStored`, `ImplementsLedger` | the pipeline implements the ledger; repeats and losses have the named causes; entries get stored also while Redis is away |
| `TenantData_rows` | `LimitsHold`, `TagsLimited`, `CascadesNamed`, `TagsKept`, `PlacesDistinct`, `SlugClashes`, `RequestsEnd` | limits, cascades, tags, places and slugs go wrong only by the named overlaps; no addition of a user takes the tags of an item beyond their limit; every request ends |
| `Sessions_tabs` | `ReuseNeedsOverlap`, `RevokedWhenTraded`, `SessionEnds` | a refresh token is exchanged twice only by an overlap or a lost mark; a refused renewal revokes nothing; a logout ends the session, or a crossing renewal is named |
| `KeyPool_keys` | `NoKeyMissed`, `CallsEnd` | no usable key is passed over; every call ends, also without Redis |
| `Quotes_requests` | `RateHolds`, `CachedIsStored` | the limit is passed only by overlapping reads of the count or without Redis; what is cached has been stored |
| `Quotes_cnstock` | `QuoteIsOfSymbol`, *violated* | once a Chinese stock has its row, its quote is that of an index |
| `Logins_handlers` | `AttemptsBounded`, `StuckNamed`, `AdminIsolated` | attempts before a lock, locks without end, and the separation of the two kinds of users |
| `Monitor_deploy` | `PhantomNamed`, `ViewFollows`, `SnapshotGap`, `SteadyIsShown` | what the dashboard may miss while one worker replaces another, and that it recovers; how far a page drifts |

A mutant of the code, defined next to what it mutates, breaks each property of
each passing run. `CHECK_DEADLOCK FALSE` stands
in `SseRouter`, `Sessions` and `TenantData`, where events, logins and requests
are finite and the system comes to rest; the other systems have always something
to do, which TLC checks.

**Known disagreements.** `QuoteIsOfSymbol` has a run of its own and a finding
that quotes the document. Seven more statements of comments and documents are
defined in the modules, with the place that makes them, and are false of the
code; put one in the place of the properties of the module's configuration and
TLC shows how:

| Statement | What the code does |
|---|---|
| `SseRouter`: `FullQueueDrops` | a full queue suspends the task; the code's own `except QueueFull` never runs |
| `SseRouter`: `DirectPushIsFallback` | the "fallback" always runs, so clients of the publishing process get events twice (`CopiesBounded` bounds it) |
| `SseRouter`: `GoneIsCleanedUp` (under `FairSpec`) | a stream that ends before the `try` stays registered |
| `WorkerSync`: `StartupKeepsHints` | hint, snapshot, commit in this order revive a disabled source, without any failure |
| `Scheduler`: `ViewersResume` | a paused job is not resumed when viewers arrive |
| `Scheduler`: `DuplicatesHarmless` | a re-added job falls back to its first interval |
| `Collection`: `AnnouncedIsStored` | an edited headline fails its batch; the new entry next to it is announced, marked and never stored |

**Bounds.** All are constants of the models or guards that name them.

* `SseRouter`: two streams (one on a channel, one on "all", same tenant) or one;
  events of two tenants and of none, two of them; two channels, one of which
  nobody chose by name; capacity 2, or 1 where liveness is checked: a full queue
  and two waiting tasks are the interesting cases and both occur. `MaxBeats` is
  0 in the safety run (its second kind of writer is the publisher) and 1 in the
  liveness run. Foreign tenants occur on the events' side; a third client adds
  no new interaction since clients meet only through the tasks.
* `WorkerSync`: one source (sources share nothing but the worker, whose restart
  and listener are in the model), two requests, so every pair of create, update
  and delete and each of them against the startup; one crash. The initial row
  is any of absent, on, off.
* `Scheduler`: one source (jobs share nothing), the real thresholds 3 and 10,
  failures counted to 11, two intervals of which one is odd, so that truncation
  shows. Restarts are unbounded.
* `Collection`: three articles (one dated, its edited headline, one undated),
  two versions of the feed, one with a repeated entry; two attempts instead of
  three; counts saturate at two. Runs, lapses, outages and crashes are
  unbounded.
* `TenantData`: three requests, each made once, in 666 combinations chosen so
  that they touch the same rows; a third request is what turns two correct
  overlaps into a wrong one (a limit passed twice, a delete between). Limits of
  2 own and 3 system categories, 1 source, 3 watched symbols and 2 tags stand for
  the configured ones (tens to hundreds): each is reached by the calls there
  are. The initial rows are below the limits, but for the item: it was collected
  with one tag too many, and one of the reclassifications writes as many.
* `Sessions`: two tabs, so that two renewals can meet; three pairs (`MaxPairs`:
  a login, a renewal and its rival or successor); marks of one pair may be lost
  (`MaxLost`). Restarts are unbounded.
* `Logins`: two handlers; one email in the form, which is also what SSO accounts
  may say (or none), two identities; locks after 2 failures of an email and 3 of
  the address instead of 5 and 20, which leaves two attempts between the first
  failure and the lock, as many as there are handlers. `MaxUsers` has room for
  every identity there can be.
* `KeyPool`: three keys of finnhub, so that a lap may begin in the middle and
  meet a good key first, last or between, and one of alpha_vantage; two symbols
  of a call. Others, outages and cooldowns are unbounded. iex_cloud has the loop
  of finnhub.
* `Quotes`: two requests; one symbol of each kind (the Chinese one in .SS) and
  two indices, of which eastmoney lists one; at the start only the fund has a
  row, and in `Quotes_cnstock` the Chinese stock too; limits of 1 instead of 10, 5 and 60 a minute, which the
  second call passes. Lapses and outages are unbounded.
* `Monitor`: two workers, the real lifetime of three intervals (45 and 15
  seconds); three levels of CPU usage and a threshold of two, so that a change
  below it can add up; an archive every second round instead of every tenth;
  failures in a row stop at one (`MaxMisses`).

**Fairness.**

* `SseRouter`: weak on the task that holds the loop (asyncio runs a task until
  it awaits); strong on `Resume` and on `Drain`, because a waiting put and a
  live generator are woken in FIFO order each time they become ready, while the
  queue may be filled and emptied in between. Nothing is assumed of clients,
  who may leave, or publishers.
* `WorkerSync`: weak on the worker's start (the container restarts it), its
  listener, the steps of a started request and the recovery of Redis. Requests
  begin at will; crashes and outages need not happen.
* `Scheduler`: weak on the steps of runs: triggers fire, runs end.
  `FullRateReturns` assumes in its premise that from some point on runs succeed.
* `Collection`: weak on the steps of a run. Redis need *not* recover:
  `EventuallyStored` holds in a permanent outage. Its premise names what must
  stop in the end: failing fetches, parse errors and crashes.
* `TenantData`: weak on each handler: the event loop and the database go on, and
  a lock is waited for. Errors need not happen.
* `KeyPool`: weak on the steps of the call: every wait in it has a timeout.
  Redis need not return and keys need not become good.
* `Monitor`: weak on `Write` and on `Tick`: a loop goes on and time passes. The
  premise of `SteadyIsShown` is a worker that in the end runs alone beside a
  Redis that answers.

## 4. Proofs

TLAPS checks these for every value of the constants that satisfies the
assumption of the module (`RouterAssumption`, `WorkerAssumption` and so on):
any clients, sources or articles, any number of requests,
handlers or keys, any capacity, threshold or bound. What a set has to be
finite for is a count or a cardinality, and the assumption says so. That of
`TenantData` also takes the rows at the start as the seeds make them: within the
limits, and no two categories with one slug.

`Authentication_proofs` is about `Logins` and `Sessions`, `MonitorQuotes_proofs`
about `Monitor` and `Quotes`; the specifications of `Sessions` and `Quotes` are
`SessionSpec` and `QuoteSpec`, so that one module can extend both.

Every invariant and every action property of a passing run is proved. Each
theorem names the property of the run it states; those without one are types and
what other proofs rest on.

| Module | Theorem | Establishes |
|---|---|---|
| `SseRouter_proofs` | `TypeCorrect`, `IndexCorrect`, `QueueBounded`, `TenantsIsolated`, `ChannelsRespected`, `DeliveriesComplete`, `CopiesFew`, `ListenerOrdered` | types, `IndexMatchesRegistry`, `QueueBound`, `TenantIsolation`, `OnlySubscribedChannels`, `DeliveryComplete`, `CopiesBounded`, `ListenerOrder` |
| `WorkerSync_proofs` | `TypeCorrect`, `WorkerSettles` | `TypeOK`, `SettledInSync` |
| `Scheduler_proofs` | `TypeCorrect`, `BookkeepingCorrect`, `ThresholdsCorrect`, `RecoveryStepwise`, `BackoffCorrect` | `TypeOK`, `BookkeepingMatches`, `HealthThresholds`, `RecoversStepwise`, `BackoffFollowsHealth` |
| `Collection_proofs` | `TypeCorrect`, `RowsUnique`, `LossesNamed`, `RepeatsExplained`, `LedgerKept` | `TypeOK`, `StoredOnce`, `LossesAreNamed`, `RepeatsNeedLapse`, `ImplementsLedger` |
| `TenantData_proofs` | `LimitsKept`, `TagLimitKept`, `TypeCorrect`, `CascadesKnown`, `TagsStay`, `PlacesKept`, `SlugsKnown` | `LimitsHold`, `TagsLimited`, `TypeOK`, `CascadesNamed`, `TagsKept`, `PlacesDistinct`, `SlugClashes` |
| `KeyPool_proofs` | `NoneMissed`, `TypeCorrect` | `NoKeyMissed`, types |
| `Authentication_proofs` | `AdminsIsolated`, `StuckCountersNamed`, `AttemptsFew`, `SessionsTyped`, `ReuseNamed`, `RevokedByTrade`, `SessionsEnd` | `AdminIsolated`, `StuckNamed`, `AttemptsBounded`, types, `ReuseNeedsOverlap`, `RevokedWhenTraded`, `SessionEnds` |
| `MonitorQuotes_proofs` | `PhantomsNamed`, `ViewBounded`, `SnapshotsBounded`, `QuotesTyped`, `RateKept`, `CacheBacked` | `PhantomNamed`, `ViewFollows`, `SnapshotGap`, types, `RateHolds`, `CachedIsStored` |

**SseRouter.** Types need `Positions` (a task that is publishing or delivering
has an event). A queue can only go wrong through what a task carries across a
suspension, so `Contents` adds that every client left in `todo` follows the
channel (`TargetsWanted`) and that the client a put waits on passed the tenant
filter (`SuspendedMatches`); events never change once numbered. A delivery is
complete because of `Owing`: whoever is owed the event and still registered is
served, in `todo`, or a follower of "all" while the first loop runs. For the
copies, `Wire` says that the subscription carries each event once and that no
two tasks push the same; `Copies` then adds the copies received to those still
to come (`DirectLeft`, `EchoLeft`), a sum no step makes greater: a put uses up
what it delivers (`PutUsesOne`). For the order, `Reads`: what the listener put on
a queue stands at a place it has read, and before the event it has still to put
there; so what is put next comes last (`InOrder`).

**WorkerSync.** `Ownership`: a request that created a row has the source to
itself, and one that wrote holds a lock, so that the row cannot become "gone"
under it: what it publishes is what its commit leaves.
`SettledInSync` speaks of a source with nothing under way. The invariant
`Agreement` speaks of every moment: what the worker will believe when it has
taken every hint received (`BelievesOn`, the last hint in the inbox or else the
job), and what the row will say when the requests that published have committed
(`WillBeOn`). From the snapshot on they are the same; before it, belief implies
will, and a last hint "remove" excludes it, because the snapshot does not take
back what a hint did. A step that would part them is in `disturbed`. `Carrying` says what a
request in hand will commit and that at most one of a source writes.

**Scheduler.** Each property is inductive on top of types and bookkeeping;
multiplier arithmetic is isolated in lemmas about `StepTo` and scaling.

**Collection.** `LossesAreNamed` speaks of rest only; `Accounted` finds every
marked article in table, batch or `hit` at every step. `RepeatsNeedLapse` follows
from `Unlapsed`: an article without a lapse is unseen, once in `passed`, once in
`session`, or past the batch. `LedgerKept` is the refinement: with these
invariants `StoreNext` maps to `Announce`, `CommitOk` to `Store`, what makes an
excuse to `Excuse` and every other step to a stutter.

**TenantData.** A count at rest says nothing of requests on their way.
`RoomLeft` does: at every step, whoever has counted and will insert finds room,
but for those of its kind that committed since, all of which are in `overtook`.
With `RowsBounded` (the limit itself) and types this is inductive. The tags need
no count of requests on their way, because each writes the list it counted:
`TagsBounded` says that the list of the item, and the one any user's request is
about to write, is within the limit or part of what the collection or one
finished reclassification left (`Accounted`).
The other theorems share `Kept` (types, and `LocksApart`: no lock has two
holders) and two lemmas about any handler: what a step does is nothing visible
or a commit with the `Effect` of its call (`StepEffect`), and it leaves the other
requests alone (`KeptStep`). On top of them:
`Cascading` (a delete that has counted overtakes every source of its category
committed since); `TagsShown`, `ListsRead`, `ListsStale` (the list a request read
is the present one, or somebody overtook it); `Reordering` and `Placed` (every
entry a reorder has passed has its place, is locked or is in hand, unless it was
overtaken); `SlugsApart` and `Slugging` (a request about to write a slug holds
its key, and nobody else of the tenant has it); `LocksOf` (locks are those the
call can take, and gone when the request has ended).

**KeyPool.** `FreshIsGood`: the keys without a mark since the call began have
none now. `SearchIsFair`: none of them lies on the lap so far. `LapReaches`
(counting on modulo n from any place meets every other within n steps) then
leaves no key after a whole lap; and a key that was just denied stays invalid,
so getting it again means that Redis failed.

**Logins.** `UsersInv`: every row is free, an admin's or a member's, and a
request that has chosen a row holds one of its own kind; `SaveKeeps` shows that
no save of another request changes the kind of a row, so the choice survives the
awaits after it. `StuckNamed` is inductive on top of the types. The attempts are
bounded by `Within`: without a lock, they are at most the counter and the
handlers still on their way to it or to the lock (`Failing`); under the lock,
attempts and the handlers that were admitted before it (`Admitted`) are together
within the bound. The step from the one to the other is where `Failing` and
`Admitted` are disjoint sets of handlers.

**Sessions.** `Exchanged`: a token that nobody raced for or lost is exchanged at
most once (`Once`): its mark is there from the exchange on, and only one tab is
past the check. `Cleared`: while the storage has no refresh token, every renewal
under way is one that the clearing crossed, and so is the one that stored last.
`Ended`: a logged out token keeps its mark until it has expired or Redis lost
it.

**Monitor.** `Kept`: a worker that has lost nothing since its last write finds
the key whole before the next write falls due and one interval younger after,
which needs a lifetime of more than one interval, the one hypothesis.
`ViewFollows` is inductive by the triangle inequality of `Diff` (`CpuFollows`),
also where the count of silent rounds stops. `ArchiveInv` says that a round
begins with a snapshot overdue only when one has just failed.

**Quotes.** `Counted`: while no two calls overlapped, the window has counted
every call it let through. A count that a request holds is below the limit of
its collector (`Fits`), so the call that writes it alone is within the limit.
`Backed`: what a request is about to cache is in the tables, from which nothing
is taken. `OneQuote`: the first answer ends the chain of a quote, so that what is
stored is one item.

TLC checked each of these invariants on a small instance before it was proved.

*Model-checked only:* liveness: `SlowReaderReleases`, `Resyncs`,
`FullRateReturns`, `EventuallyStored`, `RequestsEnd`, `CallsEnd`,
`SteadyIsShown`. Liveness under fairness and ENABLED are out of this prover's
reach, as is induction over data through the library's induction theorems and
any module with a RECURSIVE operator; none of the modules declares one. That
`QuoteIsOfSymbol` fails is a counterexample, not a theorem.

`TypeOK` of `SseRouter`, `TenantData` (no lock has two holders or outlives its
request), `KeyPool`, `Sessions` and `Quotes` is proved and not in a
run.

## 5. Not modelled

* The replay of missed events (the history list of `core/redis.py` and the
  Last-Event-ID of `api/v1/sse.py`): the project's own client opens a new
  `EventSource` at each reconnect and so never sends one. The router's model has
  the history only as the await before a publication.
* The reconnecting client (`utils/sse.ts`) and the views of the frontend.
* Collectors, text processing, priorities: data without interaction. They enter
  as success, failure, refusal and the set `Kept`; HTTP is external.
* The exchange with the SSO providers and the state of its redirect: one check,
  no state of ours. What a provider says of a user is any answer of `Profiles`.
* Queries (items, technology, search filters, statistics), pagination,
  formatting, configuration, logging: no state of their own to get out of step.
* Creating and deleting tenants in `api/v1/admin.py`: like the edit, which is in
  `TenantData`, they are flushed and never committed, so they change nothing.
* Settings of a source other than activity and category; the colours and
  intervals that the overrides of a tenant name.
* Migrations, seeds and deployment. Seeds are initial states; the deployment
  says which processes there are.
* Numbers: counters of `source_health` other than consecutive failures, response
  times, values of quotes.

## 6. What could follow

1. Abstract specifications of the router (an event reaches each of its audience
   once or twice) and of the worker (jobs follow rows), as `ItemLedger` is of
   the pipeline. `Copies` with `Owing`, and `Agreement`, are most of what their
   refinements need.
2. The replay, when a client uses it.
3. The serialization of two handlers that `TenantData` describes by `overtook`
   as an abstract specification of its own: one request after the other, but
   for the named overlaps.
