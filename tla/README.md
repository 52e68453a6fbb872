# Formal models of the Level2 service

This directory holds TLA+ modules for the service in `src/`: a public web site
that queues stock-code captures, a single runner that drives Android devices to
produce them, the market-data side that feeds live charts, and the scripts that
deploy and operate the installation.  Every module is translated from the
source; `PROJECT.json` says which lines each definition stands for.

## 1. The system

One API process (FastAPI, `src/level2_service`), one Redis, one or more Android
emulators reached over ADB, a host-side device broker
(`src/scripts/macos-device-lifecycle.py`), and a host-side deployment tool
(`src/scripts/macos_deploy.py`).  All coroutines of the API share one event
loop; blocking Redis and ADB work runs in threads.

| Component | State | Operations | What is hard |
|---|---|---|---|
| Redis task store (`queue.py`, `RedisStreamsStore`) | task payloads, task index, pending list, symbol index, aliases, active counter, deployment lease | submit, refresh, retry, claim, transition, complete, cleanup, lease acquire/renew/bind/release, startup recovery | several callers, scripts that are atomic and Python operations that are not, crash between two commands, calls executed twice, TTLs |
| In-memory task store (`InMemoryStreams`) | the same, in dictionaries | the same | only used by tests and development |
| Event stream (`queue.py`, SSE routes of `api.py`) | `<stream>:events`, per-client cursors | append, read after cursor, trim | cursors older than the trimmed stream |
| Runner (`Level2Runner.run_once`, `runner_loop`, `RunnerWake`) | the task in hand, the wake-up event | claim, capture, complete, fail, hand to administrator; clear, wait, notify | Redis failing between result and state, lost wake-ups |
| Runner control (`RunnerControl`) | paused flag, administrator lock, operation leases, live sockets | lock, release, resume, register/unregister/disconnect, begin/reconcile operation, maintenance block | in memory only; two threads; sockets that outlive locks |
| Device broker (`DeviceLifecycleManager`) | per role: last operation, in-flight worker, saved state | submit, status, list, worker start/stop | status detection outside the lock, replies that get lost or overtaken |
| Navigation and OCR (`Level2Navigator`, `ADBDeviceBridge`, stitching) | screen state | taps, swipes, screenshots | driven by pixels |
| Daily check (`DailyCheckState`) | last trading day checked | mark | – |
| Market data broker (`MarketDataBroker`) | subscribers, revisions, cached quotes per code | subscribe, unsubscribe, seed, refresh, publish, poll | refresh racing poll, slow subscribers, bounded queues |
| Direct market protocol (`direct_market.py`) | pooled authenticated connections with a generation | borrow, return, refill, invalidate | generation changes while a refill is under way |
| App sessions (`app_sessions.py`) | encrypted session files, rotation state | load, rotate, mark rejected | a rotation racing use of the old session |
| Symbol catalog (`symbol_catalog.py`) | SQLite table with an active generation | refresh, search | a refresh that fails half way |
| Accounts (`market_accounts.py`, `market_api.py`) | users, watchlists, Redis sessions | create, login, logout, revoke, add/remove/move/reorder | a login that overlaps a revocation, the watchlist limit over groups |
| Administrator sessions (`security.py`) | password hash and its file, sessions, failed logins | login, change of password, logout | check, verify and count are separate steps of a thread |
| Fund flow (`fund_flow_history.py`, `database_first_fund_flow.py`) | rows per minute, cached answers, a fallback per day | collect, read | the age of a figure that was copied several times |
| Research store, premium monitor, replay, push | SQLite tables, deduplication keys | record, notify, replay | a notification sent twice or never |
| Deployment (`macos_deploy.py`) | host lease files, owner state, provisioning journal | acquire, renew, provision, accept, publish, release | a crash between any two of them |
| Web front end (`frontend/src`) | view state | polling, SSE, device screen | – |

Interactions.  Requests write to the task store; `RunnerWake.notify` wakes the
runner loop; the runner claims under `RunnerControl`'s lock, drives a device,
and stores the result; the retention loop cleans the store in the background;
the deployment tool freezes the store with a lease in Redis and runs one fixed
acceptance task under it.  The administrator takes the in-memory device lock,
which pauses the runner, and may then start or stop devices through the broker;
the API learns how that ended by polling the broker.

What makes each component correct:

- *task store* – an accepted request is neither lost nor run twice nor out of
  order; one live task per code; the cap; the lease excludes ordinary work;
  restarts keep all of it.
- *runner control and device broker* – the runner never works on a device the
  administrator or a lifecycle operation is using; a lease lasts as long as its
  operation and no longer; losing the lock requires losing the connection.
- *runner loop* – no accepted task waits for a wake-up that was lost.
- *market data* – a subscriber sees revisions in order and ends up with the
  latest; a failing source does not publish.
- *connection pool* – no connection of an old generation is handed out.
- *catalog* – what is published is nearly the whole market, whatever the source
  does while it is read page by page.
- *accounts* – a change of the password or a lock-out that reaches the session
  store leaves at most one earlier session per overlapping request; concurrent
  guesses exceed the login limit by at most their number; a watchlist keeps its
  limit and its order.
- *research, fund flow* – an event is pushed at most once; a figure is never
  older than each of the caches it passed through allows.
- *event stream* – a page that reconnects misses nothing that is still there
  and sees nothing twice.
- *deployment* – a run that dies leaves a state the next one can go on from,
  with the owner of a live lease on disk, and a journal that claims no more than
  was done.

## 2. The modules

| Module | Models | Extends / uses | State and actions in the code |
|---|---|---|---|
| `FifoQueue` | what the task store promises: jobs are started in the order in which they wait, none during maintenance, and interrupted ones go back to the front | – | abstract |
| `TaskStore` | `RedisStreamsStore` with its callers: requests, `run_once`, the retention loop, the deployment owner, restarts | `FifoQueue` (refinement) | one variable per Redis key; one action per Lua script; the operations that read a task and write it back in a second command are two actions with the value they read in between |
| `DeviceControl` | `RunnerControl`, the routes that use it, the device broker and its client | – | the control's fields, the broker's tables, the requests between the two processes (`action`, `poll`) |
| `RunnerLoop` | `runner_loop`, `RunnerWake`, the requests that notify | – | the asyncio event, the callbacks that are scheduled, the position of the loop |
| `MarketBroker` | `MarketDataBroker`, the WebSocket handler, REST callers of `refresh`, the market loop | – | one action between two awaits; the dictionaries of the broker are functions |
| `WarmPool` | `Core9528WarmPool`, `Core9528Client`, the refill threads, the refresh of the account session | – | one action per block under the pool's lock; a connection is a record that is open or not |
| `MemoryStore` | `InMemoryStreams`, the store of tests and development | `FifoQueue` (refinement) | the dictionaries of the class; an ordinary task is named by its symbol; one action per method |
| `TaskEvents` | the event stream, `events_after_cursor`, the SSE route and a page that reconnects | – | the stream, per page the last id it has shown and its connection (cursor and rest of the batch) |
| `DeploymentFlow` | `macos_deploy.py`: provisioning journal, owner state, lease, composition, login wait, acceptance, rollback; the operator, the devices, the API and Redis around it | – | what is in the memory of the tool (`tool`), the files, the devices, the service; one action per step between two effects |
| `MarketUsers` | users and their sessions: the account store, the session store with its reverse index, the routes | – | a request thread is the list of store calls it still has to make |
| `Watchlists` | the grouped watchlist of a user | – | places of groups and symbols; one action per transaction |
| `AdminSessions` | the administrator's password, sessions and login limit | – | one action per step under the lock of `AdminSessionManager` |
| `FundFlow` | the monitor, the rows, the database-first source and the cached client | – | a figure is the tick the source gave it at |
| `ResearchPush` | recording of snapshots, claims of push events by the two monitors, sending | – | the events claimed, the markers a poller still has to push |
| `SymbolCatalog` | the paged refresh against a source that changes, publication and pruning | – | the refresh under way (category, page, count), the stored versions |
| `MCServices` | the parts that share no state, one of them per behaviour | `TaskStore`, `RunnerLoop`, `WarmPool` and the modules above except `DeploymentFlow` | `part` says which one moves |
| `MC…` | instances for TLC: small sets, symmetry, a state constraint for the broker | the module | – |
| `Selection` | the part of a list that is kept: LREM, filtering loops and comprehensions | – | `Keep(list, set)`, a recursive function |
| `SelectionProofs` | lemmas about lists: `Keep`, `Append`, `Tail`, concatenation, what is listed and how often | `Selection` | – |
| `TaskStoreProofs`, `TaskQueueProofs` | types, the lease, the list, the indexes and the aliases; the counter and the refinement | `TaskStore`, the one before, `SelectionProofs` | – |
| `DeviceControlProofs`, `DeploymentFlowProofs`, `MarketBrokerProofs` | theorems about one module each | the module | – |
| `ServicesProofs` | theorems about `RunnerLoop`, `WarmPool`, `MemoryStore`, `ResearchPush`, `MarketUsers`, `AdminSessions`, `TaskEvents`, `FundFlow`, `Watchlists` and `SymbolCatalog`, each about the specification of its own part | these modules | – |
| `CompositionProofs` | the types of all parts in the states that the services runs reach | `MCServices`, `TaskStoreProofs`, `ServicesProofs` | – |

`TaskStore`, `DeviceControl` and `RunnerLoop` meet in `run_once`.  Each models
the part of it that its own state decides: what it writes into the store, what
it does to the devices, and whether it is called at all.  `DeviceControl`
reduces the store to the tasks it shows as RUNNING (`tasks`), which is what
`has_running_task` asks for, and keeps them apart from what the runner works on
(`runner`).  The two differ in both directions: a claim or a result that gets
lost leaves a RUNNING task without a runner, and `HideTask` takes the status from
a task the runner works on, when `cleanup` writes an old payload over it or
removes an acceptance task with its lease.  `TaskStore` has the causes of both; its
`RunningHasRunner` speaks of the first direction only.  `RunnerLoop` reduces the
store to the number of queued tasks, of which `TaskStore` says that a claim finds
them (`QueuedIsListed`).

Definitions whose names end in `Mutant` are plausible bugs of one definition;
`PROJECT.json` pairs each with the property that notices it.  No specification
uses them.

What is abstracted everywhere: contents of captures and quotes, texts, logging,
authentication, and time.  A TTL or a deadline is an action that may happen, an
order by timestamp is any order.

## 3. What the runs check

| Run | Question | Bounds |
|---|---|---|
| `store_faults` | Is the lease exclusive, no queued task unlisted, the symbol index sound, when Redis calls of the runner fail, or are executed though they seem to fail, and captures expire? | 2 ids, 2 codes, 1 owner, 1 restart |
| `store_served` | Is the store a first-in first-out queue, is maintenance quiet, is everybody served? | 3 ids, 2 codes, 1 owner, 1 restart |
| `store_cap_acceptance` | (violation) Is the public cap respected? | 2 ids, cap 1 |
| `store_lost_refresh` | (violation) Is an accepted refresh durable? | 2 ids |
| `device_ownership` | Who owns the devices, with one fault of any kind? | 2 sessions, 1 role, 2 operations, 1 request that lists the devices |
| `device_lease_ends` | Does every operation's lease end? | 1 session, 2 roles, 2 operations, no faults |
| `device_overtaken` | (violation) Does ownership last as long as the operation? | 1 role, 2 operations |
| `market_broker` | Do published snapshots arrive, in order, from one refresh at a time? | 2 clients, 1 code, 1 REST caller, 2 snapshots |
| `deployment` | Does a deployment that dies leave a state the next one goes on from, and does provisioning end? | 2 roles, 2 owners, 2 faults |
| `deployment_legacy` | (violation) Can the tool read every journal it writes? | 2 roles, no faults |
| `services_queue` | Is what is submitted claimed, and what is opened closed? | parts `store`, `loop`, `pool`, `memory` |
| `services_data` | Is what is kept and shown sound, whatever was stored before? | all parts |

The last two runs check parts that have no variable in common.  Their initial
states choose a part and only that part moves, so the states of a run are the
union of the states of its parts, each explored completely; every property of a
part holds trivially where another part moves, and is checked where its own does.
`services_queue` states the fairness of the loop and the pool; `services_data`
checks safety only.
The parts, what they answer, and their bounds:

| Part | Properties | Bounds |
|---|---|---|
| `store` (`TaskStore`) in `services_queue` | `RunningHasRunner`: without leases and faults a RUNNING task has a runner | 4 ids, 3 codes, cap 3 |
| `store` (`TaskStore`) in `services_data` | `AliasesResolve`: every id of a data set an older release left still leads to its task | 3 ids, 2 codes, 1 owner |
| `loop` (`RunnerLoop`) | `NoLostWakeup`, `PromptClaim`, `PolledClaim` | 3 requests, 2 queued tasks |
| `pool` (`WarmPool`) | `SingleUse`, `ReadyIsCurrent`, `ClosedInTheEnd` | 3 connections, 2 refill threads, 2 sessions |
| `memory` (`MemoryStore`) | `MemKeepsOrder`: it implements `FifoQueue` | 2 symbols, 1 acceptance task, 2 owners, cap 2 |
| `watch` (`Watchlists`) | `WatchlistsSound` | 2 groups, 3 symbols, limit 2 |
| `users` (`MarketUsers`) | `EarlierSessionsBounded`, `MarketGuessesBounded` | 1 user, 2 session ids, 2 threads, limit 2, 1 password change and 1 lock-out |
| `fund` (`FundFlow`) | `FundFlowIsFresh` | 1 symbol, 2 figures, a day of 4 ticks, minutes of 2 |
| `push` (`ResearchPush`) | `PushedOnce` | 1 minute, 1 rule, 2 pollers, 1 premium slot |
| `events` (`TaskEvents`) | `EventsExactlyOnce` | 1 page, 2 tasks, 6 events, a stream of 2, batches of 2 |
| `catalog` (`SymbolCatalog`) | `CatalogNearlyComplete` | 5 codes in 2 categories, one of them unreadable, pages of 2, 2 changes of the source, 3 versions |
| `admin` (`AdminSessions`) | `GuessesBounded` | 2 threads, 2 passwords, limit 2, window 2 of 3 ticks |

`ServicesTypeOK` joins the type invariants of all of them.

Why these bounds show the interesting cases:

- *Task store.*  Two ids of one code are enough for every confusion between an
  ordinary task and the acceptance task of code 601872, for a stale write over
  a refresh, and for a lease that changes hands; three allow two tasks of one
  code behind a third (the fold at startup); four fill a cap of three and leave
  one to be refused.  One restart is enough for every state a restart can
  start from, since startup depends on Redis alone.  `MaxDrift` and `MaxList`
  bound the counter and the pending list, both grow only where calls repeat.
- *Devices.*  One role is enough for ownership, because the gate never
  distinguishes roles; `device_lease_ends` has two since leases of two roles
  share one queue.  One fault per behaviour (`MaxFaults = 1`) covers each kind
  of fault at each place.
- *Runner loop.*  Two requests already race the clearing of the event; the
  third only adds interleavings.
- *Market broker.*  The codes of a client share nothing but the order of its
  queue; two keys per code (`snapshot`, `source_status`) keep two entries in
  it.  Two lock objects are the old and the new one of a code.  `FewChanges`
  adds one bound: subscription messages and changes of the market together are
  at most three.
- *Warm pool.*  A request, a refill of an old and one of a new generation hold
  three connections; two sessions make one stale.  `MaxGeneration` and
  `MaxIssued` bound how long a behaviour goes on.

- *Deployment.*  Two roles make the journal of one differ from the other's; two
  owner tokens make a second run that does not know the first; the second fault
  falls into the recovery from the first.
- *Users, administrator.*  Two threads are a login and the change that overlaps
  it, or two guesses that pass the limit together; two session ids are one from
  before and one from after.  Users share no
  row.
- *Watchlists.*  With limit 2 and two groups every way to reach the limit
  occurs (twice the same code, one code each); three symbols leave one to be
  refused and let a place move past another.
- *Fund flow.*  A minute of two ticks lets a row be overwritten, a fresh time
  and a cache of one tick let each expire before the other; two figures, one of
  which may be missing, let a later row complete an earlier one.
- *Events.*  Six ids over a stream that keeps two let a cursor fall behind the
  trimming, a batch end inside the stream, and a deletion hit every position.
- *Catalog.*  Four codes on pages of two make a category of two pages, one row of
  which cannot be parsed; the source changes between any two reads.
- *Push.*  Both pollers work on the one event; a restart falls between claim
  and sending.

Symmetry is used on ids, sessions, operations and clients, in runs that check
safety only.  `CHECK_DEADLOCK FALSE` stands where behaviours end at a bound
(restarts, sessions, snapshots).

### Properties worth a word

- `LeaseExclusive` has an exclusion: it was found to need that the
  administrator's retry, expiring captures and repeated Redis calls do not all
  occur together.  `store_faults` therefore runs without the retry route.
- `DeviceExclusive` and `NoEarlyRelease` hold as long as no detection of the
  broker is overtaken, no report is late, no reply is lost, no running task is
  hidden and the API does not restart (`Undisturbed`).  Restarts of the broker
  and results that cannot be stored are allowed.  The control lives in memory, so
  a restart of the API forgets every lock and lease while the broker goes on; a
  lost reply to a submission leaves an operation without a lease; a hidden task
  lets a submission through while the runner drives the device.
- `GateHolds` says what the maintenance block checked, under every fault, and
  that the runner is idle meanwhile; from the second only a hidden task is
  exempted.  `OwnedMeansPaused` needs no condition.
- `OnItsWay` exempts one event (`lost`): when an event and a subscription
  message of the client are ready at the same time, the handler serves the
  message and ignores the event, which has left the pending table already
  (`market_api.py:1164`).  The client then misses that snapshot until the next.
- `SingleRefresh` exempts a lock object that is dropped in the moment between
  its release and the start of the caller that waited for it (`dropped`).
- `CatalogNearlyComplete` is about codes whose row can be parsed, and allows one
  missing code per strict category more than the source changed: the last page
  may come back one short (`_fetch_node`), and
  paging by offset skips a listed code when one before it leaves the list.
- `GuessesBounded` allows the limit to be exceeded by the number of other
  threads, because the check and the count are separate; it would fail without
  any bound if an attempt in flight were forgotten.
- `MarketGuessesBounded` is the same for market users, whose login has the same
  three steps.
- `EarlierSessionsBounded` counts a session as of the password that was verified
  for it, not of the one in force when it is stored.  A login that overlaps the
  change may store its session after the revocation, one per thread; while the
  revocation is still to come, or when it got lost between SQLite and Redis
  (`mlost`), nothing bounds them.
- `NothingInterrupted` is about runs that have taken the lease: a first
  provisioning without a running API takes none.
- `MemKeepsOrder` is the same refinement as `ImplementsQueue` for a store that
  leaves a claimed task in its list.
- `ImplementsQueue` is the refinement: ordinary queued tasks in list order are
  `waiting`, ordinary RUNNING tasks `started`, a live lease `maintenance`.

### Fairness

- *Store* (`store_served`): weak fairness of the claim, of each step of
  `run_once`, of the retention loop's save and of startup.  `run_once` is awaited
  without a timeout around it, the loop calls it at every poll interval, and
  retention is a loop without an exit.  Requests, leases, crashes and faults
  have none.
- *Devices* (`device_lease_ends`): the broker bounds every operation by
  timeouts, and the administrator page polls every 2 seconds while an operation
  is in flight, so the steps of a poll recur; they are strongly fair because the
  gate, which they need, is free again and again but not always.  The state of
  the device must be detectable: with `UnknownDetect` and a detection that fails
  for ever no report ever matches and the lease stays.
- *Runner loop*: requests finish and the loop goes on.  The end of the poll
  interval is not assumed for `PromptClaim` – this is the point of a wake-up –
  and is a hypothesis of `PolledClaim`.
- *Deployment*: the operator runs the tool again and again (`Start("auto")`
  strongly, since nothing else restarts it), starts devices and logs in; the
  tool goes on while it is not killed (`ToolStep`; strong, because where it waits
  for an idle runner tasks come and go); Docker restarts the API
  (`restart: unless-stopped`) and tasks end.  Faults are finite in a behaviour.
- *Services* (`services_queue`): `ServicesFairness` is the fairness of the loop and of the pool,
  each action restricted to behaviours in which its part moves.
- *Pool*: the holder of the request lock and the refill threads come to an end,
  since every wait for the network has a timeout.  Nothing makes a request or a
  refresh happen.

## 4. Where the code and its documents disagree

Four runs end in a violation, on purpose:

- `store_cap_acceptance` – a deployment acceptance is queued without raising
  the admission counter (`queue.py:1131`) that its end lowers, so afterwards the
  public cap is exceeded by one, until the next startup counts again.
- `store_lost_refresh` – `cleanup` writes back a payload it read earlier with a
  plain SET (`queue.py:2138`); a refresh accepted in between is overwritten.
- `device_overtaken` – `devices()` detects a state outside its lock and writes
  it afterwards without looking again (`macos-device-lifecycle.py:249`); a start
  or stop submitted in between is reported with the state from before, and the
  API ends the lease of an operation that is still in flight.
- `deployment_legacy` – a provisioning journal of version 1 has no creation
  times.  The tool migrates it in memory, and the next write for another role
  (`record_initial_missing`, `set_step`) stores all of it as version 2; the reader
  (`macos_deploy.py:1072`) refuses such a document, and every later run ends
  with `PROVISIONING_JOURNAL_INVALID`.  The comment there says the migrated role
  is stamped first.

Others can be seen by changing a constant: `AdminRetry = TRUE` with `Cap = 1`
breaks `CapRespected` (the retry does not look at the cap); `RedisFaults = TRUE`
breaks `QueuedUntilClaimed` (a script that timed out is executed twice);
`CaptureExpiry = TRUE` with an owner breaks `MaintenanceQuiet`; `Faults = {"late
report"}` breaks `OperationLeaseEnds`; without `Undisturbed`, a lost reply or a
restart of the API breaks `DeviceExclusive`, and so does a hidden task, which
also breaks the "idle guarantees" that `maintenance` names (`runner.py:1326`):
`cleanup` writes a finished payload over a task that was refreshed and claimed
meanwhile (`queue.py:2157`), or removes the acceptance task of a lease that
ended, and `has_running_task` no longer sees what the runner works on.

Seen while modelling, and kept out of the properties because no document
promises the opposite:

- *Administrator.*  Two overlapping changes of the password may leave one in
  memory and the other on disk until the next restart; a login that verified the
  old password may store its session after the change has cleared the sessions;
  a change closes the device lock of the caller only.
- *Market users.*  A login that verified the old password may store its session
  after the revocation; a revocation that raises, or a restart of the API between
  the change and the revocation, leaves every earlier session valid until it
  expires after seven days (`market_api.py:318`, `321`).
- *Watchlists.*  Adding a paused symbol to another group monitors it again.
- *Fund flow.*  The fallback kept per symbol and calendar day is served for the
  rest of the day to a symbol on no watchlist, also when it was read before the
  market opened; a slow recorder may overwrite a newer row of the same minute.
- *Push.*  An event is claimed before it is sent, so a send that fails is never
  repeated; a snapshot stored by a backfill first suppresses the push of its
  minute; with no channel
  enabled the first send raises, and the claimed marker and the remaining ones of
  the snapshot are never pushed.
- *Deployment.*  Two invocations at the same time may leave a lease whose owner
  is not on disk; an API that does not come up blocks both the next run and a
  rollback; an AVD deleted in the middle of its provisioning is refused by every
  later run in mode `provision`; `--mode existing` does not look at the journal.

## 5. What is proved

The proofs hold for every set of ids, codes, owners, sessions, roles,
operations, requests, clients, connections and threads, and for every bound and
fault set.  They assume what the modules name (`ConstantAssumption`,
`OwnerAssumption`, `BrokerAssumption`, `LoopAssumption`, `PoolAssumption`,
`MemAssumption`, `MuAssumption`, …: sets of names that differ, limits that are
positive numbers), which the runs evaluate, and about `TaskStore` some theorems
say which faults they exclude: `NoStaleRetry` (expiring captures, lost replies
and administrator retries do not all occur), `Calm` (captures do not expire and
Redis calls do not fail), `~OldRelease` (the store began empty), `Owners = {}` (no
deployment), `~AdminRetry`.  Section 4 names the runs and the constants with which
the same properties fail when such a fault is switched on.

| Theorem | States |
|---|---|
| `TaskStoreProofs!Typing` | types of the store and its actors, for every choice of faults |
| `TaskStoreProofs!LeaseIsExclusive` | `LeaseExclusive` |
| `TaskStoreProofs!MaintenanceIsQuiet` | `MaintenanceQuiet`, without expiry and Redis faults |
| `TaskStoreProofs!StoreTyping` | `TypeOK`, the pending list included |
| `TaskStoreProofs!QueuedAreListed`, `SymbolIndexIsSound`, `LeftOversAreInert` | `QueuedIsListed`, `SymbolIndexSound`, `OrphansAreInert`, under `NoStaleRetry` |
| `TaskStoreProofs!OneTaskEach` | `OneTaskPerSymbol`, under `NoStaleRetry` and `~OldRelease` |
| `TaskStoreProofs!FoldedIdsResolve` | `AliasesResolve`, under `NoStaleRetry`, from data of an older release too |
| `TaskQueueProofs!NoTaskRunsAlone` | `RunningHasRunner`, without Redis faults |
| `TaskQueueProofs!CounterIsExact` | `CountExact`, under `Calm` and `Owners = {}` |
| `TaskQueueProofs!CapHolds` | `CapRespected`, under `Calm`, `Owners = {}`, `~AdminRetry` and `~OldRelease` |
| `TaskQueueProofs!OnlyAClaimUnqueues` | `QueuedUntilClaimed`, under `Calm` and `~OldRelease` |
| `TaskQueueProofs!StoreImplementsQueue` | `ImplementsQueue`: the store refines `FifoQueue`, under `Calm` and `~OldRelease` |
| `DeviceControlProofs!ControlTyping` | types |
| `DeviceControlProofs!OwnedIsPaused`, `GateIsHeld` | `OwnedMeansPaused`, `GateHolds`, for every fault set |
| `DeviceControlProofs!DevicesAreExclusive`, `LeaseOutlivesOperation` | `DeviceExclusive`, `NoEarlyRelease` |
| `MarketBrokerProofs!BrokerTyping` | types |
| `MarketBrokerProofs!OneReaderPerCode`, `SnapshotsArrive`, `NoSnapshotIsOlder`, `ClosedMarketIsRead` | `SingleRefresh`, `OnItsWay`, `NeverOlder`, `ClosedIsRead` |
| `ServicesProofs!LoopTyping`, `WakeUpIsNotLost` | types, `NoLostWakeup` |
| `ServicesProofs!PoolTyping`, `UsedOnce`, `NoOldSession`, `FlagIsTrue` | types, `SingleUse`, `ReadyIsCurrent`, `RefillingIsTrue` |
| `ServicesProofs!MemoryStoreKeepsOrder` | `MemKeepsOrder`: the in-memory store refines `FifoQueue` |
| `ServicesProofs!NoEventTwice` | `PushedOnce` |
| `ServicesProofs!EarlierSessionsAreFew`, `UserLimitHoldsUpToThreads` | `EarlierSessionsBounded`, `MarketGuessesBounded` |
| `ServicesProofs!LimitHoldsUpToThreads` | `GuessesBounded` |
| `ServicesProofs!NoEventMissedOrRepeated` | `EventsExactlyOnce` |
| `ServicesProofs!FundFlowStaysFresh` | `FundFlowIsFresh` |
| `ServicesProofs!WatchlistsStaySound` | `WatchlistsSound` |
| `ServicesProofs!CatalogLacksLittle` | `CatalogNearlyComplete` |
| `CompositionProofs!ServicesTyping` | `ServicesTypeOK`, in the states that the services runs reach |
| `DeploymentFlowProofs!DeploymentTyping` | types, from journals of either version |
| `DeploymentFlowProofs!OwnerIsKept`, `NothingIsInterrupted` | `OwnerKept`, `NothingInterrupted`, for any number of faults |
| `DeploymentFlowProofs!RolesAreSound` | `RolesSound`, likewise |

The arguments:

- *Lease.*  Exclusiveness is not inductive: what makes it so is that every task
  that can run is in the task index, where `AcquireLease` looks for it
  (`Indexed`), that the bound task carries its owner's mark or is still
  untouched (`BoundSound`), that the runner never writes QUEUED or RUNNING back
  (`RunnerSound`) and that the retention loop's copy is a terminal payload of an
  ordinary task (`CleanerSound`).
- *List and indexes.*  What the list holds is proved one set of ids at a time:
  `Keep` is a recursive function, and its lemmas (what is listed, how often, and
  in which order) go by induction over the length of the list, as the least
  number for which they would fail.  `Named` says that the symbol index, the
  lease and the copies in the hands of runner and retention loop name tasks of
  their own code, and that a payload outside the index is a leftover;
  `ListNamed` that the list names tasks of the index; `AllNamed` that the symbol
  index names every ordinary task, from which there is one for each code.
  A startup decides about every task at once; it is reduced to what it makes of
  the store (`BootShape`) before anything is proved about it.
- *Aliases.*  That an alias resolves needs that neither the runner nor the
  retention loop holds an id that was folded, because their write would bring it
  back to life (`AliasSound`).
- *Counter and cap.*  `Counted`: when the runner is about to finish a task, that
  task was active when it was read, so that the decrement is due.
- *Refinement.*  `QueueInv` adds that the list names queued tasks only, each
  once, and that the runner's task is RUNNING unless it was removed with its
  lease.  Then a claim takes the first claimable task of the list, LREM followed
  by RPUSH of a task that does not wait is an arrival, and a startup puts the
  interrupted tasks in front; every other action leaves the part of the list that
  can be claimed as it is.  `MemInv` is the same for the store that leaves a
  claimed task in its list: the running task stands before all that wait, so that
  a restart puts it in front without moving anything.
- *Broker, locks.*  `LockInv`: no two codes share a lock object, a call keeps to
  the lock of its code and one call holds it; until a lock is dropped from under
  a caller that waits, all calls of a code use its present lock.
- *Broker, delivery.*  `FlowInv`, for one client and one code: a pending
  snapshot is the last published one and has its key in the queue, what was shown
  is not ahead of the hand, nor the hand of what was published, nor that of the
  cache (`Ordered`), and the last one published is in one of these places
  (`Delivered`).  A code that a client does not want has nothing on its way to it,
  which is why forgetting a code nobody references cannot send anybody back.
- *Broker, closed market.*  `ClosedInv` follows each client's code through those
  that may read it (`Soon`): a client that leaves takes only its own reads along.
- *Devices.*  The part that always holds says that the gate keeps what it has
  checked, because the request that passed it is the only one that can undo it,
  and that what the runner works on is shown as RUNNING unless it was hidden
  (`Shown`), so that the check of the store is one of the runner.
  The part under `Undisturbed` ties the broker's tables to the API's leases: a
  busy role has a leased operation, or the submission that created it is still
  waiting for its reply, and every report under way about an operation in
  flight says so.
- *Loop.*  `NoLostWakeup` and the types are inductive together, because the
  loop clears the event before it claims: a task that the claim did not see was
  stored afterwards, by a request that still has to notify.
- *Pool.*  Which positions of the code hold a connection (`Position`), that
  hands never share (`Apart`), that open means held (`Accounted`), that only a
  request waiting for its answer has used its connection (`Unused`), that the
  request lock keeps a request that read an old session from outliving the
  invalidation (`Timely`), and that a thread of the present generation is alone
  (`Alone`).
- *Push.*  `ClaimInv`: the event a poll is about to send is claimed, unsent and
  in no other hand; one that nobody claimed was not sent.
- *Sessions.*  `UserInv`: every stored session is in the reverse index, so that
  revoking by the index is enough; a request that changes what makes a session an
  earlier one has a revocation behind it (`Owes`); and the earlier sessions of a
  user together with the requests that may still create one (`StaleJobs`) are
  fewer than the threads (`FewEarlier`), because the thread that revokes creates
  none of them.
- *Login limit*, of the administrator and of users.  The recent failures together
  with the attempts that were admitted and are not counted yet (`Trying`,
  `MuTrying`) stay below the limit plus the number of threads: an attempt is admitted below the limit, and counting moves it from
  one to the other.
- *Events.*  `Stream` and `PageInv`: ids grow along the stream; what a page was
  shown, what is in its batch and what it will read come in this order, and the
  cursor passes only what is in the first two or of another task.
- *Fund flow.*  `FundInv` bounds the age of every copy: figures of a row are as
  young as its minute but for the client's interval (`RowInv`), those of the cache as
  their entry (`CacheInv`), those in the hands of monitor and reader as the stamp
  of their round (`PollInv`, `ReadInv`).
- *Watchlists.*  `WatchInv` is the property with its types.  Its work is in the
  lemmas about one order of places: numbers below the count of the entries and
  without a tie leave no hole (`NoTieNoHole`, the pigeonhole principle); ranks by
  place and code are such numbers (`RanksAreDense`); the place after the last is
  the count when there is no hole (`NextIsCount`); and moving up the places from
  an index on makes room for exactly one entry (`InsertIsDense`).
- *Catalog.*  A page is found by its offset, so what can hide from it is a code
  that moves to a place before the offset while it has not been read.  `CatInv`
  counts these (`Passed`): at most one for each change of the source and one for
  each strict category that has been read (`FewPassed`), because a code that
  leaves the list lowers every place by at most one and no two codes share a
  place (`PlaceMoves`, `FewAtPlaces`).  At the end of a category the codes beyond
  the last row are missing too; that they are few follows from a second count,
  which relates what was passed and what is listed now to the number announced
  at the beginning (`PassedAfterPage`).
- *Composition.*  A step of `MCServices` is a step of the part that moves and
  leaves the variables of the others alone (`OnePartMoves`), so each part goes
  through its own steps or stutters.  The theorem is about the states the runs
  reach; it says nothing about parts that run at the same time.
- *Deployment.*  That the owner of a live lease is on disk is not inductive by
  itself: `OwnerInv` adds at which stages the lease is free, that the token about
  to be acquired is the stored one, and at which stages the tool holds no token
  at all, so that a step of the tool can neither take a lease nobody knows nor
  delete the file of one that is live; no ordinary task runs under a lease,
  hence none is interrupted.  `RoleInv` adds where a stored session comes from:
  one refreshed after the creation time in the journal was read from this
  device, because a device in the journal is not replaced, and the last steps
  of the chain are written by a run that has just seen such a session.

Only model-checked: everything under fairness (`EventuallyClaimed`,
`AcceptanceRuns`, `OperationLeaseEnds`, `PromptClaim`, `PolledClaim`,
`ClosedInTheEnd`, `ProvisioningEnds`), which is out of the prover's reach.  Every
invariant and action property that a passing run checks is stated by a theorem.
`CountExact` is proved only (`CounterIsExact`), and `CapRespected` as far as
`CapHolds` says; its violation run shows the exception.
The assumption `NoStaleRetry` of the theorems about
the store is what separates their properties from the known combination of
faults; the run `store_faults` stays on the same side of it.

The library's induction theorems take an operator as a parameter, which the
provers cannot instantiate; where a proof needs induction over a list it uses the
same fact about sets: a set of numbers that is not empty has a least element
(`NatLeast`, `NatInductionSet`).

An update of two fields of one function value is written as one nested EXCEPT
(`[f EXCEPT ![x] = [@ EXCEPT !.a = …, !.b = …]]`) in modules with theorems: the
prover's SMT translation of `[f EXCEPT ![x].a = …, ![x].b = …]` is contradictory
(FALSE follows from it), so a proof that met it would prove nothing.

## 6. What is not modelled, and what comes next

Not modelled because a model would show nothing: navigation, stitching and OCR
(pixels), byte layouts of the direct protocol, parsers of public pages and of
recognised text, the pinned HTTP transport, the views of the front end,
declarations of the deployment.  `PROJECT.json` lists each with its reason.

Left for later, most important first:

1. `AppSessions` – rotation of the stored sessions against readers, above
   `WarmPool` (a late 401 may mark a session that has just been replaced).
2. A startup of `TaskStore` in steps, with a crash between the deletion of a
   duplicate and the recording of its alias; input events in `DeviceControl`
   (authorised before an await, forwarded after it); a broker worker that dies.
3. Pure functions: market phase and calendar, parsers of values with ranges, the
   formulas behind markers and premium, as operators against reference
   definitions over bounded inputs; the caches of k-lines and names.
4. Two invocations of the deployment tool at the same time.

Some waiting is left out everywhere because time is not modelled: a coroutine
that takes the gate of the runner control while a request thread holds it over a
call to the broker stops the event loop for as long as that call lasts
(`api.py:1573`), and the batch read of the market loop has no timeout of its own
(`market_data.py:586`).
