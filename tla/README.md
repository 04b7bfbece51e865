# A verification development for sekai-master-api

`sekai-master-api` mirrors the master data of a game, kept as JSON files in one
GitHub repository per region, into PostgreSQL and serves it over HTTP. Several
processes run the same binary in one of three roles: `serve` answers public
reads, `control` also owns the syncs, `standalone` does both. Paths below are
relative to `src/`; `UC` is `internal/usecase/master_data_sync_usecase.go`,
`PG` is `internal/storage/master_data_postgres_store.go`.

Two parts of it are hard. One is what it promises while it changes: syncs of
several pods that must not overwrite each other, a region that is rewritten
entity by entity while it is being read, jobs that are cut short at any step, a
cache in front of all this, and a shutdown that must end. The other is that the
same facts are computed many times over: a list is made from projections, a
detail from records and index lookups, a filter from a third read, and they have
to agree. Both are modelled here.

## 1. Inventory

| Part | State it keeps | Operations | What makes it correct |
|---|---|---|---|
| Sync lease, `internal/repository/master_data_sync_lease_repository.go`, `syncLeased`, `startLeaseHeartbeat` (UC:580-650) | row of `master_data_sync_leases` (holder, token, expiry); per process the job's token and the heartbeat | acquire, renew, release, status probe | the owner of the current token is unique; the loser of a lease stops; a dead owner's lease is free in the end |
| Fenced transactions, `inFencedTx` (PG:387), `Save` of the status repository | open transactions, the lease row they lock | token check, write, `FOR SHARE` check, commit; status save under `FOR UPDATE` | nothing is committed under a token that is no longer current |
| Region sync, `regionSyncTask` and `saveStatus` (UC:656-1347, 2331-2394) | stored records, version payload, status history and its latest row | check, pending, compare, skip by commit or by manifest, running, load, store, prune, version, success or failed, rate-limit fallback | a success names what is stored; the records of a served region stand still; an interrupted region stays recoverable; failures do not wedge a region |
| Process: admission, startup workers, shutdown, `cmd/api/main.go`, `cmd/api/shutdown.go`, UC:298-416, 555-571 | one-job flag, admission gates, three wait groups, application context, HTTP server, shared deadline | `StartSync`, `sync`, webhook admission, signals, drain, teardown | one job per process; the drain leaves no job; the exit is reached; the database is closed last |
| Interrupted-sync recovery, `cmd/api/main.go:234-288`, UC:471-553 | latest status of every region | `InterruptedRegions`, `RecoverInterruptedSync`, `SyncAll` | what a dead process left running is synced again, or its error is reported |
| Event hub and SSE stream, `internal/usecase/master_data_event_hub.go`, `handlers/admin/master_data_event_handler.go` | subscribers and their channels, closed flag | publish, subscribe, unsubscribe, close | never a send on a closed channel; the sync is not held up; streams end at shutdown |
| Response cache, `internal/transport/http/responsecache` | entries in Redis, in-flight fills | lookup, fill, wait, set, expire | a cached answer is never staler than its request |
| Entity store (PG, `internal/storage/master_data_blocks.go`, `master_data_projections.go`) | records in blocks, index postings, projections, the entity's row with its order, digest and the versions of its derived data | write, rebuild of derived data, prune; reads by key, index, projection, page | an answer is that of one version of the entity; derived rows agree with the records, whatever build wrote them |
| Record layout: record keys, sort order, blocks, index definitions, projections (`internal/domain/masterdata`, `internal/storage`) | none | | what is collected while a file is read is that of its stored form |
| Public read API (`internal/transport/http/handlers`, 13 families of routes) | none | lists with filter, spoiler, sort, page; details with joined records; batches; availability | handlers that compute the same fact agree; pages partition a list; a cached answer outlives nothing it depends on |
| Readiness, versions, dashboard (`handlers/system`, `internal/domain/masterdata/version.go`, `HasSuccessfulSync`) | statuses, version payloads | health, readiness, versions, dashboard | a region without data is not served, one that is ready is |
| GitHub loader, `internal/repository/master_data_github_repository.go` | none between calls | resolve, download, parse, retry | one commit per load; rate limits told from failures |
| GitHub webhook, admin API, OIDC, configuration, logging, observability, migrations, `dump`, generated documentation | see `PROJECT.json` | | |

How they interact. A job is started by the startup worker, by an admin request
(`StartSync`) or by a webhook. It passes the process's gates, acquires the
lease, and runs one task per region with bounded concurrency. Each task writes
entities in fenced transactions and saves status rows, each followed by an event
on the hub. Read handlers and the cache look at the latest status of the region
and at the records, in transactions of their own, from any process. Shutdown
cancels the application context, which ends the job, and closes the hub, which
ends the streams.

What is hard about it: overlap of two owners around a takeover; statements and
sessions that outlive their callers; a job that stops between two of its
writes; a decision made from a status or a version read earlier; a response
assembled while a sync runs; two `select`s, four channels and three wait groups
in the shutdown. `PROJECT.json` lists each under `hazards`, at its line.

## 2. Modules

| Module | Models | Built on |
|---|---|---|
| `FencedStore` | what lease and fencing promise: writes belong to the current epoch | |
| `SyncLease` | lease row, job, heartbeat, fenced transactions, crashes, clocks | implements `FencedStore` |
| `SyncLeaseTiming` | behaviours of `SyncLease` whose heartbeats are punctual or not, fixed at the start | `SyncLease` |
| `SyncLeaseProofs` | theorems about both | |
| `MCSyncLease`, `MCSyncLeaseTiming` | instances | |
| `PublishedRegion` | what the sync promises readers: a served region stands still | |
| `RegionSync` | one region's sync, step by step, with its failures | implements `PublishedRegion` |
| `RegionSyncProofs` | theorems about `RegionSync` | |
| `ControlProcess` | one process: jobs, gates, HTTP server, signals, drain, exit | |
| `ControlProcessProofs` | theorems about `ControlProcess` | |
| `SyncRecovery`, `SyncRecoveryProofs` | several pods that start, recover, crash | |
| `EventHub`, `EventHubProofs` | hub, its lock, channels, SSE handlers | |
| `ResponseCache`, `ResponseCacheProofs` | cache and single flight over a region that changes | composes `PublishedRegion` |
| `Positions` | lists by positions: what is picked of a list, and a stable sort, in closed form | |
| `RecordLayout` | record keys, sort order, blocks, index keys, postings, projections | `Positions` |
| `EntityStore`, `EntityStoreProofs` | one entity of the store, its writers and its readers; theorems about it and `RecordLayout` | `RecordLayout` |
| `QueryBase` | what the handlers share: reads by key and index, comparison, paging, availability, readiness of a region | `Positions` |
| `EventQueries`, `MusicQueries`, `CardQueries`, `GachaQueries`, `GameNewsQueries`, `LookupQueries`, `MissionQueries`, `HonorQueries`, `CostumeQueries`, `MysekaiQueries`, `StampQueries`, `VirtualLiveQueries`, `HealthQueries` | one family of handlers each | `QueryBase` |
| `PublicRead` | regions that are synced, time, the cached answers | composes the families |
| `ReadProperties`, `ReadProofs` | what the read API promises; theorems about it | `PublicRead` |
| other `MC*` | instances for TLC | |

The modules meet at their abstract specifications: `SyncLease` shows that only
one owner writes, so `RegionSync` has one job at a time and a takeover is a job
that vanishes (`Vanish`); `RegionSync` shows that a served region stands still,
so `ResponseCache` takes `PublishedRegion` for its region. `ControlProcess`
shows that a process runs one job, which `SyncRecovery` has as its `job`.
`SyncLease` shows that a job without the current token writes nothing, so a
transaction of such a job in `EntityStore` is one step without effect
(`FencedOut`). `EntityStore` shows that a read, by whatever path, is that of one
version of the entity, so `PublicRead` lets a handler read whole entities; and
`ResponseCache` has the interleaving of a request with a sync, so in
`PublicRead` a request is one step.

### SyncLease
State: `lease` is the row; `pc`, `claim`, `cur`, `jobCtx`, `beat` are the job of
each process (`claim` is the token in the job's context, checked by data
transactions, `cur` the usecase's `currentLeaseToken`, stamped on status saves);
`sessions` are the open database transactions; `late` are statements whose caller
gave up and which may still execute; `committed` is the token of the last write
of each target. Actions: `Acquire`, `AcquireError`, `RenewOk`, `RenewLost`,
`RenewError`, `HeartbeatStop`, `CancelJob`, `FinishJob`, `Release`,
`ReleaseError`, `OpenData`, `OpenStatus`, `WriteRows`, `Validate`, `Commit`,
`Rollback`, `Detach`, `Crash`, `LateStatement`, `Tick`. A pod is one incarnation
of a process: the holder name contains the boot time. Time is relative to the
present, so the model needs no clock that grows; each pod reads its own clock
(`Skew`). A punctual heartbeat is answered within `Beat` of the last one; in the
code the tick and the renewal's own timeout (UC:637-639) are two times, and `Beat`
stands for their sum. Worth knowing about the code: `Renew` and `Release` match the row by
holder, not by token, so a late statement of an earlier job of the same pod can
extend or end the lease of its later one; `FencedSpec` holds all the same.

### RegionSync
State: `remote` (the ref), `store`, `version`, `latest`, `success` (the
database), `pc`, `ctx`, `task`, `result` (the job). Each function of
`regionSyncTask` is an action, and each has an `...Error` twin for its error path;
a failing write may have been committed. `EndContext` cancels the job or lets it
time out, `Vanish` ends it without a further step. The manifest shortcut relies
on an assumption the documentation states (`docs/master-data.md`): commits with
the same `versions.json` have the same records (`RegionAssumption`).

### ControlProcess
`handler` and `job` are where each request and each job goroutine is;
`syncRunning`, `closed`, `rejecting` are the gates; `sig` is
`handleShutdownSignals`, `main` is `coordinateShutdown`, `waiter` the goroutine
around `Wait`. The wait groups are the sets `Admitted`, `Inflight`, `Lifecycle`.
Both ready cases of `select` may be taken. Deadlines pass at any time.

### SyncRecovery, EventHub, ResponseCache
`SyncRecovery` has a startup worker, at most one job per pod, the lease (who
claimed it last, and whether it is held), the latest status of each region and
`errors`, the regions the startup worker's sync reports. The lease can run out
under a live owner, who goes on until its heartbeat is refused or extends it late;
a row of any but the newest owner is rejected (`Current`). A region can end
without a last row: the check of the store fails (UC:791-803), or the save does
(UC:1286). Neither the answer to an acquisition nor the list of interrupted
regions is certain (`AcquireFails`, `ListFails`).
`EventHub` has the RWMutex with its writer preference, so that a fan-out that
holds the read lock meets departures and the close. `ResponseCache` names a
revision by the number of success rows; `seen` is a history variable, the values
each entity had while a request ran, and handlers read entities one by one.

### RecordLayout, EntityStore
State: `row` is the entity's row of `master_entities` (revision, digest, order of
the keys, versions of index and projection), `blocks`, `postings` and
`projection` its other rows, `lease` the current token, `job` the sync job of each
pod, `read` the read of each handler, with `seen`, a history variable, the
versions that were current while it ran. A pod runs one of several builds, which
define the index and the projection differently: during a rolling upgrade the
pods of both write and read the same rows.

One SQL statement is one step, and a transaction is one step; what a function
reads before its transaction is a step before it. Writers: `Claim`, `FencedOut`,
`StoreEntityFile` (the digest shortcut), `WriteEntity`, `EnsureDerived`,
`LoadForDerived` and `RebuildDerived` (the rebuild of derived data for another
build, which reads blocks outside its transaction), `DropEntity`, `PruneEntity`.
Readers: `Ask`, then `GetByKey`, `ListAll`, `ListByIndex` or, when the index is
another build's, `ScanByIndex`, `LoadProjection` or `BuildFromRecords`,
`ListByPage` and `FetchPage`, and `Finish`. Texts, keys and hashes are numbers in
the order of the text; the size of a record is a number, which decides where a
block ends.

### QueryBase, the query modules, PublicRead
A handler has no state: it is a function of what the region stores (`db`, a
record from entity names to sequences of records), of the request's parameters
(a record `q`) and of the time, and its value is `[status, body, until]`, where
`until` is the moment it reports through `cachehint`. Each query module has one
operator per handler or helper of its package, named after it. Joins, filters,
spoiler rules, fallbacks, the order of a list and the page arithmetic are the
code's; fields that are only copied are not in the records.

One item is not a function of its record alone. The levels of a mission's group
are read by one lookup for all the missions of the page, and a group that is
asked for twice is answered twice (`resolveMissionParameterGroups`), so
`MissionItem` takes the missions it is `shown` with: those of its page in
`MissionsList`, itself in `MissionByID`. The properties about single items set
those levels aside where the page decides them (`OfItself`, `ShownAt`), and
`ListedMissionsPreviewTheirGroup` is about nothing else.

`PublicRead` adds the state: `now`, the `status` and the `stored` content of each
region, `rev`, `entries`; and the steps `Tick`, `BeginSync`, `Store`, `EndSync` and
`Fill` (a request of a cached route that misses). An answer that is not cached
changes nothing and is a function in the properties.

Most properties of `ReadProperties` speak of the stored data alone, whatever the
time. They are written as functions of a content (`...In[c]`) and a state
satisfies them when the contents of its served regions do, so TLC evaluates
each content once. `PreviewsAndSourcesAgreeIn` asks handlers about requests,
`CardsAndEventsAgreeIn`, `EventUnitsAgreeIn`, `RewardPreviewIsOfTheRewardsIn` and
`MaterialUsesMatchBlueprintsIn` compare what helpers return for stored records.

## 3. Runs

| Run | Question | Instance and bounds | Result |
|---|---|---|---|
| `lease_fencing` | does anything reach the database under an old token? | 2 pods, 1 entity and the status log, TTL 1, 3 acquisitions, 1 late statement, 2 sessions | holds |
| `lease_timing` | do two live jobs overlap when heartbeats are on time; does a loser stop, is a dead owner replaceable? | 2 pods, TTL 4, heartbeat 2, clocks 1 apart, 2 acquisitions, 1 session, no late statement; heartbeats punctual or not, chosen at the start | holds |
| `region` | is a success ever wrong, is a served region ever changed, does a cancelled region stay recoverable, can failures wedge a region? | 2 entities, 4 commits: no change, change with a removal, no manifest; any save may fail, any row but the running one may be lost | holds |
| `region_revert` | the first question of `region` when the ref goes back | a fifth commit that reverts the third, no row is lost | violated |
| `process` | one job, quiet drain, clean exit, and is the exit reached? | a read, an admin request, a webhook, the startup worker, 2 signals | holds |
| `recovery_attempt` | does the startup worker end the interruptions it finds? | 2 pods, 2 regions, 1 stop, 1 request, any initial statuses | holds |
| `recovery_restart` | is an interruption recovered after a crash? | 1 pod, 1 stop | violated |
| `cache` | is a cached answer ever stale, is a waiting request forgotten? | 2 requests, 2 entities of 2 values, 2 publications | holds |
| `store` | is an answer that of one version, do derived rows match? | 2 pods of 2 builds (one indexes a product of fields, one the elements of a list), 1 reader, 3 files, 3 claims of 1 transaction each, blocks of 2 records or 3 bytes, pages of 2 | holds |
| `queries` | do handlers agree, do pages partition, are cached answers current, is what is ready served? | 2 regions, 3 contents (full, the base records alone in another order, nothing), 4 moments, 1 publication per region, lifetime 3, page cap 3, 1 cached entry at a time | holds |
| `missions_shared_group` | does a listed mission preview the levels its group lists? | as `queries` | violated |
| `hub` | no panic, order, nobody held up, streams end | 2 workers, 2 clients, channels of 1, 2 events | holds |

Why the bounds are enough to be of interest. Three acquisitions let a pod lose
the lease, see another own it, and own it again while a statement of its first
job is still under way. Two sessions let a data transaction and a status save
of different owners overlap. Equal clocks lose nothing in `lease_fencing`: a
heartbeat may be late by any time, so the lease can be lost at every step. The commits of `RegionSync` contain each case the
shortcuts tell apart: same manifest, another manifest, none, and a file that
disappears. Two requests and two publications let an entry be filled across a
publication and be found or waited for by the other request. A channel of one
is full after a single send; its real capacity is eight. In `store` three claims
let a pod of one build write, one of the other rebuild or replace, and the first
come back; the files have records without a key, a key that occurs twice, more
records than a block holds and a record bigger than a block's bytes allow next to
another, and the empty file prunes the entity. In `queries` the full content has
records with and without the relations that are joined, times on both sides of
every moment, ties in every sort key, and ids that lead nowhere; one cached entry
is enough because entries do not interact, and evicting one is a step. The page
cap of 3 puts a request above it and lists of more than one page below. Of the
missions two share a group of levels, on a page of two and on pages of one. With two signals the
forced close is reached, and one request of each kind is enough because the
gates look at no request's identity.

`CHECK_DEADLOCK FALSE` stands where the program really stops: a process exits,
requests end, bounded crashes and events run out. `SyncLease` and `RegionSync`
never stop and are checked for deadlock.

### Fairness
- `SyncLease`: time passes, a due heartbeat is answered (its statement has a
  timeout), a job whose context has ended returns (every call it makes takes that
  context or a bounded one), PostgreSQL ends the sessions of clients that are
  gone. No job is assumed to start or to succeed.
- In `lease_timing` the same (`TimedSpec`, `Fairness`); whether heartbeats are
  punctual is a constant of each behaviour, and the two liveness properties hold
  either way.
- `RegionSync` (`CalmSpec`): somebody keeps asking for syncs (webhooks, restarts,
  admins), a job goes on, and from some point on nothing fails. It is used only
  for `Converges`, which is about what the failures left behind.
- `ControlProcess`: the goroutines of the shutdown run and deadlines pass.
  Nothing is assumed of handlers, jobs or clients: the exit does not depend on
  them.
- `SyncRecovery`: jobs and startup workers go on, a pod that is down is started
  again, a lease whose owner has no job runs out. Nothing is assumed of the
  heartbeat of a live owner or of the database's answers. Crashes are bounded: one
  stop is enough to leave a lease behind and to cut a recovery short, and the
  initial statuses are any that earlier crashes can have left.
- `EventHub`: goroutines go on; nobody has to publish, come, leave or close.
- `ResponseCache`: a request that has begun goes on; its calls have timeouts.
- `EntityStore` and `PublicRead` state no fairness: their properties are safety.

### What the violated runs show
- `region_revert`. The ref goes c1, c3, c5, where c5 has the contents and the
  manifest of c1. A sync of c3 that dies after storing an entity leaves the
  version payload of c1. The sync of c5 compares its manifest with that payload,
  finds it equal and saves a success over records of c3. Nothing on this path
  asks how the last run ended, as the rate-limit fallback does (UC:1101).
- `recovery_restart`. A pod that is back before its former self's lease has
  expired is refused by it, and the startup worker tries only once.
- `missions_shared_group`. Two missions of one page with the same group ask for it
  twice, and each shows its levels twice: ten in all where the group lists five,
  with the preview 1, 1, 2. With pages of one, or asked for by id, either shows
  five.

Other behaviour met on the way. The first two differ from what a doc or a comment
says; the rest is deliberate or harmless.
- When `server.Serve` fails by itself, nobody calls `server.Shutdown`; the workers
  are drained, the handlers are not, and the database is closed. A second signal
  and the deadline have the same effect. `main.go:324` says that the teardown
  comes "after HTTP handlers have fully drained"; `CleanExit` is what is left of it.
- `docs/api.md:105` calls the filters `unit` and `event_type` of the event list
  partial matches. A part of either finds nothing: both are compared as a whole
  (`event_handler.go:1590-1610`), as the model and `FiltersAgree` have it.
- When the running row cannot be saved the sync goes on (UC:1027-1042), so a
  region is rewritten while its latest status is still a success. This is why
  `ServedStoreIsStable` and, in the proofs, `SuccessDescribesStore` assume that
  `SaveMayLose` is without `"running"`. A save that is told it failed although it was
  committed does no such harm and is in every run.
- An entry of the cache is written under the revision read before the handler
  ran, even when a sync has withdrawn the region meanwhile.
  `docs/postgres-master-data-store.md:478` says a running sync never writes
  entries; `AnswersAreCurrent` shows that answers are current nevertheless, since
  only a request that has read the same revision is given the entry.
- The list of cards filters by the record's own `cardRarityType`, while the item
  shows it through `cardrarities` and shows null when that record is missing: such a
  card is found by a rarity it does not show, and likewise by the id of its supply.
  `FiltersAgree` does not meet it: the contents of its run store the rarities and
  supplies of their cards.
- A webhook answered 202 is dropped when its job meets `ErrSyncInProgress` or a
  held lease.
- After a drain that timed out the usecase's admission gate is still open.
- After a second signal `server.Shutdown` returns nil while handlers run, and the
  exit code is 0: `CleanExit` therefore speaks of at most one signal.
- A commit without `versions.json` leaves the previous version payload stored.
- `/events/:region/:id/detail` is cached under the revision of its own region, but
  its `availableRegions` come from all regions and its reward boxes may be jp's
  (`event_handler.go:525-581`, `:878`); `public_routes.go:16-20` asks that a cached
  route depend on nothing else. A sync of another region leaves it stale for up to
  the lifetime. `CachedAnswersAreCurrent` sets these fields aside (`Borrowed`).
- A read that fails while a relation is joined is swallowed, and the answer
  without the relation is a 200 that the cache keeps.
- A `page_size` above 100 is rejected by the lists `docs/api.md:81` names. Musics,
  events, cards, gachas and virtual lives accept it; where they read through
  `ListByPage` (with spoilers, no filter, no sort) the store caps the page at 100
  while the answer reports the size that was asked. `PagesPartitionLists` speaks
  of sizes up to the cap.
- `ListByPage` reads the order in one statement and the blocks in another: a
  page may be that of neither version. `AnswersComeFromOneVersion` promises a page
  only when nothing was replaced between the two.
- A file that repeats a record key: a read by key gives the last record, and so
  do lists, which come from the stored form; the index and the projection are
  collected before, from each of the repeated records, so they match only if
  those agree on the fields that are indexed and projected (`RepeatsAgree`, a
  hypothesis of the theorems that need it, evaluated of the instance).
- `/ready` of a serving pod stays 200 while one of its regions is being synced or
  has failed: it lists the region under `pendingSync`, and reads of it answer 503.
- Corner cases of single handlers: `compareSortableValues` and
  `compareMysekaiFixtureTags` are not transitive for fields of mixed types or
  missing ids; `NormalizeAnyID` prints a large float id in exponent form;
  `masterRankBonusRange` knows no bonus above event 999; an event whose unit has no
  profile shows the raw unit in its detail; the detail of a fixture shows its
  first blueprint while a material's uses sum all; a mission reward that embeds a
  box without details keeps the empty box.

## 4. Proofs

`tlapm` checks every theorem for all values of the constants.

`SyncLeaseProofs` (from `LeaseAssumption`, which asks nothing of the clocks):
`TypeCorrect`, `LockedSessionsAreCurrent`, `CurrentTokenHasOneOwner`, and
`SyncLeaseIsFenced`, that `SyncLease` implements `FencedStore`. The invariant is
`IInv == TypeOK /\ LockedIsCurrent /\ CurrentClaimHolds /\ JobHasToken`.
`LockedIsCurrent` is not inductive alone: a status save locks the row after
checking that its token is not older than the row's, and only because the token
is that of a claim, and claims never exceed the row's token, is it the current
one. `CurrentClaimHolds` in turn is kept because only an acquisition moves the
token, and it waits for every lock.

`PunctualJobsAreAlone`: under `PunctualSpec` two pods never run live jobs at once,
if no statement outlives its caller (`MaxLate = 0`) and the clocks differ by less
than `TTL - Beat` (`ClocksAgree`). The invariant (`LiveHolds`) bounds, for the job
whose context is live, how long ago its last renewal was by how much of the lease
is left on every clock: another pod can only take the row over when the last
renewal is older than punctual heartbeats allow.
`PunctualBehavioursHaveOneJob` states it of `TimedSpec`, the specification of the
run, whose behaviours choose at the start whether their heartbeats are punctual.

`RegionSyncProofs` (from `RegionAssumption`): `RegionTypeCorrect` and, when
`"running" \notin SaveMayLose`, `ServedRegionIsStable`, that `RegionSync`
implements `PublishedRegion`. The invariant is where the job is: from its
running row to its last row it writes no status, so `latest` is not a success in
the steps `load`, `store` and `prune` (`OutOfService`), and the commit it stores is
known (`LoadedKnown`).

It goes on with what a status row says.
- `SuccessIsRecorded` and `CanceledStaysRecoverable` need only where errors are
  written down (`JobInv`): an error counted as the cancelling's own is met after
  the cancelling, which holds the failed row back.
- `SuccessIsOneCommit`: a success row names the one commit whose records and
  payload are stored, when no running row is lost and the history only goes
  forward. `ForwardHistory(Age)` says the latter: commits have ages that
  grow along the moves of the ref, every commit has records, and commits with the
  same manifest have, with all between them, the same records. After failures the store is a mix of
  commits. The invariant bounds it: every record is of a commit between the one the
  version payload is of, or the one the last success names, and the newest one a
  job has resolved (`PayloadBound`, `SuccessBound`, with `Resolved`, `PreviousKnown`
  and `Stored` for what the job knows). A shortcut is taken when the two ends of
  that interval meet, or share a manifest, and then there is nothing in between.
  `MCRegionSync` assumes, and TLC evaluates, that its forward instance is such a
  history and that the one of `region_revert` is not.

The first part of `EntityStoreProofs` (from `LayoutAssumption`) is about the pure
part of the store, `RecordLayout`, for files of any length. Two lemmas stand for an induction over data, which the
prover has no form of: `NatSet`, that a set of naturals with 0 that is closed under
successor is `Nat`, which turns a property into the set of numbers that have it,
and `RecursionExists`, that a function defined by a step over `0..N` exists. On
them rest `RankReaches` (the elements of a finite ordered set are counted by how
many come before), hence that `EntriesOf` sorts (`EntriesAreSorted`), and
`PackedPacks`, that filling blocks one entry after the other keeps every entry
once, in order, in a block that names the first. So a lookup by the greatest
first key at or below a key meets the block the writer chose (`LocatedByKey`,
`LocatedStoredForm`), and the blocks put together restore the source order
(`InOrderIsStoredForm`). `RowsShowTheValues` says that a column gives back each
value, and `SamePostings` when two lists have the same postings.

Its second part (from `StoreAssumption` and `FilesAssumption`: a file is a list of
parsed records, a projected value has a JSON type) is about the store.
- `DigestNamesTheSource`, and `DerivedDataMatches` when `RepeatsAgree` holds. A
  rebuild writes derived data of blocks it read before its transaction, and the
  transaction compares only the token. It is right because of what the owner of
  the current token knows (`CurrentJobKnows`): only it writes, so what it has read
  is still there, and the job of an old token is refused. `TokensIssued` and
  `BlocksMatchRow` carry that.
- `BlocksAlwaysHoldTheOrder`: the row's order and the blocks are those of one file
  (`RowMatchesFile`), and the layout lemmas say the rest.
- `AnswersAreOfOneVersion`, again with `RepeatsAgree`. For each path a lemma shows
  that it answers what one version holds (`GetAnswer`, `AllAnswer`, `IndexAnswer`,
  `ProjectionAnswer`, `PageAnswer`); `ReadKnows` is what a read of two statements
  carries from the first to the second: a scan only its question, a page the keys
  of the one version it has seen, as long as nothing was replaced. The history
  variable `seen` has the present content in it while a read is under way, so the
  version its last statement reads is one of them.

`ResponseCacheProofs`: `CacheTypeCorrect` and `AnswersStayCurrent`. An entry is
written under the revision its filler read, which may have been withdrawn since.
The invariant says what whoever reads it knows: while a region is served the
entry and every fill of its revision hold the stored records (`Served`), and what
is stored or read under a revision is in the history of every request that waits
for it (`Shared`), because the request read the same revision while it was
served.

`EventHubProofs` (from `HubAssumption`): `HubTypeCorrect`, `HubNeverPanics` (the
channels in the set of subscribers are open, and a fan-out that holds the read
lock has only such channels before it) and `HubKeepsOrder` (what is shown, buffered
and saved of a region is one increasing sequence, since a status is published
under the lock it was saved under).

`SyncRecoveryProofs` (from `RecoveryAssumption`): `RecoveryTypeCorrect`. What this
component promises beyond that is liveness.

`ControlProcessProofs` (from `ProcessAssumption`): `ProcessTypeCorrect`,
`OneJobAtATime`, `DrainLeavesNoJob`, `ServerClosedOnlyBySignal` and
`ExitIsCleanAlways`, each with an invariant of its own.
- `FlagInv`: the process flag has at most one holder, an admin request between
  taking it and being admitted, or a job that runs or is about to give it back,
  and it is set while there is one. So whoever finds it clear is the only one,
  and giving it back is the holder's to do. `ApartInv` keeps a request from being
  a holder twice: it has no job before its handler has admitted it.
- `DrainInv`: once `Wait` has closed the gate nothing enters its wait group, so
  the group stays empty when the wait has found it so, until the exit.
- `ClosedInv`: the server is closed only by the signal handler, after it has
  published the deadline, which it never takes back; and main collects a second
  result only on the signal's path.
- For the exit, `PathInv` follows main and the signal handler through the drain,
  `WorkInv` is what each wait of the drain has established when none gave up, and
  `ConnInv` says that no handler runs once a shutdown of the server has returned
  in time. Together a
  process that ends without an error and was not forced passed each of these
  before it closed the database.

`ReadProofs` (from `PublicReadAssumption`; `QueryAssumption`: an absent value is not
a number and the page cap is positive; `RequestAssumption`: a request is for a route
of one handler, in the table `Routes`, and has the parameters the route reads, which
the parsers of the handlers default, and a list of missions is asked for by one of
the families there are; `ContentAssumption`: an entity is stored as a
list of records, none of them null, and so are the reward ranges of an event;
`IDAssumption`, which only `AggregatesAreTrue` needs: ids are positive numbers, and
wherever a list has an id it shows the record that is found under it. The store
keeps one record per key, the last, and lists a repeated key at each of its places
(`StoredForm`); ids are its keys but for the three entities of
`CompositeKeyEntities`, which no id finds and which the assumption is not about).
The contents, the requests, the capacity, the lifetime and the clock's bound are
arbitrary.
- `CachedAnswersStayCurrent`. `public_routes.go:16-20` allows a route to be cached
  only if its answer depends on nothing but the region's data and "time reported
  through cachehint.ValidUntil". `AnswersKeep` proves that of every cached route: if
  a region stores the same data at two times, and the second is not past the moment
  reported at the first, the answers are the same, whatever the other regions have
  become. It takes one lemma per handler that reports a moment
  (`EventListKeeps`, `VirtualLiveListKeeps`, `LookupListKeeps`,
  `MusicRecordsListKeeps`, `GachaListKeeps`, `StampsListKeeps`, `EventDetailKeeps`),
  each from what its filter foresees: `SpoilersForeseen` (the last timestamp of an
  item that is ahead, the first such over the items), `OngoingForeseen` (the next
  opening or closing), `StampsForeseen`, `CurrentEventKeeps`. The invariant
  `CacheInv` then says of an entry that would be served that it was answered at
  some moment from what the region stores now, and expires before that answer
  changes; a sync ends the service of what it had before it changes anything, since
  a region has no revision while it runs and another one afterwards (`SyncInv`).
  The detail of an event is promised without its `Borrowed` fields, as in the run.
- `ReadyRegionsAreServed` and `AvailabilityIsExact` compare what two handlers
  decide from the same statuses, at any moment of any sync.
- `PagesArePartitions`. `PagesHoldEachItemOnce` is about `Slice` and
  `PaginationOf` over any list, of any type of item and any page size.
  `JoinedPages` adds that the pages joined one after the other are the list; the
  joining is a recursive function, whose existence (`JoinsExist`, `JoinsAgree`) and
  value come from `LeastNumber`, since a smallest number of pages for which they
  fail cannot be. What is left is that every page comes from the *same* list,
  which is where a handler can go wrong: it must neither filter, sort nor skip
  by anything that depends on the page. One lemma for each of the twenty paged
  routes (`EventPages`, `MusicPages`, ... `RankPages`) unfolds the handler and
  names the list its pages are cut of (`Listed`: the filtered and sorted items, or
  what is stored when the handler takes the shortcut through `ListByPage`), how an
  item is made of a member, and which page sizes are refused; `RequestIsPaged`
  puts them behind the router. The list of missions is the one route whose items
  the page touches: `MissionIsItself` says that what remains of an item without the
  levels of its group is a function of the record, and the theorem speaks of that
  (`ItselfAnswer`).
- `BatchesAreAnswered`. Cards are found by a set of ids and put back in the order
  asked (`CardsFound`, `PickedAnswers`), characters are built from three entities
  and looked up (`CharactersKeepTheID`, `BuiltUnderTheirIDs`): either way an id is
  answered by the record stored last under it (`FoundHasTheID`), once, or missing.
- `EventsAreOfOneMind`, in three parts. `UnitsAgree`: the list item takes unit and
  banner from the event's story as the detail does. `RelationsAgree`: an event
  lists the cards whose index names it and a card the events, both through
  `eventcards`, whose order and duplicates may differ; a pickup is found from the
  gacha and from the card. `PreviewsAgree`: the ranges chosen for the preview
  (`TakenAround`, `TakenTitled`) are distinct, are ranges of the full answer, with
  boxes resolved from the same region or from jp, and stay sorted by rank
  (`PreviewIsSorted`).
- `AggregatesAreTrue`, in three parts. `UsesAgree`: a material's uses are summed over
  the costs that name it (`UsesShow`), a fixture's costs are those of its first
  blueprint (`BlueprintCosts`), and a cost of the one is a term of the other's sum
  (`UsedIsEnough`, by `SumBounds`: no term of a sum of natural numbers exceeds it;
  `SumAll` is a recursive function, whose value comes from `LeastNumber` as that of
  the joined pages does). `MissionsArePreviewed`: a mission's preview
  is made of a lookup for all the missions it is shown with, the list of the
  levels of one for its group alone. The two are of the same levels when the
  group is asked for once (`AskedOnce`), which is so for a mission asked for by id
  and for one whose group no other item of its page has (`AskedAlone`); a group
  without levels is refused by the one and left out by the other. `StampsAreCovered`: the sources split the stamps
  (`SourcesSplit`), whatever else is filtered.
- `ReadTypes`, with the bound on the entries.

`Positions` states filters and sorts in closed form, because the provers know
nothing of `SelectSeq` and `SortSeq`: `Picked(s, P)` is the list whose n-th element is
at the n-th position of `P`, a sort lists the positions by how many come before.
`OrderNumbers` (the elements of a finite strict order are numbered by their ranks)
gives both: `PickedHolds`, `PickedOnce` and `NoneRepeated` say what a filter and
`Distinct` leave of a list.

Only model-checked: everything about fairness (`LoserStops`,
`DeadOwnerReplaceable`, `Converges`, `ShutdownEnds`, `StartupRecovers`,
`PublishReturns`, `StreamsEnd`, `EveryoneIsAnswered`), which the prover does not
reach; and two properties of `queries`.
- `ListsShowTheItems` needs that no two records of an entity have the same id,
  which no code checks (a repeated key is listed at each of its places), so it is
  a property of the contents of the run. That the item is the one its answer shows
  would also need the values a list is sorted by to be in an order, as below.
- `FiltersAgree` compares a filter over stored fields with one over assembled
  items. The two agree only if sorting and filtering commute, for orders that are
  total on the stored values; `compareSortableValues` is none for values of mixed
  types (see above), so over arbitrary contents the property says less of the
  code than the run does.

No module has a RECURSIVE operator.

## 5. Not modelled

- The GitHub loader: it keeps no state between calls. What a load can end in, a
  commit with or without its manifest, a failure, a rate limit, is in
  `RegionSync`; the retries inside one load and the parsing of an archive are not.
- The dashboard and `ListLatestStable`, which only it reads; the readiness of the
  control role, which is ready before any data. `SeedPending` of the status
  repository has no caller.
- Of the read handlers: the syntax of requests (which malformed parameter gets
  which 400), errors of single reads, fields that are only copied, and the text of
  names (`name` filters compare values).
- Of the cache: the normalisation of a query's text into a key and the encoding of
  an entry. The single flight is one for all requests, where the code has one per
  process (`responsecache/middleware.go:61`): that lets more requests share a fill
  than the code does, and every sharing of the code is among them.
- Of the readiness: the error of asking for a region's first success
  (`health_handler.go:172-177`), which makes the pod ready without saying what is
  pending, like the other errors of single reads.
- Payload checks of the webhook (signature, event, ref) are request-local; the
  deliveries of the model have passed them. A failed migration ends the process
  at once (`Fatalf`). Keep-alive comments of the event stream change no state.
- Token verification, the admin pages, configuration, logging, metrics,
  migrations, the dump tool and the generated documentation have no state the
  others depend on.

## 6. Plan

Done: lease and fencing, region sync, process, cache, hub, recovery, entity store
and record layout, the public read API with its readiness and its cached
lifetimes; proofs for all of them, of the read API its cached answers, readiness,
availability, paging, batches, the views of an event, sums and previews.

Left, by what it would add:
1. Theorems about the read API's remaining lists: that a list shows an item as
   the answer about it does, for contents without repeated ids.
2. The webhook's filtering and the dashboard, which would make those components
   complete.
3. `GitHubLoader`: resolve, archive, retry with back-off, rate limits, with the
   promise that an archive is that of the resolved commit.
4. Larger instances of `queries`: three regions, and entries of two requests at a
   time.
