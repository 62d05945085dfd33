# A specification of K8sInsight

K8sInsight watches Kubernetes clusters, detects pods in trouble, merges what it
detects into *incidents*, collects evidence for them and shows both to the
members of a team. The Go program (`cmd/k8sinsight`) is one process: an HTTP API
over a PostgreSQL database, and one *pipeline* of goroutines per watched cluster.
This directory holds TLA+ models of the program, the TLC configurations that
check them, and proofs checked by TLAPS.

## 1. The system

```
 informers ─▶ pod/event handlers ─▶ Detector ─▶ anomalyCh(200) ─▶ fan-out
 (watcher)    (watcher)             (detector)                    │      │
     │                              one goroutine per anomaly:    ▼      ▼
     │ heartbeat                             Collector (collector)   IncidentManager
     ▼                                             │ evidenceCh(100)  (pipeline/incident)
 cluster.Manager  ◀── ClusterService               ▼                   │   ▲
 (m.mu, m.pipelines)   (HTTP requests)     EvidenceProcessor ─▶ Index ◀┘   │ timers,
     │                                       (4 workers)     (dedup)       │ sweeper
     ▼                                             │                       ▼
  clusters table                                   ▼                 incidents table
                                        evidences table, notifications
```

| component | state it keeps | operations | what is hard | what makes it correct |
|---|---|---|---|---|
| incident manager (`internal/pipeline/incident/manager.go`) | the incident objects, shared by pointer | `HandleAnomaly` (a goroutine per anomaly), `groupWaitTimer` (one per incident), `checkActiveWindow` | no lock on the objects; lookup and insert in two steps; snapshots saved in any order; failing saves; restarts | life cycle never goes back; nothing counted twice; what is quiet is resolved; the stored row shows no state that was not reached |
| deduplication index (`internal/pipeline/dedup/index.go`) | map from key to incident, under a mutex | `FindActive`, `Upsert` (evicts), `Remove`, `Sweep` | bound of the map; two windows; removal by key | open incidents leave only for a reason; it drains |
| cluster manager (`internal/cluster/manager.go`) | `m.pipelines` under `m.mu` | `StartCluster`, `StopCluster`, `StopAll`, `ReloadFromDB`, heartbeat | long work under the lock, callbacks that need it | no orphan watcher; silent when stopped; start and stop return |
| cluster service (`internal/service/cluster_svc.go`) | rows of `clusters` | Create, Update, Delete, TestConnection, Activate, Deactivate | concurrent requests, whole-row saves | a cluster that is off has no pipeline (not so with concurrent requests, section 4) |
| watcher, handlers, filter (`internal/watcher`) | the informers' caches | `Start`, `Stop`, `onAdd`, `onUpdate`, warning events | skipped and repeated states, startup | the quick checks hide nothing from the rules |
| detector (`internal/detector`) | none; the channel it fills | six rules over (old, new), `dispatch` | rules report only beginnings; full channel | every condition is reported once |
| collector (`internal/collector`) | none; the channel it fills | concurrent collectors under a timeout | backpressure, lifetime of goroutines | every anomaly yields one whole bundle, or is given up with the pipeline |
| evidence processor (`…/incident/evidence_processor.go`) | none | four workers: find the incident, save the bundle, notify | the incident may not exist yet, or be a newer one | every bundle that has an incident is saved and announced |
| notification (`internal/notify`) | the sinks loaded from settings | `HandleAnomaly` | a failing sink | every sink is tried |
| retention (`internal/infra/retention/job.go`) | tables | archive pass, delete pass, ticker | statements fail and are only logged; runs beside the writers and readers of evidence | the evidence of an old incident goes in the end |
| accounts: sessions, users, roles (`internal/auth`, `api/middleware/auth.go`, `api/handler/auth_handler.go`, `role_handler.go`, `user_handler.go`) | users, roles, refresh tokens; a permission cache; the stored states and the provider client of single sign-on | login, refresh, logout, single sign-on, edits of users and roles, the seeds of a start | tables and cache change in separate steps, whole-row saves, ignored errors | what is cached is what is stored; the sessions of a changed user end; built-in roles stay |
| settings (`api/handler/setting_handler.go`, `infra/postgres/setting_repo.go`, readers in `cluster/manager.go`) | table `system_settings` | pages shown and saved, a transaction of upserts for each; loads by pipelines | upserts in the order of a Go map; statements of one load mix with saves; a masked secret | notifications go where the page says; a masked secret stays; saves end |
| incident query API (`internal/service/incident_svc.go`, `api/handler/incident_handler.go`, `local_cache.go`) | three TTL caches | List, Get, GetEvidences, RecollectMetrics | pages over rows that move, cached pages of different ages, a fill racing an invalidation | no row that stays is skipped or repeated; staleness is bounded; what was recollected is shown |
| process (`cmd/k8sinsight/main.go`) | mode | boot: migrate, seed, reload, serve; shutdown: stop all, stop serving | order of shutdown | it ends |
| web frontend, manifests | – | – | – | not modelled |

The hazards of this code, each at its line and with the properties that watch
it, are listed in `PROJECT.json`.

## 2. The modules

### IncidentLifecycle — what is promised of one incident

`state[id]` is the state in memory, `stored[id]` the state column. An incident is
detected once, goes from Detecting to Active at most once, is resolved at most
once and never reopened; a row may lag behind but shows only states that its
incident has gone through.

### ClusterPipelines, EvidenceDelivery — what else is promised

`ClusterPipelines`: a cluster has at most one pipeline, which is started, runs, is stopped
and then gone. No other is started or stopped while one is starting, and a stopped pipeline
is gone only when none of its callbacks runs. `ClusterManager` maps its watchers and
`m.pipelines` to the phase of each cluster (`PhaseOf`, `Busy`).

`EvidenceDelivery`: the evidence of one anomaly is collected, sent, taken by one worker,
stored if it can be and announced, or dropped for want of an incident; it is given up only
by a pipeline that stops, and nothing is stored after a stop. `EvidenceFlow` maps the
goroutines of an anomaly, the channel and the workers to this one line (`StageOf`).

### IncidentPipeline — index, manager and table

| model | code |
|---|---|
| `inc[id]` | the `domain.Incident` object all goroutines share |
| `index[k]` | `Index.incidents` |
| `row[id]` | state and count columns of the row |
| `handler[h]` | one running `HandleAnomaly`; `pc` is the next access to shared state |
| `timer[id]` | the `groupWaitTimer` of an incident |
| `sweeper` | the `checkActiveWindow` goroutine, `todo` what Sweep returned |
| `running` | is there a pipeline (`StartCluster`, `StopCluster`, a crash) |

One step is one locked operation of the index, one access to a shared object, or
one database call. So `inc.Count++` is a load (`Touch`) and a store (`Bump`);
the row is written from the snapshot `toModel` made before. `Update` is gorm's
`Save`, which inserts a row that is not there: a merge may create the row before
`repo.Create` does, which then fails, and no timer is started (`CreateFails`).
`Upsert` and `evictOldestResolved`, both windows of `Sweep` and `Remove` by key
are translated with their strict comparisons. A stop loses index, timers and
running handlers and keeps the rows. Time is counted in ticks; `inc[id].age`
saturates at `Horizon`, beyond which no comparison changes.

### ClusterManager — lock, requests, informers

A step is one section under `m.mu` as far as it runs without waiting, one
database call, or a part of an informer callback. The lock stays held through the
cache sync (`Start` … `Rewrite`) and through `Shutdown` (`Stop` … `Shut`), as in
the code. Requests of the HTTP server are slots with a program counter; saves
write the whole row as read earlier. `Crash` kills the process at any moment;
only the table is left. client-go is external: a watcher's informers end when its
context is cancelled and no callback runs.

| model | code |
|---|---|
| `lock`, `pipelines[c]` | `m.mu` held for writing, `m.pipelines` |
| `op[o]` | a request of the HTTP server, or main (`Main`: reload at boot, `StopAll` at the end) |
| `row[c]` | status and connection status in `clusters` |
| `watch[w]`, `call[w][l]` | one `watcher.Watcher` with its context; a callback of its listener `l`, its heartbeat included |
| `mode` | boot, serving, down |

### Detection — from pod states to anomalies

The kubelet (external) moves one pod through waiting, running, terminated and
evicted states; the informer gives a handler the last state it delivered and the
present one, however much happened between. The quick checks of the handlers, the
six rules and the dispatch into the bounded channel follow the code. A container
status is reduced to what the rules read: state or waiting reason, restart count,
last termination. `told`, `atStart` and `exitsTold` only record history for the
properties: the conditions reported, and those found when the watch began, as long as they
last, and the exits reported. Pods share nothing but the channel, so one pod is enough.

### EvidenceFlow — from anomalies to stored and announced evidence

| model | code |
|---|---|
| `running` | `pipelineCtx` is not cancelled |
| `fanOut`, `handling`, `open` | the fan-out goroutine; the `HandleAnomaly` calls it has started; does `Index.FindActive` find an incident |
| `pc[a]`, `wanted[a]` | the `collect` goroutine of an anomaly, and the kinds of evidence its configuration asks for |
| `item[a][m]`, `loaded[a][m]`, `got[a]` | the goroutine of one collector, and `append` under the lock of `addEvidence` as a load and a store |
| `channel` | `evidenceCh` |
| `worker[w]` | a worker of the evidence processor with the bundle it processes |
| `stored`, `owed[a]` | the `evidences` table; the notifiers the loader named that were not called yet |

Every `select` on a context keeps both of its branches when both can go: a worker
may take a bundle, and the fan-out an anomaly, after the cancellation. A collector
ends by itself, by its timeout or by the cancellation, and returns an evidence in
each case. Of the incident only `open` is kept, which is what `processBundle` asks
the index; `IncidentPipeline` has the rest.

### IncidentPages — the list, page by page

| model | code |
|---|---|
| `row[i]` | state and `last_seen` of an incident's row; `at`, when it was written, is for the properties |
| `cache` | `listCache`: pages with their request (the key is the query string) and `expiresAt` |
| `reader[r]` | one client and the request it has under way; `by` says if it pages by cursor or by number |
| `shown`, `oldest` | what the client has been given (history) |

A step is one locked access to the cache, the snapshot of the query, or its answer:
so `get`, which looks under the read lock and deletes under another one, is `Miss`
and `Delete`, and a page is stored after others have moved on. The query is
translated whole: the filter, `(last_seen, id)` below the cursor, the order, the
offset of a page number, one row more than the page to know if there are more, the
last row as the next cursor. The pipelines are represented by `Write`: a row, with
the `last_seen` of any moment up to now, as their saves come in any order. The client
(external) asks for the next page until there is none, or gives up when a query fails.

### Retention — what becomes of evidence

| model | code |
|---|---|
| `state[i]`, `age[i]` | state of an incident's row, and how long ago `last_seen` is, in steps the cutoffs tell apart |
| `evidence[e]` | a row of `evidences`: its incident, or `Gone` |
| `job` | where `Run` is: waiting for its ticker, before the archiving, before the deletion |
| `cache[i]` | `evidenceCache`, with the rows it answers |
| `reader[r]`, `recollect[r]` | `GetEvidences`: look, query, fill; `RecollectMetrics`: save, then delete the entry |
| `told`, `late` | rows a client was told of; readers whose query was followed by a recollection's delete (history) |

A step is a statement or an operation of the cache. The pipelines are the steps that
create, merge, resolve and add evidence to stored incidents; a merge makes an incident
young again whatever the job is doing. The `late` of a cache entry says that it was stored by a
reader that had queried before a recollection deleted the entry of its incident.

### Accounts — roles, users, sessions

| model | code |
|---|---|
| `roles[i]`, `users[u]`, `tokens[t]` | rows of `roles`, `users`, `refresh_tokens` |
| `cache[n]` | `PermissionChecker.cache` |
| `edit[o]` | a request of the role editor: check the name, save, clear the cache entry by entry |
| `check[f]` | a request whose permission is looked up: miss, query, store |
| `work[w]` | a request about users and sessions, with the row it has read |
| `boot` | the seeds of `main`, a statement at a time; a seed that fails is skipped |

Saves write the row that was read; revocation is a statement of its own whose error is
ignored, as in the code. `on` of a session is the row it was issued on, `late` marks one
that outlives a change because its issue overlapped it: what `SessionsCurrent` excuses.
The identity provider is external: a callback arrives with a username.

### Settings — one table, its pages and its readers

| model | code |
|---|---|
| `row[k]`, `lock[k]` | committed value and row lock of a key of `system_settings` |
| `tx[o]` | the transaction of a `BatchSet`: upserts still to do, in any order (the keys of a Go map) |
| `form[o]` | the sign-on page a client has open, with its mask |
| `load[l]` | `loadCollectConfig`: three `Get`s one after another; `seen`, `failed` are history |

What the page of the notifications shows (`ShownNotify`) and what their dispatcher makes of
the same rows (`LoadNotify`) are translated each from its own code, with defaults, fallbacks
and the SELECT that is not answered. `touched` records what a client did about the secret:
entered one, left it masked, or saved a page that has shown none. The database is
external: a SELECT sees what is committed, an upsert waits for the lock of its row, and
one of the transactions that wait for each other is aborted.

### Modules that compose others

`IncidentPipeline` composes the index, the manager and the table, and instantiates
`IncidentLifecycle`, which it implements; `ClusterManager` composes cluster service,
manager, watchers and main, and implements `ClusterPipelines`; `EvidenceFlow` the fan-out,
collectors, processor and notifiers, and implements `EvidenceDelivery`.
`MCIncidentPipeline`, `MCIncidentPages`, `MCAccounts` and `MCSettings` add the symmetry
sets and tables of their instances; the other modules are checked as they are.

### Proof modules

One for each of the eight components: `IncidentPipelineProofs`,
`ClusterManagerProofs`, `DetectionProofs`, `EvidenceFlowProofs`, `IncidentPagesProofs`,
`RetentionProofs`, `AccountsProofs`, `SettingsProofs`; section 6.

## 3. What the runs check

| run | instance | distinct states | it shows |
|---|---|---|---|
| `inc_safety` | 2 keys, 3 incidents, 2 handlers, 3 anomalies, map of size 1, timely, failing saves | 122,993 | life cycle (refinement of `IncidentLifecycle`), `ActiveBeforeResolved`, `NothingCountedTwice`, `OpenLeavesIndexOnlyByKey` |
| `inc_live` | 1 key, 2 incidents, 2 handlers, one stop, any speed, fair | 219,515 | `IndexDrains`, `TimedLeavesDetecting` |
| `clu_ops` | 1 cluster, 2 concurrent requests, 2 watchers, boot and shutdown, 1 crash, failing calls, fair | 167,238 | refinement of `ClusterPipelines`, `NoOrphan`, `SilentOnceStopped`, `StartReturns` |
| `det_watch` | 1 container, 2 restarts, channel of 2, any restarts of the watch | 590,254 | `FilterHidesNothing`, `MissedOnlyAtStart`, `NothingToldTwice`, `ExitsToldByCount` |
| `evi_flow` | 2 anomalies, 2 kinds of evidence, channel of 1, 2 workers, 2 notifiers, a stop at any moment, fair | 123,042 | refinement of `EvidenceDelivery`, `BundleWhole`, `OnePlace`, `EveryBundleServed`, `StopEndsAll` |
| `lst_pages` | 3 incidents, 2 clients, pages of 1, one write, clock of 3 ticks | 3,032,086 | `WalkComplete`, `PagesComplete`, `ListFresh` |
| `ret_job` | 2 incidents, 2 rows of evidence, a reader, a recollection, 2 requests, a failure, a restart, fair | 831,600 | `RecollectionShown`, `OldEvidenceGoes` |
| `acc_ops` | 2 roles, 1 permission, 1 user, 2 passwords, 2 sessions, 4 requests in 5 slots, an ignored failure, a restart | 1,359,542 | `StaleOnlyByOverlap`, `SessionsCurrent`, `BuiltInKept` |
| `set_pages` | 2 slots for administrators and one for a load, 2 saves or loads, 2 channels, a new and an old table, a failure, fair | 160,086 | `NotifiedAsShown`, `LoadedWasStored`, `SecretKept`, `SaveEnds` |

The runs of a component with a `TypeOK` check that too. Three runs show that the code does
not do what it or its documents say; the counterexample of each is short enough to be read.

| run | the property, and how the code breaks it |
|---|---|
| `inc_quiet` | `ResolvedOnlyWhenQuiet`: an anomaly merged between `Sweep` and `State = Resolved` is lost in a resolved incident, which leaves the index |
| `inc_restart` | `StoredOpenIsResolved`: after a restart nothing resolves the rows an earlier pipeline left open |
| `clu_stop` | `StopReturns`: `StopCluster` waits under `m.mu` for a callback whose heartbeat waits for `m.mu` |

### Bounds

Every bound is a constant: `MaxAnomalies`, `MaxStops`, `MaxRequests`, `MaxFailures`,
`MaxCrashes`, `MaxRestarts`, `MaxWrites`, `MaxTime`, `MaxAge`, and the sizes of the sets.

- Incidents: races here are between two goroutines over one incident, or over two
  incidents of one key; three anomalies let a third goroutine take part, and two keys
  with `MaxSize = 1` make every second `Upsert` evict. `GroupWait = ActiveWindow = 1`
  tick is the tightest configuration the proofs allow: a timer is due in the very tick
  in which its incident reaches the window.
- Clusters: one is enough for the deadlock and the races of requests, since clusters share
  only the lock (that they exclude each other is in `ImplementsPipelines`); two watchers
  let a new pipeline start while an old one ends.
- Detection: pods share nothing but the channel. Two restarts give every rule an old
  and a new count in all orders.
- Evidence: two anomalies fill a channel of one place and keep both workers busy; two
  kinds of evidence race for one slice, one of them the optional one.
- Pages: three incidents in pages of one are three pages, so a cursor goes down twice;
  with two clients a page of one comes to the other from the cache, and a slow query
  overtakes a fast one. `TTL = 0` and `Timeout = 1` let an entry live to the end of its
  tick and a query last into the next one, and with three ticks an entry expires while
  another client is still reading.
- Retention: ages 0, 1 and 2 are the three sides of the two cutoffs; of two incidents
  one is deleted while the other must stay; two rows let evidence be collected again
  after a pass, and one reader fills the cache across a recollection.
- Accounts: two of each slot for what can overlap with itself (editors, works), one
  checker beside them; two requests overlap and two more come before or after, enough
  for change, revoke, issue, use. One user is enough: no statement touches two, and
  the names of the roles are the only thing users share. Two passwords make a stale
  write-back differ from what it overwrites.
- Settings: two transactions lock the same rows in both orders, which is the shortest
  deadlock, or a save overlaps a load at each of its three `Get`s. That two saves mix in
  one load is beyond the instance and covered by the theorem `LoadsWereStored`.

The proofs hold for all values of these constants, so that a bound decides only what is
listed as model-checked in section 6.

### Fairness

The Go scheduler runs every goroutine that can run, the runtime fires timers, a database
call returns (with an error perhaps): weak fairness of each goroutine's step, per handler,
timer, sweeper, request, collect goroutine and worker. In `Settings` the database answers
every statement and finds a deadlock in the end (`Transact`); in `Retention` the ticker
goes on and a pass ends (`Job`), after a restart as before. A heartbeat that waits for the
read lock gets strong fairness, since `sync.RWMutex` lets waiting readers pass before the
next writer; the end of a cancelled watcher too, since a cancelled informer does not
deliver for ever. Nothing makes an anomaly, a request, a signal, a crash or the answer of
a cluster happen. Deadlock checking is off where the system may stop: when the bounds are
used up, a pod has ended or the process is down.

## 4. What the code does not keep

Beside the three runs, TLC finds these properties violated; they are defined in their
modules and checked by no run. To see one, add it as an INVARIANT to the configuration named.
The comments of the code state the first two; the other two would be wanted, but no text of
the repository promises them.

- `NothingMissed` (`Detection`, `det_watch.cfg`): pod_handler.go:51 says that pods which are
  abnormal already are checked at startup. `hasAnomalyStatus` does not know
  `CreateContainerConfigError`: one that is there when the watch begins is not reported then,
  nor later, as the rule sees it in the old pod. `MissedOnlyAtStart` says that nothing else
  is missed.
- `ExitsToldOnce` (`Detection`, `det_watch.cfg`): rules.go:73 takes a new restart count for
  a new exit. An exit that is found while its container waits to be restarted is reported
  then, if the watch begins at that moment or states were skipped, and once more with the
  restart. `ExitsToldByCount` says what the rules do ensure.

- `OneOpenPerKey` (`IncidentPipeline`): two handlers of one key both find nothing in the
  index, and both create an incident (manager.go:51; `inc_safety.cfg`). A handler
  that creates an incident while the sweeper is
  about to `Remove` its key, or a stop of the pipeline, leads there too. The theorem
  `OneOpen` says that in a timely pipeline nothing else does (`Apart`). Everything else
  there is checked with this race present: `OpenLeavesIndexOnlyByKey` is named for it, as
  the second `Upsert` puts the first incident out of the index.
- `OffMeansStopped` (`ClusterManager`): with two requests at once Deactivate sees no
  pipeline, Activate starts one, and Deactivate writes `inactive` (cluster_svc.go:268;
  `clu_ops.cfg`). The theorem `OffIsStopped` says that it holds as
  long as no two requests about one cluster overlap (`OneAtATime`), whatever requests about
  other clusters, boot, signals and crashes do.

Other properties name what they excuse, and each excuse is a loss of the code:

- `SessionsCurrent`: enabling a user, or binding one to an identity, saves the whole row
  it has read and revokes nothing. After a concurrent change of password the old password
  is back, and sessions made meanwhile stay (`Outlive` in `SaveUser`); a revocation that
  fails is answered with success (`RevokeFails`).
- `StaleOnlyByOverlap`: a permission set that was read before a role changed may be cached
  after the cache was cleared, and stays until the next change of a role.
- `RecollectionShown`: the same for evidence: what a reader has queried before the
  recollection deleted the entry may be stored after it, until it expires.
- `LoadedWasStored`: a collection may use a mixture of two saved pages.
- `NotifiedAsShown`: a SELECT that is not answered makes the dispatcher use the switch and
  the webhooks of the configuration file, whatever was saved (manager.go:272). With
  `LoadNotify(row, FALSE)` in the property TLC shows it.
- `SecretKept`: a page that was opened while there was no secret empties one that was
  entered meanwhile (the last disjunct).
- `LifecycleSpec`: a row may go back to an earlier state when saves overtake each other, and
  stay there until its incident is saved again; `OpenLeavesIndexOnlyByKey`: `Remove` goes by
  the key, and may take out a newer incident.

Where pages and readers of the settings disagree, beyond what a property states: the minimal
password length is asked for when users are created and their passwords reset
(user_handler.go:58, 149), while `ChangePassword` uses the constant 6 (auth_handler.go:196),
as does `GetMinPasswordLength` when its SELECT fails (setting_handler.go:832); the lifetimes
of tokens are shown and saved, but those of the configuration file are used (main.go:91); the
address and labels of a cluster take precedence over the page's, for a collection as they were
when its pipeline started (manager.go:117), and a recollection without an address on the page
fails before it looks for the cluster's (incident_svc.go:76).

## 5. Timing

`Timely` in `IncidentPipeline` says that a goroutine not waiting for a timer
finishes, database calls included, before the next tick (the sweeper's minute).
Without it the unlocked test-and-set in `groupWaitTimer` can reopen a resolved
incident; so the life cycle is stated, checked and proved under
`TimelySchedule == Timely /\ GroupWait <= ActiveWindow`, which the defaults (30s,
6h) fulfil. `inc_live`, and the proof of `OpenLeavesIndexOnlyByKey`, do without it.

## 6. What is proved

For every value of the constants, by `tlapm`. The assumptions are the ASSUMEs of the
modules, that the special values (`None`, `Gone`, …) are not elements of the sets and
that bounds are numbers, which TLC evaluates with the runs; `TimelySchedule` is a
hypothesis of four theorems only.

| theorem | statement |
|---|---|
| `TypeCorrect` (in each proof module) | `Spec => []TypeOK` |
| `TimelyInvariant` | `TimelySchedule => (Spec => []TimelyInv)` |
| `ActiveComesFirst` | `TimelySchedule => (Spec => ActiveBeforeResolved)` |
| `ImplementsLifecycle` | `TimelySchedule => (Spec => LifecycleSpec)` |
| `OpenStaysIndexed` | `Spec => OpenLeavesIndexOnlyByKey` |
| `CountedOnce` | `Spec => []NothingCountedTwice` |
| `QuietIfUndisturbed` | `Spec /\ []SweepUndisturbed => ResolvedOnlyWhenQuiet` |
| `OneOpen` | `TimelySchedule => (Spec /\ [](running /\ Apart) => []OneOpenPerKey)` |
| `NothingHidden` | `Spec => []FilterHidesNothing` |
| `ShownWasTold` | `Spec => []MissedOnlyAtStart` |
| `ToldOnce` | `Spec => NothingToldTwice` |
| `ExitsRise` | `Spec => ExitsToldByCount` |
| `BundlesAreWhole` | `Spec => []BundleWhole` |
| `BundlesAreOnce` | `Spec => []OnePlace` |
| `ImplementsDelivery` | `Spec => DeliverySpec` |
| `WalksComplete` | `Spec => []WalkComplete` |
| `CacheIsFresh` | `Spec => []ListFresh` |
| `CursorsDescend` | `Spec => CursorDescends` |
| `PagesAreComplete` | `Spec => []PagesComplete` |
| `NoOrphans` | `Spec => []NoOrphan` |
| `StoppedClustersAreSilent` | `Spec => SilentOnceStopped` |
| `ImplementsPipelines` | `Spec => PipelinesSpec` |
| `OffIsStopped` | `Spec /\ []OneAtATime => []OffMeansStopped` |
| `RecollectionsShown` | `Spec => []RecollectionShown` |
| `CacheFollowsTable` | `Spec => []StaleOnlyByOverlap` |
| `SessionsFollowUsers` | `Spec => []SessionsCurrent` |
| `BuiltInRolesStay` | `Spec => BuiltInKept` |
| `NotifiersAsShown` | `Spec => []NotifiedAsShown` |
| `LoadsWereStored` | `Spec => []LoadedWasStored` |
| `SecretIsKept` | `Spec => SecretKept` |

The refinement of `IncidentLifecycle` fails for an arbitrary well-typed state: a timer about to set
Active may find its incident resolved. `TimelyInv` excludes that. Its heart is
`TimerInv`: a waiting timer satisfies `age + left <= GroupWait`, so the incident's
age is at most `GroupWait <= ActiveWindow` while its timer is pending, and
`Expired`, which asks for more than `ActiveWindow`, never contains it. A merge sets
the age back to 0, which keeps the inequality; a tick moves one unit from `left`
to `age`, and cannot pass while a timer that is due has not run. `HandlerInv` and
`OneMaker` give an incident under construction a single maker and no timer, so
that `Create` starts the only one; `SweeperInv` says that what waits to be
resolved is open; `RowInv`, with the snapshots of handler, timer and sweeper, says
that all that is stored or about to be was reached. Each part is preserved by
every action (`TimelyStep`), one lemma per action group.

`OpenStaysIndexed` needs types only, and no schedule: `UpsertKeepsOpen` shows that
what `evictOldestResolved` takes out is never open, so that of the entries of other
keys an `Upsert` removes at most a closed one.

`CountedOnce` needs no schedule either. `CountInv` pays for every unit that is stored, or that
a merging handler has loaded (`Units`), with an anomaly, and keeps one for each handler that
has not counted yet (`Pending`). Two merges may load the same count and store the same unit, so
`Units` grows by one at most when a handler leaves `Pending` (`CountMoved`, `CountTaken`).

`QuietIfUndisturbed` completes the run `inc_quiet`: without a merge into an incident that Sweep
has returned (`SweepUndisturbed`), what is still to be resolved is as old as it was found
(`ExpiredInv`), so that gap is the only way to resolve an incident that is not quiet.

For `OneOpen` the invariant is `OneInv`: the index holds every open incident, but one that
its handler is about to publish and for whose key the index holds no other (`OpenIndexed`),
and what the sweeper is about to remove was the only open one of its key (`SweptAlone`).
Two open incidents of one key would then be two handlers of one key before their `Upsert`,
which `Apart` excludes (`OneFollows`). It builds on `TimelyInv`: an incident that its timer
puts into the index is still open then. The hypotheses are not idle: TLC finds two open
incidents of one key when `running` or either half of `Apart` is dropped.

In `DetectionProofs`, `RulesImplyChange` compares rules and quick check for any
two pods: what a rule asks of the pair is something `containerStatusChanged` asks
too. So an update that is discarded is one in which the rules find nothing, and
`FoundOrShownBefore` (what a rule does not report was shown by the old pod) makes
`MissedOnlyAtStart` inductive: what is missed now was missed, and shown, by the old pod, so it
is still in `atStart`. At first sight of the pod it needs `hasAnomalyStatus`, whose list lacks
exactly the excepted condition. `ToldOnce` is the other half: what was told is still shown by
the pod the handler compares with (`ToldIsShown`), and no rule fires for what that pod shows
already (`ShownBeforeNotFound`). For the exits, what was told is of the cached pod or an
earlier one (`ExitsToldAreSeen`), restart counts do not fall (`SeenIsPast`), and a rule asks
for more restarts than the cached pod has (`ExitReports`).

In `EvidenceFlowProofs` the inductive invariant is `FlowInv`. `SliceInv` is the
argument for `addEvidence`: one goroutine at a time appends, to the slice as it is,
so the slice holds the evidence of those that are done; when `wg.Wait` returns that
is all of it. `SentInv` (a bundle is under way only when its goroutine has ended)
keeps `wanted` fixed from then on, and, as a goroutine sends once, gives `OnePlace`. The
refinement of `EvidenceDelivery` uses both: as a bundle is in one place, `StageOf` is decided by
the one goroutine that has it, so each action moves one anomaly by one stage or none.

In `IncidentPagesProofs` the inductive invariant is `PagesInv`. A page is right
(`PageRight`) in this sense: of the incidents that were not written since it was
read, it has exactly those of the filter between its request's cursor and its own.
That is what a client needs to know of a page from the cache, however old, and
what no later write can break, since a write stamps its row with a later time.
`WalkRight` then says that of what stayed a client was shown what it has passed: a
page adds the part between two cursors, and the second is below the first. No
assumption is made on who writes, nor on clocks of the rows: `last_seen` may even go
back.

For a walk by page number the invariant is `NumberedInv`: a client was shown exactly what
the OFFSET of its next request skips, and there are as many rows as that. The lemmas before
it count ranks: the incidents of rank below `m` are `m` (if there are so many), a full page
takes the ranks of its part and no other, so the rows of two pages meet without a gap.

`ClusterManagerProofs` rests on the discipline of the lock (`LockInv`: whoever is between
`Start` and `Rewrite`, or `Stop` and `Shut`, or in `StopAll`, is the holder). `StartInv`
says of the holder that its watcher is the only one of its cluster and not yet in the map;
`StopInv`, with `Live`, `Stopping` and `Going`, how far a stop has come: a registered
watcher is live unless the holder is stopping it, and the watchers still live are of the
clusters `StopAll` has before it. `QuietInv` (a watcher that is off
has no callback) gives `SilentOnceStopped`: what leaves the map has been waited for by `Shut`.
The refinement of `ClusterPipelines` takes as a cluster's watcher the one in the map, or the one
that is being started (`Owns`; a watcher is of one cluster, `OneOwner`), and shows of each action
which phases it moves: but for a crash, the holder of the lock alone moves any, and a callback
makes its cluster busy, or changes nothing if its watcher has left the map. As this holds for
any set of clusters, it covers what the single cluster of the run cannot show.

`OffIsStopped` needs one invariant more, `OffInv`: what a request knows, at each of its steps, of
row and pipeline of its cluster (`Knows`). A Deactivate that is about to save has stopped the
pipeline, and a start is of a cluster whose row is active; a step of one request leaves what the
others know alone since they are about other clusters (`OthersKnow`), which is where
`OneAtATime` is used.

In `RetentionProofs` the invariant is `RetentionInv`. `Recollections` says that the rows a
recollection has saved are still its incident's, or deleted, when it clears the entry, and that
only saved rows are told of; so `DeleteEntry`, which tells the client, also takes away the one
entry that could lack them. `QueriesShow` says the same of a reader that is about to store: if
it is not late, it knows all rows its client could have been told of.

In `AccountsProofs` it is `RoleInv /\ UserInv`. `RoleInv` has the names of roles unique and,
of every request between its statements, that what it is about to write keeps a built-in role
as it is (`BuiltInOK`); a change of the table leaves its editor in the step before it clears,
which is the third excuse of `StaleOnlyByOverlap`. `UserInv` says that a token is of a user
that is there, with the row its request carries well-formed, and `SessionsCurrent` is then
inductive: a Save either goes on to revoke or marks what it leaves.

In `SettingsProofs` it is `SettingsInv`. `RowInv` has the table whole (`Table`: what a page's
checks accept), from which `NotifiedAsShown` follows; `TxShape` says that a payload keeps this
and that a secret in it was entered, or is none and so was shown,
so that a commit, which writes a payload at once, takes a whole table to a whole table.
`FormInv` says that an open page has the mask or nothing, never the secret; `LoadInv` that each
`Get` done returned a value seen during the load.

Only model-checked: the liveness properties (`IndexDrains`, `TimedLeavesDetecting`,
`StartReturns`, `EveryBundleServed`, `StopEndsAll`, `SaveEnds`, `OldEvidenceGoes`), which
are outside the prover's reach. Every safety property of the passing runs, refinements
included, is a theorem.

## 7. What is not modelled, and why

- Of single sign-on: the stored states, the exchange with the identity provider and the
  cached client for it. They bring a username to `HandleCallback`, where the model begins;
  states and clients touch none of the other tables.
- Of settings: the branding page (three texts with no reader), the two connection tests
  (they change nothing), and the readers of the password length and of a recollection's
  address, which take one SELECT each (section 4 says where they leave the page).
- Monitor rules: plain rows that `StartCluster` reads once. A running pipeline keeps
  the rules and the kubeconfig it started with; no text promises otherwise.
- Steps taken together: in `IncidentPipeline` a store to an incident, an `Upsert` or a `Remove`
  with the `toModel` snapshot that follows it (manager.go:53, 83, 113, 140); in `IncidentPages`
  the end of a query with the storing of its page.
- Of a database call whose client gives up: in `EvidenceFlow` and `Accounts` a statement that
  fails has no effect. One that commits although its answer is lost, and so a cache left
  uncleared, or sessions not revoked, behind a change that was made, is not seen.
- Of detection: another pod of the same name with another UID, between two callbacks.
- Of the cluster manager: the heartbeat's throttled write of `last_event_time`, a column
  nothing decides on, and what the loaded configuration contains (in `Settings`).
- Of the query API: `Get`, which caches one row as `GetEvidences` does; the optional total,
  a separate count; requests a client invents itself, as a page number below one.
- Under which incident a bundle is filed: of the incident `EvidenceFlow` keeps only whether
  there is an open one, so that a bundle of an old anomaly may be filed under a newer incident of
  its key is not checked (and, by evidence_processor.go:73, happens).
- Of an incident: message and pod names; of detection: the owner lookup, which fills in
  names; of evidence: its contents, and the analysis for the text of a notification.
- Several replicas: every model is one process with its database. Caches are per process,
  and nothing in the code invalidates those of another.
- Sinks and their messages, logs, metrics, HTTP routing, configuration files, the web
  frontend, manifests and migrations: wiring and presentation without a state the
  properties here speak of.
