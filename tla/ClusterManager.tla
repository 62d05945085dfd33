---------------------------- MODULE ClusterManager ----------------------------
(***************************************************************************)
(* The pipelines of all clusters and the administration of clusters:       *)
(*   - internal/cluster/manager.go: the map of pipelines under m.mu,       *)
(*     StartCluster, StopCluster, StopAll, ReloadFromDB, and the heartbeat *)
(*     every informer callback begins with,                                *)
(*   - internal/service/cluster_svc.go: the administrative requests, which *)
(*     the HTTP server runs concurrently,                                  *)
(*   - internal/watcher/watcher.go: the life of a Watcher,                 *)
(*   - the rows of the clusters table (internal/infra/postgres).           *)
(*                                                                         *)
(* A step is one locked section of m.mu as far as it can run without       *)
(* waiting, one database call, or one step of an informer callback.  The   *)
(* caches, the processor and Shutdown of client-go are modelled from how   *)
(* watcher.go uses them: Shutdown returns when the callbacks have.         *)
(***************************************************************************)
EXTENDS Naturals, FiniteSets

CONSTANTS
    Clusters,       \* cluster identifiers
    Requests,       \* slots for concurrent administrative requests
    Main,           \* the main goroutine: ReloadFromDB, StopAll
    Watchers,       \* Watcher objects
    Listeners,      \* informers of a watcher: Pods and Events
    None,           \* no cluster, no watcher, no lock holder
    MaxRequests,    \* bound: requests in a behaviour
    MaxCrashes,     \* bound: times the process is killed and started again
    DBFails         \* may a database call return an error?

ASSUME ConstantsAssumption ==
    /\ None \notin Clusters \cup Requests \cup Watchers \cup {Main}
    /\ Main \notin Requests
    /\ MaxRequests \in Nat /\ MaxCrashes \in Nat
    /\ DBFails \in BOOLEAN

VARIABLES
    row,        \* row[c]: the columns of the clusters table that matter here
    pipelines,  \* pipelines[c]: m.pipelines, the watcher of c or None
    lock,       \* who holds m.mu for writing
    watch,      \* watch[w]: a Watcher and the context it runs under
    call,       \* call[w][l]: the callback of listener l, if one is running
    op,         \* op[o]: the request in slot o, or what Main does
    mode,       \* the process: booting, serving, or down after StopAll
    left,       \* requests still to come
    crashes     \* times the process may still be killed

vars == <<row, pipelines, lock, watch, call, op, mode, left, crashes>>

Procs == Requests \cup {Main}
Kinds == {"create", "update", "delete", "test", "activate", "deactivate"}

\* status "new": the cluster was never created; "deleted": it has no row.
Row == [status : {"new", "active", "inactive", "deleted"},
        conn : {"unknown", "connected", "failed"}]
NewRow  == [status |-> "new", conn |-> "unknown"]
Off     == [cluster |-> None, phase |-> "off"]
Silent  == [l \in Listeners |-> "idle"]
Idle    == [kind |-> "none", pc |-> "idle", cluster |-> None, cl |-> NewRow,
            conn |-> "unknown", watcher |-> None, todo |-> {}]

TypeOK ==
    /\ row \in [Clusters -> Row]
    /\ pipelines \in [Clusters -> Watchers \cup {None}]
    /\ lock \in Procs \cup {None}
    /\ watch \in [Watchers -> [cluster : Clusters \cup {None},
                               phase : {"off", "syncing", "live", "cancelled"}]]
    /\ call \in [Watchers -> [Listeners -> {"idle", "beat", "work"}]]
    /\ op \in [Procs -> [kind : Kinds \cup {"none", "reload", "stopall"},
                         pc : {"idle", "insert", "read", "save", "check", "start",
                               "sync", "reread", "rewrite", "stop", "shut", "delete",
                               "next", "each"},
                         cluster : Clusters \cup {None}, cl : Row,
                         conn : {"unknown", "connected", "failed"},
                         watcher : Watchers \cup {None}, todo : SUBSET Clusters]]
    /\ mode \in {"boot", "serving", "down"}
    /\ left \in 0..MaxRequests /\ crashes \in 0..MaxCrashes

\* The process starts with the clusters an earlier one has left in the table.
Init ==
    /\ row \in [Clusters -> {NewRow, [NewRow EXCEPT !.status = "active"]}]
    /\ pipelines = [c \in Clusters |-> None]
    /\ lock = None
    /\ watch = [w \in Watchers |-> Off]
    /\ call = [w \in Watchers |-> Silent]
    /\ op = [o \in Procs |-> Idle]
    /\ mode = "boot"
    /\ left = MaxRequests
    /\ crashes = MaxCrashes

-----------------------------------------------------------------------------
(* Steps of a request: where it goes next, and the database calls.          *)

Exists(c) == row[c].status \in {"active", "inactive"}

Goto(o, pc)  == op' = [op EXCEPT ![o].pc = pc]
Return(o)    == op' = [op EXCEPT ![o] = Idle]

\* After StartCluster: ReloadFromDB goes on with the next cluster, whatever the
\* result, a request returns.
Started(o) == IF op[o].kind = "reload"
              THEN op' = [op EXCEPT ![o] = [Idle EXCEPT !.kind = "reload", !.pc = "next",
                                                        !.todo = op[o].todo]]
              ELSE Return(o)

\* After StopCluster: Deactivate saves the row, Delete deletes it.
Stopped(o) == Goto(o, IF op[o].kind = "delete" THEN "delete" ELSE "save")

\* What a request makes of the row it has read; TestConnection learns whether
\* the cluster can be reached before it saves.
Edited(kind, cl) ==
    CASE kind = "update"     -> {cl, [cl EXCEPT !.conn = "unknown"]}
      [] kind = "test"       -> {[cl EXCEPT !.conn = s] : s \in {"connected", "failed"}}
      [] kind = "activate"   -> {[cl EXCEPT !.status = "active"]}
      [] kind = "deactivate" -> {[cl EXCEPT !.status = "inactive"]}

\* A request arrives.  A new cluster gets a new identifier.
Request(o, k, c) ==
    /\ mode = "serving"
    /\ left > 0
    /\ op[o] = Idle
    /\ k = "create" <=> row[c].status = "new"
    /\ k = "create" => \A p \in Procs : op[p].cluster # c
    /\ left' = left - 1
    /\ op' = [op EXCEPT ![o] = [Idle EXCEPT !.kind = k, !.cluster = c,
                  !.pc = CASE k = "create" -> "insert"
                           [] k = "delete" -> "check"
                           [] OTHER -> "read"]]
    /\ UNCHANGED <<row, pipelines, lock, watch, call, mode, crashes>>

\* Create: repo.Create, then StartCluster.
Insert(o) ==
    /\ op[o].pc = "insert"
    /\ \/ /\ row' = [row EXCEPT ![op[o].cluster].status = "active"]
          /\ Goto(o, "start")
       \/ DBFails /\ Return(o) /\ UNCHANGED row
    /\ UNCHANGED <<pipelines, lock, watch, call, mode, left, crashes>>

\* Update, TestConnection, Activate, Deactivate: FindByID.
Read(o) ==
    LET c == op[o].cluster
    IN  /\ op[o].pc = "read"
        /\ \/ /\ Exists(c)
              /\ \E cl \in Edited(op[o].kind, row[c]) :
                    op' = [op EXCEPT ![o].cl = cl,
                              ![o].pc = IF op[o].kind = "deactivate" THEN "check" ELSE "save"]
           \/ (DBFails \/ ~Exists(c)) /\ Return(o)
        /\ UNCHANGED <<row, pipelines, lock, watch, call, mode, left, crashes>>

\* repo.Update is gorm's Save: it writes every column as read, and inserts the
\* row again when it was deleted.  Activate goes on with the pipeline.
Save(o) ==
    /\ op[o].pc = "save"
    /\ \/ /\ row' = [row EXCEPT ![op[o].cluster] = op[o].cl]
          /\ IF op[o].kind = "activate" THEN Goto(o, "check") ELSE Return(o)
       \/ DBFails /\ Return(o) /\ UNCHANGED row
    /\ UNCHANGED <<pipelines, lock, watch, call, mode, left, crashes>>

Delete(o) ==
    /\ op[o].pc = "delete"
    /\ \/ row' = [row EXCEPT ![op[o].cluster].status = "deleted"]
       \/ DBFails /\ UNCHANGED row
    /\ Return(o)
    /\ UNCHANGED <<pipelines, lock, watch, call, mode, left, crashes>>

\* Mutant of Check: Delete forgets the pipeline.
CheckUnlessDeleted(o) ==
    LET runs == pipelines[op[o].cluster] # None
    IN  /\ op[o].pc = "check"
        /\ lock = None
        /\ CASE op[o].kind = "activate" -> IF runs THEN Return(o) ELSE Goto(o, "start")
             [] op[o].kind = "deactivate" -> IF runs THEN Goto(o, "stop") ELSE Stopped(o)
             [] op[o].kind = "delete" -> Stopped(o)
        /\ UNCHANGED <<row, pipelines, lock, watch, call, mode, left, crashes>>

\* IsRunning, under the read lock.
Check(o) ==
    LET runs == pipelines[op[o].cluster] # None
    IN  /\ op[o].pc = "check"
        /\ lock = None
        /\ CASE op[o].kind = "activate" -> IF runs THEN Return(o) ELSE Goto(o, "start")
             [] op[o].kind \in {"deactivate", "delete"} ->
                   IF runs THEN Goto(o, "stop") ELSE Stopped(o)
        /\ UNCHANGED <<row, pipelines, lock, watch, call, mode, left, crashes>>

-----------------------------------------------------------------------------
(* StartCluster. *)

\* Mutant of Start: whether there is a pipeline is not asked again under the lock.
StartUnchecked(o) ==
    /\ op[o].pc = "start"
    /\ lock = None
    /\ lock' = o
    /\ \E w \in Watchers :
          /\ watch[w] = Off
          /\ watch' = [watch EXCEPT ![w] = [cluster |-> op[o].cluster, phase |-> "syncing"]]
          /\ op' = [op EXCEPT ![o].pc = "sync", ![o].watcher = w]
    /\ UNCHANGED <<row, pipelines, call, mode, left, crashes>>

\* It takes the lock, returns when there is a pipeline, fails on a kubeconfig
\* that makes no client, or starts a watcher.
Start(o) ==
    /\ op[o].pc = "start"
    /\ lock = None
    /\ \/ /\ pipelines[op[o].cluster] # None
          /\ Started(o)
          /\ UNCHANGED <<lock, watch>>
       \/ /\ pipelines[op[o].cluster] = None
          /\ lock' = o
          /\ \/ /\ op' = [op EXCEPT ![o].pc = "reread", ![o].conn = "failed"]
                /\ UNCHANGED watch
             \/ \E w \in Watchers :
                   /\ watch[w] = Off
                   /\ watch' = [watch EXCEPT ![w] = [cluster |-> op[o].cluster,
                                                     phase |-> "syncing"]]
                   /\ op' = [op EXCEPT ![o].pc = "sync", ![o].watcher = w]
    /\ UNCHANGED <<row, pipelines, call, mode, left, crashes>>

\* The caches are in sync: the pipeline is registered.
Synced(o) ==
    /\ op[o].pc = "sync"
    /\ watch' = [watch EXCEPT ![op[o].watcher].phase = "live"]
    /\ pipelines' = [pipelines EXCEPT ![op[o].cluster] = op[o].watcher]
    /\ op' = [op EXCEPT ![o].pc = "reread", ![o].conn = "connected"]
    /\ UNCHANGED <<row, lock, call, mode, left, crashes>>

\* Mutants of SyncTimesOut: the pipeline's context is not cancelled; the sync is
\* waited for without a timeout.
SyncTimesOutLeaks(o) ==
    /\ op[o].pc = "sync"
    /\ op' = [op EXCEPT ![o].pc = "reread", ![o].conn = "failed"]
    /\ UNCHANGED <<row, pipelines, lock, watch, call, mode, left, crashes>>
SyncNeverTimesOut(o) == FALSE

\* They are not within 30s: the context is cancelled, nothing is registered.
SyncTimesOut(o) ==
    /\ op[o].pc = "sync"
    /\ watch' = [watch EXCEPT ![op[o].watcher].phase = "cancelled"]
    /\ op' = [op EXCEPT ![o].pc = "reread", ![o].conn = "failed"]
    /\ UNCHANGED <<row, pipelines, lock, call, mode, left, crashes>>

\* Mutant of Reread: the connection status is written into Status, a string too.
RereadStatus(o) ==
    LET c == op[o].cluster
    IN  /\ op[o].pc = "reread"
        /\ \/ /\ Exists(c)
              /\ op' = [op EXCEPT ![o].pc = "rewrite",
                                  ![o].cl = [row[c] EXCEPT !.status = op[o].conn]]
              /\ UNCHANGED lock
           \/ (DBFails \/ ~Exists(c)) /\ Started(o) /\ lock' = None
        /\ UNCHANGED <<row, pipelines, watch, call, mode, left, crashes>>

\* updateClusterConnectionStatus, still under the lock: FindByID ...
Reread(o) ==
    LET c == op[o].cluster
    IN  /\ op[o].pc = "reread"
        /\ \/ /\ Exists(c)
              /\ op' = [op EXCEPT ![o].pc = "rewrite",
                                  ![o].cl = [row[c] EXCEPT !.conn = op[o].conn]]
              /\ UNCHANGED lock
           \/ (DBFails \/ ~Exists(c)) /\ Started(o) /\ lock' = None
        /\ UNCHANGED <<row, pipelines, watch, call, mode, left, crashes>>

\* ... and Update.  The lock is released when StartCluster returns.
Rewrite(o) ==
    /\ op[o].pc = "rewrite"
    /\ \/ row' = [row EXCEPT ![op[o].cluster] = op[o].cl]
       \/ DBFails /\ UNCHANGED row
    /\ Started(o)
    /\ lock' = None
    /\ UNCHANGED <<pipelines, watch, call, mode, left, crashes>>

-----------------------------------------------------------------------------
(* StopCluster. *)

\* It takes the lock, returns when there is no pipeline, or cancels its context
\* and waits in Shutdown for the callbacks of its informers.
Stop(o) ==
    LET w == pipelines[op[o].cluster]
    IN  /\ op[o].pc = "stop"
        /\ lock = None
        /\ \/ w = None /\ Stopped(o) /\ UNCHANGED <<lock, watch>>
           \/ /\ w # None
              /\ lock' = o
              /\ watch' = [watch EXCEPT ![w].phase = "cancelled"]
              /\ op' = [op EXCEPT ![o].pc = "shut", ![o].watcher = w]
        /\ UNCHANGED <<row, pipelines, call, mode, left, crashes>>

\* Mutant of Shut: the pipeline is dropped without waiting for Shutdown.
ShutAtOnce(o) ==
    /\ op[o].pc = "shut"
    /\ pipelines' = [pipelines EXCEPT ![op[o].cluster] = None]
    /\ lock' = None
    /\ Stopped(o)
    /\ UNCHANGED <<row, watch, call, mode, left, crashes>>

\* Shutdown has returned: the pipeline is dropped and the lock released.
Shut(o) ==
    /\ op[o].pc = "shut" /\ op[o].kind # "stopall"
    /\ watch[op[o].watcher].phase = "off"
    /\ pipelines' = [pipelines EXCEPT ![op[o].cluster] = None]
    /\ lock' = None
    /\ Stopped(o)
    /\ UNCHANGED <<row, watch, call, mode, left, crashes>>

-----------------------------------------------------------------------------
(* The main goroutine. *)

\* ReloadFromDB, before the server listens: FindActive ...
Reload ==
    /\ mode = "boot"
    /\ op[Main] = Idle
    /\ \/ op' = [op EXCEPT ![Main].kind = "reload", ![Main].pc = "next",
                     ![Main].todo = {c \in Clusters : row[c].status = "active"}]
          /\ UNCHANGED mode
       \/ DBFails /\ mode' = "serving" /\ UNCHANGED op
    /\ UNCHANGED <<row, pipelines, lock, watch, call, left, crashes>>

\* ... and StartCluster for each of them; then the server is started.
ReloadNext ==
    /\ op[Main].kind = "reload" /\ op[Main].pc = "next"
    /\ IF op[Main].todo = {}
       THEN Return(Main) /\ mode' = "serving"
       ELSE /\ \E c \in op[Main].todo :
                  op' = [op EXCEPT ![Main].pc = "start", ![Main].cluster = c,
                                   ![Main].todo = @ \ {c}]
            /\ UNCHANGED mode
    /\ UNCHANGED <<row, pipelines, lock, watch, call, left, crashes>>

\* A signal: StopAll takes the lock and stops every pipeline, one by one, while
\* the server still serves.
StopAll ==
    /\ mode = "serving"
    /\ op[Main] = Idle
    /\ lock = None
    /\ lock' = Main
    /\ op' = [op EXCEPT ![Main].kind = "stopall", ![Main].pc = "each",
                  ![Main].todo = {c \in Clusters : pipelines[c] # None}]
    /\ UNCHANGED <<row, pipelines, watch, call, mode, left, crashes>>

StopEach ==
    /\ op[Main].pc = "each"
    /\ \E c \in op[Main].todo :
          /\ watch' = [watch EXCEPT ![pipelines[c]].phase = "cancelled"]
          /\ op' = [op EXCEPT ![Main].pc = "shut", ![Main].watcher = pipelines[c],
                              ![Main].todo = @ \ {c}]
    /\ UNCHANGED <<row, pipelines, lock, call, mode, left, crashes>>

StoppedEach ==
    /\ op[Main].pc = "shut"
    /\ watch[op[Main].watcher].phase = "off"
    /\ Goto(Main, "each")
    /\ UNCHANGED <<row, pipelines, lock, watch, call, mode, left, crashes>>

StoppedAll ==
    /\ op[Main].pc = "each"
    /\ op[Main].todo = {}
    /\ pipelines' = [c \in Clusters |-> None]
    /\ lock' = None
    /\ mode' = "down"
    /\ Return(Main)
    /\ UNCHANGED <<row, watch, call, left, crashes>>

\* The process is killed, or ends after StopAll, and a new one boots: only the
\* table is left.
Crash ==
    /\ crashes > 0
    /\ crashes' = crashes - 1
    /\ pipelines' = [c \in Clusters |-> None]
    /\ lock' = None
    /\ watch' = [w \in Watchers |-> Off]
    /\ call' = [w \in Watchers |-> Silent]
    /\ op' = [o \in Procs |-> Idle]
    /\ mode' = "boot"
    /\ UNCHANGED <<row, left>>

-----------------------------------------------------------------------------
(* The informers of a watcher. *)

\* An informer delivers an object: the wrapped handler begins with hb().  What is
\* buffered when the context is cancelled may still be delivered.
Deliver(w, l) ==
    /\ watch[w].phase # "off"
    /\ call[w][l] = "idle"
    /\ call' = [call EXCEPT ![w][l] = "beat"]
    /\ UNCHANGED <<row, pipelines, lock, watch, op, mode, left, crashes>>

\* The heartbeat needs the read lock.
Heartbeat(w, l) ==
    /\ call[w][l] = "beat"
    /\ lock = None
    /\ call' = [call EXCEPT ![w][l] = "work"]
    /\ UNCHANGED <<row, pipelines, lock, watch, op, mode, left, crashes>>

\* The rest of the callback never blocks for good: its calls have a context, a
\* full channel drops the anomaly.
Handled(w, l) ==
    /\ call[w][l] = "work"
    /\ call' = [call EXCEPT ![w][l] = "idle"]
    /\ UNCHANGED <<row, pipelines, lock, watch, op, mode, left, crashes>>

\* The informers of a cancelled watcher end when no callback is running.
WatcherEnds(w) ==
    /\ watch[w].phase = "cancelled"
    /\ call[w] = Silent
    /\ watch' = [watch EXCEPT ![w] = Off]
    /\ UNCHANGED <<row, pipelines, lock, call, op, mode, left, crashes>>

-----------------------------------------------------------------------------
StartCluster(o) == Start(o) \/ SyncTimesOut(o) \/ Reread(o) \/ Rewrite(o)
StopCluster(o)  == Stop(o) \/ Shut(o)
Step(o) == \/ Insert(o) \/ Read(o) \/ Save(o) \/ Delete(o) \/ Check(o)
           \/ StartCluster(o) \/ StopCluster(o)
Boot     == Reload \/ ReloadNext
Shutdown == StopAll \/ StopEach \/ StoppedEach \/ StoppedAll
Informer(w) == \/ \E l \in Listeners : Deliver(w, l) \/ Heartbeat(w, l) \/ Handled(w, l)
               \/ WatcherEnds(w)

Next ==
    \/ \E o \in Requests, k \in Kinds, c \in Clusters : Request(o, k, c)
    \/ \E o \in Procs : Step(o) \/ Synced(o)
    \/ Boot
    \/ Shutdown
    \/ Crash
    \/ \E w \in Watchers : Informer(w)

Spec == Init /\ [][Next]_vars

\* Every goroutine that can run runs, and the 30s of a sync pass; a callback that
\* was begun goes on when it can, Go's RWMutex letting readers that wait pass
\* before the next writer; a cancelled informer does not deliver for ever.  Nothing
\* makes a request, an object, a signal or a crash arrive, or a cluster answer.
Fairness ==
    /\ \A o \in Procs : WF_vars(Step(o))
    /\ WF_vars(Boot)
    /\ WF_vars(StopEach \/ StoppedEach \/ StoppedAll)
    /\ \A w \in Watchers :
          /\ SF_vars(WatcherEnds(w))
          /\ \A l \in Listeners : WF_vars(Handled(w, l)) /\ SF_vars(Heartbeat(w, l))

FairSpec == Spec /\ Fairness

-----------------------------------------------------------------------------
(* Properties. *)

\* No orphan watches a cluster: a watcher whose context is not cancelled is
\* either being started by the holder of the lock or is the registered pipeline
\* of its cluster (so a cluster has at most one), and a registered pipeline has
\* a watcher of its own that is live unless the holder of the lock stops it.
NoOrphan ==
    /\ \A w \in Watchers :
          /\ watch[w].phase = "syncing" =>
                /\ lock # None
                /\ op[lock].pc = "sync" /\ op[lock].watcher = w
                /\ pipelines[watch[w].cluster] = None
          /\ watch[w].phase = "live" => pipelines[watch[w].cluster] = w
    /\ \A c \in Clusters :
          LET w == pipelines[c] IN
          w # None =>
             \/ watch[w] = [cluster |-> c, phase |-> "live"]
             \/ lock # None /\ op[lock].kind \in {"deactivate", "delete", "stopall"}

\* The pipeline of c as ClusterPipelines sees it: a watcher that is being started
\* belongs to its cluster already, one that failed to start no longer does.
Begun(c, w) == watch[w] = [cluster |-> c, phase |-> "syncing"]
PhaseOf(c) ==
    IF \E w \in Watchers : Begun(c, w) THEN "starting"
    ELSE IF pipelines[c] = None THEN "off"
    ELSE IF watch[pipelines[c]].phase = "live" THEN "on" ELSE "stopping"
Owns(c, w) == pipelines[c] = w \/ Begun(c, w)
Busy(c) == \E w \in Watchers : Owns(c, w) /\ call[w] # Silent

Pipelines == INSTANCE ClusterPipelines
                WITH phase <- [c \in Clusters |-> PhaseOf(c)],
                     busy  <- [c \in Clusters |-> Busy(c)],
                     kills <- MaxCrashes - crashes

\* The manager implements the pipelines of ClusterPipelines: whichever requests,
\* boot and signal meet, m.mu lets one pipeline start at a time and none be
\* dropped from the map while a callback of it runs.
PipelinesSpec == Pipelines!Spec

\* A stopped cluster is silent: when its pipeline leaves the map, none of its
\* callbacks is still running.  Nothing is said of a crash.
SilentOnceStopped ==
    [][\A c \in Clusters :
          LET w == pipelines[c] IN
          w # None /\ pipelines'[c] = None /\ mode' # "boot" => call[w] = Silent]_vars

\* StartCluster releases the lock, whatever the cluster does: an unreachable
\* cluster blocks the others for the 30s of the sync, not for good.
StartReturns ==
    \A o \in Procs : op[o].pc = "sync" ~> lock # o

\* StopCluster and StopAll return.
StopReturns ==
    \A o \in Procs : op[o].pc = "shut" ~> op[o].pc # "shut"

\* When no request is under way, a cluster that is disabled or deleted has no
\* pipeline.
OffMeansStopped ==
    mode = "serving" /\ (\A o \in Procs : op[o] = Idle) =>
        \A c \in Clusters : row[c].status \in {"inactive", "deleted"} => pipelines[c] = None

\* It is for those who administer the clusters to see to that: OffMeansStopped
\* holds as long as no two requests about one cluster are under way together,
\* those about different clusters, boot, signal and crashes notwithstanding.
OneAtATime ==
    \A o, p \in Requests : op[o].cluster = op[p].cluster /\ op[o].cluster # None => o = p
=============================================================================
