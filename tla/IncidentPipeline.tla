--------------------------- MODULE IncidentPipeline ---------------------------
(***************************************************************************)
(* The in-memory incident pipeline of one cluster:                         *)
(*   - the deduplication index (internal/pipeline/dedup/index.go),         *)
(*   - the incident manager (internal/pipeline/incident/manager.go): one   *)
(*     goroutine per anomaly (HandleAnomaly), one timer goroutine per      *)
(*     incident (groupWaitTimer) and one sweeper (checkActiveWindow),      *)
(*   - the rows of the incidents table, written by repo.Create and         *)
(*     repo.Update (internal/infra/postgres/incident_repo.go).             *)
(*                                                                         *)
(* An incident object is shared by pointer: the index, the handlers that   *)
(* found it, its timer and the sweeper read and write its fields without a *)
(* lock; only the map of the index is locked.  So a step of this model is  *)
(* one locked operation of the index, one access to a shared object        *)
(* (with the thread's private work around it), or one database call.       *)
(* Time is counted in ticks: an incident carries its age, the ticks since  *)
(* its LastSeen, which saturates where no comparison can tell more.        *)
(***************************************************************************)
EXTENDS Naturals, FiniteSets

CONSTANTS
    Keys,           \* deduplication keys
    Ids,            \* incident identifiers
    Handlers,       \* slots for concurrent HandleAnomaly goroutines
    None,           \* no key, no incident
    GroupWait,      \* cfg.GroupWait, in ticks (30s by default)
    ActiveWindow,   \* cfg.ActiveWindow, in ticks (6h by default)
    MaxSize,        \* maxSize of the index (10000)
    MaxAnomalies,   \* bound: anomalies received in a behaviour
    DBFails,        \* may a database call return an error?
    MaxStops,       \* bound: times the pipeline is stopped (StopCluster, crash)
    Timely          \* does every goroutine that is not waiting for a timer
                    \* finish its work, database calls included, in a tick?

ASSUME ConstantsAssumption ==
    /\ None \notin Keys \cup Ids
    /\ GroupWait \in Nat \ {0}
    /\ ActiveWindow \in Nat
    /\ MaxSize \in Nat \ {0}
    /\ MaxAnomalies \in Nat /\ MaxStops \in Nat
    /\ DBFails \in BOOLEAN /\ Timely \in BOOLEAN

VARIABLES
    inc,        \* inc[id]: the incident object
    index,      \* index[k]: the incident the map holds for k, or None
    row,        \* row[id]: state and count columns; state "Free": no row
    handler,    \* handler[h]: one HandleAnomaly call
    timer,      \* timer[id]: the groupWaitTimer goroutine of id
    sweeper,    \* the checkActiveWindow goroutine
    running,    \* is there a pipeline for the cluster?
    left,       \* anomalies still to come
    stops       \* times the pipeline may still be stopped

vars == <<inc, index, row, handler, timer, sweeper, running, left, stops>>

Stage == {"Free", "Detecting", "Active", "Resolved"}
Open  == {"Detecting", "Active"}

\* The largest age any comparison distinguishes: Sweep compares with
\* activeWindow and with 2*activeWindow, the timers with groupWait.
Horizon == 2 * ActiveWindow + GroupWait + 1

Columns  == [state : Stage, count : Nat]
NoRow    == [state |-> "Free", count |-> 0]
Unused   == [key |-> None, state |-> "Free", age |-> 0, count |-> 0]
Idle     == [pc |-> "idle", key |-> None, id |-> None, snap |-> NoRow]
TimerOff == [pc |-> "off", left |-> 0, snap |-> NoRow]
Asleep   == [pc |-> "idle", todo |-> {}, id |-> None, snap |-> NoRow]

Incident == [key : Keys \cup {None}, state : Stage, age : 0..Horizon, count : Nat]
Call == [pc : {"idle", "find", "touch", "bump", "update", "upsert", "create"},
         key : Keys \cup {None}, id : Ids \cup {None}, snap : Columns]
Timer == [pc : {"off", "waiting", "activate", "upsert", "update"},
          left : 0..GroupWait, snap : Columns]
Sweeper == [pc : {"idle", "resolve", "remove", "update"},
            todo : SUBSET Ids, id : Ids \cup {None}, snap : Columns]

TypeOK ==
    /\ inc \in [Ids -> Incident]
    /\ index \in [Keys -> Ids \cup {None}]
    /\ row \in [Ids -> Columns]
    /\ handler \in [Handlers -> Call]
    /\ timer \in [Ids -> Timer]
    /\ sweeper \in Sweeper
    /\ running \in BOOLEAN
    /\ left \in 0..MaxAnomalies
    /\ stops \in 0..MaxStops

Init ==
    /\ inc = [id \in Ids |-> Unused]
    /\ index = [k \in Keys |-> None]
    /\ row = [id \in Ids |-> NoRow]
    /\ handler = [h \in Handlers |-> Idle]
    /\ timer = [id \in Ids |-> TimerOff]
    /\ sweeper = Asleep
    /\ running = TRUE
    /\ left = MaxAnomalies
    /\ stops = MaxStops

-----------------------------------------------------------------------------
(* The index. *)

IsOpen(id) == id # None /\ inc[id].state \in Open

\* FindActive: the open incident of k, or None.
FindActive(k) == IF IsOpen(index[k]) THEN index[k] ELSE None

Size(idx) == Cardinality({k \in Keys : idx[k] # None})

\* Mutant of EvictOldestResolved: any entry may be evicted, an open one too.
EvictOldest(idx) ==
    LET held == {k \in Keys : idx[k] # None}
    IN  {[idx EXCEPT ![k] = None] :
            k \in {m \in held : \A j \in held : inc[idx[j]].age <= inc[idx[m]].age}}

\* evictOldestResolved: the maps that result from dropping a Resolved entry
\* with the earliest LastSeen, or the map itself when it holds none.
EvictOldestResolved(idx) ==
    LET closed == {k \in Keys : idx[k] # None /\ ~IsOpen(idx[k])}
        oldest == {k \in closed : \A j \in closed : inc[idx[j]].age <= inc[idx[k]].age}
    IN  IF closed = {} THEN {idx}
        ELSE {[idx EXCEPT ![k] = None] : k \in oldest}

\* Upsert: the maps that may result (ties between the oldest are broken by
\* the iteration order of a Go map).
Upsert(id) ==
    LET idx == [index EXCEPT ![inc[id].key] = id]
    IN  IF Size(idx) > MaxSize THEN EvictOldestResolved(idx) ELSE {idx}

\* Mutants of Expired and Swept: an incident expires in the very tick in which
\* it has the age of the window; resolved entries are kept.
ExpiredAtWindow == {id \in Ids : /\ \E k \in Keys : index[k] = id
                                 /\ inc[id].state \in Open
                                 /\ inc[id].age >= ActiveWindow}
SweptNever == {}

\* The entries Sweep returns, and the entries it deletes.
Expired == {id \in Ids : /\ \E k \in Keys : index[k] = id
                         /\ inc[id].state \in Open
                         /\ inc[id].age > ActiveWindow}
Swept == {k \in Keys : /\ index[k] # None
                       /\ inc[index[k]].state = "Resolved"
                       /\ inc[index[k]].age > 2 * ActiveWindow}

-----------------------------------------------------------------------------
(* The table. *)

\* toModel: the columns written for the object as it is now.
Snapshot(id) == [state |-> inc[id].state, count |-> inc[id].count]

\* repo.Update is gorm's Save: the whole row is written, and inserted when
\* there is none.  A failed call leaves the table alone.
Update(id, snap) ==
    \/ row' = [row EXCEPT ![id] = snap]
    \/ DBFails /\ UNCHANGED row

-----------------------------------------------------------------------------
(* HandleAnomaly: the goroutine the fan-out of StartCluster spawns for each *)
(* anomaly.                                                                 *)

\* The fan-out takes an anomaly with key k from the channel.
Receive(h, k) ==
    /\ running
    /\ left > 0
    /\ handler[h].pc = "idle"
    /\ left' = left - 1
    /\ handler' = [handler EXCEPT ![h] = [Idle EXCEPT !.pc = "find", !.key = k]]
    /\ UNCHANGED <<inc, index, row, timer, sweeper, running, stops>>

\* FindActive finds an open incident: the handler goes on with its pointer.
FindOpen(h) ==
    /\ handler[h].pc = "find"
    /\ FindActive(handler[h].key) # None
    /\ handler' = [handler EXCEPT ![h].pc = "touch",
                                  ![h].id = FindActive(handler[h].key)]
    /\ UNCHANGED <<inc, index, row, timer, sweeper, running, left, stops>>

\* FindActive finds none: the handler allocates a new incident.
FindNone(h) ==
    /\ handler[h].pc = "find"
    /\ FindActive(handler[h].key) = None
    /\ \E id \in Ids :
          /\ inc[id].state = "Free"
          /\ inc' = [inc EXCEPT ![id] = [key |-> handler[h].key, state |-> "Detecting",
                                         age |-> 0, count |-> 1]]
          /\ handler' = [handler EXCEPT ![h].pc = "upsert", ![h].id = id]
    /\ UNCHANGED <<index, row, timer, sweeper, running, left, stops>>

\* inc.LastSeen = time.Now(), and the load of inc.Count++.
Touch(h) ==
    LET id == handler[h].id
    IN  /\ handler[h].pc = "touch"
        /\ inc' = [inc EXCEPT ![id].age = 0]
        /\ handler' = [handler EXCEPT ![h].pc = "bump", ![h].snap = Snapshot(id)]
        /\ UNCHANGED <<index, row, timer, sweeper, running, left, stops>>

\* The store of inc.Count++, and toModel.
Bump(h) ==
    LET id == handler[h].id
        n  == handler[h].snap.count + 1
    IN  /\ handler[h].pc = "bump"
        /\ inc' = [inc EXCEPT ![id].count = n]
        /\ handler' = [handler EXCEPT ![h].pc = "update",
                          ![h].snap = [state |-> inc[id].state, count |-> n]]
        /\ UNCHANGED <<index, row, timer, sweeper, running, left, stops>>

\* Mutant of UpdateMerged: a failed Update is retried from the merge on.
UpdateMergedRetries(h) ==
    /\ handler[h].pc = "update"
    /\ UNCHANGED <<inc, index, timer, sweeper, running, left, stops>>
    /\ \/ /\ row' = [row EXCEPT ![handler[h].id] = handler[h].snap]
          /\ handler' = [handler EXCEPT ![h] = Idle]
       \/ /\ DBFails /\ UNCHANGED row
          /\ handler' = [handler EXCEPT ![h].pc = "touch"]

UpdateMerged(h) ==
    /\ handler[h].pc = "update"
    /\ Update(handler[h].id, handler[h].snap)
    /\ handler' = [handler EXCEPT ![h] = Idle]
    /\ UNCHANGED <<inc, index, timer, sweeper, running, left, stops>>

\* index.Upsert, and toModel.
Publish(h) ==
    LET id == handler[h].id
    IN  /\ handler[h].pc = "upsert"
        /\ index' \in Upsert(id)
        /\ handler' = [handler EXCEPT ![h].pc = "create", ![h].snap = Snapshot(id)]
        /\ UNCHANGED <<inc, row, timer, sweeper, running, left, stops>>

\* Mutant of Create: the timer is armed for longer than GroupWait.
CreateWaitsLonger(h) ==
    LET id == handler[h].id
    IN  /\ handler[h].pc = "create"
        /\ row[id].state = "Free"
        /\ row' = [row EXCEPT ![id] = handler[h].snap]
        /\ timer' = [timer EXCEPT ![id] = [TimerOff EXCEPT !.pc = "waiting",
                                                           !.left = GroupWait + 1]]
        /\ handler' = [handler EXCEPT ![h] = Idle]
        /\ UNCHANGED <<inc, index, sweeper, running, left, stops>>

\* repo.Create inserts the row, then the timer is started.
Create(h) ==
    LET id == handler[h].id
    IN  /\ handler[h].pc = "create"
        /\ row[id].state = "Free"
        /\ row' = [row EXCEPT ![id] = handler[h].snap]
        /\ timer' = [timer EXCEPT ![id] = [TimerOff EXCEPT !.pc = "waiting",
                                                           !.left = GroupWait]]
        /\ handler' = [handler EXCEPT ![h] = Idle]
        /\ UNCHANGED <<inc, index, sweeper, running, left, stops>>

\* repo.Create fails, either by itself or because a merge that was faster has
\* already inserted the row: HandleAnomaly returns and no timer is started.
CreateFails(h) ==
    /\ handler[h].pc = "create"
    /\ DBFails \/ row[handler[h].id].state # "Free"
    /\ handler' = [handler EXCEPT ![h] = Idle]
    /\ UNCHANGED <<inc, index, row, timer, sweeper, running, left, stops>>

HandleAnomaly(h) ==
    \/ FindOpen(h) \/ FindNone(h)
    \/ Touch(h) \/ Bump(h) \/ UpdateMerged(h)
    \/ Publish(h) \/ Create(h) \/ CreateFails(h)

-----------------------------------------------------------------------------
(* groupWaitTimer. *)

\* Mutant of TimerFires: it first asks the index for the incident, and waits
\* when another one has taken its place.
TimerFiresIfIndexed(id) ==
    /\ timer[id].pc = "waiting"
    /\ timer[id].left = 0
    /\ index[inc[id].key] = id
    /\ timer' = [timer EXCEPT ![id] =
                    IF inc[id].state = "Detecting"
                    THEN [TimerOff EXCEPT !.pc = "activate"] ELSE TimerOff]
    /\ UNCHANGED <<inc, index, row, handler, sweeper, running, left, stops>>

\* time.After(wait) fires, and the state is read.
TimerFires(id) ==
    /\ timer[id].pc = "waiting"
    /\ timer[id].left = 0
    /\ timer' = [timer EXCEPT ![id] =
                    IF inc[id].state = "Detecting"
                    THEN [TimerOff EXCEPT !.pc = "activate"] ELSE TimerOff]
    /\ UNCHANGED <<inc, index, row, handler, sweeper, running, left, stops>>

TimerActivates(id) ==
    /\ timer[id].pc = "activate"
    /\ inc' = [inc EXCEPT ![id].state = "Active"]
    /\ timer' = [timer EXCEPT ![id].pc = "upsert"]
    /\ UNCHANGED <<index, row, handler, sweeper, running, left, stops>>

\* index.Upsert, and toModel.
TimerUpserts(id) ==
    /\ timer[id].pc = "upsert"
    /\ index' \in Upsert(id)
    /\ timer' = [timer EXCEPT ![id].pc = "update", ![id].snap = Snapshot(id)]
    /\ UNCHANGED <<inc, row, handler, sweeper, running, left, stops>>

TimerUpdates(id) ==
    /\ timer[id].pc = "update"
    /\ Update(id, timer[id].snap)
    /\ timer' = [timer EXCEPT ![id] = TimerOff]
    /\ UNCHANGED <<inc, index, handler, sweeper, running, left, stops>>

GroupWaitTimer(id) ==
    TimerFires(id) \/ TimerActivates(id) \/ TimerUpserts(id) \/ TimerUpdates(id)

-----------------------------------------------------------------------------
(* checkActiveWindow. *)

\* A tick of the ticker: Sweep collects the expired incidents under the lock.
Sweep ==
    /\ running
    /\ sweeper.pc = "idle"
    /\ sweeper' = IF Expired = {} THEN Asleep
                  ELSE [Asleep EXCEPT !.pc = "resolve", !.todo = Expired]
    /\ index' = [k \in Keys |-> IF k \in Swept THEN None ELSE index[k]]
    /\ UNCHANGED <<inc, row, handler, timer, running, left, stops>>

\* inc.State = StateResolved, without the lock.
SweepResolves ==
    /\ sweeper.pc = "resolve"
    /\ \E id \in sweeper.todo :
          /\ inc' = [inc EXCEPT ![id].state = "Resolved"]
          /\ sweeper' = [sweeper EXCEPT !.pc = "remove", !.id = id,
                                        !.todo = sweeper.todo \ {id}]
    /\ UNCHANGED <<index, row, handler, timer, running, left, stops>>

\* index.Remove by key, whatever incident the key has by now, and toModel.
SweepRemoves ==
    /\ sweeper.pc = "remove"
    /\ index' = [index EXCEPT ![inc[sweeper.id].key] = None]
    /\ sweeper' = [sweeper EXCEPT !.pc = "update", !.snap = Snapshot(sweeper.id)]
    /\ UNCHANGED <<inc, row, handler, timer, running, left, stops>>

SweepUpdates ==
    /\ sweeper.pc = "update"
    /\ Update(sweeper.id, sweeper.snap)
    /\ sweeper' = IF sweeper.todo = {} THEN Asleep
                  ELSE [sweeper EXCEPT !.pc = "resolve", !.id = None, !.snap = NoRow]
    /\ UNCHANGED <<inc, index, handler, timer, running, left, stops>>

CheckActiveWindow == Sweep \/ SweepResolves \/ SweepRemoves \/ SweepUpdates

-----------------------------------------------------------------------------
(* Time, and the end of a pipeline. *)

\* No goroutine has anything to do before the next tick.
Quiet ==
    /\ \A h \in Handlers : handler[h].pc = "idle"
    /\ \A id \in Ids : \/ timer[id].pc = "off"
                       \/ timer[id].pc = "waiting" /\ timer[id].left > 0
    /\ sweeper.pc = "idle"

Older(age) == IF age < Horizon THEN age + 1 ELSE Horizon

Tick ==
    /\ Timely => Quiet
    /\ inc' = [id \in Ids |-> IF inc[id].state = "Free" THEN inc[id]
                              ELSE [inc[id] EXCEPT !.age = Older(@)]]
    /\ timer' = [id \in Ids |-> IF timer[id].left = 0 THEN timer[id]
                                ELSE [timer[id] EXCEPT !.left = @ - 1]]
    /\ UNCHANGED <<index, row, handler, sweeper, running, left, stops>>

\* StopCluster (or a crash) ends the pipeline: its context is cancelled, so a
\* call that has not reached the database fails, a waiting timer returns, the
\* sweeper returns; the index goes with the pipeline, and an anomaly that was
\* being handled is lost.
StopPipeline ==
    /\ running
    /\ stops > 0
    /\ stops' = stops - 1
    /\ running' = FALSE
    /\ index' = [k \in Keys |-> None]
    /\ handler' = [h \in Handlers |-> Idle]
    /\ timer' = [id \in Ids |-> TimerOff]
    /\ sweeper' = Asleep
    /\ UNCHANGED <<inc, row, left>>

\* StartCluster makes a new, empty index; it reads nothing of the table.
StartPipeline ==
    /\ ~running
    /\ running' = TRUE
    /\ UNCHANGED <<inc, index, row, handler, timer, sweeper, left, stops>>

Next ==
    \/ \E h \in Handlers : HandleAnomaly(h) \/ \E k \in Keys : Receive(h, k)
    \/ \E id \in Ids : GroupWaitTimer(id)
    \/ CheckActiveWindow
    \/ Tick
    \/ StopPipeline
    \/ StartPipeline

Spec == Init /\ [][Next]_vars

\* The Go scheduler runs every goroutine that can run, the runtime fires every
\* timer, every database call returns, and a stopped cluster is started again
\* (ReloadFromDB).  Nothing makes an anomaly arrive or a pipeline stop.
Fairness ==
    /\ \A h \in Handlers : WF_vars(HandleAnomaly(h))
    /\ \A id \in Ids : WF_vars(GroupWaitTimer(id))
    /\ WF_vars(CheckActiveWindow)
    /\ WF_vars(Tick)
    /\ WF_vars(StartPipeline)

FairSpec == Spec /\ Fairness

-----------------------------------------------------------------------------
(* Properties. *)

Lifecycle == INSTANCE IncidentLifecycle
                WITH state  <- [id \in Ids |-> inc[id].state],
                     stored <- [id \in Ids |-> row[id].state]

\* The pipeline implements the life cycle of an incident: no interleaving of
\* handlers, timer and sweeper activates an incident twice, reopens a resolved
\* one or stores a state it has not reached.  It holds when goroutines and
\* database calls are timely and GroupWait <= ActiveWindow: otherwise the
\* unlocked test and set of groupWaitTimer can reopen a resolved incident.
LifecycleSpec == Lifecycle!Spec

\* This step is an Upsert of id, by its timer or by the handler that made it.
Upserts(id) ==
    \/ timer[id].pc = "upsert" /\ timer'[id].pc = "update"
    \/ \E h \in Handlers : /\ handler[h].id = id
                            /\ handler[h].pc = "upsert"
                            /\ handler'[h].pc = "create"

\* The index loses an open incident only to the sweeper's Remove or to an
\* Upsert of another incident with the same key: eviction and Sweep never drop
\* an open incident, at whatever size of the map.
OpenLeavesIndexOnlyByKey ==
    [][\A k \in Keys :
          IsOpen(index[k]) /\ index'[k] # index[k] /\ running' =>
              \/ sweeper.pc = "remove" /\ inc[sweeper.id].key = k
              \/ \E id \in Ids : Upserts(id) /\ inc[id].key = k]_vars

\* When no more anomalies arrive the index drains: every incident that is in
\* it, whatever race put it there, is swept in the end.
IndexDrains == <>[](\A k \in Keys : index[k] = None)

\* A timer that was started moves its incident out of Detecting, unless the
\* pipeline is stopped first.
TimedLeavesDetecting ==
    \A id \in Ids : timer[id].pc = "waiting" ~> inc[id].state # "Detecting" \/ ~running

\* An incident is resolved only when no anomaly of it was seen for ActiveWindow.
ResolvedOnlyWhenQuiet ==
    [][\A id \in Ids : inc[id].state # "Resolved" /\ inc'[id].state = "Resolved"
                           => inc[id].age > ActiveWindow]_vars

\* What breaks it: a handler that is about to merge an anomaly into an incident that
\* Sweep has returned and that is not resolved yet.
SweepUndisturbed ==
    \A h \in Handlers : handler[h].pc = "touch" => handler[h].id \notin sweeper.todo

\* At most one open incident per deduplication key.
OneOpenPerKey ==
    \A i, j \in Ids : IsOpen(i) /\ IsOpen(j) /\ inc[i].key = inc[j].key => i = j

\* Three things break it in a timely pipeline, and no other: two handlers of one key
\* at once, a handler of a key that the sweeper is about to remove, and a stop, which
\* forgets the index.  Apart excludes the first two.
Apart ==
    LET busy == {h \in Handlers : handler[h].pc # "idle"}
    IN  /\ \A g, h \in busy : handler[g].key = handler[h].key => g = h
        /\ sweeper.pc = "remove" =>
              \A h \in busy : handler[h].key # inc[sweeper.id].key

\* A stored incident does not stay open for ever.
StoredOpenIsResolved ==
    \A id \in Ids : row[id].state \in Open ~> row[id].state = "Resolved"

\* An incident whose timer was started becomes Active before it is resolved:
\* the sweeper never overtakes a timer.  Holds for timely goroutines and
\* GroupWait <= ActiveWindow.
ActiveBeforeResolved ==
    [][\A id \in Ids : inc[id].state = "Detecting" /\ inc'[id].state = "Resolved"
                           => timer[id].pc = "off"]_vars

\* One unit for every anomaly that an incident counts.
Counted == UNION {{id} \X (1..inc[id].count) : id \in Ids}

\* The counts of all incidents together never exceed the anomalies received:
\* racing merges may lose an increment of inc.Count, but no anomaly is counted
\* twice, as a merge and as a new incident or by two merges.
NothingCountedTwice == Cardinality(Counted) <= MaxAnomalies - left

-----------------------------------------------------------------------------
(* Why NothingCountedTwice holds: an anomaly that is in hand and has not    *)
(* counted yet accounts for the unit its handler may still store.           *)

\* The units that are stored, or that a loaded count stands for: of two
\* handlers that merge at once, one may store less than the other did.
Units ==
    Counted \cup
    UNION {{handler[h].id} \X (1..handler[h].snap.count) :
               h \in {g \in Handlers : handler[g].pc = "bump"}}

\* The calls that have still to count their anomaly.
Pending == {h \in Handlers : handler[h].pc \in {"find", "touch", "bump"}}

CountInv ==
    /\ IsFiniteSet(Units) /\ IsFiniteSet(Pending)
    /\ Cardinality(Units) + Cardinality(Pending) <= MaxAnomalies - left

-----------------------------------------------------------------------------
(* Why LifecycleSpec holds: an inductive invariant of the timely pipeline.  *)

\* A goroutine that works on an incident holds a pointer to one.
PointersOK ==
    /\ \A h \in Handlers : handler[h].pc \notin {"idle", "find"} => handler[h].id \in Ids
    /\ sweeper.pc \in {"remove", "update"} => sweeper.id \in Ids

Making(h) == handler[h].pc \in {"upsert", "create"}
Armed(id) == timer[id].pc \in {"waiting", "activate", "upsert"}

\* A handler works on an incident that exists; an incident being created was
\* seen in this very tick, has no timer yet and is not about to be resolved.
HandlerInv ==
    \A h \in Handlers :
       LET id == handler[h].id IN
       /\ handler[h].pc \in {"touch", "bump", "update"} => inc[id].state # "Free"
       /\ Making(h) => /\ inc[id].state = "Detecting" /\ inc[id].age = 0
                       /\ timer[id].pc = "off"
                       /\ id \notin sweeper.todo
       /\ handler[h].pc \in {"update", "create"} =>
             handler[h].snap.state \in Lifecycle!Reached(inc[id].state)

OneMaker ==
    \A g, h \in Handlers :
       Making(g) /\ Making(h) /\ handler[g].id = handler[h].id => g = h

\* A pending timer is due before its incident can expire, so the sweeper is
\* never about to resolve an incident with a pending timer.
TimerInv ==
    \A id \in Ids :
       /\ timer[id].pc = "waiting" => inc[id].age + timer[id].left <= GroupWait
       /\ timer[id].pc \in {"waiting", "activate"} => inc[id].state = "Detecting"
       /\ timer[id].pc = "upsert" => inc[id].state = "Active"
       /\ Armed(id) => inc[id].age <= GroupWait /\ id \notin sweeper.todo
       /\ timer[id].pc = "update" =>
             timer[id].snap.state = "Active" /\ "Active" \in Lifecycle!Reached(inc[id].state)

SweeperInv ==
    /\ \A id \in sweeper.todo : inc[id].state \in Open
    /\ sweeper.pc \in {"remove", "update"} => inc[sweeper.id].state = "Resolved"
    /\ sweeper.pc = "update" => sweeper.snap.state = "Resolved"

RowInv ==
    \A id \in Ids :
       row[id].state # "Free" => row[id].state \in Lifecycle!Reached(inc[id].state)

\* What LifecycleSpec needs of the schedule and of the configuration.
TimelySchedule == Timely /\ GroupWait <= ActiveWindow

TimelyInv ==
    TypeOK /\ PointersOK /\ HandlerInv /\ OneMaker /\ TimerInv /\ SweeperInv /\ RowInv
=============================================================================
