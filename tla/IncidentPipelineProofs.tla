------------------------ MODULE IncidentPipelineProofs ------------------------
(***************************************************************************)
(* Proofs about IncidentPipeline: the timely pipeline implements the life  *)
(* cycle of IncidentLifecycle, for every number of keys, incidents,        *)
(* handlers, anomalies and stops, with or without failing database calls.  *)
(***************************************************************************)
EXTENDS IncidentPipeline, FiniteSetTheorems, TLAPS

\* The constant records are in the types of their variables.
LEMMA ConstantTypes ==
    /\ Unused \in Incident
    /\ Idle \in Call
    /\ TimerOff \in Timer
    /\ Asleep \in Sweeper
    /\ NoRow \in Columns
  BY ConstantsAssumption
     DEF Unused, Idle, TimerOff, Asleep, NoRow, Incident, Call, Timer, Sweeper,
         Columns, Stage, Horizon

\* toModel yields the columns of a row.
LEMMA SnapshotType ==
    ASSUME TypeOK, NEW id \in Ids
    PROVE  Snapshot(id) \in Columns
  BY DEF TypeOK, Incident, Snapshot, Columns

\* Whatever it evicts, Upsert yields an index.
LEMMA UpsertType ==
    ASSUME TypeOK, NEW id \in Ids, NEW idx \in Upsert(id)
    PROVE  idx \in [Keys -> Ids \cup {None}]
  BY DEF TypeOK, Upsert, EvictOldestResolved

\* Every step of Spec keeps the variables in their types; no assumption on
\* timing is needed.
LEMMA TypeStep ==
    ASSUME TypeOK, PointersOK, [Next]_vars
    PROVE  TypeOK'
<1>1. ASSUME NEW h \in Handlers, NEW k \in Keys, Receive(h, k) PROVE TypeOK'
  <2>1. [Idle EXCEPT !.pc = "find", !.key = k] \in Call
    BY ConstantTypes DEF Call, Idle
  <2> QED BY <1>1, <2>1, ConstantsAssumption DEF TypeOK, Receive
<1>2. ASSUME NEW h \in Handlers, FindOpen(h) PROVE TypeOK'
  <2>1. FindActive(handler[h].key) \in Ids
    BY <1>2 DEF TypeOK, Call, FindOpen, FindActive, IsOpen
  <2>2. [handler[h] EXCEPT !.pc = "touch", !.id = FindActive(handler[h].key)] \in Call
    BY <2>1 DEF TypeOK, Call
  <2> QED BY <1>2, <2>2 DEF TypeOK, FindOpen
<1>3. ASSUME NEW h \in Handlers, FindNone(h) PROVE TypeOK'
  <2>1. PICK id \in Ids :
          /\ inc' = [inc EXCEPT ![id] = [key |-> handler[h].key, state |-> "Detecting",
                                         age |-> 0, count |-> 1]]
          /\ handler' = [handler EXCEPT ![h].pc = "upsert", ![h].id = id]
    BY <1>3 DEF FindNone
  <2>2. [key |-> handler[h].key, state |-> "Detecting", age |-> 0, count |-> 1] \in Incident
    BY ConstantsAssumption DEF TypeOK, Call, Incident, Stage, Horizon
  <2>3. [handler[h] EXCEPT !.pc = "upsert", !.id = id] \in Call
    BY DEF TypeOK, Call
  <2> QED BY <1>3, <2>1, <2>2, <2>3 DEF TypeOK, FindNone
<1>4. ASSUME NEW h \in Handlers, NEW id \in Ids, id = handler[h].id, HandleAnomaly(h)
      PROVE  TypeOK'
  <2>1. CASE Touch(h)
    <3>1. [inc[id] EXCEPT !.age = 0] \in Incident
      BY ConstantsAssumption DEF TypeOK, Incident, Horizon
    <3>2. [handler[h] EXCEPT !.pc = "bump", !.snap = Snapshot(id)] \in Call
      BY SnapshotType DEF TypeOK, Call
    <3> QED BY <1>4, <2>1, <3>1, <3>2 DEF TypeOK, Touch
  <2>2. CASE Bump(h)
    <3> DEFINE n == handler[h].snap.count + 1
    <3>1. n \in Nat
      BY DEF TypeOK, Call, Columns
    <3>2. [inc[id] EXCEPT !.count = n] \in Incident
      BY <3>1 DEF TypeOK, Incident
    <3>3. [handler[h] EXCEPT !.pc = "update",
                             !.snap = [state |-> inc[id].state, count |-> n]] \in Call
      <4>1. [state |-> inc[id].state, count |-> n] \in Columns
        BY <3>1 DEF TypeOK, Incident, Columns
      <4> HIDE DEF n
      <4> QED BY <4>1 DEF TypeOK, Call
    <3> QED BY <1>4, <2>2, <3>2, <3>3 DEF TypeOK, Bump
  <2>3. CASE UpdateMerged(h)
    <3>1. handler[h].snap \in Columns
      BY DEF TypeOK, Call
    <3> QED BY <1>4, <2>3, <3>1, ConstantTypes DEF TypeOK, UpdateMerged, Update
  <2>4. CASE Publish(h)
    <3>1. [handler[h] EXCEPT !.pc = "create", !.snap = Snapshot(id)] \in Call
      BY SnapshotType DEF TypeOK, Call
    <3> QED BY <1>4, <2>4, <3>1, UpsertType DEF TypeOK, Publish
  <2>5. CASE Create(h)
    <3>1. [TimerOff EXCEPT !.pc = "waiting", !.left = GroupWait] \in Timer
      <4>1. GroupWait \in 0..GroupWait
        BY ConstantsAssumption
      <4> QED BY <4>1, ConstantTypes DEF Timer, TimerOff
    <3>2. handler[h].snap \in Columns
      BY DEF TypeOK, Call
    <3> QED BY <1>4, <2>5, <3>1, <3>2, ConstantTypes DEF TypeOK, Create
  <2>6. CASE CreateFails(h)
    BY <2>6, ConstantTypes DEF TypeOK, CreateFails
  <2> QED BY <1>2, <1>3, <1>4, <2>1, <2>2, <2>3, <2>4, <2>5, <2>6 DEF HandleAnomaly
<1>5. ASSUME NEW h \in Handlers, HandleAnomaly(h) PROVE TypeOK'
  <2>1. FindOpen(h) \/ FindNone(h) \/ handler[h].id \in Ids
    BY <1>5 DEF HandleAnomaly, Touch, Bump, UpdateMerged, Publish, Create,
                CreateFails, PointersOK
  <2> QED BY <1>2, <1>3, <1>4, <1>5, <2>1
<1>6. ASSUME NEW id \in Ids, GroupWaitTimer(id) PROVE TypeOK'
  <2>1. CASE TimerFires(id)
    <3>1. [TimerOff EXCEPT !.pc = "activate"] \in Timer
      BY ConstantTypes DEF Timer, TimerOff
    <3> QED BY <2>1, <3>1, ConstantTypes DEF TypeOK, TimerFires
  <2>2. CASE TimerActivates(id)
    <3>1. [inc[id] EXCEPT !.state = "Active"] \in Incident
      BY DEF TypeOK, Incident, Stage
    <3>2. [timer[id] EXCEPT !.pc = "upsert"] \in Timer
      BY DEF TypeOK, Timer
    <3> QED BY <2>2, <3>1, <3>2 DEF TypeOK, TimerActivates
  <2>3. CASE TimerUpserts(id)
    <3>1. [timer[id] EXCEPT !.pc = "update", !.snap = Snapshot(id)] \in Timer
      BY SnapshotType DEF TypeOK, Timer
    <3> QED BY <2>3, <3>1, UpsertType DEF TypeOK, TimerUpserts
  <2>4. CASE TimerUpdates(id)
    <3>1. timer[id].snap \in Columns
      BY DEF TypeOK, Timer
    <3> QED BY <2>4, <3>1, ConstantTypes DEF TypeOK, TimerUpdates, Update
  <2> QED BY <1>6, <2>1, <2>2, <2>3, <2>4 DEF GroupWaitTimer
<1>7. CASE CheckActiveWindow
  <2>1. CASE Sweep
    <3>1. [Asleep EXCEPT !.pc = "resolve", !.todo = Expired] \in Sweeper
      BY ConstantTypes DEF Sweeper, Asleep, Expired
    <3> QED BY <2>1, <3>1, ConstantTypes DEF TypeOK, Sweep
  <2>2. CASE SweepResolves
    <3>1. PICK id \in sweeper.todo :
            /\ inc' = [inc EXCEPT ![id].state = "Resolved"]
            /\ sweeper' = [sweeper EXCEPT !.pc = "remove", !.id = id,
                                          !.todo = sweeper.todo \ {id}]
      BY <2>2 DEF SweepResolves
    <3>2. id \in Ids
      BY DEF TypeOK, Sweeper
    <3>3. [inc[id] EXCEPT !.state = "Resolved"] \in Incident
      BY <3>2 DEF TypeOK, Incident, Stage
    <3>4. sweeper' \in Sweeper
      BY <3>1, <3>2 DEF TypeOK, Sweeper
    <3> QED BY <2>2, <3>1, <3>3, <3>4 DEF TypeOK, SweepResolves
  <2>3. CASE SweepRemoves
    <3>1. sweeper.id \in Ids
      BY <2>3 DEF SweepRemoves, PointersOK
    <3>2. sweeper' \in Sweeper
      BY <2>3, <3>1, SnapshotType DEF TypeOK, SweepRemoves, Sweeper
    <3> QED BY <2>3, <3>2 DEF TypeOK, SweepRemoves
  <2>4. CASE SweepUpdates
    <3>1. sweeper.snap \in Columns
      BY DEF TypeOK, Sweeper
    <3>2. [sweeper EXCEPT !.pc = "resolve", !.id = None, !.snap = NoRow] \in Sweeper
      BY ConstantTypes DEF TypeOK, Sweeper
    <3> QED BY <2>4, <3>1, <3>2, ConstantTypes DEF TypeOK, SweepUpdates, Update
  <2> QED BY <1>7, <2>1, <2>2, <2>3, <2>4 DEF CheckActiveWindow
<1>8. CASE Tick
  <2>1. ASSUME NEW id \in Ids PROVE [inc[id] EXCEPT !.age = Older(@)] \in Incident
    BY ConstantsAssumption DEF TypeOK, Incident, Older, Horizon
  <2>2. ASSUME NEW id \in Ids, timer[id].left # 0
        PROVE  [timer[id] EXCEPT !.left = @ - 1] \in Timer
    <3> DEFINE n == timer[id].left
    <3>1. n \in 0..GroupWait
      BY DEF TypeOK, Timer
    <3>2. n - 1 \in 0..GroupWait
      <4> HIDE DEF n
      <4> QED BY <2>2, <3>1, ConstantsAssumption DEF n
    <3>3. [timer[id] EXCEPT !.left = n - 1] \in Timer
      BY <3>2 DEF TypeOK, Timer
    <3> QED BY <3>3
  <2> QED BY <1>8, <2>1, <2>2 DEF TypeOK, Tick
<1>9. CASE StopPipeline
  <2>1. stops' \in 0..MaxStops
    BY <1>9, ConstantsAssumption DEF TypeOK, StopPipeline
  <2> QED BY <1>9, <2>1, ConstantTypes DEF TypeOK, StopPipeline
<1>10. CASE StartPipeline
  BY <1>10 DEF TypeOK, StartPipeline
<1>11. CASE UNCHANGED vars
  BY <1>11 DEF TypeOK, vars
<1> QED
  BY <1>1, <1>5, <1>6, <1>7, <1>8, <1>9, <1>10, <1>11 DEF Next

\* A goroutine past its lookup holds a pointer, whatever the others do.
LEMMA PointersStep ==
    ASSUME TypeOK, PointersOK, [Next]_vars
    PROVE  PointersOK'
<1>1. ASSUME NEW h \in Handlers, NEW k \in Keys, Receive(h, k) PROVE PointersOK'
  BY <1>1 DEF TypeOK, PointersOK, Receive, Idle
<1>2. ASSUME NEW h \in Handlers, HandleAnomaly(h) PROVE PointersOK'
  <2>1. CASE FindOpen(h)
    <3>1. FindActive(handler[h].key) \in Ids
      BY <2>1 DEF TypeOK, Call, FindOpen, FindActive, IsOpen
    <3> QED BY <2>1, <3>1 DEF TypeOK, PointersOK, FindOpen
  <2>2. CASE FindNone(h)
    BY <2>2 DEF TypeOK, PointersOK, FindNone
  <2>3. CASE Touch(h)
    BY <2>3 DEF TypeOK, PointersOK, Touch
  <2>4. CASE Bump(h)
    BY <2>4 DEF TypeOK, PointersOK, Bump
  <2>5. CASE UpdateMerged(h) \/ Create(h) \/ CreateFails(h)
    BY <2>5 DEF TypeOK, PointersOK, UpdateMerged, Create, CreateFails, Idle
  <2>6. CASE Publish(h)
    BY <2>6 DEF TypeOK, PointersOK, Publish
  <2> QED BY <1>2, <2>1, <2>2, <2>3, <2>4, <2>5, <2>6 DEF HandleAnomaly
<1>3. ASSUME NEW id \in Ids, GroupWaitTimer(id) PROVE PointersOK'
  BY <1>3 DEF PointersOK, GroupWaitTimer, TimerFires, TimerActivates,
              TimerUpserts, TimerUpdates
<1>4. CASE CheckActiveWindow
  <2>1. CASE Sweep
    <3>1. sweeper'.pc \in {"idle", "resolve"}
      BY <2>1 DEF Sweep, Asleep
    <3> QED BY <2>1, <3>1 DEF PointersOK, Sweep
  <2>4. CASE SweepUpdates
    <3>1. sweeper'.pc \in {"idle", "resolve"}
      BY <2>4 DEF TypeOK, Sweeper, SweepUpdates, Asleep
    <3> QED BY <2>4, <3>1 DEF PointersOK, SweepUpdates
  <2>2. CASE SweepResolves
    BY <2>2 DEF TypeOK, Sweeper, PointersOK, SweepResolves
  <2>3. CASE SweepRemoves
    BY <2>3 DEF TypeOK, Sweeper, PointersOK, SweepRemoves
  <2> QED BY <1>4, <2>1, <2>2, <2>3, <2>4 DEF CheckActiveWindow
<1>5. CASE Tick \/ StartPipeline \/ UNCHANGED vars
  BY <1>5 DEF PointersOK, Tick, StartPipeline, vars
<1>6. CASE StopPipeline
  BY <1>6 DEF PointersOK, StopPipeline, Idle, Asleep
<1> QED BY <1>1, <1>2, <1>3, <1>4, <1>5, <1>6 DEF Next

\* Type correctness of the pipeline under any timing, with failing database
\* calls and stops.
THEOREM TypeCorrect == Spec => [](TypeOK /\ PointersOK)
<1>1. Init => TypeOK /\ PointersOK
  BY ConstantsAssumption, ConstantTypes DEF Init, TypeOK, PointersOK, Idle, Asleep
<1>2. TypeOK /\ PointersOK /\ [Next]_vars => (TypeOK /\ PointersOK)'
  BY TypeStep, PointersStep
<1> QED BY <1>1, <1>2, PTL DEF Spec

-----------------------------------------------------------------------------
(* The inductive invariant of the timely pipeline. *)

\* The states an incident may show only grow along its life cycle.
LEMMA ReachedGrows ==
    /\ \A s \in Stage \ {"Free"} : s \in Lifecycle!Reached(s)
    /\ \A s \in Stage : Lifecycle!Reached(s) \subseteq Lifecycle!Reached("Resolved")
    /\ Lifecycle!Reached("Detecting") \subseteq Lifecycle!Reached("Active")
    /\ Lifecycle!Reached("Free") = {}
    /\ Lifecycle!Reached("Resolved") = Stage \ {"Free"}
  BY DEF Lifecycle!Reached, Lifecycle!Stage, Stage

\* The states along one step: an incident keeps its state or takes the next.
Moves(s, t) ==
    \/ t = s
    \/ s = "Free" /\ t = "Detecting"
    \/ s = "Detecting" /\ t = "Active"
    \/ s \in Open /\ t = "Resolved"

\* Along a move what an incident may show only grows.
LEMMA MovesGrow ==
    ASSUME NEW s \in Stage, NEW t, Moves(s, t)
    PROVE  Lifecycle!Reached(s) \subseteq Lifecycle!Reached(t)
  BY ReachedGrows DEF Moves, Open

\* Only the sweeper resolves an incident, one that Sweep has returned.
LEMMA OnlySweepResolves ==
    ASSUME TypeOK, [Next]_vars, NEW i \in Ids,
           inc[i].state # "Resolved", inc'[i].state = "Resolved"
    PROVE  i \in sweeper.todo
<1>1. ASSUME NEW h \in Handlers, HandleAnomaly(h) PROVE FALSE
  <2>1. CASE FindNone(h)
    BY <2>1 DEF FindNone, TypeOK
  <2>2. CASE Touch(h)
    BY <2>2 DEF Touch, TypeOK, Incident
  <2>3. CASE Bump(h)
    BY <2>3 DEF Bump, TypeOK, Incident
  <2>4. CASE FindOpen(h) \/ UpdateMerged(h) \/ Publish(h) \/ Create(h) \/ CreateFails(h)
    BY <2>4 DEF FindOpen, UpdateMerged, Publish, Create, CreateFails
  <2> QED BY <1>1, <2>1, <2>2, <2>3, <2>4 DEF HandleAnomaly
<1>2. ASSUME NEW id \in Ids, GroupWaitTimer(id) PROVE FALSE
  <2>1. CASE TimerActivates(id)
    BY <2>1 DEF TimerActivates, TypeOK, Incident
  <2>2. CASE TimerFires(id) \/ TimerUpserts(id) \/ TimerUpdates(id)
    BY <2>2 DEF TimerFires, TimerUpserts, TimerUpdates
  <2> QED BY <1>2, <2>1, <2>2 DEF GroupWaitTimer
<1>3. CASE SweepResolves
  BY <1>3 DEF SweepResolves, TypeOK, Incident
<1>4. CASE Tick
  BY <1>4 DEF Tick, TypeOK, Incident
<1>5. CASE inc' = inc
  BY <1>5
<1> QED
  BY <1>1, <1>2, <1>3, <1>4, <1>5
     DEF Next, CheckActiveWindow, Sweep, SweepRemoves, SweepUpdates, Receive,
         StopPipeline, StartPipeline, vars

\* No step moves an incident out of the order of its life cycle.
LEMMA StateMoves ==
    ASSUME TimelyInv, [Next]_vars, NEW i \in Ids
    PROVE  Moves(inc[i].state, inc'[i].state)
<1> USE DEF TimelyInv
<1>1. ASSUME NEW h \in Handlers, HandleAnomaly(h) PROVE Moves(inc[i].state, inc'[i].state)
  <2>1. CASE FindNone(h)
    BY <2>1 DEF FindNone, TypeOK, Moves
  <2>2. CASE Touch(h)
    BY <2>2 DEF Touch, TypeOK, Incident, Moves
  <2>3. CASE Bump(h)
    BY <2>3 DEF Bump, TypeOK, Incident, Moves
  <2>4. CASE FindOpen(h) \/ UpdateMerged(h) \/ Publish(h) \/ Create(h) \/ CreateFails(h)
    BY <2>4 DEF FindOpen, UpdateMerged, Publish, Create, CreateFails, Moves
  <2> QED BY <1>1, <2>1, <2>2, <2>3, <2>4 DEF HandleAnomaly
<1>2. ASSUME NEW id \in Ids, GroupWaitTimer(id) PROVE Moves(inc[i].state, inc'[i].state)
  <2>1. CASE TimerActivates(id)
    BY <2>1 DEF TimerActivates, TimerInv, TypeOK, Incident, Moves
  <2>2. CASE TimerFires(id) \/ TimerUpserts(id) \/ TimerUpdates(id)
    BY <2>2 DEF TimerFires, TimerUpserts, TimerUpdates, Moves
  <2> QED BY <1>2, <2>1, <2>2 DEF GroupWaitTimer
<1>3. CASE CheckActiveWindow
  <2>1. CASE SweepResolves
    BY <2>1 DEF SweepResolves, SweeperInv, TypeOK, Incident, Moves
  <2>2. CASE Sweep \/ SweepRemoves \/ SweepUpdates
    BY <2>2 DEF Sweep, SweepRemoves, SweepUpdates, Moves
  <2> QED BY <1>3, <2>1, <2>2 DEF CheckActiveWindow
<1>4. CASE Tick
  BY <1>4 DEF Tick, TypeOK, Incident, Moves
<1>5. ASSUME NEW h \in Handlers, NEW k \in Keys, Receive(h, k)
      PROVE  Moves(inc[i].state, inc'[i].state)
  BY <1>5 DEF Receive, Moves
<1>6. CASE StopPipeline \/ StartPipeline \/ UNCHANGED vars
  BY <1>6 DEF StopPipeline, StartPipeline, vars, Moves
<1> QED BY <1>1, <1>2, <1>3, <1>4, <1>5, <1>6 DEF Next

\* What an incident could show before a step it can show after it.
LEMMA ShownStays ==
    ASSUME TimelyInv, [Next]_vars, NEW i \in Ids
    PROVE  Lifecycle!Reached(inc[i].state) \subseteq Lifecycle!Reached(inc'[i].state)
  BY StateMoves, MovesGrow DEF TimelyInv, TypeOK, Incident

\* Rows are written from snapshots that show a state the incident has reached.
LEMMA RowStep ==
    ASSUME TimelyInv, [Next]_vars
    PROVE  RowInv'
<1> USE ShownStays DEF TimelyInv, RowInv
<1>1. ASSUME NEW h \in Handlers, HandleAnomaly(h) PROVE RowInv'
  <2>1. CASE UpdateMerged(h)
    BY <2>1 DEF UpdateMerged, Update, HandlerInv, TypeOK
  <2>2. CASE Create(h)
    BY <2>2 DEF Create, HandlerInv, TypeOK
  <2>3. CASE FindOpen(h) \/ FindNone(h) \/ Touch(h) \/ Bump(h) \/ Publish(h) \/ CreateFails(h)
    BY <2>3 DEF FindOpen, FindNone, Touch, Bump, Publish, CreateFails
  <2> QED BY <1>1, <2>1, <2>2, <2>3 DEF HandleAnomaly
<1>2. ASSUME NEW id \in Ids, GroupWaitTimer(id) PROVE RowInv'
  <2>1. CASE TimerUpdates(id)
    BY <2>1 DEF TimerUpdates, Update, TimerInv, TypeOK
  <2>2. CASE TimerFires(id) \/ TimerActivates(id) \/ TimerUpserts(id)
    BY <2>2 DEF TimerFires, TimerActivates, TimerUpserts
  <2> QED BY <1>2, <2>1, <2>2 DEF GroupWaitTimer
<1>3. CASE CheckActiveWindow
  <2>1. CASE SweepUpdates
    BY <2>1, ReachedGrows DEF SweepUpdates, Update, SweeperInv, TypeOK, Stage
  <2>2. CASE Sweep \/ SweepResolves \/ SweepRemoves
    BY <2>2 DEF Sweep, SweepResolves, SweepRemoves
  <2> QED BY <1>3, <2>1, <2>2 DEF CheckActiveWindow
<1>4. ASSUME NEW h \in Handlers, NEW k \in Keys, Receive(h, k) PROVE RowInv'
  BY <1>4 DEF Receive
<1>5. CASE Tick \/ StopPipeline \/ StartPipeline \/ UNCHANGED vars
  BY <1>5 DEF Tick, StopPipeline, StartPipeline, vars
<1> QED BY <1>1, <1>2, <1>3, <1>4, <1>5 DEF Next

\* The sweeper's incidents are open until it resolves them, and stay resolved.
LEMMA SweeperStep ==
    ASSUME TimelyInv, [Next]_vars
    PROVE  SweeperInv'
<1> USE DEF TimelyInv, SweeperInv
<1>1. ASSUME NEW h \in Handlers, HandleAnomaly(h) PROVE SweeperInv'
  <2>1. \A i \in Ids : inc[i].state \in Open => inc'[i].state = inc[i].state
    <3>1. CASE FindNone(h)
      BY <3>1 DEF FindNone, TypeOK, Open
    <3>2. CASE Touch(h)
      BY <3>2 DEF Touch, TypeOK, Incident
    <3>3. CASE Bump(h)
      BY <3>3 DEF Bump, TypeOK, Incident
    <3>4. CASE FindOpen(h) \/ UpdateMerged(h) \/ Publish(h) \/ Create(h) \/ CreateFails(h)
      BY <3>4 DEF FindOpen, UpdateMerged, Publish, Create, CreateFails
    <3> QED BY <1>1, <3>1, <3>2, <3>3, <3>4 DEF HandleAnomaly
  <2>2. \A i \in Ids : inc[i].state = "Resolved" => inc'[i].state = "Resolved"
    BY StateMoves DEF Moves, Open
  <2>3. sweeper' = sweeper
    BY <1>1 DEF HandleAnomaly, FindOpen, FindNone, Touch, Bump, UpdateMerged,
                Publish, Create, CreateFails
  <2> QED BY <2>1, <2>2, <2>3 DEF TypeOK, Sweeper, PointersOK
<1>2. ASSUME NEW id \in Ids, GroupWaitTimer(id) PROVE SweeperInv'
  <2>1. sweeper' = sweeper
    BY <1>2 DEF GroupWaitTimer, TimerFires, TimerActivates, TimerUpserts, TimerUpdates
  <2>2. \A i \in Ids : inc[i].state \in Open => inc'[i].state \in Open
    <3>1. CASE TimerActivates(id)
      BY <3>1 DEF TimerActivates, TypeOK, Incident, Open
    <3>2. CASE TimerFires(id) \/ TimerUpserts(id) \/ TimerUpdates(id)
      BY <3>2 DEF TimerFires, TimerUpserts, TimerUpdates
    <3> QED BY <1>2, <3>1, <3>2 DEF GroupWaitTimer
  <2>3. \A i \in Ids : inc[i].state = "Resolved" => inc'[i].state = "Resolved"
    BY StateMoves DEF Moves, Open
  <2> QED BY <2>1, <2>2, <2>3 DEF TypeOK, Sweeper, PointersOK
<1>3. CASE Sweep
  <2>1. /\ sweeper'.pc \in {"idle", "resolve"}
        /\ sweeper'.todo \subseteq Expired
        /\ inc' = inc
    BY <1>3 DEF Sweep, Asleep
  <2> QED BY <2>1 DEF Expired
<1>4. CASE SweepResolves
  <2>1. PICK id \in sweeper.todo :
          /\ inc' = [inc EXCEPT ![id].state = "Resolved"]
          /\ sweeper' = [sweeper EXCEPT !.pc = "remove", !.id = id,
                                        !.todo = sweeper.todo \ {id}]
    BY <1>4 DEF SweepResolves
  <2>2. id \in Ids /\ sweeper.todo \subseteq Ids
    BY DEF TypeOK, Sweeper
  <2>3. sweeper'.pc = "remove" /\ sweeper'.id = id /\ sweeper'.todo = sweeper.todo \ {id}
    BY <2>1 DEF TypeOK, Sweeper
  <2>4. inc'[id].state = "Resolved"
    BY <2>1, <2>2 DEF TypeOK, Incident
  <2>5. \A i \in Ids \ {id} : inc'[i] = inc[i]
    BY <2>1 DEF TypeOK
  <2> QED BY <2>2, <2>3, <2>4, <2>5
<1>5. CASE SweepRemoves
  <2>1. /\ sweeper'.pc = "update" /\ sweeper'.id = sweeper.id
        /\ sweeper'.todo = sweeper.todo
        /\ sweeper'.snap = Snapshot(sweeper.id)
        /\ inc' = inc
    BY <1>5 DEF SweepRemoves, TypeOK, Sweeper
  <2> QED BY <1>5, <2>1 DEF SweepRemoves, Snapshot
<1>6. CASE SweepUpdates
  <2>1. /\ sweeper'.pc \in {"idle", "resolve"}
        /\ sweeper'.todo \subseteq sweeper.todo
        /\ inc' = inc
    BY <1>6 DEF SweepUpdates, TypeOK, Sweeper, Asleep
  <2> QED BY <2>1
<1>7. CASE Tick
  <2>1. \A i \in Ids : inc'[i].state = inc[i].state
    BY <1>7 DEF Tick, TypeOK, Incident
  <2> QED BY <1>7, <2>1 DEF Tick, TypeOK, Sweeper, PointersOK
<1>8. ASSUME NEW h \in Handlers, NEW k \in Keys, Receive(h, k) PROVE SweeperInv'
  BY <1>8 DEF Receive
<1>9. CASE StopPipeline
  BY <1>9 DEF StopPipeline, Asleep
<1>10. CASE StartPipeline \/ UNCHANGED vars
  BY <1>10 DEF StartPipeline, vars
<1> QED BY <1>1, <1>2, <1>3, <1>4, <1>5, <1>6, <1>7, <1>8, <1>9, <1>10
        DEF Next, CheckActiveWindow

\* Two handlers never create the same incident.
LEMMA OneMakerStep ==
    ASSUME TimelyInv, [Next]_vars
    PROVE  OneMaker'
<1> USE DEF TimelyInv, OneMaker, Making, TypeOK, Call
<1>1. ASSUME NEW h \in Handlers, FindNone(h) PROVE OneMaker'
  <2>1. PICK id \in Ids :
          /\ inc[id].state = "Free"
          /\ handler' = [handler EXCEPT ![h].pc = "upsert", ![h].id = id]
    BY <1>1 DEF FindNone
  <2>2. \A g \in Handlers : Making(g) => handler[g].id # id
    BY <2>1 DEF HandlerInv
  <2>3. \A g \in Handlers \ {h} : handler'[g] = handler[g]
    BY <2>1
  <2>4. handler'[h].id = id /\ handler'[h].pc = "upsert"
    BY <2>1
  <2> QED BY <2>2, <2>3, <2>4
<1>2. ASSUME NEW h \in Handlers, HandleAnomaly(h), ~FindNone(h) PROVE OneMaker'
  <2>1. CASE FindOpen(h)
    BY <2>1 DEF FindOpen
  <2>2. CASE Touch(h)
    BY <2>2 DEF Touch
  <2>3. CASE Bump(h)
    BY <2>3 DEF Bump
  <2>4. CASE Publish(h)
    BY <2>4 DEF Publish
  <2>5. CASE UpdateMerged(h) \/ Create(h) \/ CreateFails(h)
    BY <2>5 DEF UpdateMerged, Create, CreateFails, Idle
  <2> QED BY <1>2, <2>1, <2>2, <2>3, <2>4, <2>5 DEF HandleAnomaly
<1>3. ASSUME NEW h \in Handlers, NEW k \in Keys, Receive(h, k) PROVE OneMaker'
  BY <1>3 DEF Receive, Idle
<1>4. CASE StopPipeline
  BY <1>4 DEF StopPipeline, Idle
<1>5. CASE handler' = handler
  BY <1>5
<1> QED
  BY <1>1, <1>2, <1>3, <1>4, <1>5
     DEF Next, CheckActiveWindow, Sweep, SweepResolves, SweepRemoves, SweepUpdates,
         GroupWaitTimer, TimerFires, TimerActivates, TimerUpserts, TimerUpdates,
         Tick, StartPipeline, vars

\* What a handler knows of its incident is not disturbed by the others: in a
\* timely pipeline nothing ages or expires while an incident is being created.
LEMMA HandlerStep ==
    ASSUME TimelyInv, TimelySchedule, [Next]_vars
    PROVE  HandlerInv'
<1> USE DEF TimelyInv, Making
<1>1. ASSUME NEW h \in Handlers, HandleAnomaly(h) PROVE HandlerInv'
  <2>1. CASE FindOpen(h)
    <3>1. inc[FindActive(handler[h].key)].state # "Free"
      BY <2>1 DEF FindOpen, FindActive, IsOpen, Open
    <3> QED BY <2>1, <3>1 DEF FindOpen, HandlerInv, TypeOK, Call
  <2>2. CASE FindNone(h)
    <3>1. PICK id \in Ids :
            /\ inc[id].state = "Free"
            /\ inc' = [inc EXCEPT ![id] = [key |-> handler[h].key, state |-> "Detecting",
                                           age |-> 0, count |-> 1]]
            /\ handler' = [handler EXCEPT ![h].pc = "upsert", ![h].id = id]
      BY <2>2 DEF FindNone
    <3>2. timer' = timer /\ sweeper' = sweeper
      BY <2>2 DEF FindNone
    <3>3. timer[id].pc = "off" \/ timer[id].pc = "update"
      BY <3>1 DEF TimerInv, TypeOK, Timer
    <3>4. timer[id].pc # "update"
      BY <3>1, ReachedGrows DEF TimerInv
    <3>5. id \notin sweeper.todo
      BY <3>1 DEF SweeperInv, Open
    <3>6. \A g \in Handlers \ {h} : handler'[g] = handler[g]
      BY <3>1 DEF TypeOK
    <3>7. handler'[h].pc = "upsert" /\ handler'[h].id = id
      BY <3>1 DEF TypeOK, Call
    <3>8. \A i \in Ids \ {id} : inc'[i] = inc[i]
      BY <3>1 DEF TypeOK
    <3>9. inc'[id].state = "Detecting" /\ inc'[id].age = 0
      BY <3>1 DEF TypeOK
    <3>10. ASSUME NEW g \in Handlers \ {h}, handler[g].pc \notin {"idle", "find"}
           PROVE  handler[g].id \in Ids \ {id}
      <4>1. handler[g].id \in Ids
        BY <3>10 DEF PointersOK
      <4>2. inc[handler[g].id].state # "Free"
        BY <3>10 DEF HandlerInv, TypeOK, Call
      <4> QED BY <3>1, <4>1, <4>2
    <3> QED BY <3>2, <3>3, <3>4, <3>5, <3>6, <3>7, <3>8, <3>9, <3>10 DEF HandlerInv
  <2>3. CASE Touch(h)
    <3>1. \A i \in Ids : inc'[i].state = inc[i].state /\ (inc[i].age = 0 => inc'[i].age = 0)
      BY <2>3 DEF Touch, TypeOK, Incident
    <3>2. timer' = timer /\ sweeper' = sweeper
      BY <2>3 DEF Touch
    <3>3. /\ handler'[h].pc = "bump" /\ handler'[h].id = handler[h].id
          /\ \A g \in Handlers \ {h} : handler'[g] = handler[g]
      BY <2>3 DEF Touch, TypeOK, Call
    <3>4. handler[h].id \in Ids /\ inc[handler[h].id].state # "Free"
      BY <2>3 DEF Touch, HandlerInv, PointersOK
    <3>5. \A g \in Handlers : handler[g].pc \notin {"idle", "find"} => handler[g].id \in Ids
      BY DEF PointersOK
    <3> QED BY <3>1, <3>2, <3>3, <3>4, <3>5 DEF HandlerInv
  <2>4. CASE Bump(h)
    <3>1. \A i \in Ids : inc'[i].state = inc[i].state /\ inc'[i].age = inc[i].age
      BY <2>4 DEF Bump, TypeOK, Incident
    <3>2. timer' = timer /\ sweeper' = sweeper
      BY <2>4 DEF Bump
    <3>3. /\ handler'[h].pc = "update" /\ handler'[h].id = handler[h].id
          /\ handler'[h].snap.state = inc[handler[h].id].state
          /\ \A g \in Handlers \ {h} : handler'[g] = handler[g]
      BY <2>4 DEF Bump, TypeOK, Call
    <3>4. /\ handler[h].id \in Ids
          /\ inc[handler[h].id].state \in Stage \ {"Free"}
      BY <2>4 DEF Bump, HandlerInv, PointersOK, TypeOK, Incident
    <3> QED BY <3>1, <3>2, <3>3, <3>4, ReachedGrows DEF HandlerInv, PointersOK
  <2>5. CASE Publish(h)
    <3>1. inc' = inc /\ timer' = timer /\ sweeper' = sweeper
      BY <2>5 DEF Publish
    <3>2. /\ handler'[h].pc = "create" /\ handler'[h].id = handler[h].id
          /\ handler'[h].snap.state = inc[handler[h].id].state
          /\ \A g \in Handlers \ {h} : handler'[g] = handler[g]
      BY <2>5 DEF Publish, Snapshot, TypeOK, Call
    <3>3. inc[handler[h].id].state = "Detecting"
      BY <2>5 DEF Publish, HandlerInv
    <3>4. handler'[h].snap.state \in Lifecycle!Reached(inc[handler[h].id].state)
      BY <3>2, <3>3, ReachedGrows DEF Stage
    <3>5. Making(h)
      BY <2>5 DEF Publish
    <3> QED BY <3>1, <3>2, <3>4, <3>5 DEF HandlerInv
  <2>6. CASE Create(h)
    <3>1. inc' = inc /\ sweeper' = sweeper
      BY <2>6 DEF Create
    <3>2. handler'[h].pc = "idle" /\ \A g \in Handlers \ {h} : handler'[g] = handler[g]
      BY <2>6 DEF Create, Idle, TypeOK
    <3>3. \A i \in Ids \ {handler[h].id} : timer'[i] = timer[i]
      BY <2>6 DEF Create, TypeOK
    <3>4. \A g \in Handlers \ {h} : Making(g) => handler[g].id \in Ids \ {handler[h].id}
      BY <2>6 DEF Create, OneMaker, PointersOK
    <3> QED BY <3>1, <3>2, <3>3, <3>4 DEF HandlerInv
  <2>7. CASE UpdateMerged(h) \/ CreateFails(h)
    <3>1. inc' = inc /\ sweeper' = sweeper /\ timer' = timer
      BY <2>7 DEF UpdateMerged, CreateFails
    <3>2. handler'[h].pc = "idle" /\ \A g \in Handlers \ {h} : handler'[g] = handler[g]
      BY <2>7 DEF UpdateMerged, CreateFails, Idle, TypeOK
    <3> QED BY <3>1, <3>2 DEF HandlerInv
  <2> QED BY <1>1, <2>1, <2>2, <2>3, <2>4, <2>5, <2>6, <2>7 DEF HandleAnomaly
<1>2. ASSUME NEW id \in Ids, GroupWaitTimer(id) PROVE HandlerInv'
  <2>1. handler' = handler /\ sweeper' = sweeper
    BY <1>2 DEF GroupWaitTimer, TimerFires, TimerActivates, TimerUpserts, TimerUpdates
  <2>2. \A i \in Ids \ {id} : timer'[i] = timer[i] /\ inc'[i] = inc[i]
    BY <1>2 DEF GroupWaitTimer, TimerFires, TimerActivates, TimerUpserts,
                TimerUpdates, TypeOK
  <2>3. timer[id].pc # "off"
    BY <1>2 DEF GroupWaitTimer, TimerFires, TimerActivates, TimerUpserts, TimerUpdates
  <2>4. \A h \in Handlers : Making(h) => handler[h].id \in Ids \ {id}
    BY <2>3 DEF HandlerInv, PointersOK
  <2>5. \A h \in Handlers : handler[h].pc \in {"touch", "bump", "update", "create"} =>
           /\ handler[h].id \in Ids
           /\ Lifecycle!Reached(inc[handler[h].id].state)
                \subseteq Lifecycle!Reached(inc'[handler[h].id].state)
    BY ShownStays DEF PointersOK
  <2>6. \A h \in Handlers : handler[h].pc \in {"touch", "bump", "update"} =>
           inc'[handler[h].id].state # "Free"
    BY StateMoves DEF Moves, HandlerInv, PointersOK, Open
  <2> QED BY <2>1, <2>2, <2>4, <2>5, <2>6 DEF HandlerInv
<1>3. CASE CheckActiveWindow
  <2>1. handler' = handler /\ timer' = timer
    BY <1>3 DEF CheckActiveWindow, Sweep, SweepResolves, SweepRemoves, SweepUpdates
  <2>2. \A h \in Handlers : Making(h) =>
           /\ inc'[handler[h].id] = inc[handler[h].id]
           /\ handler[h].id \notin sweeper'.todo
    <3>1. CASE Sweep
      <4>1. inc' = inc /\ sweeper'.todo \subseteq Expired
        BY <3>1 DEF Sweep, Asleep
      <4>2. \A i \in Expired : inc[i].age # 0
        BY ConstantsAssumption DEF Expired
      <4> QED BY <4>1, <4>2 DEF HandlerInv
    <3>2. CASE SweepResolves
      <4>1. PICK id \in sweeper.todo :
              /\ inc' = [inc EXCEPT ![id].state = "Resolved"]
              /\ sweeper' = [sweeper EXCEPT !.pc = "remove", !.id = id,
                                            !.todo = sweeper.todo \ {id}]
        BY <3>2 DEF SweepResolves
      <4>2. sweeper'.todo = sweeper.todo \ {id}
        BY <4>1 DEF TypeOK, Sweeper
      <4>3. \A i \in Ids \ {id} : inc'[i] = inc[i]
        BY <4>1 DEF TypeOK
      <4> QED BY <4>2, <4>3 DEF HandlerInv, PointersOK
    <3>3. CASE SweepRemoves
      BY <3>3 DEF SweepRemoves, HandlerInv, TypeOK, Sweeper
    <3>4. CASE SweepUpdates
      BY <3>4 DEF SweepUpdates, HandlerInv, TypeOK, Sweeper, Asleep
    <3> QED BY <1>3, <3>1, <3>2, <3>3, <3>4 DEF CheckActiveWindow
  <2>3. \A h \in Handlers : handler[h].pc \in {"touch", "bump", "update"} =>
           inc'[handler[h].id].state # "Free"
    BY StateMoves DEF Moves, HandlerInv, PointersOK, Open
  <2>4. \A h \in Handlers : handler[h].pc \in {"update", "create"} =>
           handler[h].snap.state \in Lifecycle!Reached(inc'[handler[h].id].state)
    BY ShownStays DEF HandlerInv, PointersOK
  <2> QED BY <2>1, <2>2, <2>3, <2>4 DEF HandlerInv
<1>4. ASSUME NEW h \in Handlers, NEW k \in Keys, Receive(h, k) PROVE HandlerInv'
  <2>1. handler'[h].pc = "find" /\ \A g \in Handlers \ {h} : handler'[g] = handler[g]
    BY <1>4 DEF Receive, Idle, TypeOK
  <2> QED BY <1>4, <2>1 DEF Receive, HandlerInv
<1>5. CASE Tick
  BY <1>5 DEF Tick, Quiet, TimelySchedule, HandlerInv
<1>6. CASE StopPipeline
  BY <1>6 DEF StopPipeline, Idle, HandlerInv
<1>7. CASE StartPipeline \/ UNCHANGED vars
  BY <1>7 DEF StartPipeline, vars, HandlerInv
<1> QED BY <1>1, <1>2, <1>3, <1>4, <1>5, <1>6, <1>7 DEF Next

\* A pending timer stays ahead of the sweeper: its incident's age and the time
\* left never exceed GroupWait, and Sweep takes incidents older than that.
LEMMA TimerStep ==
    ASSUME TimelyInv, TimelySchedule, [Next]_vars
    PROVE  TimerInv'
<1> USE DEF TimelyInv, Armed
<1>1. \A i \in Ids : "Active" \in Lifecycle!Reached(inc[i].state) =>
                        "Active" \in Lifecycle!Reached(inc'[i].state)
  BY ShownStays
<1>2. ASSUME NEW h \in Handlers, HandleAnomaly(h) PROVE TimerInv'
  <2>1. sweeper' = sweeper
    BY <1>2 DEF HandleAnomaly, FindOpen, FindNone, Touch, Bump, UpdateMerged,
                Publish, Create, CreateFails
  <2>2. CASE FindNone(h)
    <3>1. PICK id \in Ids :
            /\ inc[id].state = "Free"
            /\ inc' = [inc EXCEPT ![id] = [key |-> handler[h].key, state |-> "Detecting",
                                           age |-> 0, count |-> 1]]
      BY <2>2 DEF FindNone
    <3>2. timer' = timer
      BY <2>2 DEF FindNone
    <3>3. ~Armed(id)
      BY <3>1 DEF TimerInv
    <3>4. \A i \in Ids \ {id} : inc'[i] = inc[i]
      BY <3>1 DEF TypeOK
    <3> QED BY <1>1, <2>1, <3>2, <3>3, <3>4 DEF TimerInv
  <2>3. CASE Touch(h)
    <3>1. \A i \in Ids : /\ inc'[i].state = inc[i].state
                         /\ inc'[i].age = inc[i].age \/ inc'[i].age = 0
      BY <2>3 DEF Touch, TypeOK, Incident
    <3>2. timer' = timer
      BY <2>3 DEF Touch
    <3>3. \A i \in Ids : inc[i].age \in Nat /\ timer[i].left \in Nat
      BY ConstantsAssumption DEF TypeOK, Incident, Timer, Horizon
    <3> QED BY <1>1, <2>1, <3>1, <3>2, <3>3, ConstantsAssumption DEF TimerInv
  <2>4. CASE Bump(h)
    <3>1. \A i \in Ids : inc'[i].state = inc[i].state /\ inc'[i].age = inc[i].age
      BY <2>4 DEF Bump, TypeOK, Incident
    <3>2. timer' = timer
      BY <2>4 DEF Bump
    <3> QED BY <1>1, <2>1, <3>1, <3>2 DEF TimerInv
  <2>5. CASE Create(h)
    <3> DEFINE id == handler[h].id
    <3>1. id \in Ids /\ id \notin sweeper.todo
      BY <2>5 DEF Create, HandlerInv, Making, PointersOK
    <3>2. inc[id].state = "Detecting" /\ inc[id].age = 0
      BY <2>5 DEF Create, HandlerInv, Making
    <3>3. inc' = inc
      BY <2>5 DEF Create
    <3>4. timer'[id].pc = "waiting" /\ timer'[id].left = GroupWait
      BY <2>5, <3>1 DEF Create, TimerOff, TypeOK
    <3>5. \A i \in Ids \ {id} : timer'[i] = timer[i]
      BY <2>5 DEF Create, TypeOK
    <3>6. 0 + GroupWait <= GroupWait /\ 0 <= GroupWait
      BY ConstantsAssumption
    <3> HIDE DEF id
    <3> QED BY <2>1, <3>1, <3>2, <3>3, <3>4, <3>5, <3>6 DEF TimerInv
  <2>6. CASE FindOpen(h) \/ UpdateMerged(h) \/ Publish(h) \/ CreateFails(h)
    <3>1. inc' = inc /\ timer' = timer
      BY <2>6 DEF FindOpen, UpdateMerged, Publish, CreateFails
    <3> QED BY <2>1, <3>1 DEF TimerInv
  <2> QED BY <1>2, <2>2, <2>3, <2>4, <2>5, <2>6 DEF HandleAnomaly
<1>3. ASSUME NEW id \in Ids, GroupWaitTimer(id) PROVE TimerInv'
  <2>1. sweeper' = sweeper
    BY <1>3 DEF GroupWaitTimer, TimerFires, TimerActivates, TimerUpserts, TimerUpdates
  <2>2. \A i \in Ids \ {id} : timer'[i] = timer[i] /\ inc'[i] = inc[i]
    BY <1>3 DEF GroupWaitTimer, TimerFires, TimerActivates, TimerUpserts,
                TimerUpdates, TypeOK
  <2>3. CASE TimerFires(id)
    <3>1. timer'[id].pc = "activate"
      BY <2>3 DEF TimerFires, TimerOff, TimerInv, TypeOK
    <3>2. inc' = inc /\ timer[id].pc = "waiting"
      BY <2>3 DEF TimerFires
    <3> QED BY <2>1, <2>2, <3>1, <3>2 DEF TimerInv
  <2>4. CASE TimerActivates(id)
    <3>1. timer'[id].pc = "upsert" /\ timer[id].pc = "activate"
      BY <2>4 DEF TimerActivates, TypeOK, Timer
    <3>2. inc'[id].state = "Active" /\ inc'[id].age = inc[id].age
      BY <2>4 DEF TimerActivates, TypeOK, Incident
    <3> QED BY <2>1, <2>2, <3>1, <3>2 DEF TimerInv
  <2>5. CASE TimerUpserts(id)
    <3>1. /\ timer'[id].pc = "update" /\ timer[id].pc = "upsert"
          /\ timer'[id].snap.state = inc[id].state
      BY <2>5 DEF TimerUpserts, Snapshot, TypeOK, Timer
    <3>2. inc' = inc /\ inc[id].state = "Active"
      BY <2>5 DEF TimerUpserts, TimerInv
    <3> QED BY <2>1, <2>2, <3>1, <3>2, ReachedGrows DEF TimerInv, Stage
  <2>6. CASE TimerUpdates(id)
    <3>1. timer'[id].pc = "off"
      BY <2>6 DEF TimerUpdates, TimerOff, TypeOK
    <3> QED BY <2>1, <2>2, <3>1 DEF TimerInv
  <2> QED BY <1>3, <2>3, <2>4, <2>5, <2>6 DEF GroupWaitTimer
<1>4. CASE CheckActiveWindow
  <2>1. timer' = timer
    BY <1>4 DEF CheckActiveWindow, Sweep, SweepResolves, SweepRemoves, SweepUpdates
  <2>2. \A i \in Ids : Armed(i) => inc'[i] = inc[i] /\ i \notin sweeper'.todo
    <3>1. CASE Sweep
      <4>1. inc' = inc /\ sweeper'.todo \subseteq Expired
        BY <3>1 DEF Sweep, Asleep
      <4>2. \A i \in Ids : Armed(i) => i \notin Expired
        BY ConstantsAssumption DEF Expired, TimerInv, TimelySchedule, TypeOK,
                                   Incident, Horizon
      <4> QED BY <4>1, <4>2
    <3>2. CASE SweepResolves
      <4>1. PICK id \in sweeper.todo :
              /\ inc' = [inc EXCEPT ![id].state = "Resolved"]
              /\ sweeper' = [sweeper EXCEPT !.pc = "remove", !.id = id,
                                            !.todo = sweeper.todo \ {id}]
        BY <3>2 DEF SweepResolves
      <4>2. sweeper'.todo = sweeper.todo \ {id}
        BY <4>1 DEF TypeOK, Sweeper
      <4>3. \A i \in Ids \ {id} : inc'[i] = inc[i]
        BY <4>1 DEF TypeOK
      <4> QED BY <4>2, <4>3 DEF TimerInv
    <3>3. CASE SweepRemoves
      BY <3>3 DEF SweepRemoves, TimerInv, TypeOK, Sweeper
    <3>4. CASE SweepUpdates
      BY <3>4 DEF SweepUpdates, TimerInv, TypeOK, Sweeper, Asleep
    <3> QED BY <1>4, <3>1, <3>2, <3>3, <3>4 DEF CheckActiveWindow
  <2> QED BY <1>1, <2>1, <2>2 DEF TimerInv
<1>5. CASE Tick
  <2>1. ASSUME NEW i \in Ids, Armed(i)
        PROVE  /\ timer[i].pc = "waiting" /\ timer[i].left > 0
               /\ inc[i].age + timer[i].left <= GroupWait
    BY <1>5, <2>1 DEF Tick, Quiet, TimelySchedule, TimerInv
  <2>2. ASSUME NEW i \in Ids
        PROVE  timer'[i].pc = timer[i].pc /\ timer'[i].snap = timer[i].snap
    BY <1>5 DEF Tick, TypeOK, Timer
  <2>3. ASSUME NEW i \in Ids, Armed(i)
        PROVE  timer'[i].left = timer[i].left - 1 /\ inc'[i].age = inc[i].age + 1
    <3>1. inc[i].age \in Nat /\ timer[i].left \in Nat
      BY ConstantsAssumption DEF TypeOK, Incident, Timer, Horizon
    <3>2. inc[i].age < Horizon
      BY <2>1, <2>3, <3>1, ConstantsAssumption DEF Horizon
    <3>3. inc[i].state = "Detecting"
      BY <2>1, <2>3 DEF TimerInv
    <3> QED BY <1>5, <2>1, <2>3, <3>1, <3>2, <3>3 DEF Tick, Older, TypeOK, Incident, Timer
  <2>4. ASSUME NEW i \in Ids PROVE inc'[i].state = inc[i].state
    BY <1>5 DEF Tick, TypeOK, Incident
  <2>5. ASSUME NEW i \in Ids, Armed(i)
        PROVE  inc'[i].age + timer'[i].left <= GroupWait /\ inc'[i].age <= GroupWait
    <3>1. inc[i].age \in Nat /\ timer[i].left \in Nat
      BY ConstantsAssumption DEF TypeOK, Incident, Timer, Horizon
    <3> QED BY <2>1, <2>3, <2>5, <3>1, ConstantsAssumption
  <2> QED BY <1>5, <2>2, <2>4, <2>5 DEF Tick, TimerInv
<1>6. ASSUME NEW h \in Handlers, NEW k \in Keys, Receive(h, k) PROVE TimerInv'
  BY <1>6 DEF Receive, TimerInv
<1>7. CASE StopPipeline
  BY <1>7 DEF StopPipeline, TimerOff, TimerInv
<1>8. CASE StartPipeline \/ UNCHANGED vars
  BY <1>8 DEF StartPipeline, vars, TimerInv
<1> QED BY <1>2, <1>3, <1>4, <1>5, <1>6, <1>7, <1>8 DEF Next

\* Together: the invariant of the timely pipeline is inductive.
LEMMA TimelyStep ==
    ASSUME TimelySchedule, TimelyInv, [Next]_vars
    PROVE  TimelyInv'
<1>1. TypeOK' /\ PointersOK'
  BY TypeStep, PointersStep DEF TimelyInv
<1> QED
  BY <1>1, HandlerStep, OneMakerStep, TimerStep, SweeperStep, RowStep DEF TimelyInv

\* The invariant of the timely pipeline, for every GroupWait <= ActiveWindow.
THEOREM TimelyInvariant ==
    ASSUME TimelySchedule
    PROVE  Spec => []TimelyInv
<1>1. Init => TimelyInv
  <2> SUFFICES ASSUME Init PROVE TimelyInv
    OBVIOUS
  <2>1. TypeOK
    BY ConstantsAssumption, ConstantTypes DEF Init, TypeOK
  <2> QED
    BY <2>1 DEF Init, TimelyInv, PointersOK, HandlerInv, OneMaker, TimerInv,
                SweeperInv, RowInv, Making, Armed, Idle, TimerOff, Asleep, NoRow
<1>2. TimelyInv /\ [Next]_vars => TimelyInv'
  BY TimelyStep
<1> QED BY <1>1, <1>2, PTL DEF Spec

-----------------------------------------------------------------------------
(* What follows from the invariant. *)

\* In a timely pipeline the sweeper never resolves a Detecting incident whose
\* timer was started.
THEOREM ActiveComesFirst ==
    ASSUME TimelySchedule
    PROVE  Spec => ActiveBeforeResolved
<1>1. TimelyInv /\ [Next]_vars =>
        [\A id \in Ids : inc[id].state = "Detecting" /\ inc'[id].state = "Resolved"
                           => timer[id].pc = "off"]_vars
  <2> SUFFICES ASSUME TimelyInv, [Next]_vars, NEW id \in Ids,
                      inc[id].state = "Detecting", inc'[id].state = "Resolved"
               PROVE  timer[id].pc = "off"
    OBVIOUS
  <2>1. id \in sweeper.todo
    BY OnlySweepResolves DEF TimelyInv
  <2>2. ~Armed(id)
    BY <2>1 DEF TimelyInv, TimerInv
  <2>3. timer[id].pc # "update"
    BY ReachedGrows DEF TimelyInv, TimerInv, Lifecycle!Reached
  <2> QED BY <2>2, <2>3 DEF Armed, TimelyInv, TypeOK, Timer
<1> QED BY <1>1, TimelyInvariant, PTL DEF Spec, ActiveBeforeResolved

\* A step that leaves the states in memory alone and writes at most the row of
\* one incident, with a state it has reached, is a Store or a stutter.
LEMMA StoreStep ==
    ASSUME TypeOK, NEW i \in Ids, NEW snap \in Columns,
           snap.state \in Lifecycle!Reached(inc[i].state),
           row' = [row EXCEPT ![i] = snap] \/ row' = row,
           inc' = inc
    PROVE  Lifecycle!Store(i) \/ UNCHANGED Lifecycle!lvars
<1>1. CASE row' = row
  BY <1>1 DEF Lifecycle!lvars
<1>2. CASE row' = [row EXCEPT ![i] = snap]
  <2>1. [id \in Ids |-> row'[id].state]
          = [[id \in Ids |-> row[id].state] EXCEPT ![i] = snap.state]
    BY <1>2 DEF TypeOK
  <2> QED BY <2>1 DEF Lifecycle!Store
<1> QED BY <1>1, <1>2

\* A step that leaves the rows alone and changes the state of one incident to
\* the next of its life cycle is a step of the life cycle.
LEMMA MoveStep ==
    ASSUME TypeOK, NEW i \in Ids, NEW t,
           [id \in Ids |-> inc'[id].state]
              = [[id \in Ids |-> inc[id].state] EXCEPT ![i] = t],
           row' = row,
           \/ inc[i].state = "Free" /\ t = "Detecting"
           \/ inc[i].state = "Detecting" /\ t = "Active"
           \/ inc[i].state \in Open /\ t = "Resolved"
    PROVE  Lifecycle!Detect(i) \/ Lifecycle!Activate(i) \/ Lifecycle!Resolve(i)
  BY DEF Lifecycle!Detect, Lifecycle!Activate, Lifecycle!Resolve, Lifecycle!Open, Open

\* A step that changes neither a state in memory nor a row is a stutter.
LEMMA StutterStep ==
    ASSUME \A i \in Ids : inc'[i].state = inc[i].state, row' = row
    PROVE  UNCHANGED Lifecycle!lvars
  BY DEF Lifecycle!lvars

\* The timely pipeline implements IncidentLifecycle: in memory every incident
\* is detected, activated and resolved at most once and in that order, and the
\* table never shows a state its incident has not reached, with any number of
\* concurrent handlers, timers that race with the sweeper, database calls that
\* fail or are overtaken, and pipelines that are stopped.
THEOREM ImplementsLifecycle ==
    ASSUME TimelySchedule
    PROVE  Spec => LifecycleSpec
<1>1. Init => Lifecycle!Init
  BY DEF Init, Lifecycle!Init, Unused, NoRow
<1>2. TimelyInv /\ [Next]_vars => [Lifecycle!Next]_(Lifecycle!lvars)
  <2> SUFFICES ASSUME TimelyInv, [Next]_vars
               PROVE  Lifecycle!Next \/ UNCHANGED Lifecycle!lvars
    OBVIOUS
  <2> USE DEF TimelyInv
  <2>1. ASSUME NEW h \in Handlers, HandleAnomaly(h)
        PROVE  Lifecycle!Next \/ UNCHANGED Lifecycle!lvars
    <3>1. CASE FindNone(h)
      <4>1. PICK i \in Ids :
              /\ inc[i].state = "Free"
              /\ inc' = [inc EXCEPT ![i] = [key |-> handler[h].key, state |-> "Detecting",
                                            age |-> 0, count |-> 1]]
        BY <3>1 DEF FindNone
      <4>2. [id \in Ids |-> inc'[id].state]
              = [[id \in Ids |-> inc[id].state] EXCEPT ![i] = "Detecting"]
        BY <4>1 DEF TypeOK
      <4>3. row' = row
        BY <3>1 DEF FindNone
      <4> QED BY <4>1, <4>2, <4>3, MoveStep DEF Lifecycle!Next
    <3>2. CASE UpdateMerged(h) \/ Create(h)
      <4>1. handler[h].id \in Ids /\ handler[h].snap \in Columns
        BY <3>2 DEF UpdateMerged, Create, PointersOK, TypeOK, Call
      <4>2. handler[h].snap.state \in Lifecycle!Reached(inc[handler[h].id].state)
        BY <3>2 DEF UpdateMerged, Create, HandlerInv
      <4>3. /\ inc' = inc
            /\ row' = [row EXCEPT ![handler[h].id] = handler[h].snap] \/ row' = row
        BY <3>2 DEF UpdateMerged, Create, Update
      <4> QED BY <4>1, <4>2, <4>3, StoreStep DEF Lifecycle!Next
    <3>3. CASE Touch(h)
      BY <3>3, StutterStep DEF Touch, TypeOK, Incident
    <3>4. CASE Bump(h)
      BY <3>4, StutterStep DEF Bump, TypeOK, Incident
    <3>5. CASE FindOpen(h) \/ Publish(h) \/ CreateFails(h)
      BY <3>5, StutterStep DEF FindOpen, Publish, CreateFails
    <3> QED BY <2>1, <3>1, <3>2, <3>3, <3>4, <3>5 DEF HandleAnomaly
  <2>2. ASSUME NEW i \in Ids, GroupWaitTimer(i)
        PROVE  Lifecycle!Next \/ UNCHANGED Lifecycle!lvars
    <3>1. CASE TimerActivates(i)
      <4>1. [id \in Ids |-> inc'[id].state]
              = [[id \in Ids |-> inc[id].state] EXCEPT ![i] = "Active"]
        BY <3>1 DEF TimerActivates, TypeOK, Incident
      <4>2. row' = row /\ inc[i].state = "Detecting"
        BY <3>1 DEF TimerActivates, TimerInv
      <4> QED BY <4>1, <4>2, MoveStep DEF Lifecycle!Next
    <3>2. CASE TimerUpdates(i)
      <4>1. timer[i].snap \in Columns
        BY DEF TypeOK, Timer
      <4>2. timer[i].snap.state \in Lifecycle!Reached(inc[i].state)
        BY <3>2 DEF TimerUpdates, TimerInv
      <4>3. inc' = inc /\ (row' = [row EXCEPT ![i] = timer[i].snap] \/ row' = row)
        BY <3>2 DEF TimerUpdates, Update
      <4> QED BY <4>1, <4>2, <4>3, StoreStep DEF Lifecycle!Next
    <3>3. CASE TimerFires(i) \/ TimerUpserts(i)
      BY <3>3, StutterStep DEF TimerFires, TimerUpserts
    <3> QED BY <2>2, <3>1, <3>2, <3>3 DEF GroupWaitTimer
  <2>3. CASE CheckActiveWindow
    <3>1. CASE SweepResolves
      <4>1. PICK i \in sweeper.todo : inc' = [inc EXCEPT ![i].state = "Resolved"]
        BY <3>1 DEF SweepResolves
      <4>2. i \in Ids /\ inc[i].state \in Open
        BY DEF TypeOK, Sweeper, SweeperInv
      <4>3. [id \in Ids |-> inc'[id].state]
              = [[id \in Ids |-> inc[id].state] EXCEPT ![i] = "Resolved"]
        BY <4>1, <4>2 DEF TypeOK, Incident
      <4>4. row' = row
        BY <3>1 DEF SweepResolves
      <4> QED BY <4>2, <4>3, <4>4, MoveStep DEF Lifecycle!Next
    <3>2. CASE SweepUpdates
      <4>1. sweeper.id \in Ids /\ sweeper.snap \in Columns
        BY <3>2 DEF SweepUpdates, PointersOK, TypeOK, Sweeper
      <4>2. sweeper.snap.state \in Lifecycle!Reached(inc[sweeper.id].state)
        BY <3>2, ReachedGrows DEF SweepUpdates, SweeperInv, Stage
      <4>3. /\ inc' = inc
            /\ row' = [row EXCEPT ![sweeper.id] = sweeper.snap] \/ row' = row
        BY <3>2 DEF SweepUpdates, Update
      <4> QED BY <4>1, <4>2, <4>3, StoreStep DEF Lifecycle!Next
    <3>3. CASE Sweep \/ SweepRemoves
      BY <3>3, StutterStep DEF Sweep, SweepRemoves
    <3> QED BY <2>3, <3>1, <3>2, <3>3 DEF CheckActiveWindow
  <2>4. CASE Tick
    BY <2>4, StutterStep DEF Tick, TypeOK, Incident
  <2>5. CASE inc' = inc /\ row' = row
    BY <2>5, StutterStep
  <2> QED
    BY <2>1, <2>2, <2>3, <2>4, <2>5
       DEF Next, Receive, StopPipeline, StartPipeline, vars
<1> QED BY <1>1, <1>2, TimelyInvariant, PTL DEF Spec, LifecycleSpec, Lifecycle!Spec

-----------------------------------------------------------------------------
(* The index keeps open incidents.                                          *)

\* An Upsert of id changes the entry of another key only to evict it, and evicts
\* no open incident, even when the map then stays over its size.
LEMMA UpsertKeepsOpen ==
    ASSUME TypeOK, NEW id \in Ids, NEW idx \in Upsert(id),
           NEW k \in Keys, IsOpen(index[k]), idx[k] # index[k]
    PROVE  inc[id].key = k
<1> DEFINE new == [index EXCEPT ![inc[id].key] = id]
<1>1. ASSUME inc[id].key # k PROVE FALSE
  <2>1. new[k] = index[k]
    BY <1>1 DEF TypeOK
  <2>2. \A j \in Keys : j # k => [new EXCEPT ![j] = None][k] = new[k]
    BY DEF TypeOK
  <2>3. \/ idx = new
        \/ \E j \in Keys : ~IsOpen(new[j]) /\ idx = [new EXCEPT ![j] = None]
    BY DEF Upsert, EvictOldestResolved
  <2> HIDE DEF new
  <2>4. QED BY <2>1, <2>2, <2>3
<1>2. QED BY <1>1

\* Whatever the schedule and the size of the map, an open incident leaves the
\* index only by the sweeper's Remove of its key or for another incident with
\* its key.
THEOREM OpenStaysIndexed == Spec => OpenLeavesIndexOnlyByKey
<1>1. TypeOK /\ PointersOK /\ [Next]_vars =>
        [\A k \in Keys :
            IsOpen(index[k]) /\ index'[k] # index[k] /\ running' =>
                \/ sweeper.pc = "remove" /\ inc[sweeper.id].key = k
                \/ \E id \in Ids : Upserts(id) /\ inc[id].key = k]_vars
  <2> SUFFICES ASSUME TypeOK, PointersOK, [Next]_vars, NEW k \in Keys,
                      IsOpen(index[k]), index'[k] # index[k], running'
               PROVE  \/ sweeper.pc = "remove" /\ inc[sweeper.id].key = k
                      \/ \E id \in Ids : Upserts(id) /\ inc[id].key = k
    OBVIOUS
  <2>1. ASSUME NEW h \in Handlers, Publish(h)
        PROVE  \E id \in Ids : Upserts(id) /\ inc[id].key = k
    <3>1. handler[h].id \in Ids /\ index' \in Upsert(handler[h].id)
      BY <2>1 DEF Publish, PointersOK
    <3>2. handler[h].pc = "upsert" /\ handler'[h].pc = "create"
      BY <2>1 DEF Publish, TypeOK, Call
    <3>3. QED
      BY <3>1, <3>2, UpsertKeepsOpen DEF Upserts
  <2>2. ASSUME NEW id \in Ids, TimerUpserts(id)
        PROVE  Upserts(id) /\ inc[id].key = k
    <3>1. timer[id].pc = "upsert" /\ timer'[id].pc = "update" /\ index' \in Upsert(id)
      BY <2>2 DEF TimerUpserts, TypeOK, Timer
    <3>2. QED
      BY <3>1, UpsertKeepsOpen DEF Upserts
  <2>3. CASE Sweep
    BY <2>3 DEF Sweep, Swept, IsOpen, Open
  <2>4. CASE SweepRemoves
    BY <2>4 DEF SweepRemoves, TypeOK
  <2>5. CASE index' = index
    BY <2>5
  <2>6. CASE StopPipeline
    BY <2>6 DEF StopPipeline
  <2>7. QED
    BY <2>1, <2>2, <2>3, <2>4, <2>5, <2>6
       DEF Next, HandleAnomaly, GroupWaitTimer, CheckActiveWindow, Receive, FindOpen,
           FindNone, Touch, Bump, UpdateMerged, Create, CreateFails, TimerFires,
           TimerActivates, TimerUpdates, SweepResolves, SweepUpdates, Tick,
           StartPipeline, vars
<1>2. QED
  BY <1>1, TypeCorrect, PTL DEF Spec, OpenLeavesIndexOnlyByKey
-----------------------------------------------------------------------------
(* No anomaly is counted twice. *)

\* A step that stores nothing new and takes no anomaly keeps the account.
LEMMA CountKept ==
    ASSUME CountInv, TypeOK, Units' \subseteq Units, Pending' \subseteq Pending,
           left' = left
    PROVE  CountInv'
<1>1. /\ IsFiniteSet(Units') /\ Cardinality(Units') <= Cardinality(Units)
      /\ IsFiniteSet(Pending') /\ Cardinality(Pending') <= Cardinality(Pending)
  BY FS_Subset DEF CountInv
<1>2. /\ Cardinality(Units) \in Nat /\ Cardinality(Units') \in Nat
      /\ Cardinality(Pending) \in Nat /\ Cardinality(Pending') \in Nat
  BY <1>1, FS_CardinalityType DEF CountInv
<1> QED
  BY <1>1, <1>2, ConstantsAssumption DEF CountInv, TypeOK

\* A set grows by at most one with an element.
LEMMA OneMore ==
    ASSUME NEW S, IsFiniteSet(S), NEW x
    PROVE  IsFiniteSet(S \cup {x}) /\ Cardinality(S \cup {x}) <= Cardinality(S) + 1
<1>1. /\ IsFiniteSet(S \cup {x})
      /\ Cardinality(S \cup {x}) =
            IF x \in S THEN Cardinality(S) ELSE Cardinality(S) + 1
  BY FS_AddElement
<1>2. Cardinality(S) \in Nat
  BY FS_CardinalityType
<1> QED
  BY <1>1, <1>2

\* A step that stores one unit ends the work of a handler that had still to
\* count.
LEMMA CountMoved ==
    ASSUME CountInv, TypeOK, NEW u, NEW h \in Pending,
           Units' \subseteq Units \cup {u}, Pending' \subseteq Pending \ {h},
           left' = left
    PROVE  CountInv'
<1>1. /\ IsFiniteSet(Units \cup {u})
      /\ Cardinality(Units \cup {u}) <= Cardinality(Units) + 1
  BY OneMore DEF CountInv
<1>2. /\ IsFiniteSet(Pending \ {h})
      /\ Cardinality(Pending \ {h}) = Cardinality(Pending) - 1
  BY FS_RemoveElement DEF CountInv
<1>3. /\ IsFiniteSet(Units') /\ Cardinality(Units') <= Cardinality(Units \cup {u})
      /\ IsFiniteSet(Pending') /\ Cardinality(Pending') <= Cardinality(Pending \ {h})
  BY <1>1, <1>2, FS_Subset
<1>4. /\ Cardinality(Units) \in Nat /\ Cardinality(Units') \in Nat
      /\ Cardinality(Pending) \in Nat /\ Cardinality(Pending') \in Nat
      /\ Cardinality(Units \cup {u}) \in Nat /\ Cardinality(Pending \ {h}) \in Nat
  BY <1>1, <1>2, <1>3, FS_CardinalityType DEF CountInv
<1> QED
  BY <1>1, <1>2, <1>3, <1>4, ConstantsAssumption DEF CountInv, TypeOK

\* A step that takes an anomaly makes one handler pending.
LEMMA CountTaken ==
    ASSUME CountInv, TypeOK, NEW h,
           Units' \subseteq Units, Pending' \subseteq Pending \cup {h},
           left > 0, left' = left - 1
    PROVE  CountInv'
<1>1. /\ IsFiniteSet(Pending \cup {h})
      /\ Cardinality(Pending \cup {h}) <= Cardinality(Pending) + 1
  BY OneMore DEF CountInv
<1>2. /\ IsFiniteSet(Units') /\ Cardinality(Units') <= Cardinality(Units)
      /\ IsFiniteSet(Pending') /\ Cardinality(Pending') <= Cardinality(Pending \cup {h})
  BY <1>1, FS_Subset DEF CountInv
<1>3. /\ Cardinality(Units) \in Nat /\ Cardinality(Units') \in Nat
      /\ Cardinality(Pending) \in Nat /\ Cardinality(Pending') \in Nat
      /\ Cardinality(Pending \cup {h}) \in Nat
  BY <1>1, <1>2, FS_CardinalityType DEF CountInv
<1> QED
  BY <1>1, <1>2, <1>3, ConstantsAssumption DEF CountInv, TypeOK

\* Where a unit of the next state comes from: the stored count of an incident,
\* or a count that a handler has loaded.
LEMMA UnitOrigin ==
    ASSUME TypeOK', PointersOK', NEW u \in Units'
    PROVE  \E id \in Ids, n \in Nat \ {0} :
              /\ u = <<id, n>>
              /\ \/ n <= inc'[id].count
                 \/ \E h \in Handlers : /\ handler'[h].pc = "bump"
                                        /\ handler'[h].id = id
                                        /\ n <= handler'[h].snap.count
<1>1. CASE u \in Counted'
  <2>1. PICK id \in Ids : u \in {id} \X (1..inc'[id].count)
    BY <1>1 DEF Counted
  <2>2. inc'[id].count \in Nat
    BY DEF TypeOK, Incident
  <2>3. PICK n \in 1..inc'[id].count : u = <<id, n>>
    BY <2>1
  <2> QED
    BY <2>2, <2>3
<1>2. CASE u \notin Counted'
  <2>1. PICK h \in Handlers :
          handler'[h].pc = "bump" /\ u \in {handler'[h].id} \X (1..handler'[h].snap.count)
    BY <1>2 DEF Units
  <2>2. handler'[h].snap.count \in Nat /\ handler'[h].id \in Ids
    BY <2>1 DEF TypeOK, PointersOK, Call, Columns
  <2>3. PICK n \in 1..handler'[h].snap.count : u = <<handler'[h].id, n>>
    BY <2>1
  <2> QED
    BY <2>1, <2>2, <2>3
<1> QED
  BY <1>1, <1>2

\* What is a unit.
LEMMA StoredIsUnit ==
    ASSUME TypeOK, NEW id \in Ids, NEW n \in Nat \ {0}, n <= inc[id].count
    PROVE  <<id, n>> \in Units
<1>1. n \in 1..inc[id].count
  BY DEF TypeOK, Incident
<1>2. <<id, n>> \in {id} \X (1..inc[id].count)
  BY <1>1
<1> QED
  BY <1>2 DEF Units, Counted

LEMMA LoadedIsUnit ==
    ASSUME TypeOK, NEW h \in Handlers, handler[h].pc = "bump",
           NEW n \in Nat \ {0}, n <= handler[h].snap.count
    PROVE  <<handler[h].id, n>> \in Units
<1>1. n \in 1..handler[h].snap.count
  BY DEF TypeOK, Call, Columns
<1>2. <<handler[h].id, n>> \in {handler[h].id} \X (1..handler[h].snap.count)
  BY <1>1
<1> QED
  BY <1>2 DEF Units

\* When no count of an incident changes and no handler loads one, no unit is
\* new.
LEMMA UnitsKept ==
    ASSUME TypeOK, TypeOK', PointersOK',
           \A id \in Ids : inc'[id].count = inc[id].count,
           \A h \in Handlers :
              handler'[h].pc = "bump" => handler'[h] = handler[h]
    PROVE  Units' \subseteq Units
<1> SUFFICES ASSUME NEW u \in Units' PROVE u \in Units
  OBVIOUS
<1>1. PICK id \in Ids, n \in Nat \ {0} :
         /\ u = <<id, n>>
         /\ \/ n <= inc'[id].count
            \/ \E h \in Handlers : /\ handler'[h].pc = "bump"
                                   /\ handler'[h].id = id
                                   /\ n <= handler'[h].snap.count
  BY UnitOrigin
<1>2. CASE n <= inc'[id].count
  BY <1>1, <1>2, StoredIsUnit
<1>3. CASE \E h \in Handlers : /\ handler'[h].pc = "bump"
                               /\ handler'[h].id = id
                               /\ n <= handler'[h].snap.count
  BY <1>1, <1>3, LoadedIsUnit
<1> QED
  BY <1>1, <1>2, <1>3

LEMMA CountStep ==
    ASSUME TypeOK, TypeOK', PointersOK, PointersOK', CountInv, [Next]_vars
    PROVE  CountInv'
<1>1. ASSUME NEW h \in Handlers, NEW k \in Keys, Receive(h, k) PROVE CountInv'
  <2>1. /\ \A g \in Handlers : g # h => handler'[g] = handler[g]
        /\ handler'[h].pc = "find"
        /\ inc' = inc /\ left > 0 /\ left' = left - 1
    BY <1>1 DEF Receive, TypeOK, Call, Idle
  <2>2. Units' \subseteq Units
    BY <2>1, UnitsKept
  <2>3. Pending' \subseteq Pending \cup {h}
    BY <2>1 DEF Pending
  <2> QED
    BY <2>1, <2>2, <2>3, CountTaken
<1>2. ASSUME NEW h \in Handlers, FindNone(h) PROVE CountInv'
  <2>1. PICK i \in Ids :
          /\ inc[i].state = "Free"
          /\ inc' = [inc EXCEPT ![i] = [key |-> handler[h].key, state |-> "Detecting",
                                        age |-> 0, count |-> 1]]
          /\ handler' = [handler EXCEPT ![h].pc = "upsert", ![h].id = i]
    BY <1>2 DEF FindNone
  <2>2. /\ \A g \in Handlers : g # h => handler'[g] = handler[g]
        /\ handler[h].pc = "find" /\ handler'[h].pc = "upsert"
        /\ inc'[i].count = 1
        /\ \A j \in Ids \ {i} : inc'[j] = inc[j]
        /\ left' = left
    BY <1>2, <2>1 DEF FindNone, TypeOK, Call
  <2>3. ASSUME NEW u \in Units' PROVE u \in Units \cup {<<i, 1>>}
    <3>1. PICK id \in Ids, n \in Nat \ {0} :
             /\ u = <<id, n>>
             /\ \/ n <= inc'[id].count
                \/ \E g \in Handlers : /\ handler'[g].pc = "bump"
                                       /\ handler'[g].id = id
                                       /\ n <= handler'[g].snap.count
      BY UnitOrigin
    <3>2. CASE n <= inc'[id].count
      <4>1. CASE id = i
        <5>1. n = 1
          BY <2>2, <3>2, <4>1
        <5> QED
          BY <3>1, <4>1, <5>1
      <4>2. CASE id # i
        BY <2>2, <3>1, <3>2, <4>2, StoredIsUnit
      <4> QED
        BY <4>1, <4>2
    <3>3. CASE \E g \in Handlers : /\ handler'[g].pc = "bump"
                                   /\ handler'[g].id = id
                                   /\ n <= handler'[g].snap.count
      BY <2>2, <3>1, <3>3, LoadedIsUnit
    <3> QED
      BY <3>1, <3>2, <3>3
  <2>4. h \in Pending /\ Pending' \subseteq Pending \ {h}
    BY <2>2 DEF Pending
  <2> QED
    BY <2>2, <2>3, <2>4, CountMoved
<1>3. ASSUME NEW h \in Handlers, Touch(h) PROVE CountInv'
  <2> DEFINE i == handler[h].id
  <2>1. /\ \A g \in Handlers : g # h => handler'[g] = handler[g]
        /\ handler[h].pc = "touch"
        /\ handler'[h].id = i /\ handler'[h].snap.count = inc[i].count
        /\ i \in Ids
        /\ \A j \in Ids : inc'[j].count = inc[j].count
        /\ left' = left
    BY <1>3 DEF Touch, TypeOK, Call, Incident, PointersOK, Snapshot
  <2>2. ASSUME NEW u \in Units' PROVE u \in Units
    <3>1. PICK id \in Ids, n \in Nat \ {0} :
             /\ u = <<id, n>>
             /\ \/ n <= inc'[id].count
                \/ \E g \in Handlers : /\ handler'[g].pc = "bump"
                                       /\ handler'[g].id = id
                                       /\ n <= handler'[g].snap.count
      BY UnitOrigin
    <3>2. CASE n <= inc'[id].count
      BY <2>1, <3>1, <3>2, StoredIsUnit
    <3>3. ASSUME NEW g \in Handlers, handler'[g].pc = "bump", handler'[g].id = id,
                 n <= handler'[g].snap.count
          PROVE  u \in Units
      <4>1. CASE g = h
        BY <2>1, <3>1, <3>3, <4>1, StoredIsUnit
      <4>2. CASE g # h
        BY <2>1, <3>1, <3>3, <4>2, LoadedIsUnit
      <4> QED
        BY <4>1, <4>2
    <3> QED
      BY <3>1, <3>2, <3>3
  <2>3. Pending' \subseteq Pending
    BY <2>1 DEF Pending
  <2> QED
    BY <2>1, <2>2, <2>3, CountKept
<1>4. ASSUME NEW h \in Handlers, Bump(h) PROVE CountInv'
  <2> DEFINE i == handler[h].id
             m == handler[h].snap.count
  <2>1. /\ \A g \in Handlers : g # h => handler'[g] = handler[g]
        /\ handler[h].pc = "bump" /\ handler'[h].pc = "update"
        /\ i \in Ids /\ m \in Nat
        /\ inc'[i].count = m + 1
        /\ \A j \in Ids \ {i} : inc'[j] = inc[j]
        /\ left' = left
    BY <1>4 DEF Bump, TypeOK, Call, Columns, Incident, PointersOK
  <2>2. ASSUME NEW u \in Units' PROVE u \in Units \cup {<<i, m + 1>>}
    <3>1. PICK id \in Ids, n \in Nat \ {0} :
             /\ u = <<id, n>>
             /\ \/ n <= inc'[id].count
                \/ \E g \in Handlers : /\ handler'[g].pc = "bump"
                                       /\ handler'[g].id = id
                                       /\ n <= handler'[g].snap.count
      BY UnitOrigin
    <3>2. CASE n <= inc'[id].count /\ id = i
      <4>1. n <= m \/ n = m + 1
        BY <2>1, <3>2
      <4> QED
        BY <2>1, <3>1, <3>2, <4>1, LoadedIsUnit
    <3>3. CASE n <= inc'[id].count /\ id # i
      BY <2>1, <3>1, <3>3, StoredIsUnit
    <3>4. CASE \E g \in Handlers : /\ handler'[g].pc = "bump"
                                   /\ handler'[g].id = id
                                   /\ n <= handler'[g].snap.count
      BY <2>1, <3>1, <3>4, LoadedIsUnit
    <3> QED
      BY <3>1, <3>2, <3>3, <3>4
  <2>3. h \in Pending /\ Pending' \subseteq Pending \ {h}
    BY <2>1 DEF Pending
  <2> QED
    BY <2>1, <2>2, <2>3, CountMoved
<1>5. ASSUME \A id \in Ids : inc'[id].count = inc[id].count,
             \A h \in Handlers : \/ handler'[h] = handler[h]
                                 \/ /\ handler'[h].pc # "bump"
                                    /\ h \in Pending' => h \in Pending,
             left' = left
      PROVE  CountInv'
  <2>1. Units' \subseteq Units
    BY <1>5, UnitsKept
  <2>2. Pending' \subseteq Pending
    BY <1>5 DEF Pending
  <2> QED
    BY <1>5, <2>1, <2>2, CountKept
<1>6. ASSUME NEW h \in Handlers, HandleAnomaly(h) PROVE CountInv'
  <2>1. CASE FindOpen(h)
    <3>1. /\ \A g \in Handlers : g # h => handler'[g] = handler[g]
          /\ handler[h].pc = "find" /\ handler'[h].pc = "touch"
          /\ inc' = inc /\ left' = left
      BY <2>1 DEF FindOpen, TypeOK, Call
    <3> QED
      BY <1>5, <3>1 DEF Pending
  <2>2. CASE UpdateMerged(h) \/ Publish(h) \/ Create(h) \/ CreateFails(h)
    <3>1. /\ \A g \in Handlers : g # h => handler'[g] = handler[g]
          /\ handler'[h].pc \in {"idle", "create"}
          /\ inc' = inc /\ left' = left
      BY <2>2 DEF UpdateMerged, Publish, Create, CreateFails, Idle, TypeOK, Call
    <3> QED
      BY <1>5, <3>1 DEF Pending
  <2> QED
    BY <1>2, <1>3, <1>4, <1>6, <2>1, <2>2 DEF HandleAnomaly
<1>7. ASSUME NEW id \in Ids, GroupWaitTimer(id) PROVE CountInv'
  <2>1. /\ \A j \in Ids : inc'[j].count = inc[j].count
        /\ handler' = handler /\ left' = left
    BY <1>7 DEF GroupWaitTimer, TimerFires, TimerActivates, TimerUpserts, TimerUpdates,
                TypeOK, Incident
  <2> QED
    BY <1>5, <2>1
<1>8. CASE CheckActiveWindow
  <2>1. handler' = handler /\ left' = left
    BY <1>8 DEF CheckActiveWindow, Sweep, SweepResolves, SweepRemoves, SweepUpdates
  <2>2. CASE SweepResolves
    <3>1. PICK i \in sweeper.todo : inc' = [inc EXCEPT ![i].state = "Resolved"]
      BY <2>2 DEF SweepResolves
    <3>2. \A j \in Ids : inc'[j].count = inc[j].count
      BY <3>1 DEF TypeOK, Incident
    <3> QED
      BY <1>5, <2>1, <3>2
  <2>3. CASE inc' = inc
    BY <1>5, <2>1, <2>3
  <2> QED
    BY <1>8, <2>2, <2>3 DEF CheckActiveWindow, Sweep, SweepRemoves, SweepUpdates
<1>9. CASE Tick
  <2>1. /\ \A j \in Ids : inc'[j].count = inc[j].count
        /\ handler' = handler /\ left' = left
    BY <1>9 DEF Tick, TypeOK, Incident
  <2> QED
    BY <1>5, <2>1
<1>10. CASE StopPipeline
  <2>1. /\ \A h \in Handlers : handler'[h].pc = "idle"
        /\ inc' = inc /\ left' = left
    BY <1>10 DEF StopPipeline, Idle
  <2> QED
    BY <1>5, <2>1 DEF Pending
<1>11. CASE StartPipeline
  BY <1>5, <1>11 DEF StartPipeline
<1>12. CASE UNCHANGED vars
  BY <1>5, <1>12 DEF vars
<1> QED
  BY <1>1, <1>6, <1>7, <1>8, <1>9, <1>10, <1>11, <1>12 DEF Next

\* The counts of all incidents never exceed the anomalies received, with or
\* without timely goroutines, whatever handlers, timers and sweeper interleave.
THEOREM CountedOnce == Spec => []NothingCountedTwice
<1>1. Init => CountInv
  <2> SUFFICES ASSUME Init PROVE CountInv
    OBVIOUS
  <2>1. Units = {}
    BY DEF Init, Units, Counted, Unused, Idle
  <2>2. Pending = {}
    BY DEF Init, Pending, Idle
  <2> QED
    BY <2>1, <2>2, FS_EmptySet, ConstantsAssumption DEF Init, CountInv
<1>2. TypeOK /\ PointersOK /\ CountInv /\ (TypeOK /\ PointersOK)' /\ [Next]_vars
      => CountInv'
  BY CountStep
<1>3. TypeOK /\ CountInv => NothingCountedTwice
  <2> SUFFICES ASSUME TypeOK, CountInv PROVE NothingCountedTwice
    OBVIOUS
  <2>1. IsFiniteSet(Counted) /\ Cardinality(Counted) <= Cardinality(Units)
    BY FS_Subset DEF CountInv, Units
  <2>2. /\ Cardinality(Units) \in Nat /\ Cardinality(Pending) \in Nat
        /\ Cardinality(Counted) \in Nat
    BY <2>1, FS_CardinalityType DEF CountInv
  <2> QED
    BY <2>1, <2>2, ConstantsAssumption DEF CountInv, NothingCountedTwice, TypeOK
<1> QED
  BY <1>1, <1>2, <1>3, TypeCorrect, PTL DEF Spec
-----------------------------------------------------------------------------
(* One open incident per key, as long as nobody meets.                       *)

\* Who works on an incident was sent there for its key, and the index holds an
\* incident under its key.
KeysOK ==
    /\ \A h \in Handlers : handler[h].pc # "idle" => handler[h].key \in Keys
    /\ \A h \in Handlers : handler[h].pc \notin {"idle", "find"} =>
                              inc[handler[h].id].key = handler[h].key
    /\ \A id \in Ids : inc[id].state = "Free" <=> inc[id].key = None
    /\ \A k \in Keys : index[k] # None => inc[index[k]].key = k

\* The index holds every open incident, but for the one that a handler is about to
\* publish.
Published(id) == index[inc[id].key] = id
Unpublished(id) == \E h \in Handlers : /\ handler[h].pc = "upsert" /\ handler[h].id = id
                                       /\ ~IsOpen(index[inc[id].key])
OpenIndexed == \A id \in Ids : IsOpen(id) => Published(id) \/ Unpublished(id)

\* What the sweeper has resolved and is about to remove was the only one.
SweptAlone ==
    sweeper.pc = "remove" =>
        \A id \in Ids : IsOpen(id) => inc[id].key # inc[sweeper.id].key

OneInv == KeysOK /\ OpenIndexed /\ SweptAlone

LEMMA OneFollows == TypeOK /\ OneInv /\ Apart => OneOpenPerKey
<1> SUFFICES ASSUME TypeOK, OneInv, Apart, NEW i \in Ids, NEW j \in Ids,
                    IsOpen(i), IsOpen(j), inc[i].key = inc[j].key
             PROVE  i = j
  BY DEF OneOpenPerKey
<1>1. (Published(i) \/ Unpublished(i)) /\ (Published(j) \/ Unpublished(j))
  BY DEF OneInv, OpenIndexed
<1>2. CASE Published(i) \/ Published(j)
  BY <1>1, <1>2 DEF Published, Unpublished
<1>3. CASE Unpublished(i) /\ Unpublished(j)
  <2>1. PICK g \in Handlers : handler[g].pc = "upsert" /\ handler[g].id = i
    BY <1>3 DEF Unpublished
  <2>2. PICK h \in Handlers : handler[h].pc = "upsert" /\ handler[h].id = j
    BY <1>3 DEF Unpublished
  <2>3. handler[g].key = handler[h].key
    BY <2>1, <2>2 DEF OneInv, KeysOK
  <2>4. g = h
    BY <2>1, <2>2, <2>3 DEF Apart
  <2>5. QED
    BY <2>1, <2>2, <2>4
<1>4. QED
  BY <1>1, <1>2, <1>3

\* Upsert puts the incident under its key and no other anywhere; what is open stays.
LEMMA UpsertPuts ==
    ASSUME TypeOK, NEW id \in Ids, NEW idx \in Upsert(id), NEW k \in Keys
    PROVE  /\ idx[k] \in {index[k], None} \/ (inc[id].key = k /\ idx[k] = id)
           /\ inc[id].key = k /\ IsOpen(id) => idx[k] = id
           /\ inc[id].key # k /\ IsOpen(index[k]) => idx[k] = index[k]
<1> DEFINE new == [index EXCEPT ![inc[id].key] = id]
<1>1. new[k] = IF inc[id].key = k THEN id ELSE index[k]
  BY DEF TypeOK
<1>2. \A j \in Keys : [new EXCEPT ![j] = None][k] \in {new[k], None}
  BY DEF TypeOK
<1>3. \A j \in Keys : j # k => [new EXCEPT ![j] = None][k] = new[k]
  BY DEF TypeOK
<1>4. \/ idx = new
      \/ \E j \in Keys : ~IsOpen(new[j]) /\ idx = [new EXCEPT ![j] = None]
  BY DEF Upsert, EvictOldestResolved
<1> HIDE DEF new
<1>5. QED
  BY <1>1, <1>2, <1>3, <1>4

LEMMA KeysStep ==
    ASSUME TimelyInv, KeysOK, [Next]_vars
    PROVE  KeysOK'
<1> TypeOK /\ PointersOK
  BY DEF TimelyInv
<1>1. ASSUME NEW h \in Handlers, NEW k \in Keys, Receive(h, k) PROVE KeysOK'
  BY <1>1 DEF TypeOK, KeysOK, Receive, Idle
<1>2. ASSUME NEW h \in Handlers, HandleAnomaly(h) PROVE KeysOK'
  <2>1. CASE FindOpen(h)
    <3>1. handler[h].key \in Keys
      BY <2>1 DEF KeysOK, FindOpen
    <3>2. inc[FindActive(handler[h].key)].key = handler[h].key
      BY <2>1, <3>1 DEF KeysOK, FindOpen, FindActive
    <3>3. \A g \in Handlers : /\ handler'[g].key = handler[g].key
                              /\ g # h => handler'[g] = handler[g]
      BY <2>1 DEF FindOpen, TypeOK
    <3>4. handler'[h].id = FindActive(handler[h].key) /\ handler'[h].pc = "touch"
      BY <2>1 DEF FindOpen, TypeOK, Call
    <3>5. UNCHANGED <<inc, index>>
      BY <2>1 DEF FindOpen
    <3>6. QED
      BY <3>1, <3>2, <3>3, <3>4, <3>5 DEF KeysOK
  <2>2. CASE FindNone(h)
    <3>1. PICK id \in Ids :
             /\ inc[id].state = "Free"
             /\ inc' = [inc EXCEPT ![id] = [key |-> handler[h].key, state |-> "Detecting",
                                            age |-> 0, count |-> 1]]
             /\ handler' = [handler EXCEPT ![h].pc = "upsert", ![h].id = id]
      BY <2>2 DEF FindNone
    <3>2. handler[h].key \in Keys /\ inc[id].key = None
      BY <2>2, <3>1 DEF KeysOK, FindNone
    <3>3. \A g \in Handlers : /\ handler'[g].key = handler[g].key
                              /\ g # h => handler'[g] = handler[g]
      BY <3>1 DEF TypeOK
    <3>4. handler'[h].id = id /\ handler'[h].pc = "upsert"
      BY <3>1 DEF TypeOK, Call
    <3>5. /\ inc'[id].key = handler[h].key /\ inc'[id].state = "Detecting"
          /\ \A j \in Ids : j # id => inc'[j] = inc[j]
      BY <3>1 DEF TypeOK
    <3>6. /\ \A g \in Handlers : handler[g].pc \notin {"idle", "find"} =>
                                    handler[g].id \in Ids \ {id}
          /\ \A k \in Keys : index[k] # None => index[k] \in Ids \ {id}
      BY <3>2, ConstantsAssumption DEF KeysOK, TypeOK, PointersOK
    <3>7. index' = index
      BY <2>2 DEF FindNone
    <3>8. \A j \in Ids : inc'[j].state = "Free" <=> inc'[j].key = None
      BY <3>2, <3>5, ConstantsAssumption DEF KeysOK
    <3>9. \A g \in Handlers : /\ handler'[g].pc # "idle" => handler'[g].key \in Keys
                              /\ handler'[g].pc \notin {"idle", "find"} =>
                                    inc'[handler'[g].id].key = handler'[g].key
      <4> TAKE g \in Handlers
      <4>1. CASE g = h
        BY <3>2, <3>3, <3>4, <3>5, <4>1
      <4>2. CASE g # h
        <5>1. handler'[g] = handler[g]
          BY <3>3, <4>2
        <5>2. handler[g].pc \notin {"idle", "find"} =>
                 inc'[handler[g].id] = inc[handler[g].id]
          BY <3>5, <3>6
        <5>3. QED
          BY <5>1, <5>2 DEF KeysOK
      <4>3. QED
        BY <4>1, <4>2
    <3>10. QED
      BY <3>5, <3>6, <3>7, <3>8, <3>9 DEF KeysOK
  <2>3. CASE Publish(h)
    <3>1. \A k \in Keys : index'[k] # None => inc[index'[k]].key = k
      BY <2>3, UpsertPuts DEF Publish, PointersOK, KeysOK
    <3>2. \A g \in Handlers : /\ handler'[g].key = handler[g].key /\ handler'[g].id = handler[g].id
                              /\ g # h => handler'[g].pc = handler[g].pc
      BY <2>3 DEF Publish, TypeOK, Call
    <3>3. handler[h].pc = "upsert" /\ inc' = inc
      BY <2>3 DEF Publish
    <3>4. QED
      BY <3>1, <3>2, <3>3 DEF KeysOK
  <2>4. CASE Touch(h) \/ Bump(h) \/ UpdateMerged(h) \/ Create(h) \/ CreateFails(h)
    <3>1. \A id \in Ids : inc'[id].key = inc[id].key /\ inc'[id].state = inc[id].state
      BY <2>4 DEF Touch, Bump, UpdateMerged, Create, CreateFails, TypeOK, Incident
    <3>2. \A g \in Handlers :
             \/ handler'[g].pc = "idle"
             \/ /\ handler'[g].key = handler[g].key /\ handler'[g].id = handler[g].id
                /\ handler[g].pc \notin {"idle", "find"} \/ handler'[g] = handler[g]
      BY <2>4 DEF Touch, Bump, UpdateMerged, Create, CreateFails, TypeOK, Call, Idle
    <3>3. index' = index
      BY <2>4 DEF Touch, Bump, UpdateMerged, Create, CreateFails
    <3>4. QED
      BY <3>1, <3>2, <3>3 DEF KeysOK, PointersOK, TypeOK
  <2>5. QED
    BY <1>2, <2>1, <2>2, <2>3, <2>4 DEF HandleAnomaly
<1>3. ASSUME NEW id \in Ids, GroupWaitTimer(id) PROVE KeysOK'
  <2>1. \A j \in Ids : inc'[j].key = inc[j].key /\ (inc'[j].state = "Free" <=> inc[j].state = "Free")
    BY <1>3 DEF GroupWaitTimer, TimerFires, TimerActivates, TimerUpserts, TimerUpdates,
                TypeOK, Incident, TimelyInv, TimerInv
  <2>2. \A k \in Keys : index'[k] # None => inc[index'[k]].key = k
    BY <1>3, UpsertPuts DEF GroupWaitTimer, TimerFires, TimerActivates, TimerUpserts,
                            TimerUpdates, KeysOK
  <2>3. index' \in [Keys -> Ids \cup {None}]
    BY <1>3, UpsertType DEF GroupWaitTimer, TimerFires, TimerActivates, TimerUpserts,
                            TimerUpdates, TypeOK
  <2>4. handler' = handler
    BY <1>3 DEF GroupWaitTimer, TimerFires, TimerActivates, TimerUpserts, TimerUpdates
  <2>5. QED
    BY <2>1, <2>2, <2>3, <2>4 DEF KeysOK, PointersOK
<1>4. CASE Sweep \/ SweepRemoves \/ SweepUpdates
  <2>1. inc' = inc /\ handler' = handler
    BY <1>4 DEF Sweep, SweepRemoves, SweepUpdates
  <2>2. CASE Sweep
    <3>1. \A k \in Keys : index'[k] \in {index[k], None}
      BY <2>2 DEF Sweep
    <3>2. QED
      BY <2>1, <3>1 DEF KeysOK
  <2>3. CASE SweepRemoves
    <3>1. \A k \in Keys : index'[k] \in {index[k], None}
      BY <2>3 DEF SweepRemoves, TypeOK
    <3>2. QED
      BY <2>1, <3>1 DEF KeysOK
  <2>4. CASE SweepUpdates
    BY <2>1, <2>4 DEF SweepUpdates, KeysOK
  <2>5. QED
    BY <1>4, <2>2, <2>3, <2>4
<1>5. CASE SweepResolves
  <2>1. \A j \in Ids : inc'[j].key = inc[j].key /\ (inc'[j].state = "Free" <=> inc[j].state = "Free")
    <3>1. PICK id \in sweeper.todo : inc' = [inc EXCEPT ![id].state = "Resolved"]
      BY <1>5 DEF SweepResolves
    <3>2. inc[id].state \in Open /\ id \in Ids
      BY DEF TimelyInv, SweeperInv, TypeOK, Sweeper
    <3>3. QED
      BY <3>1, <3>2 DEF TypeOK, Incident, Open
  <2>2. handler' = handler /\ index' = index
    BY <1>5 DEF SweepResolves
  <2>3. QED
    BY <2>1, <2>2 DEF KeysOK, PointersOK, TypeOK
<1>6. CASE Tick
  <2>1. \A j \in Ids : inc'[j].key = inc[j].key /\ (inc'[j].state = "Free" <=> inc[j].state = "Free")
    BY <1>6 DEF Tick, TypeOK, Incident
  <2>2. handler' = handler /\ index' = index
    BY <1>6 DEF Tick
  <2>3. QED
    BY <2>1, <2>2 DEF KeysOK, PointersOK, TypeOK
<1>7. CASE StopPipeline
  BY <1>7 DEF StopPipeline, KeysOK, Idle
<1>8. CASE StartPipeline \/ UNCHANGED vars
  BY <1>8 DEF StartPipeline, vars, KeysOK
<1>9. QED
  BY <1>1, <1>2, <1>3, <1>4, <1>5, <1>6, <1>7, <1>8 DEF Next, CheckActiveWindow

\* Only FindNone opens an incident, and keys stay.
LEMMA NothingOpens ==
    ASSUME TimelyInv, [Next]_vars, \A h \in Handlers : ~FindNone(h), NEW id \in Ids
    PROVE  inc'[id].key = inc[id].key /\ (inc'[id].state \in Open => inc[id].state \in Open)
<1> TypeOK
  BY DEF TimelyInv
<1>1. ASSUME NEW h \in Handlers, Touch(h) \/ Bump(h)
      PROVE  inc'[id].key = inc[id].key /\ inc'[id].state = inc[id].state
  <2>1. CASE Touch(h)
    BY <2>1 DEF Touch, TypeOK, Incident
  <2>2. CASE Bump(h)
    BY <2>2 DEF Bump, TypeOK, Incident
  <2>3. QED
    BY <1>1, <2>1, <2>2
<1>2. ASSUME NEW h \in Handlers, HandleAnomaly(h), ~Touch(h), ~Bump(h)
      PROVE  inc' = inc
  BY <1>2 DEF HandleAnomaly, FindOpen, UpdateMerged, Publish, Create, CreateFails
<1>3. ASSUME NEW i \in Ids, TimerActivates(i)
      PROVE  inc'[id].key = inc[id].key /\ (inc'[id].state \in Open => inc[id].state \in Open)
  <2>1. inc[i].state \in Open
    BY <1>3 DEF TimerActivates, TimelyInv, TimerInv, Open
  <2>2. QED
    BY <1>3, <2>1 DEF TimerActivates, TypeOK, Incident
<1>4. ASSUME NEW i \in Ids, GroupWaitTimer(i), ~TimerActivates(i)
      PROVE  inc' = inc
  BY <1>4 DEF GroupWaitTimer, TimerFires, TimerUpserts, TimerUpdates
<1>5. CASE SweepResolves
  BY <1>5 DEF SweepResolves, TypeOK, Incident, Open
<1>6. CASE CheckActiveWindow /\ ~SweepResolves
  BY <1>6 DEF CheckActiveWindow, Sweep, SweepRemoves, SweepUpdates
<1>7. CASE Tick
  BY <1>7 DEF Tick, TypeOK, Incident
<1>8. ASSUME NEW h \in Handlers, NEW k \in Keys, Receive(h, k) PROVE inc' = inc
  BY <1>8 DEF Receive
<1>9. CASE StopPipeline \/ StartPipeline \/ UNCHANGED vars
  BY <1>9 DEF StopPipeline, StartPipeline, vars
<1>10. QED
  BY <1>1, <1>2, <1>3, <1>4, <1>5, <1>6, <1>7, <1>8, <1>9 DEF Next

\* A step that opens no incident, drops none that is open from the index and interrupts no
\* handler that is about to publish one.
LEMMA StaysIndexed ==
    ASSUME TypeOK, OpenIndexed,
           \A id \in Ids : inc'[id].key = inc[id].key
                              /\ (inc'[id].state \in Open => inc[id].state \in Open),
           \A id \in Ids : IsOpen(id) => inc[id].key \in Keys,
           \A k \in Keys : /\ index'[k] \in {index[k], None}
                           /\ IsOpen(index[k]) => index'[k] = index[k],
           \A h \in Handlers : handler[h].pc = "upsert" =>
                                  handler'[h].pc = "upsert" /\ handler'[h].id = handler[h].id
    PROVE  OpenIndexed'
<1> SUFFICES ASSUME NEW id \in Ids, IsOpen(id)' PROVE Published(id)' \/ Unpublished(id)'
  BY DEF OpenIndexed
<1>1. IsOpen(id) /\ inc'[id].key = inc[id].key /\ inc[id].key \in Keys
  BY DEF IsOpen
<1>2. CASE Published(id)
  BY <1>1, <1>2 DEF Published
<1>3. CASE Unpublished(id)
  <2>1. ~IsOpen(index[inc[id].key])' 
    BY <1>1, <1>3 DEF Unpublished, IsOpen, TypeOK
  <2>2. QED
    BY <1>1, <1>3, <2>1 DEF Unpublished
<1>4. QED
  BY <1>1, <1>2, <1>3 DEF OpenIndexed

\* An Upsert of an open incident publishes it, and displaces no other open one.
LEMMA UpsertIndexes ==
    ASSUME TypeOK, OneInv, Apart, NEW id \in Ids, IsOpen(id), index' \in Upsert(id), inc' = inc,
           \A h \in Handlers : handler[h].id # id => handler'[h] = handler[h]
    PROVE  OpenIndexed'
<1> SUFFICES ASSUME NEW j \in Ids, IsOpen(j) PROVE Published(j)' \/ Unpublished(j)'
  BY DEF OpenIndexed, IsOpen
<1>1. inc[j].key \in Keys
  BY DEF IsOpen, OneInv, KeysOK, TypeOK, Incident, Open
<1>2. CASE j = id
  BY <1>1, <1>2, UpsertPuts DEF Published
<1>3. CASE j # id
  <2>1. inc[j].key # inc[id].key
    BY <1>3, OneFollows DEF OneOpenPerKey
  <2>2. /\ index'[inc[j].key] \in {index[inc[j].key], None}
        /\ IsOpen(index[inc[j].key]) => index'[inc[j].key] = index[inc[j].key]
    BY <1>1, <2>1, UpsertPuts
  <2>3. CASE Published(j)
    BY <2>2, <2>3 DEF Published
  <2>4. CASE Unpublished(j)
    <3>1. ~IsOpen(index'[inc[j].key])
      BY <2>2, <2>4 DEF Unpublished, IsOpen
    <3>2. PICK h \in Handlers : handler[h].pc = "upsert" /\ handler[h].id = j
      BY <2>4 DEF Unpublished
    <3>3. handler'[h] = handler[h]
      BY <1>3, <3>2
    <3>4. QED
      BY <3>1, <3>2, <3>3 DEF Unpublished, IsOpen
  <2>5. QED
    BY <2>3, <2>4 DEF OneInv, OpenIndexed
<1>4. QED
  BY <1>2, <1>3

\* The handlers that are about to publish stay where they are, but for one.
LEMMA StillPublishing ==
    ASSUME TypeOK, [Next]_vars, running', \A h \in Handlers : ~Publish(h),
           NEW g \in Handlers, handler[g].pc = "upsert"
    PROVE  handler'[g].pc = "upsert" /\ handler'[g].id = handler[g].id
<1>1. ASSUME NEW h \in Handlers, HandleAnomaly(h)
      PROVE  handler'[g] = handler[g]
  BY <1>1 DEF HandleAnomaly, FindOpen, FindNone, Touch, Bump, UpdateMerged, Create,
              CreateFails, TypeOK
<1>2. ASSUME NEW h \in Handlers, NEW k \in Keys, Receive(h, k) PROVE handler'[g] = handler[g]
  BY <1>2 DEF Receive, TypeOK
<1>3. CASE (\E id \in Ids : GroupWaitTimer(id)) \/ CheckActiveWindow \/ Tick
  <2>1. handler' = handler
    BY <1>3, Zenon DEF GroupWaitTimer, TimerFires, TimerActivates, TimerUpserts, TimerUpdates,
                       CheckActiveWindow, Sweep, SweepResolves, SweepRemoves, SweepUpdates, Tick
  <2>2. QED
    BY <2>1
<1>4. CASE StopPipeline \/ StartPipeline \/ UNCHANGED vars
  BY <1>4 DEF StopPipeline, StartPipeline, vars
<1>5. QED
  BY <1>1, <1>2, <1>3, <1>4 DEF Next

\* What only Upsert, the sweeper and a stop do to the index.
LEMMA IndexKept ==
    ASSUME TimelyInv, OneInv, [Next]_vars, running',
           \A h \in Handlers : ~Publish(h), \A id \in Ids : ~TimerUpserts(id), NEW k \in Keys
    PROVE  /\ index'[k] \in {index[k], None}
           /\ IsOpen(index[k]) => index'[k] = index[k]
<1> TypeOK
  BY DEF TimelyInv
<1>1. CASE Sweep
  BY <1>1 DEF Sweep, Swept, IsOpen, Open
<1>2. CASE SweepRemoves
  <2>1. IsOpen(index[k]) => inc[sweeper.id].key # k
    BY <1>2 DEF SweepRemoves, OneInv, SweptAlone, KeysOK, TypeOK, IsOpen
  <2>2. index' = [index EXCEPT ![inc[sweeper.id].key] = None]
    BY <1>2 DEF SweepRemoves
  <2>3. QED
    BY <2>1, <2>2 DEF TypeOK
<1>3. CASE \E h \in Handlers : HandleAnomaly(h) \/ \E key \in Keys : Receive(h, key)
  <2>1. index' = index
    BY <1>3, Zenon DEF HandleAnomaly, FindOpen, FindNone, Touch, Bump, UpdateMerged, Create,
                       CreateFails, Receive
  <2>2. QED
    BY <2>1
<1>4. CASE (\E id \in Ids : GroupWaitTimer(id)) \/ SweepResolves \/ SweepUpdates \/ Tick
  <2>1. index' = index
    BY <1>4, Zenon DEF GroupWaitTimer, TimerFires, TimerActivates, TimerUpdates,
                       SweepResolves, SweepUpdates, Tick
  <2>2. QED
    BY <2>1
<1>5. CASE StopPipeline \/ StartPipeline \/ UNCHANGED vars
  BY <1>5 DEF StopPipeline, StartPipeline, vars
<1>6. QED
  BY <1>1, <1>2, <1>3, <1>4, <1>5 DEF Next, CheckActiveWindow

\* FindNone makes an incident that no other uses, for a key that has no open one.
LEMMA FindNoneIndexes ==
    ASSUME TimelyInv, OneInv, NEW h \in Handlers, FindNone(h)
    PROVE  OpenIndexed'
<1> TypeOK
  BY DEF TimelyInv
<1>1. PICK new \in Ids :
         /\ inc[new].state = "Free"
         /\ inc' = [inc EXCEPT ![new] = [key |-> handler[h].key, state |-> "Detecting",
                                         age |-> 0, count |-> 1]]
         /\ handler' = [handler EXCEPT ![h].pc = "upsert", ![h].id = new]
  BY DEF FindNone
<1>2. /\ inc[new].key = None /\ handler[h].key \in Keys /\ handler[h].pc = "find"
      /\ ~IsOpen(index[handler[h].key]) /\ index' = index
  BY <1>1, ConstantsAssumption DEF OneInv, KeysOK, FindNone, FindActive, IsOpen, TypeOK
<1>3. /\ inc'[new].key = handler[h].key
      /\ \A j \in Ids : j # new => inc'[j] = inc[j]
  BY <1>1 DEF TypeOK
<1>4. \A k \in Keys : index[k] # new
  BY <1>2, ConstantsAssumption DEF OneInv, KeysOK
<1>5. /\ handler'[h].pc = "upsert" /\ handler'[h].id = new
      /\ \A g \in Handlers : g # h => handler'[g] = handler[g]
  BY <1>1 DEF TypeOK, Call
<1>6. \A k \in Keys : ~IsOpen(index[k]) =>
                       ~(index'[k] # None /\ inc'[index'[k]].state \in Open)
  BY <1>2, <1>3, <1>4 DEF IsOpen, TypeOK
<1> SUFFICES ASSUME NEW j \in Ids, IsOpen(j)' PROVE Published(j)' \/ Unpublished(j)'
  BY DEF OpenIndexed
<1>7. CASE j = new
  BY <1>2, <1>3, <1>5, <1>6, <1>7 DEF Unpublished, IsOpen
<1>8. CASE j # new
  <2>1. IsOpen(j) /\ inc'[j] = inc[j] /\ inc[j].key \in Keys
    BY <1>3, <1>8 DEF IsOpen, OneInv, KeysOK, TypeOK, Incident, Open
  <2>2. CASE Published(j)
    BY <1>2, <2>1, <2>2 DEF Published
  <2>3. CASE Unpublished(j)
    <3>1. PICK g \in Handlers : handler[g].pc = "upsert" /\ handler[g].id = j
      BY <2>3 DEF Unpublished
    <3>2. handler'[g] = handler[g]
      BY <1>2, <1>5, <3>1
    <3>3. QED
      BY <1>6, <2>1, <2>3, <3>1, <3>2 DEF Unpublished, IsOpen
  <2>4. QED
    BY <2>1, <2>2, <2>3 DEF OneInv, OpenIndexed
<1>9. QED
  BY <1>7, <1>8

LEMMA OpenIndexedStep ==
    ASSUME TimelyInv, OneInv, Apart, running, running', [Next]_vars
    PROVE  OpenIndexed'
<1> TypeOK
  BY DEF TimelyInv
<1>1. CASE \E h \in Handlers : FindNone(h)
  BY <1>1, FindNoneIndexes
<1>2. ASSUME NEW h \in Handlers, Publish(h) PROVE OpenIndexed'
  <2> DEFINE id == handler[h].id
  <2>1. id \in Ids /\ IsOpen(id)
    BY <1>2, ConstantsAssumption DEF Publish, TimelyInv, PointersOK, HandlerInv, Making,
                                     IsOpen, Open
  <2>2. index' \in Upsert(id) /\ inc' = inc
    BY <1>2 DEF Publish
  <2>3. \A g \in Handlers : handler[g].id # id => handler'[g] = handler[g]
    BY <1>2 DEF Publish, TypeOK
  <2> HIDE DEF id
  <2>4. QED
    BY <2>1, <2>2, <2>3, UpsertIndexes
<1>3. ASSUME NEW id \in Ids, TimerUpserts(id) PROVE OpenIndexed'
  <2>1. IsOpen(id)
    BY <1>3, ConstantsAssumption DEF TimerUpserts, TimelyInv, TimerInv, IsOpen, Open
  <2>2. index' \in Upsert(id) /\ inc' = inc /\ handler' = handler
    BY <1>3 DEF TimerUpserts
  <2>3. QED
    BY <2>1, <2>2, UpsertIndexes
<1>4. CASE /\ \A h \in Handlers : ~FindNone(h) /\ ~Publish(h)
           /\ \A id \in Ids : ~TimerUpserts(id)
  <2>1. \A id \in Ids : IsOpen(id) => inc[id].key \in Keys
    BY DEF IsOpen, OneInv, KeysOK, TypeOK, Incident, Open
  <2>2. \A id \in Ids : inc'[id].key = inc[id].key
                           /\ (inc'[id].state \in Open => inc[id].state \in Open)
    BY <1>4, NothingOpens
  <2>3. \A k \in Keys : /\ index'[k] \in {index[k], None}
                        /\ IsOpen(index[k]) => index'[k] = index[k]
    BY <1>4, IndexKept
  <2>4. \A h \in Handlers : handler[h].pc = "upsert" =>
                               handler'[h].pc = "upsert" /\ handler'[h].id = handler[h].id
    BY <1>4, StillPublishing
  <2>5. QED
    BY <2>1, <2>2, <2>3, <2>4, StaysIndexed DEF OneInv
<1>5. QED
  BY <1>1, <1>2, <1>3, <1>4

LEMMA SweptAloneStep ==
    ASSUME TimelyInv, OneInv, Apart, running, running', [Next]_vars
    PROVE  SweptAlone'
<1> TypeOK /\ SweptAlone
  BY DEF TimelyInv, OneInv
<1>1. ASSUME NEW h \in Handlers, FindNone(h) PROVE SweptAlone'
  <2>1. PICK new \in Ids :
           /\ inc[new].state = "Free"
           /\ inc' = [inc EXCEPT ![new] = [key |-> handler[h].key, state |-> "Detecting",
                                           age |-> 0, count |-> 1]]
    BY <1>1 DEF FindNone
  <2>2. sweeper' = sweeper /\ handler[h].pc = "find"
    BY <1>1 DEF FindNone
  <2>3. inc'[new].key = handler[h].key /\ \A j \in Ids : j # new => inc'[j] = inc[j]
    BY <2>1 DEF TypeOK
  <2>4. sweeper.pc = "remove" => /\ sweeper.id \in Ids \ {new}
                                 /\ handler[h].key # inc[sweeper.id].key
    BY <2>1, <2>2 DEF TimelyInv, PointersOK, SweeperInv, Apart
  <2>5. QED
    BY <2>2, <2>3, <2>4 DEF SweptAlone, IsOpen
<1>2. CASE SweepResolves
  <2>1. PICK id \in sweeper.todo :
           /\ inc' = [inc EXCEPT ![id].state = "Resolved"]
           /\ sweeper' = [sweeper EXCEPT !.pc = "remove", !.id = id,
                                         !.todo = sweeper.todo \ {id}]
    BY <1>2, Zenon DEF SweepResolves
  <2>2. id \in Ids /\ IsOpen(id) /\ sweeper'.id = id
    BY <2>1, ConstantsAssumption DEF TimelyInv, SweeperInv, TypeOK, Sweeper, IsOpen
  <2>3. \A j \in Ids : j # id /\ IsOpen(j) => inc[j].key # inc[id].key
    BY <2>2, OneFollows DEF OneOpenPerKey
  <2>4. /\ inc'[id].state = "Resolved"
        /\ \A j \in Ids : inc'[j].key = inc[j].key /\ (j # id => inc'[j] = inc[j])
    BY <2>1, <2>2 DEF TypeOK, Incident
  <2>5. ASSUME NEW j \in Ids, inc'[j].state \in Open PROVE inc'[j].key # inc'[id].key
    <3>1. j # id
      BY <2>4, <2>5 DEF Open
    <3>2. IsOpen(j)
      BY <2>4, <2>5, <3>1, ConstantsAssumption DEF IsOpen
    <3>3. QED
      BY <2>2, <2>3, <2>4, <3>1, <3>2
  <2>6. QED
    BY <2>2, <2>5 DEF SweptAlone, IsOpen
<1>3. CASE ~SweepResolves /\ \A h \in Handlers : ~FindNone(h)
  <2>1. \A id \in Ids : inc'[id].key = inc[id].key
                           /\ (inc'[id].state \in Open => inc[id].state \in Open)
    BY <1>3, NothingOpens
  <2>2. sweeper'.pc = "remove" => sweeper.pc = "remove" /\ sweeper'.id = sweeper.id
    <3>1. CASE \E h \in Handlers : HandleAnomaly(h) \/ \E key \in Keys : Receive(h, key)
      <4>1. sweeper' = sweeper
        BY <3>1, Zenon DEF HandleAnomaly, FindOpen, FindNone, Touch, Bump, UpdateMerged,
                           Publish, Create, CreateFails, Receive
      <4>2. QED
        BY <4>1
    <3>2. CASE (\E id \in Ids : GroupWaitTimer(id)) \/ Tick \/ UNCHANGED vars
      <4>1. sweeper' = sweeper
        BY <3>2, Zenon DEF GroupWaitTimer, TimerFires, TimerActivates, TimerUpserts,
                           TimerUpdates, Tick, vars
      <4>2. QED
        BY <4>1
    <3>3. CASE Sweep
      BY <3>3 DEF Sweep, Asleep
    <3>4. CASE SweepRemoves
      BY <3>4 DEF SweepRemoves, TypeOK, Sweeper
    <3>5. CASE SweepUpdates
      BY <3>5 DEF SweepUpdates, TypeOK, Sweeper, Asleep
    <3>6. CASE StopPipeline \/ StartPipeline
      BY <3>6 DEF StopPipeline, StartPipeline
    <3>7. QED
      BY <1>3, <3>1, <3>2, <3>3, <3>4, <3>5, <3>6 DEF Next, CheckActiveWindow
  <2>3. sweeper'.pc = "remove" => sweeper.id \in Ids
    BY <2>2 DEF TimelyInv, PointersOK
  <2>4. QED
    BY <2>1, <2>2, <2>3 DEF SweptAlone, IsOpen
<1>4. QED
  BY <1>1, <1>2, <1>3

\* While a pipeline of timely goroutines runs and no two of them meet over a key
\* (Apart), no key has two open incidents: the overlaps that manager.go leaves
\* unlocked and the stop of the pipeline are all that can break OneOpenPerKey.
THEOREM OneOpen ==
    ASSUME TimelySchedule
    PROVE  Spec /\ [](running /\ Apart) => []OneOpenPerKey
<1>1. Init => OneInv
  BY ConstantsAssumption DEF Init, OneInv, KeysOK, OpenIndexed, SweptAlone, IsOpen, Open,
                             Unused, Idle, Asleep
<1>2. TimelyInv /\ OneInv /\ running /\ Apart /\ running' /\ [Next]_vars => OneInv'
  BY KeysStep, OpenIndexedStep, SweptAloneStep DEF OneInv
<1>3. TimelyInv /\ OneInv /\ Apart => OneOpenPerKey
  BY OneFollows DEF TimelyInv
<1>4. QED
  BY <1>1, <1>2, <1>3, TimelyInvariant, PTL DEF Spec
-----------------------------------------------------------------------------
(* What is resolved was quiet, unless a merge meets the sweeper.             *)

\* What the sweeper has still to resolve is as old as when Sweep returned it.
ExpiredInv == \A id \in sweeper.todo : inc[id].state # "Free" /\ inc[id].age > ActiveWindow

LEMMA ExpiredStep ==
    ASSUME TypeOK, PointersOK, ExpiredInv, SweepUndisturbed, [Next]_vars
    PROVE  ExpiredInv'
<1>1. sweeper.todo \subseteq Ids
  BY DEF TypeOK, Sweeper
<1>2. ASSUME NEW h \in Handlers, HandleAnomaly(h) PROVE ExpiredInv'
  <2>1. sweeper' = sweeper
    BY <1>2, Zenon DEF HandleAnomaly, FindOpen, FindNone, Touch, Bump, UpdateMerged,
                       Publish, Create, CreateFails
  <2>2. CASE Touch(h)
    <3>1. handler[h].id \notin sweeper.todo /\ inc' = [inc EXCEPT ![handler[h].id].age = 0]
      BY <2>2 DEF Touch, SweepUndisturbed
    <3>2. \A id \in sweeper.todo : inc'[id] = inc[id]
      BY <1>1, <3>1 DEF TypeOK
    <3>3. QED
      BY <2>1, <3>2 DEF ExpiredInv
  <2>3. CASE Bump(h)
    <3>1. \A id \in Ids : inc'[id].state = inc[id].state /\ inc'[id].age = inc[id].age
      BY <2>3 DEF Bump, TypeOK, Incident
    <3>2. QED
      BY <1>1, <2>1, <3>1 DEF ExpiredInv
  <2>4. CASE FindNone(h)
    <3>1. PICK new \in Ids :
             /\ inc[new].state = "Free"
             /\ inc' = [inc EXCEPT ![new] = [key |-> handler[h].key, state |-> "Detecting",
                                             age |-> 0, count |-> 1]]
      BY <2>4 DEF FindNone
    <3>2. \A id \in sweeper.todo : inc'[id] = inc[id]
      BY <1>1, <3>1 DEF ExpiredInv, TypeOK
    <3>3. QED
      BY <2>1, <3>2 DEF ExpiredInv
  <2>5. CASE FindOpen(h) \/ UpdateMerged(h) \/ Publish(h) \/ Create(h) \/ CreateFails(h)
    <3>1. inc' = inc
      BY <2>5, Zenon DEF FindOpen, UpdateMerged, Publish, Create, CreateFails
    <3>2. QED
      BY <2>1, <3>1 DEF ExpiredInv
  <2>6. QED
    BY <1>2, <2>2, <2>3, <2>4, <2>5 DEF HandleAnomaly
<1>3. ASSUME NEW h \in Handlers, NEW k \in Keys, Receive(h, k) PROVE ExpiredInv'
  BY <1>3 DEF Receive, ExpiredInv
<1>4. ASSUME NEW i \in Ids, GroupWaitTimer(i) PROVE ExpiredInv'
  <2>1. sweeper' = sweeper
    BY <1>4, Zenon DEF GroupWaitTimer, TimerFires, TimerActivates, TimerUpserts, TimerUpdates
  <2>2. CASE TimerActivates(i)
    <3>1. \A id \in Ids : /\ inc'[id].age = inc[id].age
                          /\ inc'[id].state \in {inc[id].state, "Active"}
      BY <2>2 DEF TimerActivates, TypeOK, Incident
    <3>2. QED
      BY <1>1, <2>1, <3>1 DEF ExpiredInv
  <2>3. CASE ~TimerActivates(i)
    <3>1. inc' = inc
      BY <1>4, <2>3, Zenon DEF GroupWaitTimer, TimerFires, TimerUpserts, TimerUpdates
    <3>2. QED
      BY <2>1, <3>1 DEF ExpiredInv
  <2>4. QED
    BY <2>2, <2>3
<1>5. CASE Sweep
  BY <1>5 DEF Sweep, Expired, ExpiredInv, Asleep, Open
<1>6. CASE SweepResolves
  <2>1. PICK i \in sweeper.todo :
           /\ inc' = [inc EXCEPT ![i].state = "Resolved"]
           /\ sweeper' = [sweeper EXCEPT !.pc = "remove", !.id = i,
                                         !.todo = sweeper.todo \ {i}]
    BY <1>6, Zenon DEF SweepResolves
  <2>2. sweeper'.todo \subseteq sweeper.todo
    BY <2>1 DEF TypeOK, Sweeper
  <2>3. \A id \in Ids : /\ inc'[id].age = inc[id].age
                        /\ inc'[id].state \in {inc[id].state, "Resolved"}
    BY <2>1 DEF TypeOK, Incident
  <2>4. QED
    BY <1>1, <2>2, <2>3 DEF ExpiredInv
<1>7. CASE SweepRemoves
  BY <1>7 DEF SweepRemoves, ExpiredInv, TypeOK, Sweeper
<1>8. CASE SweepUpdates
  BY <1>8 DEF SweepUpdates, ExpiredInv, TypeOK, Sweeper, Asleep
<1>9. CASE Tick
  <2>1. sweeper' = sweeper
    BY <1>9 DEF Tick
  <2>2. \A id \in Ids : inc[id].state # "Free" =>
           inc'[id].state = inc[id].state /\ inc'[id].age = Older(inc[id].age)
    BY <1>9 DEF Tick, TypeOK, Incident
  <2>3. \A age \in Nat : age > ActiveWindow => Older(age) > ActiveWindow
    BY ConstantsAssumption DEF Older, Horizon
  <2>4. \A id \in Ids : inc[id].age \in Nat
    BY DEF TypeOK, Incident
  <2>5. QED
    BY <1>1, <2>1, <2>2, <2>3, <2>4 DEF ExpiredInv
<1>10. CASE StopPipeline \/ StartPipeline \/ UNCHANGED vars
  BY <1>10 DEF StopPipeline, StartPipeline, vars, ExpiredInv, Asleep
<1>11. QED
  BY <1>2, <1>3, <1>4, <1>5, <1>6, <1>7, <1>8, <1>9, <1>10 DEF Next, CheckActiveWindow

\* As long as no anomaly is merged into an incident that Sweep has returned, an
\* incident is resolved only when it was quiet for ActiveWindow; goroutines may be of
\* any speed and every call may fail.  The gap between Sweep and the assignment of
\* checkActiveWindow is all that breaks ResolvedOnlyWhenQuiet.
THEOREM QuietIfUndisturbed == Spec /\ []SweepUndisturbed => ResolvedOnlyWhenQuiet
<1>1. Init => ExpiredInv
  BY DEF Init, ExpiredInv, Asleep
<1>2. TypeOK /\ PointersOK /\ ExpiredInv /\ SweepUndisturbed /\ [Next]_vars => ExpiredInv'
  BY ExpiredStep
<1>3. TypeOK /\ PointersOK /\ ExpiredInv /\ [Next]_vars =>
        [\A id \in Ids : inc[id].state # "Resolved" /\ inc'[id].state = "Resolved"
                           => inc[id].age > ActiveWindow]_vars
  BY OnlySweepResolves, Zenon DEF ExpiredInv
<1>4. QED
  BY <1>1, <1>2, <1>3, TypeCorrect, PTL DEF Spec, ResolvedOnlyWhenQuiet
=============================================================================
