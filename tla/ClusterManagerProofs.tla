------------------------- MODULE ClusterManagerProofs -------------------------
(***************************************************************************)
(* Proofs about ClusterManager: no watcher is lost and a stopped cluster   *)
(* is silent, for any clusters, requests, watchers and informers.          *)
(***************************************************************************)
EXTENDS ClusterManager, TLAPS

Steps == {"idle", "insert", "read", "save", "check", "start", "sync", "reread", "rewrite",
          "stop", "shut", "delete", "next", "each"}

Ops == [kind : Kinds \cup {"none", "reload", "stopall"}, pc : Steps,
        cluster : Clusters \cup {None}, cl : Row,
        conn : {"unknown", "connected", "failed"},
        watcher : Watchers \cup {None}, todo : SUBSET Clusters]

\* The steps that run with m.mu held.
Locked == {"sync", "reread", "rewrite", "shut", "each"}

\* Which request is where, and whose: only Main reloads and stops all.
OpOK(o, p) ==
    /\ o = Main => p.kind \in {"none", "reload", "stopall"}
    /\ o # Main => p.kind \notin {"reload", "stopall"}
    /\ p.kind = "stopall" => p.pc \in {"each", "shut"}
    /\ p.pc = "each" => p.kind = "stopall"
    /\ p.pc = "shut" => p.kind \in {"deactivate", "delete", "stopall"} /\ p.watcher \in Watchers
    /\ p.pc = "stop" => p.kind \in {"deactivate", "delete"}
    /\ p.pc = "check" => p.kind \in {"activate", "deactivate", "delete"}
    /\ p.pc = "read" => p.kind \in {"update", "test", "activate", "deactivate"}
    /\ p.pc \notin {"idle", "next", "each"} /\ p.kind # "stopall" => p.cluster \in Clusters

OpsOK ==
    /\ op \in [Procs -> Ops]
    /\ \A o \in Procs : OpOK(o, op[o])

RestOK ==
    /\ row \in [Clusters -> Row]
    /\ mode \in {"boot", "serving", "down"}
    /\ left \in 0..MaxRequests /\ crashes \in 0..MaxCrashes

TablesOK ==
    /\ pipelines \in [Clusters -> Watchers \cup {None}]
    /\ watch \in [Watchers -> [cluster : Clusters \cup {None},
                               phase : {"off", "syncing", "live", "cancelled"}]]
    /\ call \in [Watchers -> [Listeners -> {"idle", "beat", "work"}]]

\* The lock has one holder, who is at a step that holds it.
LockInv ==
    /\ lock \in Procs \cup {None}
    /\ \A o \in Procs : op[o].pc \in Locked => lock = o
    /\ lock # None => op[lock].pc \in Locked

\* A watcher that is off runs no callback.
QuietInv == \A w \in Watchers : watch[w].phase = "off" => call[w] = Silent

\* A watcher is being started by the holder of the lock, or is the one of its cluster.
StartInv ==
    /\ \A o \in Procs : op[o].pc = "sync" =>
          /\ op[o].watcher \in Watchers
          /\ watch[op[o].watcher].phase = "syncing"
          /\ watch[op[o].watcher].cluster = op[o].cluster
          /\ pipelines[op[o].cluster] = None
    /\ \A w \in Watchers : watch[w].phase = "syncing" =>
          lock # None /\ op[lock].pc = "sync" /\ op[lock].watcher = w
    /\ \A w \in Watchers : watch[w].phase = "live" =>
          watch[w].cluster \in Clusters /\ pipelines[watch[w].cluster] = w

\* StopAll has before it the watchers that are live, and behind it those that are
\* off, but for the one it waits for.
Going(c) ==
    /\ lock = Main /\ op[Main].kind = "stopall" /\ c \notin op[Main].todo
    /\ \/ watch[pipelines[c]].phase = "off"
       \/ op[Main].pc = "shut" /\ op[Main].watcher = pipelines[c]

Stopping(c) ==
    /\ lock # None /\ op[lock].pc = "shut" /\ op[lock].kind \in {"deactivate", "delete"}
    /\ op[lock].cluster = c /\ op[lock].watcher = pipelines[c]

Live(c) == watch[pipelines[c]].cluster = c /\ watch[pipelines[c]].phase = "live"

StopInv ==
    /\ \A o \in Procs : op[o].pc = "shut" /\ op[o].kind # "stopall" =>
          pipelines[op[o].cluster] = op[o].watcher
    /\ op[Main].kind = "stopall" =>
          /\ \A w \in Watchers : watch[w].phase = "live" => watch[w].cluster \in op[Main].todo
          /\ \A c \in op[Main].todo : pipelines[c] # None
    /\ \A c \in Clusters : pipelines[c] # None => Live(c) \/ Stopping(c) \/ Going(c)

ClusterInv == RestOK /\ OpsOK /\ TablesOK /\ LockInv /\ QuietInv /\ StartInv /\ StopInv

LEMMA TypeFollows == ClusterInv => TypeOK
  BY DEF ClusterInv, RestOK, OpsOK, Ops, Steps, TablesOK, LockInv, TypeOK

LEMMA OrphanFollows == ClusterInv => NoOrphan
<1> SUFFICES ASSUME ClusterInv PROVE NoOrphan
  OBVIOUS
<1>1. \A w \in Watchers : watch[w].phase = "syncing" =>
         /\ lock # None
         /\ op[lock].pc = "sync" /\ op[lock].watcher = w
         /\ pipelines[watch[w].cluster] = None
  BY DEF ClusterInv, StartInv, LockInv
<1>2. \A w \in Watchers : watch[w].phase = "live" => pipelines[watch[w].cluster] = w
  BY DEF ClusterInv, StartInv
<1>3. ASSUME NEW c \in Clusters, pipelines[c] # None
      PROVE  \/ watch[pipelines[c]] = [cluster |-> c, phase |-> "live"]
             \/ lock # None /\ op[lock].kind \in {"deactivate", "delete", "stopall"}
  <2>1. CASE Live(c)
    <3>1. pipelines[c] \in Watchers
      BY <1>3 DEF ClusterInv, TablesOK
    <3>2. QED
      BY <2>1, <3>1 DEF Live, ClusterInv, TablesOK
  <2>2. CASE Stopping(c)
    BY <2>2 DEF Stopping
  <2>3. CASE Going(c)
    BY <2>3, ConstantsAssumption DEF Going
  <2>4. QED
    BY <1>3, <2>1, <2>2, <2>3 DEF ClusterInv, StopInv
<1>4. QED
  BY <1>1, <1>2, <1>3 DEF NoOrphan

LEMMA IdleOK == Idle \in Ops /\ \A o : OpOK(o, Idle)
  BY DEF Idle, Ops, Steps, OpOK, NewRow, Row, Kinds

LEMMA InitClusters == Init => ClusterInv
<1> SUFFICES ASSUME Init PROVE ClusterInv
  OBVIOUS
<1>1. NewRow \in Row /\ [NewRow EXCEPT !.status = "active"] \in Row
  BY DEF NewRow, Row
<1>2. RestOK
  BY <1>1, ConstantsAssumption DEF Init, RestOK
<1>3. OpsOK
  BY IdleOK DEF Init, OpsOK
<1>4. TablesOK /\ QuietInv
  BY DEF Init, TablesOK, QuietInv, Off, Silent
<1>5. LockInv /\ StartInv /\ StopInv
  BY DEF Init, LockInv, Locked, StartInv, StopInv, Idle, Off, Procs
<1>6. QED
  BY <1>2, <1>3, <1>4, <1>5 DEF ClusterInv

-----------------------------------------------------------------------------
(* Steps without the lock. *)

\* A request that goes from one step without the lock to another.
LEMMA OpAlone ==
    ASSUME ClusterInv, NEW o \in Procs, NEW new \in Ops, OpOK(o, new),
           op' = [op EXCEPT ![o] = new],
           op[o].pc \notin Locked, new.pc \notin Locked,
           UNCHANGED <<pipelines, lock, watch, call>>, RestOK'
    PROVE  ClusterInv'
<1>1. op'[o] = new /\ \A p \in Procs : p # o => op'[p] = op[p]
  BY DEF ClusterInv, OpsOK
<1>2. OpsOK' /\ TablesOK' /\ QuietInv'
  BY <1>1 DEF ClusterInv, OpsOK, TablesOK, QuietInv
<1>3. LockInv' /\ lock # o
  BY <1>1, ConstantsAssumption DEF ClusterInv, LockInv, Procs
<1>4. StartInv'
  BY <1>1, <1>3 DEF ClusterInv, StartInv, LockInv, Locked
<1>5. Main \in Procs
  BY DEF Procs
<1>6. op[o].kind # "stopall" /\ new.kind # "stopall"
  BY DEF ClusterInv, OpsOK, OpOK, Locked
<1>7. StopInv'
  <2>1. \A p \in Procs : op'[p].pc = "shut" => op'[p] = op[p]
    BY <1>1 DEF Locked
  <2>2. op'[Main].kind = "stopall" => op'[Main] = op[Main]
    BY <1>1, <1>5, <1>6
  <2>3. ASSUME NEW c \in Clusters, pipelines'[c] # None
        PROVE  Live(c)' \/ Stopping(c)' \/ Going(c)'
    <3>1. CASE Live(c)
      BY <3>1 DEF Live
    <3>2. CASE Stopping(c)
      BY <1>1, <1>3, <3>2 DEF Stopping, ClusterInv, LockInv
    <3>3. CASE Going(c)
      BY <1>1, <1>3, <1>5, <3>3 DEF Going
    <3>4. QED
      BY <2>3, <3>1, <3>2, <3>3 DEF ClusterInv, StopInv
  <2>4. QED
    BY <2>1, <2>2, <2>3 DEF ClusterInv, StopInv
<1>8. QED
  BY <1>2, <1>3, <1>4, <1>7 DEF ClusterInv

\* What changes of a request when it goes on.
LEMMA Goes ==
    ASSUME NEW p \in Ops, NEW pc \in Steps
    PROVE  /\ [p EXCEPT !.pc = pc] \in Ops
           /\ [p EXCEPT !.pc = pc].pc = pc
           /\ [p EXCEPT !.pc = pc].kind = p.kind
           /\ [p EXCEPT !.pc = pc].cluster = p.cluster
           /\ [p EXCEPT !.pc = pc].watcher = p.watcher
           /\ [p EXCEPT !.pc = pc].todo = p.todo
  BY DEF Ops, Steps

LEMMA RequestStep ==
    ASSUME ClusterInv, NEW o \in Requests, NEW k \in Kinds, NEW c \in Clusters, Request(o, k, c)
    PROVE  ClusterInv'
<1> DEFINE pc == CASE k = "create" -> "insert" [] k = "delete" -> "check" [] OTHER -> "read"
           new == [Idle EXCEPT !.kind = k, !.cluster = c, !.pc = pc]
<1>1. /\ op[o] = Idle /\ op' = [op EXCEPT ![o] = new]
      /\ UNCHANGED <<row, pipelines, lock, watch, call, mode, crashes>>
      /\ left > 0 /\ left' = left - 1
  BY DEF Request
<1>2. /\ pc \in {"insert", "check", "read"}
      /\ pc = "check" => k = "delete"
      /\ pc = "read" => k \in {"update", "test", "activate", "deactivate"}
  BY DEF Kinds
<1> HIDE DEF pc
<1>3. /\ new \in Ops /\ new.kind = k /\ new.pc = pc /\ new.cluster = c
  BY <1>2, IdleOK DEF Ops, Steps
<1>4. o \in Procs /\ o # Main
  BY ConstantsAssumption DEF Procs
<1> HIDE DEF new
<1>5. OpOK(o, new)
  BY <1>2, <1>3, <1>4 DEF OpOK, Kinds
<1>6. RestOK'
  BY <1>1, ConstantsAssumption DEF ClusterInv, RestOK
<1>7. op[o].pc \notin Locked /\ new.pc \notin Locked
  BY <1>1, <1>2, <1>3 DEF Idle, Locked
<1>8. QED
  BY <1>1, <1>3, <1>4, <1>5, <1>6, <1>7, OpAlone

\* A request that goes on in the same kind, or ends.
LEMMA GoOn ==
    ASSUME ClusterInv, NEW o \in Procs, op[o].pc \notin Locked,
           NEW pc \in {"check", "start", "stop", "save", "delete"},
           op[o].pc # "idle", op[o].pc # "next", op[o].kind # "stopall",
           pc = "stop" => op[o].kind \in {"deactivate", "delete"},
           pc = "check" => op[o].kind \in {"activate", "deactivate", "delete"},
           UNCHANGED <<pipelines, lock, watch, call>>, RestOK',
           Goto(o, pc) \/ Return(o)
    PROVE  ClusterInv'
<1>1. CASE Goto(o, pc)
  <2> DEFINE new == [op[o] EXCEPT !.pc = pc]
  <2>1. op[o] \in Ops /\ OpOK(o, op[o])
    BY DEF ClusterInv, OpsOK
  <2>2. /\ new \in Ops /\ new.pc = pc /\ new.kind = op[o].kind
        /\ new.cluster = op[o].cluster /\ new.watcher = op[o].watcher
    <3>1. pc \in Steps
      BY DEF Steps
    <3>2. QED
      BY <2>1, <3>1, Goes
  <2>3. op' = [op EXCEPT ![o] = new]
    BY <1>1 DEF Goto
  <2> HIDE DEF new
  <2>4. OpOK(o, new)
    BY <2>1, <2>2 DEF OpOK, Locked
  <2>5. new.pc \notin Locked
    BY <2>2 DEF Locked
  <2>6. QED
    BY <2>2, <2>3, <2>4, <2>5, OpAlone
<1>2. CASE Return(o)
  <2>1. op' = [op EXCEPT ![o] = Idle] /\ Idle.pc \notin Locked
    BY <1>2 DEF Return, Idle, Locked
  <2>2. QED
    BY <2>1, IdleOK, OpAlone
<1>3. QED
  BY <1>1, <1>2

LEMMA SameRest ==
    ASSUME ClusterInv, UNCHANGED <<row, mode, left, crashes>>
    PROVE  RestOK'
  BY DEF ClusterInv, RestOK

LEMMA RowChange ==
    ASSUME ClusterInv, UNCHANGED <<mode, left, crashes>>, NEW c \in Clusters,
           \/ UNCHANGED row
           \/ row' = [row EXCEPT ![c].status = "active"]
           \/ row' = [row EXCEPT ![c].status = "deleted"]
           \/ \E cl \in Row : row' = [row EXCEPT ![c] = cl]
    PROVE  RestOK'
<1>1. row[c] \in Row
  BY DEF ClusterInv, RestOK
<1>2. /\ [row[c] EXCEPT !.status = "active"] \in Row
      /\ [row[c] EXCEPT !.status = "deleted"] \in Row
  BY <1>1 DEF Row
<1>3. row' \in [Clusters -> Row]
  BY <1>2 DEF ClusterInv, RestOK
<1>4. QED
  BY <1>3 DEF ClusterInv, RestOK

\* At a step of a request its cluster is known.
LEMMA OpCluster ==
    ASSUME ClusterInv, NEW o \in Procs, op[o].pc \notin {"idle", "next", "each", "shut"}
    PROVE  /\ op[o] \in Ops /\ OpOK(o, op[o])
           /\ op[o].cluster \in Clusters /\ op[o].kind # "stopall"
  BY DEF ClusterInv, OpsOK, OpOK

LEMMA InsertStep ==
    ASSUME ClusterInv, NEW o \in Procs, Insert(o)
    PROVE  ClusterInv'
<1>1. op[o].pc = "insert" /\ op[o].cluster \in Clusters /\ op[o].kind # "stopall"
  BY OpCluster DEF Insert
<1>2. RestOK'
  BY <1>1, RowChange DEF Insert
<1>3. Goto(o, "start") \/ Return(o)
  BY DEF Insert
<1>4. QED
  BY <1>1, <1>2, <1>3, GoOn DEF Insert, Locked

LEMMA DeleteStep ==
    ASSUME ClusterInv, NEW o \in Procs, Delete(o)
    PROVE  ClusterInv'
<1>1. op[o].pc = "delete" /\ op[o].cluster \in Clusters /\ op[o].kind # "stopall"
  BY OpCluster DEF Delete
<1>2. RestOK'
  BY <1>1, RowChange DEF Delete
<1>3. QED
  BY <1>1, <1>2, GoOn DEF Delete, Locked

LEMMA SaveStep ==
    ASSUME ClusterInv, NEW o \in Procs, Save(o)
    PROVE  ClusterInv'
<1>1. op[o].pc = "save" /\ op[o].cluster \in Clusters /\ op[o].kind # "stopall"
  BY OpCluster DEF Save
<1>2. op[o].cl \in Row
  BY DEF ClusterInv, OpsOK, Ops, Steps
<1>3. RestOK'
  BY <1>1, <1>2, RowChange DEF Save
<1>4. (op[o].kind = "activate" /\ Goto(o, "check")) \/ Return(o)
  BY DEF Save
<1>5. QED
  BY <1>1, <1>3, <1>4, GoOn DEF Save, Locked

LEMMA ReadStep ==
    ASSUME ClusterInv, NEW o \in Procs, Read(o)
    PROVE  ClusterInv'
<1> DEFINE c == op[o].cluster
           kind == op[o].kind
<1>1. /\ op[o].pc = "read" /\ c \in Clusters /\ kind \in {"update", "test", "activate", "deactivate"}
      /\ op[o] \in Ops /\ OpOK(o, op[o])
      /\ UNCHANGED <<row, pipelines, lock, watch, call, mode, left, crashes>>
  BY OpCluster DEF Read, OpOK
<1>2. RestOK'
  BY <1>1, SameRest
<1>3. CASE Return(o)
  BY <1>1, <1>2, <1>3, GoOn DEF Locked
<1>4. CASE \E cl \in Edited(kind, row[c]) :
             op' = [op EXCEPT ![o].cl = cl,
                       ![o].pc = IF kind = "deactivate" THEN "check" ELSE "save"]
  <2>1. PICK cl \in Edited(kind, row[c]) :
           op' = [op EXCEPT ![o].cl = cl,
                     ![o].pc = IF kind = "deactivate" THEN "check" ELSE "save"]
    BY <1>4
  <2>2. cl \in Row
    <3>1. row[c] \in Row
      BY <1>1 DEF ClusterInv, RestOK
    <3>2. QED
      BY <1>1, <3>1 DEF Edited, Row
  <2> DEFINE pc == IF kind = "deactivate" THEN "check" ELSE "save"
             mid == [op[o] EXCEPT !.cl = cl]
             new == [mid EXCEPT !.pc = pc]
  <2>3. mid \in Ops /\ mid.kind = kind /\ mid.cluster = c /\ mid.watcher = op[o].watcher
    BY <1>1, <2>2 DEF Ops, Steps
  <2>4. op' = [op EXCEPT ![o] = new]
    BY <2>1
  <2> HIDE DEF mid
  <2>5. /\ pc \in {"check", "save"} /\ (pc = "check" => kind = "deactivate")
    OBVIOUS
  <2> HIDE DEF pc
  <2>6. /\ new \in Ops /\ new.pc = pc /\ new.kind = kind /\ new.cluster = c
        /\ new.watcher = op[o].watcher
    <3>1. pc \in Steps
      BY <2>5 DEF Steps
    <3>2. QED
      BY <2>3, <3>1, Goes
  <2> HIDE DEF new
  <2>7. OpOK(o, new) /\ op[o].pc \notin Locked /\ new.pc \notin Locked
    BY <1>1, <2>5, <2>6 DEF OpOK, Locked
  <2>8. QED
    BY <1>1, <1>2, <2>4, <2>6, <2>7, OpAlone
<1>5. QED
  BY <1>3, <1>4 DEF Read

LEMMA CheckStep ==
    ASSUME ClusterInv, NEW o \in Procs, Check(o)
    PROVE  ClusterInv'
<1>1. /\ op[o].pc = "check" /\ op[o].kind \in {"activate", "deactivate", "delete"}
      /\ UNCHANGED <<row, pipelines, lock, watch, call, mode, left, crashes>>
  BY OpCluster DEF Check, OpOK
<1>2. RestOK'
  BY <1>1, SameRest
<1>3. \/ Return(o) \/ Goto(o, "start")
      \/ op[o].kind \in {"deactivate", "delete"} /\ Goto(o, "stop")
      \/ Goto(o, "save") \/ Goto(o, "delete")
  BY <1>1 DEF Check, Stopped
<1>4. QED
  BY <1>1, <1>2, <1>3, GoOn DEF Locked

\* ReloadFromDB.
LEMMA BootStep ==
    ASSUME ClusterInv, Boot
    PROVE  ClusterInv'
<1>1. UNCHANGED <<row, pipelines, lock, watch, call, left, crashes>>
  BY DEF Boot, Reload, ReloadNext
<1>2. RestOK'
  <2>1. mode' \in {"boot", "serving", "down"}
    BY DEF Boot, Reload, ReloadNext, ClusterInv, RestOK
  <2>2. QED
    BY <1>1, <2>1 DEF ClusterInv, RestOK
<1>3. Main \in Procs /\ op[Main] \in Ops /\ OpOK(Main, op[Main])
  BY DEF Procs, ClusterInv, OpsOK
<1>4. CASE UNCHANGED op
  BY <1>1, <1>2, <1>4
  DEF ClusterInv, OpsOK, TablesOK, LockInv, QuietInv, StartInv, StopInv, Live, Stopping, Going
<1>5. CASE op[Main] = Idle /\
           op' = [op EXCEPT ![Main].kind = "reload", ![Main].pc = "next",
                     ![Main].todo = {c \in Clusters : row[c].status = "active"}]
  <2> DEFINE todo == {c \in Clusters : row[c].status = "active"}
             new == [Idle EXCEPT !.kind = "reload", !.pc = "next", !.todo = todo]
  <2>1. op' = [op EXCEPT ![Main] = new]
    BY <1>5
  <2>2. todo \subseteq Clusters
    OBVIOUS
  <2> HIDE DEF todo
  <2>3. new \in Ops /\ new.kind = "reload" /\ new.pc = "next"
    BY <2>2, IdleOK DEF Ops, Steps
  <2> HIDE DEF new
  <2>4. OpOK(Main, new) /\ op[Main].pc \notin Locked /\ new.pc \notin Locked
    BY <1>5, <2>3 DEF OpOK, Locked, Idle
  <2>5. QED
    BY <1>1, <1>2, <1>3, <2>1, <2>3, <2>4, OpAlone
<1>6. CASE op[Main].kind = "reload" /\ op[Main].pc = "next" /\ Return(Main)
  <2>1. op' = [op EXCEPT ![Main] = Idle] /\ Idle.pc \notin Locked /\ op[Main].pc \notin Locked
    BY <1>6 DEF Return, Idle, Locked
  <2>2. QED
    BY <1>1, <1>2, <1>3, <2>1, IdleOK, OpAlone
<1>7. CASE /\ op[Main].kind = "reload" /\ op[Main].pc = "next"
           /\ \E c \in op[Main].todo :
                 op' = [op EXCEPT ![Main].pc = "start", ![Main].cluster = c,
                                  ![Main].todo = @ \ {c}]
  <2>1. PICK c \in op[Main].todo :
           op' = [op EXCEPT ![Main].pc = "start", ![Main].cluster = c, ![Main].todo = @ \ {c}]
    BY <1>7
  <2> DEFINE new == [op[Main] EXCEPT !.pc = "start", !.cluster = c, !.todo = @ \ {c}]
  <2>2. op' = [op EXCEPT ![Main] = new]
    BY <2>1
  <2>3. c \in Clusters
    BY <1>3 DEF Ops, Steps
  <2>4. new \in Ops /\ new.kind = "reload" /\ new.pc = "start" /\ new.cluster = c
    BY <1>3, <1>7, <2>3 DEF Ops, Steps
  <2> HIDE DEF new
  <2>5. OpOK(Main, new) /\ op[Main].pc \notin Locked /\ new.pc \notin Locked
    BY <1>7, <2>3, <2>4 DEF OpOK, Locked
  <2>6. QED
    BY <1>1, <1>2, <1>3, <2>2, <2>4, <2>5, OpAlone
<1>8. QED
  BY <1>4, <1>5, <1>6, <1>7 DEF Boot, Reload, ReloadNext

-----------------------------------------------------------------------------
(* StartCluster. *)

LEMMA Holder ==
    ASSUME ClusterInv
    PROVE  /\ Main \in Procs /\ None \notin Procs
           /\ \A o, p \in Procs : op[o].pc \in Locked /\ op[p].pc \in Locked => o = p
           /\ lock = None => \A o \in Procs : op[o].pc \notin Locked
           /\ op[Main].kind = "stopall" => lock = Main /\ op[Main].pc \in {"each", "shut"}
<1>1. Main \in Procs /\ None \notin Procs
  BY ConstantsAssumption DEF Procs
<1>2. op[Main].kind = "stopall" => op[Main].pc \in {"each", "shut"}
  BY <1>1 DEF ClusterInv, OpsOK, OpOK
<1>3. QED
  BY <1>1, <1>2 DEF ClusterInv, LockInv, Locked

\* While nobody stops a pipeline, every registered one is live.
LEMMA AllLive ==
    ASSUME ClusterInv,
           lock = None \/ (lock \in Procs /\ op[lock].pc \in {"sync", "reread", "rewrite"})
    PROVE  /\ op[Main].kind # "stopall"
           /\ \A o \in Procs : op[o].pc # "shut"
           /\ \A c \in Clusters : pipelines[c] # None => Live(c)
<1>1. op[Main].kind # "stopall"
  BY Holder
<1>2. \A o \in Procs : op[o].pc # "shut"
  BY Holder DEF Locked, ClusterInv, LockInv
<1>3. \A c \in Clusters : ~Stopping(c) /\ ~Going(c)
  BY <1>1 DEF Stopping, Going
<1>4. QED
  BY <1>1, <1>2, <1>3 DEF ClusterInv, StopInv

LEMMA OneOp ==
    ASSUME ClusterInv, NEW o \in Procs, NEW new \in Ops, OpOK(o, new),
           op' = [op EXCEPT ![o] = new]
    PROVE  OpsOK' /\ op'[o] = new /\ \A p \in Procs : p # o => op'[p] = op[p]
  BY DEF ClusterInv, OpsOK

\* A step of StartCluster, which takes the lock, holds it or gives it back.
LEMMA Holding ==
    ASSUME ClusterInv, NEW o \in Procs, NEW new \in Ops, OpOK(o, new),
           op' = [op EXCEPT ![o] = new],
           lock = None \/ (lock = o /\ op[o].pc \in {"sync", "reread", "rewrite"}),
           lock' = IF new.pc \in Locked THEN o ELSE None,
           new.pc # "shut", new.kind # "stopall",
           RestOK', TablesOK', QuietInv', StartInv',
           \A c \in Clusters : pipelines'[c] # None => Live(c)'
    PROVE  ClusterInv'
<1>1. OpsOK' /\ op'[o] = new /\ \A p \in Procs : p # o => op'[p] = op[p]
  BY OneOp
<1>2. \A p \in Procs : p # o => op[p].pc \notin Locked
  BY Holder DEF Locked
<1>3. LockInv'
  BY <1>1, <1>2, Holder DEF LockInv
<1>4. /\ op[Main].kind # "stopall"
      /\ \A p \in Procs : op[p].pc # "shut"
  BY AllLive
<1>5. op'[Main].kind # "stopall" /\ \A p \in Procs : op'[p].pc # "shut"
  BY <1>1, <1>4, Holder
<1>6. StopInv'
  BY <1>5, Holder DEF StopInv
<1>7. QED
  BY <1>1, <1>3, <1>6 DEF ClusterInv

\* Where StartCluster returns to.
LEMMA StartedTo ==
    ASSUME ClusterInv, NEW o \in Procs, Started(o)
    PROVE  \E new \in Ops : /\ OpOK(o, new) /\ op' = [op EXCEPT ![o] = new]
                            /\ new.pc \in {"idle", "next"} /\ new.kind # "stopall"
<1>1. op[o] \in Ops /\ OpOK(o, op[o])
  BY DEF ClusterInv, OpsOK
<1>2. CASE op[o].kind = "reload"
  <2> DEFINE new == [Idle EXCEPT !.kind = "reload", !.pc = "next", !.todo = op[o].todo]
  <2>1. op' = [op EXCEPT ![o] = new]
    BY <1>2 DEF Started
  <2>2. new \in Ops /\ new.kind = "reload" /\ new.pc = "next"
    BY <1>1, IdleOK DEF Ops, Steps
  <2> HIDE DEF new
  <2>3. OpOK(o, new)
    BY <1>1, <1>2, <2>2 DEF OpOK
  <2>4. QED
    BY <2>1, <2>2, <2>3
<1>3. CASE op[o].kind # "reload"
  <2>1. op' = [op EXCEPT ![o] = Idle] /\ Idle.pc = "idle" /\ Idle.kind = "none"
    BY <1>3 DEF Started, Return, Idle
  <2>2. QED
    BY <2>1, IdleOK
<1>4. QED
  BY <1>2, <1>3

LEMMA StartStep ==
    ASSUME ClusterInv, NEW o \in Procs, Start(o)
    PROVE  ClusterInv'
<1> DEFINE c == op[o].cluster
<1>1. /\ op[o].pc = "start" /\ lock = None
      /\ UNCHANGED <<row, pipelines, call, mode, left, crashes>>
      /\ op[o] \in Ops /\ OpOK(o, op[o]) /\ c \in Clusters /\ op[o].kind # "stopall"
  BY OpCluster DEF Start
<1>2. RestOK'
  BY <1>1, SameRest
<1>3. \A d \in Clusters : pipelines[d] # None => Live(d)
  BY <1>1, AllLive
<1>4. \A p \in Procs : op[p].pc \notin Locked
  BY <1>1, Holder
<1>5. \A w \in Watchers : watch[w].phase # "syncing"
  BY <1>1 DEF ClusterInv, StartInv
<1>6. CASE Started(o) /\ UNCHANGED <<lock, watch>>
  <2>1. PICK new \in Ops : /\ OpOK(o, new) /\ op' = [op EXCEPT ![o] = new]
                           /\ new.pc \in {"idle", "next"} /\ new.kind # "stopall"
    BY <1>6, StartedTo
  <2>2. QED
    BY <1>1, <1>2, <1>6, <2>1, OpAlone DEF Locked
<1>7. CASE /\ pipelines[c] = None /\ lock' = o /\ UNCHANGED watch
           /\ op' = [op EXCEPT ![o].pc = "reread", ![o].conn = "failed"]
  <2> DEFINE new == [op[o] EXCEPT !.pc = "reread", !.conn = "failed"]
  <2>1. op' = [op EXCEPT ![o] = new]
    BY <1>7
  <2>2. new \in Ops /\ new.pc = "reread" /\ new.kind = op[o].kind /\ new.cluster = c
    BY <1>1 DEF Ops, Steps
  <2> HIDE DEF new
  <2>3. OpOK(o, new)
    BY <1>1, <2>2 DEF OpOK
  <2>4. TablesOK' /\ QuietInv'
    BY <1>1, <1>7 DEF ClusterInv, TablesOK, QuietInv
  <2>5. \A p \in Procs : op'[p].pc # "sync"
    BY <1>4, <2>1, <2>2, <2>3, OneOp DEF Locked
  <2>6. StartInv'
    BY <1>1, <1>5, <1>7, <2>5 DEF ClusterInv, StartInv
  <2>7. \A d \in Clusters : pipelines'[d] # None => Live(d)'
    BY <1>1, <1>3, <1>7 DEF Live
  <2>8. lock' = IF new.pc \in Locked THEN o ELSE None
    BY <1>7, <2>2 DEF Locked
  <2>9. QED
    BY <1>1, <1>2, <2>1, <2>2, <2>3, <2>4, <2>6, <2>7, <2>8, Holding
<1>8. CASE /\ pipelines[c] = None /\ lock' = o
           /\ \E w \in Watchers :
                 /\ watch[w] = Off
                 /\ watch' = [watch EXCEPT ![w] = [cluster |-> c, phase |-> "syncing"]]
                 /\ op' = [op EXCEPT ![o].pc = "sync", ![o].watcher = w]
  <2>1. PICK w \in Watchers :
           /\ watch[w] = Off
           /\ watch' = [watch EXCEPT ![w] = [cluster |-> c, phase |-> "syncing"]]
           /\ op' = [op EXCEPT ![o].pc = "sync", ![o].watcher = w]
    BY <1>8
  <2> DEFINE new == [op[o] EXCEPT !.pc = "sync", !.watcher = w]
  <2>2. op' = [op EXCEPT ![o] = new]
    BY <2>1
  <2>3. /\ new \in Ops /\ new.pc = "sync" /\ new.kind = op[o].kind /\ new.cluster = c
        /\ new.watcher = w
    BY <1>1 DEF Ops, Steps
  <2> HIDE DEF new
  <2>4. OpOK(o, new)
    BY <1>1, <2>3 DEF OpOK
  <2>5. /\ watch[w].phase = "off"
        /\ watch'[w].cluster = c /\ watch'[w].phase = "syncing"
        /\ \A v \in Watchers : v # w => watch'[v] = watch[v]
    BY <2>1 DEF ClusterInv, TablesOK, Off
  <2>6. TablesOK'
    BY <1>1, <2>1 DEF ClusterInv, TablesOK
  <2>7. QuietInv'
    BY <1>1, <2>5 DEF ClusterInv, QuietInv
  <2>8. op'[o] = new /\ \A p \in Procs : p # o => op'[p] = op[p]
    BY <2>2, <2>3, <2>4, OneOp
  <2>9. StartInv'
    <3>1. \A p \in Procs : op'[p].pc = "sync" => p = o
      BY <1>4, <2>8 DEF Locked
    <3>2. /\ op'[o].watcher = w /\ op'[o].pc = "sync" /\ op'[o].cluster = c
          /\ pipelines'[c] = None /\ lock' = o /\ o # None
      BY <1>1, <1>8, <2>3, <2>8, Holder
    <3>3. \A v \in Watchers : watch'[v].phase = "syncing" => v = w
      BY <1>5, <2>5
    <3>4. \A v \in Watchers : watch'[v].phase = "live" => watch'[v] = watch[v]
      BY <2>5
    <3>5. QED
      BY <1>1, <2>5, <3>1, <3>2, <3>3, <3>4 DEF ClusterInv, StartInv
  <2>10. \A d \in Clusters : pipelines'[d] # None => Live(d)'
    <3>1. ASSUME NEW d \in Clusters, pipelines'[d] # None PROVE Live(d)'
      <4>1. Live(d) /\ pipelines[d] \in Watchers
        BY <1>1, <1>3, <3>1 DEF ClusterInv, TablesOK
      <4>2. QED
        BY <1>1, <2>5, <4>1 DEF Live
    <3>2. QED
      BY <3>1
  <2>11. lock' = IF new.pc \in Locked THEN o ELSE None
    BY <1>8, <2>3 DEF Locked
  <2>12. QED
    BY <1>1, <1>2, <2>2, <2>3, <2>4, <2>6, <2>7, <2>9, <2>10, <2>11, Holding
<1>9. QED
  BY <1>6, <1>7, <1>8 DEF Start

\* At a step of StartCluster under the lock.
LEMMA Starting ==
    ASSUME ClusterInv, NEW o \in Procs, op[o].pc \in {"sync", "reread", "rewrite"}
    PROVE  /\ lock = o /\ op[o] \in Ops /\ OpOK(o, op[o])
           /\ op[o].cluster \in Clusters /\ op[o].kind # "stopall"
           /\ \A p \in Procs : p # o => op[p].pc \notin Locked
           /\ \A d \in Clusters : pipelines[d] # None => Live(d)
<1>1. lock = o /\ \A p \in Procs : p # o => op[p].pc \notin Locked
  BY Holder DEF ClusterInv, LockInv, Locked
<1>2. QED
  BY <1>1, AllLive, OpCluster

LEMMA SyncedStep ==
    ASSUME ClusterInv, NEW o \in Procs, Synced(o)
    PROVE  ClusterInv'
<1> DEFINE c == op[o].cluster
           w == op[o].watcher
           new == [op[o] EXCEPT !.pc = "reread", !.conn = "connected"]
<1>1. /\ op[o].pc = "sync"
      /\ watch' = [watch EXCEPT ![w].phase = "live"]
      /\ pipelines' = [pipelines EXCEPT ![c] = w]
      /\ op' = [op EXCEPT ![o] = new]
      /\ UNCHANGED <<row, lock, call, mode, left, crashes>>
  BY DEF Synced
<1>2. /\ lock = o /\ op[o] \in Ops /\ OpOK(o, op[o]) /\ c \in Clusters
      /\ op[o].kind # "stopall"
      /\ \A p \in Procs : p # o => op[p].pc \notin Locked
      /\ \A d \in Clusters : pipelines[d] # None => Live(d)
  BY <1>1, Starting
<1>3. /\ w \in Watchers /\ watch[w].phase = "syncing" /\ watch[w].cluster = c
      /\ pipelines[c] = None
  BY <1>1 DEF ClusterInv, StartInv
<1>4. new \in Ops /\ new.pc = "reread" /\ new.kind = op[o].kind /\ new.cluster = c
  BY <1>2 DEF Ops, Steps
<1> HIDE DEF new
<1>5. OpOK(o, new)
  BY <1>2, <1>4 DEF OpOK
<1>6. RestOK'
  BY <1>1, SameRest
<1>7. /\ watch'[w].phase = "live" /\ watch'[w].cluster = c
      /\ \A v \in Watchers : v # w => watch'[v] = watch[v]
      /\ pipelines'[c] = w
      /\ \A d \in Clusters : d # c => pipelines'[d] = pipelines[d]
  BY <1>1, <1>2, <1>3 DEF ClusterInv, TablesOK
<1>8. TablesOK'
  BY <1>1, <1>2, <1>3 DEF ClusterInv, TablesOK
<1>9. QuietInv'
  BY <1>1, <1>7 DEF ClusterInv, QuietInv
<1>10. op'[o] = new /\ \A p \in Procs : p # o => op'[p] = op[p]
  BY <1>1, <1>4, <1>5, OneOp
<1>11. StartInv'
  <2>1. \A p \in Procs : op'[p].pc # "sync"
    BY <1>2, <1>4, <1>10 DEF Locked
  <2>2. \A v \in Watchers : watch'[v].phase # "syncing"
    BY <1>1, <1>2, <1>7 DEF ClusterInv, StartInv
  <2>3. ASSUME NEW v \in Watchers, watch'[v].phase = "live"
        PROVE  watch'[v].cluster \in Clusters /\ pipelines'[watch'[v].cluster] = v
    <3>1. CASE v = w
      BY <1>2, <1>7, <3>1
    <3>2. CASE v # w
      <4>1. watch'[v] = watch[v] /\ watch[v].cluster \in Clusters
            /\ pipelines[watch[v].cluster] = v
        BY <1>7, <2>3, <3>2 DEF ClusterInv, StartInv
      <4>2. watch[v].cluster # c
        BY <1>3, <4>1, ConstantsAssumption
      <4>3. QED
        BY <1>7, <4>1, <4>2
    <3>3. QED
      BY <3>1, <3>2
  <2>4. QED
    BY <2>1, <2>2, <2>3 DEF StartInv
<1>12. ASSUME NEW d \in Clusters, pipelines'[d] # None PROVE Live(d)'
  <2>1. CASE d = c
    BY <1>7, <2>1 DEF Live
  <2>2. CASE d # c
    <3>1. pipelines'[d] = pipelines[d] /\ Live(d) /\ pipelines[d] \in Watchers
      BY <1>2, <1>7, <1>12, <2>2 DEF ClusterInv, TablesOK
    <3>2. pipelines[d] # w
      BY <1>3, <2>2, <3>1 DEF Live
    <3>3. QED
      BY <1>7, <3>1, <3>2 DEF Live
  <2>3. QED
    BY <2>1, <2>2
<1>13. lock' = IF new.pc \in Locked THEN o ELSE None
  BY <1>1, <1>2, <1>4 DEF Locked
<1>14. QED
  BY <1>1, <1>2, <1>4, <1>5, <1>6, <1>8, <1>9, <1>11, <1>12, <1>13, Holding

LEMMA SyncTimesOutStep ==
    ASSUME ClusterInv, NEW o \in Procs, SyncTimesOut(o)
    PROVE  ClusterInv'
<1> DEFINE c == op[o].cluster
           w == op[o].watcher
           new == [op[o] EXCEPT !.pc = "reread", !.conn = "failed"]
<1>1. /\ op[o].pc = "sync"
      /\ watch' = [watch EXCEPT ![w].phase = "cancelled"]
      /\ op' = [op EXCEPT ![o] = new]
      /\ UNCHANGED <<row, pipelines, lock, call, mode, left, crashes>>
  BY DEF SyncTimesOut
<1>2. /\ lock = o /\ op[o] \in Ops /\ OpOK(o, op[o]) /\ c \in Clusters
      /\ op[o].kind # "stopall"
      /\ \A p \in Procs : p # o => op[p].pc \notin Locked
      /\ \A d \in Clusters : pipelines[d] # None => Live(d)
  BY <1>1, Starting
<1>3. w \in Watchers /\ watch[w].phase = "syncing"
  BY <1>1 DEF ClusterInv, StartInv
<1>4. new \in Ops /\ new.pc = "reread" /\ new.kind = op[o].kind /\ new.cluster = c
  BY <1>2 DEF Ops, Steps
<1> HIDE DEF new
<1>5. OpOK(o, new)
  BY <1>2, <1>4 DEF OpOK
<1>6. RestOK'
  BY <1>1, SameRest
<1>7. /\ watch'[w].phase = "cancelled"
      /\ \A v \in Watchers : v # w => watch'[v] = watch[v]
  BY <1>1, <1>3 DEF ClusterInv, TablesOK
<1>8. TablesOK'
  BY <1>1, <1>2, <1>3 DEF ClusterInv, TablesOK
<1>9. QuietInv'
  BY <1>1, <1>7 DEF ClusterInv, QuietInv
<1>10. op'[o] = new /\ \A p \in Procs : p # o => op'[p] = op[p]
  BY <1>1, <1>4, <1>5, OneOp
<1>11. StartInv'
  <2>1. \A p \in Procs : op'[p].pc # "sync"
    BY <1>2, <1>4, <1>10 DEF Locked
  <2>2. \A v \in Watchers : watch'[v].phase # "syncing"
    BY <1>1, <1>2, <1>7 DEF ClusterInv, StartInv
  <2>3. \A v \in Watchers : watch'[v].phase = "live" => watch'[v] = watch[v]
    BY <1>7
  <2>4. QED
    BY <1>1, <2>1, <2>2, <2>3 DEF ClusterInv, StartInv
<1>12. ASSUME NEW d \in Clusters, pipelines'[d] # None PROVE Live(d)'
  <2>1. Live(d) /\ pipelines[d] \in Watchers
    BY <1>1, <1>2, <1>12 DEF ClusterInv, TablesOK
  <2>2. pipelines[d] # w
    BY <1>3, <2>1 DEF Live
  <2>3. QED
    BY <1>1, <1>7, <2>1, <2>2 DEF Live
<1>13. lock' = IF new.pc \in Locked THEN o ELSE None
  BY <1>1, <1>2, <1>4 DEF Locked
<1>14. QED
  BY <1>1, <1>2, <1>4, <1>5, <1>6, <1>8, <1>9, <1>11, <1>12, <1>13, Holding

\* updateClusterConnectionStatus changes no table of the manager.
LEMMA StatusStep ==
    ASSUME ClusterInv, NEW o \in Procs, op[o].pc \in {"reread", "rewrite"},
           UNCHANGED <<pipelines, watch, call>>, RestOK',
           NEW new \in Ops, OpOK(o, new), op' = [op EXCEPT ![o] = new],
           new.pc \in {"rewrite", "idle", "next"}, new.kind # "stopall",
           lock' = IF new.pc = "rewrite" THEN o ELSE None
    PROVE  ClusterInv'
<1>1. /\ lock = o /\ \A p \in Procs : p # o => op[p].pc \notin Locked
      /\ \A d \in Clusters : pipelines[d] # None => Live(d)
  BY Starting
<1>2. TablesOK' /\ QuietInv'
  BY DEF ClusterInv, TablesOK, QuietInv
<1>3. op'[o] = new /\ \A p \in Procs : p # o => op'[p] = op[p]
  BY OneOp
<1>4. StartInv'
  <2>1. \A p \in Procs : op'[p].pc # "sync"
    BY <1>1, <1>3 DEF Locked
  <2>2. \A v \in Watchers : watch[v].phase # "syncing"
    BY <1>1 DEF ClusterInv, StartInv
  <2>3. QED
    BY <2>1, <2>2 DEF ClusterInv, StartInv
<1>5. \A d \in Clusters : pipelines'[d] # None => Live(d)'
  BY <1>1 DEF Live
<1>6. lock' = IF new.pc \in Locked THEN o ELSE None
  BY DEF Locked
<1>7. QED
  BY <1>1, <1>2, <1>4, <1>5, <1>6, Holding

LEMMA RereadStep ==
    ASSUME ClusterInv, NEW o \in Procs, Reread(o)
    PROVE  ClusterInv'
<1> DEFINE c == op[o].cluster
           cl == [row[c] EXCEPT !.conn = op[o].conn]
<1>1. op[o].pc = "reread" /\ UNCHANGED <<row, pipelines, watch, call, mode, left, crashes>>
  BY DEF Reread
<1>2. op[o] \in Ops /\ OpOK(o, op[o]) /\ c \in Clusters /\ op[o].kind # "stopall"
      /\ lock = o
  BY <1>1, Starting
<1>3. RestOK'
  BY <1>1, SameRest
<1>4. CASE UNCHANGED lock /\ op' = [op EXCEPT ![o].pc = "rewrite", ![o].cl = cl]
  <2> DEFINE new == [op[o] EXCEPT !.pc = "rewrite", !.cl = cl]
  <2>1. op' = [op EXCEPT ![o] = new]
    BY <1>4
  <2>2. cl \in Row
    <3>1. row[c] \in Row /\ op[o].conn \in {"unknown", "connected", "failed"}
      BY <1>2 DEF ClusterInv, RestOK, Ops
    <3>2. QED
      BY <3>1 DEF Row
  <2> HIDE DEF cl
  <2>3. new \in Ops /\ new.pc = "rewrite" /\ new.kind = op[o].kind /\ new.cluster = c
    BY <1>2, <2>2 DEF Ops, Steps
  <2> HIDE DEF new
  <2>4. OpOK(o, new)
    BY <1>2, <2>3 DEF OpOK
  <2>5. QED
    BY <1>1, <1>2, <1>3, <1>4, <2>1, <2>3, <2>4, StatusStep
<1>5. CASE Started(o) /\ lock' = None
  <2>1. PICK new \in Ops : /\ OpOK(o, new) /\ op' = [op EXCEPT ![o] = new]
                           /\ new.pc \in {"idle", "next"} /\ new.kind # "stopall"
    BY <1>5, StartedTo
  <2>2. QED
    BY <1>1, <1>3, <1>5, <2>1, StatusStep
<1>6. QED
  BY <1>4, <1>5 DEF Reread

LEMMA RewriteStep ==
    ASSUME ClusterInv, NEW o \in Procs, Rewrite(o)
    PROVE  ClusterInv'
<1>1. op[o].pc = "rewrite" /\ lock' = None /\ UNCHANGED <<pipelines, watch, call>>
  BY DEF Rewrite
<1>2. op[o].cl \in Row /\ op[o].cluster \in Clusters
  <2>1. op[o] \in Ops /\ op[o].cluster \in Clusters
    BY <1>1, Starting
  <2>2. QED
    BY <2>1 DEF Ops
<1>3. RestOK'
  BY <1>2, RowChange DEF Rewrite
<1>4. PICK new \in Ops : /\ OpOK(o, new) /\ op' = [op EXCEPT ![o] = new]
                         /\ new.pc \in {"idle", "next"} /\ new.kind # "stopall"
  BY StartedTo DEF Rewrite
<1>5. QED
  BY <1>1, <1>3, <1>4, StatusStep

-----------------------------------------------------------------------------
(* StopCluster. *)

LEMMA StopStep ==
    ASSUME ClusterInv, NEW o \in Procs, Stop(o)
    PROVE  ClusterInv'
<1> DEFINE c == op[o].cluster
           w == pipelines[c]
<1>1. /\ op[o].pc = "stop" /\ lock = None
      /\ UNCHANGED <<row, pipelines, call, mode, left, crashes>>
      /\ op[o] \in Ops /\ OpOK(o, op[o]) /\ c \in Clusters
      /\ op[o].kind \in {"deactivate", "delete"}
  BY OpCluster DEF Stop, OpOK
<1>2. RestOK'
  BY <1>1, SameRest
<1>3. CASE Stopped(o) /\ UNCHANGED <<lock, watch>>
  <2>1. Goto(o, "save") \/ Goto(o, "delete")
    BY <1>3 DEF Stopped
  <2>2. QED
    BY <1>1, <1>2, <1>3, <2>1, GoOn DEF Locked
<1>4. CASE /\ w # None /\ lock' = o
           /\ watch' = [watch EXCEPT ![w].phase = "cancelled"]
           /\ op' = [op EXCEPT ![o].pc = "shut", ![o].watcher = w]
  <2> DEFINE new == [op[o] EXCEPT !.pc = "shut", !.watcher = w]
  <2>1. op' = [op EXCEPT ![o] = new]
    BY <1>4
  <2>2. w \in Watchers
    BY <1>1, <1>4 DEF ClusterInv, TablesOK
  <2>3. /\ new \in Ops /\ new.pc = "shut" /\ new.kind = op[o].kind /\ new.cluster = c
        /\ new.watcher = w
    BY <1>1, <2>2 DEF Ops, Steps
  <2> HIDE DEF new
  <2>4. OpOK(o, new)
    BY <1>1, <2>2, <2>3 DEF OpOK
  <2>5. OpsOK' /\ op'[o] = new /\ \A p \in Procs : p # o => op'[p] = op[p]
    BY <2>1, <2>3, <2>4, OneOp
  <2>6. /\ op[Main].kind # "stopall" /\ o # Main
        /\ \A p \in Procs : op[p].pc \notin Locked
        /\ \A d \in Clusters : pipelines[d] # None => Live(d)
    BY <1>1, AllLive, Holder DEF OpOK
  <2>7. /\ watch[w].phase = "live" /\ watch[w].cluster = c
        /\ watch'[w].phase = "cancelled"
        /\ \A v \in Watchers : v # w => watch'[v] = watch[v]
    <3>1. Live(c)
      BY <1>1, <1>4, <2>6
    <3>2. QED
      BY <1>4, <2>2, <3>1 DEF ClusterInv, TablesOK, Live
  <2>8. TablesOK'
    BY <1>1, <1>4, <2>2 DEF ClusterInv, TablesOK
  <2>9. QuietInv'
    BY <1>1, <2>7 DEF ClusterInv, QuietInv
  <2>10. LockInv'
    BY <1>4, <2>3, <2>5, <2>6, Holder DEF LockInv, Locked
  <2>11. StartInv'
    <3>1. \A p \in Procs : op'[p].pc # "sync"
      BY <2>3, <2>5, <2>6 DEF Locked
    <3>2. \A v \in Watchers : watch'[v].phase # "syncing"
      BY <1>1, <2>7 DEF ClusterInv, StartInv
    <3>3. \A v \in Watchers : watch'[v].phase = "live" => watch'[v] = watch[v]
      BY <2>7
    <3>4. QED
      BY <1>1, <3>1, <3>2, <3>3 DEF ClusterInv, StartInv
  <2>12. StopInv'
    <3>1. \A p \in Procs : op'[p].pc = "shut" => p = o
      BY <2>5, <2>6 DEF Locked
    <3>2. /\ op'[o].pc = "shut" /\ op'[o].kind \in {"deactivate", "delete"}
          /\ op'[o].cluster = c /\ op'[o].watcher = w /\ pipelines'[c] = w
          /\ lock' = o /\ o # None
      BY <1>1, <1>4, <2>3, <2>5, Holder
    <3>3. op'[Main].kind # "stopall"
      BY <2>5, <2>6, Holder
    <3>4. ASSUME NEW d \in Clusters, pipelines'[d] # None PROVE Live(d)' \/ Stopping(d)'
      <4>1. CASE d = c
        BY <3>2, <4>1 DEF Stopping
      <4>2. CASE d # c
        <5>1. Live(d) /\ pipelines[d] \in Watchers
          BY <1>1, <2>6, <3>4 DEF ClusterInv, TablesOK
        <5>2. pipelines[d] # w
          BY <2>7, <4>2, <5>1 DEF Live
        <5>3. QED
          BY <1>1, <2>7, <5>1, <5>2 DEF Live
      <4>3. QED
        BY <4>1, <4>2
    <3>5. QED
      BY <3>1, <3>2, <3>3, <3>4 DEF StopInv
  <2>13. QED
    BY <1>2, <2>5, <2>8, <2>9, <2>10, <2>11, <2>12 DEF ClusterInv
<1>5. QED
  BY <1>3, <1>4 DEF Stop

LEMMA ShutStep ==
    ASSUME ClusterInv, NEW o \in Procs, Shut(o)
    PROVE  ClusterInv'
<1> DEFINE c == op[o].cluster
           w == op[o].watcher
           pc == IF op[o].kind = "delete" THEN "delete" ELSE "save"
           new == [op[o] EXCEPT !.pc = pc]
<1>1. /\ op[o].pc = "shut" /\ op[o].kind # "stopall" /\ watch[w].phase = "off"
      /\ pipelines' = [pipelines EXCEPT ![c] = None] /\ lock' = None
      /\ op' = [op EXCEPT ![o] = new]
      /\ UNCHANGED <<row, watch, call, mode, left, crashes>>
  BY DEF Shut, Stopped, Goto
<1>2. /\ op[o] \in Ops /\ OpOK(o, op[o]) /\ c \in Clusters /\ w \in Watchers
      /\ op[o].kind \in {"deactivate", "delete"} /\ o # Main
  BY <1>1 DEF ClusterInv, OpsOK, OpOK
<1>3. pc \in {"delete", "save"} /\ pc \in Steps
  BY DEF Steps
<1> HIDE DEF pc
<1>4. new \in Ops /\ new.pc = pc /\ new.kind = op[o].kind /\ new.cluster = c
  BY <1>2, <1>3, Goes
<1> HIDE DEF new
<1>5. OpOK(o, new)
  BY <1>2, <1>3, <1>4 DEF OpOK
<1>6. OpsOK' /\ op'[o] = new /\ \A p \in Procs : p # o => op'[p] = op[p]
  BY <1>1, <1>4, <1>5, OneOp
<1>7. /\ lock = o /\ op[Main].kind # "stopall"
      /\ \A p \in Procs : op'[p].pc \notin Locked
  BY <1>1, <1>2, <1>3, <1>4, <1>6, Holder DEF ClusterInv, LockInv, Locked
<1>8. /\ pipelines[c] = w /\ pipelines'[c] = None
      /\ \A d \in Clusters : d # c => pipelines'[d] = pipelines[d]
  BY <1>1, <1>2 DEF ClusterInv, StopInv, TablesOK
<1>9. RestOK' /\ TablesOK' /\ QuietInv'
  BY <1>1, SameRest DEF ClusterInv, TablesOK, QuietInv
<1>10. LockInv'
  BY <1>1, <1>7 DEF LockInv
<1>11. StartInv'
  <2>1. \A p \in Procs : op'[p].pc # "sync"
    BY <1>7 DEF Locked
  <2>2. \A v \in Watchers : watch[v].phase # "syncing"
    BY <1>1, <1>7 DEF ClusterInv, StartInv
  <2>3. ASSUME NEW v \in Watchers, watch[v].phase = "live"
        PROVE  watch[v].cluster \in Clusters /\ pipelines'[watch[v].cluster] = v
    <3>1. watch[v].cluster \in Clusters /\ pipelines[watch[v].cluster] = v
      BY <2>3 DEF ClusterInv, StartInv
    <3>2. watch[v].cluster # c
      BY <1>1, <1>8, <2>3, <3>1
    <3>3. QED
      BY <1>8, <3>1, <3>2
  <2>4. QED
    BY <1>1, <2>1, <2>2, <2>3 DEF StartInv
<1>12. StopInv'
  <2>1. op'[Main].kind # "stopall" /\ \A p \in Procs : op'[p].pc # "shut"
    BY <1>2, <1>6, <1>7, Holder DEF Locked
  <2>2. ASSUME NEW d \in Clusters, pipelines'[d] # None PROVE Live(d)'
    <3>1. d # c /\ pipelines'[d] = pipelines[d]
      BY <1>8, <2>2
    <3>2. Live(d)
      BY <1>7, <2>2, <3>1 DEF ClusterInv, StopInv, Stopping, Going
    <3>3. QED
      BY <1>1, <3>1, <3>2 DEF Live
  <2>3. QED
    BY <2>1, <2>2, Holder DEF StopInv
<1>13. QED
  BY <1>6, <1>9, <1>10, <1>11, <1>12 DEF ClusterInv

-----------------------------------------------------------------------------
(* StopAll, and the end of the process. *)

LEMMA StopAllStep ==
    ASSUME ClusterInv, StopAll
    PROVE  ClusterInv'
<1> DEFINE todo == {c \in Clusters : pipelines[c] # None}
           new == [op[Main] EXCEPT !.kind = "stopall", !.pc = "each", !.todo = todo]
<1>1. /\ lock = None /\ lock' = Main /\ op[Main] = Idle
      /\ op' = [op EXCEPT ![Main] = new]
      /\ UNCHANGED <<row, pipelines, watch, call, mode, left, crashes>>
  BY DEF StopAll
<1>2. todo \subseteq Clusters /\ \A c \in todo : pipelines[c] # None
  OBVIOUS
<1>3. \A w \in Watchers : watch[w].phase = "live" => watch[w].cluster \in todo
  BY ConstantsAssumption DEF ClusterInv, StartInv
<1> HIDE DEF todo
<1>4. Main \in Procs /\ op[Main] \in Ops
  BY Holder DEF ClusterInv, OpsOK
<1>5. new \in Ops /\ new.kind = "stopall" /\ new.pc = "each" /\ new.todo = todo
  BY <1>2, <1>4 DEF Ops, Steps
<1> HIDE DEF new
<1>6. OpOK(Main, new)
  BY <1>5 DEF OpOK
<1>7. OpsOK' /\ op'[Main] = new /\ \A p \in Procs : p # Main => op'[p] = op[p]
  BY <1>1, <1>4, <1>5, <1>6, OneOp
<1>8. /\ \A p \in Procs : op[p].pc \notin Locked
      /\ \A d \in Clusters : pipelines[d] # None => Live(d)
  BY <1>1, AllLive, Holder
<1>9. RestOK' /\ TablesOK' /\ QuietInv'
  BY <1>1, SameRest DEF ClusterInv, TablesOK, QuietInv
<1>10. LockInv'
  BY <1>1, <1>4, <1>5, <1>7, <1>8, Holder DEF LockInv, Locked
<1>11. \A p \in Procs : op'[p].pc \notin {"sync", "shut"}
  BY <1>5, <1>7, <1>8 DEF Locked
<1>12. StartInv'
  BY <1>1, <1>11 DEF ClusterInv, StartInv
<1>13. StopInv'
  BY <1>1, <1>2, <1>3, <1>5, <1>7, <1>8, <1>11 DEF StopInv, Live
<1>14. QED
  BY <1>7, <1>9, <1>10, <1>12, <1>13 DEF ClusterInv

\* What holds while StopAll runs.
LEMMA InStopAll ==
    ASSUME ClusterInv, op[Main].pc \in {"each", "shut"}
    PROVE  /\ Main \in Procs /\ op[Main] \in Ops /\ OpOK(Main, op[Main])
           /\ lock = Main /\ op[Main].kind = "stopall"
           /\ \A p \in Procs : p # Main => op[p].pc \notin Locked
           /\ \A w \in Watchers : watch[w].phase # "syncing"
           /\ \A c \in Clusters : pipelines[c] # None => Live(c) \/ Going(c)
<1>1. Main \in Procs /\ op[Main] \in Ops /\ OpOK(Main, op[Main])
  BY Holder DEF ClusterInv, OpsOK
<1>2. op[Main].kind = "stopall"
  BY <1>1 DEF OpOK
<1>3. lock = Main /\ \A p \in Procs : p # Main => op[p].pc \notin Locked
  BY <1>1, Holder DEF Locked, ClusterInv, LockInv
<1>4. \A w \in Watchers : watch[w].phase # "syncing"
  BY <1>3 DEF ClusterInv, StartInv
<1>5. \A c \in Clusters : ~Stopping(c)
  BY <1>2, <1>3 DEF Stopping
<1>6. QED
  BY <1>1, <1>2, <1>3, <1>4, <1>5 DEF ClusterInv, StopInv

LEMMA StopEachStep ==
    ASSUME ClusterInv, StopEach
    PROVE  ClusterInv'
<1>1. PICK c \in op[Main].todo :
         /\ watch' = [watch EXCEPT ![pipelines[c]].phase = "cancelled"]
         /\ op' = [op EXCEPT ![Main].pc = "shut", ![Main].watcher = pipelines[c],
                             ![Main].todo = @ \ {c}]
  BY DEF StopEach
<1> DEFINE w == pipelines[c]
           new == [op[Main] EXCEPT !.pc = "shut", !.watcher = w, !.todo = @ \ {c}]
<1>2. /\ op[Main].pc = "each" /\ op' = [op EXCEPT ![Main] = new]
      /\ UNCHANGED <<row, pipelines, lock, call, mode, left, crashes>>
  BY <1>1 DEF StopEach
<1>3. /\ Main \in Procs /\ op[Main] \in Ops /\ lock = Main /\ op[Main].kind = "stopall"
      /\ \A p \in Procs : p # Main => op[p].pc \notin Locked
      /\ \A v \in Watchers : watch[v].phase # "syncing"
      /\ \A d \in Clusters : pipelines[d] # None => Live(d) \/ Going(d)
  BY <1>2, InStopAll
<1>4. c \in Clusters /\ w \in Watchers /\ watch[w].cluster = c /\ watch[w].phase = "live"
  <2>1. c \in Clusters /\ w # None
    BY <1>3 DEF Ops, ClusterInv, StopInv
  <2>2. Live(c)
    BY <1>3, <2>1 DEF Going
  <2>3. QED
    BY <2>1, <2>2 DEF Live, ClusterInv, TablesOK
<1>5. /\ new \in Ops /\ new.kind = "stopall" /\ new.pc = "shut" /\ new.watcher = w
      /\ new.todo = op[Main].todo \ {c}
  BY <1>3, <1>4 DEF Ops, Steps
<1> HIDE DEF new
<1>6. OpOK(Main, new)
  BY <1>4, <1>5 DEF OpOK
<1>7. OpsOK' /\ op'[Main] = new /\ \A p \in Procs : p # Main => op'[p] = op[p]
  BY <1>2, <1>3, <1>5, <1>6, OneOp
<1>8. /\ watch'[w].phase = "cancelled"
      /\ \A v \in Watchers : v # w => watch'[v] = watch[v]
  BY <1>1, <1>4 DEF ClusterInv, TablesOK
<1>9. TablesOK'
  BY <1>1, <1>2, <1>4 DEF ClusterInv, TablesOK
<1>10. RestOK' /\ QuietInv'
  BY <1>2, <1>8, SameRest DEF ClusterInv, QuietInv
<1>11. LockInv'
  BY <1>2, <1>3, <1>5, <1>7 DEF LockInv, Locked
<1>12. \A v \in Watchers : watch'[v].phase = "live" => v # w /\ watch'[v] = watch[v]
  BY <1>8
<1>13. StartInv'
  <2>1. \A p \in Procs : op'[p].pc # "sync"
    BY <1>3, <1>5, <1>7 DEF Locked
  <2>2. \A v \in Watchers : watch'[v].phase # "syncing"
    BY <1>3, <1>8
  <2>3. QED
    BY <1>2, <1>12, <2>1, <2>2 DEF ClusterInv, StartInv
<1>14. StopInv'
  <2>1. \A p \in Procs : op'[p].pc = "shut" => op'[p].kind = "stopall"
    BY <1>3, <1>5, <1>7 DEF Locked
  <2>2. ASSUME NEW v \in Watchers, watch'[v].phase = "live"
        PROVE  watch'[v].cluster \in new.todo
    <3>1. v # w /\ watch'[v] = watch[v] /\ watch[v].phase = "live"
      BY <1>12, <2>2
    <3>2. watch[v].cluster \in op[Main].todo /\ pipelines[watch[v].cluster] = v
      BY <1>3, <3>1 DEF ClusterInv, StopInv, StartInv
    <3>3. QED
      BY <1>5, <3>1, <3>2
  <2>3. \A d \in new.todo : pipelines'[d] # None
    BY <1>2, <1>3, <1>5 DEF ClusterInv, StopInv
  <2>4. ASSUME NEW d \in Clusters, pipelines'[d] # None PROVE Live(d)' \/ Going(d)'
    <3>1. CASE d = c
      BY <1>2, <1>3, <1>5, <1>7, <3>1 DEF Going
    <3>2. CASE d # c /\ Live(d)
      <4>1. pipelines[d] \in Watchers /\ pipelines[d] # w
        BY <1>2, <1>4, <2>4, <3>2 DEF Live, ClusterInv, TablesOK
      <4>2. QED
        BY <1>2, <1>8, <3>2, <4>1 DEF Live
    <3>3. CASE d # c /\ Going(d)
      <4>1. watch[pipelines[d]].phase = "off" /\ d \notin op[Main].todo
        BY <1>2, <3>3 DEF Going
      <4>2. pipelines[d] \in Watchers /\ pipelines[d] # w
        BY <1>2, <1>4, <2>4, <4>1 DEF ClusterInv, TablesOK
      <4>3. QED
        BY <1>2, <1>3, <1>5, <1>7, <1>8, <4>1, <4>2 DEF Going
    <3>4. QED
      BY <1>2, <1>3, <2>4, <3>1, <3>2, <3>3
  <2>5. QED
    BY <1>5, <1>7, <2>1, <2>2, <2>3, <2>4 DEF StopInv
<1>15. QED
  BY <1>7, <1>9, <1>10, <1>11, <1>13, <1>14 DEF ClusterInv

LEMMA StoppedEachStep ==
    ASSUME ClusterInv, StoppedEach
    PROVE  ClusterInv'
<1> DEFINE new == [op[Main] EXCEPT !.pc = "each"]
<1>1. /\ op[Main].pc = "shut" /\ watch[op[Main].watcher].phase = "off"
      /\ op' = [op EXCEPT ![Main] = new]
      /\ UNCHANGED <<row, pipelines, lock, watch, call, mode, left, crashes>>
  BY DEF StoppedEach, Goto
<1>2. /\ Main \in Procs /\ op[Main] \in Ops /\ lock = Main /\ op[Main].kind = "stopall"
      /\ \A p \in Procs : p # Main => op[p].pc \notin Locked
      /\ \A v \in Watchers : watch[v].phase # "syncing"
      /\ \A d \in Clusters : pipelines[d] # None => Live(d) \/ Going(d)
  BY <1>1, InStopAll
<1>3. /\ new \in Ops /\ new.kind = "stopall" /\ new.pc = "each"
      /\ new.todo = op[Main].todo
  BY <1>2 DEF Ops, Steps
<1> HIDE DEF new
<1>4. OpOK(Main, new)
  BY <1>3 DEF OpOK
<1>5. OpsOK' /\ op'[Main] = new /\ \A p \in Procs : p # Main => op'[p] = op[p]
  BY <1>1, <1>2, <1>3, <1>4, OneOp
<1>6. RestOK' /\ TablesOK' /\ QuietInv'
  BY <1>1, SameRest DEF ClusterInv, TablesOK, QuietInv
<1>7. LockInv'
  BY <1>1, <1>2, <1>3, <1>5 DEF LockInv, Locked
<1>8. \A p \in Procs : op'[p].pc \notin {"sync", "shut"}
  BY <1>2, <1>3, <1>5 DEF Locked
<1>9. StartInv'
  BY <1>1, <1>2, <1>8 DEF ClusterInv, StartInv
<1>10. StopInv'
  <2>1. \A d \in Clusters : pipelines'[d] # None => Live(d)' \/ Going(d)'
    BY <1>1, <1>2, <1>3, <1>5 DEF Live, Going
  <2>2. QED
    BY <1>1, <1>2, <1>3, <1>5, <1>8, <2>1 DEF ClusterInv, StopInv
<1>11. QED
  BY <1>5, <1>6, <1>7, <1>9, <1>10 DEF ClusterInv

LEMMA StoppedAllStep ==
    ASSUME ClusterInv, StoppedAll
    PROVE  ClusterInv'
<1>1. /\ op[Main].pc = "each" /\ op[Main].todo = {}
      /\ pipelines' = [c \in Clusters |-> None] /\ lock' = None /\ mode' = "down"
      /\ op' = [op EXCEPT ![Main] = Idle]
      /\ UNCHANGED <<row, watch, call, left, crashes>>
  BY DEF StoppedAll, Return
<1>2. /\ Main \in Procs /\ op[Main].kind = "stopall"
      /\ \A p \in Procs : p # Main => op[p].pc \notin Locked
      /\ \A v \in Watchers : watch[v].phase # "syncing"
  BY <1>1, InStopAll
<1>3. OpsOK' /\ op'[Main] = Idle /\ \A p \in Procs : p # Main => op'[p] = op[p]
  BY <1>1, <1>2, IdleOK, OneOp
<1>4. \A v \in Watchers : watch[v].phase # "live"
  BY <1>1, <1>2 DEF ClusterInv, StopInv
<1>5. \A p \in Procs : op'[p].pc \notin Locked
  BY <1>2, <1>3 DEF Idle, Locked
<1>6. RestOK' /\ TablesOK' /\ QuietInv'
  BY <1>1 DEF ClusterInv, RestOK, TablesOK, QuietInv
<1>7. LockInv' /\ StartInv'
  BY <1>1, <1>2, <1>4, <1>5 DEF LockInv, StartInv, Locked
<1>8. StopInv'
  BY <1>1, <1>3, <1>5 DEF StopInv, Idle, Locked
<1>9. QED
  BY <1>3, <1>6, <1>7, <1>8 DEF ClusterInv

LEMMA CrashStep ==
    ASSUME ClusterInv, Crash
    PROVE  ClusterInv'
<1>1. /\ crashes > 0 /\ crashes' = crashes - 1
      /\ pipelines' = [c \in Clusters |-> None] /\ lock' = None
      /\ watch' = [w \in Watchers |-> Off] /\ call' = [w \in Watchers |-> Silent]
      /\ op' = [o \in Procs |-> Idle] /\ mode' = "boot"
      /\ UNCHANGED <<row, left>>
  BY DEF Crash
<1>2. RestOK'
  BY <1>1, ConstantsAssumption DEF ClusterInv, RestOK
<1>3. OpsOK'
  BY <1>1, IdleOK DEF OpsOK
<1>4. TablesOK' /\ QuietInv'
  BY <1>1 DEF TablesOK, QuietInv, Off, Silent
<1>5. LockInv' /\ StartInv' /\ StopInv'
  BY <1>1 DEF LockInv, Locked, StartInv, StopInv, Idle, Off, Procs
<1>6. QED
  BY <1>2, <1>3, <1>4, <1>5 DEF ClusterInv

-----------------------------------------------------------------------------
(* The informers. *)

\* Only a watcher that is not off runs callbacks.
LEMMA CallStep ==
    ASSUME ClusterInv, NEW w \in Watchers, NEW l \in Listeners, NEW s \in {"idle", "beat", "work"},
           watch[w].phase # "off", call' = [call EXCEPT ![w][l] = s],
           UNCHANGED <<row, pipelines, lock, watch, op, mode, left, crashes>>
    PROVE  ClusterInv'
<1>1. TablesOK' /\ QuietInv'
  BY DEF ClusterInv, TablesOK, QuietInv
<1>2. RestOK' /\ OpsOK' /\ LockInv' /\ StartInv'
  BY DEF ClusterInv, RestOK, OpsOK, LockInv, StartInv
<1>3. StopInv'
  BY DEF ClusterInv, StopInv, Live, Stopping, Going
<1>4. QED
  BY <1>1, <1>2, <1>3 DEF ClusterInv

LEMMA WatcherEndsStep ==
    ASSUME ClusterInv, NEW w \in Watchers, WatcherEnds(w)
    PROVE  ClusterInv'
<1>1. /\ watch[w].phase = "cancelled" /\ call[w] = Silent
      /\ watch' = [watch EXCEPT ![w] = Off]
      /\ UNCHANGED <<row, pipelines, lock, call, op, mode, left, crashes>>
  BY DEF WatcherEnds
<1>2. /\ watch'[w].phase = "off"
      /\ \A v \in Watchers : v # w => watch'[v] = watch[v]
  BY <1>1 DEF ClusterInv, TablesOK, Off
<1>3. TablesOK' /\ QuietInv'
  BY <1>1 DEF ClusterInv, TablesOK, QuietInv, Off
<1>4. RestOK' /\ OpsOK' /\ LockInv'
  BY <1>1, SameRest DEF ClusterInv, OpsOK, LockInv
<1>5. \A v \in Watchers : watch'[v].phase \in {"live", "syncing"} => watch'[v] = watch[v]
  BY <1>2
<1>6. StartInv'
  <2>1. ASSUME NEW o \in Procs, op[o].pc = "sync" PROVE op[o].watcher # w
    BY <1>1, <2>1 DEF ClusterInv, StartInv
  <2>2. QED
    BY <1>1, <1>2, <1>5, <2>1 DEF ClusterInv, StartInv
<1>7. StopInv'
  <2>1. ASSUME NEW c \in Clusters, pipelines'[c] # None
        PROVE  Live(c)' \/ Stopping(c)' \/ Going(c)'
    <3>1. pipelines'[c] = pipelines[c] /\ pipelines[c] \in Watchers
      BY <1>1, <2>1 DEF ClusterInv, TablesOK
    <3>2. CASE Live(c)
      BY <1>1, <1>2, <3>1, <3>2 DEF Live
    <3>3. CASE Stopping(c)
      BY <1>1, <3>3 DEF Stopping
    <3>4. CASE Going(c)
      BY <1>1, <1>2, <3>1, <3>4 DEF Going
    <3>5. QED
      BY <2>1, <3>1, <3>2, <3>3, <3>4 DEF ClusterInv, StopInv
  <2>2. QED
    BY <1>1, <1>5, <2>1 DEF ClusterInv, StopInv
<1>8. QED
  BY <1>3, <1>4, <1>6, <1>7 DEF ClusterInv

LEMMA InformerStep ==
    ASSUME ClusterInv, NEW w \in Watchers, Informer(w)
    PROVE  ClusterInv'
<1>1. \A l \in Listeners : call[w][l] # "idle" => watch[w].phase # "off"
  BY DEF ClusterInv, QuietInv, Silent
<1>2. ASSUME NEW l \in Listeners, Deliver(w, l) PROVE ClusterInv'
  BY <1>2, CallStep DEF Deliver
<1>3. ASSUME NEW l \in Listeners, Heartbeat(w, l) PROVE ClusterInv'
  BY <1>1, <1>3, CallStep DEF Heartbeat
<1>4. ASSUME NEW l \in Listeners, Handled(w, l) PROVE ClusterInv'
  BY <1>1, <1>4, CallStep DEF Handled
<1>5. QED
  BY <1>2, <1>3, <1>4, WatcherEndsStep DEF Informer

-----------------------------------------------------------------------------
(* Theorems. *)

LEMMA NextClusters ==
    ASSUME ClusterInv, Next PROVE ClusterInv'
<1>1. ASSUME NEW o \in Procs, Step(o) \/ Synced(o) PROVE ClusterInv'
  <2>1. CASE Insert(o) \/ Read(o) \/ Save(o) \/ Delete(o) \/ Check(o)
    BY <2>1, InsertStep, ReadStep, SaveStep, DeleteStep, CheckStep
  <2>2. CASE StartCluster(o) \/ Synced(o)
    BY <2>2, StartStep, SyncedStep, SyncTimesOutStep, RereadStep, RewriteStep DEF StartCluster
  <2>3. CASE StopCluster(o)
    BY <2>3, StopStep, ShutStep DEF StopCluster
  <2>4. QED
    BY <1>1, <2>1, <2>2, <2>3 DEF Step
<1>2. CASE Shutdown
  BY <1>2, StopAllStep, StopEachStep, StoppedEachStep, StoppedAllStep DEF Shutdown
<1>3. QED
  BY <1>1, <1>2, RequestStep, BootStep, CrashStep, InformerStep DEF Next

LEMMA StutterClusters ==
    ASSUME ClusterInv, UNCHANGED vars PROVE ClusterInv'
<1>1. TablesOK' /\ QuietInv' /\ RestOK' /\ OpsOK' /\ LockInv' /\ StartInv'
  BY DEF vars, ClusterInv, TablesOK, QuietInv, RestOK, OpsOK, LockInv, StartInv
<1>2. StopInv'
  BY DEF vars, ClusterInv, StopInv, Live, Stopping, Going
<1>3. QED
  BY <1>1, <1>2 DEF ClusterInv

\* The inductive invariant of the manager: who holds m.mu, which watcher is being
\* started, and how far StopAll has come.
THEOREM ClusterInvariant == Spec => []ClusterInv
<1>1. ClusterInv /\ [Next]_vars => ClusterInv'
  BY NextClusters, StutterClusters
<1>2. QED
  BY InitClusters, <1>1, PTL DEF Spec

\* The map, the lock, the watchers and the requests keep their types
\* (manager.go, cluster_svc.go).
THEOREM TypeCorrect == Spec => []TypeOK
  BY ClusterInvariant, TypeFollows, PTL

\* However requests, StopAll, timeouts and crashes interleave, no watcher runs
\* outside the map of pipelines and no cluster has two (manager.go StartCluster,
\* StopCluster).
THEOREM NoOrphans == Spec => []NoOrphan
  BY ClusterInvariant, OrphanFollows, PTL

LEMMA SilentStep ==
    ASSUME ClusterInv, Next, NEW c \in Clusters,
           pipelines[c] # None, pipelines'[c] = None, mode' # "boot"
    PROVE  call[pipelines[c]] = Silent
<1>1. pipelines[c] \in Watchers
  BY DEF ClusterInv, TablesOK
<1>2. ASSUME NEW o \in Procs, Step(o) \/ Synced(o)
      PROVE  watch[pipelines[c]].phase = "off"
  <2>1. CASE Shut(o)
    <3>1. /\ op[o].pc = "shut" /\ op[o].kind # "stopall"
          /\ watch[op[o].watcher].phase = "off"
          /\ pipelines' = [pipelines EXCEPT ![op[o].cluster] = None]
      BY <2>1 DEF Shut
    <3>2. op[o].cluster \in Clusters /\ pipelines[op[o].cluster] = op[o].watcher
      BY <3>1 DEF ClusterInv, OpsOK, OpOK, StopInv
    <3>3. c = op[o].cluster
      BY <3>1, <3>2 DEF ClusterInv, TablesOK
    <3>4. QED
      BY <3>1, <3>2, <3>3
  <2>2. CASE Synced(o)
    <3>1. op[o].pc = "sync" /\ pipelines' = [pipelines EXCEPT ![op[o].cluster] = op[o].watcher]
      BY <2>2 DEF Synced
    <3>2. op[o].cluster \in Clusters /\ op[o].watcher \in Watchers
      BY <3>1, Starting DEF ClusterInv, StartInv
    <3>3. pipelines'[c] # None
      BY <1>1, <3>1, <3>2, ConstantsAssumption DEF ClusterInv, TablesOK
    <3>4. QED
      BY <3>3
  <2>3. CASE ~Shut(o) /\ Step(o)
    <3>1. UNCHANGED pipelines
      BY <2>3 DEF Step, StartCluster, StopCluster, Insert, Read, Save, Delete, Check, Start,
                  SyncTimesOut, Reread, Rewrite, Stop
    <3>2. QED
      BY <3>1
  <2>4. QED
    BY <1>2, <2>1, <2>2, <2>3
<1>3. ASSUME Shutdown PROVE watch[pipelines[c]].phase = "off"
  <2>1. StoppedAll
    BY <1>3 DEF Shutdown, StopAll, StopEach, StoppedEach
  <2>2. op[Main].pc = "each" /\ op[Main].todo = {}
    BY <2>1 DEF StoppedAll
  <2>3. Live(c) \/ Going(c)
    BY <2>2, InStopAll
  <2>4. ~Live(c)
    BY <1>1, <2>2, InStopAll DEF Live, ClusterInv, StopInv
  <2>5. QED
    BY <2>2, <2>3, <2>4 DEF Going
<1>4. ASSUME NEW o \in Requests, NEW k \in Kinds, NEW d \in Clusters, Request(o, k, d)
      PROVE  FALSE
  BY <1>4 DEF Request
<1>5. ~Boot /\ ~Crash /\ \A w \in Watchers : ~Informer(w)
  BY DEF Boot, Reload, ReloadNext, Crash, Informer, Deliver, Heartbeat, Handled, WatcherEnds
<1>6. watch[pipelines[c]].phase = "off"
  BY <1>2, <1>3, <1>4, <1>5 DEF Next
<1>7. QED
  BY <1>1, <1>6 DEF ClusterInv, QuietInv

\* When StopCluster or StopAll drops a pipeline from the map, none of the
\* callbacks of its watcher is running any more (manager.go StopCluster, StopAll).
THEOREM StoppedClustersAreSilent == Spec => SilentOnceStopped
<1>1. ASSUME ClusterInv, [Next]_vars
      PROVE  [\A c \in Clusters :
                 LET w == pipelines[c] IN
                 w # None /\ pipelines'[c] = None /\ mode' # "boot" => call[w] = Silent]_vars
  BY <1>1, SilentStep
<1>2. QED
  BY ClusterInvariant, <1>1, PTL DEF Spec, SilentOnceStopped

-----------------------------------------------------------------------------
(* The manager implements ClusterPipelines. *)

\* No two clusters have one watcher.
Distinct ==
    \A c, d \in Clusters : pipelines[c] # None /\ pipelines[c] = pipelines[d] => c = d

\* A watcher that is being started is in no pipeline yet.
LEMMA BegunIs ==
    ASSUME ClusterInv, NEW c \in Clusters, NEW w \in Watchers, Begun(c, w)
    PROVE  /\ lock \in Procs /\ op[lock].pc = "sync"
           /\ op[lock].watcher = w /\ op[lock].cluster = c
           /\ pipelines[c] = None
           /\ \A d \in Clusters : pipelines[d] # w
<1>1. watch[w].phase = "syncing" /\ watch[w].cluster = c
  BY DEF Begun
<1>2. lock \in Procs /\ op[lock].pc = "sync" /\ op[lock].watcher = w
  BY <1>1 DEF ClusterInv, StartInv, LockInv
<1>3. op[lock].cluster = c /\ pipelines[c] = None
  BY <1>1, <1>2 DEF ClusterInv, StartInv
<1>4. ASSUME NEW d \in Clusters, pipelines[d] = w PROVE FALSE
  <2>1. Live(d)
    BY <1>2, <1>4, AllLive, ConstantsAssumption
  <2>2. QED
    BY <1>1, <1>4, <2>1 DEF Live
<1>5. QED
  BY <1>2, <1>3, <1>4

LEMMA OneOwner ==
    ASSUME ClusterInv, Distinct, NEW c \in Clusters, NEW d \in Clusters, NEW w \in Watchers,
           Owns(c, w), Owns(d, w)
    PROVE  c = d
<1>1. CASE Begun(c, w) \/ Begun(d, w)
  <2>1. Begun(c, w) /\ Begun(d, w)
    BY <1>1, BegunIs DEF Owns
  <2>2. QED
    BY <2>1 DEF Begun
<1>2. CASE ~Begun(c, w) /\ ~Begun(d, w)
  BY <1>2, ConstantsAssumption DEF Owns, Distinct
<1>3. QED
  BY <1>1, <1>2

\* The phase of a cluster that is not being started.
LEMMA PhaseIs ==
    ASSUME ClusterInv, NEW c \in Clusters
    PROVE  /\ pipelines[c] # None =>
                PhaseOf(c) = IF watch[pipelines[c]].phase = "live" THEN "on" ELSE "stopping"
           /\ pipelines[c] = None /\ (\A w \in Watchers : ~Begun(c, w)) => PhaseOf(c) = "off"
           /\ (\E w \in Watchers : Begun(c, w)) <=> PhaseOf(c) = "starting"
  BY BegunIs DEF PhaseOf

\* Nothing is being started when no request waits for its caches, and nothing
\* is being stopped either when the lock is free or held by StartCluster.
LEMMA NoneBegun ==
    ASSUME ClusterInv, \A o \in Procs : op[o].pc # "sync"
    PROVE  \A c \in Clusters, w \in Watchers : ~Begun(c, w)
  BY BegunIs

LEMMA NoneStopping ==
    ASSUME ClusterInv, NEW c \in Clusters,
           lock = None \/ (lock \in Procs /\ op[lock].pc \in {"sync", "reread", "rewrite"})
    PROVE  PhaseOf(c) # "stopping"
<1>1. CASE pipelines[c] = None
  BY <1>1 DEF PhaseOf
<1>2. CASE pipelines[c] # None
  <2>1. Live(c)
    BY <1>2, AllLive
  <2>2. QED
    BY <1>2, <2>1, PhaseIs DEF Live
<1>3. QED
  BY <1>1, <1>2

\* A step that leaves a cluster's watcher alone.
LEMMA PhaseKept ==
    ASSUME NEW c \in Clusters, pipelines'[c] = pipelines[c],
           \A w \in Watchers : Begun(c, w)' <=> Begun(c, w),
           pipelines[c] # None =>
              (watch'[pipelines[c]].phase = "live" <=> watch[pipelines[c]].phase = "live")
    PROVE  PhaseOf(c)' = PhaseOf(c)
  BY DEF PhaseOf

LEMMA BusyKept ==
    ASSUME NEW c \in Clusters, \A w \in Watchers : Owns(c, w)' <=> Owns(c, w),
           \A w \in Watchers : Owns(c, w) => (call'[w] = Silent <=> call[w] = Silent)
    PROVE  Busy(c)' = Busy(c)
  BY DEF Busy, Silent

LEMMA Unseen ==
    ASSUME \A c \in Clusters : PhaseOf(c)' = PhaseOf(c) /\ Busy(c)' = Busy(c),
           UNCHANGED crashes
    PROVE  UNCHANGED Pipelines!pvars
  BY DEF Pipelines!pvars

\* One cluster moves from a phase to the next.
LEMMA MovesTo ==
    ASSUME NEW c \in Clusters, \A d \in Clusters : d # c => PhaseOf(d)' = PhaseOf(d)
    PROVE  [d \in Clusters |-> PhaseOf(d)]' =
              [[d \in Clusters |-> PhaseOf(d)] EXCEPT ![c] = PhaseOf(c)']
  OBVIOUS

LEMMA BusyTo ==
    ASSUME NEW c \in Clusters, \A d \in Clusters : d # c => Busy(d)' = Busy(d)
    PROVE  [d \in Clusters |-> Busy(d)]' =
              [[d \in Clusters |-> Busy(d)] EXCEPT ![c] = Busy(c)']
  OBVIOUS

LEMMA BusySame ==
    ASSUME \A d \in Clusters : Busy(d)' = Busy(d)
    PROVE  [d \in Clusters |-> Busy(d)]' = [d \in Clusters |-> Busy(d)]
  OBVIOUS
LEMMA StartBegins ==
    ASSUME ClusterInv, NEW o \in Procs, Start(o)
    PROVE  [Pipelines!Next]_(Pipelines!pvars)
<1>1. op[o].pc = "start" /\ lock = None /\ UNCHANGED <<pipelines, call, crashes>>
  BY DEF Start
<1>2. PICK c \in Clusters : c = op[o].cluster
  BY <1>1, OpCluster
<1>3. ASSUME UNCHANGED watch PROVE UNCHANGED Pipelines!pvars
  BY <1>1, <1>3, Unseen DEF PhaseOf, Busy, Owns, Begun
<1>4. ASSUME NEW w \in Watchers, watch[w] = Off, pipelines[c] = None,
             watch' = [watch EXCEPT ![w] = [cluster |-> c, phase |-> "syncing"]]
      PROVE  Pipelines!Next
  <2>1. \A d \in Clusters, v \in Watchers : ~Begun(d, v)
    BY <1>1, Holder, NoneBegun DEF Locked
  <2>2. \A d \in Clusters : PhaseOf(d) \notin {"starting", "stopping"}
    BY <1>1, <2>1, PhaseIs, NoneStopping
  <2>3. PhaseOf(c) = "off"
    BY <1>2, <1>4, <2>1, PhaseIs
  <2>4. /\ watch'[w] = [cluster |-> c, phase |-> "syncing"]
        /\ \A v \in Watchers : v # w => watch'[v] = watch[v]
    BY <1>4 DEF ClusterInv, TablesOK
  <2>5. PhaseOf(c)' = "starting"
    BY <2>4 DEF PhaseOf, Begun
  <2>6. \A d \in Clusters : d # c => \A v \in Watchers : Begun(d, v)' <=> Begun(d, v)
    BY <2>1, <2>4 DEF Begun
  <2>7. \A d \in Clusters : pipelines[d] # w
    <3>1. ASSUME NEW d \in Clusters, pipelines[d] = w PROVE FALSE
      <4>1. Live(d)
        BY <1>1, <3>1, AllLive, ConstantsAssumption
      <4>2. QED
        BY <1>4, <3>1, <4>1 DEF Live, Off
    <3>2. QED
      BY <3>1
  <2>8. ASSUME NEW d \in Clusters, d # c
        PROVE  PhaseOf(d)' = PhaseOf(d) /\ Busy(d)' = Busy(d)
    <3>1. pipelines[d] # None => pipelines[d] \in Watchers /\ pipelines[d] # w
      BY <2>7 DEF ClusterInv, TablesOK
    <3>2. PhaseOf(d)' = PhaseOf(d)
      BY <1>1, <2>4, <2>6, <2>8, <3>1, PhaseKept
    <3>3. \A v \in Watchers : Owns(d, v)' <=> Owns(d, v)
      BY <1>1, <2>6, <2>8 DEF Owns
    <3>4. Busy(d)' = Busy(d)
      BY <1>1, <3>3, BusyKept
    <3>5. QED
      BY <3>2, <3>4
  <2>9. ~Busy(c) /\ ~Busy(c)'
    <3>1. call[w] = Silent
      BY <1>4 DEF ClusterInv, QuietInv, Off
    <3>2. \A v \in Watchers : ~Owns(c, v)
      BY <1>2, <1>4, <2>1, ConstantsAssumption DEF Owns
    <3>3. \A v \in Watchers : v # w => ~Owns(c, v)'
      BY <1>1, <2>4, <3>2 DEF Owns, Begun
    <3>4. ~Busy(c)
      BY <3>2 DEF Busy
    <3>5. call'[w] = Silent'
      BY <1>1, <3>1 DEF Silent
    <3>6. QED
      BY <3>3, <3>4, <3>5 DEF Busy
  <2>10. Pipelines!Begin(c)
    <3>1. \A d \in Clusters : Busy(d)' = Busy(d)
      BY <1>2, <2>8, <2>9 DEF Busy
    <3>2. Pipelines!In("starting") \cup Pipelines!In("stopping") = {}
      BY <2>2 DEF Pipelines!In
    <3>3. QED
      BY <1>1, <1>2, <2>3, <2>5, <2>8, <3>1, <3>2, MovesTo, BusySame DEF Pipelines!Begin
  <2>11. QED
    BY <1>2, <2>10 DEF Pipelines!Next
<1>5. QED
  BY <1>2, <1>3, <1>4 DEF Start

\* What a start is at when its caches sync, or do not.
LEMMA SyncingIs ==
    ASSUME ClusterInv, NEW o \in Procs, op[o].pc = "sync"
    PROVE  /\ op[o].cluster \in Clusters /\ op[o].watcher \in Watchers
           /\ lock = o
           /\ watch[op[o].watcher].phase = "syncing"
           /\ watch[op[o].watcher].cluster = op[o].cluster
           /\ Begun(op[o].cluster, op[o].watcher)
           /\ pipelines[op[o].cluster] = None
           /\ \A d \in Clusters, v \in Watchers :
                 Begun(d, v) => d = op[o].cluster /\ v = op[o].watcher
           /\ \A d \in Clusters : pipelines[d] # op[o].watcher
<1>1. lock = o /\ op[o].cluster \in Clusters
  BY Starting
<1>2. /\ op[o].watcher \in Watchers
      /\ watch[op[o].watcher].phase = "syncing"
      /\ watch[op[o].watcher].cluster = op[o].cluster
  BY DEF ClusterInv, StartInv
<1>3. Begun(op[o].cluster, op[o].watcher)
  BY <1>2 DEF Begun, ClusterInv, TablesOK
<1>4. QED
  BY <1>1, <1>2, <1>3, BegunIs

LEMMA SyncedReady ==
    ASSUME ClusterInv, NEW o \in Procs, Synced(o),
           NEW c \in Clusters, c = op[o].cluster, NEW w \in Watchers, w = op[o].watcher
    PROVE  Pipelines!Next
<1>1. /\ op[o].pc = "sync"
      /\ watch' = [watch EXCEPT ![w].phase = "live"]
      /\ pipelines' = [pipelines EXCEPT ![c] = w]
      /\ UNCHANGED <<call, crashes>>
  BY DEF Synced
<1>2. /\ c \in Clusters /\ w \in Watchers /\ lock = o
      /\ watch[w].phase = "syncing" /\ watch[w].cluster = c
      /\ Begun(c, w) /\ pipelines[c] = None
      /\ \A d \in Clusters, v \in Watchers : Begun(d, v) => d = c /\ v = w
      /\ \A d \in Clusters : pipelines[d] # w
  BY <1>1, SyncingIs
<1>3. /\ watch'[w].phase = "live"
      /\ \A v \in Watchers : v # w => watch'[v] = watch[v]
      /\ pipelines'[c] = w
      /\ \A d \in Clusters : d # c => pipelines'[d] = pipelines[d]
  BY <1>1, <1>2 DEF ClusterInv, TablesOK
<1>4. ASSUME NEW d \in Clusters, NEW v \in Watchers PROVE ~Begun(d, v)'
  <2>1. CASE v = w
    BY <1>3, <2>1 DEF Begun
  <2>2. CASE v # w
    <3>1. ~Begun(d, v) /\ watch'[v] = watch[v]
      BY <1>2, <1>3, <2>2
    <3>2. QED
      BY <3>1 DEF Begun
  <2>3. QED
    BY <2>1, <2>2
<1>5. PhaseOf(c) = "starting"
  BY <1>2, PhaseIs
<1>6. PhaseOf(c)' = "on"
  BY <1>2, <1>3, <1>4, ConstantsAssumption DEF PhaseOf
<1>7. ASSUME NEW d \in Clusters
      PROVE  /\ d # c => PhaseOf(d)' = PhaseOf(d)
             /\ Busy(d)' = Busy(d)
  <2>1. \A v \in Watchers : Owns(d, v)' <=> Owns(d, v)
    BY <1>2, <1>3, <1>4, ConstantsAssumption DEF Owns
  <2>2. Busy(d)' = Busy(d)
    BY <1>1, <2>1, BusyKept
  <2>3. CASE d # c
    <3>1. pipelines[d] # None => pipelines[d] \in Watchers /\ pipelines[d] # w
      BY <1>2 DEF ClusterInv, TablesOK
    <3>2. PhaseOf(d)' = PhaseOf(d)
      BY <1>2, <1>3, <1>4, <2>3, <3>1, PhaseKept
    <3>3. QED
      BY <2>2, <3>2
  <2>4. QED
    BY <2>2, <2>3
<1>8. Pipelines!Ready(c)
  BY <1>1, <1>2, <1>5, <1>6, <1>7, MovesTo, BusySame DEF Pipelines!Ready
<1>9. QED
  BY <1>2, <1>8 DEF Pipelines!Next

LEMMA SyncGivesUp ==
    ASSUME ClusterInv, NEW o \in Procs, SyncTimesOut(o),
           NEW c \in Clusters, c = op[o].cluster, NEW w \in Watchers, w = op[o].watcher
    PROVE  Pipelines!Next
<1>1. /\ op[o].pc = "sync"
      /\ watch' = [watch EXCEPT ![w].phase = "cancelled"]
      /\ UNCHANGED <<pipelines, call, crashes>>
  BY DEF SyncTimesOut
<1>2. /\ c \in Clusters /\ w \in Watchers /\ lock = o
      /\ watch[w].phase = "syncing" /\ watch[w].cluster = c
      /\ Begun(c, w) /\ pipelines[c] = None
      /\ \A d \in Clusters, v \in Watchers : Begun(d, v) => d = c /\ v = w
      /\ \A d \in Clusters : pipelines[d] # w
  BY <1>1, SyncingIs
<1>3. /\ watch'[w].phase = "cancelled"
      /\ \A v \in Watchers : v # w => watch'[v] = watch[v]
  BY <1>1, <1>2 DEF ClusterInv, TablesOK
<1>4. ASSUME NEW d \in Clusters, NEW v \in Watchers PROVE ~Begun(d, v)'
  <2>1. CASE v = w
    BY <1>3, <2>1 DEF Begun
  <2>2. CASE v # w
    <3>1. ~Begun(d, v) /\ watch'[v] = watch[v]
      BY <1>2, <1>3, <2>2
    <3>2. QED
      BY <3>1 DEF Begun
  <2>3. QED
    BY <2>1, <2>2
<1>5. PhaseOf(c) = "starting"
  BY <1>2, PhaseIs
<1>6. PhaseOf(c)' = "off"
  BY <1>1, <1>2, <1>4 DEF PhaseOf
<1>7. ~Busy(c)'
  BY <1>1, <1>2, <1>4, ConstantsAssumption DEF Busy, Owns
<1>8. ASSUME NEW d \in Clusters, d # c
      PROVE  PhaseOf(d)' = PhaseOf(d) /\ Busy(d)' = Busy(d)
  <2>1. \A v \in Watchers : Owns(d, v)' <=> Owns(d, v)
    BY <1>1, <1>2, <1>4, <1>8 DEF Owns
  <2>2. Busy(d)' = Busy(d)
    BY <1>1, <2>1, BusyKept
  <2>3. pipelines[d] # None => pipelines[d] \in Watchers /\ pipelines[d] # w
    BY <1>2 DEF ClusterInv, TablesOK
  <2>4. PhaseOf(d)' = PhaseOf(d)
    BY <1>1, <1>2, <1>3, <1>4, <1>8, <2>3, PhaseKept
  <2>5. QED
    BY <2>2, <2>4
<1>9. Pipelines!GiveUp(c)
  <2>1. Busy(c)' = FALSE
    BY <1>7 DEF Busy
  <2>2. QED
    BY <1>1, <1>2, <1>5, <1>6, <1>8, <2>1, MovesTo, BusyTo DEF Pipelines!GiveUp
<1>10. QED
  BY <1>2, <1>9 DEF Pipelines!Next
LEMMA StopCancels ==
    ASSUME ClusterInv, Distinct, NEW c \in Clusters, NEW w \in Watchers,
           pipelines[c] = w, Live(c), \A o \in Procs : op[o].pc # "sync",
           watch' = [watch EXCEPT ![w].phase = "cancelled"],
           UNCHANGED <<pipelines, call, crashes>>
    PROVE  Pipelines!Next
<1>1. \A d \in Clusters, v \in Watchers : ~Begun(d, v)
  BY NoneBegun
<1>2. watch[w].phase = "live" /\ pipelines[c] # None
  BY ConstantsAssumption DEF Live
<1>3. /\ watch'[w].phase = "cancelled"
      /\ \A v \in Watchers : v # w => watch'[v] = watch[v]
  BY DEF ClusterInv, TablesOK
<1>4. ASSUME NEW d \in Clusters, NEW v \in Watchers PROVE ~Begun(d, v)'
  <2>1. CASE v = w
    BY <1>3, <2>1 DEF Begun
  <2>2. CASE v # w
    <3>1. ~Begun(d, v) /\ watch'[v] = watch[v]
      BY <1>1, <1>3, <2>2
    <3>2. QED
      BY <3>1 DEF Begun
  <2>3. QED
    BY <2>1, <2>2
<1>5. PhaseOf(c) = "on" /\ PhaseOf(c)' = "stopping"
  BY <1>1, <1>2, <1>3, <1>4 DEF PhaseOf
<1>6. ASSUME NEW d \in Clusters
      PROVE  /\ d # c => PhaseOf(d)' = PhaseOf(d)
             /\ Busy(d)' = Busy(d)
  <2>1. \A v \in Watchers : Owns(d, v)' <=> Owns(d, v)
    BY <1>1, <1>4 DEF Owns
  <2>2. Busy(d)' = Busy(d)
    BY <2>1, BusyKept
  <2>3. CASE d # c
    <3>1. pipelines[d] # None => pipelines[d] \in Watchers /\ pipelines[d] # w
      BY <1>2, <2>3 DEF ClusterInv, TablesOK, Distinct
    <3>2. PhaseOf(d)' = PhaseOf(d)
      BY <1>1, <1>3, <1>4, <3>1, PhaseKept
    <3>3. QED
      BY <2>2, <3>2
  <2>4. QED
    BY <2>2, <2>3
<1>7. Pipelines!Cancel(c)
  <2>1. Pipelines!In("starting") = {}
    BY <1>1, PhaseIs DEF Pipelines!In
  <2>2. QED
    BY <1>5, <1>6, <2>1, MovesTo, BusySame DEF Pipelines!Cancel
<1>8. QED
  BY <1>7 DEF Pipelines!Next

LEMMA StopCancelsOne ==
    ASSUME ClusterInv, Distinct, NEW o \in Procs, Stop(o)
    PROVE  [Pipelines!Next]_(Pipelines!pvars)
<1>1. op[o].pc = "stop" /\ lock = None /\ UNCHANGED <<pipelines, call, crashes>>
  BY DEF Stop
<1>2. PICK c \in Clusters : c = op[o].cluster
  BY <1>1, OpCluster
<1>3. CASE UNCHANGED watch
  BY <1>1, <1>3, Unseen DEF PhaseOf, Busy, Owns, Begun
<1>4. CASE ~UNCHANGED watch
  <2>1. PICK w \in Watchers : w = pipelines[c]
    BY <1>2, <1>4 DEF Stop, ClusterInv, TablesOK
  <2>2. watch' = [watch EXCEPT ![w].phase = "cancelled"]
    BY <1>2, <1>4, <2>1 DEF Stop
  <2>3. Live(c) /\ \A p \in Procs : op[p].pc # "sync"
    BY <1>1, <2>1, AllLive, Holder, ConstantsAssumption DEF Locked
  <2>4. QED
    BY <1>1, <2>1, <2>2, <2>3, StopCancels
<1>5. QED
  BY <1>3, <1>4

LEMMA StopEachCancels ==
    ASSUME ClusterInv, Distinct, StopEach
    PROVE  Pipelines!Next
<1>1. op[Main].pc = "each" /\ UNCHANGED <<pipelines, call, crashes>>
  BY DEF StopEach
<1>2. PICK c \in op[Main].todo : watch' = [watch EXCEPT ![pipelines[c]].phase = "cancelled"]
  BY DEF StopEach
<1>3. /\ op[Main] \in Ops /\ op[Main].kind = "stopall" /\ lock = Main
      /\ \A d \in Clusters : pipelines[d] # None => Live(d) \/ Going(d)
      /\ \A p \in Procs : op[p].pc # "sync"
  BY <1>1, InStopAll DEF Locked
<1>4. c \in Clusters /\ pipelines[c] \in Watchers /\ pipelines[c] # None
  BY <1>2, <1>3 DEF Ops, ClusterInv, StopInv, TablesOK
<1>5. Live(c)
  BY <1>2, <1>3, <1>4 DEF Going
<1>6. PICK w \in Watchers : w = pipelines[c]
  BY <1>4
<1>7. QED
  BY <1>1, <1>2, <1>3, <1>4, <1>5, <1>6, StopCancels

\* Pipelines that are dropped were stopping and are silent.
LEMMA DroppedAre ==
    ASSUME ClusterInv, UNCHANGED <<watch, call, crashes>>,
           \A d \in Clusters, v \in Watchers : ~Begun(d, v),
           NEW S \in SUBSET Clusters,
           \A d \in Clusters : d \in S <=> PhaseOf(d) = "stopping",
           \A d \in S : watch[pipelines[d]].phase = "off",
           \A d \in Clusters : pipelines'[d] = IF d \in S THEN None ELSE pipelines[d]
    PROVE  [Pipelines!Next]_(Pipelines!pvars)
<1>1. ASSUME NEW d \in Clusters, NEW v \in Watchers PROVE ~Begun(d, v)'
  <2>1. ~Begun(d, v) /\ watch'[v] = watch[v]
    OBVIOUS
  <2>2. QED
    BY <2>1 DEF Begun
<1>2. ASSUME NEW d \in S
      PROVE  PhaseOf(d)' = "off" /\ ~Busy(d) /\ ~Busy(d)'
  <2>1. PhaseOf(d)' = "off"
    BY <1>1 DEF PhaseOf
  <2>2. PhaseOf(d) = "stopping" /\ d \in Clusters
    OBVIOUS
  <2>3. pipelines[d] # None /\ pipelines[d] \in Watchers
    BY <2>2 DEF PhaseOf, ClusterInv, TablesOK
  <2>4. call[pipelines[d]] = Silent
    BY <2>3 DEF ClusterInv, QuietInv
  <2>5. ~Busy(d)
    BY <2>2, <2>3, <2>4 DEF Busy, Owns
  <2>6. ~Busy(d)'
    <3>1. pipelines'[d] = None /\ \A v \in Watchers : ~Owns(d, v)'
      BY <1>1, <2>2, ConstantsAssumption DEF Owns
    <3>2. QED
      BY <3>1 DEF Busy
  <2>7. QED
    BY <2>1, <2>5, <2>6
<1>3. ASSUME NEW d \in Clusters, d \notin S
      PROVE  PhaseOf(d)' = PhaseOf(d) /\ Busy(d)' = Busy(d)
  BY <1>1, <1>3, PhaseKept, BusyKept DEF Owns
<1>4. \A d \in Clusters : Busy(d)' = Busy(d)
  BY <1>2, <1>3, Zenon DEF Busy
<1>5. CASE S = {}
  BY <1>3, <1>5, Unseen
<1>6. CASE S # {}
  <2>1. Pipelines!In("stopping") = S
    BY DEF Pipelines!In
  <2>2. \A d \in S : [x \in Clusters |-> Busy(x)][d] = Busy(d)
    OBVIOUS
  <2>3. Pipelines!Drop
    BY <1>2, <1>3, <1>4, <1>6, <2>1, <2>2, BusySame DEF Pipelines!Drop
  <2>4. QED
    BY <2>3 DEF Pipelines!Next
<1>7. QED
  BY <1>5, <1>6

LEMMA ShutDrops ==
    ASSUME ClusterInv, NEW o \in Procs, Shut(o)
    PROVE  [Pipelines!Next]_(Pipelines!pvars)
<1>1. /\ op[o].pc = "shut" /\ op[o].kind # "stopall"
      /\ watch[op[o].watcher].phase = "off"
      /\ pipelines' = [pipelines EXCEPT ![op[o].cluster] = None]
      /\ UNCHANGED <<watch, call, crashes>>
  BY DEF Shut
<1>2. PICK c \in Clusters : c = op[o].cluster
  BY <1>1 DEF ClusterInv, OpsOK, OpOK
<1>3. pipelines[c] = op[o].watcher /\ op[o].watcher \in Watchers
  BY <1>1, <1>2 DEF ClusterInv, StopInv, OpsOK, OpOK
<1>4. lock = o /\ \A p \in Procs : p # o => op[p].pc \notin Locked
  BY <1>1, Holder DEF Locked, ClusterInv, LockInv
<1>5. \A d \in Clusters, v \in Watchers : ~Begun(d, v)
  BY <1>1, <1>4, NoneBegun DEF Locked
<1>6. PhaseOf(c) = "stopping"
  BY <1>1, <1>2, <1>3, <1>5, ConstantsAssumption DEF PhaseOf
<1>7. ASSUME NEW d \in Clusters, d # c PROVE PhaseOf(d) # "stopping"
  <2>1. CASE pipelines[d] = None
    BY <2>1 DEF PhaseOf
  <2>2. CASE pipelines[d] # None
    <3>1. ~Stopping(d)
      BY <1>2, <1>4, <1>7 DEF Stopping
    <3>2. ~Going(d)
      BY <1>1, <1>4 DEF Going
    <3>3. Live(d)
      BY <2>2, <3>1, <3>2 DEF ClusterInv, StopInv
    <3>4. QED
      BY <2>2, <3>3, PhaseIs DEF Live
  <2>3. QED
    BY <2>1, <2>2
<1>8. \A d \in Clusters : pipelines'[d] = IF d \in {c} THEN None ELSE pipelines[d]
  BY <1>1, <1>2 DEF ClusterInv, TablesOK
<1>9. QED
  <2> DEFINE S == {c}
  <2>1. /\ S \in SUBSET Clusters
        /\ \A d \in Clusters : d \in S <=> PhaseOf(d) = "stopping"
        /\ \A d \in S : watch[pipelines[d]].phase = "off"
        /\ \A d \in Clusters : pipelines'[d] = IF d \in S THEN None ELSE pipelines[d]
    BY <1>1, <1>3, <1>6, <1>7, <1>8
  <2> HIDE DEF S
  <2>2. QED
    BY <1>1, <1>5, <2>1, DroppedAre

LEMMA StoppedAllDrops ==
    ASSUME ClusterInv, StoppedAll
    PROVE  [Pipelines!Next]_(Pipelines!pvars)
<1>1. /\ op[Main].pc = "each" /\ op[Main].todo = {}
      /\ pipelines' = [c \in Clusters |-> None]
      /\ UNCHANGED <<watch, call, crashes>>
  BY DEF StoppedAll
<1>2. /\ op[Main].kind = "stopall"
      /\ \A d \in Clusters : pipelines[d] # None => Live(d) \/ Going(d)
      /\ \A p \in Procs : op[p].pc # "sync"
  BY <1>1, InStopAll DEF Locked
<1>3. \A d \in Clusters, v \in Watchers : ~Begun(d, v)
  BY <1>2, NoneBegun
<1> DEFINE S == {d \in Clusters : pipelines[d] # None}
<1>4. ASSUME NEW d \in S PROVE watch[pipelines[d]].phase = "off"
  <2>1. pipelines[d] \in Watchers /\ d \in Clusters /\ pipelines[d] # None
    BY DEF ClusterInv, TablesOK
  <2>2. ~Live(d)
    BY <1>1, <1>2, <2>1 DEF Live, ClusterInv, StopInv
  <2>3. QED
    BY <1>1, <1>2, <2>1, <2>2 DEF Going
<1>5. \A d \in Clusters : d \in S <=> PhaseOf(d) = "stopping"
  BY <1>3, <1>4 DEF PhaseOf
<1>6. \A d \in Clusters : pipelines'[d] = IF d \in S THEN None ELSE pipelines[d]
  BY <1>1
<1>7. QED
  BY <1>1, <1>3, <1>4, <1>5, <1>6, DroppedAre

LEMMA CrashKills ==
    ASSUME ClusterInv, Crash PROVE Pipelines!Next
<1>1. /\ pipelines' = [c \in Clusters |-> None]
      /\ watch' = [w \in Watchers |-> Off]
      /\ call' = [w \in Watchers |-> Silent]
  BY DEF Crash
<1>2. \A c \in Clusters, w \in Watchers : ~Begun(c, w)'
  BY <1>1 DEF Begun, Off
<1>3. \A c \in Clusters : PhaseOf(c)' = "off"
  BY <1>1, <1>2 DEF PhaseOf
<1>4. \A c \in Clusters : Busy(c)' = FALSE
  BY <1>1 DEF Busy, Silent
<1>5. MaxCrashes - crashes' = (MaxCrashes - crashes) + 1
  BY ConstantsAssumption DEF Crash, ClusterInv, RestOK
<1>6. QED
  BY <1>3, <1>4, <1>5 DEF Pipelines!Next, Pipelines!Kill
\* A callback of a watcher that has no pipeline is not seen; that of another is
\* work of its cluster.
LEMMA CallbackWorks ==
    ASSUME ClusterInv, Distinct, NEW w \in Watchers, NEW l \in Listeners,
           NEW s \in {"idle", "beat", "work"}, call' = [call EXCEPT ![w][l] = s],
           s = "idle" => call[w][l] # "idle",
           UNCHANGED <<pipelines, watch, crashes>>
    PROVE  [Pipelines!Next]_(Pipelines!pvars)
<1>1. /\ call'[w][l] = s /\ \A v \in Watchers : v # w => call'[v] = call[v]
  BY DEF ClusterInv, TablesOK
<1>2. Silent' = Silent /\ Silent[l] = "idle"
  BY DEF Silent
<1>3. \A d \in Clusters, v \in Watchers : Owns(d, v)' <=> Owns(d, v)
  BY DEF Owns, Begun
<1>4. \A d \in Clusters : PhaseOf(d)' = PhaseOf(d)
  BY DEF PhaseOf, Begun
<1>5. \A d \in Clusters : ~Owns(d, w) => Busy(d)' = Busy(d)
  BY <1>1, <1>2, <1>3, BusyKept
<1>6. CASE \A c \in Clusters : ~Owns(c, w)
  BY <1>4, <1>5, <1>6, Unseen
<1>7. ASSUME NEW c \in Clusters, Owns(c, w)
      PROVE  [Pipelines!Next]_(Pipelines!pvars)
  <2>1. \A d \in Clusters : d # c => Busy(d)' = Busy(d)
    BY <1>5, <1>7, OneOwner
  <2>2. PhaseOf(c) # "off"
    BY <1>7, ConstantsAssumption DEF PhaseOf, Owns
  <2>3. UNCHANGED [d \in Clusters |-> PhaseOf(d)]
    BY <1>4
  <2>4. CASE s # "idle"
    <3>1. Busy(c)' = TRUE
      BY <1>1, <1>2, <1>3, <1>7, <2>4 DEF Busy
    <3>2. Pipelines!Work(c)
      BY <2>1, <2>2, <2>3, <3>1, BusyTo DEF Pipelines!Work
    <3>3. QED
      BY <3>2 DEF Pipelines!Next
  <2>5. CASE s = "idle"
    <3>1. Busy(c) = TRUE
      BY <1>2, <1>7, <2>5 DEF Busy
    <3>2. CASE Busy(c)' = TRUE
      <4>1. \A d \in Clusters : Busy(d)' = Busy(d)
        BY <2>1, <3>1, <3>2
      <4>2. QED
        BY <1>4, <4>1, Unseen
    <3>3. CASE Busy(c)' = FALSE
      <4>1. Pipelines!Rest(c)
        BY <2>1, <2>3, <3>3, BusyTo DEF Pipelines!Rest
      <4>2. QED
        BY <4>1 DEF Pipelines!Next
    <3>4. QED
      BY <3>2, <3>3 DEF Busy
  <2>6. QED
    BY <2>4, <2>5
<1>8. QED
  BY <1>6, <1>7

LEMMA EndingIsUnseen ==
    ASSUME ClusterInv, NEW w \in Watchers, WatcherEnds(w)
    PROVE  UNCHANGED Pipelines!pvars
<1>1. /\ watch[w].phase = "cancelled"
      /\ watch' = [watch EXCEPT ![w] = Off]
      /\ UNCHANGED <<pipelines, call, crashes>>
  BY DEF WatcherEnds
<1>2. /\ watch'[w].phase = "off"
      /\ \A v \in Watchers : v # w => watch'[v] = watch[v]
  BY <1>1 DEF ClusterInv, TablesOK, Off
<1>3. ASSUME NEW d \in Clusters, NEW v \in Watchers
      PROVE  Begun(d, v)' <=> Begun(d, v)
  <2>1. CASE v = w
    BY <1>1, <1>2, <2>1 DEF Begun
  <2>2. CASE v # w
    BY <1>2, <2>2 DEF Begun
  <2>3. QED
    BY <2>1, <2>2
<1>4. ASSUME NEW d \in Clusters
      PROVE  PhaseOf(d)' = PhaseOf(d) /\ Busy(d)' = Busy(d)
  <2>1. pipelines[d] # None =>
           (watch'[pipelines[d]].phase = "live" <=> watch[pipelines[d]].phase = "live")
    BY <1>1, <1>2 DEF ClusterInv, TablesOK
  <2>2. PhaseOf(d)' = PhaseOf(d)
    BY <1>1, <1>3, <2>1, PhaseKept
  <2>3. Busy(d)' = Busy(d)
    BY <1>1, <1>3, BusyKept DEF Owns
  <2>4. QED
    BY <2>2, <2>3
<1>5. QED
  BY <1>1, <1>4, Unseen

\* Steps that change neither the map, nor a watcher, nor a callback.
LEMMA ElsewhereIsUnseen ==
    ASSUME UNCHANGED <<pipelines, watch, call, crashes>>
    PROVE  UNCHANGED Pipelines!pvars
  BY Unseen DEF PhaseOf, Busy, Owns, Begun

LEMMA BootElsewhere ==
    ASSUME Boot PROVE UNCHANGED <<pipelines, watch, call, crashes>>
<1>1. CASE Reload
  BY <1>1 DEF Reload
<1>2. CASE ReloadNext
  BY <1>2, Zenon DEF ReloadNext
<1>3. QED
  BY <1>1, <1>2 DEF Boot

LEMMA PipelinesStep ==
    ASSUME ClusterInv, Distinct, [Next]_vars
    PROVE  [Pipelines!Next]_(Pipelines!pvars)
<1>1. ASSUME NEW o \in Procs, Step(o) \/ Synced(o)
      PROVE  [Pipelines!Next]_(Pipelines!pvars)
  <2>1. CASE Synced(o) \/ SyncTimesOut(o)
    <3>1. op[o].pc = "sync"
      BY <2>1 DEF Synced, SyncTimesOut
    <3>2. PICK c \in Clusters, w \in Watchers : c = op[o].cluster /\ w = op[o].watcher
      BY <3>1, SyncingIs
    <3>3. QED
      BY <2>1, <3>2, SyncedReady, SyncGivesUp
  <2>2. CASE Insert(o) \/ Read(o) \/ Save(o) \/ Delete(o) \/ Check(o) \/ Reread(o) \/ Rewrite(o)
    BY <2>2, ElsewhereIsUnseen DEF Insert, Read, Save, Delete, Check, Reread, Rewrite
  <2>3. QED
    BY <1>1, <2>1, <2>2, StartBegins, StopCancelsOne, ShutDrops
       DEF Step, StartCluster, StopCluster
<1>2. CASE Shutdown
  <2>1. CASE StopAll \/ StoppedEach
    BY <2>1, ElsewhereIsUnseen DEF StopAll, StoppedEach
  <2>2. QED
    BY <1>2, <2>1, StopEachCancels, StoppedAllDrops DEF Shutdown
<1>3. ASSUME NEW w \in Watchers, Informer(w)
      PROVE  [Pipelines!Next]_(Pipelines!pvars)
  <2>1. ASSUME NEW l \in Listeners, Deliver(w, l) \/ Heartbeat(w, l) \/ Handled(w, l)
        PROVE  [Pipelines!Next]_(Pipelines!pvars)
    BY <2>1, CallbackWorks DEF Deliver, Heartbeat, Handled
  <2>2. QED
    BY <1>3, <2>1, EndingIsUnseen DEF Informer
<1>4. ASSUME NEW o \in Requests, NEW k \in Kinds, NEW c \in Clusters, Request(o, k, c)
      PROVE  UNCHANGED Pipelines!pvars
  BY <1>4, ElsewhereIsUnseen DEF Request
<1>7. CASE Boot
  BY <1>7, BootElsewhere, ElsewhereIsUnseen
<1>5. CASE UNCHANGED vars
  BY <1>5, ElsewhereIsUnseen DEF vars
<1>6. QED
  BY <1>1, <1>2, <1>3, <1>4, <1>5, <1>7, CrashKills DEF Next

\* A watcher is registered once.
LEMMA DistinctStep ==
    ASSUME ClusterInv, Distinct, [Next]_vars
    PROVE  Distinct'
<1>1. ASSUME NEW o \in Procs, Synced(o) PROVE Distinct'
  <2>1. op[o].pc = "sync" /\ pipelines' = [pipelines EXCEPT ![op[o].cluster] = op[o].watcher]
    BY <1>1 DEF Synced
  <2>2. op[o].cluster \in Clusters /\ \A d \in Clusters : pipelines[d] # op[o].watcher
    BY <2>1, SyncingIs
  <2>3. QED
    BY <2>1, <2>2 DEF Distinct, ClusterInv, TablesOK
<1>2. ASSUME NEW o \in Procs, Shut(o) PROVE Distinct'
  <2>1. pipelines' = [pipelines EXCEPT ![op[o].cluster] = None]
    BY <1>2 DEF Shut
  <2>2. QED
    BY <2>1 DEF Distinct, ClusterInv, TablesOK
<1>3. CASE StoppedAll \/ Crash
  BY <1>3 DEF StoppedAll, Crash, Distinct
<1>4. CASE UNCHANGED pipelines
  BY <1>4 DEF Distinct
<1>5. ASSUME NEW o \in Procs, Step(o), ~Shut(o) PROVE UNCHANGED pipelines
  BY <1>5 DEF Step, Insert, Read, Save, Delete, Check, StartCluster, Start, SyncTimesOut,
              Reread, Rewrite, StopCluster, Stop
<1>6. ASSUME NEW w \in Watchers, Informer(w) PROVE UNCHANGED pipelines
  BY <1>6 DEF Informer, Deliver, Heartbeat, Handled, WatcherEnds
<1>7. CASE Boot \/ StopAll \/ StopEach \/ StoppedEach
  BY <1>4, <1>7, BootElsewhere, Zenon DEF StopAll, StopEach, StoppedEach
<1>8. ASSUME NEW o \in Requests, NEW k \in Kinds, NEW c \in Clusters, Request(o, k, c)
      PROVE  UNCHANGED pipelines
  BY <1>8 DEF Request
<1>9. CASE UNCHANGED vars
  BY <1>4, <1>9 DEF vars
<1>10. QED
  BY <1>1, <1>2, <1>3, <1>4, <1>5, <1>6, <1>7, <1>8, <1>9 DEF Next, Shutdown

\* The manager implements ClusterPipelines: m.mu is held from the first step of a
\* start or a stop to its last, so starts and stops do not overlap, and Shutdown
\* is waited for before a pipeline leaves the map (manager.go StartCluster,
\* StopCluster, StopAll).
THEOREM ImplementsPipelines == Spec => PipelinesSpec
<1>1. Init => Pipelines!Init
  <2> SUFFICES ASSUME Init PROVE Pipelines!Init
    OBVIOUS
  <2>1. \A c \in Clusters : PhaseOf(c) = "off"
    BY DEF Init, PhaseOf, Begun, Off
  <2>2. \A c \in Clusters : Busy(c) = FALSE
    BY DEF Init, Busy, Silent
  <2>3. [c \in Clusters |-> Busy(c)] = [c \in Clusters |-> FALSE]
    <3>1. ASSUME NEW c \in Clusters PROVE Busy(c) = FALSE
      BY <2>2
    <3>2. QED
      BY <3>1, Zenon
  <2>4. [c \in Clusters |-> PhaseOf(c)] = [c \in Clusters |-> "off"]
    BY <2>1
  <2>5. MaxCrashes - crashes = 0
    BY ConstantsAssumption DEF Init
  <2>6. QED
    BY <2>3, <2>4, <2>5, Zenon DEF Pipelines!Init
<1>2. Init => Distinct
  BY DEF Init, Distinct
<1>3. Spec => []Distinct
  BY <1>2, ClusterInvariant, DistinctStep, PTL DEF Spec
<1>4. ClusterInv /\ Distinct /\ [Next]_vars => [Pipelines!Next]_(Pipelines!pvars)
  BY PipelinesStep
<1>5. QED
  BY <1>1, <1>3, <1>4, ClusterInvariant, PTL DEF Spec, PipelinesSpec, Pipelines!Spec
-----------------------------------------------------------------------------
(* Requests that do not overlap leave no disabled cluster with a pipeline.   *)

StoppedWhenOff ==
    \A c \in Clusters : row[c].status \in {"inactive", "deleted"} => pipelines[c] = None

Starts == {"start", "sync", "reread", "rewrite"}

\* The steps of each kind of request, and what it knows at each of them of the row
\* and of the pipeline of its cluster, given rows and pipes.
Knows(p, rows, pipes) ==
    /\ p.kind = "none" => p = Idle
    /\ p.kind = "create" => p.pc \in {"insert"} \cup Starts
    /\ p.kind = "reload" => p.pc \in {"next"} \cup Starts
    /\ p.kind = "activate" => p.pc \in {"read", "save", "check"} \cup Starts
    /\ p.kind \in {"update", "test"} => p.pc \in {"read", "save"}
    /\ p.kind = "deactivate" => p.pc \in {"read", "check", "stop", "shut", "save"}
    /\ p.kind = "delete" => p.pc \in {"check", "stop", "shut", "delete"}
    /\ p.pc \in Starts \/ (p.kind = "activate" /\ p.pc = "check")
          => rows[p.cluster].status = "active"
    /\ p.pc = "rewrite" \/ (p.kind = "activate" /\ p.pc = "save") => p.cl.status = "active"
    /\ p.kind \in {"update", "test"} /\ p.pc = "save"
          => p.cl.status = rows[p.cluster].status
    /\ p.kind = "deactivate" /\ p.pc # "read" => p.cl.status = "inactive"
    /\ p.kind \in {"deactivate", "delete"} /\ p.pc \in {"save", "delete"}
          => pipes[p.cluster] = None
    /\ p.kind = "reload" => \A d \in p.todo : rows[d].status = "active"

TurnInv ==
    /\ \A o \in Procs : Knows(op[o], row, pipelines)
    /\ mode = "boot" => \A o \in Requests : op[o] = Idle
    /\ op[Main].kind = "reload" => mode = "boot"

OffInv == TurnInv /\ StoppedWhenOff

LEMMA IdleKnows == \A rows, pipes : Knows(Idle, rows, pipes)
  BY DEF Knows, Idle, Starts

\* A step about one cluster tells the others nothing new: they are about other
\* clusters, or they are the boot, beside which there are no requests.
LEMMA OthersKnow ==
    ASSUME ClusterInv, TurnInv, OneAtATime, NEW o \in Procs, op[o].pc # "idle",
           op[o].kind # "stopall", op[o].cluster \in Clusters,
           NEW p \in Procs, p # o, NEW rows, NEW pipes,
           \A d \in Clusters : d # op[o].cluster => rows[d] = row[d] /\ pipes[d] = pipelines[d]
    PROVE  Knows(op[p], rows, pipes)
<1>1. op[o] # Idle /\ op[o].kind # "none"
  BY DEF Idle, TurnInv, Knows
<1>2. CASE op[p].kind \in {"none", "stopall"}
  <2>1. CASE op[p].kind = "none"
    BY <2>1, IdleKnows DEF TurnInv, Knows
  <2>2. CASE op[p].kind = "stopall"
    BY <2>2 DEF Knows, ClusterInv, OpsOK, OpOK, Starts
  <2>3. QED
    BY <1>2, <2>1, <2>2
<1>3. CASE p = Main /\ op[p].kind = "reload"
  <2>1. mode = "boot" /\ o \in Requests
    BY <1>3 DEF TurnInv, Procs
  <2>2. QED
    BY <1>1, <2>1 DEF TurnInv
<1>4. CASE op[p].kind \notin {"none", "stopall", "reload"}
  <2>1. p \in Requests /\ op[p] \in Ops /\ OpOK(p, op[p])
    BY <1>4 DEF ClusterInv, OpsOK, OpOK, Procs
  <2>2. o \in Requests
    <3>1. CASE o = Main
      <4>1. op[o].kind = "reload"
        BY <1>1, <3>1 DEF ClusterInv, OpsOK, OpOK
      <4>2. op[p] = Idle
        BY <2>1, <3>1, <4>1 DEF TurnInv
      <4>3. QED
        BY <1>4, <4>2 DEF Idle
    <3>2. QED
      BY <3>1 DEF Procs
  <2>3. op[p].cluster # op[o].cluster
    BY <2>1, <2>2, ConstantsAssumption DEF OneAtATime
  <2>4. op[p].pc \in {"insert", "read", "check", "stop", "shut", "save", "delete"} \cup Starts
    BY <1>4, <2>1 DEF TurnInv, Knows, Ops, Kinds
  <2>5. op[p].cluster \in Clusters
    BY <1>4, <2>1, <2>4 DEF OpOK, Starts
  <2>6. rows[op[p].cluster] = row[op[p].cluster] /\ pipes[op[p].cluster] = pipelines[op[p].cluster]
    BY <2>3, <2>5
  <2>7. Knows(op[p], row, pipelines)
    BY DEF TurnInv
  <2>8. QED
    BY <1>4, <2>6, <2>7 DEF Knows
<1>5. QED
  BY <1>2, <1>3, <1>4 DEF ClusterInv, OpsOK, OpOK

\* A step of a request, or of the boot, about its cluster.
LEMMA TurnGoes ==
    ASSUME ClusterInv, TurnInv, OneAtATime, NEW o \in Procs, op[o].pc # "idle",
           op[o].kind # "stopall", op[o].cluster \in Clusters, NEW new,
           op' = [op EXCEPT ![o] = new], new.kind = "reload" => op[o].kind = "reload",
           Knows(new, row', pipelines'), mode' = mode,
           \A d \in Clusters : d # op[o].cluster => row'[d] = row[d] /\ pipelines'[d] = pipelines[d]
    PROVE  TurnInv'
<1>1. op'[o] = new /\ \A p \in Procs : p # o => op'[p] = op[p]
  BY DEF ClusterInv, OpsOK
<1>2. \A p \in Procs : p # o => Knows(op[p], row', pipelines')
  BY OthersKnow
<1>3. \A p \in Procs : Knows(op'[p], row', pipelines')
  BY <1>1, <1>2
<1>4. op[o] # Idle
  BY DEF Idle
<1>5. mode = "boot" => o = Main
  BY <1>4 DEF TurnInv, Procs
<1>6. mode' = "boot" => \A p \in Requests : op'[p] = Idle
  BY <1>1, <1>5, ConstantsAssumption DEF TurnInv, Procs
<1>7. op'[Main].kind = "reload" => mode' = "boot"
  BY <1>1 DEF TurnInv, Procs
<1>8. QED
  BY <1>3, <1>6, <1>7 DEF TurnInv

\* A request goes on to another step, or returns.
LEMMA GoesAsBefore ==
    ASSUME NEW p \in Ops, NEW pc \in Steps
    PROVE  /\ [p EXCEPT !.pc = pc].pc = pc
           /\ [p EXCEPT !.pc = pc].kind = p.kind
           /\ [p EXCEPT !.pc = pc].cluster = p.cluster
           /\ [p EXCEPT !.pc = pc].cl = p.cl
           /\ [p EXCEPT !.pc = pc].todo = p.todo
  BY DEF Ops, Steps

LEMMA TurnStarted ==
    ASSUME ClusterInv, TurnInv, OneAtATime, NEW o \in Procs, op[o].pc \in Starts, Started(o),
           mode' = mode, row'[op[o].cluster].status = "active",
           \A d \in Clusters : d # op[o].cluster => row'[d] = row[d] /\ pipelines'[d] = pipelines[d]
    PROVE  TurnInv'
<1>1. op[o] \in Ops /\ op[o].cluster \in Clusters /\ op[o].kind # "stopall" /\ op[o].pc # "idle"
  BY OpCluster DEF Starts
<1>2. CASE op[o].kind = "reload"
  <2> DEFINE new == [Idle EXCEPT !.kind = "reload", !.pc = "next", !.todo = op[o].todo]
  <2>1. op' = [op EXCEPT ![o] = new]
    BY <1>2 DEF Started
  <2>2. new.kind = "reload" /\ new.pc = "next" /\ new.todo = op[o].todo
    BY DEF Idle
  <2>3. \A d \in op[o].todo : d \in Clusters /\ row'[d].status = "active"
    <3>1. \A d \in op[o].todo : d \in Clusters /\ row[d].status = "active"
      BY <1>1, <1>2 DEF TurnInv, Knows, Ops
    <3>2. QED
      BY <3>1
  <2> HIDE DEF new
  <2>4. Knows(new, row', pipelines')
    BY <2>2, <2>3 DEF Knows, Starts
  <2>5. QED
    BY <1>1, <1>2, <2>1, <2>4, TurnGoes
<1>3. CASE op[o].kind # "reload"
  <2>1. op' = [op EXCEPT ![o] = Idle] /\ Idle.kind # "reload"
    BY <1>3 DEF Started, Return, Idle
  <2>2. QED
    BY <1>1, <2>1, IdleKnows, TurnGoes
<1>4. QED
  BY <1>2, <1>3
\* One that goes on in its kind, or returns, at the same row and pipeline or not.
LEMMA TurnAtStep ==
    ASSUME ClusterInv, TurnInv, OneAtATime, NEW o \in Procs, op[o].pc # "idle",
           op[o].kind # "stopall", op[o].cluster \in Clusters, mode' = mode, NEW pc \in Steps,
           \/ Return(o)
           \/ /\ Goto(o, pc)
              /\ \A new : (/\ new.pc = pc /\ new.kind = op[o].kind /\ new.cl = op[o].cl
                           /\ new.cluster = op[o].cluster /\ new.todo = op[o].todo)
                             => Knows(new, row', pipelines'),
           \A d \in Clusters : d # op[o].cluster => row'[d] = row[d] /\ pipelines'[d] = pipelines[d]
    PROVE  TurnInv'
<1>1. CASE Return(o)
  <2>1. op' = [op EXCEPT ![o] = Idle] /\ Idle.kind # "reload"
    BY <1>1 DEF Return, Idle
  <2>2. QED
    BY <2>1, IdleKnows, TurnGoes
<1>2. CASE Goto(o, pc) /\ \A new : (/\ new.pc = pc /\ new.kind = op[o].kind /\ new.cl = op[o].cl
                                    /\ new.cluster = op[o].cluster /\ new.todo = op[o].todo)
                                      => Knows(new, row', pipelines')
  <2> DEFINE new == [op[o] EXCEPT !.pc = pc]
  <2>1. op' = [op EXCEPT ![o] = new]
    BY <1>2 DEF Goto
  <2>2. /\ new.pc = pc /\ new.kind = op[o].kind /\ new.cl = op[o].cl
        /\ new.cluster = op[o].cluster /\ new.todo = op[o].todo
    BY GoesAsBefore DEF ClusterInv, OpsOK
  <2> HIDE DEF new
  <2>3. QED
    BY <1>2, <2>1, <2>2, TurnGoes
<1>3. QED
  BY <1>1, <1>2

\* Steps of the administrative requests.
LEMMA AdminOff ==
    ASSUME ClusterInv, OffInv, OneAtATime, NEW o \in Procs,
           Insert(o) \/ Read(o) \/ Save(o) \/ Delete(o) \/ Check(o)
    PROVE  OffInv'
<1> DEFINE c == op[o].cluster
<1>1. /\ op[o] \in Ops /\ c \in Clusters /\ op[o].kind # "stopall" /\ op[o].pc # "idle"
      /\ op[o].kind # "none"
  <2>1. op[o].pc \in {"insert", "read", "save", "delete", "check"}
    BY DEF Insert, Read, Save, Delete, Check
  <2>2. QED
    BY <2>1, OpCluster DEF OffInv, TurnInv, Knows, Idle
<1>2. /\ TurnInv /\ StoppedWhenOff /\ Knows(op[o], row, pipelines)
      /\ row \in [Clusters -> Row] /\ UNCHANGED <<pipelines, mode>>
  BY DEF OffInv, TurnInv, ClusterInv, RestOK, Insert, Read, Save, Delete, Check
<1>3. CASE Insert(o)
  <2>1. op[o].kind = "create"
    BY <1>1, <1>2, <1>3 DEF Insert, Knows, Ops, Kinds, Starts
  <2>2. row' \in {row, [row EXCEPT ![c].status = "active"]} /\ "start" \in Steps
    BY <1>3 DEF Insert, Steps
  <2>3. Return(o) \/ (Goto(o, "start") /\ row'[c].status = "active")
    BY <1>1, <1>2, <1>3 DEF Insert, Row
  <2>4. \A new : (new.kind = "create" /\ new.pc = "start" /\ row'[new.cluster].status = "active")
                    => Knows(new, row', pipelines')
    BY DEF Knows, Starts
  <2>5. TurnInv'
    BY <1>1, <1>2, <2>1, <2>2, <2>3, <2>4, TurnAtStep
  <2>6. StoppedWhenOff'
    BY <1>1, <1>2, <2>2 DEF StoppedWhenOff, Row
  <2>7. QED
    BY <2>5, <2>6 DEF OffInv
<1>4. CASE Read(o)
  <2>1. UNCHANGED row /\ op[o].pc = "read"
    BY <1>4 DEF Read
  <2>2. CASE Return(o)
    BY <1>1, <1>2, <2>1, <2>2, TurnAtStep DEF OffInv, StoppedWhenOff, Steps
  <2>3. CASE \E cl \in Edited(op[o].kind, row[c]) :
                op' = [op EXCEPT ![o].cl = cl,
                          ![o].pc = IF op[o].kind = "deactivate" THEN "check" ELSE "save"]
    <3>1. op[o].kind \in {"activate", "deactivate", "update", "test"}
      BY <1>1, <1>2, <2>1 DEF Knows, Ops, Kinds, Starts, ClusterInv, OpsOK, OpOK
    <3>2. PICK cl \in Edited(op[o].kind, row[c]) :
             op' = [op EXCEPT ![o].cl = cl,
                       ![o].pc = IF op[o].kind = "deactivate" THEN "check" ELSE "save"]
      BY <2>3
    <3>3. /\ op[o].kind = "activate" => cl.status = "active"
          /\ op[o].kind = "deactivate" => cl.status = "inactive"
          /\ op[o].kind \in {"update", "test"} => cl.status = row[c].status
      <4>1. row[c] \in Row
        BY <1>1, <1>2
      <4>2. cl \in Edited(op[o].kind, row[c])
        BY <3>2
      <4>3. CASE op[o].kind = "update"
        BY <4>1, <4>2, <4>3 DEF Edited, Row
      <4>4. CASE op[o].kind = "test"
        BY <4>1, <4>2, <4>4 DEF Edited, Row
      <4>5. CASE op[o].kind = "activate"
        BY <4>1, <4>2, <4>5 DEF Edited, Row
      <4>6. CASE op[o].kind = "deactivate"
        BY <4>1, <4>2, <4>6 DEF Edited, Row
      <4>7. QED
        BY <3>1, <4>3, <4>4, <4>5, <4>6
    <3> DEFINE new == [op[o] EXCEPT !.cl = cl,
                          !.pc = IF op[o].kind = "deactivate" THEN "check" ELSE "save"]
    <3>4. op' = [op EXCEPT ![o] = new]
      BY <3>2, Zenon
    <3>5. /\ new.kind = op[o].kind /\ new.cluster = c /\ new.cl = cl
          /\ new.pc = IF op[o].kind = "deactivate" THEN "check" ELSE "save"
      BY <1>1 DEF Ops
    <3> HIDE DEF new
    <3>6. Knows(new, row', pipelines')
      BY <2>1, <3>1, <3>3, <3>5 DEF Knows, Starts
    <3>7. QED
      BY <1>1, <1>2, <2>1, <3>1, <3>4, <3>5, <3>6, TurnGoes DEF OffInv, StoppedWhenOff
  <2>4. QED
    BY <1>4, <2>2, <2>3 DEF Read
<1>5. CASE Save(o)
  <2>1. /\ op[o].kind \in {"update", "test", "activate", "deactivate"}
        /\ op[o].kind = "activate" => op[o].cl.status = "active"
        /\ op[o].kind = "deactivate" => op[o].cl.status = "inactive" /\ pipelines[c] = None
        /\ op[o].kind \in {"update", "test"} => op[o].cl.status = row[c].status
    BY <1>1, <1>2, <1>5 DEF Save, Knows, Ops, Kinds, Starts, ClusterInv, OpsOK, OpOK
  <2>2. row' \in {row, [row EXCEPT ![c] = op[o].cl]} /\ "check" \in Steps
    BY <1>5 DEF Save, Steps
  <2>3. Return(o) \/ (Goto(o, "check") /\ op[o].kind = "activate" /\ row'[c].status = "active")
    BY <1>1, <1>2, <1>5, <2>1 DEF Save
  <2>4. \A new : (new.kind = "activate" /\ new.pc = "check" /\ row'[new.cluster].status = "active")
                    => Knows(new, row', pipelines')
    BY DEF Knows, Starts
  <2>5. TurnInv'
    BY <1>1, <1>2, <2>2, <2>3, <2>4, TurnAtStep
  <2>6. StoppedWhenOff'
    BY <1>1, <1>2, <2>1, <2>2 DEF StoppedWhenOff
  <2>7. QED
    BY <2>5, <2>6 DEF OffInv
<1>6. CASE Delete(o)
  <2>1. op[o].kind = "delete" /\ pipelines[c] = None
    BY <1>1, <1>2, <1>6 DEF Delete, Knows, Ops, Kinds, Starts, ClusterInv, OpsOK, OpOK
  <2>2. row' \in {row, [row EXCEPT ![c].status = "deleted"]} /\ Return(o) /\ "idle" \in Steps
    BY <1>6 DEF Delete, Steps
  <2>3. TurnInv'
    BY <1>1, <1>2, <2>2, TurnAtStep
  <2>4. StoppedWhenOff'
    BY <1>1, <1>2, <2>1, <2>2 DEF StoppedWhenOff
  <2>5. QED
    BY <2>3, <2>4 DEF OffInv
<1>7. CASE Check(o)
  <2>1. UNCHANGED row /\ op[o].pc = "check" /\ {"start", "stop", "save", "delete"} \subseteq Steps
    BY <1>7 DEF Check, Steps
  <2>2. op[o].kind \in {"activate", "deactivate", "delete"}
    BY <1>1, <2>1 DEF ClusterInv, OpsOK, OpOK
  <2>3. CASE Return(o)
    BY <1>1, <1>2, <2>1, <2>3, TurnAtStep DEF OffInv, StoppedWhenOff
  <2>4. CASE op[o].kind = "activate" /\ Goto(o, "start")
    <3>1. \A new : (new.kind = "activate" /\ new.pc = "start" /\ row'[new.cluster].status = "active")
                      => Knows(new, row', pipelines')
      BY DEF Knows, Starts
    <3>2. row'[c].status = "active"
      BY <1>2, <2>1, <2>4 DEF Knows
    <3>3. QED
      BY <1>1, <1>2, <2>1, <2>4, <3>1, <3>2, TurnAtStep DEF OffInv, StoppedWhenOff
  <2>5. CASE op[o].kind \in {"deactivate", "delete"} /\ Goto(o, "stop")
    <3>1. \A new : (/\ new.kind = op[o].kind /\ new.pc = "stop"
                    /\ new.cl = op[o].cl) => Knows(new, row', pipelines')
      BY <1>2, <2>1, <2>5 DEF Knows, Starts
    <3>2. QED
      BY <1>1, <1>2, <2>1, <2>5, <3>1, TurnAtStep DEF OffInv, StoppedWhenOff
  <2>6. CASE op[o].kind \in {"deactivate", "delete"} /\ pipelines[c] = None /\ Stopped(o)
    <3>1. Goto(o, IF op[o].kind = "delete" THEN "delete" ELSE "save")
      BY <2>6 DEF Stopped
    <3>2. \A new : (/\ new.kind = op[o].kind /\ new.cl = op[o].cl /\ new.cluster = c
                    /\ new.pc = IF op[o].kind = "delete" THEN "delete" ELSE "save")
                      => Knows(new, row', pipelines')
      BY <1>2, <2>1, <2>6 DEF Knows, Starts
    <3>3. QED
      BY <1>1, <1>2, <2>1, <3>1, <3>2, TurnAtStep DEF OffInv, StoppedWhenOff
  <2>7. QED
    BY <1>7, <2>2, <2>3, <2>4, <2>5, <2>6 DEF Check
<1>8. QED
  BY <1>3, <1>4, <1>5, <1>6, <1>7
\* Steps of StartCluster: the row of a cluster that is started says active.
LEMMA StartOff ==
    ASSUME ClusterInv, OffInv, OneAtATime, NEW o \in Procs,
           Start(o) \/ SyncTimesOut(o) \/ Synced(o) \/ Reread(o) \/ Rewrite(o)
    PROVE  OffInv'
<1> DEFINE c == op[o].cluster
<1>1. op[o].pc \in Starts
  BY DEF Start, SyncTimesOut, Synced, Reread, Rewrite, Starts
<1>2. op[o] \in Ops /\ c \in Clusters /\ op[o].kind # "stopall" /\ op[o].pc # "idle"
  BY <1>1, OpCluster DEF Starts
<1>3. /\ TurnInv /\ StoppedWhenOff /\ Knows(op[o], row, pipelines)
      /\ row \in [Clusters -> Row] /\ mode' = mode /\ row[c].status = "active"
  BY <1>1 DEF OffInv, TurnInv, ClusterInv, RestOK, Knows,
              Start, SyncTimesOut, Synced, Reread, Rewrite
<1>4. row[c] \in Row /\ \A r \in Row : [r EXCEPT !.conn = op[o].conn].status = r.status
  BY <1>2, <1>3 DEF Row
\* o goes on with the start.
<1>5. ASSUME NEW new, new.kind = op[o].kind, new.cluster = c, new.todo = op[o].todo,
             new.pc \in Starts, new.pc = "rewrite" => new.cl.status = "active", UNCHANGED row
      PROVE  Knows(new, row', pipelines')
  <2>1. op[o].kind \in {"create", "reload", "activate"}
    BY <1>1, <1>2, <1>3 DEF Knows, Ops, Kinds, Starts, Idle
  <2>2. QED
    BY <1>3, <1>5, <2>1 DEF Knows, Starts
<1>6. ASSUME NEW new, op' = [op EXCEPT ![o] = new], new.kind = op[o].kind, new.cluster = c,
             new.todo = op[o].todo, new.pc \in Starts,
             new.pc = "rewrite" => new.cl.status = "active", UNCHANGED row,
             \A d \in Clusters : d # c => pipelines'[d] = pipelines[d]
      PROVE  OffInv'
  <2>1. Knows(new, row', pipelines')
    BY <1>5, <1>6
  <2>2. TurnInv'
    BY <1>2, <1>3, <1>6, <2>1, TurnGoes
  <2>3. StoppedWhenOff'
    BY <1>3, <1>6 DEF StoppedWhenOff
  <2>4. QED
    BY <2>2, <2>3 DEF OffInv
<1>7. ASSUME Started(o), UNCHANGED pipelines,
             \/ UNCHANGED row
             \/ row' = [row EXCEPT ![c] = op[o].cl] /\ op[o].cl.status = "active"
      PROVE  OffInv'
  <2>1. /\ row'[c].status = "active"
        /\ \A d \in Clusters : d # c => row'[d] = row[d] /\ pipelines'[d] = pipelines[d]
    BY <1>2, <1>3, <1>7
  <2>2. TurnInv'
    BY <1>1, <1>3, <1>7, <2>1, TurnStarted
  <2>3. StoppedWhenOff'
    BY <1>3, <1>7, <2>1 DEF StoppedWhenOff
  <2>4. QED
    BY <2>2, <2>3 DEF OffInv
<1>8. CASE Start(o)
  <2>1. UNCHANGED <<row, pipelines>>
    BY <1>8 DEF Start
  <2>2. CASE Started(o)
    BY <1>7, <2>1, <2>2
  <2>3. CASE op' = [op EXCEPT ![o].pc = "reread", ![o].conn = "failed"]
    <3> DEFINE new == [op[o] EXCEPT !.pc = "reread", !.conn = "failed"]
    <3>1. op' = [op EXCEPT ![o] = new]
      BY <2>3, Zenon
    <3>2. new.pc = "reread" /\ new.kind = op[o].kind /\ new.cluster = c /\ new.todo = op[o].todo
      BY <1>2 DEF Ops
    <3> HIDE DEF new
    <3>3. QED
      BY <1>6, <2>1, <3>1, <3>2 DEF Starts
  <2>4. CASE \E w \in Watchers : op' = [op EXCEPT ![o].pc = "sync", ![o].watcher = w]
    <3>1. PICK w \in Watchers : op' = [op EXCEPT ![o].pc = "sync", ![o].watcher = w]
      BY <2>4
    <3> DEFINE new == [op[o] EXCEPT !.pc = "sync", !.watcher = w]
    <3>2. op' = [op EXCEPT ![o] = new]
      BY <3>1, Zenon
    <3>3. new.pc = "sync" /\ new.kind = op[o].kind /\ new.cluster = c /\ new.todo = op[o].todo
      BY <1>2 DEF Ops
    <3> HIDE DEF new
    <3>4. QED
      BY <1>6, <2>1, <3>2, <3>3 DEF Starts
  <2>5. QED
    BY <1>8, <2>2, <2>3, <2>4 DEF Start
<1>9. CASE SyncTimesOut(o) \/ Synced(o)
  <2>1. PICK conn \in {"failed", "connected"} :
           op' = [op EXCEPT ![o].pc = "reread", ![o].conn = conn]
    BY <1>9 DEF SyncTimesOut, Synced
  <2> DEFINE new == [op[o] EXCEPT !.pc = "reread", !.conn = conn]
  <2>2. op' = [op EXCEPT ![o] = new]
    BY <2>1, Zenon
  <2>3. new.pc = "reread" /\ new.kind = op[o].kind /\ new.cluster = c /\ new.todo = op[o].todo
    BY <1>2 DEF Ops
  <2>4. UNCHANGED row /\ \A d \in Clusters : d # c => pipelines'[d] = pipelines[d]
    BY <1>9 DEF SyncTimesOut, Synced, ClusterInv, TablesOK
  <2> HIDE DEF new
  <2>5. QED
    BY <1>6, <2>2, <2>3, <2>4 DEF Starts
<1>10. CASE Reread(o)
  <2>1. UNCHANGED <<row, pipelines>>
    BY <1>10 DEF Reread
  <2>2. CASE Started(o)
    BY <1>7, <2>1, <2>2
  <2>3. CASE op' = [op EXCEPT ![o].pc = "rewrite", ![o].cl = [row[c] EXCEPT !.conn = op[o].conn]]
    <3> DEFINE cl == [row[c] EXCEPT !.conn = op[o].conn]
               new == [op[o] EXCEPT !.pc = "rewrite", !.cl = cl]
    <3>1. op' = [op EXCEPT ![o] = new]
      BY <2>3, Zenon
    <3>2. cl.status = "active"
      BY <1>3, <1>4
    <3> HIDE DEF cl
    <3>3. /\ new.pc = "rewrite" /\ new.kind = op[o].kind /\ new.cluster = c
          /\ new.todo = op[o].todo /\ new.cl.status = "active"
      BY <1>2, <3>2 DEF Ops
    <3> HIDE DEF new
    <3>4. QED
      BY <1>6, <2>1, <3>1, <3>3 DEF Starts
  <2>4. QED
    BY <1>10, <2>2, <2>3 DEF Reread
<1>11. CASE Rewrite(o)
  <2>1. op[o].cl.status = "active"
    BY <1>3, <1>11 DEF Knows, Rewrite
  <2>2. QED
    BY <1>7, <1>11, <2>1 DEF Rewrite
<1>12. QED
  BY <1>8, <1>9, <1>10, <1>11

\* Steps of StopCluster.
LEMMA StopOff ==
    ASSUME ClusterInv, OffInv, OneAtATime, NEW o \in Procs, Stop(o) \/ Shut(o)
    PROVE  OffInv'
<1> DEFINE c == op[o].cluster
<1>1. /\ op[o] \in Ops /\ c \in Clusters /\ op[o].kind \in {"deactivate", "delete"}
      /\ op[o].pc \in {"stop", "shut"}
  BY DEF ClusterInv, OpsOK, OpOK, Stop, Shut
<1>2. /\ TurnInv /\ StoppedWhenOff /\ Knows(op[o], row, pipelines)
      /\ UNCHANGED <<row, mode>>
  BY DEF OffInv, TurnInv, Stop, Shut
<1>3. op[o].kind = "deactivate" => op[o].cl.status = "inactive"
  BY <1>1, <1>2 DEF Knows
<1>4. CASE Stopped(o) /\ pipelines'[c] = None /\ \A d \in Clusters : d # c => pipelines'[d] = pipelines[d]
  <2>1. Goto(o, IF op[o].kind = "delete" THEN "delete" ELSE "save")
    BY <1>4 DEF Stopped
  <2>2. {"delete", "save"} \subseteq Steps
    BY DEF Steps
  <2>3. \A new : (/\ new.kind = op[o].kind /\ new.cl = op[o].cl /\ new.cluster = c
                  /\ new.pc = IF op[o].kind = "delete" THEN "delete" ELSE "save")
                    => Knows(new, row', pipelines')
    BY <1>1, <1>3, <1>4 DEF Knows, Starts
  <2>4. TurnInv'
    BY <1>1, <1>2, <1>4, <2>1, <2>2, <2>3, TurnAtStep
  <2>5. StoppedWhenOff'
    BY <1>2, <1>4 DEF StoppedWhenOff
  <2>6. QED
    BY <2>4, <2>5 DEF OffInv
<1>5. CASE UNCHANGED pipelines /\ \E w : op' = [op EXCEPT ![o].pc = "shut", ![o].watcher = w]
  <2>1. PICK w : op' = [op EXCEPT ![o].pc = "shut", ![o].watcher = w]
    BY <1>5
  <2> DEFINE new == [op[o] EXCEPT !.pc = "shut", !.watcher = w]
  <2>2. op' = [op EXCEPT ![o] = new]
    BY <2>1, Zenon
  <2>3. new.pc = "shut" /\ new.kind = op[o].kind /\ new.cluster = c /\ new.cl = op[o].cl
    BY <1>1 DEF Ops
  <2> HIDE DEF new
  <2>4. Knows(new, row', pipelines')
    BY <1>1, <1>3, <2>3 DEF Knows, Starts
  <2>5. TurnInv'
    BY <1>1, <1>2, <1>5, <2>2, <2>3, <2>4, TurnGoes
  <2>6. QED
    BY <1>2, <1>5, <2>5 DEF OffInv, StoppedWhenOff
<1>6. CASE Shut(o)
  BY <1>1, <1>4, <1>6 DEF Shut, ClusterInv, TablesOK
<1>7. CASE Stop(o)
  BY <1>4, <1>5, <1>7 DEF Stop
<1>8. QED
  BY <1>6, <1>7
\* Steps that leave the rows alone and register no pipeline.
LEMMA TurnElsewhere ==
    ASSUME ClusterInv, TurnInv, UNCHANGED row,
           \A c \in Clusters : pipelines'[c] \in {pipelines[c], None},
           NEW o \in Procs, NEW new, op' = [op EXCEPT ![o] = new],
           Knows(new, row', pipelines'),
           mode' = "boot" => mode = "boot" /\ o = Main,
           op'[Main].kind = "reload" => mode' = "boot"
    PROVE  TurnInv'
<1>1. op'[o] = new /\ \A p \in Procs : p # o => op'[p] = op[p]
  BY DEF ClusterInv, OpsOK
<1>2. ASSUME NEW p \in Procs, p # o PROVE Knows(op'[p], row', pipelines')
  <2>1. op'[p] = op[p] /\ Knows(op[p], row, pipelines) /\ op[p] \in Ops /\ OpOK(p, op[p])
    BY <1>1, <1>2 DEF TurnInv, ClusterInv, OpsOK
  <2>2. op[p].pc \in {"save", "delete"} => op[p].cluster \in Clusters
    BY <2>1, OpCluster
  <2>3. QED
    BY <2>1, <2>2 DEF Knows
<1>3. mode' = "boot" => \A p \in Requests : op'[p] = Idle
  BY <1>1, ConstantsAssumption DEF TurnInv, Procs
<1>4. QED
  BY <1>1, <1>2, <1>3 DEF TurnInv

\* Arrival of a request: it knows nothing yet.
LEMMA RequestOff ==
    ASSUME ClusterInv, OffInv, NEW o \in Requests, NEW k \in Kinds, NEW c \in Clusters,
           Request(o, k, c)
    PROVE  OffInv'
<1> DEFINE pc == CASE k = "create" -> "insert" [] k = "delete" -> "check" [] OTHER -> "read"
           new == [Idle EXCEPT !.kind = k, !.cluster = c, !.pc = pc]
<1>1. /\ op' = [op EXCEPT ![o] = new] /\ mode = "serving"
      /\ UNCHANGED <<row, pipelines, mode>>
  BY DEF Request
<1>2. /\ k = "create" => pc = "insert"
      /\ k = "delete" => pc = "check"
      /\ k \notin {"create", "delete"} => pc = "read"
  OBVIOUS
<1> HIDE DEF pc
<1>3. new.kind = k /\ new.pc = pc
  BY DEF Idle
<1>4. o \in Procs /\ o # Main /\ Main \in Procs
  BY ConstantsAssumption DEF Procs
<1> HIDE DEF new
<1>5. Knows(new, row', pipelines')
  BY <1>2, <1>3 DEF Knows, Starts, Kinds
<1>6. op'[Main].kind = "reload" => mode' = "boot"
  BY <1>1, <1>4 DEF OffInv, TurnInv, ClusterInv, OpsOK
<1>7. TurnInv'
  BY <1>1, <1>4, <1>5, <1>6, TurnElsewhere DEF OffInv
<1>8. QED
  BY <1>1, <1>7 DEF OffInv, StoppedWhenOff

\* The boot starts what the table calls active; nobody writes it meanwhile.
LEMMA BootOff ==
    ASSUME ClusterInv, OffInv, Boot
    PROVE  OffInv'
<1>1. /\ TurnInv /\ StoppedWhenOff /\ UNCHANGED <<row, pipelines>> /\ Main \in Procs
      /\ op[Main] \in Ops /\ row \in [Clusters -> Row]
  <2>1. UNCHANGED <<row, pipelines>>
    BY Zenon DEF Boot, Reload, ReloadNext
  <2>2. QED
    BY <2>1 DEF OffInv, Procs, ClusterInv, OpsOK, RestOK
<1>2. StoppedWhenOff'
  BY <1>1 DEF StoppedWhenOff
<1>3. CASE Reload
  <2>1. CASE UNCHANGED op /\ mode' = "serving"
    <3>1. op[Main].kind # "reload"
      BY <1>3 DEF Reload, Idle
    <3>2. TurnInv'
      BY <1>1, <2>1, <3>1 DEF TurnInv
    <3>3. QED
      BY <1>2, <3>2 DEF OffInv
  <2>2. CASE /\ op' = [op EXCEPT ![Main].kind = "reload", ![Main].pc = "next",
                          ![Main].todo = {c \in Clusters : row[c].status = "active"}]
             /\ UNCHANGED mode
    <3> DEFINE active == {c \in Clusters : row[c].status = "active"}
               new == [op[Main] EXCEPT !.kind = "reload", !.pc = "next", !.todo = active]
    <3>1. op' = [op EXCEPT ![Main] = new]
      BY <2>2, Zenon
    <3>2. \A d \in active : row[d].status = "active"
      OBVIOUS
    <3> HIDE DEF active
    <3>3. new.kind = "reload" /\ new.pc = "next" /\ new.todo = active
      BY <1>1 DEF Ops
    <3> HIDE DEF new
    <3>4. Knows(new, row', pipelines')
      BY <1>1, <3>2, <3>3 DEF Knows, Starts
    <3>5. mode = "boot" /\ mode' = "boot"
      BY <1>3, <2>2 DEF Reload
    <3>6. TurnInv'
      BY <1>1, <3>1, <3>4, <3>5, TurnElsewhere
    <3>7. QED
      BY <1>2, <3>6 DEF OffInv
  <2>3. QED
    BY <1>3, <2>1, <2>2 DEF Reload
<1>4. CASE ReloadNext
  <2>1. op[Main].kind = "reload" /\ mode = "boot"
    <3>1. op[Main].kind = "reload"
      BY <1>4, Zenon DEF ReloadNext
    <3>2. QED
      BY <1>1, <3>1 DEF TurnInv
  <2>2. CASE Return(Main) /\ mode' = "serving"
    <3>1. op' = [op EXCEPT ![Main] = Idle] /\ op'[Main].kind # "reload"
      BY <1>1, <2>2 DEF Return, Idle, ClusterInv, OpsOK
    <3>2. TurnInv'
      BY <1>1, <2>2, <3>1, IdleKnows, TurnElsewhere
    <3>3. QED
      BY <1>2, <3>2 DEF OffInv
  <2>3. CASE /\ \E c \in op[Main].todo :
                   op' = [op EXCEPT ![Main].pc = "start", ![Main].cluster = c,
                                    ![Main].todo = @ \ {c}]
             /\ UNCHANGED mode
    <3>1. PICK c \in op[Main].todo :
             op' = [op EXCEPT ![Main].pc = "start", ![Main].cluster = c, ![Main].todo = @ \ {c}]
      BY <2>3, Zenon
    <3> DEFINE rest == op[Main].todo \ {c}
               new == [op[Main] EXCEPT !.pc = "start", !.cluster = c, !.todo = rest]
    <3>2. op' = [op EXCEPT ![Main] = new]
      BY <3>1, Zenon
    <3>3. \A d \in op[Main].todo : row[d].status = "active"
      BY <1>1, <2>1 DEF TurnInv, Knows
    <3>4. /\ new.kind = "reload" /\ new.pc = "start" /\ new.cluster = c
          /\ new.todo \subseteq op[Main].todo
      BY <1>1, <2>1 DEF Ops
    <3> HIDE DEF new
    <3>5. Knows(new, row', pipelines')
      BY <1>1, <3>3, <3>4 DEF Knows, Starts
    <3>6. TurnInv'
      BY <1>1, <2>1, <2>3, <3>2, <3>5, TurnElsewhere
    <3>7. QED
      BY <1>2, <3>6 DEF OffInv
  <2>4. QED
    BY <1>4, <2>2, <2>3, Zenon DEF ReloadNext
<1>5. QED
  BY <1>3, <1>4 DEF Boot

\* Shutdown only takes pipelines away.
LEMMA ShutdownOff ==
    ASSUME ClusterInv, OffInv, Shutdown
    PROVE  OffInv'
<1>1. /\ TurnInv /\ StoppedWhenOff /\ UNCHANGED row /\ Main \in Procs
      /\ op[Main] \in Ops /\ OpOK(Main, op[Main])
      /\ \A c \in Clusters : pipelines'[c] \in {pipelines[c], None}
  <2>1. UNCHANGED row
    BY Zenon DEF Shutdown, StopAll, StopEach, StoppedEach, StoppedAll
  <2>2. UNCHANGED pipelines \/ pipelines' = [c \in Clusters |-> None]
    BY Zenon DEF Shutdown, StopAll, StopEach, StoppedEach, StoppedAll
  <2>3. QED
    BY <2>1, <2>2 DEF OffInv, Procs, ClusterInv, OpsOK
<1>2. StoppedWhenOff'
  BY <1>1 DEF StoppedWhenOff
<1>3. \E new : op' = [op EXCEPT ![Main] = new] /\ new.kind \in {"stopall", "none"}
               /\ (new.kind = "stopall" => new.pc \in {"each", "shut"})
               /\ (new.kind = "none" => new = Idle)
  <2>1. CASE StopAll
    <3> DEFINE new == [op[Main] EXCEPT !.kind = "stopall", !.pc = "each",
                          !.todo = {c \in Clusters : pipelines[c] # None}]
    <3>1. op' = [op EXCEPT ![Main] = new]
      BY <2>1, Zenon DEF StopAll
    <3>2. new.kind = "stopall" /\ new.pc = "each"
      BY <1>1 DEF Ops
    <3> HIDE DEF new
    <3>3. QED
      BY <3>1, <3>2
  <2>2. CASE StopEach
    <3>1. PICK c \in op[Main].todo :
             op' = [op EXCEPT ![Main].pc = "shut", ![Main].watcher = pipelines[c],
                              ![Main].todo = @ \ {c}]
      BY <2>2, Zenon DEF StopEach
    <3> DEFINE new == [op[Main] EXCEPT !.pc = "shut", !.watcher = pipelines[c],
                                       !.todo = @ \ {c}]
    <3>2. op' = [op EXCEPT ![Main] = new]
      BY <3>1, Zenon
    <3>3. new.kind = "stopall" /\ new.pc = "shut"
      BY <1>1, <2>2 DEF Ops, OpOK, StopEach
    <3> HIDE DEF new
    <3>4. QED
      BY <3>2, <3>3
  <2>3. CASE StoppedEach
    <3> DEFINE new == [op[Main] EXCEPT !.pc = "each"]
    <3>1. op' = [op EXCEPT ![Main] = new]
      BY <2>3 DEF StoppedEach, Goto
    <3>2. new.kind = "stopall" /\ new.pc = "each"
      <4>1. op[Main].kind = "stopall"
        BY <1>1, <2>3 DEF OpOK, StoppedEach, TurnInv, Knows, Ops
      <4>2. QED
        BY <1>1, <4>1 DEF Ops
    <3> HIDE DEF new
    <3>3. QED
      BY <3>1, <3>2
  <2>4. CASE StoppedAll
    BY <2>4 DEF StoppedAll, Return, Idle
  <2>5. QED
    BY <2>1, <2>2, <2>3, <2>4 DEF Shutdown
<1>4. PICK new : /\ op' = [op EXCEPT ![Main] = new] /\ new.kind \in {"stopall", "none"}
                 /\ new.kind = "stopall" => new.pc \in {"each", "shut"}
                 /\ new.kind = "none" => new = Idle
  BY <1>3
<1>5. Knows(new, row', pipelines')
  BY <1>4, IdleKnows DEF Knows, Starts
<1>6. op'[Main].kind # "reload"
  BY <1>1, <1>4 DEF ClusterInv, OpsOK
<1>7. mode' = "boot" => mode = "boot"
  <2>1. mode' \in {mode, "down"}
    BY Zenon DEF Shutdown, StopAll, StopEach, StoppedEach, StoppedAll
  <2>2. QED
    BY <2>1
<1>8. TurnInv'
  BY <1>1, <1>4, <1>5, <1>6, <1>7, TurnElsewhere
<1>9. QED
  BY <1>2, <1>8 DEF OffInv

LEMMA OffStep == ClusterInv /\ OffInv /\ OneAtATime /\ [Next]_vars => OffInv'
<1> SUFFICES ASSUME ClusterInv, OffInv, OneAtATime, [Next]_vars PROVE OffInv'
  OBVIOUS
<1>1. ASSUME NEW o \in Requests, NEW k \in Kinds, NEW c \in Clusters, Request(o, k, c)
      PROVE  OffInv'
  BY <1>1, RequestOff
<1>2. ASSUME NEW o \in Procs, Step(o) \/ Synced(o) PROVE OffInv'
  BY <1>2, AdminOff, StartOff, StopOff DEF Step, StartCluster, StopCluster
<1>3. CASE Boot
  BY <1>3, BootOff
<1>4. CASE Shutdown
  BY <1>4, ShutdownOff
<1>5. CASE Crash
  <2>1. \A o \in Procs : op'[o] = Idle
    BY <1>5 DEF Crash
  <2>2. Main \in Procs /\ mode' = "boot" /\ \A o \in Requests : o \in Procs
    BY <1>5 DEF Crash, Procs
  <2>3. TurnInv'
    BY <2>1, <2>2, IdleKnows DEF TurnInv
  <2>4. StoppedWhenOff'
    BY <1>5 DEF Crash, StoppedWhenOff
  <2>5. QED
    BY <2>3, <2>4 DEF OffInv
<1>6. CASE (\E w \in Watchers : Informer(w)) \/ UNCHANGED vars
  <2>1. UNCHANGED <<row, pipelines, op, mode>>
    BY <1>6 DEF Informer, Deliver, Heartbeat, Handled, WatcherEnds, vars
  <2>2. QED
    BY <2>1 DEF OffInv, TurnInv, StoppedWhenOff
<1>7. QED
  BY <1>1, <1>2, <1>3, <1>4, <1>5, <1>6 DEF Next

\* As long as no two requests about one cluster overlap, a disabled or deleted
\* cluster has no pipeline when the requests are done (nor while they run): what
\* the service leaves to chance is only the order of such two, and neither failing
\* database calls nor boot, signal, crash or requests about other clusters matter.
THEOREM OffIsStopped == Spec /\ []OneAtATime => []OffMeansStopped
<1>1. Init => OffInv
  <2> SUFFICES ASSUME Init PROVE OffInv
    OBVIOUS
  <2>1. TurnInv
    BY IdleKnows DEF Init, TurnInv, Idle, Procs
  <2>2. StoppedWhenOff
    BY DEF Init, StoppedWhenOff
  <2>3. QED
    BY <2>1, <2>2 DEF OffInv
<1>2. OffInv => OffMeansStopped
  BY DEF OffInv, StoppedWhenOff, OffMeansStopped
<1>3. QED
  BY <1>1, <1>2, ClusterInvariant, OffStep, PTL DEF Spec
=============================================================================
