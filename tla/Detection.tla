------------------------------- MODULE Detection -------------------------------
(***************************************************************************)
(* How the state of a pod becomes anomaly events:                          *)
(*   - the informer callbacks of internal/watcher (pod_handler.go,         *)
(*     event_handler.go, filter.go), which see the pod's states as the     *)
(*     informer delivers them: a first state, then pairs of an old and a   *)
(*     new state between which others may have been skipped,               *)
(*   - the rules of internal/detector (rules.go), which compare old and    *)
(*     new so as to report a condition when it begins, and the dispatch    *)
(*     into the channel of anomalies (detector.go),                        *)
(*   - the end of the channel in the fan-out of StartCluster.              *)
(*                                                                         *)
(* The pod itself, as the kubelet reports it, is external: Appear, Wait,   *)
(* Run, Exit and Evict.  One pod is enough, pods share nothing but the     *)
(* channel.                                                                *)
(***************************************************************************)
EXTENDS Naturals, Sequences, FiniteSets

CONSTANTS
    Containers,     \* names of the pod's containers
    NoPod,          \* the pod is not in the informer's cache
    Scope,          \* "in": watched; "excluded": listed in excludePods;
                    \* "out": its namespace is not watched
    Capacity,       \* of the channel of anomalies (200)
    MaxRestarts     \* bound: restarts of a container

ASSUME ConstantsAssumption ==
    /\ Capacity \in Nat \ {0} /\ MaxRestarts \in Nat
    /\ Scope \in {"in", "excluded", "out"}

VARIABLES
    pod,        \* the pod as the API server has it
    seen,       \* the pod in the informer's cache: what the last callback was given
    out,        \* anomalies found by the running callback, not yet dispatched
    queue,      \* the channel of anomalies
    told,       \* the conditions reported since this watch began that still last
    atStart,    \* the conditions the watch found when it began that still last
    exitsTold   \* the exits reported since this watch began
\* (told, atStart and exitsTold are history: no guard reads them.)

vars == <<pod, seen, out, queue, told, atStart, exitsTold>>

PullErrors == {"ImagePullBackOff", "ErrImagePull"}
Reasons    == PullErrors \cup {"CrashLoopBackOff", "CreateContainerConfigError"}
Waiting    == Reasons \cup {"ContainerCreating"}
Abnormal   == {"OOMKilled", "Error"}
\* How a container ends; "Completed" stands for the exit codes 0 and 143.
Ends       == Abnormal \cup {"Completed"}

\* A container status: state is Running, Terminated or the reason it waits for;
\* last is LastTerminationState; exit is how it ended last.
Status == [state : Waiting \cup {"Running", "Terminated", "Absent"},
           restarts : 0..MaxRestarts, last : Ends \cup {"none"}, exit : Ends \cup {"none"}]
Absent == [state |-> "Absent", restarts |-> 0, last |-> "none", exit |-> "none"]
Pod    == [evicted : BOOLEAN, cs : [Containers -> Status]]
ASSUME NoPodAssumption == NoPod \notin Pod
NewPod == [evicted |-> FALSE, cs |-> [c \in Containers |-> Absent]]

PodTypes  == Reasons \ {"ErrImagePull"}
Types     == PodTypes \cup {"OOMKilled", "ErrorExit", "Evicted", "FailedScheduling"}
\* at: the restart count for a crash loop, which makes each one a new condition.
Condition == [type : PodTypes \cup {"Evicted"}, of : Containers \cup {NoPod},
              at : 0..MaxRestarts]
ExitTypes == {"OOMKilled", "ErrorExit"}
\* at: the restart count in the report; exit: the exit was the first, the second ...
ExitReport == [of : Containers, at : 0..MaxRestarts, exit : 0..MaxRestarts + 1]

TypeOK ==
    /\ pod \in Pod
    /\ seen \in Pod \cup {NoPod}
    /\ out \in SUBSET [type : Types, of : Containers \cup {NoPod}]
    /\ queue \in Seq(Types) /\ Len(queue) <= Capacity
    /\ told \in SUBSET Condition /\ atStart \in SUBSET Condition
    /\ exitsTold \in SUBSET ExitReport

Init ==
    /\ pod = NewPod
    /\ seen = NoPod
    /\ out = {}
    /\ queue = <<>>
    /\ told = {}
    /\ atStart = {}
    /\ exitsTold = {}

-----------------------------------------------------------------------------
(* The rules of the detector.  old is NoPod when the pod is first seen.     *)

Listed(p)     == {c \in Containers : p.cs[c].state # "Absent"}
Waits(p, why) == {c \in Listed(p) : p.cs[c].state \in why}

\* isAlreadyCrashLoop: the same loop, at the same restart count.
AlreadyCrashLoop(old, c, n) ==
    c \in Waits(old, {"CrashLoopBackOff"}) /\ old.cs[c].restarts = n

CrashLoopRule(old, new) ==
    {c \in Waits(new, {"CrashLoopBackOff"}) :
        ~(old # NoPod /\ AlreadyCrashLoop(old, c, new.cs[c].restarts))}

\* Mutant of RestartCountIncreased: a count that has not changed will do.
RestartCountReached(old, c, n) ==
    IF c \in Listed(old) THEN n >= old.cs[c].restarts ELSE TRUE

\* restartCountIncreased: a container the old status does not list is new.
RestartCountIncreased(old, c, n) ==
    IF c \in Listed(old) THEN n > old.cs[c].restarts ELSE TRUE

\* OOMKilled and ErrorExit share the test that the termination is a new one.
NewlyEnded(old, new, ends) ==
    {c \in Listed(new) : /\ new.cs[c].last \in ends
                         /\ ~(old # NoPod /\ ~RestartCountIncreased(old, c, new.cs[c].restarts))}
OOMKilledRule(old, new) == NewlyEnded(old, new, {"OOMKilled"})
ErrorExitRule(old, new) == NewlyEnded(old, new, Abnormal \ {"OOMKilled"})

\* Mutant of ImagePullBackOffRule: the old and the new reason are compared.
ImagePullReasonChanged(old, new) ==
    {c \in Waits(new, PullErrors) :
        ~(old # NoPod /\ c \in Waits(old, {new.cs[c].state}))}

ImagePullBackOffRule(old, new) ==
    {c \in Waits(new, PullErrors) : ~(old # NoPod /\ c \in Waits(old, PullErrors))}

\* Mutant of CreateContainerConfigErrorRule: an update is never looked at.
ConfigErrorOfNewPods(old, new) ==
    {c \in Waits(new, {"CreateContainerConfigError"}) : old = NoPod}

CreateContainerConfigErrorRule(old, new) ==
    {c \in Waits(new, {"CreateContainerConfigError"}) :
        ~(old # NoPod /\ c \in Waits(old, {"CreateContainerConfigError"}))}

EvictedRule(old, new) == new.evicted /\ ~(old # NoPod /\ old.evicted)

\* What EvaluatePodChange finds, rule by rule.
Anomalies(old, new) ==
    [type : {"CrashLoopBackOff"}, of : CrashLoopRule(old, new)]
    \cup [type : {"OOMKilled"}, of : OOMKilledRule(old, new)]
    \cup [type : {"ErrorExit"}, of : ErrorExitRule(old, new)]
    \cup [type : {"ImagePullBackOff"}, of : ImagePullBackOffRule(old, new)]
    \cup [type : {"CreateContainerConfigError"}, of : CreateContainerConfigErrorRule(old, new)]
    \cup {a \in [type : {"Evicted"}, of : {NoPod}] : EvictedRule(old, new)}

-----------------------------------------------------------------------------
(* The checks of the handlers before the detector is called.                *)

\* The pod handler asks for the list of excluded pods and for the namespace,
\* the event handler for the namespace alone; labelSelector is never asked.
ShouldProcess          == Scope = "in"
ShouldProcessNamespace == Scope # "out"

HasAnomalyStatus(p) ==
    \/ p.evicted
    \/ Waits(p, Reasons \ {"CreateContainerConfigError"}) # {}
    \/ \E c \in Listed(p) : p.cs[c].last \in Abnormal

\* Mutant of ContainerStatusChanged: reasons to wait are not compared.
StateTypeChanged(old, new) ==
    \/ old.evicted # new.evicted
    \/ \E c \in Listed(new) :
          \/ c \notin Listed(old)
          \/ new.cs[c].restarts # old.cs[c].restarts
          \/ (new.cs[c].state \in Waiting) # (old.cs[c].state \in Waiting)

\* containerStatusChanged: eviction, a new container, the restart count, the
\* type of the state or the reason to wait.  LastTerminationState is not asked.
ContainerStatusChanged(old, new) ==
    \/ old.evicted # new.evicted
    \/ \E c \in Listed(new) :
          \/ c \notin Listed(old)
          \/ new.cs[c].restarts # old.cs[c].restarts
          \/ new.cs[c].state # old.cs[c].state

\* The conditions a pod shows.
Shown(p) ==
    {[type |-> "CrashLoopBackOff", of |-> c, at |-> p.cs[c].restarts] :
        c \in Waits(p, {"CrashLoopBackOff"})}
    \cup [type : {"ImagePullBackOff"}, of : Waits(p, PullErrors), at : {0}]
    \cup [type : {"CreateContainerConfigError"},
          of : Waits(p, {"CreateContainerConfigError"}), at : {0}]
    \cup {a \in [type : {"Evicted"}, of : {NoPod}, at : {0}] : p.evicted}

\* What the last termination status of c describes: the present exit while c
\* waits to be restarted, the one before the last start otherwise.
LastExit(p, c) == IF p.cs[c].state \in Waiting THEN p.cs[c].restarts + 1
                  ELSE p.cs[c].restarts

\* The exits among the anomalies found in p.
ExitsIn(p, found) ==
    {[of |-> c, at |-> p.cs[c].restarts, exit |-> LastExit(p, c)] :
        c \in {c \in Containers : found \cap [type : ExitTypes, of : {c}] # {}}}

\* A callback is given p and finds the anomalies found.
Evaluate(p, found) ==
    /\ seen' = p
    /\ out' = found
    /\ told' = {t \in Shown(p) : t \in told \/ [type |-> t.type, of |-> t.of] \in found}
    /\ exitsTold' = exitsTold \cup ExitsIn(p, found)
    /\ UNCHANGED <<pod, queue>>

\* onAdd: the pod is in the first list or is created.
OnAdd ==
    /\ seen = NoPod
    /\ Evaluate(pod, IF ShouldProcess /\ HasAnomalyStatus(pod) THEN Anomalies(NoPod, pod) ELSE {})
    /\ atStart' = Shown(pod)

\* onUpdate: whatever the pod went through since the last callback; a resync
\* has the same resource version and changes nothing.
OnUpdate ==
    /\ seen # NoPod
    /\ seen # pod
    /\ out = {}
    /\ Evaluate(pod, IF ShouldProcess /\ ContainerStatusChanged(seen, pod)
                     THEN Anomalies(seen, pod) ELSE {})
    /\ atStart' = atStart \cap Shown(pod)

\* Mutant of Send: dispatch does not look whether there is room.
SendAlways(t) == queue' = Append(queue, t)

\* dispatch: a full channel drops the anomaly.
Send(t) == queue' = IF Len(queue) < Capacity THEN Append(queue, t) ELSE queue

Dispatch ==
    /\ \E a \in out : Send(a.type) /\ out' = out \ {a}
    /\ UNCHANGED <<pod, seen, told, atStart, exitsTold>>

\* The event handler: a warning that the pod cannot be scheduled is dispatched
\* as it is, every other event is ignored.
OnWarning ==
    /\ ShouldProcessNamespace
    /\ \A c \in Containers : pod.cs[c].state = "Absent"
    /\ Send("FailedScheduling")
    /\ UNCHANGED <<pod, seen, out, told, atStart, exitsTold>>

\* The fan-out takes the next anomaly.
Take ==
    /\ queue # <<>>
    /\ queue' = Tail(queue)
    /\ UNCHANGED <<pod, seen, out, told, atStart, exitsTold>>

\* The pipeline of the cluster is stopped and started: a new informer, a new
\* channel.
Restart ==
    /\ seen' = NoPod
    /\ out' = {}
    /\ queue' = <<>>
    /\ told' = {}
    /\ atStart' = {}
    /\ exitsTold' = {}
    /\ UNCHANGED pod

-----------------------------------------------------------------------------
(* The kubelet (external). *)

Change(c, status) ==
    /\ ~pod.evicted
    /\ pod' = [pod EXCEPT !.cs[c] = status]
    /\ UNCHANGED <<seen, out, queue, told, atStart, exitsTold>>

Appear(c) ==
    /\ pod.cs[c] = Absent
    /\ Change(c, [Absent EXCEPT !.state = "ContainerCreating"])

\* The container waits, for another reason or after it has ended.
Wait(c, why) ==
    /\ pod.cs[c].state \notin {"Absent", "Running", why}
    /\ why = "CrashLoopBackOff" => pod.cs[c].exit # "none"
    /\ Change(c, [pod.cs[c] EXCEPT !.state = why, !.last = pod.cs[c].exit])

\* It is started, for the first time or again.
Run(c) ==
    /\ pod.cs[c].state \notin {"Absent", "Running"}
    /\ pod.cs[c].exit # "none" => pod.cs[c].restarts < MaxRestarts
    /\ Change(c, [pod.cs[c] EXCEPT
                     !.state = "Running", !.last = pod.cs[c].exit,
                     !.restarts = IF pod.cs[c].exit = "none" THEN @ ELSE @ + 1])

Exit(c, how) ==
    /\ pod.cs[c].state = "Running"
    /\ Change(c, [pod.cs[c] EXCEPT !.state = "Terminated", !.exit = how])

Evict ==
    /\ ~pod.evicted
    /\ pod' = [pod EXCEPT !.evicted = TRUE]
    /\ UNCHANGED <<seen, out, queue, told, atStart, exitsTold>>

Kubelet ==
    \/ \E c \in Containers : \/ Appear(c) \/ Run(c)
                             \/ \E why \in Reasons : Wait(c, why)
                             \/ \E how \in Ends : Exit(c, how)
    \/ Evict

Next == OnAdd \/ OnUpdate \/ Dispatch \/ OnWarning \/ Take \/ Restart \/ Kubelet

Spec == Init /\ [][Next]_vars

-----------------------------------------------------------------------------
(* Properties. *)

\* The quick check of onUpdate and the rules agree: it never discards an update
\* in which a rule would find an anomaly, whatever states were skipped.
FilterHidesNothing ==
    seen # NoPod /\ Anomalies(seen, pod) # {} => ContainerStatusChanged(seen, pod)

\* The conditions the cached pod shows that were not reported in this watch.
Missed == IF seen = NoPod \/ ~ShouldProcess THEN {} ELSE Shown(seen) \ told

\* A rule reports only the beginning of a condition, so what it skips because
\* the old state shows it already must have been reported.  This fails only for a
\* configuration error, which hasAnomalyStatus does not know, and only for one that
\* the watch found when it began and that has lasted since: one that begins later
\* is reported, whatever states the informer skips.
MissedOnlyAtStart ==
    \A m \in Missed : m.type = "CreateContainerConfigError" /\ m \in atStart

\* In one watch the exits of a container are reported with rising restart counts:
\* LastTerminationState outlives the exit it describes, but no later update, of this
\* container or another, with states skipped or not, reports it again until the
\* container is restarted.
ExitsToldByCount ==
    [][\A new \in ExitsIn(pod, out' \ out), r \in exitsTold :
          r.of = new.of => r.at < new.at]_vars

\* A condition that lasts is not reported again: not when its pod is updated for
\* another reason, when a pull error alternates between its two names, or when
\* another container begins to fail, whatever states the informer skips.
NothingToldTwice ==
    [][\A t \in told \cap told' : [type |-> t.type, of |-> t.of] \notin out' \ out]_vars

\* Why NothingToldTwice holds: what was told is what the cached pod still shows.
ToldIsShown == told \subseteq IF seen = NoPod THEN {} ELSE Shown(seen)

\* Why ExitsToldByCount holds: what was told is of the cached pod or of an earlier
\* one, and restart counts do not fall.
ExitsToldAreSeen ==
    \A r \in exitsTold :
        seen # NoPod /\ r.of \in Listed(seen) /\ r.at <= seen.cs[r.of].restarts
SeenIsPast ==
    seen # NoPod => \A c \in Listed(seen) :
        c \in Listed(pod) /\ seen.cs[c].restarts <= pod.cs[c].restarts

-----------------------------------------------------------------------------
(* What the comments of the handlers and rules say and the code does not keep *)
(* (checked by no run).                                                       *)

\* pod_handler.go:51: pods that are abnormal when the watch begins are reported.
NothingMissed == Missed = {}

\* rules.go:73: with the restart count the rule makes sure that the exit is a new
\* one.  It is reported while its container waits to be restarted, if the watch
\* begins then or states were skipped, and once more with the restart.
ExitsToldOnce ==
    \A r, s \in exitsTold : r.of = s.of /\ r.exit = s.exit => r = s
=============================================================================
