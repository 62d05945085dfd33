---------------------------- MODULE DetectionProofs ----------------------------
(***************************************************************************)
(* Proofs about Detection: the quick checks hide nothing from the rules,   *)
(* what a pod shows was reported (but configuration errors found when the  *)
(* watch began), nothing that lasts is reported again, and exits are       *)
(* reported with rising restart counts, for any containers, restarts,      *)
(* capacity of the channel and scope of the watch.                         *)
(***************************************************************************)
EXTENDS Detection, TLAPS

-----------------------------------------------------------------------------
(* The rules.                                                               *)

\* The quick check of onUpdate asks for everything a rule can react to: where a
\* rule finds an anomaly, the container is new, or its restart count, its state
\* or the reason it waits for differs, or the pod was evicted.
LEMMA RulesImplyChange ==
    ASSUME NEW old \in Pod, NEW new \in Pod, old # NoPod,
           Anomalies(old, new) # {}
    PROVE  ContainerStatusChanged(old, new)
<1> USE DEF Pod, Status
<1>1. CASE EvictedRule(old, new)
  BY <1>1 DEF EvictedRule, ContainerStatusChanged
<1>2. ASSUME NEW c \in CrashLoopRule(old, new)
      PROVE  ContainerStatusChanged(old, new)
  BY <1>2 DEF CrashLoopRule, AlreadyCrashLoop, Waits, Listed, ContainerStatusChanged
<1>3. ASSUME NEW ends, NEW c \in NewlyEnded(old, new, ends)
      PROVE  ContainerStatusChanged(old, new)
  BY <1>3 DEF NewlyEnded, RestartCountIncreased, Listed, ContainerStatusChanged
<1>4. ASSUME NEW c \in ImagePullBackOffRule(old, new)
      PROVE  ContainerStatusChanged(old, new)
  BY <1>4 DEF ImagePullBackOffRule, Waits, Listed, ContainerStatusChanged
<1>5. ASSUME NEW c \in CreateContainerConfigErrorRule(old, new)
      PROVE  ContainerStatusChanged(old, new)
  BY <1>5 DEF CreateContainerConfigErrorRule, Waits, Listed, ContainerStatusChanged
<1>6. \/ EvictedRule(old, new)
      \/ \E c \in CrashLoopRule(old, new) : TRUE
      \/ \E c \in OOMKilledRule(old, new) : TRUE
      \/ \E c \in ErrorExitRule(old, new) : TRUE
      \/ \E c \in ImagePullBackOffRule(old, new) : TRUE
      \/ \E c \in CreateContainerConfigErrorRule(old, new) : TRUE
  BY DEF Anomalies
<1>7. QED
  BY <1>1, <1>2, <1>3, <1>4, <1>5, <1>6 DEF OOMKilledRule, ErrorExitRule

\* What the rules find, by type.
LEMMA FoundByType ==
    ASSUME NEW old, NEW new, NEW c
    PROVE  /\ [type |-> "CrashLoopBackOff", of |-> c] \in Anomalies(old, new)
                 <=> c \in CrashLoopRule(old, new)
           /\ [type |-> "OOMKilled", of |-> c] \in Anomalies(old, new)
                 <=> c \in OOMKilledRule(old, new)
           /\ [type |-> "ErrorExit", of |-> c] \in Anomalies(old, new)
                 <=> c \in ErrorExitRule(old, new)
           /\ [type |-> "ImagePullBackOff", of |-> c] \in Anomalies(old, new)
                 <=> c \in ImagePullBackOffRule(old, new)
           /\ [type |-> "CreateContainerConfigError", of |-> c] \in Anomalies(old, new)
                 <=> c \in CreateContainerConfigErrorRule(old, new)
           /\ [type |-> "Evicted", of |-> NoPod] \in Anomalies(old, new)
                 <=> EvictedRule(old, new)
  BY DEF Anomalies

LEMMA AnomaliesType ==
    ASSUME NEW old, NEW new
    PROVE  Anomalies(old, new) \in SUBSET [type : Types, of : Containers \cup {NoPod}]
  BY DEF Anomalies, Types, PodTypes, Reasons, PullErrors, CrashLoopRule, OOMKilledRule,
         ErrorExitRule, NewlyEnded, ImagePullBackOffRule, CreateContainerConfigErrorRule,
         EvictedRule, Waits, Listed

\* An exit is reported only when the restart count has risen, or the container is new.
LEMMA ExitReports ==
    ASSUME NEW old, NEW new, NEW r \in ExitsIn(new, Anomalies(old, new))
    PROVE  /\ r.of \in Listed(new) /\ r.at = new.cs[r.of].restarts
           /\ ~(old # NoPod /\ ~RestartCountIncreased(old, r.of, r.at))
<1>1. PICK c \in Containers :
         /\ Anomalies(old, new) \cap [type : ExitTypes, of : {c}] # {}
         /\ r = [of |-> c, at |-> new.cs[c].restarts, exit |-> LastExit(new, c)]
  BY DEF ExitsIn
<1>2. c \in OOMKilledRule(old, new) \/ c \in ErrorExitRule(old, new)
  <2>1. \/ [type |-> "OOMKilled", of |-> c] \in Anomalies(old, new)
        \/ [type |-> "ErrorExit", of |-> c] \in Anomalies(old, new)
    BY <1>1 DEF ExitTypes
  <2>2. QED
    BY <2>1, FoundByType
<1>3. QED
  BY <1>1, <1>2 DEF OOMKilledRule, ErrorExitRule, NewlyEnded

-----------------------------------------------------------------------------
(* Type correctness.                                                        *)

LEMMA ShownType ==
    ASSUME NEW p \in Pod, ConstantsAssumption
    PROVE  Shown(p) \in SUBSET Condition
<1> USE DEF Pod, Status, Condition, PodTypes, Reasons, PullErrors, ConstantsAssumption
<1>1. 0 \in 0..MaxRestarts
  OBVIOUS
<1>2. ASSUME NEW t \in Shown(p)
      PROVE  t \in Condition
  BY <1>1, <1>2 DEF Shown, Waits, Listed
<1>3. QED
  BY <1>2

LEMMA EvaluateType ==
    ASSUME TypeOK, ConstantsAssumption, NEW old, NEW found,
           found = Anomalies(old, pod) \/ found = {},
           Evaluate(pod, found), atStart' \in SUBSET Condition
    PROVE  TypeOK'
<1>1. found \in SUBSET [type : Types, of : Containers \cup {NoPod}]
  BY AnomaliesType
<1>2. told' \in SUBSET Condition
  BY ShownType DEF Evaluate, TypeOK
<1>3. exitsTold' \in SUBSET ExitReport
  <2>1. ASSUME NEW c \in Containers
        PROVE  pod.cs[c].restarts \in 0..MaxRestarts /\ LastExit(pod, c) \in 0..MaxRestarts + 1
    BY DEF LastExit, TypeOK, Pod, Status, ConstantsAssumption
  <2>2. ExitsIn(pod, found) \in SUBSET ExitReport
    BY <2>1 DEF ExitsIn, ExitReport
  <2>3. QED
    BY <2>2 DEF Evaluate, TypeOK
<1>4. UNCHANGED <<pod, queue>> /\ seen' = pod /\ out' = found
  BY DEF Evaluate
<1>5. QED
  BY <1>1, <1>2, <1>3, <1>4 DEF TypeOK

LEMMA OnAddEvaluates ==
    ASSUME OnAdd
    PROVE  \E found : /\ found = Anomalies(seen, pod) \/ found = {}
                      /\ Evaluate(pod, found)
  BY DEF OnAdd

LEMMA OnUpdateEvaluates ==
    ASSUME OnUpdate
    PROVE  \E found : /\ found = Anomalies(seen, pod) \/ found = {}
                      /\ Evaluate(pod, found)
  BY DEF OnUpdate

\* A status with new fields is a status.
LEMMA StatusFields ==
    ASSUME NEW x \in Status,
           NEW u \in Waiting \cup {"Running", "Terminated", "Absent"},
           NEW n \in 0..MaxRestarts, NEW e \in Ends \cup {"none"}
    PROVE  /\ [x EXCEPT !.state = u, !.last = e] \in Status
           /\ [x EXCEPT !.state = u, !.last = e, !.restarts = n] \in Status
           /\ [x EXCEPT !.state = u, !.exit = e] \in Status
  BY DEF Status

\* The kubelet leaves the handlers' state alone and the pod a pod.
LEMMA KubeletType ==
    ASSUME TypeOK, ConstantsAssumption, Kubelet
    PROVE  /\ pod' \in Pod
           /\ UNCHANGED <<seen, out, queue, told, atStart, exitsTold>>
<1> USE DEF TypeOK, Pod
<1>1. \A c \in Containers : /\ pod.cs[c] \in Status
                            /\ pod.cs[c].restarts \in 0..MaxRestarts
                            /\ pod.cs[c].exit \in Ends \cup {"none"}
  BY DEF Status
<1>2. ASSUME NEW c \in Containers, NEW status \in Status, Change(c, status)
      PROVE  pod' \in Pod /\ UNCHANGED <<seen, out, queue, told, atStart, exitsTold>>
  BY <1>2 DEF Change
<1>3. ASSUME NEW c \in Containers, Appear(c)
      PROVE  \E status \in Status : Change(c, status)
  BY <1>3 DEF Appear, Absent, Status, Waiting, Reasons, PullErrors, ConstantsAssumption
<1>4. ASSUME NEW c \in Containers, NEW why \in Reasons, Wait(c, why)
      PROVE  \E status \in Status : Change(c, status)
  <2> DEFINE s == [pod.cs[c] EXCEPT !.state = why, !.last = pod.cs[c].exit]
  <2>1. s \in Status
    BY <1>1, StatusFields DEF Waiting
  <2>2. Change(c, s)
    BY <1>4 DEF Wait
  <2>3. QED
    BY <2>1, <2>2
<1>5. ASSUME NEW c \in Containers, Run(c)
      PROVE  \E status \in Status : Change(c, status)
  <2> DEFINE n == IF pod.cs[c].exit = "none" THEN pod.cs[c].restarts ELSE pod.cs[c].restarts + 1
             s == [pod.cs[c] EXCEPT !.state = "Running", !.last = pod.cs[c].exit,
                                    !.restarts = n]
  <2>1. n \in 0..MaxRestarts
    BY <1>1, <1>5 DEF Run, ConstantsAssumption
  <2>2. s \in Status
    <3>1. \A m \in 0..MaxRestarts :
             [pod.cs[c] EXCEPT !.state = "Running", !.last = pod.cs[c].exit,
                               !.restarts = m] \in Status
      BY <1>1, StatusFields
    <3> HIDE DEF n
    <3>2. QED BY <2>1, <3>1
  <2>3. Change(c, s)
    BY <1>5 DEF Run
  <2>4. QED
    BY <2>2, <2>3
<1>6. ASSUME NEW c \in Containers, NEW how \in Ends, Exit(c, how)
      PROVE  \E status \in Status : Change(c, status)
  <2> DEFINE s == [pod.cs[c] EXCEPT !.state = "Terminated", !.exit = how]
  <2>1. s \in Status
    BY <1>1, StatusFields
  <2>2. Change(c, s)
    BY <1>6 DEF Exit
  <2>3. QED
    BY <2>1, <2>2
<1>7. CASE Evict
  BY <1>7 DEF Evict
<1>8. QED
  BY <1>2, <1>3, <1>4, <1>5, <1>6, <1>7 DEF Kubelet

LEMMA SendType ==
    ASSUME queue \in Seq(Types), Len(queue) <= Capacity, ConstantsAssumption,
           NEW t \in Types, Send(t)
    PROVE  queue' \in Seq(Types) /\ Len(queue') <= Capacity
  BY DEF Send, ConstantsAssumption

\* Every reachable state is well-typed: in particular the channel of anomalies
\* never holds more than its capacity.
THEOREM TypeCorrect == Spec => []TypeOK
<1>1. Init => TypeOK
  <2> SUFFICES ASSUME Init PROVE TypeOK
    OBVIOUS
  <2>1. NewPod \in Pod
    BY ConstantsAssumption DEF NewPod, Pod, Absent, Status, ConstantsAssumption
  <2>2. queue \in Seq(Types) /\ Len(queue) <= Capacity
    BY ConstantsAssumption DEF Init, ConstantsAssumption
  <2>3. QED
    BY <2>1, <2>2 DEF Init, TypeOK
<1>2. TypeOK /\ [Next]_vars => TypeOK'
  <2> SUFFICES ASSUME TypeOK, [Next]_vars PROVE TypeOK'
    OBVIOUS
  <2> USE ConstantsAssumption
  <2>1. CASE OnAdd \/ OnUpdate
    <3>1. atStart' \in SUBSET Condition
      BY <2>1, ShownType DEF OnAdd, OnUpdate, TypeOK
    <3>2. QED
      BY <2>1, <3>1, OnAddEvaluates, OnUpdateEvaluates, EvaluateType
  <2>2. CASE Dispatch
    BY <2>2, SendType DEF Dispatch, TypeOK
  <2>3. CASE OnWarning
    BY <2>3, SendType DEF OnWarning, TypeOK, Types
  <2>4. CASE Take
    BY <2>4 DEF Take, TypeOK
  <2>5. CASE Restart
    BY <2>5 DEF Restart, TypeOK, ConstantsAssumption
  <2>6. CASE Kubelet
    BY <2>6, KubeletType DEF TypeOK
  <2>7. CASE UNCHANGED vars
    BY <2>7 DEF vars, TypeOK
  <2>8. QED
    BY <2>1, <2>2, <2>3, <2>4, <2>5, <2>6, <2>7 DEF Next
<1>3. QED
  BY <1>1, <1>2, PTL DEF Spec

-----------------------------------------------------------------------------
(* What is shown was told.                                                  *)

\* The quick check never discards an update in which a rule finds an anomaly.
THEOREM NothingHidden == Spec => []FilterHidesNothing
<1>1. TypeOK => FilterHidesNothing
  BY RulesImplyChange DEF TypeOK, FilterHidesNothing
<1>2. QED
  BY <1>1, TypeCorrect, PTL

\* A condition the new state shows is found by its rule or was shown by the old.
LEMMA FoundOrShownBefore ==
    ASSUME NEW old \in Pod, NEW new \in Pod, NEW t \in Shown(new),
           [type |-> t.type, of |-> t.of] \notin Anomalies(old, new)
    PROVE  t \in Shown(old)
<1>1. CASE t.type = "CrashLoopBackOff"
  <2>1. t.of \in Waits(new, {"CrashLoopBackOff"}) /\ t.at = new.cs[t.of].restarts
    BY <1>1 DEF Shown
  <2>2. t.of \notin CrashLoopRule(old, new)
    BY <1>1, FoundByType
  <2>3. AlreadyCrashLoop(old, t.of, t.at)
    BY <2>1, <2>2 DEF CrashLoopRule
  <2>4. t = [type |-> "CrashLoopBackOff", of |-> t.of, at |-> t.at]
    BY <1>1 DEF Shown
  <2>5. QED
    BY <2>3, <2>4 DEF AlreadyCrashLoop, Shown
<1>2. CASE t.type = "ImagePullBackOff"
  <2>1. t = [type |-> "ImagePullBackOff", of |-> t.of, at |-> 0] /\ t.of \in Waits(new, PullErrors)
    BY <1>2 DEF Shown
  <2>2. t.of \notin ImagePullBackOffRule(old, new)
    BY <1>2, FoundByType
  <2>3. QED
    BY <2>1, <2>2 DEF ImagePullBackOffRule, Shown
<1>3. CASE t.type = "CreateContainerConfigError"
  <2>1. /\ t = [type |-> "CreateContainerConfigError", of |-> t.of, at |-> 0]
        /\ t.of \in Waits(new, {"CreateContainerConfigError"})
    BY <1>3 DEF Shown
  <2>2. t.of \notin CreateContainerConfigErrorRule(old, new)
    BY <1>3, FoundByType
  <2>3. QED
    BY <2>1, <2>2 DEF CreateContainerConfigErrorRule, Shown
<1>4. CASE t.type = "Evicted"
  <2>1. t = [type |-> "Evicted", of |-> NoPod, at |-> 0] /\ new.evicted
    BY <1>4 DEF Shown
  <2>2. ~EvictedRule(old, new)
    BY <1>4, <2>1, FoundByType
  <2>3. QED
    BY <2>1, <2>2 DEF EvictedRule, Shown
<1>5. QED
  BY <1>1, <1>2, <1>3, <1>4 DEF Shown

\* After a callback that evaluated the rules, what is told covers what is shown as
\* far as it did before.
LEMMA EvaluateTells ==
    ASSUME TypeOK, MissedOnlyAtStart, seen # NoPod, ShouldProcess,
           Evaluate(pod, Anomalies(seen, pod)), atStart' = atStart \cap Shown(pod)
    PROVE  MissedOnlyAtStart'
<1> SUFFICES ASSUME NEW t \in Shown(pod), t \notin told'
             PROVE  t.type = "CreateContainerConfigError" /\ t \in atStart'
  BY DEF MissedOnlyAtStart, Missed, Evaluate
<1>1. t \notin told /\ [type |-> t.type, of |-> t.of] \notin Anomalies(seen, pod)
  BY DEF Evaluate
<1>2. t \in Shown(seen)
  BY <1>1, FoundOrShownBefore DEF TypeOK
<1>3. QED
  BY <1>1, <1>2 DEF MissedOnlyAtStart, Missed

\* At the first sight of a pod every condition it shows is found, provided that
\* the check for abnormal pods lets it through, which it does for all conditions
\* but a configuration error.
LEMMA OnAddTells ==
    ASSUME TypeOK, OnAdd
    PROVE  MissedOnlyAtStart'
<1> SUFFICES ASSUME NEW t \in Shown(pod), t \notin told', ShouldProcess,
                    t.type # "CreateContainerConfigError"
             PROVE  FALSE
  BY DEF MissedOnlyAtStart, Missed, OnAdd, Evaluate, ShouldProcess
<1>1. HasAnomalyStatus(pod)
  BY DEF Shown, HasAnomalyStatus, Waits, Listed, Reasons, PullErrors
<1>2. Evaluate(pod, Anomalies(NoPod, pod))
  BY <1>1 DEF OnAdd
<1>3. [type |-> t.type, of |-> t.of] \notin Anomalies(NoPod, pod)
  BY <1>2 DEF Evaluate
<1>4. [type |-> t.type, of |-> t.of] \in Anomalies(NoPod, pod)
  <2>1. CASE t.type = "CrashLoopBackOff"
    <3>1. t.of \in Waits(pod, {"CrashLoopBackOff"})
      BY <2>1 DEF Shown
    <3>2. t.of \in CrashLoopRule(NoPod, pod)
      BY <3>1 DEF CrashLoopRule
    <3>3. QED
      BY <2>1, <3>2, FoundByType
  <2>2. CASE t.type = "ImagePullBackOff"
    <3>1. t.of \in Waits(pod, PullErrors)
      BY <2>2 DEF Shown
    <3>2. t.of \in ImagePullBackOffRule(NoPod, pod)
      BY <3>1 DEF ImagePullBackOffRule
    <3>3. QED
      BY <2>2, <3>2, FoundByType
  <2>3. CASE t.type = "Evicted"
    <3>1. t.of = NoPod /\ pod.evicted
      BY <2>3 DEF Shown
    <3>2. QED
      BY <2>3, <3>1, FoundByType DEF EvictedRule
  <2>4. QED
    BY <2>1, <2>2, <2>3 DEF Shown
<1>5. QED
  BY <1>3, <1>4

\* In a watched pod the only condition that is shown and was not reported is a
\* configuration error that was there when the watch began and has lasted since: what
\* a rule skips because the old state showed it already was told then.
THEOREM ShownWasTold == Spec => []MissedOnlyAtStart
<1>1. Init => MissedOnlyAtStart
  BY DEF Init, MissedOnlyAtStart, Missed
<1>2. TypeOK /\ MissedOnlyAtStart /\ [Next]_vars => MissedOnlyAtStart'
  <2> SUFFICES ASSUME TypeOK, MissedOnlyAtStart, [Next]_vars
               PROVE  MissedOnlyAtStart'
    OBVIOUS
  <2>1. CASE OnAdd
    BY <2>1, OnAddTells
  <2>2. CASE OnUpdate
    <3>1. CASE ~ShouldProcess
      BY <3>1 DEF MissedOnlyAtStart, Missed, ShouldProcess
    <3>2. CASE ShouldProcess
      <4>1. ~ContainerStatusChanged(seen, pod) => Anomalies(seen, pod) = {}
        BY <2>2, RulesImplyChange DEF TypeOK, OnUpdate
      <4>2. Evaluate(pod, Anomalies(seen, pod))
        BY <2>2, <3>2, <4>1 DEF OnUpdate
      <4>3. QED
        BY <2>2, <3>2, <4>2, EvaluateTells DEF OnUpdate
    <3>3. QED
      BY <3>1, <3>2
  <2>3. CASE Restart
    BY <2>3 DEF Restart, MissedOnlyAtStart, Missed
  <2>4. CASE UNCHANGED <<seen, told, atStart>>
    BY <2>4 DEF MissedOnlyAtStart, Missed, ShouldProcess
  <2>5. Dispatch \/ OnWarning \/ Take \/ Kubelet \/ UNCHANGED vars => UNCHANGED <<seen, told, atStart>>
    BY KubeletType, ConstantsAssumption DEF Dispatch, OnWarning, Take, vars
  <2>6. QED
    BY <2>1, <2>2, <2>3, <2>4, <2>5 DEF Next
<1>3. QED
  BY <1>1, <1>2, TypeCorrect, PTL DEF Spec

-----------------------------------------------------------------------------
(* Exits are reported with rising restart counts.                            *)

LEMMA SeenIsPastAlways == Spec => []SeenIsPast
<1>1. Init => SeenIsPast
  BY DEF Init, SeenIsPast
<1>2. TypeOK /\ SeenIsPast /\ [Next]_vars => SeenIsPast'
  <2> SUFFICES ASSUME TypeOK, SeenIsPast, [Next]_vars PROVE SeenIsPast'
    OBVIOUS
  <2>1. CASE OnAdd \/ OnUpdate
    <3>1. seen' = pod /\ pod' = pod
      BY <2>1 DEF OnAdd, OnUpdate, Evaluate
    <3>2. \A c \in Containers : pod.cs[c].restarts <= pod.cs[c].restarts
      BY DEF TypeOK, Pod, Status
    <3>3. QED
      BY <3>1, <3>2 DEF SeenIsPast, Listed
  <2>2. CASE Restart
    BY <2>2 DEF Restart, SeenIsPast
  <2>3. ASSUME NEW c \in Containers, NEW status, Change(c, status), status.state # "Absent",
               status.restarts \in Nat, status.restarts >= pod.cs[c].restarts
        PROVE  SeenIsPast'
    <3>1. seen' = seen /\ pod'.cs[c] = status
      BY <2>3 DEF Change, TypeOK, Pod
    <3>2. \A d \in Containers \ {c} : pod'.cs[d] = pod.cs[d]
      BY <2>3 DEF Change, TypeOK, Pod
    <3>3. ASSUME seen # NoPod, NEW d \in Listed(seen)
          PROVE  pod'.cs[d].state # "Absent" /\ seen.cs[d].restarts <= pod'.cs[d].restarts
      <4>1. /\ d \in Containers /\ pod.cs[d].state # "Absent"
            /\ seen.cs[d].restarts <= pod.cs[d].restarts
        BY <3>3 DEF SeenIsPast, Listed
      <4>2. seen.cs[d].restarts \in Nat /\ pod.cs[d].restarts \in Nat
        BY <3>3, <4>1 DEF TypeOK, Pod, Status
      <4>3. CASE d = c
        BY <2>3, <3>1, <4>1, <4>2, <4>3
      <4>4. CASE d # c
        BY <3>2, <4>1, <4>4
      <4>5. QED
        BY <4>3, <4>4
    <3>4. QED
      BY <3>1, <3>3 DEF SeenIsPast, Listed
  <2>4. CASE Kubelet
    <3>1. ASSUME NEW c \in Containers
          PROVE  pod.cs[c] \in Status /\ pod.cs[c].restarts \in Nat
      BY DEF TypeOK, Pod, Status
    <3>2. ASSUME NEW c \in Containers, Appear(c)
          PROVE  SeenIsPast'
      <4> DEFINE s == [Absent EXCEPT !.state = "ContainerCreating"]
      <4>1. Change(c, s) /\ pod.cs[c] = Absent
        BY <3>2 DEF Appear
      <4>2. s.state # "Absent" /\ s.restarts = 0 /\ Absent.restarts = 0
        BY DEF Absent
      <4> HIDE DEF s
      <4>3. QED
        BY <2>3, <4>1, <4>2
    <3>3. ASSUME NEW c \in Containers, NEW why \in Reasons, Wait(c, why)
          PROVE  SeenIsPast'
      <4> DEFINE s == [pod.cs[c] EXCEPT !.state = why, !.last = pod.cs[c].exit]
      <4>1. Change(c, s)
        BY <3>3 DEF Wait
      <4>2. s.state = why /\ s.restarts = pod.cs[c].restarts
        BY <3>1 DEF Status
      <4>3. why # "Absent"
        BY DEF Reasons, PullErrors
      <4> HIDE DEF s
      <4>4. QED
        BY <2>3, <3>1, <4>1, <4>2, <4>3
    <3>4. ASSUME NEW c \in Containers, Run(c)
          PROVE  SeenIsPast'
      <4> DEFINE n == IF pod.cs[c].exit = "none" THEN pod.cs[c].restarts
                      ELSE pod.cs[c].restarts + 1
                 s == [pod.cs[c] EXCEPT !.state = "Running", !.last = pod.cs[c].exit,
                                        !.restarts = n]
      <4>1. Change(c, s)
        BY <3>4 DEF Run
      <4>2. n \in Nat /\ n >= pod.cs[c].restarts
        BY <3>1
      <4> HIDE DEF n
      <4>3. s.state = "Running" /\ s.restarts = n
        BY <3>1 DEF Status
      <4> HIDE DEF s
      <4>4. QED
        BY <2>3, <4>1, <4>2, <4>3
    <3>5. ASSUME NEW c \in Containers, NEW how \in Ends, Exit(c, how)
          PROVE  SeenIsPast'
      <4> DEFINE s == [pod.cs[c] EXCEPT !.state = "Terminated", !.exit = how]
      <4>1. Change(c, s)
        BY <3>5 DEF Exit
      <4>2. s.state = "Terminated" /\ s.restarts = pod.cs[c].restarts
        BY <3>1 DEF Status
      <4> HIDE DEF s
      <4>3. QED
        BY <2>3, <3>1, <4>1, <4>2
    <3>6. CASE Evict
      <4>1. seen' = seen /\ pod'.cs = pod.cs
        BY <3>6 DEF Evict, TypeOK, Pod
      <4>2. QED
        BY <4>1 DEF SeenIsPast, Listed
    <3>7. QED
      BY <2>4, <3>2, <3>3, <3>4, <3>5, <3>6 DEF Kubelet
  <2>5. CASE UNCHANGED <<pod, seen>>
    BY <2>5 DEF SeenIsPast, Listed
  <2>6. Dispatch \/ OnWarning \/ Take \/ UNCHANGED vars => UNCHANGED <<pod, seen>>
    BY DEF Dispatch, OnWarning, Take, vars
  <2>7. QED
    BY <2>1, <2>2, <2>4, <2>5, <2>6 DEF Next
<1>3. QED
  BY <1>1, <1>2, TypeCorrect, PTL DEF Spec

\* What a callback reports is of the pod it is given, whose containers and restart
\* counts are those of the pod seen before or later ones.
LEMMA ExitsToldAreSeenAlways == Spec => []ExitsToldAreSeen
<1>1. Init => ExitsToldAreSeen
  BY DEF Init, ExitsToldAreSeen
<1>2. TypeOK /\ SeenIsPast /\ ExitsToldAreSeen /\ [Next]_vars => ExitsToldAreSeen'
  <2> SUFFICES ASSUME TypeOK, SeenIsPast, ExitsToldAreSeen, [Next]_vars
               PROVE  ExitsToldAreSeen'
    OBVIOUS
  <2>1. CASE OnAdd \/ OnUpdate
    <3>1. PICK found : /\ found = Anomalies(seen, pod) \/ found = {}
                       /\ Evaluate(pod, found)
      BY <2>1, OnAddEvaluates, OnUpdateEvaluates
    <3>2. pod # NoPod /\ seen' = pod /\ exitsTold' = exitsTold \cup ExitsIn(pod, found)
      BY <3>1, NoPodAssumption DEF Evaluate, TypeOK
    <3>3. ASSUME NEW r \in ExitsIn(pod, found)
          PROVE  r.of \in Listed(pod) /\ r.at <= pod.cs[r.of].restarts
      <4>1. found = Anomalies(seen, pod)
        BY <3>1, <3>3 DEF ExitsIn
      <4>2. r.of \in Listed(pod) /\ r.at = pod.cs[r.of].restarts
        BY <3>3, <4>1, ExitReports
      <4>3. pod.cs[r.of].restarts \in Nat
        BY <4>2 DEF Listed, TypeOK, Pod, Status
      <4>4. QED
        BY <4>2, <4>3
    <3>4. ASSUME NEW r \in exitsTold
          PROVE  r.of \in Listed(pod) /\ r.at <= pod.cs[r.of].restarts
      <4>1. seen # NoPod /\ r.of \in Listed(seen) /\ r.at <= seen.cs[r.of].restarts
        BY <3>4 DEF ExitsToldAreSeen
      <4>2. r.of \in Listed(pod) /\ seen.cs[r.of].restarts <= pod.cs[r.of].restarts
        BY <4>1 DEF SeenIsPast
      <4>3. r.at \in Nat /\ seen.cs[r.of].restarts \in Nat /\ pod.cs[r.of].restarts \in Nat
        BY <3>4, <4>1 DEF Listed, TypeOK, Pod, Status, ExitReport
      <4>4. QED
        BY <4>1, <4>2, <4>3
    <3>5. QED
      BY <3>2, <3>3, <3>4 DEF ExitsToldAreSeen
  <2>2. CASE Restart
    BY <2>2 DEF Restart, ExitsToldAreSeen
  <2>3. CASE UNCHANGED <<seen, exitsTold>>
    BY <2>3 DEF ExitsToldAreSeen
  <2>4. Dispatch \/ OnWarning \/ Take \/ Kubelet \/ UNCHANGED vars
           => UNCHANGED <<seen, exitsTold>>
    BY KubeletType, ConstantsAssumption DEF Dispatch, OnWarning, Take, vars
  <2>5. QED
    BY <2>1, <2>2, <2>3, <2>4 DEF Next
<1>3. QED
  BY <1>1, <1>2, TypeCorrect, SeenIsPastAlways, PTL DEF Spec

\* In one watch the exits of a container are reported with rising restart counts,
\* whatever states of the pod the informer skips: the termination that the status
\* still carries is not reported again before the container is restarted.
THEOREM ExitsRise == Spec => ExitsToldByCount
<1> DEFINE Rise == \A new \in ExitsIn(pod, out' \ out), r \in exitsTold :
                      r.of = new.of => r.at < new.at
<1>1. TypeOK /\ ExitsToldAreSeen /\ [Next]_vars => Rise
  <2> SUFFICES ASSUME TypeOK, ExitsToldAreSeen, [Next]_vars,
                      NEW new \in ExitsIn(pod, out' \ out), NEW r \in exitsTold,
                      r.of = new.of
               PROVE  r.at < new.at
    OBVIOUS
  <2>1. seen # NoPod /\ r.of \in Listed(seen) /\ r.at <= seen.cs[r.of].restarts
    BY DEF ExitsToldAreSeen
  <2>2. CASE OnUpdate
    <3>1. out' \subseteq Anomalies(seen, pod)
      BY <2>2 DEF OnUpdate, Evaluate
    <3>2. new \in ExitsIn(pod, Anomalies(seen, pod))
      BY <3>1 DEF ExitsIn
    <3>3. RestartCountIncreased(seen, new.of, new.at)
      BY <2>1, <3>2, ExitReports
    <3>4. new.at > seen.cs[r.of].restarts
      BY <2>1, <3>3 DEF RestartCountIncreased
    <3>5. r.at \in Nat /\ seen.cs[r.of].restarts \in Nat
      BY <2>1 DEF Listed, TypeOK, Pod, Status, ExitReport
    <3>6. new.at \in Nat
      BY <3>2, ExitReports DEF Listed, TypeOK, Pod, Status
    <3>7. QED
      BY <2>1, <3>4, <3>5, <3>6
  <2>3. CASE ~OnUpdate
    <3>1. Kubelet => out' = out
      BY KubeletType, ConstantsAssumption
    <3>2. ~OnAdd
      BY <2>1 DEF OnAdd
    <3>3. out' \subseteq out
      BY <2>3, <3>1, <3>2 DEF Next, Dispatch, OnWarning, Take, Restart, vars
    <3>4. QED
      BY <3>3 DEF ExitsIn
  <2>4. QED
    BY <2>2, <2>3
<1>2. QED
  BY <1>1, TypeCorrect, ExitsToldAreSeenAlways, PTL DEF Spec, ExitsToldByCount

-----------------------------------------------------------------------------
(* A condition that lasts is not told again.                                 *)

\* A condition that the old and the new state show is not found: with
\* FoundOrShownBefore, the rules find a condition exactly when it begins.
LEMMA ShownBeforeNotFound ==
    ASSUME NEW old \in Pod, NEW new \in Pod, NEW t \in Shown(old) \cap Shown(new)
    PROVE  [type |-> t.type, of |-> t.of] \notin Anomalies(old, new)
<1>0. old # NoPod
  BY NoPodAssumption
<1>1. CASE t.type = "CrashLoopBackOff"
  <2>1. /\ t.of \in Waits(old, {"CrashLoopBackOff"}) /\ t.at = old.cs[t.of].restarts
        /\ t.at = new.cs[t.of].restarts
    BY <1>1 DEF Shown
  <2>2. t.of \notin CrashLoopRule(old, new)
    BY <1>0, <2>1 DEF CrashLoopRule, AlreadyCrashLoop
  <2>3. QED
    BY <1>1, <2>2, FoundByType
<1>2. CASE t.type = "ImagePullBackOff"
  <2>1. t.of \in Waits(old, PullErrors)
    BY <1>2 DEF Shown
  <2>2. t.of \notin ImagePullBackOffRule(old, new)
    BY <1>0, <2>1 DEF ImagePullBackOffRule
  <2>3. QED
    BY <1>2, <2>2, FoundByType
<1>3. CASE t.type = "CreateContainerConfigError"
  <2>1. t.of \in Waits(old, {"CreateContainerConfigError"})
    BY <1>3 DEF Shown
  <2>2. t.of \notin CreateContainerConfigErrorRule(old, new)
    BY <1>0, <2>1 DEF CreateContainerConfigErrorRule
  <2>3. QED
    BY <1>3, <2>2, FoundByType
<1>4. CASE t.type = "Evicted"
  <2>1. old.evicted /\ t.of = NoPod
    BY <1>4 DEF Shown
  <2>2. ~EvictedRule(old, new)
    BY <1>0, <2>1 DEF EvictedRule
  <2>3. QED
    BY <1>4, <2>1, <2>2, FoundByType
<1>5. QED
  BY <1>1, <1>2, <1>3, <1>4 DEF Shown

LEMMA ToldWasShown == Spec => []ToldIsShown
<1>1. Init => ToldIsShown
  BY DEF Init, ToldIsShown
<1>2. TypeOK /\ ToldIsShown /\ [Next]_vars => ToldIsShown'
  <2> SUFFICES ASSUME TypeOK, ToldIsShown, [Next]_vars PROVE ToldIsShown'
    OBVIOUS
  <2>1. CASE OnAdd \/ OnUpdate
    <3>1. seen' = pod /\ told' \subseteq Shown(pod)
      BY <2>1 DEF OnAdd, OnUpdate, Evaluate
    <3>2. pod # NoPod
      BY NoPodAssumption DEF TypeOK
    <3>3. QED
      BY <3>1, <3>2 DEF ToldIsShown
  <2>2. CASE Restart
    BY <2>2 DEF Restart, ToldIsShown
  <2>3. CASE UNCHANGED <<seen, told>>
    BY <2>3 DEF ToldIsShown
  <2>4. Dispatch \/ OnWarning \/ Take \/ Kubelet \/ UNCHANGED vars => UNCHANGED <<seen, told>>
    BY KubeletType, ConstantsAssumption DEF Dispatch, OnWarning, Take, vars
  <2>5. QED
    BY <2>1, <2>2, <2>3, <2>4 DEF Next
<1>3. QED
  BY <1>1, <1>2, TypeCorrect, PTL DEF Spec

\* However the informer skips states and for whatever reason it calls, a condition
\* that was reported and lasts is not reported again.
THEOREM ToldOnce == Spec => NothingToldTwice
<1> DEFINE Again == \E t \in told \cap told' : [type |-> t.type, of |-> t.of] \in out' \ out
<1>1. TypeOK /\ ToldIsShown /\ [Next]_vars => ~Again
  <2> SUFFICES ASSUME TypeOK, ToldIsShown, [Next]_vars,
                      NEW t \in told \cap told', [type |-> t.type, of |-> t.of] \in out' \ out
               PROVE  FALSE
    OBVIOUS
  <2>1. CASE OnAdd
    BY <2>1 DEF OnAdd, ToldIsShown
  <2>2. CASE OnUpdate
    <3>1. t \in Shown(seen) \cap Shown(pod) /\ seen \in Pod /\ pod \in Pod
      BY <2>2 DEF OnUpdate, Evaluate, ToldIsShown, TypeOK
    <3>2. out' \subseteq Anomalies(seen, pod)
      BY <2>2 DEF OnUpdate, Evaluate
    <3>3. QED
      BY <3>1, <3>2, ShownBeforeNotFound
  <2>3. Dispatch \/ OnWarning \/ Take \/ Restart \/ Kubelet \/ UNCHANGED vars
          => out' \subseteq out
    <3>1. Kubelet => out' = out
      BY KubeletType, ConstantsAssumption
    <3>2. QED
      BY <3>1 DEF Dispatch, OnWarning, Take, Restart, vars
  <2>4. QED
    BY <2>1, <2>2, <2>3 DEF Next
<1>2. ~Again <=> \A t \in told \cap told' : [type |-> t.type, of |-> t.of] \notin out' \ out
  OBVIOUS
<1>3. QED
  BY <1>1, <1>2, TypeCorrect, ToldWasShown, PTL DEF Spec, NothingToldTwice
=============================================================================
