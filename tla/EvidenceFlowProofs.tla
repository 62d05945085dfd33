--------------------------- MODULE EvidenceFlowProofs ---------------------------
(***************************************************************************)
(* Proofs about EvidenceFlow: bundles are whole and in one place, for any  *)
(* anomalies, kinds of evidence, workers, notifiers and capacity.          *)
(***************************************************************************)
EXTENDS EvidenceFlow, TLAPS

USE DEF incident, collector, processor

LEMMA InitFlow == Init => FlowInv
<1> SUFFICES ASSUME Init PROVE FlowInv
  OBVIOUS
<1>1. TypeOK
  BY ConstantsAssumption DEF Init, TypeOK, Off, Empty, Idle, Nothing
<1>2. RestInv /\ SliceInv /\ SentInv /\ HandsInv
  BY DEF Init, RestInv, SliceInv, SentInv, HandsInv, Idle
<1>3. BundleWhole /\ OnePlace
  BY DEF Init, BundleWhole, OnePlace, Queued, InHand, Idle
<1>4. QED
  BY <1>1, <1>2, <1>3 DEF FlowInv

\* Steps that neither touch a collector nor a bundle.
LEMMA OtherSteps ==
    ASSUME FlowInv, UNCHANGED <<collector, channel, worker>>, TypeOK'
    PROVE  FlowInv'
  BY DEF FlowInv, RestInv, SliceInv, SentInv, HandsInv, BundleWhole, OnePlace, Queued, InHand

\* The bundles that are under way belong to goroutines that have ended.
LEMMA SentBundles ==
    ASSUME FlowInv, NEW b \in Queued \cup InHand
    PROVE  b \in Bundle /\ pc[b.of] = "ended"
  BY DEF FlowInv, TypeOK, SentInv, Queued, InHand

\* A goroutine that has not ended may go on: the bundles under way are those of
\* others.
LEMMA CollectorSteps ==
    ASSUME FlowInv, NEW a \in Anomalies, pc[a] # "ended", UNCHANGED <<channel, worker>>,
           \A o \in Anomalies \ {a} : pc'[o] = pc[o] /\ wanted'[o] = wanted[o]
    PROVE  SentInv' /\ HandsInv' /\ BundleWhole' /\ OnePlace'
<1>1. ASSUME NEW b \in Queued \cup InHand
      PROVE  b.of \in Anomalies \ {a}
  BY <1>1, SentBundles DEF Bundle
<1>2. SentInv' /\ BundleWhole'
  <2>1. \A i \in 1..Len(channel) : channel[i] \in Queued
    BY DEF Queued
  <2>2. \A w \in Workers : worker[w].with # Nothing => worker[w].with \in InHand
    BY DEF InHand
  <2>3. QED
    BY <1>1, <2>1, <2>2 DEF FlowInv, SentInv, BundleWhole, Queued, InHand
<1>3. HandsInv' /\ OnePlace'
  BY DEF FlowInv, HandsInv, OnePlace
<1>4. QED
  BY <1>2, <1>3

LEMMA ReceiveStep ==
    ASSUME FlowInv, NEW a \in Anomalies, Receive(a)
    PROVE  FlowInv'
<1>1. TypeOK'
  BY DEF FlowInv, TypeOK, Receive
<1>2. RestInv' /\ SliceInv'
  BY DEF FlowInv, TypeOK, RestInv, SliceInv, Receive
<1>3. SentInv' /\ HandsInv' /\ BundleWhole' /\ OnePlace'
  BY CollectorSteps DEF FlowInv, TypeOK, Receive
<1>4. QED
  BY <1>1, <1>2, <1>3 DEF FlowInv

LEMMA LoadConfigStep ==
    ASSUME FlowInv, NEW a \in Anomalies, LoadConfig(a)
    PROVE  FlowInv'
<1>1. PICK kinds \in KindsAsked :
         /\ wanted' = [wanted EXCEPT ![a] = kinds]
         /\ item' = [item EXCEPT ![a] = [m \in Kinds |-> IF m \in kinds THEN "call" ELSE "off"]]
  BY DEF LoadConfig
<1>2. TypeOK'
  BY <1>1 DEF FlowInv, TypeOK, LoadConfig, KindsAsked
<1>3. RestInv' /\ SliceInv'
  BY <1>1 DEF FlowInv, TypeOK, RestInv, SliceInv, LoadConfig, KindsAsked
<1>4. SentInv' /\ HandsInv' /\ BundleWhole' /\ OnePlace'
  BY <1>1, CollectorSteps DEF FlowInv, TypeOK, LoadConfig
<1>5. QED
  BY <1>2, <1>3, <1>4 DEF FlowInv

\* A collector can only work while its goroutine collects.
LEMMA CollectedStep ==
    ASSUME FlowInv, NEW a \in Anomalies, NEW m \in Kinds, Collected(a, m)
    PROVE  FlowInv'
<1>1. pc[a] = "collect"
  BY DEF FlowInv, RestInv, Collected, Off
<1>2. TypeOK'
  BY DEF FlowInv, TypeOK, Collected
<1>3. RestInv' /\ SliceInv'
  BY <1>1 DEF FlowInv, TypeOK, RestInv, SliceInv, Collected
<1>4. SentInv' /\ HandsInv' /\ BundleWhole' /\ OnePlace'
  BY <1>1, CollectorSteps DEF Collected
<1>5. QED
  BY <1>2, <1>3, <1>4 DEF FlowInv

LEMMA AddEvidenceStep ==
    ASSUME FlowInv, NEW a \in Anomalies, NEW m \in Kinds, AddEvidence(a, m)
    PROVE  FlowInv'
<1>1. pc[a] = "collect"
  BY DEF FlowInv, RestInv, AddEvidence, Off
<1>2. TypeOK'
  BY DEF FlowInv, TypeOK, AddEvidence
<1>3. RestInv' /\ SliceInv'
  BY <1>1 DEF FlowInv, TypeOK, RestInv, SliceInv, AddEvidence
<1>4. SentInv' /\ HandsInv' /\ BundleWhole' /\ OnePlace'
  BY <1>1, CollectorSteps DEF AddEvidence
<1>5. QED
  BY <1>2, <1>3, <1>4 DEF FlowInv

\* When its collectors are done the slice holds every kind that was asked for.
LEMMA DeliverStep ==
    ASSUME FlowInv, NEW a \in Anomalies, Deliver(a)
    PROVE  FlowInv'
<1> DEFINE new == [of |-> a, items |-> got[a]]
<1>1. pc[a] = "collect" /\ got[a] = wanted[a]
  <2>1. /\ pc[a] = "collect"
        /\ got[a] = {m \in Kinds : item[a][m] = "done"}
        /\ wanted[a] = {m \in Kinds : item[a][m] # "off"}
        /\ \A m \in wanted[a] : item[a][m] = "done"
    BY DEF FlowInv, SliceInv, Deliver, AllDone
  <2>2. \A m \in Kinds : item[a][m] # "off" <=> item[a][m] = "done"
    BY <2>1
  <2>3. QED
    BY <2>1, <2>2
<1>2. new \in Bundle
  BY DEF FlowInv, TypeOK, Bundle
<1>3. TypeOK'
  <2>1. channel' \in Seq(Bundle) /\ Len(channel') <= Capacity
    <3>1. channel \in Seq(Bundle) /\ Len(channel) <= Capacity
      BY DEF FlowInv, TypeOK
    <3>2. CASE Len(channel) < Capacity /\ channel' = Append(channel, new)
      <4> HIDE DEF new
      <4>1. channel' \in Seq(Bundle) /\ Len(channel') = Len(channel) + 1
        BY <1>2, <3>1, <3>2
      <4>2. QED
        BY <3>1, <3>2, <4>1, ConstantsAssumption
    <3>3. QED
      BY <3>1, <3>2 DEF Deliver
  <2>2. /\ pc' \in [Anomalies -> {"new", "load", "collect", "ended"}]
        /\ item' \in [Anomalies -> [Kinds -> {"off", "call", "append", "done"}]]
        /\ got' \in [Anomalies -> SUBSET Kinds]
    BY DEF FlowInv, TypeOK, Deliver, Ends, Off
  <2>3. QED
    BY <2>1, <2>2 DEF FlowInv, TypeOK, Deliver
<1>4. RestInv' /\ SliceInv'
  BY DEF FlowInv, TypeOK, RestInv, SliceInv, Deliver, Ends
<1>5. \/ UNCHANGED channel
      \/ /\ Len(channel') = Len(channel) + 1
         /\ channel'[Len(channel) + 1] = new
         /\ \A i \in 1..Len(channel) : channel'[i] = channel[i]
  BY <1>2 DEF FlowInv, TypeOK, Deliver
<1>6. \A b \in Queued \cup InHand : b.of # a
  BY <1>1, SentBundles
<1>7. SentInv'
  BY <1>5 DEF FlowInv, TypeOK, SentInv, Deliver, Ends
<1>8. Queued' \subseteq Queued \cup {new}
  BY <1>5 DEF FlowInv, TypeOK, Queued
<1>9. BundleWhole' /\ HandsInv'
  BY <1>1, <1>8 DEF FlowInv, BundleWhole, HandsInv, InHand, Deliver
<1>10. OnePlace'
  <2>1. \A i \in 1..Len(channel) : channel[i].of # a
    BY <1>6 DEF Queued
  <2>2. \A w \in Workers : worker[w].with.of # a
    BY <1>6, ConstantsAssumption DEF InHand, Nothing
  <2>3. UNCHANGED worker /\ Len(channel) \in Nat /\ OnePlace
    BY DEF FlowInv, TypeOK, Deliver
  <2>4. CASE UNCHANGED channel
    BY <2>3, <2>4 DEF OnePlace
  <2>5. CASE ~UNCHANGED channel
    <3>1. \A i \in 1..Len(channel') :
             \/ i \in 1..Len(channel) /\ channel'[i] = channel[i]
             \/ i = Len(channel) + 1 /\ channel'[i].of = a
      BY <1>5, <2>3, <2>5
    <3>2. \A i, j \in 1..Len(channel') : channel'[i].of = channel'[j].of => i = j
      BY <2>1, <2>3, <3>1 DEF OnePlace
    <3>3. \A i \in 1..Len(channel'), w \in Workers : channel'[i].of # worker[w].with.of
      BY <2>2, <2>3, <3>1 DEF OnePlace
    <3>4. QED
      BY <2>3, <3>2, <3>3 DEF OnePlace
  <2>6. QED
    BY <2>4, <2>5
<1>11. QED
  BY <1>3, <1>4, <1>7, <1>9, <1>10 DEF FlowInv

LEMMA TakeStep ==
    ASSUME FlowInv, NEW w \in Workers, Take(w)
    PROVE  FlowInv'
<1>1. /\ Head(channel) = channel[1] /\ Len(channel) \in Nat \ {0}
      /\ channel[1] \in Bundle
  BY DEF FlowInv, TypeOK, Take
<1>2. /\ Len(channel') = Len(channel) - 1
      /\ \A i \in 1..Len(channel') : channel'[i] = channel[i + 1]
  BY DEF FlowInv, TypeOK, Take
<1>3. TypeOK'
  <2>1. channel' \in Seq(Bundle) /\ Len(channel') <= Capacity
    BY <1>1, <1>2, ConstantsAssumption DEF FlowInv, TypeOK, Take
  <2>2. worker' \in [Workers -> [at : {"idle", "find", "save", "load", "notify", "ended"},
                                 with : Bundle \cup {Nothing}]]
    BY <1>1 DEF FlowInv, TypeOK, Take
  <2>3. QED
    BY <2>1, <2>2 DEF FlowInv, TypeOK, Take
<1>4. RestInv' /\ SliceInv'
  BY DEF FlowInv, RestInv, SliceInv, Take
<1>5. /\ worker'[w].with = channel[1] /\ worker'[w].at = "find"
      /\ \A v \in Workers \ {w} : worker'[v] = worker[v]
  BY <1>1 DEF FlowInv, TypeOK, Take
<1>6. SentInv'
  BY <1>1, <1>2, <1>5 DEF FlowInv, SentInv, Take
<1>7. HandsInv'
  <2>1. channel[1] # Nothing
    BY <1>1, ConstantsAssumption DEF Bundle, Nothing
  <2>2. QED
    BY <1>5, <2>1 DEF FlowInv, HandsInv
<1>8. Queued' \cup InHand' \subseteq Queued \cup InHand
  <2>1. channel[1] \in Queued
    BY <1>1 DEF Queued
  <2>2. \A i \in 1..Len(channel') : i + 1 \in 1..Len(channel)
    BY <1>1, <1>2
  <2>3. Queued' \subseteq Queued
    BY <1>2, <2>2 DEF Queued
  <2>4. InHand' \subseteq InHand \cup {channel[1]}
    BY <1>5 DEF InHand
  <2>5. QED
    BY <2>1, <2>3, <2>4
<1>9. BundleWhole'
  BY <1>8 DEF FlowInv, BundleWhole, Take
<1>10. OnePlace'
  <2>1. \A i \in 1..Len(channel') :
           i + 1 \in 1..Len(channel) /\ 1 \in 1..Len(channel) /\ channel'[i] = channel[i + 1]
    BY <1>1, <1>2
  <2>2. OnePlace
    BY DEF FlowInv
  <2>3. ASSUME NEW i \in 1..Len(channel'), NEW j \in 1..Len(channel'),
               channel'[i].of = channel'[j].of
        PROVE  i = j
    <3>1. i + 1 = j + 1
      BY <2>1, <2>2, <2>3 DEF OnePlace
    <3>2. QED
      BY <3>1
  <2>4. ASSUME NEW i \in 1..Len(channel'), NEW v \in Workers
        PROVE  channel'[i].of # worker'[v].with.of
    <3>1. CASE v = w
      <4>1. i + 1 # 1
        OBVIOUS
      <4>2. channel[i + 1].of # channel[1].of
        BY <2>1, <2>2, <4>1 DEF OnePlace
      <4>3. QED
        BY <1>5, <2>1, <3>1, <4>2
    <3>2. CASE v # w
      BY <1>5, <2>1, <2>2, <3>2 DEF OnePlace
    <3>3. QED
      BY <3>1, <3>2
  <2>5. ASSUME NEW u \in Workers, NEW v \in Workers, worker'[u].with # Nothing,
               worker'[u].with.of = worker'[v].with.of
        PROVE  u = v
    <3>1. \A x \in Workers : channel[1].of # worker[x].with.of
      BY <1>1, <2>2 DEF OnePlace
    <3>2. CASE u = w \/ v = w
      BY <1>5, <2>5, <3>1, <3>2
    <3>3. CASE u # w /\ v # w
      BY <1>5, <2>2, <2>5, <3>3 DEF OnePlace
    <3>4. QED
      BY <3>2, <3>3
  <2>6. QED
    BY <2>3, <2>4, <2>5 DEF OnePlace
<1>11. QED
  BY <1>3, <1>4, <1>6, <1>7, <1>9, <1>10 DEF FlowInv

\* A worker goes on with its bundle, or puts it aside.
LEMMA WorkerSteps ==
    ASSUME FlowInv, TypeOK', UNCHANGED <<collector, channel>>, NEW w \in Workers,
           worker'[w].with \in {worker[w].with, Nothing},
           worker'[w].with = Nothing <=> worker'[w].at \in {"idle", "ended"},
           \A v \in Workers \ {w} : worker'[v] = worker[v]
    PROVE  FlowInv'
<1>1. RestInv' /\ SliceInv'
  BY DEF FlowInv, RestInv, SliceInv
<1>2. SentInv' /\ HandsInv'
  BY DEF FlowInv, SentInv, HandsInv
<1>3. BundleWhole'
  BY DEF FlowInv, BundleWhole, Queued, InHand
<1>4. OnePlace'
  <2>1. \A i \in 1..Len(channel) : channel[i] \in Bundle
    BY DEF FlowInv, TypeOK
  <2>2. \A i \in 1..Len(channel) : channel[i].of # None
    BY <2>1, ConstantsAssumption DEF Bundle
  <2>3. \A v \in Workers : worker'[v].with.of \in {worker[v].with.of, None}
    BY DEF Nothing
  <2>5. \A i \in 1..Len(channel), v \in Workers : channel[i].of # worker'[v].with.of
    BY <2>2, <2>3 DEF FlowInv, OnePlace
  <2>6. ASSUME NEW u \in Workers, NEW v \in Workers, worker'[u].with # Nothing,
               worker'[u].with.of = worker'[v].with.of
        PROVE  u = v
    <3>1. worker'[u].with = worker[u].with
      BY <2>6
    <3>2. worker'[v].with # Nothing
      <4>1. worker[u].with \in Bundle
        BY <2>6, <3>1 DEF FlowInv, TypeOK
      <4>2. worker'[u].with.of # None
        BY <3>1, <4>1, ConstantsAssumption DEF Bundle
      <4>3. QED
        BY <2>6, <4>2 DEF Nothing
    <3>3. worker'[v].with = worker[v].with
      BY <3>2
    <3>4. QED
      BY <2>6, <3>1, <3>3 DEF FlowInv, OnePlace
  <2>7. QED
    BY <2>5, <2>6 DEF FlowInv, OnePlace
<1>5. QED
  BY <1>1, <1>2, <1>3, <1>4 DEF FlowInv

LEMMA NextStep == FlowInv /\ [Next]_vars => FlowInv'
<1> SUFFICES ASSUME FlowInv, [Next]_vars PROVE FlowInv'
  OBVIOUS
<1>1. ASSUME NEW a \in Anomalies, Receive(a) PROVE FlowInv'
  BY <1>1, ReceiveStep
<1>2. ASSUME NEW a \in Anomalies, Handle(a) PROVE FlowInv'
  BY <1>2, OtherSteps DEF FlowInv, TypeOK, Handle
<1>3. ASSUME NEW a \in Anomalies, Collect(a) PROVE FlowInv'
  BY <1>3, LoadConfigStep, CollectedStep, AddEvidenceStep, DeliverStep DEF Collect
<1>4. ASSUME NEW w \in Workers, Work(w) \/ Quit(w) PROVE FlowInv'
  <2>1. CASE Take(w)
    BY <2>1, TakeStep
  <2>2. CASE Quit(w)
    <3>1. TypeOK'
      BY <2>2 DEF FlowInv, TypeOK, Quit, Goto
    <3>2. QED
      BY <2>2, <3>1, WorkerSteps DEF FlowInv, TypeOK, HandsInv, Quit, Goto
  <2>3. CASE Find(w)
    <3>1. TypeOK'
      BY <2>3 DEF FlowInv, TypeOK, Find, Idle, Nothing
    <3>2. QED
      BY <2>3, <3>1, WorkerSteps DEF FlowInv, TypeOK, HandsInv, Find, Idle
  <2>4. CASE Save(w)
    <3>1. worker[w].with.of \in Anomalies
      BY <2>4 DEF FlowInv, TypeOK, HandsInv, Save, Bundle
    <3>2. TypeOK'
      BY <2>4, <3>1 DEF FlowInv, TypeOK, Save, Goto
    <3>3. QED
      BY <2>4, <3>2, WorkerSteps DEF FlowInv, TypeOK, HandsInv, Save, Goto
  <2>5. CASE LoadNotifiers(w)
    <3>1. PICK some \in NotifiersNamed :
             owed' = [owed EXCEPT ![worker[w].with.of] = some]
      BY <2>5 DEF LoadNotifiers
    <3>2. TypeOK'
      <4>1. some \in SUBSET Notifiers
        BY <3>1 DEF NotifiersNamed
      <4>2. owed' \in [Anomalies -> SUBSET Notifiers]
        BY <3>1, <4>1 DEF FlowInv, TypeOK
      <4>3. worker' \in [Workers -> [at : {"idle", "find", "save", "load", "notify", "ended"},
                                     with : Bundle \cup {Nothing}]]
        <5>1. worker' = [worker EXCEPT ![w].at = "notify"]
          BY <2>5 DEF LoadNotifiers, Goto
        <5>2. QED
          BY <5>1 DEF FlowInv, TypeOK
      <4>4. QED
        BY <2>5, <4>2, <4>3 DEF FlowInv, TypeOK, LoadNotifiers
    <3>3. QED
      BY <2>5, <3>2, WorkerSteps DEF FlowInv, TypeOK, HandsInv, LoadNotifiers, Goto
  <2>6. CASE Notify(w)
    <3>1. owed' \in [Anomalies -> SUBSET Notifiers]
      <4>1. PICK n : owed' = [owed EXCEPT ![worker[w].with.of] = @ \ {n}]
        BY <2>6 DEF Notify
      <4>2. QED
        BY <4>1 DEF FlowInv, TypeOK
    <3>2. TypeOK'
      BY <2>6, <3>1 DEF FlowInv, TypeOK, Notify
    <3>3. QED
      BY <2>6, <3>2, OtherSteps DEF Notify
  <2>7. CASE Finish(w)
    <3>1. TypeOK'
      BY <2>7 DEF FlowInv, TypeOK, Finish, Idle, Nothing
    <3>2. QED
      BY <2>7, <3>1, WorkerSteps DEF FlowInv, TypeOK, HandsInv, Finish, Idle
  <2>8. QED
    BY <1>4, <2>1, <2>2, <2>3, <2>4, <2>5, <2>6, <2>7 DEF Work
<1>5. ASSUME FanOutEnds \/ Resolve \/ Stop PROVE FlowInv'
  BY <1>5, OtherSteps DEF FlowInv, TypeOK, FanOutEnds, Resolve, Stop
<1>6. CASE UNCHANGED vars
  BY <1>6, OtherSteps DEF FlowInv, TypeOK, vars
<1>7. QED
  BY <1>1, <1>2, <1>3, <1>4, <1>5, <1>6 DEF Next

LEMMA FlowInvariant == Spec => []FlowInv
  BY InitFlow, NextStep, PTL DEF Spec

\* The state of collectors, channel and workers is well typed; in particular the
\* channel keeps its bound.
THEOREM TypeCorrect == Spec => []TypeOK
  BY FlowInvariant, PTL DEF FlowInv

\* collect hands on what all its goroutines have found, under the lock of
\* addEvidence and after wg.Wait: every bundle has all the kinds asked for.
THEOREM BundlesAreWhole == Spec => []BundleWhole
  BY FlowInvariant, PTL DEF FlowInv

\* The channel gives each bundle to one worker: it is stored and announced once.
THEOREM BundlesAreOnce == Spec => []OnePlace
  BY FlowInvariant, PTL DEF FlowInv
-----------------------------------------------------------------------------
(* The evidence goes through the stages of EvidenceDelivery.                 *)

Places == {"find", "save", "load", "notify"}

\* The stage that a goroutine, a queued bundle or a worker gives an anomaly: no
\* two of them disagree.
StagesRight ==
    /\ \A a \in Anomalies :
          /\ pc[a] = "new" => StageOf(a) = "new"
          /\ pc[a] \in {"load", "collect"} => StageOf(a) = "collecting"
          /\ pc[a] = "ended" /\ InChannel(a) => StageOf(a) = "queued"
          /\ (pc[a] = "ended" /\ ~InChannel(a) /\ \A w \in Workers : worker[w].with.of # a)
                => StageOf(a) = "done"
    /\ \A a \in Anomalies, w \in Workers : worker[w].with.of = a =>
          /\ worker[w].at = "find" => StageOf(a) = "taken"
          /\ worker[w].at = "save" => StageOf(a) = "found"
          /\ worker[w].at = "load" => StageOf(a) = "tried"
          /\ worker[w].at = "notify" => StageOf(a) = "announcing"

LEMMA Stages == FlowInv => StagesRight
<1> SUFFICES ASSUME FlowInv PROVE StagesRight
  OBVIOUS
<1>1. ASSUME NEW a \in Anomalies, pc[a] # "ended"
      PROVE  ~InChannel(a) /\ \A at \in Places : ~Has(a, at)
  BY <1>1, SentBundles, ConstantsAssumption
     DEF InChannel, Has, Places, InHand, Nothing, FlowInv, HandsInv
<1>2. ASSUME NEW w \in Workers, worker[w].at \in Places
      PROVE  /\ worker[w].with.of \in Anomalies
             /\ pc[worker[w].with.of] = "ended"
             /\ ~InChannel(worker[w].with.of)
             /\ \A at \in Places : Has(worker[w].with.of, at) <=> worker[w].at = at
  <2>1. worker[w].with # Nothing
    BY <1>2 DEF FlowInv, HandsInv, Places
  <2>2. worker[w].with.of \in Anomalies /\ pc[worker[w].with.of] = "ended"
    BY <2>1, SentBundles DEF InHand, Bundle
  <2>3. ~InChannel(worker[w].with.of)
    BY DEF FlowInv, OnePlace, InChannel, Queued
  <2>4. \A v \in Workers : worker[v].with.of = worker[w].with.of => v = w
    BY <2>1 DEF FlowInv, OnePlace
  <2>5. QED
    BY <2>2, <2>3, <2>4 DEF Has
<1>3. ASSUME NEW a \in Anomalies
      PROVE  /\ pc[a] = "new" => StageOf(a) = "new"
             /\ pc[a] \in {"load", "collect"} => StageOf(a) = "collecting"
  BY <1>1 DEF StageOf, Places
<1>4. ASSUME NEW a \in Anomalies, pc[a] = "ended"
      PROVE  /\ InChannel(a) => StageOf(a) = "queued"
             /\ (~InChannel(a) /\ \A w \in Workers : worker[w].with.of # a)
                   => StageOf(a) = "done"
  <2>1. InChannel(a) => \A at \in Places : ~Has(a, at)
    BY DEF FlowInv, OnePlace, InChannel, Queued, Has
  <2>2. (\A w \in Workers : worker[w].with.of # a) => \A at \in Places : ~Has(a, at)
    BY DEF Has
  <2>3. QED
    BY <1>4, <2>1, <2>2 DEF StageOf, Places
<1>5. ASSUME NEW a \in Anomalies, NEW w \in Workers, worker[w].with.of = a,
             worker[w].at \in Places
      PROVE  /\ worker[w].at = "find" => StageOf(a) = "taken"
             /\ worker[w].at = "save" => StageOf(a) = "found"
             /\ worker[w].at = "load" => StageOf(a) = "tried"
             /\ worker[w].at = "notify" => StageOf(a) = "announcing"
  BY <1>2, <1>5 DEF StageOf, Places
<1>6. QED
  BY <1>3, <1>4, <1>5 DEF StagesRight, Places

\* A step that leaves an anomaly where it is.
LEMMA StageKept ==
    ASSUME NEW a, pc'[a] = pc[a] \/ {pc[a], pc'[a]} \subseteq {"load", "collect"},
           InChannel(a)' <=> InChannel(a),
           \A at \in Places : Has(a, at)' <=> Has(a, at)
    PROVE  StageOf(a)' = StageOf(a)
  BY DEF StageOf, Places

LEMMA StageMoved ==
    ASSUME NEW a \in Anomalies, NEW from, NEW to,
           StageOf(a) = from, StageOf(a)' = to, running' = running,
           \A o \in Anomalies : o # a => StageOf(o)' = StageOf(o)
    PROVE  Delivery!Moves(a, from, to)
  BY DEF Delivery!Moves

LEMMA NothingMoves ==
    ASSUME \A a \in Anomalies : StageOf(a)' = StageOf(a), UNCHANGED <<running, stored, owed>>
    PROVE  UNCHANGED Delivery!dvars
  BY DEF Delivery!dvars

\* A goroutine that goes on alone moves no other anomaly.
LEMMA OthersStay ==
    ASSUME NEW a \in Anomalies, UNCHANGED worker, NEW o \in Anomalies, o # a,
           pc'[o] = pc[o], InChannel(o)' <=> InChannel(o)
    PROVE  StageOf(o)' = StageOf(o)
  BY StageKept DEF Has
LEMMA CollectDelivers ==
    ASSUME FlowInv, FlowInv', NEW a \in Anomalies, Receive(a) \/ Collect(a)
    PROVE  [Delivery!Next]_(Delivery!dvars)
<1>1. StagesRight /\ StagesRight'
  BY Stages, PTL
<1>2. ASSUME NEW o \in Anomalies, o # a PROVE StageOf(o)' = StageOf(o)
  <2>1. UNCHANGED worker /\ pc'[o] = pc[o]
    BY <1>2 DEF Receive, Collect, LoadConfig, Collected, AddEvidence, Deliver, Ends,
                FlowInv, TypeOK
  <2>2. InChannel(o)' <=> InChannel(o)
    <3>1. CASE UNCHANGED channel
      BY <3>1 DEF InChannel, Queued
    <3>2. CASE channel' = Append(channel, [of |-> a, items |-> got[a]])
      <4>1. channel \in Seq(Bundle)
        BY DEF FlowInv, TypeOK
      <4>2. /\ Len(channel') = Len(channel) + 1
            /\ channel'[Len(channel) + 1].of = a
            /\ \A i \in 1..Len(channel) : channel'[i] = channel[i]
        BY <3>2, <4>1
      <4>3. \A i \in 1..Len(channel') : i \in 1..Len(channel) \/ i = Len(channel) + 1
        BY <4>1, <4>2
      <4>4. \A i \in 1..Len(channel) : i \in 1..Len(channel')
        BY <4>1, <4>2
      <4>5. QED
        BY <1>2, <4>2, <4>3, <4>4 DEF InChannel, Queued
    <3>3. QED
      BY <3>1, <3>2
         DEF Receive, Collect, LoadConfig, Collected, AddEvidence, Deliver
  <2>3. QED
    BY <1>2, <2>1, <2>2, OthersStay
<1>3. CASE Receive(a)
  <2>1. StageOf(a) = "new" /\ StageOf(a)' = "collecting"
    BY <1>1, <1>3 DEF StagesRight, Receive, FlowInv, TypeOK
  <2>2. Delivery!Receive(a)
    BY <1>2, <1>3, <2>1, StageMoved DEF Delivery!Receive, Receive
  <2>3. QED
    BY <2>2 DEF Delivery!Next
<1>4. CASE Deliver(a)
  <2>1. StageOf(a) = "collecting" /\ pc'[a] = "ended"
    BY <1>1, <1>4 DEF StagesRight, Deliver, AllDone, Ends, FlowInv, TypeOK
  <2>2. CASE channel' = Append(channel, [of |-> a, items |-> got[a]])
    <3>1. channel \in Seq(Bundle)
      BY DEF FlowInv, TypeOK
    <3>2. channel'[Len(channel) + 1].of = a /\ Len(channel) + 1 \in 1..Len(channel')
      BY <2>2, <3>1
    <3>3. InChannel(a)'
      BY <3>2 DEF InChannel, Queued
    <3>4. StageOf(a)' = "queued"
      BY <1>1, <2>1, <3>3 DEF StagesRight
    <3>5. Delivery!Send(a)
      BY <1>2, <1>4, <2>1, <3>4, StageMoved DEF Delivery!Send, Deliver
    <3>6. QED
      BY <3>5 DEF Delivery!Next
  <2>3. CASE ~running /\ UNCHANGED channel
    <3>1. pc[a] = "collect" /\ UNCHANGED worker
      BY <1>4 DEF Deliver, AllDone
    <3>2. ~InChannel(a) /\ \A w \in Workers : worker[w].with.of # a
      <4>1. ~InChannel(a)
        BY <3>1, SentBundles DEF InChannel
      <4>2. ASSUME NEW w \in Workers, worker[w].with.of = a PROVE FALSE
        <5>1. worker[w].with # Nothing
          BY <4>2, ConstantsAssumption DEF Nothing
        <5>2. worker[w].with \in InHand
          BY <5>1 DEF InHand
        <5>3. QED
          BY <3>1, <4>2, <5>2, SentBundles
      <4>3. QED
        BY <4>1, <4>2
    <3>3. ~InChannel(a)' /\ \A w \in Workers : worker'[w].with.of # a
      BY <2>3, <3>1, <3>2 DEF InChannel, Queued
    <3>4. StageOf(a)' = "done"
      BY <1>1, <2>1, <3>3 DEF StagesRight
    <3>5. Delivery!GiveUp(a)
      BY <1>2, <1>4, <2>1, <2>3, <3>4, StageMoved DEF Delivery!GiveUp, Deliver
    <3>6. QED
      BY <3>5 DEF Delivery!Next
  <2>4. QED
    BY <1>4, <2>2, <2>3 DEF Deliver
<1>5. CASE LoadConfig(a) \/ \E m \in Kinds : Collected(a, m) \/ AddEvidence(a, m)
  <2>1. /\ pc'[a] = pc[a] \/ {pc[a], pc'[a]} \subseteq {"load", "collect"}
        /\ UNCHANGED <<channel, worker>>
    BY <1>5 DEF LoadConfig, Collected, AddEvidence, FlowInv, TypeOK
  <2>2. StageOf(a)' = StageOf(a)
    BY <2>1, StageKept DEF InChannel, Queued, Has
  <2>3. UNCHANGED <<running, stored, owed>>
    BY <1>5 DEF LoadConfig, Collected, AddEvidence
  <2>4. UNCHANGED Delivery!dvars
    BY <1>2, <2>2, <2>3, NothingMoves
  <2>5. QED
    BY <2>4
<1>6. QED
  BY <1>3, <1>4, <1>5 DEF Collect

\* A bundle that a worker takes leaves the channel.
LEMMA TakeDelivers ==
    ASSUME FlowInv, FlowInv', NEW w \in Workers, Take(w)
    PROVE  [Delivery!Next]_(Delivery!dvars)
<1> DEFINE a == channel[1].of
<1>1. StagesRight /\ StagesRight'
  BY Stages, PTL
<1>2. /\ Head(channel) = channel[1] /\ Len(channel) \in Nat \ {0}
      /\ channel[1] \in Bundle /\ channel[1] \in Queued
      /\ Len(channel') = Len(channel) - 1
      /\ \A i \in 1..Len(channel') : channel'[i] = channel[i + 1]
  BY DEF FlowInv, TypeOK, Take, Queued
<1>3. a \in Anomalies /\ pc[a] = "ended"
  BY <1>2, SentBundles DEF Bundle
<1>4. /\ worker'[w] = [at |-> "find", with |-> channel[1]]
      /\ \A v \in Workers \ {w} : worker'[v] = worker[v]
  BY <1>2 DEF FlowInv, TypeOK, Take
<1>5. StageOf(a) = "queued"
  BY <1>1, <1>2, <1>3 DEF StagesRight, InChannel
<1>6. PICK b \in Anomalies : b = a
  BY <1>3
<1>7. ASSUME NEW o \in Anomalies, o # a PROVE StageOf(o)' = StageOf(o)
  <2>1. InChannel(o)' <=> InChannel(o)
    <3>1. \A i \in 1..Len(channel) : channel[i].of = o => i - 1 \in 1..Len(channel')
      BY <1>2, <1>7
    <3>2. \A i \in 1..Len(channel) : channel[i].of = o => channel'[i - 1] = channel[i]
      BY <1>2, <3>1
    <3>3. \A i \in 1..Len(channel') : i + 1 \in 1..Len(channel)
      BY <1>2
    <3>4. ASSUME InChannel(o) PROVE InChannel(o)'
      <4>1. PICK i \in 1..Len(channel) : channel[i].of = o
        BY <3>4 DEF InChannel, Queued
      <4>2. i - 1 \in 1..Len(channel') /\ channel'[i - 1].of = o
        BY <3>1, <3>2, <4>1
      <4>3. QED
        BY <4>2 DEF InChannel, Queued
    <3>5. ASSUME InChannel(o)' PROVE InChannel(o)
      <4>1. PICK i \in 1..Len(channel') : channel'[i].of = o
        BY <3>5 DEF InChannel, Queued
      <4>2. i + 1 \in 1..Len(channel) /\ channel[i + 1].of = o
        BY <1>2, <3>3, <4>1
      <4>3. QED
        BY <4>2 DEF InChannel, Queued
    <3>6. QED
      BY <3>4, <3>5
  <2>2. worker[w].with.of # o /\ worker'[w].with.of # o
    BY <1>4, <1>7, ConstantsAssumption DEF Take, FlowInv, HandsInv, Nothing
  <2>3. \A at \in Places : Has(o, at)' <=> Has(o, at)
    BY <1>4, <2>2 DEF Has
  <2>4. QED
    BY <2>1, <2>3, StageKept DEF Take
<1>8. StageOf(b) = "queued" /\ StageOf(b)' = "taken"
  <2>1. b = worker'[w].with.of /\ worker'[w].at = "find"
    BY <1>4, <1>6
  <2>2. StageOf(b)' = "taken"
    BY <1>1, <2>1 DEF StagesRight
  <2>3. QED
    BY <1>5, <1>6, <2>2
<1>9. Delivery!Moves(b, "queued", "taken")
  BY <1>6, <1>7, <1>8, StageMoved DEF Take
<1>10. QED
  BY <1>9 DEF Delivery!Take, Delivery!Next, Take
\* What a worker does with its bundle concerns no other anomaly, and the one it
\* puts aside is done.
LEMMA WorkerDelivers ==
    ASSUME FlowInv, FlowInv', NEW w \in Workers, worker[w].at \in Places,
           UNCHANGED <<pc, channel>>, \A v \in Workers \ {w} : worker'[v] = worker[v],
           worker'[w].with \in {worker[w].with, Nothing}
    PROVE  \E a \in Anomalies :
              /\ a = worker[w].with.of
              /\ \A o \in Anomalies : o # a => StageOf(o)' = StageOf(o)
              /\ worker'[w] = Idle => StageOf(a)' = "done"
<1>1. worker[w].with # Nothing
  BY DEF FlowInv, HandsInv, Places
<1>2. PICK a \in Anomalies : a = worker[w].with.of /\ pc[a] = "ended"
  BY <1>1, SentBundles DEF InHand, Bundle
<1>3. InChannel(a)' <=> InChannel(a)
  BY DEF InChannel, Queued
<1>4. ASSUME NEW o \in Anomalies, o # a PROVE StageOf(o)' = StageOf(o)
  <2>1. worker[w].with.of # o /\ worker'[w].with.of # o
    BY <1>2, <1>4, ConstantsAssumption DEF Nothing
  <2>2. InChannel(o)' <=> InChannel(o)
    BY DEF InChannel, Queued
  <2>3. \A at \in Places : Has(o, at)' <=> Has(o, at)
    BY <2>1 DEF Has
  <2>4. QED
    BY <2>2, <2>3, StageKept
<1>5. ASSUME worker'[w] = Idle PROVE StageOf(a)' = "done"
  <2>1. ~InChannel(a)'
    BY <1>2, <1>3 DEF FlowInv, OnePlace, InChannel, Queued
  <2>2. \A v \in Workers \ {w} : worker[v].with.of # a
    BY <1>1, <1>2 DEF FlowInv, OnePlace
  <2>3. \A v \in Workers : worker'[v].with.of # a
    BY <1>5, <2>2, ConstantsAssumption DEF Idle, Nothing
  <2>4. StagesRight'
    BY Stages, PTL
  <2>5. QED
    BY <1>2, <2>1, <2>3, <2>4 DEF StagesRight
<1>6. QED
  BY <1>2, <1>4, <1>5

LEMMA WorkDelivers ==
    ASSUME FlowInv, FlowInv', NEW w \in Workers, Work(w) \/ Quit(w)
    PROVE  [Delivery!Next]_(Delivery!dvars)
<1>1. StagesRight /\ StagesRight'
  BY Stages, PTL
<1>2. CASE Take(w)
  BY <1>2, TakeDelivers
<1>3. CASE Quit(w)
  <2>1. \A v \in Workers, at \in Places :
           /\ worker'[v].at = at <=> worker[v].at = at
           /\ worker'[v].with = worker[v].with
    BY <1>3 DEF Quit, Goto, Places, FlowInv, TypeOK
  <2>2. \A a \in Anomalies, at \in Places : Has(a, at)' <=> Has(a, at)
    BY <2>1 DEF Has
  <2>3. \A a \in Anomalies : StageOf(a)' = StageOf(a)
    BY <1>3, <2>2, StageKept DEF Quit, InChannel, Queued
  <2>4. UNCHANGED Delivery!dvars
    BY <1>3, <2>3, NothingMoves DEF Quit
  <2>5. QED
    BY <2>4
<1>4. CASE Find(w)
  <2>1. /\ worker[w].at \in Places /\ UNCHANGED <<pc, channel>>
        /\ \A v \in Workers \ {w} : worker'[v] = worker[v]
        /\ \/ worker'[w] = Idle
           \/ worker'[w].at = "save" /\ worker'[w].with = worker[w].with
    BY <1>4 DEF Find, Places, FlowInv, TypeOK
  <2>2. worker'[w].with \in {worker[w].with, Nothing}
    BY <2>1 DEF Idle
  <2>3. PICK a \in Anomalies :
           /\ a = worker[w].with.of
           /\ \A o \in Anomalies : o # a => StageOf(o)' = StageOf(o)
           /\ worker'[w] = Idle => StageOf(a)' = "done"
    BY <2>1, <2>2, WorkerDelivers
  <2>4. StageOf(a) = "taken"
    BY <1>1, <1>4, <2>3 DEF StagesRight, Find
  <2>5. CASE worker'[w] = Idle
    BY <1>4, <2>3, <2>4, <2>5, StageMoved DEF Delivery!Drop, Delivery!Next, Find
  <2>6. CASE worker'[w].at = "save" /\ worker'[w].with = worker[w].with
    <3>1. StageOf(a)' = "found"
      BY <1>1, <2>3, <2>6 DEF StagesRight
    <3>2. QED
      BY <1>4, <2>3, <2>4, <3>1, StageMoved DEF Delivery!Find, Delivery!Next, Find
  <2>7. QED
    BY <2>1, <2>5, <2>6
<1>5. CASE Save(w) \/ LoadNotifiers(w)
  <2>1. /\ worker[w].at \in Places /\ UNCHANGED <<pc, channel, running>>
        /\ \A v \in Workers \ {w} : worker'[v] = worker[v]
        /\ worker'[w].with = worker[w].with
        /\ worker'[w].at = IF worker[w].at = "save" THEN "load" ELSE "notify"
    BY <1>5 DEF Save, LoadNotifiers, Goto, Places, FlowInv, TypeOK
  <2>2. PICK a \in Anomalies :
           /\ a = worker[w].with.of
           /\ \A o \in Anomalies : o # a => StageOf(o)' = StageOf(o)
    BY <2>1, WorkerDelivers
  <2>3. CASE Save(w)
    <3>1. StageOf(a) = "found" /\ StageOf(a)' = "tried"
      BY <1>1, <2>1, <2>2, <2>3 DEF StagesRight, Save
    <3>2. Delivery!Moves(a, "found", "tried")
      BY <2>1, <2>2, <3>1, StageMoved
    <3>3. Delivery!Save(a)
      BY <2>2, <2>3, <3>2 DEF Delivery!Save, Save
    <3>4. QED
      BY <3>3 DEF Delivery!Next
  <2>4. CASE LoadNotifiers(w)
    <3>1. StageOf(a) = "tried" /\ StageOf(a)' = "announcing"
      BY <1>1, <2>1, <2>2, <2>4 DEF StagesRight, LoadNotifiers
    <3>2. Delivery!Moves(a, "tried", "announcing")
      BY <2>1, <2>2, <3>1, StageMoved
    <3>3. \E some \in SUBSET Notifiers : owed' = [owed EXCEPT ![a] = some]
      BY <2>2, <2>4 DEF LoadNotifiers, NotifiersNamed
    <3>4. Delivery!Name(a)
      BY <2>4, <3>2, <3>3 DEF Delivery!Name, LoadNotifiers
    <3>5. QED
      BY <3>4 DEF Delivery!Next
  <2>5. QED
    BY <1>5, <2>3, <2>4
<1>6. CASE Notify(w)
  <2>1. worker[w].at \in Places /\ UNCHANGED <<pc, channel, worker, running, stored>>
    BY <1>6 DEF Notify, Places
  <2>2. PICK a \in Anomalies : a = worker[w].with.of
    BY <2>1, WorkerDelivers
  <2>3. StageOf(a) = "announcing"
    BY <1>1, <1>6, <2>2 DEF StagesRight, Notify
  <2>4. \A o \in Anomalies : StageOf(o)' = StageOf(o)
    BY <2>1, StageKept DEF InChannel, Queued, Has
  <2>5. \E n \in owed[a] : owed' = [owed EXCEPT ![a] = @ \ {n}]
    BY <1>6, <2>2 DEF Notify
  <2>6. Delivery!Call(a)
    BY <2>1, <2>3, <2>4, <2>5 DEF Delivery!Call
  <2>7. QED
    BY <2>6 DEF Delivery!Next
<1>7. CASE Finish(w)
  <2>1. /\ worker[w].at \in Places /\ UNCHANGED <<pc, channel, running, stored, owed>>
        /\ \A v \in Workers \ {w} : worker'[v] = worker[v]
        /\ worker'[w] = Idle /\ worker'[w].with = Nothing
    BY <1>7 DEF Finish, Places, FlowInv, TypeOK, Idle
  <2>2. PICK a \in Anomalies :
           /\ a = worker[w].with.of
           /\ \A o \in Anomalies : o # a => StageOf(o)' = StageOf(o)
           /\ worker'[w] = Idle => StageOf(a)' = "done"
    BY <2>1, WorkerDelivers
  <2>3. StageOf(a) = "announcing" /\ owed[a] = {}
    BY <1>1, <1>7, <2>2 DEF StagesRight, Finish
  <2>4. Delivery!Moves(a, "announcing", "done")
    BY <2>1, <2>2, <2>3, StageMoved
  <2>5. Delivery!Finish(a)
    BY <2>1, <2>3, <2>4 DEF Delivery!Finish
  <2>6. QED
    BY <2>5 DEF Delivery!Next
<1>8. QED
  BY <1>2, <1>3, <1>4, <1>5, <1>6, <1>7 DEF Work

LEMMA DeliveryStep ==
    FlowInv /\ FlowInv' /\ [Next]_vars => [Delivery!Next]_(Delivery!dvars)
<1> SUFFICES ASSUME FlowInv, FlowInv', [Next]_vars
             PROVE  [Delivery!Next]_(Delivery!dvars)
  OBVIOUS
<1>1. ASSUME UNCHANGED <<pc, channel, worker>>
      PROVE  \A a \in Anomalies : StageOf(a)' = StageOf(a)
  BY <1>1, StageKept DEF InChannel, Queued, Has
<1>2. ASSUME NEW a \in Anomalies, Receive(a) \/ Collect(a)
      PROVE  [Delivery!Next]_(Delivery!dvars)
  BY <1>2, CollectDelivers
<1>3. ASSUME NEW w \in Workers, Work(w) \/ Quit(w)
      PROVE  [Delivery!Next]_(Delivery!dvars)
  BY <1>3, WorkDelivers
<1>4. CASE Stop
  <2>1. \A a \in Anomalies : StageOf(a)' = StageOf(a)
    BY <1>1, <1>4 DEF Stop
  <2>2. Delivery!Stop
    BY <1>4, <2>1 DEF Delivery!Stop, Stop
  <2>3. QED
    BY <2>2 DEF Delivery!Next
<1>5. CASE (\E a \in Anomalies : Handle(a)) \/ FanOutEnds \/ Resolve \/ UNCHANGED vars
  <2>1. UNCHANGED <<pc, channel, worker, running, stored, owed>>
    BY <1>5 DEF Handle, FanOutEnds, Resolve, vars
  <2>2. UNCHANGED Delivery!dvars
    BY <1>1, <2>1, NothingMoves
  <2>3. QED
    BY <2>2
<1>6. QED
  BY <1>2, <1>3, <1>4, <1>5 DEF Next

\* Collector, channel and worker pool implement EvidenceDelivery: each anomaly's
\* evidence goes its straight line, for any number of goroutines and any
\* capacity of the channel.
THEOREM ImplementsDelivery == Spec => DeliverySpec
<1>1. Init => Delivery!Init
  <2> SUFFICES ASSUME Init PROVE Delivery!Init
    OBVIOUS
  <2>1. \A a \in Anomalies : StageOf(a) = "new"
    <3>1. StagesRight
      BY InitFlow, Stages
    <3>2. QED
      BY <3>1 DEF StagesRight, Init
  <2>2. QED
    BY <2>1 DEF Init, Delivery!Init
<1>2. QED
  BY <1>1, FlowInvariant, DeliveryStep, PTL DEF Spec, DeliverySpec, Delivery!Spec
=============================================================================
