------------------------------ MODULE EvidenceFlow ------------------------------
(***************************************************************************)
(* How the evidence of an anomaly is collected, stored and announced:      *)
(*   - the collector (internal/collector/collector.go): one goroutine per  *)
(*     anomaly, which starts one goroutine per kind of evidence, waits for *)
(*     all of them and sends the bundle into a bounded channel,            *)
(*   - the evidence processor (internal/pipeline/incident/                 *)
(*     evidence_processor.go): a pool of workers that look the incident    *)
(*     up, save the bundle and notify,                                     *)
(*   - the dispatcher (internal/notify/dispatcher.go), which asks the      *)
(*     settings for its notifiers at each bundle,                          *)
(*   - the fan-out and the loaders of internal/cluster/manager.go.         *)
(*                                                                         *)
(* The life is that of one pipeline: channels and goroutines belong to it, *)
(* a start after a stop makes new ones.  The anomalies have one            *)
(* deduplication key; of their incident only whether the index holds an    *)
(* open one matters here (IncidentPipeline has the whole).  A piece of     *)
(* evidence is its kind: a collector that fails returns one too, with an   *)
(* error for a content.                                                    *)
(***************************************************************************)
EXTENDS Naturals, Sequences, FiniteSets

CONSTANTS
    Anomalies,      \* the anomalies of a behaviour
    Kinds,          \* kinds of evidence
    Metrics,        \* the kind that the settings can switch off
    Workers,        \* workers of the evidence processor (4)
    Notifiers,      \* channels of notification that settings or file may name
    Capacity,       \* of the evidence channel (100)
    None            \* no bundle

ASSUME ConstantsAssumption ==
    /\ Metrics \in Kinds
    /\ Capacity \in Nat \ {0}
    /\ None \notin Anomalies

VARIABLES
    running,    \* is the context of the pipeline alive?
    fanOut,     \* is the fan-out goroutine alive?
    handling,   \* anomalies whose HandleAnomaly has not reached the index
    open,       \* does the index hold an open incident of the key?
    pc,         \* pc[a]: the collect goroutine of a
    wanted,     \* wanted[a]: the kinds it has started a collector for
    item,       \* item[a][m]: the collector of kind m
    loaded,     \* loaded[a][m]: the slice that m is appending to
    got,        \* got[a]: the slice evidences
    channel,    \* the evidence channel
    worker,     \* worker[w]: what it does, and with which bundle
    stored,     \* the anomalies whose bundle is in the evidences table
    owed        \* owed[a]: the notifiers the loader named for the bundle of a
                \* that were not called with it

incident  == <<handling, open>>
collector == <<pc, wanted, item, loaded, got>>
processor == <<worker, stored, owed>>
vars == <<running, fanOut, incident, collector, channel, processor>>

Bundle  == [of : Anomalies, items : SUBSET Kinds]
Nothing == [of |-> None, items |-> {}]
Idle    == [at |-> "idle", with |-> Nothing]
Off     == [m \in Kinds |-> "off"]
Empty   == [m \in Kinds |-> {}]

TypeOK ==
    /\ running \in BOOLEAN /\ fanOut \in BOOLEAN
    /\ handling \in SUBSET Anomalies /\ open \in BOOLEAN
    /\ pc \in [Anomalies -> {"new", "load", "collect", "ended"}]
    /\ wanted \in [Anomalies -> SUBSET Kinds]
    /\ item \in [Anomalies -> [Kinds -> {"off", "call", "append", "done"}]]
    /\ loaded \in [Anomalies -> [Kinds -> SUBSET Kinds]]
    /\ got \in [Anomalies -> SUBSET Kinds]
    /\ channel \in Seq(Bundle) /\ Len(channel) <= Capacity
    /\ worker \in [Workers -> [at : {"idle", "find", "save", "load", "notify", "ended"},
                               with : Bundle \cup {Nothing}]]
    /\ stored \in SUBSET Anomalies
    /\ owed \in [Anomalies -> SUBSET Notifiers]

Init ==
    /\ running = TRUE /\ fanOut = TRUE
    /\ handling = {} /\ open \in BOOLEAN
    /\ pc = [a \in Anomalies |-> "new"]
    /\ wanted = [a \in Anomalies |-> {}]
    /\ item = [a \in Anomalies |-> Off]
    /\ loaded = [a \in Anomalies |-> Empty]
    /\ got = [a \in Anomalies |-> {}]
    /\ channel = <<>>
    /\ worker = [w \in Workers |-> Idle]
    /\ stored = {}
    /\ owed = [a \in Anomalies |-> {}]

-----------------------------------------------------------------------------
(* The fan-out and the incident. *)

\* The fan-out starts the collector and the incident manager side by side.  Its
\* select may still take an anomaly when the context is cancelled.
Receive(a) ==
    /\ fanOut
    /\ pc[a] = "new"
    /\ pc' = [pc EXCEPT ![a] = "load"]
    /\ handling' = handling \cup {a}
    /\ UNCHANGED <<running, fanOut, open, wanted, item, loaded, got, channel, processor>>

FanOutEnds ==
    /\ ~running
    /\ fanOut
    /\ fanOut' = FALSE
    /\ UNCHANGED <<running, incident, collector, channel, processor>>

\* HandleAnomaly merges a into the open incident or inserts a new one.
Handle(a) ==
    /\ a \in handling
    /\ handling' = handling \ {a}
    /\ open' = TRUE
    /\ UNCHANGED <<running, fanOut, collector, channel, processor>>

\* checkActiveWindow resolves the incident.
Resolve ==
    /\ running
    /\ open
    /\ open' = FALSE
    /\ UNCHANGED <<running, fanOut, handling, collector, channel, processor>>

\* StopCluster cancels the context of the pipeline.
Stop ==
    /\ running
    /\ running' = FALSE
    /\ UNCHANGED <<fanOut, incident, collector, channel, processor>>

-----------------------------------------------------------------------------
(* collect. *)

\* loadCollectConfig: what the settings say of the metrics, or the file when
\* they say nothing, nonsense, or cannot be read.
KindsAsked == {Kinds, Kinds \ {Metrics}}

\* The configuration is loaded, and a goroutine started for each kind.
LoadConfig(a) ==
    /\ pc[a] = "load"
    /\ pc' = [pc EXCEPT ![a] = "collect"]
    /\ \E kinds \in KindsAsked :
          /\ wanted' = [wanted EXCEPT ![a] = kinds]
          /\ item' = [item EXCEPT ![a] =
                         [m \in Kinds |-> IF m \in kinds THEN "call" ELSE "off"]]
    /\ UNCHANGED <<running, fanOut, incident, loaded, got, channel, processor>>

\* Mutant of Collected: addEvidence does not lock.
CollectedUnlocked(a, m) ==
    /\ item[a][m] = "call"
    /\ item' = [item EXCEPT ![a][m] = "append"]
    /\ loaded' = [loaded EXCEPT ![a][m] = got[a]]
    /\ UNCHANGED <<running, fanOut, incident, pc, wanted, got, channel, processor>>

\* The collector of kind m is done, at the latest after TimeoutPerItem; it takes
\* the lock of addEvidence and loads the slice.
Collected(a, m) ==
    /\ item[a][m] = "call"
    /\ \A o \in Kinds : item[a][o] # "append"
    /\ item' = [item EXCEPT ![a][m] = "append"]
    /\ loaded' = [loaded EXCEPT ![a][m] = got[a]]
    /\ UNCHANGED <<running, fanOut, incident, pc, wanted, got, channel, processor>>

\* It stores the slice with its own evidence, whether it failed or not, and gives
\* up the lock.
AddEvidence(a, m) ==
    /\ item[a][m] = "append"
    /\ item' = [item EXCEPT ![a][m] = "done"]
    /\ got' = [got EXCEPT ![a] = loaded[a][m] \cup {m}]
    /\ loaded' = [loaded EXCEPT ![a][m] = {}]
    /\ UNCHANGED <<running, fanOut, incident, pc, wanted, channel, processor>>

\* wg.Wait returns.
AllDone(a) == pc[a] = "collect" /\ \A m \in wanted[a] : item[a][m] = "done"

\* The goroutine ends, its variables go with it.
Ends(a) ==
    /\ pc' = [pc EXCEPT ![a] = "ended"]
    /\ item' = [item EXCEPT ![a] = Off]
    /\ got' = [got EXCEPT ![a] = {}]

\* Mutants of Deliver: the channel is not bounded; the goroutine does not listen
\* to its context.
DeliverUnbounded(a) ==
    /\ AllDone(a)
    /\ channel' = Append(channel, [of |-> a, items |-> got[a]])
    /\ Ends(a)
    /\ UNCHANGED <<running, fanOut, incident, wanted, loaded, processor>>
DeliverOrWait(a) ==
    /\ AllDone(a)
    /\ Len(channel) < Capacity
    /\ channel' = Append(channel, [of |-> a, items |-> got[a]])
    /\ Ends(a)
    /\ UNCHANGED <<running, fanOut, incident, wanted, loaded, processor>>

\* The bundle is sent into the channel, or given up when the context is done.
Deliver(a) ==
    /\ AllDone(a)
    /\ \/ /\ Len(channel) < Capacity
          /\ channel' = Append(channel, [of |-> a, items |-> got[a]])
       \/ ~running /\ UNCHANGED channel
    /\ Ends(a)
    /\ UNCHANGED <<running, fanOut, incident, wanted, loaded, processor>>

-----------------------------------------------------------------------------
(* The workers of the evidence processor. *)

Goto(w, at) == worker' = [worker EXCEPT ![w].at = at]

\* Mutant of Take: the bundle stays in the channel until it is processed.
TakeCopy(w) ==
    /\ worker[w].at = "idle"
    /\ channel # <<>>
    /\ worker' = [worker EXCEPT ![w] = [at |-> "find", with |-> Head(channel)]]
    /\ UNCHANGED <<running, fanOut, incident, collector, channel, stored, owed>>

\* A worker takes a bundle; its select may do so when the context is done, too.
Take(w) ==
    /\ worker[w].at = "idle"
    /\ channel # <<>>
    /\ worker' = [worker EXCEPT ![w] = [at |-> "find", with |-> Head(channel)]]
    /\ channel' = Tail(channel)
    /\ UNCHANGED <<running, fanOut, incident, collector, stored, owed>>

Quit(w) ==
    /\ ~running
    /\ worker[w].at = "idle"
    /\ Goto(w, "ended")
    /\ UNCHANGED <<running, fanOut, incident, collector, channel, stored, owed>>

\* index.FindActive: a bundle without an open incident is dropped.
Find(w) ==
    /\ worker[w].at = "find"
    /\ worker' = [worker EXCEPT ![w] = IF open THEN [@ EXCEPT !.at = "save"] ELSE Idle]
    /\ UNCHANGED <<running, fanOut, incident, collector, channel, stored, owed>>

\* Mutant of Save: a bundle that could not be saved is not announced.
SaveOrDrop(w) ==
    /\ worker[w].at = "save"
    /\ \/ /\ running
          /\ stored' = stored \cup {worker[w].with.of}
          /\ Goto(w, "load")
       \/ /\ worker' = [worker EXCEPT ![w] = Idle]
          /\ UNCHANGED stored
    /\ UNCHANGED <<running, fanOut, incident, collector, channel, owed>>

\* SaveBundle: one insert of all rows.  It may fail, and does when the context
\* is done; the bundle is announced nevertheless.
Save(w) ==
    /\ worker[w].at = "save"
    /\ Goto(w, "load")
    /\ \/ running /\ stored' = stored \cup {worker[w].with.of}
       \/ UNCHANGED stored
    /\ UNCHANGED <<running, fanOut, incident, collector, channel, owed>>

\* loadNotifyNotifiers: those of one channel, from the settings or, where they
\* say nothing or cannot be read, from the file; none when notification is
\* switched off.
NotifiersNamed == SUBSET Notifiers

LoadNotifiers(w) ==
    /\ worker[w].at = "load"
    /\ Goto(w, "notify")
    /\ \E some \in NotifiersNamed : owed' = [owed EXCEPT ![worker[w].with.of] = some]
    /\ UNCHANGED <<running, fanOut, incident, collector, channel, stored>>

\* Mutant of Notify: HandleAnomaly returns when a notifier fails.
NotifyUntilError(w) ==
    LET a == worker[w].with.of
    IN  /\ worker[w].at = "notify"
        /\ \E n \in owed[a], failed \in BOOLEAN :
              /\ owed' = [owed EXCEPT ![a] = @ \ {n}]
              /\ worker' = [worker EXCEPT ![w] = IF failed THEN Idle ELSE @]
        /\ UNCHANGED <<running, fanOut, incident, collector, channel, stored>>

\* The next notifier is called; its error is logged, and the next one follows.
Notify(w) ==
    LET a == worker[w].with.of
    IN  /\ worker[w].at = "notify"
        /\ \E n \in owed[a] : owed' = [owed EXCEPT ![a] = @ \ {n}]
        /\ UNCHANGED <<running, fanOut, incident, collector, channel, worker, stored>>

\* All were called.
Finish(w) ==
    /\ worker[w].at = "notify"
    /\ owed[worker[w].with.of] = {}
    /\ worker' = [worker EXCEPT ![w] = Idle]
    /\ UNCHANGED <<running, fanOut, incident, collector, channel, stored, owed>>

Collect(a) == \/ LoadConfig(a) \/ Deliver(a)
              \/ \E m \in Kinds : Collected(a, m) \/ AddEvidence(a, m)
Work(w) == \/ Take(w) \/ Find(w) \/ Save(w)
           \/ LoadNotifiers(w) \/ Notify(w) \/ Finish(w)

Next ==
    \/ \E a \in Anomalies : Receive(a) \/ Handle(a) \/ Collect(a)
    \/ \E w \in Workers : Work(w) \/ Quit(w)
    \/ FanOutEnds \/ Resolve \/ Stop

Spec == Init /\ [][Next]_vars

\* The scheduler runs every goroutine that can run; a collector returns within
\* its timeout, database and notifiers answer or fail.  Nothing makes an anomaly
\* arrive, an incident expire or a pipeline stop.
Fairness ==
    /\ \A a \in Anomalies : WF_vars(Handle(a)) /\ WF_vars(Collect(a))
    /\ \A w \in Workers : WF_vars(Work(w)) /\ WF_vars(Quit(w))
    /\ WF_vars(FanOutEnds)

FairSpec == Spec /\ Fairness

-----------------------------------------------------------------------------
(* Properties. *)

\* The bundles on their way or at their end.
Queued  == {channel[i] : i \in 1..Len(channel)}
InHand  == {worker[w].with : w \in Workers} \ {Nothing}

\* A bundle, wherever it is, has the evidence of each kind that was asked for:
\* none is lost between the goroutines that append to one slice, none is missing
\* because its collector failed or was slow.
BundleWhole == \A b \in Queued \cup InHand : b.items = wanted[b.of]

\* A bundle is in the channel once or with one worker, never in two places: it
\* is stored and announced once.
OnePlace ==
    /\ \A i, j \in 1..Len(channel) : channel[i].of = channel[j].of => i = j
    /\ \A v, w \in Workers :
          worker[v].with # Nothing /\ worker[v].with.of = worker[w].with.of => v = w
    /\ \A i \in 1..Len(channel), w \in Workers : channel[i].of # worker[w].with.of

Waiting(a) == \/ pc[a] \in {"load", "collect"}
              \/ \E b \in Queued \cup InHand : b.of = a

\* What is collected is dealt with: unless the pipeline is stopped, every anomaly
\* that the fan-out received leaves collector, channel and worker in the end, with
\* every notifier called that the loader named, failures of collectors, table and
\* notifiers notwithstanding.
EveryBundleServed ==
    \A a \in Anomalies :
       pc[a] = "load" ~> ~running \/ (~Waiting(a) /\ owed[a] = {})

\* A stopped pipeline leaves no goroutine behind, with a full channel neither.
StopEndsAll ==
    ~running ~> /\ ~fanOut
                /\ \A a \in Anomalies : pc[a] \in {"new", "ended"}
                /\ \A w \in Workers : worker[w].at = "ended"

\* The evidence of a as EvidenceDelivery sees it.
InChannel(a) == \E b \in Queued : b.of = a
Has(a, at) == \E w \in Workers : worker[w].at = at /\ worker[w].with.of = a
StageOf(a) ==
    CASE pc[a] = "new"              -> "new"
      [] pc[a] \in {"load", "collect"} -> "collecting"
      [] InChannel(a)               -> "queued"
      [] Has(a, "find")             -> "taken"
      [] Has(a, "save")             -> "found"
      [] Has(a, "load")             -> "tried"
      [] Has(a, "notify")           -> "announcing"
      [] OTHER                      -> "done"

Delivery == INSTANCE EvidenceDelivery WITH stage <- [a \in Anomalies |-> StageOf(a)]

\* Collector, channel and workers implement EvidenceDelivery: however their
\* goroutines interleave, what one anomaly's evidence goes through is a straight
\* line, without a step that is skipped, taken twice or, but for a stop or a
\* missing incident, broken off.
DeliverySpec == Delivery!Spec

-----------------------------------------------------------------------------
(* Why BundleWhole and OnePlace hold.                                        *)

\* A goroutine that does not collect has no collectors and an empty slice.
RestInv ==
    \A a \in Anomalies :
       pc[a] # "collect" => item[a] = Off /\ got[a] = {}

\* One collector at a time appends, to the slice as it is; the slice holds what
\* those that are done have found.
SliceInv ==
    \A a \in Anomalies : pc[a] = "collect" =>
       /\ \A m \in Kinds : item[a][m] = "append" => loaded[a][m] = got[a]
       /\ \A m, o \in Kinds : item[a][m] = "append" /\ item[a][o] = "append" => m = o
       /\ got[a] = {m \in Kinds : item[a][m] = "done"}
       /\ wanted[a] = {m \in Kinds : item[a][m] # "off"}

\* A bundle is sent when its goroutine ends, which it does once.
SentInv ==
    /\ \A i \in 1..Len(channel) : pc[channel[i].of] = "ended"
    /\ \A w \in Workers : worker[w].with # Nothing => pc[worker[w].with.of] = "ended"

\* A worker has a bundle when it works.
HandsInv ==
    \A w \in Workers : worker[w].with = Nothing <=> worker[w].at \in {"idle", "ended"}

FlowInv == TypeOK /\ RestInv /\ SliceInv /\ SentInv /\ HandsInv /\ BundleWhole /\ OnePlace
=============================================================================
