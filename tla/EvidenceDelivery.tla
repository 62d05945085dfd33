--------------------------- MODULE EvidenceDelivery ---------------------------
(***************************************************************************)
(* What collector, evidence channel and evidence workers promise together  *)
(* about the evidence of one anomaly: it is collected once, sent once,     *)
(* taken by one worker, which drops it for want of an incident, or tries   *)
(* to store it and announces it whether it was stored or not, to each of   *)
(* the notifiers that were named once.  Evidence that was collected is     *)
(* given up only by a pipeline that is stopped, and nothing is stored      *)
(* after a stop.                                                           *)
(***************************************************************************)

CONSTANTS
    Anomalies,      \* the anomalies of a behaviour
    Notifiers       \* channels of notification

VARIABLES
    running,    \* is the pipeline running?
    stage,      \* stage[a]: where the evidence of a is
    stored,     \* the anomalies whose evidence is in the table
    owed        \* owed[a]: the notifiers still to be called for a

dvars == <<running, stage, stored, owed>>

Stage == {"new", "collecting", "queued", "taken", "found", "tried", "announcing", "done"}

Init == /\ running = TRUE
        /\ stage = [a \in Anomalies |-> "new"]
        /\ stored = {}
        /\ owed = [a \in Anomalies |-> {}]

Stop == /\ running
        /\ running' = FALSE
        /\ UNCHANGED <<stage, stored, owed>>

\* a goes from one stage to the next, and nothing else moves.
Moves(a, from, to) == /\ stage[a] = from
                      /\ stage' = [stage EXCEPT ![a] = to]
                      /\ UNCHANGED running

Receive(a) == Moves(a, "new", "collecting") /\ UNCHANGED <<stored, owed>>
Send(a)    == Moves(a, "collecting", "queued") /\ UNCHANGED <<stored, owed>>
GiveUp(a)  == ~running /\ Moves(a, "collecting", "done") /\ UNCHANGED <<stored, owed>>
Take(a)    == Moves(a, "queued", "taken") /\ UNCHANGED <<stored, owed>>
Find(a)    == Moves(a, "taken", "found") /\ UNCHANGED <<stored, owed>>
Drop(a)    == Moves(a, "taken", "done") /\ UNCHANGED <<stored, owed>>

\* The insert may fail, and does after a stop.
Save(a) == /\ Moves(a, "found", "tried")
           /\ \/ UNCHANGED stored
              \/ running /\ stored' = stored \cup {a}
           /\ UNCHANGED owed

Name(a) == /\ Moves(a, "tried", "announcing")
           /\ \E some \in SUBSET Notifiers : owed' = [owed EXCEPT ![a] = some]
           /\ UNCHANGED stored

\* A notifier is called and not called again.
Call(a) == /\ stage[a] = "announcing"
           /\ \E n \in owed[a] : owed' = [owed EXCEPT ![a] = @ \ {n}]
           /\ UNCHANGED <<running, stage, stored>>

Finish(a) == /\ owed[a] = {}
             /\ Moves(a, "announcing", "done")
             /\ UNCHANGED <<stored, owed>>

Next == \/ \E a \in Anomalies : \/ Receive(a) \/ Send(a) \/ GiveUp(a) \/ Take(a)
                                \/ Find(a) \/ Drop(a) \/ Save(a)
                                \/ Name(a) \/ Call(a) \/ Finish(a)
        \/ Stop

Spec == Init /\ [][Next]_dvars
=============================================================================
