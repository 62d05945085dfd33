--------------------------- MODULE ClusterPipelines ---------------------------
(***************************************************************************)
(* What the cluster manager promises about the pipelines of the clusters,  *)
(* whatever requests, reloads, signals and failed starts meet: a cluster   *)
(* has at most one pipeline, which is started, runs, is stopped and then   *)
(* gone; no other pipeline is started or stopped while one is started; a   *)
(* pipeline that was stopped is gone only when none of its callbacks runs. *)
(***************************************************************************)

EXTENDS Naturals

CONSTANT Clusters   \* cluster identifiers

VARIABLES
    phase,      \* phase[c]: the pipeline of c
    busy,       \* busy[c]: is a callback of that pipeline running?
    kills       \* times the process was killed

pvars == <<phase, busy, kills>>

Init == /\ phase = [c \in Clusters |-> "off"]
        /\ busy = [c \in Clusters |-> FALSE]
        /\ kills = 0

In(p) == {c \in Clusters : phase[c] = p}

Begin(c) == /\ phase[c] = "off"
            /\ In("starting") \cup In("stopping") = {}
            /\ phase' = [phase EXCEPT ![c] = "starting"]
            /\ UNCHANGED <<busy, kills>>

Ready(c) == /\ phase[c] = "starting"
            /\ phase' = [phase EXCEPT ![c] = "on"]
            /\ UNCHANGED <<busy, kills>>

\* A start that fails leaves nothing behind: what its informers still deliver
\* ends by itself and is no part of the cluster's pipeline.
GiveUp(c) == /\ phase[c] = "starting"
             /\ phase' = [phase EXCEPT ![c] = "off"]
             /\ busy' = [busy EXCEPT ![c] = FALSE]
             /\ UNCHANGED kills

\* Several pipelines are stopped one after the other when the process ends.
Cancel(c) == /\ phase[c] = "on"
             /\ In("starting") = {}
             /\ phase' = [phase EXCEPT ![c] = "stopping"]
             /\ UNCHANGED <<busy, kills>>

Drop == /\ In("stopping") # {}
        /\ \A c \in In("stopping") : ~busy[c]
        /\ phase' = [c \in Clusters |-> IF phase[c] = "stopping" THEN "off" ELSE phase[c]]
        /\ UNCHANGED <<busy, kills>>

\* A callback begins, and the last one ends.
Work(c) == /\ phase[c] # "off"
           /\ busy' = [busy EXCEPT ![c] = TRUE]
           /\ UNCHANGED <<phase, kills>>

Rest(c) == /\ busy' = [busy EXCEPT ![c] = FALSE]
           /\ UNCHANGED <<phase, kills>>

\* Only a kill may cut a callback short.
Kill == /\ kills' = kills + 1
        /\ phase' = [c \in Clusters |-> "off"]
        /\ busy' = [c \in Clusters |-> FALSE]

Next ==
    \/ \E c \in Clusters : \/ Begin(c) \/ Ready(c) \/ GiveUp(c) \/ Cancel(c)
                           \/ Work(c) \/ Rest(c)
    \/ Drop
    \/ Kill

Spec == Init /\ [][Next]_pvars
=============================================================================
