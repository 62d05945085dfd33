-------------------------- MODULE IncidentLifecycle --------------------------
(***************************************************************************)
(* What the incident pipeline promises about one incident, whatever number *)
(* of anomalies, timers and sweeps work on it: in memory it is opened      *)
(* once, goes from Detecting to Active at most once, is resolved at most   *)
(* once and stays resolved; the state stored in the database may lag       *)
(* behind (a snapshot taken earlier may be written later) but never shows  *)
(* a state the incident has not reached.                                   *)
(***************************************************************************)

CONSTANT Ids    \* incident identifiers (uuid.New in the code)

VARIABLES
    state,      \* state[id]: the state of the incident object in memory
    stored      \* stored[id]: the state column of its row, "Free" if no row

lvars == <<state, stored>>

Stage == {"Free", "Detecting", "Active", "Resolved"}
Open  == {"Detecting", "Active"}

\* The states an incident in state s may show: those it has gone through.
Reached(s) == {t \in Stage \ {"Free"} :
                  t = s \/ s = "Resolved" \/ (s = "Active" /\ t = "Detecting")}

Init == /\ state  = [id \in Ids |-> "Free"]
        /\ stored = [id \in Ids |-> "Free"]

Detect(id) == /\ state[id] = "Free"
              /\ state' = [state EXCEPT ![id] = "Detecting"]
              /\ UNCHANGED stored

Activate(id) == /\ state[id] = "Detecting"
                /\ state' = [state EXCEPT ![id] = "Active"]
                /\ UNCHANGED stored

Resolve(id) == /\ state[id] \in Open
               /\ state' = [state EXCEPT ![id] = "Resolved"]
               /\ UNCHANGED stored

Store(id) == /\ \E s \in Reached(state[id]) : stored' = [stored EXCEPT ![id] = s]
             /\ UNCHANGED state

Next == \E id \in Ids : Detect(id) \/ Activate(id) \/ Resolve(id) \/ Store(id)

Spec == Init /\ [][Next]_lvars
=============================================================================
