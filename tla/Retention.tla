------------------------------ MODULE Retention ------------------------------
(***************************************************************************)
(* What becomes of an incident and its evidence once it is written:        *)
(*   - internal/infra/retention/job.go: the job that archives incidents    *)
(*     and deletes evidence,                                               *)
(*   - internal/api/handler/incident_handler.go: GetEvidences with its     *)
(*     cache (local_cache.go), RecollectMetrics,                           *)
(*   - internal/service/incident_svc.go: what a recollection does,         *)
(*   - internal/infra/postgres/evidence_repo.go.                           *)
(*                                                                         *)
(* The pipelines that write incidents and evidence are in IncidentPipeline *)
(* and EvidenceFlow; here they are the steps that change a stored row.     *)
(* Time is an age: how long ago an incident was last seen, in steps that   *)
(* the cutoffs of the job tell apart.                                      *)
(***************************************************************************)
EXTENDS Naturals, FiniteSets

CONSTANTS
    Incidents,     \* keys of the table incidents
    Evidences,     \* keys of the table evidences
    Readers,       \* slots for requests that read evidence
    Recollectors,  \* slots for requests that recollect metrics
    None,          \* no row, no entry
    Gone,          \* a row that was deleted
    ArchiveAfter,  \* the age at which a resolved incident is archived
    DeleteAfter,   \* the age at which an archived incident loses its evidence
    MaxAge,        \* bound: the age at which time stands still for an incident
    MaxRequests,   \* bound: requests in a behaviour
    MaxFailures,   \* bound: failing statements of the job
    MaxCrashes     \* bound: restarts of the process

VARIABLES
    state,      \* state[i]: the stored state of incident i
    age,        \* age[i]: how long ago i was last seen
    evidence,   \* evidence[e]: the incident of row e, or None, or Gone
    job,        \* where the job is
    cache,      \* cache[i]: the evidence the handler keeps for i, or None
    reader,     \* reader[r]: a request for evidence
    late,       \* the readers that have queried before their incident's entry was deleted
    recollect,  \* recollect[r]: a request to collect metrics again
    told,       \* the rows of which a client was told that they were collected
    left,       \* requests still to come
    fails,      \* failures still to come
    crashes     \* restarts still to come
\* (late and told are history: no guard reads them.)

tables   == <<state, age, evidence>>
requests == <<cache, reader, late, recollect, told>>
vars     == <<tables, job, requests, left, fails, crashes>>

ASSUME ConstantsAssumption ==
    /\ ArchiveAfter \in Nat \ {0} /\ DeleteAfter \in Nat /\ MaxAge \in Nat
    /\ ArchiveAfter <= DeleteAfter /\ DeleteAfter <= MaxAge
    /\ {None, Gone} \cap (Incidents \cup Evidences) = {} /\ None # Gone
    /\ MaxRequests \in Nat /\ MaxFailures \in Nat /\ MaxCrashes \in Nat

Free == [at |-> "idle", id |-> None, rows |-> {}]

Init ==
    /\ state = [i \in Incidents |-> "None"]
    /\ age = [i \in Incidents |-> 0]
    /\ evidence = [e \in Evidences |-> None]
    /\ job = "archive"
    /\ cache = [i \in Incidents |-> None]
    /\ reader = [r \in Readers |-> Free]
    /\ late = {}
    /\ recollect = [r \in Recollectors |-> Free]
    /\ told = {}
    /\ left = MaxRequests
    /\ fails = MaxFailures
    /\ crashes = MaxCrashes

-----------------------------------------------------------------------------
(* The pipelines. *)

Create(i) ==
    /\ state[i] = "None"
    /\ state' = [state EXCEPT ![i] = "Open"]
    /\ UNCHANGED <<age, evidence, job, requests, left, fails, crashes>>

\* An anomaly is merged: the row is saved with LastSeen = now.
Merge(i) ==
    /\ state[i] = "Open"
    /\ age' = [age EXCEPT ![i] = 0]
    /\ UNCHANGED <<state, evidence, job, requests, left, fails, crashes>>

\* An incident is resolved within hours of its last anomaly, or never: a row that
\* an earlier pipeline left open stays as it is, and grows old.
Resolve(i) ==
    /\ state[i] = "Open"
    /\ age[i] = 0
    /\ state' = [state EXCEPT ![i] = "Resolved"]
    /\ UNCHANGED <<age, evidence, job, requests, left, fails, crashes>>

GrowOld(i) ==
    /\ state[i] # "None"
    /\ age[i] < MaxAge
    /\ age' = [age EXCEPT ![i] = @ + 1]
    /\ UNCHANGED <<state, evidence, job, requests, left, fails, crashes>>

\* FindByIncidentID.
RowsOf(i) == {e \in Evidences : evidence[e] = i}

\* SaveBundle: one INSERT, of one row here.
SaveBundle(i, e) ==
    /\ evidence[e] = None
    /\ evidence' = [evidence EXCEPT ![e] = i]

\* A bundle is saved within minutes of its anomaly.
CollectBundle(i) ==
    /\ state[i] \in {"Open", "Resolved"}
    /\ age[i] = 0
    /\ \E e \in Evidences : SaveBundle(i, e)
    /\ UNCHANGED <<state, age, job, requests, left, fails, crashes>>

-----------------------------------------------------------------------------
(* The job: a pass at the start, and one at each tick. *)

\* Mutant of Archive: every resolved incident, however old.
ArchiveAny ==
    /\ job = "archive"
    /\ state' = [i \in Incidents |-> IF state[i] = "Resolved" THEN "Archived" ELSE state[i]]
    /\ job' = "delete"
    /\ UNCHANGED <<age, evidence, requests, left, fails, crashes>>

Archive ==
    /\ job = "archive"
    /\ state' = [i \in Incidents |->
                    IF state[i] = "Resolved" /\ age[i] >= ArchiveAfter THEN "Archived"
                    ELSE state[i]]
    /\ job' = "delete"
    /\ UNCHANGED <<age, evidence, requests, left, fails, crashes>>

\* The subquery of the DELETE.
Expired(i) == state[i] = "Archived" /\ age[i] >= DeleteAfter

Delete ==
    /\ job = "delete"
    /\ evidence' = [e \in Evidences |->
                       IF evidence[e] \in Incidents /\ Expired(evidence[e]) THEN Gone
                       ELSE evidence[e]]
    /\ job' = "idle"
    /\ UNCHANGED <<state, age, requests, left, fails, crashes>>

\* Mutant of PassFails: the job ends at its first error.
PassFailsEnds ==
    /\ job \in {"archive", "delete"}
    /\ fails > 0 /\ fails' = fails - 1
    /\ job' = "ended"
    /\ UNCHANGED <<tables, requests, left, crashes>>

\* An error is logged: the rest of the pass, and the next one, go on.
PassFails ==
    /\ job \in {"archive", "delete"}
    /\ fails > 0 /\ fails' = fails - 1
    /\ job' = IF job = "archive" THEN "delete" ELSE "idle"
    /\ UNCHANGED <<tables, requests, left, crashes>>

Tick ==
    /\ job = "idle"
    /\ job' = "archive"
    /\ UNCHANGED <<tables, requests, left, fails, crashes>>

-----------------------------------------------------------------------------
(* GetEvidences. *)

Request == left > 0 /\ left' = left - 1

\* A hit changes nothing.
GetEvidences(r) ==
    /\ reader[r] = Free
    /\ Request
    /\ \E i \in Incidents :
          /\ cache[i] = None
          /\ reader' = [reader EXCEPT ![r] = [at |-> "query", id |-> i, rows |-> {}]]
    /\ UNCHANGED <<tables, job, cache, late, recollect, told, fails, crashes>>

FindEvidences(r) ==
    /\ reader[r].at = "query"
    /\ reader' = [reader EXCEPT ![r] = [at |-> "set", id |-> reader[r].id,
                                        rows |-> RowsOf(reader[r].id)]]
    /\ UNCHANGED <<tables, job, cache, late, recollect, told, left, fails, crashes>>

QueryFails(r) ==
    /\ reader[r].at = "query"
    /\ reader' = [reader EXCEPT ![r] = Free]
    /\ UNCHANGED <<tables, job, cache, late, recollect, told, left, fails, crashes>>

\* set, whatever has happened since the query.
SetEvidences(r) ==
    /\ reader[r].at = "set"
    /\ cache' = [cache EXCEPT ![reader[r].id] = [rows |-> reader[r].rows, late |-> r \in late]]
    /\ reader' = [reader EXCEPT ![r] = Free]
    /\ late' = late \ {r}
    /\ UNCHANGED <<tables, job, recollect, told, left, fails, crashes>>

\* The time of an entry is over: the next get deletes it.
EntryExpires(i) ==
    /\ cache[i] # None
    /\ cache' = [cache EXCEPT ![i] = None]
    /\ UNCHANGED <<tables, job, reader, late, recollect, told, left, fails, crashes>>

-----------------------------------------------------------------------------
(* RecollectMetrics, of an incident in any state. *)

RecollectMetrics(r) ==
    /\ recollect[r] = Free
    /\ Request
    /\ \E i \in Incidents :
          /\ state[i] # "None"
          /\ recollect' = [recollect EXCEPT ![r] = [Free EXCEPT !.at = "save", !.id = i]]
    /\ UNCHANGED <<tables, job, cache, reader, late, told, fails, crashes>>

SaveRecollected(r) ==
    /\ recollect[r].at = "save"
    /\ \E e \in Evidences :
          /\ SaveBundle(recollect[r].id, e)
          /\ recollect' = [recollect EXCEPT ![r] = [at |-> "del", id |-> recollect[r].id,
                                                    rows |-> {e}]]
    /\ UNCHANGED <<state, age, job, cache, reader, late, told, left, fails, crashes>>

\* There is no pod, no address, no answer of Prometheus, or no INSERT.
RecollectFails(r) ==
    /\ recollect[r].at = "save"
    /\ recollect' = [recollect EXCEPT ![r] = Free]
    /\ UNCHANGED <<tables, job, cache, reader, late, told, left, fails, crashes>>

\* Mutant of DeleteEntry: the cache keeps its entry.
DeleteEntryNever(r) ==
    /\ recollect[r].at = "del"
    /\ told' = told \cup recollect[r].rows
    /\ recollect' = [recollect EXCEPT ![r] = Free]
    /\ UNCHANGED <<tables, job, cache, reader, late, left, fails, crashes>>

DeleteEntry(r) ==
    LET i == recollect[r].id
    IN  /\ recollect[r].at = "del"
        /\ cache' = [cache EXCEPT ![i] = None]
        /\ late' = late \cup {q \in Readers : reader[q].at = "set" /\ reader[q].id = i}
        /\ told' = told \cup recollect[r].rows
        /\ recollect' = [recollect EXCEPT ![r] = Free]
        /\ UNCHANGED <<tables, job, reader, left, fails, crashes>>

-----------------------------------------------------------------------------
\* The process ends, between any two steps, and starts again.
Restart ==
    /\ crashes > 0 /\ crashes' = crashes - 1
    /\ job' = "archive"
    /\ cache' = [i \in Incidents |-> None]
    /\ reader' = [r \in Readers |-> Free]
    /\ late' = {}
    /\ recollect' = [r \in Recollectors |-> Free]
    /\ UNCHANGED <<tables, told, left, fails>>

Job == Archive \/ Delete \/ PassFails \/ Tick

Next ==
    \/ \E i \in Incidents :
          Create(i) \/ Merge(i) \/ Resolve(i) \/ GrowOld(i) \/ CollectBundle(i) \/ EntryExpires(i)
    \/ Job
    \/ \E r \in Readers :
          GetEvidences(r) \/ FindEvidences(r) \/ QueryFails(r) \/ SetEvidences(r)
    \/ \E r \in Recollectors :
          RecollectMetrics(r) \/ SaveRecollected(r) \/ RecollectFails(r) \/ DeleteEntry(r)
    \/ Restart

Spec == Init /\ [][Next]_vars

\* The ticker goes on; nothing else has to happen.
FairSpec == Spec /\ WF_vars(Job)

-----------------------------------------------------------------------------
(* Properties. *)

RequestOK(q, steps) ==
    /\ q.at \in steps \cup {"idle"}
    /\ q.at # "idle" => q.id \in Incidents
    /\ q.rows \subseteq Evidences

TypeOK ==
    /\ state \in [Incidents -> {"None", "Open", "Resolved", "Archived"}]
    /\ age \in [Incidents -> 0..MaxAge]
    /\ evidence \in [Evidences -> Incidents \cup {None, Gone}]
    /\ job \in {"idle", "archive", "delete"}
    /\ \A i \in Incidents : cache[i] # None =>
          cache[i].rows \subseteq Evidences /\ cache[i].late \in BOOLEAN
    /\ \A r \in Readers : RequestOK(reader[r], {"query", "set"})
    /\ \A r \in Recollectors : RequestOK(recollect[r], {"save", "del"})
    /\ told \subseteq Evidences /\ late \subseteq Readers
    /\ \A i \in Incidents : state[i] = "None" => RowsOf(i) = {}
    /\ \A i \in Incidents : state[i] = "Archived" => age[i] >= ArchiveAfter

\* Once a client was told that metrics were collected, no entry of the cache hides
\* them, but for one that a request stored late: it had queried before the
\* recollection deleted the entry, and what it stored lasts its time.  A request that
\* queries after the delete shows them, whatever it has overlapped with.
RecollectionShown ==
    \A i \in Incidents : cache[i] # None =>
        cache[i].late \/ RowsOf(i) \cap told \subseteq cache[i].rows

\* Why RecollectionShown holds: so does what a request is about to store.
QueriesShow ==
    \A r \in Readers \ late : reader[r].at = "set" =>
        RowsOf(reader[r].id) \cap told \subseteq reader[r].rows

\* The evidence of an old incident that was resolved is deleted in the end, that
\* which a client collects afterwards too, whatever statements fail and whenever
\* the process restarts.
OldEvidenceGoes ==
    \A e \in Evidences :
        (\E i \in Incidents : /\ evidence[e] = i
                             /\ state[i] \in {"Resolved", "Archived"}
                             /\ age[i] >= DeleteAfter) ~> evidence[e] = Gone
=============================================================================
