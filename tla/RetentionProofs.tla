--------------------------- MODULE RetentionProofs ---------------------------
(***************************************************************************)
(* Proofs about Retention: what the tables hold and what the cache may     *)
(* hide, for any incidents, evidence, requests and ages.                   *)
(***************************************************************************)
EXTENDS Retention, TLAPS

\* The arrays keep their domains.
Shape ==
    /\ cache = [i \in Incidents |-> cache[i]]
    /\ reader = [r \in Readers |-> reader[r]]
    /\ recollect = [r \in Recollectors |-> recollect[r]]

\* A recollection is of an incident that is there; the rows it has saved are that
\* incident's until they are deleted; only rows that were saved are told of.
Recollections ==
    /\ \A r \in Recollectors : recollect[r].at # "idle" => state[recollect[r].id] # "None"
    /\ \A r \in Recollectors : recollect[r].at = "del" =>
          \A e \in recollect[r].rows : evidence[e] \in {recollect[r].id, Gone}
    /\ \A e \in told : evidence[e] # None

\* What a client may be shown, from the cache or by a request under way.
Showing == RecollectionShown /\ QueriesShow

RetentionInv == TypeOK /\ Shape /\ Recollections /\ Showing

LEMMA InitRetention == Init => RetentionInv
  BY ConstantsAssumption
  DEF Init, RetentionInv, TypeOK, Shape, Recollections, Showing, RecollectionShown,
      QueriesShow, RequestOK, Free, RowsOf

\* The steps of the pipelines change the state and the age of one incident.
LEMMA PipelineSteps ==
    ASSUME RetentionInv, NEW i \in Incidents, Create(i) \/ Merge(i) \/ Resolve(i) \/ GrowOld(i)
    PROVE  RetentionInv'
<1>1. TypeOK'
  <2>1. CASE Create(i)
    BY <2>1, ConstantsAssumption DEF RetentionInv, TypeOK, Create, requests, RowsOf, RequestOK
  <2>2. CASE Merge(i)
    BY <2>2, ConstantsAssumption DEF RetentionInv, TypeOK, Merge, requests, RowsOf, RequestOK
  <2>3. CASE Resolve(i)
    BY <2>3, ConstantsAssumption DEF RetentionInv, TypeOK, Resolve, requests, RowsOf, RequestOK
  <2>4. CASE GrowOld(i)
    BY <2>4, ConstantsAssumption DEF RetentionInv, TypeOK, GrowOld, requests, RowsOf, RequestOK
  <2>5. QED
    BY <2>1, <2>2, <2>3, <2>4
<1>2. \A j \in Incidents : state[j] # "None" => state'[j] # "None"
  BY DEF RetentionInv, TypeOK, Create, Merge, Resolve, GrowOld
<1>3. UNCHANGED <<evidence, requests>>
  BY DEF Create, Merge, Resolve, GrowOld
<1>4. Shape' /\ Recollections' /\ Showing'
  BY <1>2, <1>3
  DEF RetentionInv, TypeOK, RequestOK, Shape, Recollections, Showing, RecollectionShown, QueriesShow, requests, RowsOf
<1>5. QED
  BY <1>1, <1>4 DEF RetentionInv

\* A new row is no client's yet: a row told of is one that was saved.
LEMMA SaveBundleKeeps ==
    ASSUME RetentionInv, NEW i \in Incidents, NEW e \in Evidences, SaveBundle(i, e),
           state[i] # "None", UNCHANGED <<state, age, job, cache, reader, late, told>>
    PROVE  /\ evidence' \in [Evidences -> Incidents \cup {None, Gone}]
           /\ \A j \in Incidents : state'[j] = "None" => RowsOf(j)' = {}
           /\ Showing'
           /\ \A d \in told' : evidence'[d] # None
           /\ \A d \in Evidences : evidence[d] # None => evidence'[d] = evidence[d]
<1>1. /\ evidence' \in [Evidences -> Incidents \cup {None, Gone}]
      /\ \A d \in Evidences : evidence[d] # None => evidence'[d] = evidence[d]
      /\ evidence'[e] = i /\ e \notin told
      /\ \A d \in Evidences : d # e => evidence'[d] = evidence[d]
  BY DEF RetentionInv, TypeOK, SaveBundle, Recollections
<1>2. \A j \in Incidents : state'[j] = "None" => RowsOf(j)' = {}
  BY <1>1 DEF RetentionInv, TypeOK, RowsOf
<1>3. Showing'
  BY <1>1 DEF RetentionInv, TypeOK, Showing, RecollectionShown, QueriesShow, RowsOf
<1>4. \A d \in told' : evidence'[d] # None
  BY <1>1, ConstantsAssumption DEF RetentionInv, TypeOK, Recollections
<1>5. QED
  BY <1>1, <1>2, <1>3, <1>4

LEMMA CollectBundleStep ==
    ASSUME RetentionInv, NEW i \in Incidents, CollectBundle(i)
    PROVE  RetentionInv'
<1>1. PICK e \in Evidences : SaveBundle(i, e)
  BY DEF CollectBundle
<1>2. /\ evidence' \in [Evidences -> Incidents \cup {None, Gone}]
      /\ \A j \in Incidents : state'[j] = "None" => RowsOf(j)' = {}
      /\ Showing'
      /\ \A d \in told' : evidence'[d] # None
      /\ \A d \in Evidences : evidence[d] # None => evidence'[d] = evidence[d]
  BY <1>1, SaveBundleKeeps DEF CollectBundle, requests
<1>3. TypeOK'
  BY <1>2 DEF RetentionInv, TypeOK, CollectBundle, requests, RequestOK
<1>4. Shape' /\ Recollections'
  BY <1>2, ConstantsAssumption
  DEF RetentionInv, TypeOK, RequestOK, Shape, Recollections, CollectBundle, requests
<1>5. QED
  BY <1>2, <1>3, <1>4 DEF RetentionInv

LEMMA JobStep ==
    ASSUME RetentionInv, Job
    PROVE  RetentionInv'
<1>1. CASE Archive
  <2>1. TypeOK'
    BY <1>1 DEF RetentionInv, TypeOK, Archive, requests, RowsOf, RequestOK
  <2>2. Shape' /\ Recollections' /\ Showing'
    BY <1>1
    DEF RetentionInv, TypeOK, RequestOK, Shape, Recollections, Showing, RecollectionShown, QueriesShow, Archive,
        requests, RowsOf
  <2>3. QED
    BY <2>1, <2>2 DEF RetentionInv
<1>2. CASE Delete
  <2>1. /\ evidence' \in [Evidences -> Incidents \cup {None, Gone}]
        /\ \A e \in Evidences : evidence'[e] \in {evidence[e], Gone}
    BY <1>2 DEF RetentionInv, TypeOK, Delete
  <2>2. \A i \in Incidents : RowsOf(i)' \subseteq RowsOf(i)
    BY <2>1, ConstantsAssumption DEF RowsOf
  <2>3. TypeOK'
    BY <1>2, <2>1, <2>2 DEF RetentionInv, TypeOK, Delete, requests, RequestOK
  <2>4. Shape' /\ Showing'
    BY <1>2, <2>2
    DEF RetentionInv, TypeOK, RequestOK, Shape, Showing, RecollectionShown, QueriesShow, Delete,
        requests
  <2>5. Recollections'
    BY <1>2, <2>1, ConstantsAssumption
    DEF RetentionInv, TypeOK, RequestOK, Recollections, Delete, requests
  <2>6. QED
    BY <2>3, <2>4, <2>5 DEF RetentionInv
<1>3. CASE PassFails \/ Tick
  <2>1. UNCHANGED <<tables, requests>> /\ job' \in {"idle", "archive", "delete"}
    BY <1>3 DEF PassFails, Tick
  <2>2. QED
    BY <2>1
    DEF RetentionInv, TypeOK, RequestOK, Shape, Recollections, Showing, RecollectionShown, QueriesShow, RowsOf,
        tables, requests
<1>4. QED
  BY <1>1, <1>2, <1>3 DEF Job

\* What a request has read is what it stores; it knows the rows told of when it
\* queried, and is late as soon as more are told of.
LEMMA ReaderSteps ==
    ASSUME RetentionInv, NEW r \in Readers,
           GetEvidences(r) \/ FindEvidences(r) \/ QueryFails(r) \/ SetEvidences(r)
    PROVE  RetentionInv'
<1>1. UNCHANGED <<state, age, evidence, job, recollect, told>>
  BY DEF GetEvidences, FindEvidences, QueryFails, SetEvidences, tables
<1>2. Recollections'
  BY <1>1 DEF RetentionInv, Recollections
<1>3. /\ reader' = [q \in Readers |-> reader'[q]]
      /\ \A q \in Readers : q # r => reader'[q] = reader[q]
      /\ RequestOK(reader'[r], {"query", "set"})
      /\ reader'[r].at = "set" => reader'[r].rows = RowsOf(reader'[r].id)
      /\ late' \subseteq late /\ late \ late' \subseteq {r}
  BY DEF RetentionInv, TypeOK, Shape, GetEvidences, FindEvidences, QueryFails, SetEvidences,
         RequestOK, RowsOf, Free
<1>4. QueriesShow'
  <2> SUFFICES ASSUME NEW q \in Readers \ late', reader'[q].at = "set"
               PROVE  RowsOf(reader'[q].id) \cap told \subseteq reader'[q].rows
    BY <1>1 DEF QueriesShow, RowsOf
  <2>1. CASE q = r
    BY <1>3, <2>1
  <2>2. CASE q # r
    BY <1>3, <2>2 DEF RetentionInv, Showing, QueriesShow
  <2>3. QED
    BY <2>1, <2>2
<1>5. /\ \A q \in Readers : RequestOK(reader'[q], {"query", "set"})
      /\ late' \subseteq Readers
  BY <1>3 DEF RetentionInv, TypeOK, RequestOK
<1>6. CASE GetEvidences(r) \/ FindEvidences(r) \/ QueryFails(r)
  <2>1. UNCHANGED cache
    BY <1>6 DEF GetEvidences, FindEvidences, QueryFails
  <2>2. TypeOK'
    BY <1>1, <1>5, <2>1 DEF RetentionInv, TypeOK, RequestOK, RowsOf
  <2>3. Shape' /\ RecollectionShown'
    BY <1>1, <1>3, <2>1 DEF RetentionInv, Shape, Showing, RecollectionShown, RowsOf
  <2>4. QED
    BY <1>2, <1>4, <2>2, <2>3 DEF RetentionInv, Showing
<1>7. CASE SetEvidences(r)
  <2> DEFINE i == reader[r].id
             entry == [rows |-> reader[r].rows, late |-> r \in late]
  <2>1. /\ i \in Incidents
        /\ cache' = [cache EXCEPT ![i] = entry]
        /\ reader[r].rows \subseteq Evidences
    BY <1>7 DEF RetentionInv, TypeOK, RequestOK, SetEvidences
  <2>2. /\ cache'[i] = entry
        /\ \A j \in Incidents : j # i => cache'[j] = cache[j]
        /\ Shape'
    BY <1>1, <1>3, <2>1 DEF RetentionInv, Shape
  <2>3. entry.rows = reader[r].rows /\ entry.late \in BOOLEAN
    OBVIOUS
  <2>4. entry.late \/ RowsOf(i) \cap told \subseteq entry.rows
    <3>1. r \in late => entry.late
      OBVIOUS
    <3>2. r \notin late => RowsOf(i) \cap told \subseteq entry.rows
      BY <1>7 DEF RetentionInv, Showing, QueriesShow, SetEvidences
    <3>3. QED
      BY <3>1, <3>2
  <2>5. \A j \in Incidents : cache'[j] # None =>
           cache'[j].rows \subseteq Evidences /\ cache'[j].late \in BOOLEAN
    <3> HIDE DEF entry
    <3>1. QED
      BY <2>1, <2>2, <2>3 DEF RetentionInv, TypeOK
  <2>6. TypeOK'
    BY <1>1, <1>5, <2>5 DEF RetentionInv, TypeOK, RowsOf
  <2>7. RecollectionShown'
    <3> HIDE DEF entry
    <3>1. QED
      BY <1>1, <2>1, <2>2, <2>4 DEF RetentionInv, Showing, RecollectionShown, RowsOf
  <2>8. QED
    BY <1>2, <1>4, <2>2, <2>6, <2>7 DEF RetentionInv, Showing
<1>8. QED
  BY <1>6, <1>7

LEMMA EntryExpiresStep ==
    ASSUME RetentionInv, NEW i \in Incidents, EntryExpires(i)
    PROVE  RetentionInv'
<1>1. /\ cache' = [j \in Incidents |-> cache'[j]]
      /\ \A j \in Incidents : cache'[j] \in {cache[j], None}
  BY DEF RetentionInv, Shape, EntryExpires
<1>2. UNCHANGED <<tables, job, reader, late, recollect, told>>
  BY DEF EntryExpires
<1>3. TypeOK'
  BY <1>1, <1>2 DEF RetentionInv, TypeOK, RequestOK, RowsOf, tables
<1>4. Shape' /\ Recollections' /\ Showing'
  BY <1>1, <1>2 DEF RetentionInv, Shape, Recollections, Showing, RecollectionShown, QueriesShow, RowsOf, tables
<1>5. QED
  BY <1>3, <1>4 DEF RetentionInv

LEMMA RecollectorSteps ==
    ASSUME RetentionInv, NEW r \in Recollectors,
           RecollectMetrics(r) \/ SaveRecollected(r) \/ RecollectFails(r) \/ DeleteEntry(r)
    PROVE  RetentionInv'
<1>1. CASE RecollectMetrics(r) \/ RecollectFails(r)
  <2>1. UNCHANGED <<tables, job, cache, reader, late, told>>
    BY <1>1 DEF RecollectMetrics, RecollectFails
  <2>2. /\ recollect' = [q \in Recollectors |-> recollect'[q]]
        /\ \A q \in Recollectors : q # r => recollect'[q] = recollect[q]
        /\ RequestOK(recollect'[r], {"save", "del"})
        /\ recollect'[r].at \in {"idle", "save"}
        /\ recollect'[r].at # "idle" => state[recollect'[r].id] # "None"
    <3>1. CASE RecollectMetrics(r)
      <4>1. PICK i \in Incidents :
               /\ state[i] # "None"
               /\ recollect' = [recollect EXCEPT ![r] = [Free EXCEPT !.at = "save", !.id = i]]
        BY <3>1 DEF RecollectMetrics
      <4> DEFINE new == [Free EXCEPT !.at = "save", !.id = i]
      <4>2. new.at = "save" /\ new.id = i /\ new.rows = {}
        BY DEF Free
      <4>3. recollect' = [recollect EXCEPT ![r] = new]
        BY <4>1
      <4> HIDE DEF new
      <4>4. QED
        <5>1. state[i] # "None" /\ i \in Incidents
          BY <4>1
        <5>2. QED
          BY <4>2, <4>3, <5>1 DEF RetentionInv, Shape, TypeOK, RequestOK
    <3>2. CASE RecollectFails(r)
      BY <3>2 DEF RetentionInv, Shape, TypeOK, RequestOK, RecollectFails, Free
    <3>3. QED
      BY <1>1, <3>1, <3>2
  <2>3. TypeOK'
    BY <2>1, <2>2 DEF RetentionInv, TypeOK, RequestOK, RowsOf, tables
  <2>4. Shape' /\ Recollections' /\ Showing'
    BY <2>1, <2>2 DEF RetentionInv, Shape, Recollections, Showing, RecollectionShown, QueriesShow, RowsOf, tables
  <2>5. QED
    BY <2>3, <2>4 DEF RetentionInv
<1>2. CASE SaveRecollected(r)
  <2> DEFINE i == recollect[r].id
  <2>1. PICK e \in Evidences :
           /\ SaveBundle(i, e)
           /\ recollect' = [recollect EXCEPT ![r] = [at |-> "del", id |-> i, rows |-> {e}]]
    BY <1>2 DEF SaveRecollected
  <2>2. i \in Incidents /\ state[i] # "None"
    BY <1>2 DEF RetentionInv, TypeOK, RequestOK, Recollections, SaveRecollected
  <2>3. /\ evidence' \in [Evidences -> Incidents \cup {None, Gone}]
        /\ \A j \in Incidents : state'[j] = "None" => RowsOf(j)' = {}
        /\ Showing'
        /\ \A d \in told' : evidence'[d] # None
        /\ \A d \in Evidences : evidence[d] # None => evidence'[d] = evidence[d]
    BY <1>2, <2>1, <2>2, SaveBundleKeeps DEF SaveRecollected
  <2>4. /\ recollect'[r] = [at |-> "del", id |-> i, rows |-> {e}]
        /\ \A q \in Recollectors : q # r => recollect'[q] = recollect[q]
        /\ recollect' = [q \in Recollectors |-> recollect'[q]]
        /\ evidence'[e] = i
    BY <2>1 DEF RetentionInv, TypeOK, Shape, SaveBundle
  <2>5. TypeOK'
    BY <1>2, <2>2, <2>3, <2>4 DEF RetentionInv, TypeOK, SaveRecollected, RequestOK
  <2>6. Shape'
    BY <1>2, <2>4 DEF RetentionInv, Shape, SaveRecollected
  <2>7. Recollections'
    <3>1. /\ UNCHANGED state
          /\ recollect'[r].at = "del" /\ recollect'[r].id = i /\ recollect'[r].rows = {e}
      BY <1>2, <2>4 DEF SaveRecollected
    <3>2. \A q \in Recollectors : recollect'[q].at # "idle" => state'[recollect'[q].id] # "None"
      BY <2>2, <2>4, <3>1 DEF RetentionInv, Recollections
    <3>3. ASSUME NEW q \in Recollectors, recollect'[q].at = "del", NEW d \in recollect'[q].rows
          PROVE  evidence'[d] \in {recollect'[q].id, Gone}
      <4>1. CASE q = r
        BY <2>4, <3>1, <3>3, <4>1
      <4>2. CASE q # r
        <5>1. /\ recollect'[q] = recollect[q]
              /\ evidence[d] \in {recollect[q].id, Gone}
              /\ recollect[q].id \in Incidents /\ d \in Evidences
          BY <2>4, <3>3, <4>2 DEF RetentionInv, TypeOK, RequestOK, Recollections
        <5>2. evidence[d] # None
          BY <5>1, ConstantsAssumption
        <5>3. QED
          BY <2>3, <5>1, <5>2
      <4>3. QED
        BY <4>1, <4>2
    <3>4. QED
      BY <2>3, <3>2, <3>3 DEF Recollections
  <2>8. QED
    BY <2>3, <2>5, <2>6, <2>7 DEF RetentionInv
<1>3. CASE DeleteEntry(r)
  <2> DEFINE i == recollect[r].id
  <2>1. /\ i \in Incidents /\ recollect[r].rows \subseteq Evidences
        /\ \A e \in recollect[r].rows : evidence[e] \in {i, Gone}
        /\ UNCHANGED <<tables, job, reader>>
    BY <1>3 DEF RetentionInv, TypeOK, RequestOK, Recollections, DeleteEntry
  <2>2. /\ cache'[i] = None
        /\ \A j \in Incidents : j # i => cache'[j] = cache[j]
        /\ told' = told \cup recollect[r].rows
        /\ late' = late \cup {q \in Readers : reader[q].at = "set" /\ reader[q].id = i}
        /\ recollect'[r] = Free
        /\ \A q \in Recollectors : q # r => recollect'[q] = recollect[q]
        /\ Shape'
    BY <1>3, <2>1 DEF RetentionInv, Shape, DeleteEntry
  <2>3. TypeOK'
    BY <2>1, <2>2 DEF RetentionInv, TypeOK, RequestOK, RowsOf, Free, tables
  <2>4. Recollections'
    BY <2>1, <2>2, ConstantsAssumption DEF RetentionInv, Recollections, Free, tables
  <2>5. \A j \in Incidents : j # i => RowsOf(j)' \cap told' = RowsOf(j) \cap told
    BY <2>1, <2>2, ConstantsAssumption DEF RowsOf, tables
  <2>6. RecollectionShown'
    BY <2>2, <2>5 DEF RetentionInv, Showing, RecollectionShown
  <2>7. QueriesShow'
    <3> SUFFICES ASSUME NEW q \in Readers \ late', reader[q].at = "set"
                 PROVE  RowsOf(reader[q].id)' \cap told' \subseteq reader[q].rows
      BY <2>1 DEF QueriesShow
    <3>1. reader[q].id \in Incidents /\ reader[q].id # i /\ q \notin late
      BY <2>2 DEF RetentionInv, TypeOK, RequestOK
    <3>2. RowsOf(reader[q].id) \cap told \subseteq reader[q].rows
      BY <3>1 DEF RetentionInv, Showing, QueriesShow
    <3>3. RowsOf(reader[q].id)' = RowsOf(reader[q].id)
      BY <2>1 DEF RowsOf, tables
    <3>4. RowsOf(reader[q].id) \cap told' = RowsOf(reader[q].id) \cap told
      BY <2>1, <2>2, <3>1, ConstantsAssumption DEF RowsOf
    <3>5. QED
      BY <3>2, <3>3, <3>4
  <2>8. QED
    BY <2>2, <2>3, <2>4, <2>6, <2>7 DEF RetentionInv, Showing
<1>4. QED
  BY <1>1, <1>2, <1>3

LEMMA RestartStep ==
    ASSUME RetentionInv, Restart
    PROVE  RetentionInv'
  BY DEF RetentionInv, TypeOK, RequestOK, Shape, Recollections, Showing, RecollectionShown, QueriesShow, RowsOf, Free,
         Restart, tables

\* The invariant is inductive.
LEMMA NextRetention == RetentionInv /\ [Next]_vars => RetentionInv'
<1> SUFFICES ASSUME RetentionInv, [Next]_vars PROVE RetentionInv'
  OBVIOUS
<1>1. CASE Next
  <2>1. CASE \E i \in Incidents :
               Create(i) \/ Merge(i) \/ Resolve(i) \/ GrowOld(i) \/ CollectBundle(i)
               \/ EntryExpires(i)
    BY <2>1, PipelineSteps, CollectBundleStep, EntryExpiresStep
  <2>2. CASE \E r \in Readers :
               GetEvidences(r) \/ FindEvidences(r) \/ QueryFails(r) \/ SetEvidences(r)
    BY <2>2, ReaderSteps
  <2>3. CASE \E r \in Recollectors :
               RecollectMetrics(r) \/ SaveRecollected(r) \/ RecollectFails(r) \/ DeleteEntry(r)
    BY <2>3, RecollectorSteps
  <2>4. QED
    BY <1>1, <2>1, <2>2, <2>3, JobStep, RestartStep DEF Next
<1>2. CASE UNCHANGED vars
  BY <1>2
  DEF vars, tables, requests, RetentionInv, TypeOK, RequestOK, Shape, Recollections,
      Showing, RecollectionShown, QueriesShow, RowsOf
<1>3. QED
  BY <1>1, <1>2

LEMMA RetentionInvariant == Spec => []RetentionInv
  BY InitRetention, NextRetention, PTL DEF Spec

-----------------------------------------------------------------------------

\* An archived incident is as old as it must be, and evidence belongs to an
\* incident that is there: the states of job.go and incident_handler.go.
THEOREM TypeCorrect == Spec => []TypeOK
<1>1. RetentionInv => TypeOK
  BY DEF RetentionInv
<1>2. QED
  BY <1>1, RetentionInvariant, PTL

\* Once a client was told that metrics were collected, the cache of GetEvidences
\* hides them only by an entry of a request that had queried before the recollection
\* deleted the entry.
THEOREM RecollectionsShown == Spec => []RecollectionShown
<1>1. RetentionInv => RecollectionShown
  BY DEF RetentionInv, Showing
<1>2. QED
  BY <1>1, RetentionInvariant, PTL
=============================================================================
