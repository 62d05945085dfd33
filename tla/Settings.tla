------------------------------ MODULE Settings ------------------------------
(***************************************************************************)
(* The table system_settings, its writers and its readers:                 *)
(*   - internal/api/handler/setting_handler.go: the administrator's pages, *)
(*     a Get and an Update for each group of keys,                         *)
(*   - internal/infra/postgres/setting_repo.go: Get, BatchGet, BatchSet,   *)
(*   - internal/cluster/manager.go: what the pipelines read over the       *)
(*     configuration file, loadCollectConfig and loadNotifyNotifiers.      *)
(*                                                                         *)
(* A step is one statement of the database, or one request up to its first *)
(* statement.  A SELECT sees what is committed; an upsert locks its row    *)
(* until the transaction ends, and PostgreSQL aborts one of the            *)
(* transactions that wait for each other.                                  *)
(***************************************************************************)
EXTENDS Naturals, FiniteSets

CONSTANTS
    Requests,     \* slots for concurrent requests of administrators
    Loaders,      \* slots for collections that load their configuration
    Channels,     \* the notification channels; "webhook" is the default
    Sinks,        \* entries of a channel's list: webhooks, bots, chats
    Blank,        \* an entry without its URL (its token, its chat)
    Urls,         \* addresses: of a Prometheus, of an issuer
    Ranges,       \* windows of a Prometheus query; "10m" is the default
    Lengths,      \* numbers an administrator may enter as a minimal length
    Secrets,      \* client secrets
    Mask,         \* what GetSSO shows for a secret: "***"
    Empty,        \* the empty string
    Absent,       \* no row
    None,         \* no transaction, no key
    File,         \* the configuration file: a value for each key it has
    Tables,       \* the tables an earlier process may have left
    MaxRequests,  \* bound: requests and collections in a behaviour
    MaxFailures   \* bound: statements that fail in a behaviour

VARIABLES
    row,    \* row[k]: the committed value of key k, or Absent
    lock,   \* lock[k]: the transaction that holds the lock of k's row
    form,   \* form[o]: the page of the sign-on settings a client has open
    tx,     \* tx[o]: the BatchSet of request o
    load,   \* load[l]: a loadCollectConfig under way
    left,   \* requests and collections still to come
    fails   \* statements that may still fail

vars == <<row, lock, form, tx, load, left, fails>>

ListOf == [webhook |-> "notify_webhooks", lark |-> "notify_larks",
           telegram |-> "notify_telegrams"]

ListKeys     == {ListOf[ch] : ch \in Channels}
NotifyKeys   == {"notify_enabled", "notify_channel"} \cup ListKeys
CollectKeys  == {"collect_enable_metrics", "collect_prometheus_url",
                 "collect_prom_query_range"}
SSOKeys      == {"sso_client_secret", "sso_issuer_url"}
SecurityKeys == {"security_min_password_length"}
Keys         == NotifyKeys \cup CollectKeys \cup SSOKeys \cup SecurityKeys

Lists == SUBSET (Sinks \cup {Blank})

ASSUME ConstantsAssumption ==
    /\ Channels \subseteq DOMAIN ListOf /\ "webhook" \in Channels
    /\ Blank \notin Sinks
    /\ Mask \notin Secrets \cup {Empty, Absent} /\ Empty # Absent
    /\ \A no \in {Absent, Empty} :
          /\ no \notin Urls /\ no \notin Ranges /\ no \notin Secrets /\ no \notin Channels
          /\ no \notin BOOLEAN /\ no \notin Nat /\ \A list \in Lists : list # no
    /\ "10m" \in Ranges
    /\ None \notin Keys \cup Requests \cup {"done"}
    /\ Lengths \subseteq Nat
    /\ MaxRequests \in Nat /\ MaxFailures \in Nat

\* The file has a value for the keys of the loaders, but the channel.
ASSUME FileAssumption ==
    /\ File["notify_enabled"] \in BOOLEAN
    /\ \A k \in ListKeys : File[k] \in Lists
    /\ File["collect_enable_metrics"] \in BOOLEAN
    /\ File["collect_prometheus_url"] \in Urls \cup {Empty}
    /\ File["collect_prom_query_range"] \in Ranges

\* What an accepted request may store under a key.
Values(k) ==
    CASE k \in {"notify_enabled", "collect_enable_metrics"} -> BOOLEAN
      [] k = "notify_channel" -> Channels
      [] k \in ListKeys -> SUBSET Sinks
      [] k \in {"collect_prometheus_url", "sso_issuer_url"} -> Urls \cup {Empty}
      [] k = "collect_prom_query_range" -> Ranges
      [] k = "sso_client_secret" -> Secrets \cup {Empty}
      [] k = "security_min_password_length" -> Lengths \ {0}

Stored(r, keys) == \A k \in keys : r[k] # Absent
Whole(r, keys)  == Stored(r, keys) \/ \A k \in keys : r[k] = Absent

\* The pages write the group of the notifications and that of the collection as
\* wholes, and nothing when notifications are enabled that have nowhere to go.
Table(r) ==
    /\ \A k \in Keys : r[k] \in Values(k) \cup {Absent}
    /\ Whole(r, NotifyKeys) /\ Whole(r, CollectKeys)
    /\ Stored(r, NotifyKeys) =>
          (r["notify_enabled"] => r[ListOf[r["notify_channel"]]] # {})

ASSUME TablesAssumption ==
    \A r \in Tables : r = [k \in Keys |-> r[k]] /\ Table(r)

\* at: the key whose upsert runs or waits; todo: the keys after it; touched (history):
\* what the client did about the secret, see Touch.
Idle == [payload |-> [k \in {} |-> Absent], at |-> None, todo |-> {}, touched |-> "not"]

Start == [at |-> "collect_enable_metrics",
          got |-> [k \in CollectKeys |-> File[k]],
          seen |-> [k \in CollectKeys |-> {}],
          failed |-> {}]
Off   == [Start EXCEPT !.at = None]

Init ==
    /\ row \in Tables
    /\ lock = [k \in Keys |-> None]
    /\ form = [o \in Requests |-> None]
    /\ tx = [o \in Requests |-> Idle]
    /\ load = [l \in Loaders |-> Off]
    /\ left = MaxRequests
    /\ fails = MaxFailures

-----------------------------------------------------------------------------
(* Readers that take one SELECT: functions of the committed rows.           *)

\* BatchGet gives "" for a missing row; the pages show the default for "".
Shown(r, k, default) == IF r[k] \in {Absent, Empty} THEN default ELSE r[k]

\* GetNotify, and what it says would be used: the list of the channel.
ShownNotify(r) ==
    LET ch == Shown(r, "notify_channel", "webhook")
    IN  [enabled |-> Shown(r, "notify_enabled", FALSE),
         sinks   |-> Shown(r, ListOf[ch], {})]

\* buildNotifiers skips an entry that is not complete.
Notifiers(list) == list \ {Blank}

\* loadNotifyNotifiers: each key falls back to the file; when the SELECT is not
\* answered, what the file says of webhooks is used, whatever was saved.
LoadNotify(r, answered) ==
    LET ch == IF answered THEN Shown(r, "notify_channel", "webhook") ELSE "webhook"
        Value(k) == IF answered THEN Shown(r, k, File[k]) ELSE File[k]
    IN  [enabled |-> Value("notify_enabled"), sinks |-> Notifiers(Value(ListOf[ch]))]

\* GetSSO: a secret is not shown.
ShownSSO(r) ==
    [k \in SSOKeys |->
        IF k = "sso_client_secret" /\ r[k] \notin {Absent, Empty} THEN Mask
        ELSE Shown(r, k, Empty)]

-----------------------------------------------------------------------------
(* The requests of administrators, up to their transaction. *)

\* BatchSet begins with any key: Go's order of a map is random.
Begin(o, payload, touched) ==
    /\ left > 0
    /\ left' = left - 1
    /\ \E k \in DOMAIN payload :
          tx' = [tx EXCEPT ![o] = [payload |-> payload, at |-> k,
                                   todo |-> DOMAIN payload \ {k}, touched |-> touched]]

Free(o) == tx[o] = Idle /\ form[o] = None

\* UpdateNotify refuses an entry that is not complete, and no entry at all when
\* notifications are enabled; it looks at the chosen channel only ...
Accepted(f) ==
    LET list == f.lists[ListOf[f.channel]]
    IN  Blank \notin list /\ (f.enabled => list # {})

\* ... and empties the lists of the others.
NotifyPayload(f) ==
    [k \in NotifyKeys |->
        CASE k = "notify_enabled" -> f.enabled
          [] k = "notify_channel" -> f.channel
          [] OTHER -> IF k = ListOf[f.channel] THEN f.lists[k] ELSE {}]

UpdateNotify(o) ==
    /\ Free(o)
    /\ \E f \in [enabled : BOOLEAN, channel : Channels, lists : [ListKeys -> Lists]] :
          Accepted(f) /\ Begin(o, NotifyPayload(f), "not")
    /\ UNCHANGED <<row, lock, form, load, fails>>

\* UpdateCollect: an empty window is the default.
UpdateCollect(o) ==
    /\ Free(o)
    /\ \E metrics \in BOOLEAN, url \in Urls \cup {Empty}, range \in Ranges \cup {Empty} :
          Begin(o, [k \in CollectKeys |->
                       CASE k = "collect_enable_metrics" -> metrics
                         [] k = "collect_prometheus_url" -> url
                         [] OTHER -> IF range = Empty THEN "10m" ELSE range], "not")
    /\ UNCHANGED <<row, lock, form, load, fails>>

\* Mutant of UpdateSecurity: any number is taken.
UpdateSecurityAny(o) ==
    /\ Free(o)
    /\ \E n \in Lengths : Begin(o, [k \in SecurityKeys |-> n], "not")
    /\ UNCHANGED <<row, lock, form, load, fails>>

\* UpdateSecurity refuses a length below 1.
UpdateSecurity(o) ==
    /\ Free(o)
    /\ \E n \in Lengths : n >= 1 /\ Begin(o, [k \in SecurityKeys |-> n], "not")
    /\ UNCHANGED <<row, lock, form, load, fails>>

\* A client opens the page of the sign-on settings: GetSSO.
GetSSO(o) ==
    /\ Free(o)
    /\ left > 0
    /\ form' = [form EXCEPT ![o] = ShownSSO(row)]
    /\ UNCHANGED <<row, lock, tx, load, left, fails>>

\* Mutant of Unmasked: what the page has shown is stored.
UnmaskedNever(f) == f

\* UpdateSSO drops a secret that is the mask.
Unmasked(f) == [k \in DOMAIN f \ (IF f["sso_client_secret"] = Mask THEN {"sso_client_secret"}
                                  ELSE {}) |-> f[k]]

\* The client left the secret as the page f has shown it (none, or masked), or has
\* entered one.
Touch(f, k, v) ==
    IF k = "sso_client_secret" /\ v # f[k] THEN "entered"
    ELSE IF f["sso_client_secret"] = Empty THEN "none" ELSE "masked"

\* The client changes a field, or none, and saves the page.
UpdateSSO(o) ==
    /\ form[o] # None
    /\ \E k \in SSOKeys : \E v \in {form[o][k]} \cup Values(k) :
          Begin(o, Unmasked([form[o] EXCEPT ![k] = v]), Touch(form[o], k, v))
    /\ form' = [form EXCEPT ![o] = None]
    /\ UNCHANGED <<row, lock, load, fails>>

-----------------------------------------------------------------------------
(* BatchSet: one transaction, an upsert for each key. *)

Unlocked(o) == [k \in Keys |-> IF lock[k] = o THEN None ELSE lock[k]]

\* What a load has had the chance to read.
Seen(r, l) == [load[l] EXCEPT !.seen = [k \in CollectKeys |-> @[k] \cup {r[k]}]]
AllSee(r)  == load' = [l \in Loaders |-> IF load[l].at = None THEN Off ELSE Seen(r, l)]

\* Mutant of Upsert: each row is committed on its own.
UpsertAlone(o) ==
    LET k == tx[o].at
    IN  /\ k # None
        /\ lock[k] = None
        /\ row' = [row EXCEPT ![k] = tx[o].payload[k]]
        /\ AllSee(row')
        /\ \E next \in IF tx[o].todo = {} THEN {None} ELSE tx[o].todo :
              tx' = [tx EXCEPT ![o].at = next, ![o].todo = @ \ {next}]
        /\ UNCHANGED <<lock, form, left, fails>>

\* The upsert of the next key gets the lock of its row.
Upsert(o) ==
    LET k == tx[o].at
    IN  /\ k # None
        /\ lock[k] = None
        /\ lock' = [lock EXCEPT ![k] = o]
        /\ \E next \in IF tx[o].todo = {} THEN {None} ELSE tx[o].todo :
              tx' = [tx EXCEPT ![o].at = next, ![o].todo = @ \ {next}]
        /\ UNCHANGED <<row, form, load, left, fails>>

Commit(o) ==
    /\ tx[o] # Idle
    /\ tx[o].at = None
    /\ row' = [k \in Keys |-> IF k \in DOMAIN tx[o].payload THEN tx[o].payload[k] ELSE row[k]]
    /\ lock' = Unlocked(o)
    /\ tx' = [tx EXCEPT ![o] = Idle]
    /\ AllSee(row')
    /\ UNCHANGED <<form, left, fails>>

\* Mutant of Rollback: the transaction is left open.
RollbackNever(o) ==
    /\ tx[o] # Idle
    /\ fails > 0 /\ fails' = fails - 1
    /\ tx' = [tx EXCEPT ![o] = Idle]
    /\ UNCHANGED <<row, lock, form, load, left>>

\* Transactions that wait for each other in a circle.
Deadlocked(o) ==
    \E S \in SUBSET Requests :
        /\ o \in S
        /\ \A p \in S : tx[p].at # None
        /\ {lock[tx[p].at] : p \in S} = S

\* An upsert fails, or is the victim of a deadlock: the transaction is undone.
Rollback(o) ==
    /\ tx[o] # Idle
    /\ \/ fails > 0 /\ fails' = fails - 1
       \/ Deadlocked(o) /\ UNCHANGED fails
    /\ tx' = [tx EXCEPT ![o] = Idle]
    /\ lock' = Unlocked(o)
    /\ UNCHANGED <<row, form, load, left>>

-----------------------------------------------------------------------------
(* loadCollectConfig: three Gets, one after the other. *)

After == [collect_enable_metrics   |-> "collect_prometheus_url",
          collect_prometheus_url   |-> "collect_prom_query_range",
          collect_prom_query_range |-> "done"]

LoadCollect(l) ==
    /\ load[l].at = None
    /\ left > 0 /\ left' = left - 1
    /\ load' = [load EXCEPT ![l] = [Start EXCEPT !.seen = [k \in CollectKeys |-> {row[k]}]]]
    /\ UNCHANGED <<row, lock, form, tx, fails>>

\* Mutant of ReadSetting: an address that was cleared counts as none.
ReadSettingSet(l) ==
    LET k == load[l].at
    IN  /\ k \in CollectKeys
        /\ \/ /\ row[k] \notin {Absent, Empty}
              /\ load' = [load EXCEPT ![l].got[k] = row[k], ![l].at = After[k]]
           \/ /\ row[k] \in {Absent, Empty}
              /\ load' = [load EXCEPT ![l].at = After[k]]
        /\ UNCHANGED <<row, lock, form, tx, left, fails>>

\* A row overrides the file, an empty address included; the file's value stays
\* when there is no row or the statement fails.
ReadSetting(l) ==
    LET k == load[l].at
    IN  /\ k \in CollectKeys
        /\ \/ /\ row[k] # Absent
              /\ load' = [load EXCEPT ![l].got[k] = row[k], ![l].at = After[k]]
           \/ /\ row[k] = Absent
              /\ load' = [load EXCEPT ![l].at = After[k]]
        /\ UNCHANGED <<row, lock, form, tx, left, fails>>

ReadFails(l) ==
    LET k == load[l].at
    IN  /\ k \in CollectKeys
        /\ fails > 0 /\ fails' = fails - 1
        /\ load' = [load EXCEPT ![l].at = After[k], ![l].failed = @ \cup {k}]
        /\ UNCHANGED <<row, lock, form, tx, left>>

\* The collection goes on with what it has got.
Loaded(l) ==
    /\ load[l].at = "done"
    /\ load' = [load EXCEPT ![l] = Off]
    /\ UNCHANGED <<row, lock, form, tx, left, fails>>

-----------------------------------------------------------------------------
Transact(o) == Upsert(o) \/ Commit(o) \/ Rollback(o)

Next ==
    \/ \E o \in Requests :
          \/ UpdateNotify(o) \/ UpdateCollect(o) \/ UpdateSecurity(o)
          \/ GetSSO(o) \/ UpdateSSO(o)
          \/ Transact(o)
    \/ \E l \in Loaders : LoadCollect(l) \/ ReadSetting(l) \/ ReadFails(l) \/ Loaded(l)

Spec == Init /\ [][Next]_vars

\* The database answers, and finds deadlocks; nobody has to send a request.
FairSpec == Spec /\ \A o \in Requests : WF_vars(Transact(o))

-----------------------------------------------------------------------------
(* Properties. *)

PayloadOK(p) ==
    /\ DOMAIN p \in {NotifyKeys, CollectKeys, SecurityKeys, SSOKeys, SSOKeys \ {"sso_client_secret"}}
    /\ \A k \in DOMAIN p : p[k] \in Values(k)

TypeOK ==
    /\ \A k \in Keys : row[k] \in Values(k) \cup {Absent}
    /\ lock \in [Keys -> Requests \cup {None}]
    /\ \A o \in Requests :
          /\ form[o] # None => form[o]["sso_issuer_url"] \in Urls \cup {Empty}
          /\ tx[o].at \in Keys \cup {None} /\ tx[o].todo \subseteq Keys
          /\ tx[o] # Idle => PayloadOK(tx[o].payload)
    /\ \A l \in Loaders :
          /\ load[l].at \in CollectKeys \cup {"done", None}
          /\ \A k \in CollectKeys : load[l].got[k] \in Values(k) \cup {File[k]}
          /\ load[l].failed \subseteq CollectKeys
    /\ left \in 0..MaxRequests /\ fails \in 0..MaxFailures

\* The dispatcher reads the rows of the notifications by another way than the page,
\* with other defaults, and skips what is not complete.  Once notifications were
\* saved it still uses what the page shows, and has somewhere to send to if they are
\* enabled, provided that its SELECT is answered: no reader finds the switch of one
\* save with the channel or the lists of another.
NotifiedAsShown ==
    /\ Whole(row, NotifyKeys)
    /\ Stored(row, NotifyKeys) =>
          LET used == LoadNotify(row, TRUE)
          IN  used = ShownNotify(row) /\ (used.enabled => used.sinks # {})

\* The secret changes only when a client enters one, or saves a page that it opened
\* while there was none, which empties it: a page that shows the mask does not touch
\* it, whoever has written it meanwhile, and the mask itself is never stored.
SecretKept ==
    [][LET new == row'["sso_client_secret"]
       IN  new # row["sso_client_secret"] =>
              /\ new # Mask
              /\ \E o \in Requests :
                    /\ tx[o] # Idle /\ tx'[o] = Idle
                    /\ tx[o].touched = "entered" \/ (tx[o].touched = "none" /\ new = Empty)]_vars

\* Each value of a collection's configuration was in the table while it was
\* loaded (or, with no row or a failing statement, is the file's): three Gets may
\* mix two saves, they do not bring back a value that was replaced before.
LoadedWasStored ==
    \A l \in Loaders : load[l].at = "done" =>
        \A k \in CollectKeys :
            \/ load[l].got[k] \in load[l].seen[k]
            \/ load[l].got[k] = File[k] /\ (k \in load[l].failed \/ Absent \in load[l].seen[k])

\* Every save ends: transactions that lock the same rows in other orders wait for
\* each other, but not for ever.
SaveEnds == \A o \in Requests : tx[o] # Idle ~> tx[o] = Idle
=============================================================================
