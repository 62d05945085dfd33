--------------------------- MODULE SettingsProofs ---------------------------
(***************************************************************************)
(* Proofs about Settings: what the pages store, show and hide and what a   *)
(* collection loads, for any requests, channels, addresses and secrets.    *)
(***************************************************************************)
EXTENDS Settings, TLAPS

Metrics == "collect_enable_metrics"
Address == "collect_prometheus_url"
Window  == "collect_prom_query_range"
Secret  == "sso_client_secret"
Issuer  == "sso_issuer_url"
Minimum == "security_min_password_length"

Names == {"notify_webhooks", "notify_larks", "notify_telegrams"}

-----------------------------------------------------------------------------
(* Keys and values. *)

\* Each channel has its list.
LEMMA ListNames ==
    /\ ListKeys \subseteq Names
    /\ \A ch \in Channels : ListOf[ch] \in ListKeys
<1>1. \A ch \in {"webhook", "lark", "telegram"} : ListOf[ch] \in Names
  BY DEF ListOf, Names
<1>2. Channels \subseteq {"webhook", "lark", "telegram"}
  BY ConstantsAssumption DEF ListOf
<1>3. QED
  BY <1>1, <1>2 DEF ListKeys

\* The groups of keys are apart.
LEMMA Groups ==
    /\ NotifyKeys \cap CollectKeys = {}
    /\ NotifyKeys \cap SSOKeys = {} /\ NotifyKeys \cap SecurityKeys = {}
    /\ CollectKeys \cap SSOKeys = {} /\ CollectKeys \cap SecurityKeys = {}
    /\ SSOKeys \cap SecurityKeys = {}
    /\ Keys = NotifyKeys \cup CollectKeys \cup SSOKeys \cup SecurityKeys
  BY ListNames DEF Names, NotifyKeys, CollectKeys, SSOKeys, SecurityKeys, Keys

LEMMA ValuesOf ==
    /\ Values("notify_enabled") = BOOLEAN
    /\ Values("notify_channel") = Channels
    /\ \A k \in ListKeys : Values(k) = SUBSET Sinks
    /\ Values(Metrics) = BOOLEAN
    /\ Values(Address) = Urls \cup {Empty}
    /\ Values(Window) = Ranges
    /\ Values(Secret) = Secrets \cup {Empty}
    /\ Values(Issuer) = Urls \cup {Empty}
    /\ Values(Minimum) = Lengths \ {0}
  BY ListNames DEF Names, Values, Metrics, Address, Window, Secret, Issuer, Minimum

\* A value of a group that is written as a whole is never "no row"; one of the
\* notifications is never empty either.
LEMMA ValuesThere ==
    /\ \A k \in NotifyKeys : Absent \notin Values(k) /\ Empty \notin Values(k)
    /\ \A k \in CollectKeys : Absent \notin Values(k)
<1>1. \A k \in ListKeys : Absent \notin Values(k) /\ Empty \notin Values(k)
  <2>1. SUBSET Sinks \subseteq Lists
    BY DEF Lists
  <2>2. QED
    BY <2>1, ConstantsAssumption, ValuesOf
<1>2. QED
  BY <1>1, ConstantsAssumption, ValuesOf
  DEF NotifyKeys, CollectKeys, Metrics, Address, Window

-----------------------------------------------------------------------------
(* The invariant. *)

\* A payload keeps what Table says, and a secret in it was entered or is none.
MayWrite(touched, secret) ==
    touched = "entered" \/ (touched = "none" /\ secret = Empty)

TxOK(t) ==
    t # Idle =>
        /\ PayloadOK(t.payload)
        /\ DOMAIN t.payload = NotifyKeys /\ t.payload["notify_enabled"] =>
              t.payload[ListOf[t.payload["notify_channel"]]] # {}
        /\ Secret \in DOMAIN t.payload => MayWrite(t.touched, t.payload[Secret])

TxShape ==
    /\ tx = [o \in Requests |-> tx[o]]
    /\ \A o \in Requests :
          /\ tx[o] = [payload |-> tx[o].payload, at |-> tx[o].at, todo |-> tx[o].todo,
                      touched |-> tx[o].touched]
          /\ tx[o].at \in Keys \cup {None} /\ tx[o].todo \subseteq Keys
          /\ TxOK(tx[o])

FormOK(f) ==
    f # None =>
        /\ f = [k \in SSOKeys |-> f[k]]
        /\ f[Secret] \in {Mask, Empty}
        /\ f[Issuer] \in Urls \cup {Empty}

FormInv ==
    /\ form = [o \in Requests |-> form[o]]
    /\ \A o \in Requests : FormOK(form[o])

\* The keys that a load has behind it.
Behind(at) ==
    CASE at = Metrics -> {}
      [] at = Address -> {Metrics}
      [] at = Window  -> {Metrics, Address}
      [] at = "done"  -> CollectKeys
      [] at = None    -> {}

WasStored(d, k) ==
    \/ d.got[k] \in d.seen[k]
    \/ d.got[k] = File[k] /\ (k \in d.failed \/ Absent \in d.seen[k])

\* A load has seen what is stored now; what it has not read yet is the file's.
LoadOK(d, r) ==
    /\ d = [at |-> d.at, got |-> d.got, seen |-> d.seen, failed |-> d.failed]
    /\ d.at \in CollectKeys \cup {"done", None}
    /\ d.got = [k \in CollectKeys |-> d.got[k]]
    /\ \A k \in CollectKeys : d.got[k] \in Values(k) \cup {File[k]}
    /\ d.failed \subseteq CollectKeys
    /\ d.at # None => \A k \in CollectKeys : r[k] \in d.seen[k]
    /\ \A k \in CollectKeys : d.got[k] = File[k] \/ k \in Behind(d.at)
    /\ \A k \in Behind(d.at) : WasStored(d, k)

LoadInv ==
    /\ load = [l \in Loaders |-> load[l]]
    /\ \A l \in Loaders : LoadOK(load[l], row)

RowInv ==
    /\ Table(row)
    /\ lock \in [Keys -> Requests \cup {None}]
    /\ left \in 0..MaxRequests /\ fails \in 0..MaxFailures

SettingsInv == RowInv /\ TxShape /\ FormInv /\ LoadInv

LEMMA TypeFollows == SettingsInv => TypeOK
  BY ConstantsAssumption
  DEF SettingsInv, RowInv, Table, TxShape, TxOK, FormInv, FormOK, LoadInv, LoadOK, TypeOK, Issuer

\* The dispatcher and the page agree on any table that the pages may leave.
LEMMA UseFollows == SettingsInv => NotifiedAsShown
<1> SUFFICES ASSUME Table(row) PROVE NotifiedAsShown
  BY DEF SettingsInv, RowInv
<1>1. Whole(row, NotifyKeys)
  BY DEF Table
<1>2. ASSUME Stored(row, NotifyKeys)
      PROVE  /\ LoadNotify(row, TRUE) = ShownNotify(row)
             /\ LoadNotify(row, TRUE).enabled => LoadNotify(row, TRUE).sinks # {}
  <2> DEFINE ch == row["notify_channel"]
             list == row[ListOf[ch]]
  <2>1. /\ \A k \in NotifyKeys : row[k] \in Values(k)
        /\ \A k \in NotifyKeys : \A d : Shown(row, k, d) = row[k]
    BY <1>2, ValuesThere, Groups DEF Table, Stored, Shown
  <2>2. ch \in Channels
    BY <2>1, ValuesOf DEF NotifyKeys
  <2>3. ListOf[ch] \in ListKeys
    BY <2>2, ListNames
  <2>4. list \subseteq Sinks
    <3>1. \A k \in ListKeys : row[k] \in Values(k) /\ Values(k) = SUBSET Sinks
      BY <2>1, ValuesOf DEF NotifyKeys
    <3>2. list \in SUBSET Sinks
      BY <2>3, <3>1
    <3>3. QED
      BY <3>2
  <2>5. Notifiers(list) = list
    BY <2>4, ConstantsAssumption DEF Notifiers
  <2>6. ListOf[ch] \in NotifyKeys /\ "notify_enabled" \in NotifyKeys
        /\ "notify_channel" \in NotifyKeys
    BY <2>3 DEF NotifyKeys
  <2>7. ShownNotify(row) = [enabled |-> row["notify_enabled"], sinks |-> list]
    BY <2>1, <2>6 DEF ShownNotify
  <2>8. LoadNotify(row, TRUE) = [enabled |-> row["notify_enabled"], sinks |-> list]
    BY <2>1, <2>5, <2>6 DEF LoadNotify
  <2>9. row["notify_enabled"] => list # {}
    BY <1>2 DEF Table
  <2>10. ASSUME NEW used, used = [enabled |-> row["notify_enabled"], sinks |-> list]
         PROVE  used.enabled => used.sinks # {}
    <3> HIDE DEF list
    <3> QED BY <2>9, <2>10
  <2>11. QED
    <3> HIDE DEF list
    <3> QED BY <2>7, <2>8, <2>10, Zenon
<1>3. QED
  BY <1>1, <1>2 DEF NotifiedAsShown

LEMMA LoadFollows == SettingsInv => LoadedWasStored
  BY ConstantsAssumption
  DEF SettingsInv, LoadInv, LoadOK, Behind, WasStored, LoadedWasStored, Metrics, Address, Window

LEMMA OffRecord ==
    /\ Off = [at |-> Off.at, got |-> Off.got, seen |-> Off.seen, failed |-> Off.failed]
    /\ Off.at = None /\ Off.got = [k \in CollectKeys |-> File[k]]
    /\ Off.seen = [k \in CollectKeys |-> {}] /\ Off.failed = {}
<1> DEFINE file == [k \in CollectKeys |-> File[k]]
           none == [k \in CollectKeys |-> {}]
<1>1. Off = [[at |-> "collect_enable_metrics", got |-> file, seen |-> none, failed |-> {}]
                EXCEPT !.at = None]
  BY DEF Off, Start
<1> HIDE DEF file, none
<1>2. Off = [at |-> None, got |-> file, seen |-> none, failed |-> {}]
  BY <1>1
<1>3. QED
  BY <1>2 DEF file, none

LEMMA OffOK == ASSUME NEW r PROVE LoadOK(Off, r)
<1>1. Behind(None) = {}
  BY ConstantsAssumption DEF Behind, Keys, CollectKeys, Metrics, Address, Window
<1>2. QED
  BY <1>1, OffRecord DEF LoadOK

LEMMA InitSettings == Init => SettingsInv
<1> SUFFICES ASSUME Init PROVE SettingsInv
  OBVIOUS
<1>1. RowInv
  BY TablesAssumption, ConstantsAssumption DEF Init, RowInv
<1>2. TxShape /\ FormInv
  BY DEF Init, TxShape, TxOK, Idle, FormInv, FormOK
<1>3. LoadInv
  BY OffOK DEF Init, LoadInv
<1>4. QED
  BY <1>1, <1>2, <1>3 DEF SettingsInv

-----------------------------------------------------------------------------
(* The pages. *)

LEMMA SameLoads ==
    ASSUME LoadInv, UNCHANGED <<row, load>>
    PROVE  LoadInv'
  BY DEF LoadInv, LoadOK, WasStored

LEMMA PayloadKeys ==
    ASSUME NEW p, PayloadOK(p)
    PROVE  DOMAIN p \subseteq Keys
  BY DEF PayloadOK, Keys

\* A transaction begins with what the page has made of the request.
LEMMA BeginKeeps ==
    ASSUME RowInv, TxShape, NEW o \in Requests, NEW p, NEW touched, Begin(o, p, touched),
           PayloadOK(p),
           DOMAIN p = NotifyKeys /\ p["notify_enabled"] => p[ListOf[p["notify_channel"]]] # {},
           Secret \in DOMAIN p => MayWrite(touched, p[Secret]),
           UNCHANGED <<row, lock, fails>>
    PROVE  RowInv' /\ TxShape'
<1>1. PICK k \in DOMAIN p :
         tx' = [tx EXCEPT ![o] = [payload |-> p, at |-> k, todo |-> DOMAIN p \ {k},
                                  touched |-> touched]]
  BY DEF Begin
<1> DEFINE new == [payload |-> p, at |-> k, todo |-> DOMAIN p \ {k}, touched |-> touched]
<1>2. /\ new = [payload |-> new.payload, at |-> new.at, todo |-> new.todo,
                touched |-> new.touched]
      /\ new.at \in Keys \cup {None} /\ new.todo \subseteq Keys
  BY PayloadKeys
<1>3. TxOK(new)
  BY DEF TxOK
<1>4. tx' = [tx EXCEPT ![o] = new]
  BY <1>1
<1> HIDE DEF new
<1>5. TxShape'
  BY <1>2, <1>3, <1>4 DEF TxShape
<1>6. left' \in 0..MaxRequests
  BY ConstantsAssumption DEF RowInv, Begin
<1>7. RowInv'
  BY <1>6 DEF RowInv
<1>8. QED
  BY <1>5, <1>7

LEMMA UpdateNotifyStep ==
    ASSUME SettingsInv, NEW o \in Requests, UpdateNotify(o)
    PROVE  SettingsInv'
<1>1. PICK f \in [enabled : BOOLEAN, channel : Channels, lists : [ListKeys -> Lists]] :
         Accepted(f) /\ Begin(o, NotifyPayload(f), "not")
  BY DEF UpdateNotify
<1> DEFINE p == NotifyPayload(f)
<1>2. /\ DOMAIN p = NotifyKeys
      /\ ListOf[f.channel] \in ListKeys
      /\ "notify_enabled" \in NotifyKeys /\ "notify_channel" \in NotifyKeys
      /\ ListKeys \subseteq NotifyKeys
      /\ "notify_enabled" \notin ListKeys /\ "notify_channel" \notin ListKeys
  BY ListNames DEF NotifyPayload, NotifyKeys, Names
<1>3. /\ p["notify_enabled"] = f.enabled /\ p["notify_channel"] = f.channel
      /\ p[ListOf[f.channel]] = f.lists[ListOf[f.channel]]
      /\ \A k \in ListKeys : k # ListOf[f.channel] => p[k] = {}
  BY <1>2 DEF NotifyPayload
<1>4. f.lists[ListOf[f.channel]] \in SUBSET Sinks
  BY <1>1, <1>2 DEF Accepted, Lists
<1>5. PayloadOK(p)
  <2>1. \A k \in ListKeys : p[k] \in Values(k)
    BY <1>3, <1>4, ValuesOf
  <2>2. p["notify_enabled"] \in Values("notify_enabled")
    BY <1>3, ValuesOf
  <2>3. p["notify_channel"] \in Values("notify_channel")
    BY <1>3, ValuesOf
  <2>4. QED
    BY <1>2, <2>1, <2>2, <2>3 DEF PayloadOK, NotifyKeys
<1>6. p["notify_enabled"] => p[ListOf[p["notify_channel"]]] # {}
  BY <1>1, <1>3 DEF Accepted
<1>7. Secret \notin DOMAIN p
  BY <1>2, Groups DEF SSOKeys, Secret
<1>8. UNCHANGED <<row, lock, form, load, fails>>
  BY DEF UpdateNotify
<1>9. Begin(o, p, "not")
  BY <1>1
<1> HIDE DEF p
<1>10. RowInv' /\ TxShape'
  BY <1>5, <1>6, <1>7, <1>8, <1>9, BeginKeeps DEF SettingsInv
<1>11. QED
  BY <1>8, <1>10, SameLoads DEF SettingsInv, FormInv, FormOK

LEMMA UpdateCollectStep ==
    ASSUME SettingsInv, NEW o \in Requests, UpdateCollect(o)
    PROVE  SettingsInv'
<1>1. PICK metrics \in BOOLEAN, url \in Urls \cup {Empty}, range \in Ranges \cup {Empty} :
         Begin(o, [k \in CollectKeys |->
                      CASE k = "collect_enable_metrics" -> metrics
                        [] k = "collect_prometheus_url" -> url
                        [] OTHER -> IF range = Empty THEN "10m" ELSE range], "not")
  BY DEF UpdateCollect
<1> DEFINE p == [k \in CollectKeys |->
                    CASE k = "collect_enable_metrics" -> metrics
                      [] k = "collect_prometheus_url" -> url
                      [] OTHER -> IF range = Empty THEN "10m" ELSE range]
<1>2. DOMAIN p = CollectKeys
  OBVIOUS
<1>3. \A k \in CollectKeys : p[k] \in Values(k)
  BY ValuesOf, ConstantsAssumption DEF CollectKeys, Metrics, Address, Window
<1>4. PayloadOK(p)
  BY <1>2, <1>3 DEF PayloadOK
<1>5. Secret \notin DOMAIN p /\ DOMAIN p # NotifyKeys
  <2>1. Secret \in SSOKeys /\ "notify_enabled" \in NotifyKeys
    BY DEF SSOKeys, Secret, NotifyKeys
  <2>2. QED
    BY <1>2, <2>1, Groups
<1>6. UNCHANGED <<row, lock, form, load, fails>>
  BY DEF UpdateCollect
<1>7. Begin(o, p, "not")
  BY <1>1
<1> HIDE DEF p
<1>8. RowInv' /\ TxShape'
  BY <1>4, <1>5, <1>6, <1>7, BeginKeeps DEF SettingsInv
<1>9. QED
  BY <1>6, <1>8, SameLoads DEF SettingsInv, FormInv, FormOK

LEMMA UpdateSecurityStep ==
    ASSUME SettingsInv, NEW o \in Requests, UpdateSecurity(o)
    PROVE  SettingsInv'
<1>1. PICK n \in Lengths : n >= 1 /\ Begin(o, [k \in SecurityKeys |-> n], "not")
  BY DEF UpdateSecurity
<1> DEFINE p == [k \in SecurityKeys |-> n]
<1>2. DOMAIN p = SecurityKeys
  OBVIOUS
<1>3. n \in Lengths \ {0}
  BY <1>1, ConstantsAssumption
<1>4. PayloadOK(p)
  BY <1>2, <1>3, ValuesOf DEF PayloadOK, SecurityKeys, Minimum
<1>5. Secret \notin DOMAIN p /\ DOMAIN p # NotifyKeys
  <2>1. Secret \in SSOKeys /\ "notify_enabled" \in NotifyKeys
    BY DEF SSOKeys, Secret, NotifyKeys
  <2>2. QED
    BY <1>2, <2>1, Groups
<1>6. UNCHANGED <<row, lock, form, load, fails>>
  BY DEF UpdateSecurity
<1>7. Begin(o, p, "not")
  BY <1>1
<1> HIDE DEF p
<1>8. RowInv' /\ TxShape'
  BY <1>4, <1>5, <1>6, <1>7, BeginKeeps DEF SettingsInv
<1>9. QED
  BY <1>6, <1>8, SameLoads DEF SettingsInv, FormInv, FormOK

\* The page shows the mask, or that there is no secret.
LEMMA GetSSOStep ==
    ASSUME SettingsInv, NEW o \in Requests, GetSSO(o)
    PROVE  SettingsInv'
<1>1. /\ form' = [form EXCEPT ![o] = ShownSSO(row)]
      /\ UNCHANGED <<row, lock, tx, load, left, fails>>
  BY DEF GetSSO
<1>2. ShownSSO(row) = [k \in SSOKeys |-> ShownSSO(row)[k]]
  BY DEF ShownSSO
<1>3. Secret \in SSOKeys /\ Issuer \in SSOKeys /\ Secret # Issuer
  BY DEF SSOKeys, Secret, Issuer
<1>4. ShownSSO(row)[Secret] \in {Mask, Empty}
  BY <1>3 DEF ShownSSO, Shown, Secret
<1>5. ShownSSO(row)[Issuer] \in Urls \cup {Empty}
  <2>1. row[Issuer] \in Urls \cup {Empty, Absent}
    BY <1>3, Groups, ValuesOf DEF SettingsInv, RowInv, Table
  <2>2. QED
    BY <1>3, <2>1 DEF ShownSSO, Shown, Secret
<1>6. FormOK(ShownSSO(row))
  BY <1>2, <1>4, <1>5 DEF FormOK
<1> DEFINE new == ShownSSO(row)
<1>7. form' = [form EXCEPT ![o] = new] /\ FormOK(new)
  BY <1>1, <1>6
<1> HIDE DEF new
<1>8. FormInv'
  BY <1>7 DEF SettingsInv, FormInv
<1>9. RowInv' /\ TxShape'
  BY <1>1 DEF SettingsInv, RowInv, TxShape
<1>10. QED
  BY <1>1, <1>8, <1>9, SameLoads DEF SettingsInv

\* A secret that is stored is not the mask: the client has entered it, or was shown
\* that there is none.
LEMMA UpdateSSOStep ==
    ASSUME SettingsInv, NEW o \in Requests, UpdateSSO(o)
    PROVE  SettingsInv'
<1>0. PICK k \in SSOKeys : \E v \in {form[o][k]} \cup Values(k) :
         Begin(o, Unmasked([form[o] EXCEPT ![k] = v]),
               Touch(form[o], k, v))
  BY DEF UpdateSSO
<1>1. PICK v \in {form[o][k]} \cup Values(k) :
         Begin(o, Unmasked([form[o] EXCEPT ![k] = v]),
               Touch(form[o], k, v))
  BY <1>0
<1> DEFINE f == [form[o] EXCEPT ![k] = v]
           p == Unmasked(f)
           touched == Touch(form[o], k, v)
<1>2. /\ form[o] = [j \in SSOKeys |-> form[o][j]]
      /\ form[o][Secret] \in {Mask, Empty} /\ form[o][Issuer] \in Urls \cup {Empty}
      /\ form' = [form EXCEPT ![o] = None]
      /\ UNCHANGED <<row, lock, load, fails>>
  BY DEF SettingsInv, FormInv, FormOK, UpdateSSO
<1>3. SSOKeys = {Secret, Issuer} /\ Secret # Issuer
  BY DEF SSOKeys, Secret, Issuer
<1>4. /\ DOMAIN f = SSOKeys
      /\ f[k] = v /\ \A j \in SSOKeys : j # k => f[j] = form[o][j]
  BY <1>2
<1>5. f[Secret] \in Secrets \cup {Empty, Mask} /\ f[Issuer] \in Urls \cup {Empty}
  <2>1. CASE k = Secret
    BY <1>2, <1>3, <1>4, <2>1, ValuesOf
  <2>2. CASE k = Issuer
    BY <1>2, <1>3, <1>4, <2>2, ValuesOf
  <2>3. QED
    BY <1>3, <2>1, <2>2
<1>6. f[Secret] # Mask => MayWrite(touched, f[Secret])
  BY <1>2, <1>3, <1>4 DEF Secret, Touch, MayWrite
<1> HIDE DEF f, touched
<1>7. /\ DOMAIN p = IF f[Secret] = Mask THEN SSOKeys \ {Secret} ELSE SSOKeys
      /\ \A j \in DOMAIN p : p[j] = f[j]
  BY <1>4 DEF Unmasked, Secret
<1>8. PayloadOK(p)
  <2>1. \A j \in DOMAIN p : p[j] \in Values(j)
    BY <1>3, <1>5, <1>7, ValuesOf
  <2>2. QED
    BY <1>7, <2>1 DEF PayloadOK, Secret
<1>9. DOMAIN p # NotifyKeys
  <2>1. "notify_enabled" \in NotifyKeys
    BY DEF NotifyKeys
  <2>2. QED
    BY <1>7, <2>1, Groups
<1>10. Secret \in DOMAIN p => MayWrite(touched, p[Secret])
  BY <1>6, <1>7
<1>11. Begin(o, p, touched)
  BY <1>1 DEF f, touched
<1> HIDE DEF p
<1>12. RowInv' /\ TxShape'
  BY <1>2, <1>8, <1>9, <1>10, <1>11, BeginKeeps DEF SettingsInv
<1>13. FormInv'
  BY <1>2 DEF SettingsInv, FormInv, FormOK
<1>14. QED
  BY <1>2, <1>12, <1>13, SameLoads DEF SettingsInv

-----------------------------------------------------------------------------
(* Transactions. *)

\* A transaction goes on with what it has to write.
LEMMA UpsertStep ==
    ASSUME SettingsInv, NEW o \in Requests, Upsert(o)
    PROVE  SettingsInv'
<1>1. PICK next \in IF tx[o].todo = {} THEN {None} ELSE tx[o].todo :
         tx' = [tx EXCEPT ![o].at = next, ![o].todo = @ \ {next}]
  BY DEF Upsert
<1> DEFINE new == [tx[o] EXCEPT !.at = next, !.todo = @ \ {next}]
<1>2. /\ tx[o].at \in Keys /\ tx[o] # Idle
      /\ lock' = [lock EXCEPT ![tx[o].at] = o]
      /\ UNCHANGED <<row, form, load, left, fails>>
  BY DEF Upsert, SettingsInv, TxShape, Idle
<1>3. /\ tx[o] = [payload |-> tx[o].payload, at |-> tx[o].at, todo |-> tx[o].todo,
                  touched |-> tx[o].touched]
      /\ tx[o].todo \subseteq Keys /\ TxOK(tx[o])
      /\ next \in Keys \cup {None}
  BY DEF SettingsInv, TxShape
<1>4. /\ new = [payload |-> tx[o].payload, at |-> next, todo |-> tx[o].todo \ {next},
                touched |-> tx[o].touched]
  <2> DEFINE p == tx[o].payload
             a == tx[o].at
             d == tx[o].todo
             c == tx[o].touched
  <2>1. tx[o] = [payload |-> p, at |-> a, todo |-> d, touched |-> c]
    BY <1>3
  <2>2. new = [tx[o] EXCEPT !.at = next, !.todo = d \ {next}]
    OBVIOUS
  <2> HIDE DEF p, a, d, c, new
  <2>3. new = [payload |-> p, at |-> next, todo |-> d \ {next}, touched |-> c]
    <3>1. new = [[payload |-> p, at |-> a, todo |-> d, touched |-> c]
                   EXCEPT !.at = next, !.todo = d \ {next}]
      BY <2>1, <2>2, Zenon
    <3>2. QED
      BY <3>1
  <2>4. QED
    BY <2>3 DEF p, a, d, c
<1>5. tx' = [tx EXCEPT ![o] = new]
  BY <1>1
<1> HIDE DEF new
<1>6. TxOK(new)
  BY <1>2, <1>3, <1>4 DEF TxOK
<1>7. TxShape'
  BY <1>3, <1>4, <1>5, <1>6 DEF SettingsInv, TxShape
<1>8. RowInv' /\ FormInv'
  BY <1>2 DEF SettingsInv, RowInv, FormInv, FormOK
<1>9. QED
  BY <1>2, <1>7, <1>8, SameLoads DEF SettingsInv

LEMMA IdleShape ==
    ASSUME TxShape, NEW o \in Requests, tx' = [tx EXCEPT ![o] = Idle]
    PROVE  TxShape'
<1>1. /\ Idle = [payload |-> Idle.payload, at |-> Idle.at, todo |-> Idle.todo,
                 touched |-> Idle.touched]
      /\ Idle.at = None /\ Idle.todo = {}
  <2> DEFINE p == [k \in {} |-> Absent]
  <2>1. Idle = [payload |-> p, at |-> None, todo |-> {}, touched |-> "not"]
    BY DEF Idle
  <2> HIDE DEF p
  <2>2. QED
    BY <2>1
<1>2. TxOK(Idle)
  BY DEF TxOK
<1>3. QED
  BY <1>1, <1>2 DEF TxShape

LEMMA RollbackStep ==
    ASSUME SettingsInv, NEW o \in Requests, Rollback(o)
    PROVE  SettingsInv'
<1>1. /\ tx' = [tx EXCEPT ![o] = Idle]
      /\ lock' = Unlocked(o)
      /\ UNCHANGED <<row, form, load, left>>
  BY DEF Rollback
<1>2. fails' \in 0..MaxFailures
  BY ConstantsAssumption DEF Rollback, SettingsInv, RowInv
<1>3. lock' \in [Keys -> Requests \cup {None}]
  BY <1>1 DEF Unlocked, SettingsInv, RowInv
<1>4. RowInv' /\ FormInv'
  BY <1>1, <1>2, <1>3 DEF SettingsInv, RowInv, FormInv, FormOK
<1>5. TxShape'
  BY <1>1, IdleShape DEF SettingsInv
<1>6. QED
  BY <1>1, <1>4, <1>5, SameLoads DEF SettingsInv

\* A group that is written as a whole stays whole.
LEMMA TableKept ==
    ASSUME Table(row), NEW p, PayloadOK(p),
           DOMAIN p = NotifyKeys /\ p["notify_enabled"] => p[ListOf[p["notify_channel"]]] # {},
           row' = [k \in Keys |-> IF k \in DOMAIN p THEN p[k] ELSE row[k]]
    PROVE  Table(row')
<1>1. DOMAIN p \in {NotifyKeys, CollectKeys, SecurityKeys, SSOKeys, SSOKeys \ {Secret}}
  BY DEF PayloadOK, Secret
<1>2. /\ \A k \in DOMAIN p : row'[k] = p[k] /\ p[k] \in Values(k)
      /\ \A k \in Keys : k \notin DOMAIN p => row'[k] = row[k]
  BY PayloadKeys DEF PayloadOK
<1>3. \A k \in Keys : row'[k] \in Values(k) \cup {Absent}
  BY <1>2 DEF Table
<1>4. CASE DOMAIN p = NotifyKeys
  <2>1. Stored(row', NotifyKeys)
    BY <1>2, <1>4, ValuesThere DEF Stored
  <2>2. \A k \in CollectKeys : row'[k] = row[k]
    BY <1>2, <1>4, Groups
  <2>3. Whole(row', NotifyKeys) /\ Whole(row', CollectKeys)
    BY <2>1, <2>2 DEF Whole, Stored, Table
  <2>4. /\ row'["notify_enabled"] = p["notify_enabled"]
        /\ row'["notify_channel"] = p["notify_channel"]
        /\ p["notify_channel"] \in Channels
    <3>1. "notify_enabled" \in NotifyKeys /\ "notify_channel" \in NotifyKeys
      BY DEF NotifyKeys
    <3>2. QED
      BY <1>2, <1>4, <3>1, ValuesOf
  <2>5. ListOf[p["notify_channel"]] \in NotifyKeys
    BY <2>4, ListNames DEF NotifyKeys
  <2>6. row'[ListOf[p["notify_channel"]]] = p[ListOf[p["notify_channel"]]]
    BY <1>2, <1>4, <2>5
  <2>7. row'["notify_enabled"] => row'[ListOf[row'["notify_channel"]]] # {}
    BY <1>4, <2>4, <2>6
  <2>8. QED
    BY <1>3, <2>3, <2>7 DEF Table
<1>5. CASE DOMAIN p # NotifyKeys
  <2>1. \A k \in NotifyKeys : row'[k] = row[k]
    BY <1>1, <1>2, <1>5, Groups
  <2>2. Stored(row', CollectKeys) \/ \A k \in CollectKeys : row'[k] = row[k]
    <3>1. CASE DOMAIN p = CollectKeys
      BY <1>2, <3>1, ValuesThere DEF Stored
    <3>2. CASE DOMAIN p # CollectKeys
      BY <1>1, <1>2, <1>5, <3>2, Groups
    <3>3. QED
      BY <3>1, <3>2
  <2>3. Whole(row', NotifyKeys) /\ Whole(row', CollectKeys)
    BY <2>1, <2>2 DEF Whole, Stored, Table
  <2>4. /\ "notify_enabled" \in NotifyKeys /\ "notify_channel" \in NotifyKeys
        /\ Stored(row, NotifyKeys) => ListOf[row["notify_channel"]] \in NotifyKeys
    <3>1. "notify_enabled" \in NotifyKeys /\ "notify_channel" \in NotifyKeys
      BY DEF NotifyKeys
    <3>2. Stored(row, NotifyKeys) => row["notify_channel"] \in Channels
      BY <3>1, Groups, ValuesOf DEF Table, Stored
    <3>3. QED
      BY <3>1, <3>2, ListNames DEF NotifyKeys
  <2>5. Stored(row', NotifyKeys) =>
           (row'["notify_enabled"] => row'[ListOf[row'["notify_channel"]]] # {})
    BY <2>1, <2>4 DEF Stored, Table
  <2>6. QED
    BY <1>3, <2>3, <2>5 DEF Table
<1>6. QED
  BY <1>4, <1>5

\* A load under way sees what is committed.
LEMMA CommitStep ==
    ASSUME SettingsInv, NEW o \in Requests, Commit(o)
    PROVE  SettingsInv'
<1> DEFINE p == tx[o].payload
<1>1. /\ tx[o] # Idle /\ TxOK(tx[o])
      /\ row' = [k \in Keys |-> IF k \in DOMAIN p THEN p[k] ELSE row[k]]
      /\ lock' = Unlocked(o)
      /\ tx' = [tx EXCEPT ![o] = Idle]
      /\ load' = [l \in Loaders |-> IF load[l].at = None THEN Off
                                    ELSE [load[l] EXCEPT !.seen =
                                            [k \in CollectKeys |-> @[k] \cup {row'[k]}]]]
      /\ UNCHANGED <<form, left, fails>>
  BY DEF Commit, AllSee, Seen, SettingsInv, TxShape
<1>2. Table(row')
  BY <1>1, TableKept DEF SettingsInv, RowInv, TxOK
<1>3. lock' \in [Keys -> Requests \cup {None}]
  BY <1>1 DEF Unlocked, SettingsInv, RowInv
<1>4. RowInv' /\ FormInv'
  BY <1>1, <1>2, <1>3 DEF SettingsInv, RowInv, FormInv, FormOK
<1>5. TxShape'
  BY <1>1, IdleShape DEF SettingsInv
<1>6. ASSUME NEW l \in Loaders
      PROVE  LoadOK(load'[l], row')
  <2>1. CASE load[l].at = None
    BY <1>1, <2>1, OffOK
  <2>2. CASE load[l].at # None
    <3> DEFINE d == load[l]
               seen == [k \in CollectKeys |-> d.seen[k] \cup {row'[k]}]
               a == d.at
               g == d.got
               s == d.seen
               x == d.failed
    <3>1. LoadOK(d, row)
      BY DEF SettingsInv, LoadInv
    <3>2. load'[l] = [d EXCEPT !.seen = seen]
      BY <1>1, <2>2
    <3>3. d = [at |-> a, got |-> g, seen |-> s, failed |-> x]
      BY <3>1 DEF LoadOK
    <3>4. \A k \in CollectKeys : seen[k] = s[k] \cup {row'[k]}
      OBVIOUS
    <3>5. /\ a \in CollectKeys \cup {"done", None} /\ a # None
          /\ g = [k \in CollectKeys |-> g[k]]
          /\ \A k \in CollectKeys : g[k] \in Values(k) \cup {File[k]}
          /\ x \subseteq CollectKeys
          /\ \A k \in CollectKeys : g[k] = File[k] \/ k \in Behind(a)
          /\ \A k \in Behind(a) :
                \/ g[k] \in s[k]
                \/ g[k] = File[k] /\ (k \in x \/ Absent \in s[k])
      BY <2>2, <3>1 DEF LoadOK, WasStored
    <3>6. Behind(a) \subseteq CollectKeys
      BY <3>5 DEF Behind, CollectKeys, Metrics, Address, Window
    <3> HIDE DEF a, g, s, x, seen, d
    <3>7. load'[l] = [at |-> a, got |-> g, seen |-> seen, failed |-> x]
      BY <3>2, <3>3
    <3>8. QED
      BY <3>4, <3>5, <3>6, <3>7 DEF LoadOK, WasStored
  <2>3. QED
    BY <2>1, <2>2
<1>7. LoadInv'
  BY <1>1, <1>6 DEF LoadInv
<1>8. QED
  BY <1>4, <1>5, <1>7 DEF SettingsInv

-----------------------------------------------------------------------------
(* Loads. *)

LEMMA AfterBehind ==
    ASSUME NEW k \in CollectKeys
    PROVE  /\ After[k] \in CollectKeys \cup {"done"} /\ After[k] # None
           /\ Behind(After[k]) = Behind(k) \cup {k}
           /\ k \notin Behind(k)
<1>1. CollectKeys = {Metrics, Address, Window}
  BY DEF CollectKeys, Metrics, Address, Window
<1>2. None \notin CollectKeys \cup {"done"}
  BY ConstantsAssumption DEF Keys
<1>3. CASE k = Metrics
  BY <1>1, <1>2, <1>3 DEF After, Behind, Metrics, Address, Window
<1>4. CASE k = Address
  BY <1>1, <1>2, <1>4 DEF After, Behind, Metrics, Address, Window
<1>5. CASE k = Window
  BY <1>1, <1>2, <1>5 DEF After, Behind, Metrics, Address, Window
<1>6. QED
  BY <1>1, <1>3, <1>4, <1>5

\* A load that changes only itself.
LEMMA LoadAlone ==
    ASSUME SettingsInv, NEW l \in Loaders, NEW new, LoadOK(new, row),
           load' = [load EXCEPT ![l] = new],
           UNCHANGED <<row, lock, form, tx>>,
           left' \in 0..MaxRequests, fails' \in 0..MaxFailures
    PROVE  SettingsInv'
<1>1. LoadInv'
  BY DEF SettingsInv, LoadInv
<1>2. RowInv' /\ TxShape' /\ FormInv'
  BY DEF SettingsInv, RowInv, TxShape, FormInv, FormOK
<1>3. QED
  BY <1>1, <1>2 DEF SettingsInv

LEMMA LoadCollectStep ==
    ASSUME SettingsInv, NEW l \in Loaders, LoadCollect(l)
    PROVE  SettingsInv'
<1> DEFINE seen == [k \in CollectKeys |-> {row[k]}]
           file == [k \in CollectKeys |-> File[k]]
           none == [k \in CollectKeys |-> {}]
           new == [Start EXCEPT !.seen = seen]
<1>1. /\ load' = [load EXCEPT ![l] = new]
      /\ UNCHANGED <<row, lock, form, tx, fails>>
  BY DEF LoadCollect
<1>2. left' \in 0..MaxRequests /\ fails' \in 0..MaxFailures
  BY ConstantsAssumption DEF LoadCollect, SettingsInv, RowInv
<1>3. new = [[at |-> Metrics, got |-> file, seen |-> none, failed |-> {}]
                EXCEPT !.seen = seen]
  BY DEF Start, Metrics
<1>4. /\ \A k \in CollectKeys : row[k] \in seen[k]
      /\ file = [k \in CollectKeys |-> file[k]]
      /\ \A k \in CollectKeys : file[k] = File[k]
      /\ Behind(Metrics) = {} /\ Metrics \in CollectKeys
  <2>1. \A k \in CollectKeys : row[k] \in seen[k]
    OBVIOUS
  <2>2. Behind(Metrics) = {} /\ Metrics \in CollectKeys
    BY ConstantsAssumption DEF Behind, Keys, CollectKeys, Metrics, Address, Window
  <2>3. QED
    BY <2>1, <2>2
<1> HIDE DEF seen, file, none, new
<1>5. new = [at |-> Metrics, got |-> file, seen |-> seen, failed |-> {}]
  BY <1>3
<1>6. LoadOK(new, row)
  BY <1>4, <1>5 DEF LoadOK
<1>7. QED
  BY <1>1, <1>2, <1>6, LoadAlone

\* One more key is read, from the table or left as the file has it.
LEMMA ReadKeeps ==
    ASSUME SettingsInv, NEW l \in Loaders, load[l].at \in CollectKeys,
           NEW g, g = [k \in CollectKeys |-> g[k]],
           \A k \in CollectKeys : k # load[l].at => g[k] = load[l].got[k],
           g[load[l].at] \in Values(load[l].at) \cup {File[load[l].at]},
           NEW x \in SUBSET CollectKeys, load[l].failed \subseteq x,
           \/ g[load[l].at] \in load[l].seen[load[l].at]
           \/ /\ g[load[l].at] = File[load[l].at]
              /\ load[l].at \in x \/ Absent \in load[l].seen[load[l].at],
           load' = [load EXCEPT ![l] = [at |-> After[load[l].at], got |-> g,
                                        seen |-> load[l].seen, failed |-> x]],
           UNCHANGED <<row, lock, form, tx, left>>, fails' \in 0..MaxFailures
    PROVE  SettingsInv'
<1> DEFINE k == load[l].at
           seen == load[l].seen
           new == [at |-> After[k], got |-> g, seen |-> seen, failed |-> x]
<1>1. LoadOK(load[l], row)
  BY DEF SettingsInv, LoadInv
<1>2. /\ After[k] \in CollectKeys \cup {"done"} /\ After[k] # None
      /\ Behind(After[k]) = Behind(k) \cup {k}
      /\ k \notin Behind(k)
  BY AfterBehind
<1>3. k # None
  BY ConstantsAssumption DEF Keys
<1>4. /\ new.at = After[k] /\ new.got = g /\ new.seen = seen /\ new.failed = x
      /\ new = [at |-> new.at, got |-> new.got, seen |-> new.seen, failed |-> new.failed]
  OBVIOUS
<1>5. load' = [load EXCEPT ![l] = new]
  OBVIOUS
<1> HIDE DEF new
<1>6. Behind(k) \subseteq CollectKeys
  BY DEF Behind, CollectKeys, Metrics, Address, Window
<1>7. \A j \in CollectKeys : g[j] \in Values(j) \cup {File[j]}
  BY <1>1 DEF LoadOK
<1>8. \A j \in CollectKeys : row[j] \in seen[j]
  BY <1>1, <1>3 DEF LoadOK
<1>9. \A j \in CollectKeys : g[j] = File[j] \/ j \in Behind(After[k])
  BY <1>1, <1>2 DEF LoadOK
<1>10. \A j \in Behind(After[k]) : WasStored(new, j)
  <2>1. ASSUME NEW j \in Behind(k) PROVE WasStored(new, j)
    <3>1. j \in CollectKeys /\ j # k /\ g[j] = load[l].got[j]
      BY <1>2, <1>6
    <3>2. WasStored(load[l], j)
      BY <1>1 DEF LoadOK
    <3>3. QED
      BY <1>4, <3>1, <3>2 DEF WasStored
  <2>2. WasStored(new, k)
    BY <1>4 DEF WasStored
  <2>3. QED
    BY <1>2, <2>1, <2>2
<1>11. LoadOK(new, row)
  BY <1>2, <1>4, <1>7, <1>8, <1>9, <1>10 DEF LoadOK
<1>12. left' \in 0..MaxRequests
  BY DEF SettingsInv, RowInv
<1>13. QED
  BY <1>5, <1>11, <1>12, LoadAlone

LEMMA ReadSettingStep ==
    ASSUME SettingsInv, NEW l \in Loaders, ReadSetting(l)
    PROVE  SettingsInv'
<1> DEFINE k == load[l].at
           a == After[k]
           got == load[l].got
           seen == load[l].seen
           x == load[l].failed
<1>1. /\ k \in CollectKeys /\ UNCHANGED <<row, lock, form, tx, left, fails>>
      /\ LoadOK(load[l], row)
  BY DEF ReadSetting, SettingsInv, LoadInv
<1>2. /\ load[l] = [at |-> k, got |-> got, seen |-> seen, failed |-> x]
      /\ x \subseteq CollectKeys
      /\ got = [j \in CollectKeys |-> got[j]]
  BY <1>1 DEF LoadOK
<1>3. row[k] \in seen[k] /\ got[k] = File[k] /\ row[k] \in Values(k) \cup {Absent}
  <2>1. k # None /\ k \in Keys
    BY <1>1, ConstantsAssumption DEF Keys
  <2>2. QED
    BY <1>1, <2>1, AfterBehind DEF LoadOK, SettingsInv, RowInv, Table
<1>4. fails' \in 0..MaxFailures
  BY <1>1 DEF SettingsInv, RowInv
<1>5. CASE row[k] # Absent /\ load' = [load EXCEPT ![l].got[k] = row[k], ![l].at = After[k]]
  <2> DEFINE g == [got EXCEPT ![k] = row[k]]
             new == [load[l] EXCEPT !.got = g, !.at = a]
  <2>1. load' = [load EXCEPT ![l] = new]
    BY <1>5
  <2>2. g = [j \in CollectKeys |-> g[j]] /\ g[k] = row[k]
        /\ \A j \in CollectKeys : j # k => g[j] = got[j]
    BY <1>1, <1>2
  <2>3. new = [at |-> a, got |-> g, seen |-> seen, failed |-> x]
    <3> HIDE DEF g, a, got, seen, x, k
    <3>1. new = [[at |-> k, got |-> got, seen |-> seen, failed |-> x] EXCEPT !.got = g, !.at = a]
      BY <1>2, Zenon
    <3> HIDE DEF new
    <3>2. QED
      BY <3>1
  <2> HIDE DEF g, new
  <2>4. load' = [load EXCEPT ![l] = [at |-> a, got |-> g, seen |-> seen, failed |-> x]]
    BY <2>1, <2>3
  <2>5. QED
    BY <1>1, <1>2, <1>3, <1>4, <1>5, <2>2, <2>4, ReadKeeps
<1>6. CASE row[k] = Absent /\ load' = [load EXCEPT ![l].at = After[k]]
  <2> DEFINE new == [load[l] EXCEPT !.at = a]
  <2>1. load' = [load EXCEPT ![l] = new]
    BY <1>6
  <2>2. new = [at |-> a, got |-> got, seen |-> seen, failed |-> x]
    <3> HIDE DEF a, got, seen, x, k
    <3>1. new = [[at |-> k, got |-> got, seen |-> seen, failed |-> x] EXCEPT !.at = a]
      BY <1>2, Zenon
    <3> HIDE DEF new
    <3>2. QED
      BY <3>1
  <2> HIDE DEF new
  <2>3. load' = [load EXCEPT ![l] = [at |-> a, got |-> got, seen |-> seen, failed |-> x]]
    BY <2>1, <2>2
  <2>4. got[k] \in Values(k) \cup {File[k]} /\ Absent \in seen[k]
    BY <1>3, <1>6
  <2>5. QED
    BY <1>1, <1>2, <1>3, <1>4, <2>3, <2>4, ReadKeeps
<1>7. QED
  BY <1>5, <1>6 DEF ReadSetting

LEMMA ReadFailsStep ==
    ASSUME SettingsInv, NEW l \in Loaders, ReadFails(l)
    PROVE  SettingsInv'
<1> DEFINE k == load[l].at
           a == After[k]
           got == load[l].got
           seen == load[l].seen
           x == load[l].failed
           y == x \cup {k}
           new == [load[l] EXCEPT !.at = a, !.failed = y]
<1>1. /\ k \in CollectKeys /\ UNCHANGED <<row, lock, form, tx, left>>
      /\ LoadOK(load[l], row)
      /\ load' = [load EXCEPT ![l] = new]
  BY DEF ReadFails, SettingsInv, LoadInv
<1>2. fails' \in 0..MaxFailures
  BY ConstantsAssumption DEF ReadFails, SettingsInv, RowInv
<1>3. /\ load[l] = [at |-> k, got |-> got, seen |-> seen, failed |-> x]
      /\ x \subseteq CollectKeys
      /\ got = [j \in CollectKeys |-> got[j]]
  BY <1>1 DEF LoadOK
<1>4. got[k] = File[k] /\ y \subseteq CollectKeys /\ x \subseteq y /\ k \in y
  BY <1>1, <1>3, AfterBehind DEF LoadOK
<1>5. new = [at |-> a, got |-> got, seen |-> seen, failed |-> y]
  <2> HIDE DEF a, got, seen, x, k, y
  <2>1. new = [[at |-> k, got |-> got, seen |-> seen, failed |-> x]
                 EXCEPT !.at = a, !.failed = y]
    BY <1>3, Zenon
  <2> HIDE DEF new
  <2>2. QED
    BY <2>1
<1> HIDE DEF y
<1>6. QED
  BY <1>1, <1>2, <1>3, <1>4, <1>5, ReadKeeps

LEMMA LoadedStep ==
    ASSUME SettingsInv, NEW l \in Loaders, Loaded(l)
    PROVE  SettingsInv'
<1>1. /\ load' = [load EXCEPT ![l] = Off]
      /\ UNCHANGED <<row, lock, form, tx, left, fails>>
  BY DEF Loaded
<1>2. left' \in 0..MaxRequests /\ fails' \in 0..MaxFailures
  BY <1>1 DEF SettingsInv, RowInv
<1>3. QED
  BY <1>1, <1>2, OffOK, LoadAlone

\* The invariant is inductive.
LEMMA SettingsInvariant == Spec => []SettingsInv
<1>1. SettingsInv /\ [Next]_vars => SettingsInv'
  <2> SUFFICES ASSUME SettingsInv, [Next]_vars PROVE SettingsInv'
    OBVIOUS
  <2>1. CASE UNCHANGED vars
    <3>1. RowInv' /\ TxShape' /\ FormInv'
      BY <2>1 DEF vars, SettingsInv, RowInv, TxShape, FormInv, FormOK
    <3>2. QED
      BY <2>1, <3>1, SameLoads DEF vars, SettingsInv
  <2>2. QED
    BY <2>1, UpdateNotifyStep, UpdateCollectStep, UpdateSecurityStep, GetSSOStep, UpdateSSOStep,
       UpsertStep, CommitStep, RollbackStep, LoadCollectStep, ReadSettingStep, ReadFailsStep,
       LoadedStep
    DEF Next, Transact
<1>2. QED
  BY <1>1, InitSettings, PTL DEF Spec

-----------------------------------------------------------------------------

\* Every row that setting_handler.go writes has a value its readers can parse.
THEOREM TypeCorrect == Spec => []TypeOK
  BY SettingsInvariant, TypeFollows, PTL

\* Once notifications were saved, the dispatcher uses what the page shows.
THEOREM NotifiersAsShown == Spec => []NotifiedAsShown
  BY SettingsInvariant, UseFollows, PTL

\* loadCollectConfig does not bring back a value that was replaced before.
THEOREM LoadsWereStored == Spec => []LoadedWasStored
  BY SettingsInvariant, LoadFollows, PTL

\* The secret changes only to what a client has entered, or to none when a page that
\* has shown that there is none is saved; it never becomes the mask.
THEOREM SecretIsKept == Spec => SecretKept
<1> DEFINE new == row'["sso_client_secret"]
           Kept == new # row["sso_client_secret"] =>
              /\ new # Mask
              /\ \E o \in Requests :
                    /\ tx[o] # Idle /\ tx'[o] = Idle
                    /\ tx[o].touched = "entered" \/ (tx[o].touched = "none" /\ new = Empty)
<1>1. SettingsInv /\ [Next]_vars => [Kept]_vars
  <2> SUFFICES ASSUME SettingsInv, Next, row'[Secret] # row[Secret]
               PROVE  /\ row'[Secret] # Mask
                      /\ \E o \in Requests :
                            /\ tx[o] # Idle /\ tx'[o] = Idle
                            /\ MayWrite(tx[o].touched, row'[Secret])
    BY DEF Secret, MayWrite
  <2>1. PICK o \in Requests : Commit(o)
    BY DEF Next, Transact, UpdateNotify, UpdateCollect, UpdateSecurity, GetSSO, UpdateSSO,
           Upsert, Rollback, LoadCollect, ReadSetting, ReadFails, Loaded
  <2> DEFINE p == tx[o].payload
  <2>2. /\ tx[o] # Idle /\ TxOK(tx[o]) /\ tx'[o] = Idle
        /\ row' = [k \in Keys |-> IF k \in DOMAIN p THEN p[k] ELSE row[k]]
    BY <2>1 DEF Commit, SettingsInv, TxShape
  <2>3. Secret \in Keys
    BY Groups DEF SSOKeys, Secret
  <2>4. Secret \in DOMAIN p /\ row'[Secret] = p[Secret]
    BY <2>2, <2>3
  <2>5. p[Secret] \in Secrets \cup {Empty} /\ MayWrite(tx[o].touched, p[Secret])
    BY <2>2, <2>4, ValuesOf DEF TxOK, PayloadOK
  <2>6. QED
    BY <2>2, <2>4, <2>5, ConstantsAssumption
<1>2. QED
  BY <1>1, SettingsInvariant, PTL DEF Spec, SecretKept
=============================================================================
