--------------------------- MODULE AccountsProofs ---------------------------
(***************************************************************************)
(* Proofs about Accounts: roles and the cache of their permissions, users  *)
(* and their sessions, for any roles, users, requests and restarts.        *)
(***************************************************************************)
EXTENDS Accounts, TLAPS

Editing == {"lookup", "save", "delete"}

EditSteps == {"idle", "insert", "lookup", "save", "delete", "written", "clear"}
WorkSteps == {"idle", "insert", "join", "save", "enable", "bind", "revoke", "issue",
              "rotate", "logout", "load"}

\* A request keeps what it has read of a row.
EditRecords  == [at : EditSteps, id : RoleIds \cup {None}, role : Roles \cup {None},
                 todo : SUBSET Names]
CheckRecords == [at : {"idle", "query", "store"}, name : Names \cup {None},
                 perms : SUBSET AllPermissions]
WorkRecords  == [at : WorkSteps, user : Users \cup {None}, row : Rows \cup {None},
                 token : Tokens \cup {None}]

RolesOK ==
    /\ roles \in [RoleIds -> Roles \cup {None}]
    /\ \A i, j \in RoleIds : roles[i] # None /\ roles[j] # None /\ i # j =>
          roles[i].name # roles[j].name
    /\ boot \in 0..Len(BuiltIns) + 1

CacheOK ==
    /\ cache = [n \in Names |-> cache[n]]
    /\ \A n \in Names : cache[n] # None =>
          cache[n].perms \subseteq AllPermissions /\ cache[n].late \in BOOLEAN

EditsOK ==
    /\ edit \in [Edits -> EditRecords]
    /\ \A o \in Edits : EditOK(edit[o])

ChecksOK ==
    /\ check \in [Checks -> CheckRecords]
    /\ \A f \in Checks : check[f].at # "idle" => check[f].name \in Names

\* A row that a request has read is built in if and only if it is so now, and then
\* the request leaves its name; a new role is not built in.
BuiltInOK(e) ==
    /\ e.at \in {"insert", "delete"} => ~e.role.builtin
    /\ e.at \in Editing =>
          \/ /\ e.role.builtin
             /\ roles[e.id] # None
             /\ roles[e.id].builtin
             /\ roles[e.id].name = e.role.name
          \/ /\ ~e.role.builtin
             /\ roles[e.id] = None \/ ~roles[e.id].builtin

\* Nothing goes on before the server does.
Quiet == ~Serving =>
    /\ \A n \in Names : cache[n] = None
    /\ \A o \in Edits : edit[o] = NoEdit
    /\ \A f \in Checks : check[f] = NoCheck

RoleInv ==
    /\ RolesOK /\ CacheOK /\ EditsOK /\ ChecksOK /\ Quiet
    /\ \A o \in Edits : BuiltInOK(edit[o])
    /\ StaleOnlyByOverlap

\* A token is a user's that is there.
TokensOK ==
    /\ tokens \in [Tokens -> Sessions \cup {None}]
    /\ \A t \in Tokens : tokens[t] # None => users[tokens[t].user] # None

UserInv ==
    /\ users \in [Users -> Rows \cup {None}]
    /\ TokensOK
    /\ work \in [Works -> WorkRecords]
    /\ \A w \in Works : WorkOK(work[w])
    /\ SessionsCurrent

AccountsInv == RoleInv /\ UserInv

LEMMA SameRoles ==
    ASSUME RoleInv, UNCHANGED <<roleVars, boot>>
    PROVE  RoleInv'
  BY DEF RoleInv, RolesOK, CacheOK, EditsOK, ChecksOK, Quiet, BuiltInOK, StaleOnlyByOverlap,
         roleVars, Serving, EditOK, PermsOf, Named

LEMMA SameUsers ==
    ASSUME UserInv, UNCHANGED userVars
    PROVE  UserInv'
  BY DEF UserInv, TokensOK, WorkOK, SessionsCurrent, userVars

LEMMA InitAccounts == Init => AccountsInv
<1> SUFFICES ASSUME Init PROVE AccountsInv
  OBVIOUS
<1>1. RoleInv
  <2>1. RolesOK /\ CacheOK /\ ChecksOK
    BY ConstantsAssumption DEF Init, RolesOK, CacheOK, ChecksOK, CheckRecords, NoCheck
  <2>2. EditsOK
    BY DEF Init, EditsOK, EditRecords, EditSteps, EditOK, NoEdit
  <2>3. /\ \A o \in Edits : BuiltInOK(edit[o])
        /\ Quiet /\ StaleOnlyByOverlap
    BY DEF Init, BuiltInOK, Quiet, StaleOnlyByOverlap, NoEdit, Editing
  <2>4. QED
    BY <2>1, <2>2, <2>3 DEF RoleInv
<1>2. UserInv
  BY DEF Init, UserInv, TokensOK, WorkRecords, WorkSteps, WorkOK, SessionsCurrent, NoWork
<1>3. QED
  BY <1>1, <1>2 DEF AccountsInv

-----------------------------------------------------------------------------
(* Roles. *)

\* What the table says about a role's name is a set of permissions.
LEMMA PermsType ==
    ASSUME RolesOK, NEW n \in Names, Named(n) # {}
    PROVE  PermsOf(n) \subseteq AllPermissions
<1>1. (CHOOSE i \in Named(n) : TRUE) \in Named(n)
  OBVIOUS
<1>2. QED
  BY <1>1 DEF RolesOK, Roles, Named, PermsOf

LEMMA SeedBuiltInRoleStep ==
    ASSUME RoleInv, SeedBuiltInRole
    PROVE  RoleInv'
<1> DEFINE n == BuiltIns[boot]
<1>1. /\ boot \in 1..Len(BuiltIns) /\ boot' = boot + 1
      /\ n \in Names /\ SeedPerms[n] \subseteq AllPermissions
      /\ ~Serving
      /\ UNCHANGED <<cache, edit, check>>
  <2>1. Len(BuiltIns) \in Nat
    BY ConstantsAssumption
  <2>2. QED
    BY <2>1, ConstantsAssumption DEF SeedBuiltInRole, Serving
<1>2. PICK i \in RoleIds :
         /\ IF Named(n) = {} THEN FreshId(i) ELSE i \in Named(n)
         /\ roles' = [roles EXCEPT ![i] = [name |-> n, perms |-> SeedPerms[n],
                                           builtin |-> TRUE]]
  BY DEF SeedBuiltInRole
<1>3. /\ \A m \in Names : cache[m] = None
      /\ \A o \in Edits : edit[o] = NoEdit
  BY <1>1 DEF RoleInv, Quiet
<1>4. RolesOK'
  <2>1. Len(BuiltIns) \in Nat
    BY ConstantsAssumption
  <2>2. \A j \in RoleIds : j # i /\ roles[j] # None => roles[j].name # n
    BY <1>2 DEF RoleInv, RolesOK, Named
  <2>3. roles' \in [RoleIds -> Roles \cup {None}]
    BY <1>1, <1>2 DEF RoleInv, RolesOK, Roles
  <2>4. QED
    BY <1>1, <1>2, <2>1, <2>2, <2>3 DEF RoleInv, RolesOK
<1>5. CacheOK' /\ EditsOK' /\ ChecksOK' /\ Quiet' /\ StaleOnlyByOverlap'
  BY <1>1, <1>3 DEF RoleInv, CacheOK, EditsOK, EditOK, ChecksOK, Quiet, StaleOnlyByOverlap
<1>6. \A o \in Edits : BuiltInOK(edit[o])'
  BY <1>1, <1>3 DEF BuiltInOK, NoEdit, Editing
<1>7. QED
  BY <1>4, <1>5, <1>6 DEF RoleInv

\* A request that changes only itself, and stays out of the cache's way.
LEMMA EditAlone ==
    ASSUME RoleInv, NEW o \in Edits, NEW new \in EditRecords,
           Serving, UNCHANGED <<roles, cache, check, boot>>,
           edit' = [edit EXCEPT ![o] = new],
           EditOK(new), BuiltInOK(new),
           edit[o].at \notin {"written", "clear"}
    PROVE  RoleInv'
<1>1. edit'[o] = new /\ \A p \in Edits : p # o => edit'[p] = edit[p]
  BY DEF RoleInv, EditsOK
<1>2. RolesOK' /\ CacheOK' /\ ChecksOK' /\ Quiet'
  BY DEF RoleInv, RolesOK, CacheOK, ChecksOK, Quiet, Serving
<1>3. EditsOK'
  BY <1>1 DEF RoleInv, EditsOK, EditOK
<1>4. \A p \in Edits : BuiltInOK(edit[p])'
  BY <1>1 DEF RoleInv, BuiltInOK
<1>5. StaleOnlyByOverlap'
  BY <1>1 DEF RoleInv, StaleOnlyByOverlap, PermsOf, Named
<1>6. QED
  BY <1>2, <1>3, <1>4, <1>5 DEF RoleInv

\* Requests are under way only while the server serves.
LEMMA EditServes ==
    ASSUME RoleInv, NEW o \in Edits, edit[o].at # "idle"
    PROVE  Serving
  BY DEF RoleInv, Quiet, NoEdit

LEMMA CheckServes ==
    ASSUME RoleInv, NEW f \in Checks, check[f].at # "idle"
    PROVE  Serving
  BY DEF RoleInv, Quiet, NoCheck

LEMMA NoEditFits == NoEdit \in EditRecords /\ EditOK(NoEdit) /\ BuiltInOK(NoEdit)
  BY DEF NoEdit, EditRecords, EditSteps, EditOK, BuiltInOK, Editing

LEMMA CreateRoleStep ==
    ASSUME RoleInv, NEW o \in Edits, CreateRole(o)
    PROVE  RoleInv'
<1>1. PICK n \in Names, perms \in SUBSET (AllPermissions \cup {Unknown}) :
         /\ validatePermissions(perms)
         /\ Begin(o, [NoEdit EXCEPT !.at = "insert",
                         !.role = [name |-> n, perms |-> perms, builtin |-> FALSE]])
  BY DEF CreateRole
<1> DEFINE new == [NoEdit EXCEPT !.at = "insert",
                      !.role = [name |-> n, perms |-> perms, builtin |-> FALSE]]
<1>2. [name |-> n, perms |-> perms, builtin |-> FALSE] \in Roles
  BY <1>1 DEF validatePermissions, Roles
<1>3. new \in EditRecords /\ EditOK(new) /\ BuiltInOK(new)
  BY <1>2, NoneAssumption DEF NoEdit, EditRecords, EditSteps, EditOK, BuiltInOK, Editing
<1>4. Serving /\ edit[o].at = "idle" /\ UNCHANGED <<roles, cache, check, boot>>
  BY <1>1 DEF CreateRole, Request, Begin, NoEdit
<1>5. edit' = [edit EXCEPT ![o] = new]
  BY <1>1 DEF Begin
<1> HIDE DEF new
<1>6. QED
  BY <1>3, <1>4, <1>5, EditAlone

LEMMA UpdateRoleStep ==
    ASSUME RoleInv, NEW o \in Edits, UpdateRole(o)
    PROVE  RoleInv'
<1>1. PICK i \in RoleIds, n \in Names, perms \in SUBSET (AllPermissions \cup {Unknown}) :
         /\ roles[i] # None
         /\ roles[i].builtin => n = roles[i].name
         /\ validatePermissions(perms)
         /\ Begin(o, [NoEdit EXCEPT
                         !.at = IF n = roles[i].name THEN "save" ELSE "lookup", !.id = i,
                         !.role = [name |-> n, perms |-> perms, builtin |-> roles[i].builtin]])
  BY DEF UpdateRole
<1> DEFINE row == [name |-> n, perms |-> perms, builtin |-> roles[i].builtin]
           new == [NoEdit EXCEPT
                      !.at = IF n = roles[i].name THEN "save" ELSE "lookup", !.id = i,
                      !.role = row]
<1>2. row \in Roles /\ row.name = n /\ row.builtin = roles[i].builtin /\ roles[i].builtin \in BOOLEAN
  BY <1>1 DEF validatePermissions, Roles, RoleInv, RolesOK
<1>3. edit' = [edit EXCEPT ![o] = new]
  BY <1>1 DEF Begin
<1> HIDE DEF row
<1>4. /\ new.at \in {"save", "lookup"} /\ new.id = i /\ new.role = row /\ new.todo = {}
      /\ new \in EditRecords
  BY <1>2 DEF NoEdit, EditRecords, EditSteps
<1> HIDE DEF new
<1>5. EditOK(new)
  BY <1>2, <1>4, NoneAssumption DEF EditOK
<1>6. BuiltInOK(new)
  BY <1>1, <1>2, <1>4 DEF BuiltInOK, Editing
<1>7. Serving /\ edit[o].at = "idle" /\ UNCHANGED <<roles, cache, check, boot>>
  BY <1>1 DEF UpdateRole, Request, Begin, NoEdit
<1>8. QED
  BY <1>3, <1>4, <1>5, <1>6, <1>7, EditAlone

LEMMA LookupNameStep ==
    ASSUME RoleInv, NEW o \in Edits, LookupName(o)
    PROVE  RoleInv'
<1> DEFINE new == [edit[o] EXCEPT !.at = "save"]
<1>1. edit[o].at = "lookup" /\ UNCHANGED <<roles, cache, check, boot>>
  BY DEF LookupName
<1>2. edit' = [edit EXCEPT ![o] = new]
  BY DEF LookupName
<1>3. /\ new \in EditRecords /\ new.at = "save" /\ new.id = edit[o].id
      /\ new.role = edit[o].role /\ new.todo = edit[o].todo
  BY DEF RoleInv, EditsOK, EditRecords, EditSteps
<1> HIDE DEF new
<1>4. EditOK(new)
  BY <1>1, <1>3 DEF RoleInv, EditsOK, EditOK
<1>5. BuiltInOK(new)
  BY <1>1, <1>3 DEF RoleInv, BuiltInOK, Editing
<1>6. QED
  BY <1>1, <1>2, <1>3, <1>4, <1>5, EditAlone, EditServes

LEMMA FindRoleStep ==
    ASSUME RoleInv, NEW o \in Edits, FindRole(o)
    PROVE  RoleInv'
<1>1. PICK i \in RoleIds :
         /\ roles[i] # None
         /\ ~roles[i].builtin
         /\ Begin(o, [NoEdit EXCEPT !.at = "delete", !.id = i, !.role = roles[i]])
  BY DEF FindRole
<1> DEFINE new == [NoEdit EXCEPT !.at = "delete", !.id = i, !.role = roles[i]]
<1>2. new \in EditRecords /\ EditOK(new) /\ BuiltInOK(new)
  BY <1>1 DEF NoEdit, EditRecords, EditSteps, EditOK, BuiltInOK, Editing, RoleInv, RolesOK
<1>3. Serving /\ edit[o].at = "idle" /\ UNCHANGED <<roles, cache, check, boot>>
  BY <1>1 DEF FindRole, Request, Begin, NoEdit
<1>4. edit' = [edit EXCEPT ![o] = new]
  BY <1>1 DEF Begin
<1> HIDE DEF new
<1>5. QED
  BY <1>2, <1>3, <1>4, EditAlone

LEMMA RefuseStep ==
    ASSUME RoleInv, NEW o \in Edits, Refuse(o)
    PROVE  RoleInv'
<1>1. /\ edit[o].at \in {"lookup", "insert", "save", "delete"}
      /\ edit' = [edit EXCEPT ![o] = NoEdit]
      /\ UNCHANGED <<roles, cache, check, boot>>
  BY DEF Refuse
<1>2. QED
  BY <1>1, NoEditFits, EditAlone, EditServes

\* Whoever writes the table has still to clear the cache: an entry may be stale.
LEMMA TableWritten ==
    ASSUME RoleInv, NEW o \in Edits, edit[o].at \in {"insert", "save", "delete"},
           edit' = [edit EXCEPT ![o].at = "written"],
           UNCHANGED <<cache, check, boot>>,
           RolesOK',
           \A p \in Edits : p # o => BuiltInOK(edit[p])'
    PROVE  RoleInv'
<1> DEFINE new == [edit[o] EXCEPT !.at = "written"]
<1>1. /\ new \in EditRecords /\ new.at = "written" /\ new.id = edit[o].id
      /\ new.role = edit[o].role /\ new.todo = edit[o].todo
  BY DEF RoleInv, EditsOK, EditRecords, EditSteps
<1>2. edit' = [edit EXCEPT ![o] = new]
  OBVIOUS
<1> HIDE DEF new
<1>3. edit'[o] = new /\ \A p \in Edits : p # o => edit'[p] = edit[p]
  BY <1>2 DEF RoleInv, EditsOK
<1>4. CacheOK' /\ ChecksOK' /\ Quiet'
  BY EditServes DEF RoleInv, CacheOK, ChecksOK, Quiet, Serving
<1>5. EditOK(new)
  BY <1>1 DEF RoleInv, EditsOK, EditOK
<1>6. EditsOK'
  <2>1. edit' \in [Edits -> EditRecords]
    BY <1>1, <1>2 DEF RoleInv, EditsOK
  <2>2. \A p \in Edits : EditOK(edit[p])'
    BY <1>3, <1>5 DEF RoleInv, EditsOK, EditOK
  <2>3. QED
    BY <2>1, <2>2 DEF EditsOK
<1>7. \A p \in Edits : BuiltInOK(edit[p])'
  BY <1>1, <1>3 DEF BuiltInOK, Editing
<1>8. StaleOnlyByOverlap'
  BY <1>1, <1>3 DEF StaleOnlyByOverlap
<1>9. QED
  BY <1>4, <1>6, <1>7, <1>8 DEF RoleInv

LEMMA InsertRoleStep ==
    ASSUME RoleInv, NEW o \in Edits, InsertRole(o)
    PROVE  RoleInv'
<1> DEFINE row == edit[o].role
<1>1. /\ edit[o].at = "insert" /\ ~Taken(row.name, None)
      /\ edit' = [edit EXCEPT ![o].at = "written"]
      /\ UNCHANGED <<cache, check, boot>>
  BY DEF InsertRole
<1>2. row \in Roles /\ ~row.builtin
  BY <1>1 DEF RoleInv, EditsOK, EditOK, BuiltInOK
<1>3. PICK i \in RoleIds : FreshId(i) /\ roles' = [roles EXCEPT ![i] = row]
  BY DEF InsertRole
<1>4. \A j \in RoleIds : roles[j] # None => roles[j].name # row.name
  BY <1>1, ConstantsAssumption DEF Taken, Named
<1>5. RolesOK'
  BY <1>1, <1>2, <1>3, <1>4 DEF RoleInv, RolesOK
<1>6. ASSUME NEW p \in Edits, p # o
      PROVE  BuiltInOK(edit[p])'
  <2>1. edit'[p] = edit[p] /\ edit[p].id # i
    BY <1>1, <1>3, <1>6 DEF RoleInv, EditsOK, FreshId
  <2>2. edit[p].at \in Editing => roles'[edit[p].id] = roles[edit[p].id]
    BY <1>3, <2>1 DEF RoleInv, RolesOK, EditsOK, EditOK, Editing
  <2>3. BuiltInOK(edit[p])
    BY DEF RoleInv
  <2>4. QED
    BY <2>1, <2>2, <2>3 DEF BuiltInOK
<1>7. QED
  BY <1>1, <1>5, <1>6, TableWritten

\* Requests that have read the same built-in row write the same name.
LEMMA SaveRoleStep ==
    ASSUME RoleInv, NEW o \in Edits, SaveRole(o)
    PROVE  RoleInv'
<1> DEFINE row == edit[o].role
           i == edit[o].id
<1>1. /\ edit[o].at = "save" /\ ~Taken(row.name, i)
      /\ edit' = [edit EXCEPT ![o].at = "written"]
      /\ roles' = [roles EXCEPT ![i] = row]
      /\ UNCHANGED <<cache, check, boot>>
  BY DEF SaveRole
<1>2. row \in Roles /\ i \in RoleIds /\ BuiltInOK(edit[o])
  BY <1>1 DEF RoleInv, EditsOK, EditOK
<1>3. \A j \in RoleIds : j # i /\ roles[j] # None => roles[j].name # row.name
  BY <1>1 DEF Taken, Named
<1>4. RolesOK'
  BY <1>1, <1>2, <1>3 DEF RoleInv, RolesOK
<1>5. ASSUME NEW p \in Edits, p # o
      PROVE  BuiltInOK(edit[p])'
  <2>1. edit'[p] = edit[p] /\ BuiltInOK(edit[p]) /\ EditOK(edit[p])
    BY <1>1, <1>5 DEF RoleInv, EditsOK
  <2>2. CASE edit[p].at \notin Editing
    BY <2>1, <2>2 DEF BuiltInOK
  <2>3. CASE edit[p].at \in Editing /\ edit[p].id # i
    <3>1. roles'[edit[p].id] = roles[edit[p].id]
      BY <1>1, <1>2, <2>1, <2>3 DEF RoleInv, RolesOK, EditOK, Editing
    <3>2. QED
      BY <2>1, <3>1 DEF BuiltInOK
  <2>4. CASE edit[p].at \in Editing /\ edit[p].id = i
    <3>1. roles'[i] = row /\ row # None
      BY <1>1, <1>2, NoneAssumption DEF RoleInv, RolesOK
    <3>2. CASE row.builtin
      BY <1>1, <1>2, <2>1, <2>4, <3>1, <3>2 DEF BuiltInOK, Editing
    <3>3. CASE ~row.builtin
      BY <1>1, <1>2, <2>1, <2>4, <3>1, <3>3 DEF BuiltInOK, Editing
    <3>4. QED
      BY <3>2, <3>3
  <2>5. QED
    BY <2>2, <2>3, <2>4
<1>6. QED
  BY <1>1, <1>4, <1>5, TableWritten

LEMMA DeleteRoleStep ==
    ASSUME RoleInv, NEW o \in Edits, DeleteRole(o)
    PROVE  RoleInv'
<1> DEFINE i == edit[o].id
<1>1. /\ edit[o].at = "delete"
      /\ edit' = [edit EXCEPT ![o].at = "written"]
      /\ roles' = [roles EXCEPT ![i] = None]
      /\ UNCHANGED <<cache, check, boot>>
  BY DEF DeleteRole
<1>2. i \in RoleIds /\ ~(roles[i] # None /\ roles[i].builtin)
  BY <1>1 DEF RoleInv, EditsOK, EditOK, BuiltInOK, Editing
<1>3. RolesOK'
  BY <1>1, <1>2 DEF RoleInv, RolesOK
<1>4. ASSUME NEW p \in Edits, p # o
      PROVE  BuiltInOK(edit[p])'
  <2>1. edit'[p] = edit[p] /\ BuiltInOK(edit[p]) /\ EditOK(edit[p])
    BY <1>1, <1>4 DEF RoleInv, EditsOK
  <2>2. edit[p].at \in Editing =>
           roles'[edit[p].id] = IF edit[p].id = i THEN None ELSE roles[edit[p].id]
    BY <1>1, <1>2, <2>1 DEF RoleInv, RolesOK, EditOK, Editing
  <2>3. QED
    BY <1>2, <2>1, <2>2 DEF BuiltInOK
<1>5. QED
  BY <1>1, <1>3, <1>4, TableWritten

\* ClearCache leaves no entry out that is there when it begins.
LEMMA ClearCacheStep ==
    ASSUME RoleInv, NEW o \in Edits, ClearCache(o)
    PROVE  RoleInv'
<1> DEFINE todo == {n \in Names : cache[n] # None}
           new == [edit[o] EXCEPT !.at = "clear", !.todo = todo]
<1>1. edit[o].at = "written" /\ UNCHANGED <<roles, cache, check, boot>>
  BY DEF ClearCache
<1>2. edit' = [edit EXCEPT ![o] = new]
  BY DEF ClearCache
<1>3. todo \subseteq Names
  OBVIOUS
<1> HIDE DEF todo
<1>4. /\ new \in EditRecords /\ new.at = "clear" /\ new.id = edit[o].id
      /\ new.role = edit[o].role /\ new.todo = todo
  BY <1>3 DEF RoleInv, EditsOK, EditRecords, EditSteps
<1> HIDE DEF new
<1>5. edit'[o] = new /\ \A p \in Edits : p # o => edit'[p] = edit[p]
  BY <1>2 DEF RoleInv, EditsOK
<1>6. RolesOK' /\ CacheOK' /\ ChecksOK' /\ Quiet'
  BY <1>1, EditServes DEF RoleInv, RolesOK, CacheOK, ChecksOK, Quiet, Serving
<1>7. EditsOK'
  <2>1. edit' \in [Edits -> EditRecords]
    BY <1>2, <1>4 DEF RoleInv, EditsOK
  <2>2. \A p \in Edits : EditOK(edit[p])'
    BY <1>1, <1>3, <1>4, <1>5 DEF RoleInv, EditsOK, EditOK
  <2>3. QED
    BY <2>1, <2>2 DEF EditsOK
<1>8. \A p \in Edits : BuiltInOK(edit[p])'
  BY <1>1, <1>4, <1>5 DEF RoleInv, BuiltInOK, Editing
<1>9. StaleOnlyByOverlap'
  <2>1. \A n \in Names : cache[n] # None => n \in edit'[o].todo /\ edit'[o].at = "clear"
    BY <1>4, <1>5 DEF todo
  <2>2. QED
    BY <1>1, <2>1 DEF StaleOnlyByOverlap
<1>10. QED
  BY <1>6, <1>7, <1>8, <1>9 DEF RoleInv

LEMMA ClearEntryStep ==
    ASSUME RoleInv, NEW o \in Edits, ClearEntry(o)
    PROVE  RoleInv'
<1>1. PICK n \in Names :
         /\ cache' = [cache EXCEPT ![n] = None]
         /\ edit' = [edit EXCEPT ![o].todo = @ \ {n}]
  BY DEF ClearEntry
<1> DEFINE new == [edit[o] EXCEPT !.todo = @ \ {n}]
<1>2. edit[o].at = "clear" /\ UNCHANGED <<roles, check, boot>>
  BY DEF ClearEntry
<1>3. edit' = [edit EXCEPT ![o] = new]
  BY <1>1
<1>4. /\ new \in EditRecords /\ new.at = "clear" /\ new.id = edit[o].id
      /\ new.role = edit[o].role /\ new.todo = edit[o].todo \ {n}
  BY <1>2 DEF RoleInv, EditsOK, EditRecords, EditSteps
<1> HIDE DEF new
<1>5. edit'[o] = new /\ \A p \in Edits : p # o => edit'[p] = edit[p]
  BY <1>3 DEF RoleInv, EditsOK
<1>6. /\ cache'[n] = None /\ \A m \in Names : m # n => cache'[m] = cache[m]
      /\ cache' = [m \in Names |-> cache'[m]]
  BY <1>1 DEF RoleInv, CacheOK
<1>7. RolesOK' /\ CacheOK' /\ ChecksOK' /\ Quiet'
  <2>1. Serving /\ Serving'
    BY <1>2, EditServes DEF Serving
  <2>2. QED
    BY <1>2, <1>6, <2>1 DEF RoleInv, RolesOK, CacheOK, ChecksOK, Quiet
<1>8. EditsOK'
  <2>1. edit' \in [Edits -> EditRecords]
    BY <1>3, <1>4 DEF RoleInv, EditsOK
  <2>2. \A p \in Edits : EditOK(edit[p])'
    BY <1>2, <1>4, <1>5 DEF RoleInv, EditsOK, EditOK
  <2>3. QED
    BY <2>1, <2>2 DEF EditsOK
<1>9. \A p \in Edits : BuiltInOK(edit[p])'
  BY <1>2, <1>4, <1>5 DEF RoleInv, BuiltInOK, Editing
<1>10. StaleOnlyByOverlap'
  BY <1>2, <1>4, <1>5, <1>6 DEF RoleInv, StaleOnlyByOverlap, PermsOf, Named
<1>11. QED
  BY <1>7, <1>8, <1>9, <1>10 DEF RoleInv

LEMMA ClearedStep ==
    ASSUME RoleInv, NEW o \in Edits, Cleared(o)
    PROVE  RoleInv'
<1>1. /\ edit[o].at = "clear" /\ edit[o].todo = {}
      /\ edit' = [edit EXCEPT ![o] = NoEdit]
      /\ UNCHANGED <<roles, cache, check, boot>>
  BY DEF Cleared
<1>2. edit'[o] = NoEdit /\ \A p \in Edits : p # o => edit'[p] = edit[p]
  BY <1>1 DEF RoleInv, EditsOK
<1>3. RolesOK' /\ CacheOK' /\ ChecksOK' /\ Quiet'
  BY <1>1, EditServes DEF RoleInv, RolesOK, CacheOK, ChecksOK, Quiet, Serving
<1>4. EditsOK' /\ \A p \in Edits : BuiltInOK(edit[p])'
  BY <1>1, <1>2, NoEditFits DEF RoleInv, EditsOK, EditOK, BuiltInOK
<1>5. StaleOnlyByOverlap'
  BY <1>1, <1>2 DEF RoleInv, StaleOnlyByOverlap, PermsOf, Named
<1>6. QED
  BY <1>3, <1>4, <1>5 DEF RoleInv

LEMMA LoadOrQueryStep ==
    ASSUME RoleInv, NEW f \in Checks, LoadPermissions(f) \/ QueryRole(f)
    PROVE  RoleInv'
<1>1. UNCHANGED <<roles, cache, edit, boot>>
  BY DEF LoadPermissions, QueryRole
<1>2. ChecksOK'
  <2>1. CASE LoadPermissions(f)
    <3>1. PICK n \in Names :
             check' = [check EXCEPT ![f] = [NoCheck EXCEPT !.at = "query", !.name = n]]
      BY <2>1 DEF LoadPermissions
    <3> DEFINE new == [NoCheck EXCEPT !.at = "query", !.name = n]
    <3>2. new \in CheckRecords /\ new.name \in Names
      BY DEF NoCheck, CheckRecords
    <3>3. check' = [check EXCEPT ![f] = new]
      BY <3>1
    <3> HIDE DEF new
    <3>4. QED
      BY <3>2, <3>3 DEF RoleInv, ChecksOK
  <2>2. CASE check' = [check EXCEPT ![f] = NoCheck]
    <3>1. NoCheck \in CheckRecords /\ NoCheck.at = "idle"
      BY DEF NoCheck, CheckRecords
    <3>2. QED
      BY <2>2, <3>1 DEF RoleInv, ChecksOK
  <2>3. CASE /\ check[f].at = "query" /\ Named(check[f].name) # {}
             /\ check' = [check EXCEPT ![f].at = "store",
                                       ![f].perms = PermsOf(check[f].name)]
    <3> DEFINE new == [check[f] EXCEPT !.at = "store", !.perms = PermsOf(check[f].name)]
    <3>1. check[f].name \in Names
      BY <2>3 DEF RoleInv, ChecksOK
    <3>2. PermsOf(check[f].name) \subseteq AllPermissions
      BY <2>3, <3>1, PermsType DEF RoleInv
    <3>3. new \in CheckRecords /\ new.name \in Names
      BY <3>1, <3>2 DEF RoleInv, ChecksOK, CheckRecords
    <3>4. check' = [check EXCEPT ![f] = new]
      BY <2>3
    <3> HIDE DEF new
    <3>5. QED
      BY <3>3, <3>4 DEF RoleInv, ChecksOK
  <2>4. QED
    BY <2>1, <2>2, <2>3 DEF QueryRole
<1>3. Serving
  BY CheckServes DEF LoadPermissions, QueryRole, Request
<1>4. QED
  BY <1>1, <1>2, <1>3
  DEF RoleInv, RolesOK, CacheOK, EditsOK, EditOK, Quiet, BuiltInOK, StaleOnlyByOverlap,
      Serving, PermsOf, Named

LEMMA StorePermissionsStep ==
    ASSUME RoleInv, NEW f \in Checks, StorePermissions(f)
    PROVE  RoleInv'
<1> DEFINE n == check[f].name
           entry == [perms |-> check[f].perms, late |-> check[f].perms # PermsOf(n)]
<1>1. /\ n \in Names /\ check[f].perms \subseteq AllPermissions
      /\ check' = [check EXCEPT ![f] = NoCheck]
      /\ UNCHANGED <<roles, edit, boot>>
      /\ check[f].at = "store"
  BY DEF StorePermissions, RoleInv, ChecksOK, CheckRecords
<1>2. cache' = [cache EXCEPT ![n] = entry]
  BY DEF StorePermissions
<1>3. entry.perms = check[f].perms /\ entry.late \in BOOLEAN
  OBVIOUS
<1>4. entry.late \/ entry.perms = PermsOf(n)
  BY <1>3
<1> HIDE DEF entry
<1>5. /\ cache'[n] = entry /\ \A m \in Names : m # n => cache'[m] = cache[m]
      /\ cache' = [m \in Names |-> cache'[m]]
  BY <1>1, <1>2 DEF RoleInv, CacheOK
<1>6. CacheOK'
  BY <1>1, <1>3, <1>5 DEF RoleInv, CacheOK
<1>7. ChecksOK'
  BY <1>1 DEF RoleInv, ChecksOK, CheckRecords, NoCheck
<1>8. StaleOnlyByOverlap'
  <2>1. \A m \in Names : PermsOf(m)' = PermsOf(m)
    BY <1>1 DEF PermsOf, Named
  <2>2. QED
    BY <1>1, <1>4, <1>5, <2>1 DEF RoleInv, StaleOnlyByOverlap
<1>9. RolesOK' /\ EditsOK' /\ Quiet' /\ \A o \in Edits : BuiltInOK(edit[o])'
  BY <1>1, CheckServes DEF RoleInv, RolesOK, EditsOK, EditOK, Quiet, BuiltInOK, Serving
<1>10. QED
  BY <1>6, <1>7, <1>8, <1>9 DEF RoleInv

\* The server is started, or starts again: there is no cache and no request.
LEMMA StartSteps ==
    ASSUME RoleInv, SeedDefaultAdmin \/ SeedFails \/ Restart
    PROVE  RoleInv'
<1>1. Len(BuiltIns) \in Nat
  BY ConstantsAssumption
<1>2. CASE SeedDefaultAdmin \/ SeedFails
  <2>1. UNCHANGED roleVars /\ ~Serving /\ boot' \in 0..Len(BuiltIns) + 1
    BY <1>1, <1>2 DEF RoleInv, RolesOK, SeedDefaultAdmin, SeedFails, Serving
  <2>2. QED
    BY <2>1
    DEF RoleInv, RolesOK, CacheOK, EditsOK, EditOK, ChecksOK, Quiet, BuiltInOK,
        StaleOnlyByOverlap, roleVars, PermsOf, Named
<1>3. CASE Restart
  <2>1. /\ cache' = [n \in Names |-> None]
        /\ edit' = [o \in Edits |-> NoEdit]
        /\ check' = [f \in Checks |-> NoCheck]
        /\ boot' = 0 /\ roles' = roles
    BY <1>3 DEF Restart
  <2>2. RolesOK' /\ CacheOK' /\ ChecksOK' /\ Quiet' /\ StaleOnlyByOverlap'
    BY <1>1, <2>1
    DEF RoleInv, RolesOK, CacheOK, ChecksOK, CheckRecords, NoCheck, Quiet, StaleOnlyByOverlap
  <2>3. EditsOK'
    BY <2>1, NoEditFits DEF EditsOK, EditOK
  <2>4. \A o \in Edits : BuiltInOK(edit[o])'
    BY <2>1 DEF BuiltInOK, NoEdit, Editing
  <2>5. QED
    BY <2>2, <2>3, <2>4 DEF RoleInv
<1>4. QED
  BY <1>2, <1>3

\* Every step that concerns roles.
LEMMA RoleSteps == RoleInv /\ [Next]_vars => RoleInv'
<1> SUFFICES ASSUME RoleInv, [Next]_vars PROVE RoleInv'
  OBVIOUS
<1>1. CASE UNCHANGED <<roleVars, boot>>
  BY <1>1, SameRoles
<1>2. ASSUME NEW o \in Edits,
             \/ CreateRole(o) \/ InsertRole(o)
             \/ UpdateRole(o) \/ LookupName(o) \/ SaveRole(o)
             \/ FindRole(o) \/ DeleteRole(o) \/ Refuse(o)
             \/ ClearCache(o) \/ ClearEntry(o) \/ Cleared(o)
      PROVE  RoleInv'
  BY <1>2, CreateRoleStep, InsertRoleStep, UpdateRoleStep, LookupNameStep, SaveRoleStep,
     FindRoleStep, DeleteRoleStep, RefuseStep, ClearCacheStep, ClearEntryStep, ClearedStep
<1>3. ASSUME NEW f \in Checks, LoadPermissions(f) \/ QueryRole(f) \/ StorePermissions(f)
      PROVE  RoleInv'
  BY <1>3, LoadOrQueryStep, StorePermissionsStep
<1>4. ASSUME NEW w \in Works,
             \/ CreateUser(w) \/ InsertUser(w)
             \/ ToggleActive(w) \/ ResetPassword(w) \/ ChangeRole(w) \/ ChangePassword(w)
             \/ SaveUser(w) \/ RevokeAll(w) \/ RevokeFails(w)
             \/ Login(w) \/ IssueToken(w) \/ FindToken(w) \/ RevokeToken(w) \/ LoadUser(w)
             \/ HandleCallback(w) \/ Deny(w)
      PROVE  UNCHANGED <<roleVars, boot>>
  BY <1>4
  DEF CreateUser, InsertUser, ToggleActive, ResetPassword, ChangeRole, ChangePassword, SaveUser,
      RevokeAll, RevokeFails, Login, IssueToken, FindToken, RevokeToken, LoadUser,
      HandleCallback, Deny, Edit
<1>5. CASE UNCHANGED vars
  BY <1>1, <1>5 DEF vars
<1>6. QED
  BY <1>1, <1>2, <1>3, <1>4, <1>5, SeedBuiltInRoleStep, StartSteps DEF Next

-----------------------------------------------------------------------------
(* Users and sessions. *)

\* A request that changes only itself, and has no sessions to revoke.
LEMMA WorkAlone ==
    ASSUME UserInv, NEW w \in Works, NEW new \in WorkRecords,
           UNCHANGED <<users, tokens>>,
           work' = [work EXCEPT ![w] = new], WorkOK(new),
           work[w].at # "revoke"
    PROVE  UserInv'
<1>1. work'[w] = new /\ \A v \in Works : v # w => work'[v] = work[v]
  BY DEF UserInv
<1>2. work' \in [Works -> WorkRecords]
  BY DEF UserInv
<1>3. \A v \in Works : WorkOK(work[v])'
  BY <1>1 DEF UserInv, WorkOK
<1>4. TokensOK' /\ users' \in [Users -> Rows \cup {None}]
  BY DEF UserInv, TokensOK
<1>5. SessionsCurrent'
  BY <1>1 DEF UserInv, SessionsCurrent
<1>6. QED
  BY <1>2, <1>3, <1>4, <1>5 DEF UserInv

LEMMA NoWorkFits == NoWork \in WorkRecords /\ WorkOK(NoWork)
  BY DEF NoWork, WorkRecords, WorkSteps, WorkOK

\* A request begins with the row it has read.
LEMMA EditUser ==
    ASSUME UserInv, NEW w \in Works, NEW u \in Users, NEW row \in Rows,
           NEW at \in {"save", "enable", "bind", "issue"}, Edit(w, u, at, row)
    PROVE  UserInv'
<1> DEFINE new == [NoWork EXCEPT !.at = at, !.user = u, !.row = row]
<1>1. new.at = at /\ new.user = u /\ new.row = row /\ new \in WorkRecords
  BY DEF NoWork, WorkRecords, WorkSteps
<1>2. work' = [work EXCEPT ![w] = new]
  BY DEF Edit, Start
<1> HIDE DEF new
<1>3. /\ users[u] # None /\ UNCHANGED <<users, tokens>>
      /\ work[w].at = "idle"
  BY DEF Edit, Start, NoWork
<1>4. WorkOK(new)
  BY <1>1, <1>3 DEF WorkOK
<1>5. QED
  BY <1>1, <1>2, <1>3, <1>4, WorkAlone

LEMMA UserSaved ==
    ASSUME UserInv, NEW u \in Users, users[u] # None
    PROVE  /\ users[u] \in Rows
           /\ \A n \in Names : [users[u] EXCEPT !.role = n] \in Rows
           /\ \A p \in Passwords : [users[u] EXCEPT !.password = p] \in Rows
           /\ [users[u] EXCEPT !.active = ~users[u].active] \in Rows
<1>1. users[u] \in Rows
  BY DEF UserInv
<1>2. /\ \A n \in Names : [users[u] EXCEPT !.role = n] \in Rows
      /\ \A p \in Passwords : [users[u] EXCEPT !.password = p] \in Rows
  BY <1>1 DEF Rows
<1> DEFINE flag == ~users[u].active
<1>3. flag \in BOOLEAN
  OBVIOUS
<1> HIDE DEF flag
<1>4. [users[u] EXCEPT !.active = flag] \in Rows
  BY <1>1, <1>3 DEF Rows
<1>5. QED
  BY <1>1, <1>2, <1>4 DEF flag

LEMMA EditorSteps ==
    ASSUME UserInv, NEW w \in Works,
           ToggleActive(w) \/ ResetPassword(w) \/ ChangeRole(w) \/ ChangePassword(w) \/ Login(w)
    PROVE  UserInv'
<1>1. CASE ToggleActive(w)
  <2>1. PICK u \in Users :
           Edit(w, u, IF users[u].active THEN "save" ELSE "enable",
                [users[u] EXCEPT !.active = ~users[u].active])
    BY <1>1 DEF ToggleActive
  <2> DEFINE at == IF users[u].active THEN "save" ELSE "enable"
             row == [users[u] EXCEPT !.active = ~users[u].active]
  <2>2. at \in {"save", "enable", "bind", "issue"}
    OBVIOUS
  <2>3. row \in Rows
    BY <2>1, UserSaved DEF Edit
  <2>4. Edit(w, u, at, row)
    BY <2>1
  <2> HIDE DEF at, row
  <2>5. QED
    BY <2>2, <2>3, <2>4, EditUser
<1>2. CASE ResetPassword(w)
  <2>1. PICK u \in Users, p \in Passwords : Edit(w, u, "save", [users[u] EXCEPT !.password = p])
    BY <1>2 DEF ResetPassword
  <2> DEFINE row == [users[u] EXCEPT !.password = p]
  <2>2. row \in Rows
    BY <2>1, UserSaved DEF Edit
  <2>3. Edit(w, u, "save", row)
    BY <2>1
  <2> HIDE DEF row
  <2>4. QED
    BY <2>2, <2>3, EditUser
<1>3. CASE ChangeRole(w)
  <2>1. PICK u \in Users, n \in Names : Edit(w, u, "save", [users[u] EXCEPT !.role = n])
    BY <1>3 DEF ChangeRole
  <2> DEFINE row == [users[u] EXCEPT !.role = n]
  <2>2. row \in Rows
    BY <2>1, UserSaved DEF Edit
  <2>3. Edit(w, u, "save", row)
    BY <2>1
  <2> HIDE DEF row
  <2>4. QED
    BY <2>2, <2>3, EditUser
<1>4. CASE ChangePassword(w)
  <2>1. PICK u \in Users, p \in Passwords : Edit(w, u, "save", [users[u] EXCEPT !.password = p])
    BY <1>4 DEF ChangePassword
  <2> DEFINE row == [users[u] EXCEPT !.password = p]
  <2>2. row \in Rows
    BY <2>1, UserSaved DEF Edit
  <2>3. Edit(w, u, "save", row)
    BY <2>1
  <2> HIDE DEF row
  <2>4. QED
    BY <2>2, <2>3, EditUser
<1>5. CASE Login(w)
  <2>1. PICK u \in Users : Edit(w, u, "issue", users[u])
    BY <1>5 DEF Login
  <2>2. users[u] \in Rows
    BY <2>1, UserSaved DEF Edit
  <2>3. QED
    BY <2>1, <2>2, EditUser
<1>6. QED
  BY <1>1, <1>2, <1>3, <1>4, <1>5

LEMMA CreateUserStep ==
    ASSUME UserInv, NEW w \in Works, CreateUser(w)
    PROVE  UserInv'
<1>1. PICK u \in Users, n \in Names, p \in Passwords :
         Start(w, [NoWork EXCEPT !.at = "insert", !.user = u,
                      !.row = [role |-> n, password |-> p, active |-> TRUE]])
  BY DEF CreateUser
<1> DEFINE row == [role |-> n, password |-> p, active |-> TRUE]
           new == [NoWork EXCEPT !.at = "insert", !.user = u, !.row = row]
<1>2. row \in Rows
  BY DEF Rows
<1>3. work' = [work EXCEPT ![w] = new]
  BY <1>1 DEF Start
<1>4. work[w].at = "idle" /\ UNCHANGED <<users, tokens>>
  BY <1>1 DEF CreateUser, Start, NoWork
<1> HIDE DEF row
<1>5. new \in WorkRecords /\ WorkOK(new)
  BY <1>2 DEF NoWork, WorkRecords, WorkSteps, WorkOK
<1> HIDE DEF new
<1>6. QED
  BY <1>3, <1>4, <1>5, WorkAlone

LEMMA HandleCallbackStep ==
    ASSUME UserInv, NEW w \in Works, HandleCallback(w)
    PROVE  UserInv'
<1>1. CASE \E u \in Users : Edit(w, u, "issue", users[u]) \/ Edit(w, u, "bind", users[u])
  BY <1>1, UserSaved, EditUser DEF Edit
<1>2. CASE \E u \in Users, n \in Names, p \in Passwords :
             /\ Start(w, [NoWork EXCEPT !.at = "join", !.user = u,
                             !.row = [role |-> n, password |-> p, active |-> TRUE]])
             /\ UNCHANGED <<users, tokens>>
  <2>1. PICK u \in Users, n \in Names, p \in Passwords :
           /\ Start(w, [NoWork EXCEPT !.at = "join", !.user = u,
                           !.row = [role |-> n, password |-> p, active |-> TRUE]])
           /\ UNCHANGED <<users, tokens>>
    BY <1>2
  <2> DEFINE row == [role |-> n, password |-> p, active |-> TRUE]
             new == [NoWork EXCEPT !.at = "join", !.user = u, !.row = row]
  <2>2. row \in Rows
    BY DEF Rows
  <2>3. work' = [work EXCEPT ![w] = new]
    BY <2>1 DEF Start
  <2>4. work[w].at = "idle" /\ UNCHANGED <<users, tokens>>
    BY <2>1 DEF Start, NoWork
  <2> HIDE DEF row
  <2>5. new \in WorkRecords /\ WorkOK(new)
    BY <2>2 DEF NoWork, WorkRecords, WorkSteps, WorkOK
  <2> HIDE DEF new
  <2>6. QED
    BY <2>3, <2>4, <2>5, WorkAlone
<1>3. QED
  BY <1>1, <1>2 DEF HandleCallback

LEMMA FindTokenStep ==
    ASSUME UserInv, NEW w \in Works, FindToken(w)
    PROVE  UserInv'
<1>1. PICK t \in Tokens, at \in {"rotate", "logout"} :
         /\ tokens[t] # None
         /\ Start(w, [NoWork EXCEPT !.at = at, !.user = tokens[t].user, !.token = t])
  BY DEF FindToken
<1> DEFINE new == [NoWork EXCEPT !.at = at, !.user = tokens[t].user, !.token = t]
<1>2. tokens[t].user \in Users /\ users[tokens[t].user] # None
  BY <1>1 DEF UserInv, TokensOK, Sessions
<1>3. work' = [work EXCEPT ![w] = new]
  BY <1>1 DEF Start
<1>4. work[w].at = "idle" /\ UNCHANGED <<users, tokens>>
  BY <1>1 DEF FindToken, Start, NoWork
<1>5. /\ new \in WorkRecords /\ new.at = at
      /\ new.user = tokens[t].user /\ new.token = t
  BY <1>2 DEF NoWork, WorkRecords, WorkSteps
<1> HIDE DEF new
<1>6. WorkOK(new)
  BY <1>1, <1>2, <1>5 DEF WorkOK
<1>7. QED
  BY <1>3, <1>4, <1>5, <1>6, WorkAlone

LEMMA LoadUserStep ==
    ASSUME UserInv, NEW w \in Works, LoadUser(w)
    PROVE  UserInv'
<1> DEFINE u == work[w].user
           new == [work[w] EXCEPT !.at = "issue", !.row = users[u]]
<1>1. work[w].at = "load" /\ UNCHANGED <<users, tokens>>
  BY DEF LoadUser
<1>2. u \in Users /\ users[u] # None
  BY <1>1 DEF UserInv, WorkOK
<1>3. users[u] \in Rows
  BY <1>2, UserSaved
<1>4. work' = [work EXCEPT ![w] = new]
  BY DEF LoadUser
<1>5. new \in WorkRecords /\ new.at = "issue" /\ new.user = u /\ new.row = users[u]
  BY <1>2, <1>3 DEF UserInv, WorkRecords, WorkSteps
<1> HIDE DEF new
<1>6. WorkOK(new)
  BY <1>2, <1>3, <1>5 DEF WorkOK
<1>7. QED
  BY <1>1, <1>4, <1>5, <1>6, WorkAlone

LEMMA DenyStep ==
    ASSUME UserInv, NEW w \in Works, Deny(w)
    PROVE  UserInv'
  BY NoWorkFits, WorkAlone DEF Deny

\* A request ends or goes on, and does not forget a revocation.
LEMMA WorkGoesOn ==
    ASSUME UserInv, NEW w \in Works, NEW new \in WorkRecords,
           work' = [work EXCEPT ![w] = new], WorkOK(work[w])',
           \A u \in Users : users[u] # None => users'[u] # None,
           \A t \in Tokens : tokens[t] # None => tokens'[t] # None
    PROVE  /\ work' \in [Works -> WorkRecords]
           /\ \A v \in Works : WorkOK(work[v])'
           /\ work'[w] = new /\ \A v \in Works : v # w => work'[v] = work[v]
<1>1. work'[w] = new /\ \A v \in Works : v # w => work'[v] = work[v]
  BY DEF UserInv
<1>2. work' \in [Works -> WorkRecords]
  BY DEF UserInv
<1>3. \A v \in Works : WorkOK(work[v])'
  BY <1>1 DEF UserInv, WorkOK
<1>4. QED
  BY <1>1, <1>2, <1>3

\* Sessions that are revoked, or outlive a change, are still those of their users.
LEMMA RevokedSessions ==
    ASSUME UserInv, NEW u \in Users, NEW new, new \in {Revoked(u), Outlive(u)}
    PROVE  /\ new \in [Tokens -> Sessions \cup {None}]
           /\ \A t \in Tokens : (tokens[t] = None <=> new[t] = None)
           /\ \A t \in Tokens : tokens[t] # None =>
                 /\ new[t].user = tokens[t].user /\ new[t].on = tokens[t].on
                 /\ tokens[t].user # u => new[t] = tokens[t]
                 /\ tokens[t].user = u => ~new[t].live \/ new[t].late
<1>1. \A t \in Tokens : tokens[t] # None => tokens[t] \in Sessions
  BY DEF UserInv, TokensOK
<1>2. ASSUME NEW s \in Sessions
      PROVE  /\ [s EXCEPT !.live = FALSE] \in Sessions /\ [s EXCEPT !.late = TRUE] \in Sessions
             /\ [s EXCEPT !.live = FALSE].user = s.user /\ [s EXCEPT !.late = TRUE].user = s.user
             /\ [s EXCEPT !.live = FALSE].on = s.on /\ [s EXCEPT !.late = TRUE].on = s.on
             /\ ~[s EXCEPT !.live = FALSE].live /\ [s EXCEPT !.late = TRUE].late
  BY DEF Sessions
<1>3. CASE new = Revoked(u)
  <2>1. ASSUME NEW t \in Tokens
        PROVE  new[t] = IF tokens[t] # None /\ tokens[t].user = u
                        THEN [tokens[t] EXCEPT !.live = FALSE] ELSE tokens[t]
    BY <1>3 DEF Revoked
  <2>2. new = [t \in Tokens |-> new[t]]
    BY <1>3 DEF Revoked
  <2>3. ASSUME NEW t \in Tokens, tokens[t] = None
        PROVE  new[t] = None
    BY <2>1, <2>3
  <2>4. ASSUME NEW t \in Tokens, tokens[t] # None
        PROVE  /\ new[t] \in Sessions /\ new[t] # None
               /\ new[t].user = tokens[t].user /\ new[t].on = tokens[t].on
               /\ tokens[t].user # u => new[t] = tokens[t]
               /\ tokens[t].user = u => ~new[t].live
    <3>1. CASE tokens[t].user = u
      <4> DEFINE s == [tokens[t] EXCEPT !.live = FALSE]
      <4>1. new[t] = s
        BY <2>1, <2>4, <3>1
      <4>2. tokens[t] \in Sessions
        BY <1>1, <2>4
      <4>3. /\ s \in Sessions /\ s.user = tokens[t].user /\ s.on = tokens[t].on
            /\ ~s.live
        BY <1>2, <4>2
      <4> HIDE DEF s
      <4>4. QED
        BY <3>1, <4>1, <4>3, NoneAssumption
    <3>2. CASE tokens[t].user # u
      BY <1>1, <2>1, <2>4, <3>2
    <3>3. QED
      BY <3>1, <3>2
  <2>5. QED
    BY <2>2, <2>3, <2>4
<1>4. CASE new = Outlive(u)
  BY <1>1, <1>2, <1>4, NoneAssumption DEF Outlive
<1>5. QED
  BY <1>3, <1>4

LEMMA SeedDefaultAdminUsers ==
    ASSUME UserInv, SeedDefaultAdmin
    PROVE  UserInv'
<1>1. CASE UNCHANGED users
  BY <1>1, SameUsers DEF SeedDefaultAdmin, userVars
<1> DEFINE row == [role |-> "admin", active |-> TRUE, password |-> DefaultPassword]
<1>2. CASE /\ \A u \in Users : users[u] = None
           /\ users' = [users EXCEPT ![Admin] = row]
  <2>1. row \in Rows
    BY ConstantsAssumption DEF Rows
  <2> HIDE DEF row
  <2>2. \A t \in Tokens : tokens[t] = None
    BY <1>2 DEF UserInv, TokensOK, Sessions
  <2>3. UNCHANGED <<tokens, work>> /\ users' \in [Users -> Rows \cup {None}]
    BY <1>2, <2>1 DEF UserInv, SeedDefaultAdmin
  <2>4. \A u \in Users : users[u] # None => users'[u] # None
    BY <1>2
  <2>5. QED
    BY <2>2, <2>3, <2>4 DEF UserInv, TokensOK, WorkOK, SessionsCurrent
<1>3. QED
  BY <1>1, <1>2 DEF SeedDefaultAdmin

\* A user that is new has no session.
LEMMA InsertUserStep ==
    ASSUME UserInv, NEW w \in Works, InsertUser(w)
    PROVE  UserInv'
<1> DEFINE u == work[w].user
           new == IF work[w].at = "insert" THEN NoWork ELSE [work[w] EXCEPT !.at = "issue"]
<1>1. /\ work[w].at \in {"insert", "join"}
      /\ users[u] = None
      /\ users' = [users EXCEPT ![u] = work[w].row]
      /\ UNCHANGED tokens
  BY DEF InsertUser
<1>2. u \in Users /\ work[w].row \in Rows
  BY <1>1 DEF UserInv, WorkOK
<1>3. /\ users'[u] = work[w].row /\ users'[u] # None
      /\ \A v \in Users : v # u => users'[v] = users[v]
      /\ users' \in [Users -> Rows \cup {None}]
  BY <1>1, <1>2, NoneAssumption DEF UserInv
<1>4. work' = [work EXCEPT ![w] = new]
  BY DEF InsertUser
<1>5. /\ new \in WorkRecords
      /\ new = NoWork \/ (new.at = "issue" /\ new.user = u /\ new.row = work[w].row)
  <2>1. CASE work[w].at = "insert"
    BY <2>1, NoWorkFits
  <2>2. CASE work[w].at = "join"
    BY <1>1, <2>2 DEF UserInv, WorkRecords, WorkSteps
  <2>3. QED
    BY <1>1, <2>1, <2>2
<1> HIDE DEF new
<1>6. WorkOK(work[w])'
  <2>1. work'[w] = new
    BY <1>4 DEF UserInv
  <2>2. QED
    BY <1>2, <1>3, <1>5, <2>1 DEF WorkOK, NoWork
<1>7. /\ work' \in [Works -> WorkRecords]
      /\ \A v \in Works : WorkOK(work[v])'
      /\ \A v \in Works : v # w => work'[v] = work[v]
  BY <1>1, <1>3, <1>4, <1>5, <1>6, WorkGoesOn
<1>8. \A t \in Tokens : tokens[t] # None => tokens[t].user \in Users \ {u}
  BY <1>1 DEF UserInv, TokensOK, Sessions
<1>9. TokensOK'
  BY <1>1, <1>3, <1>8 DEF UserInv, TokensOK
<1>10. SessionsCurrent'
  BY <1>1, <1>3, <1>7, <1>8 DEF UserInv, SessionsCurrent
<1>11. QED
  BY <1>3, <1>7, <1>9, <1>10 DEF UserInv

\* Whoever writes a user's row has still to revoke its sessions, or they outlive
\* the change, or nothing has changed.
LEMMA SaveUserStep ==
    ASSUME UserInv, NEW w \in Works, SaveUser(w)
    PROVE  UserInv'
<1> DEFINE u == work[w].user
           row == work[w].row
<1>1. /\ work[w].at \in {"save", "enable", "bind"}
      /\ users' = [users EXCEPT ![u] = row]
      /\ u \in Users /\ row \in Rows /\ users[u] # None
  BY DEF SaveUser, UserInv, WorkOK
<1>2. /\ users'[u] = row /\ users'[u] # None
      /\ \A v \in Users : v # u => users'[v] = users[v]
      /\ users' \in [Users -> Rows \cup {None}]
  BY <1>1, NoneAssumption DEF UserInv
<1> DEFINE new == CASE work[w].at = "save" -> [work[w] EXCEPT !.at = "revoke"]
                    [] work[w].at = "enable" -> NoWork
                    [] work[w].at = "bind" -> [work[w] EXCEPT !.at = "issue"]
<1>3. /\ new \in WorkRecords
      /\ \/ work[w].at = "save" /\ new.at = "revoke" /\ new.user = u
         \/ work[w].at = "enable" /\ new = NoWork
         \/ work[w].at = "bind" /\ new.at = "issue" /\ new.user = u /\ new.row = row
  <2>1. CASE work[w].at = "save"
    BY <2>1 DEF UserInv, WorkRecords, WorkSteps
  <2>2. CASE work[w].at = "enable"
    BY <2>2, NoWorkFits
  <2>3. CASE work[w].at = "bind"
    BY <2>3 DEF UserInv, WorkRecords, WorkSteps
  <2>4. QED
    BY <1>1, <2>1, <2>2, <2>3
<1>4. work' = [work EXCEPT ![w] = new]
  BY DEF SaveUser
<1> HIDE DEF new
<1>5. WorkOK(work[w])'
  <2>1. work'[w] = new
    BY <1>4 DEF UserInv
  <2>2. QED
    BY <1>1, <1>2, <1>3, <2>1 DEF WorkOK, NoWork
<1>6. \/ work[w].at = "save" /\ UNCHANGED tokens
      \/ work[w].at # "save" /\ users[u] = row /\ UNCHANGED tokens
      \/ work[w].at # "save" /\ tokens' = Outlive(u)
  BY DEF SaveUser
<1>7. /\ tokens' \in [Tokens -> Sessions \cup {None}]
      /\ \A t \in Tokens : (tokens[t] = None <=> tokens'[t] = None)
      /\ \A t \in Tokens : tokens[t] # None =>
            /\ tokens'[t].user = tokens[t].user /\ tokens'[t].on = tokens[t].on
            /\ tokens[t].user # u => tokens'[t] = tokens[t]
  <2>1. CASE UNCHANGED tokens
    BY <2>1 DEF UserInv, TokensOK
  <2>2. CASE tokens' = Outlive(u)
    BY <1>1, <2>2, RevokedSessions
  <2>3. QED
    BY <1>6, <2>1, <2>2
<1>8. /\ work' \in [Works -> WorkRecords]
      /\ \A v \in Works : WorkOK(work[v])'
      /\ work'[w] = new /\ \A v \in Works : v # w => work'[v] = work[v]
  <2>1. \A v \in Users : users[v] # None => users'[v] # None
    BY <1>2
  <2>2. QED
    BY <1>3, <1>4, <1>5, <1>7, <2>1, WorkGoesOn
<1>9. TokensOK'
  BY <1>2, <1>7 DEF UserInv, TokensOK, Sessions
<1>10. ASSUME NEW t \in Tokens, tokens'[t] # None
       PROVE  \/ ~tokens'[t].live
              \/ tokens'[t].late
              \/ tokens'[t].on = users'[tokens'[t].user]
              \/ \E v \in Works : work'[v].at = "revoke" /\ work'[v].user = tokens'[t].user
  <2>1. /\ tokens[t] # None /\ tokens'[t].user = tokens[t].user
        /\ tokens[t].user \in Users
    BY <1>7, <1>10 DEF UserInv, TokensOK, Sessions
  <2>2. \/ ~tokens[t].live
        \/ tokens[t].late
        \/ tokens[t].on = users[tokens[t].user]
        \/ \E v \in Works : work[v].at = "revoke" /\ work[v].user = tokens[t].user
    BY <2>1 DEF UserInv, SessionsCurrent
  <2>3. CASE tokens[t].user # u
    <3>1. tokens'[t] = tokens[t] /\ users'[tokens[t].user] = users[tokens[t].user]
      BY <1>2, <1>7, <2>1, <2>3
    <3>2. \A v \in Works : work[v].at = "revoke" => work'[v] = work[v]
      BY <1>1, <1>8
    <3>3. QED
      BY <2>2, <3>1, <3>2
  <2>4. CASE tokens[t].user = u /\ work[w].at = "save"
    BY <1>3, <1>8, <2>1, <2>4
  <2>5. CASE tokens[t].user = u /\ users[u] = row /\ UNCHANGED tokens
    <3>1. \A v \in Works : work[v].at = "revoke" => work'[v] = work[v]
      BY <1>1, <1>8
    <3>2. QED
      BY <1>2, <2>2, <2>5, <3>1
  <2>6. CASE tokens[t].user = u /\ tokens' = Outlive(u)
    BY <1>1, <2>1, <2>6 DEF Outlive, UserInv, TokensOK, Sessions
  <2>7. QED
    BY <1>6, <2>3, <2>4, <2>5, <2>6
<1>11. SessionsCurrent'
  BY <1>10 DEF SessionsCurrent
<1>12. QED
  BY <1>2, <1>8, <1>9, <1>11 DEF UserInv

LEMMA RevokeSteps ==
    ASSUME UserInv, NEW w \in Works, RevokeAll(w) \/ RevokeFails(w)
    PROVE  UserInv'
<1> DEFINE u == work[w].user
<1>1. /\ work[w].at = "revoke" /\ UNCHANGED users
      /\ work' = [work EXCEPT ![w] = NoWork]
      /\ tokens' = Revoked(u) \/ tokens' = Outlive(u)
      /\ u \in Users
  BY DEF RevokeAll, RevokeFails, UserInv, WorkOK
<1>2. /\ tokens' \in [Tokens -> Sessions \cup {None}]
      /\ \A t \in Tokens : (tokens[t] = None <=> tokens'[t] = None)
      /\ \A t \in Tokens : tokens[t] # None =>
            /\ tokens'[t].user = tokens[t].user /\ tokens'[t].on = tokens[t].on
            /\ tokens[t].user # u => tokens'[t] = tokens[t]
            /\ tokens[t].user = u => ~tokens'[t].live \/ tokens'[t].late
  BY <1>1, RevokedSessions
<1>3. /\ work' \in [Works -> WorkRecords]
      /\ \A v \in Works : WorkOK(work[v])'
      /\ work'[w] = NoWork /\ \A v \in Works : v # w => work'[v] = work[v]
  <2>1. work'[w] = NoWork
    BY <1>1 DEF UserInv
  <2>2. WorkOK(work[w])'
    BY <2>1 DEF WorkOK, NoWork
  <2>3. QED
    BY <1>1, <1>2, <2>2, NoWorkFits, WorkGoesOn
<1>4. TokensOK'
  BY <1>1, <1>2 DEF UserInv, TokensOK
<1>5. SessionsCurrent'
  BY <1>1, <1>2, <1>3 DEF UserInv, SessionsCurrent
<1>6. QED
  BY <1>1, <1>3, <1>4, <1>5 DEF UserInv

\* A session whose user has changed since its row was read is late.
LEMMA IssueTokenStep ==
    ASSUME UserInv, NEW w \in Works, IssueToken(w)
    PROVE  UserInv'
<1> DEFINE u == work[w].user
           row == work[w].row
           s == [user |-> u, live |-> TRUE, on |-> row, late |-> row # users[u]]
<1>1. /\ work[w].at = "issue"
      /\ UNCHANGED users
      /\ work' = [work EXCEPT ![w] = NoWork]
      /\ u \in Users /\ row \in Rows /\ users[u] # None
  BY DEF IssueToken, UserInv, WorkOK
<1>2. PICK t \in Tokens : tokens[t] = None /\ tokens' = [tokens EXCEPT ![t] = s]
  BY DEF IssueToken
<1>3. /\ s.user = u /\ s.on = row /\ s.late \in BOOLEAN /\ (s.late \/ s.on = users[u])
      /\ s \in Sessions
  <2>1. s.late \in BOOLEAN /\ s.live \in BOOLEAN
    OBVIOUS
  <2>2. s.late \/ s.on = users[u]
    OBVIOUS
  <2> DEFINE late == row # users[u]
  <2>3. late \in BOOLEAN
    OBVIOUS
  <2>4. s = [user |-> u, live |-> TRUE, on |-> row, late |-> late]
    OBVIOUS
  <2> HIDE DEF late
  <2>5. [user |-> u, live |-> TRUE, on |-> row, late |-> late] \in Sessions
    BY <1>1, <2>3 DEF Sessions
  <2>6. QED
    BY <2>1, <2>2, <2>4, <2>5
<1> HIDE DEF s
<1>4. tokens'[t] = s /\ \A d \in Tokens : d # t => tokens'[d] = tokens[d]
  BY <1>2 DEF UserInv, TokensOK
<1>5. TokensOK'
  <2>1. tokens' \in [Tokens -> Sessions \cup {None}]
    BY <1>2, <1>3 DEF UserInv, TokensOK
  <2>2. ASSUME NEW d \in Tokens, tokens'[d] # None
        PROVE  users'[tokens'[d].user] # None
    <3>1. CASE d = t
      <4>1. tokens'[d].user = u /\ users' = users
        BY <1>1, <1>3, <1>4, <3>1
      <4>2. QED
        BY <1>1, <4>1
    <3>2. CASE d # t
      BY <1>1, <1>4, <2>2, <3>2 DEF UserInv, TokensOK
    <3>3. QED
      BY <3>1, <3>2
  <2>3. QED
    BY <2>1, <2>2 DEF TokensOK
<1>6. /\ work' \in [Works -> WorkRecords]
      /\ \A v \in Works : WorkOK(work[v])'
      /\ work'[w] = NoWork /\ \A v \in Works : v # w => work'[v] = work[v]
  <2>1. work'[w] = NoWork
    BY <1>1 DEF UserInv
  <2>2. WorkOK(work[w])'
    BY <2>1 DEF WorkOK, NoWork
  <2>3. \A d \in Tokens : tokens[d] # None => tokens'[d] # None
    BY <1>2, <1>4
  <2>4. QED
    BY <1>1, <2>2, <2>3, NoWorkFits, WorkGoesOn
<1>7. SessionsCurrent'
  <2>1. \A v \in Works : work[v].at = "revoke" => work'[v] = work[v]
    BY <1>1, <1>6
  <2>2. ASSUME NEW d \in Tokens, tokens'[d] # None
        PROVE  \/ ~tokens'[d].live
               \/ tokens'[d].late
               \/ tokens'[d].on = users'[tokens'[d].user]
               \/ \E v \in Works : work'[v].at = "revoke" /\ work'[v].user = tokens'[d].user
    <3>1. CASE d = t
      <4>1. tokens'[d] = s /\ users' = users
        BY <1>1, <1>4, <3>1
      <4>2. CASE s.late
        BY <4>1, <4>2
      <4>3. CASE s.on = users[u]
        <5>1. tokens'[d].user = u
          BY <1>3, <4>1
        <5>2. tokens'[d].on = users'[u]
          BY <4>1, <4>3
        <5>3. QED
          BY <5>1, <5>2
      <4>4. QED
        BY <1>3, <4>2, <4>3
    <3>2. CASE d # t
      <4>1. tokens'[d] = tokens[d] /\ users' = users
        BY <1>1, <1>4, <3>2
      <4>2. QED
        BY <2>1, <2>2, <4>1 DEF UserInv, SessionsCurrent
    <3>3. QED
      BY <3>1, <3>2
  <2>3. QED
    BY <2>2 DEF SessionsCurrent
<1>8. QED
  BY <1>1, <1>5, <1>6, <1>7 DEF UserInv

LEMMA RevokeTokenStep ==
    ASSUME UserInv, NEW w \in Works, RevokeToken(w)
    PROVE  UserInv'
<1> DEFINE t == work[w].token
           s == [tokens[t] EXCEPT !.live = FALSE]
           new == IF work[w].at = "logout" THEN NoWork ELSE [work[w] EXCEPT !.at = "load"]
<1>1. /\ work[w].at \in {"rotate", "logout"}
      /\ UNCHANGED users
      /\ t \in Tokens /\ tokens[t] # None /\ tokens[t] \in Sessions
      /\ work[w].user \in Users /\ users[work[w].user] # None
  BY DEF RevokeToken, UserInv, TokensOK, WorkOK
<1>2. tokens' = [tokens EXCEPT ![t] = s] /\ work' = [work EXCEPT ![w] = new]
  BY DEF RevokeToken
<1>3. s \in Sessions /\ s.user = tokens[t].user /\ s.live = FALSE
  BY <1>1 DEF Sessions
<1>4. new \in WorkRecords /\ (new = NoWork \/ (new.at = "load" /\ new.user = work[w].user))
  <2>1. CASE work[w].at = "logout"
    BY <2>1, NoWorkFits
  <2>2. CASE work[w].at = "rotate"
    BY <2>2 DEF UserInv, WorkRecords, WorkSteps
  <2>3. QED
    BY <1>1, <2>1, <2>2
<1> HIDE DEF s, new
<1>5. tokens'[t] = s /\ s # None /\ \A d \in Tokens : d # t => tokens'[d] = tokens[d]
  BY <1>1, <1>2, <1>3, NoneAssumption DEF UserInv, TokensOK
<1>6. TokensOK'
  BY <1>1, <1>2, <1>3, <1>5 DEF UserInv, TokensOK
<1>7. /\ work' \in [Works -> WorkRecords]
      /\ \A v \in Works : WorkOK(work[v])'
      /\ work'[w] = new /\ \A v \in Works : v # w => work'[v] = work[v]
  <2>1. work'[w] = new
    BY <1>2 DEF UserInv
  <2>2. WorkOK(work[w])'
    BY <1>1, <1>4, <2>1 DEF WorkOK, NoWork
  <2>3. \A d \in Tokens : tokens[d] # None => tokens'[d] # None
    BY <1>5
  <2>4. QED
    BY <1>1, <1>2, <1>4, <2>2, <2>3, WorkGoesOn
<1>8. SessionsCurrent'
  <2>1. \A v \in Works : work[v].at = "revoke" => work'[v] = work[v]
    BY <1>1, <1>7
  <2>2. QED
    BY <1>1, <1>3, <1>5, <2>1 DEF UserInv, SessionsCurrent
<1>9. QED
  BY <1>1, <1>6, <1>7, <1>8 DEF UserInv

\* A revocation that is lost with the process leaves sessions that are late.
LEMMA RestartUsers ==
    ASSUME UserInv, Restart
    PROVE  UserInv'
<1> DEFINE Lost(t) == \E w \in Works : work[w].at = "revoke" /\ work[w].user = tokens[t].user
<1>1. /\ UNCHANGED users /\ work' = [w \in Works |-> NoWork]
      /\ tokens' = [t \in Tokens |-> IF tokens[t] # None /\ Lost(t)
                                     THEN [tokens[t] EXCEPT !.late = TRUE] ELSE tokens[t]]
  BY DEF Restart
<1>2. ASSUME NEW t \in Tokens, tokens[t] # None
      PROVE  /\ tokens'[t] \in Sessions /\ tokens'[t].user = tokens[t].user
             /\ tokens'[t].on = tokens[t].on
             /\ Lost(t) => tokens'[t].late = TRUE
             /\ ~Lost(t) => tokens'[t] = tokens[t]
  <2>1. tokens[t] \in Sessions
    BY <1>2 DEF UserInv, TokensOK
  <2> HIDE DEF Lost
  <2>2. tokens'[t] = IF Lost(t) THEN [tokens[t] EXCEPT !.late = TRUE] ELSE tokens[t]
    BY <1>1, <1>2
  <2>3. QED
    BY <2>1, <2>2 DEF Sessions
<1>3. \A t \in Tokens : tokens[t] = None => tokens'[t] = None
  BY <1>1
<1>4. TokensOK'
  <2>1. tokens' = [t \in Tokens |-> tokens'[t]]
    BY <1>1
  <2>2. \A t \in Tokens : tokens'[t] \in Sessions \cup {None}
    BY <1>2, <1>3
  <2>3. \A t \in Tokens : tokens'[t] # None => users'[tokens'[t].user] # None
    BY <1>1, <1>2, <1>3 DEF UserInv, TokensOK
  <2>4. QED
    BY <2>1, <2>2, <2>3 DEF TokensOK
<1>5. SessionsCurrent'
  <2> HIDE DEF Lost
  <2>1. ASSUME NEW t \in Tokens, tokens[t] # None, ~Lost(t)
        PROVE  ~tokens[t].live \/ tokens[t].late \/ tokens[t].on = users[tokens[t].user]
    BY <2>1 DEF UserInv, SessionsCurrent, Lost
  <2>2. QED
    BY <1>1, <1>2, <1>3, <2>1 DEF SessionsCurrent
<1>6. work' \in [Works -> WorkRecords] /\ \A w \in Works : WorkOK(work[w])'
  BY <1>1, NoWorkFits DEF WorkOK, NoWork
<1>7. QED
  BY <1>1, <1>4, <1>5, <1>6 DEF UserInv

\* Every step that concerns users.
LEMMA UserSteps == UserInv /\ [Next]_vars => UserInv'
<1> SUFFICES ASSUME UserInv, [Next]_vars PROVE UserInv'
  OBVIOUS
<1>1. CASE UNCHANGED userVars
  BY <1>1, SameUsers
<1>2. ASSUME NEW w \in Works,
             \/ CreateUser(w) \/ InsertUser(w)
             \/ ToggleActive(w) \/ ResetPassword(w) \/ ChangeRole(w) \/ ChangePassword(w)
             \/ SaveUser(w) \/ RevokeAll(w) \/ RevokeFails(w)
             \/ Login(w) \/ IssueToken(w) \/ FindToken(w) \/ RevokeToken(w) \/ LoadUser(w)
             \/ HandleCallback(w) \/ Deny(w)
      PROVE  UserInv'
  BY <1>2, CreateUserStep, InsertUserStep, EditorSteps, SaveUserStep, RevokeSteps,
     IssueTokenStep, FindTokenStep, RevokeTokenStep, LoadUserStep, HandleCallbackStep, DenyStep
<1>3. ASSUME NEW o \in Edits,
             \/ CreateRole(o) \/ InsertRole(o)
             \/ UpdateRole(o) \/ LookupName(o) \/ SaveRole(o)
             \/ FindRole(o) \/ DeleteRole(o) \/ Refuse(o)
             \/ ClearCache(o) \/ ClearEntry(o) \/ Cleared(o)
      PROVE  UNCHANGED userVars
  BY <1>3
  DEF CreateRole, InsertRole, UpdateRole, LookupName, SaveRole, FindRole, DeleteRole, Refuse,
      ClearCache, ClearEntry, Cleared
<1>4. ASSUME NEW f \in Checks, LoadPermissions(f) \/ QueryRole(f) \/ StorePermissions(f)
      PROVE  UNCHANGED userVars
  BY <1>4 DEF LoadPermissions, QueryRole, StorePermissions
<1>5. CASE SeedBuiltInRole \/ SeedFails \/ UNCHANGED vars
  BY <1>1, <1>5 DEF SeedBuiltInRole, SeedFails, vars
<1>6. QED
  BY <1>1, <1>2, <1>3, <1>4, <1>5, SeedDefaultAdminUsers, RestartUsers DEF Next

\* The invariant is inductive.
LEMMA AccountsInvariant == Spec => []AccountsInv
<1>1. AccountsInv /\ [Next]_vars => AccountsInv'
  BY RoleSteps, UserSteps DEF AccountsInv
<1>2. QED
  BY <1>1, InitAccounts, PTL DEF Spec

-----------------------------------------------------------------------------

\* Role names stay unique, a request never writes back a row that is none, a token
\* in use is a token that is there: role_handler.go, user_handler.go, auth_handler.go.
THEOREM TypeCorrect == Spec => []TypeOK
<1>1. AccountsInv => TypeOK
  BY DEF AccountsInv, RoleInv, UserInv, RolesOK, CacheOK, EditsOK, TokensOK, TypeOK
<1>2. QED
  BY <1>1, AccountsInvariant, PTL

\* PermissionChecker keeps for a role what the table says, but while an editor has
\* still to clear it and when a request that had read before stores late.
THEOREM CacheFollowsTable == Spec => []StaleOnlyByOverlap
<1>1. AccountsInv => StaleOnlyByOverlap
  BY DEF AccountsInv, RoleInv
<1>2. QED
  BY <1>1, AccountsInvariant, PTL

\* A refresh token that may be used was issued on the row its user has, but for the
\* overlaps and the failures that SessionsCurrent names.
THEOREM SessionsFollowUsers == Spec => []SessionsCurrent
<1>1. AccountsInv => SessionsCurrent
  BY DEF AccountsInv, UserInv
<1>2. QED
  BY <1>1, AccountsInvariant, PTL

\* A built-in role stays, built in and under its name: an editor that has read its
\* row writes that name back, and none that has read it may delete it.
THEOREM BuiltInRolesStay == Spec => BuiltInKept
<1> DEFINE Kept ==
        \A i \in RoleIds : roles[i] # None =>
            (roles[i].builtin => /\ roles'[i] # None
                                 /\ roles'[i].builtin
                                 /\ roles'[i].name = roles[i].name)
<1>1. AccountsInv /\ [Next]_vars => [Kept]_vars
  <2> SUFFICES ASSUME RoleInv, Next, NEW i \in RoleIds, roles[i] # None, roles[i].builtin
               PROVE  /\ roles'[i] # None
                      /\ roles'[i].builtin
                      /\ roles'[i].name = roles[i].name
    BY DEF AccountsInv
  <2>1. CASE UNCHANGED roles
    BY <2>1
  <2>2. CASE SeedBuiltInRole
    <3>1. PICK j \in RoleIds :
             /\ IF Named(BuiltIns[boot]) = {} THEN FreshId(j) ELSE j \in Named(BuiltIns[boot])
             /\ roles' = [roles EXCEPT ![j] = [name |-> BuiltIns[boot],
                                               perms |-> SeedPerms[BuiltIns[boot]],
                                               builtin |-> TRUE]]
      BY <2>2 DEF SeedBuiltInRole
    <3>2. CASE j # i
      BY <3>1, <3>2 DEF RoleInv, RolesOK
    <3>3. CASE j = i
      <4>1. roles[i].name = BuiltIns[boot]
        BY <3>1, <3>3 DEF FreshId, Named
      <4>2. /\ roles'[i] = [name |-> BuiltIns[boot], perms |-> SeedPerms[BuiltIns[boot]],
                            builtin |-> TRUE]
            /\ roles' \in [RoleIds -> Roles \cup {None}]
        BY <2>2, <3>1, <3>3, SeedBuiltInRoleStep DEF RoleInv, RolesOK
      <4>3. roles'[i] # None
        <5>1. roles'[i] \in Roles
          <6>1. boot \in 1..Len(BuiltIns)
            BY <2>2 DEF SeedBuiltInRole
          <6>2. BuiltIns[boot] \in Names
            BY <6>1, ConstantsAssumption
          <6>3. SeedPerms[BuiltIns[boot]] \subseteq AllPermissions
            BY <6>2, ConstantsAssumption
          <6>4. QED
            BY <4>2, <6>2, <6>3 DEF Roles
        <5>2. QED
          BY <5>1, NoneAssumption
      <4>4. QED
        BY <4>1, <4>2, <4>3
    <3>4. QED
      BY <3>2, <3>3
  <2>3. ASSUME NEW o \in Edits, InsertRole(o)
        PROVE  roles'[i] = roles[i]
    BY <2>3 DEF InsertRole, FreshId, RoleInv, RolesOK
  <2>4. ASSUME NEW o \in Edits, SaveRole(o)
        PROVE  /\ roles'[i] # None
               /\ roles'[i].builtin
               /\ roles'[i].name = roles[i].name
    <3>1. /\ edit[o].at = "save" /\ BuiltInOK(edit[o])
          /\ edit[o].id \in RoleIds /\ edit[o].role \in Roles
          /\ roles' = [roles EXCEPT ![edit[o].id] = edit[o].role]
      BY <2>4 DEF SaveRole, RoleInv, EditsOK, EditOK
    <3>2. CASE edit[o].id # i
      BY <3>1, <3>2 DEF RoleInv, RolesOK
    <3>3. CASE edit[o].id = i
      <4>1. roles'[i] = edit[o].role /\ edit[o].role # None
        BY <3>1, <3>3, NoneAssumption DEF RoleInv, RolesOK
      <4>2. QED
        BY <3>1, <3>3, <4>1 DEF BuiltInOK, Editing
    <3>4. QED
      BY <3>2, <3>3
  <2>5. ASSUME NEW o \in Edits, DeleteRole(o)
        PROVE  roles'[i] = roles[i]
    <3>1. /\ edit[o].at = "delete" /\ BuiltInOK(edit[o])
          /\ edit[o].id \in RoleIds
          /\ roles' = [roles EXCEPT ![edit[o].id] = None]
      BY <2>5 DEF DeleteRole, RoleInv, EditsOK, EditOK
    <3>2. edit[o].id # i
      BY <3>1 DEF BuiltInOK, Editing
    <3>3. QED
      BY <3>1, <3>2 DEF RoleInv, RolesOK
  <2>6. ASSUME NEW o \in Edits,
               \/ CreateRole(o) \/ UpdateRole(o) \/ LookupName(o) \/ FindRole(o) \/ Refuse(o)
               \/ ClearCache(o) \/ ClearEntry(o) \/ Cleared(o)
        PROVE  UNCHANGED roles
    BY <2>6 DEF CreateRole, UpdateRole, LookupName, FindRole, Refuse, ClearCache, ClearEntry,
                Cleared
  <2>7. ASSUME NEW f \in Checks, LoadPermissions(f) \/ QueryRole(f) \/ StorePermissions(f)
        PROVE  UNCHANGED roles
    BY <2>7 DEF LoadPermissions, QueryRole, StorePermissions
  <2>8. ASSUME NEW w \in Works,
               \/ CreateUser(w) \/ InsertUser(w)
               \/ ToggleActive(w) \/ ResetPassword(w) \/ ChangeRole(w) \/ ChangePassword(w)
               \/ SaveUser(w) \/ RevokeAll(w) \/ RevokeFails(w)
               \/ Login(w) \/ IssueToken(w) \/ FindToken(w) \/ RevokeToken(w) \/ LoadUser(w)
               \/ HandleCallback(w) \/ Deny(w)
        PROVE  UNCHANGED roles
    BY <2>8
    DEF CreateUser, InsertUser, ToggleActive, ResetPassword, ChangeRole, ChangePassword,
        SaveUser, RevokeAll, RevokeFails, Login, IssueToken, FindToken, RevokeToken, LoadUser,
        HandleCallback, Deny, Edit, roleVars
  <2>9. CASE SeedDefaultAdmin \/ SeedFails \/ Restart
    BY <2>1, <2>9 DEF SeedDefaultAdmin, SeedFails, Restart, roleVars
  <2>10. QED
    BY <2>1, <2>2, <2>3, <2>4, <2>5, <2>6, <2>7, <2>8, <2>9 DEF Next
<1>2. QED
  BY <1>1, AccountsInvariant, PTL DEF Spec, BuiltInKept
=============================================================================
