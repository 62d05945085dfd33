------------------------------ MODULE Accounts ------------------------------
(***************************************************************************)
(* The accounts of the web server, in one process and its database:        *)
(*   - internal/api/handler/role_handler.go: the editor of roles,          *)
(*   - internal/api/middleware/auth.go: PermissionChecker and its cache,   *)
(*   - internal/api/handler/user_handler.go: the editor of users,          *)
(*   - internal/api/handler/auth_handler.go: sessions and passwords,       *)
(*   - internal/auth/sso.go: how a callback finds or makes its user,       *)
(*   - internal/auth/seed.go: what a start of the process puts there,      *)
(*   - internal/infra/postgres/role_repo.go, user_repo.go.                 *)
(*                                                                         *)
(* A step is one statement of the database, or one operation of the cache; *)
(* the steps of concurrent requests interleave.  A request also ends when  *)
(* a statement fails: when its client hangs up, its context is cancelled.  *)
(***************************************************************************)
EXTENDS Naturals, Sequences, FiniteSets

CONSTANTS
    RoleIds,         \* keys of the table roles
    Names,           \* names of roles
    AllPermissions,  \* what a role may allow
    Unknown,         \* what a client may send for a permission, and is none
    BuiltIns,        \* the names of the built-in roles, in the order of the seed
    SeedPerms,       \* the permissions of each built-in role
    Users,           \* usernames, which never change
    Admin,           \* the user the seed creates
    Passwords,       \* passwords
    DefaultPassword, \* the password of the seed
    Tokens,          \* refresh tokens
    Edits,           \* slots for requests of the editor of roles
    Checks,          \* slots for requests whose permission is checked
    Works,           \* slots for requests about users and sessions
    None,            \* no row, no entry
    MaxRequests,     \* bound: requests in a behaviour
    MaxFailures,     \* bound: failing statements whose error the code ignores
    MaxCrashes       \* bound: restarts of the process

VARIABLES
    roles,    \* roles[i]: a row of the table roles, or None
    cache,    \* cache[n]: the entry of PermissionChecker for role n, or None
    edit,     \* edit[o]: a request of the editor of roles
    check,    \* check[f]: a request that looks permissions up
    users,    \* users[u]: a row of the table users, or None
    tokens,   \* tokens[t]: a row of the table refresh_tokens, or None
    work,     \* work[w]: a request about a user or a session
    boot,     \* how far main has come: the seeds, then the server
    left,     \* requests still to come
    fails,    \* ignored failures still to come
    crashes   \* restarts still to come

roleVars == <<roles, cache, edit, check>>
userVars == <<users, tokens, work>>
vars == <<roleVars, userVars, boot, left, fails, crashes>>

ASSUME ConstantsAssumption ==
    /\ BuiltIns \in Seq(Names)
    /\ \A i, j \in 1..Len(BuiltIns) : i # j => BuiltIns[i] # BuiltIns[j]
    /\ SeedPerms \in [Names -> SUBSET AllPermissions]
    /\ Unknown \notin AllPermissions
    /\ "admin" \in Names /\ "viewer" \in Names
    /\ Admin \in Users /\ DefaultPassword \in Passwords
    /\ None \notin RoleIds \cup Names \cup Users \cup Tokens
    /\ MaxRequests \in Nat /\ MaxFailures \in Nat /\ MaxCrashes \in Nat

Roles == [name : Names, perms : SUBSET AllPermissions, builtin : BOOLEAN]
Rows  == [role : Names, password : Passwords, active : BOOLEAN]

\* on and late are explained where tokens are issued.
Sessions == [user : Users, live : BOOLEAN, on : Rows, late : BOOLEAN]

ASSUME NoneAssumption == None \notin Roles /\ None \notin Rows /\ None \notin Sessions

NoEdit  == [at |-> "idle", id |-> None, role |-> None, todo |-> {}]
NoCheck == [at |-> "idle", name |-> None, perms |-> {}]
NoWork  == [at |-> "idle", user |-> None, row |-> None, token |-> None]

Serving == boot = Len(BuiltIns) + 1

Init ==
    /\ roles = [i \in RoleIds |-> None]
    /\ cache = [n \in Names |-> None]
    /\ edit = [o \in Edits |-> NoEdit]
    /\ check = [f \in Checks |-> NoCheck]
    /\ users = [u \in Users |-> None]
    /\ tokens = [t \in Tokens |-> None]
    /\ work = [w \in Works |-> NoWork]
    /\ boot = 0
    /\ left = MaxRequests
    /\ fails = MaxFailures
    /\ crashes = MaxCrashes

Request == Serving /\ left > 0 /\ left' = left - 1
Ignored == fails > 0 /\ fails' = fails - 1

-----------------------------------------------------------------------------
(* The repositories. *)

\* FindByName; the column is unique.
Named(n)     == {i \in RoleIds : roles[i] # None /\ roles[i].name = n}
Taken(n, id) == Named(n) \ {id} # {}

\* A new UUID: no row's, and none that a request has read.
FreshId(i) == roles[i] = None /\ \A o \in Edits : edit[o].id # i

\* What the table says about a role's name.
PermsOf(n) ==
    IF Named(n) = {} THEN None ELSE roles[CHOOSE i \in Named(n) : TRUE].perms

-----------------------------------------------------------------------------
(* The start: SeedDefaultAdmin, then SeedBuiltInRoles, then the server.     *)

SeedDefaultAdmin ==
    /\ boot = 0
    /\ boot' = 1
    /\ \/ /\ \A u \in Users : users[u] = None
          /\ users' = [users EXCEPT ![Admin] = [role |-> "admin", active |-> TRUE,
                                                password |-> DefaultPassword]]
       \/ (\E u \in Users : users[u] # None) /\ UNCHANGED users
    /\ UNCHANGED <<roleVars, tokens, work, left, fails, crashes>>

\* A role that is there by that name becomes the built-in one.
SeedBuiltInRole ==
    /\ boot \in 1..Len(BuiltIns)
    /\ boot' = boot + 1
    /\ LET n == BuiltIns[boot]
       IN  \E i \in RoleIds :
              /\ IF Named(n) = {} THEN FreshId(i) ELSE i \in Named(n)
              /\ roles' = [roles EXCEPT ![i] = [name |-> n, perms |-> SeedPerms[n],
                                                builtin |-> TRUE]]
    /\ UNCHANGED <<cache, edit, check, userVars, left, fails, crashes>>

\* main logs the error of a seed and goes on; the roles' seed stops at its first.
SeedFails ==
    /\ ~Serving
    /\ Ignored
    /\ boot' = IF boot = 0 THEN 1 ELSE Len(BuiltIns) + 1
    /\ UNCHANGED <<roleVars, userVars, left, crashes>>

-----------------------------------------------------------------------------
(* The editor of roles. *)

\* Mutant of validatePermissions: whatever the client sends.
ValidateAny(perms) == TRUE

validatePermissions(perms) == perms \subseteq AllPermissions

Begin(o, e) == edit[o] = NoEdit /\ edit' = [edit EXCEPT ![o] = e]

\* Create goes on when FindByName fails: its error is ignored.
CreateRole(o) ==
    /\ Request
    /\ \E n \in Names, perms \in SUBSET (AllPermissions \cup {Unknown}) :
          /\ validatePermissions(perms)
          /\ \/ Named(n) = {} /\ UNCHANGED fails
             \/ Named(n) # {} /\ Ignored
          /\ Begin(o, [NoEdit EXCEPT !.at = "insert",
                          !.role = [name |-> n, perms |-> perms, builtin |-> FALSE]])
    /\ UNCHANGED <<roles, cache, check, userVars, boot, crashes>>

InsertRole(o) ==
    /\ edit[o].at = "insert"
    /\ ~Taken(edit[o].role.name, None)
    /\ \E i \in RoleIds :
          /\ FreshId(i)
          /\ roles' = [roles EXCEPT ![i] = edit[o].role]
    /\ edit' = [edit EXCEPT ![o].at = "written"]
    /\ UNCHANGED <<cache, check, userVars, boot, left, fails, crashes>>

\* Mutant of UpdateRole: a built-in role may be renamed.
UpdateRoleAnyName(o) ==
    /\ Request
    /\ \E i \in RoleIds, n \in Names, perms \in SUBSET (AllPermissions \cup {Unknown}) :
          /\ roles[i] # None
          /\ validatePermissions(perms)
          /\ Begin(o, [NoEdit EXCEPT
                          !.at = IF n = roles[i].name THEN "save" ELSE "lookup", !.id = i,
                          !.role = [name |-> n, perms |-> perms,
                                    builtin |-> roles[i].builtin]])
    /\ UNCHANGED <<roles, cache, check, userVars, boot, fails, crashes>>

\* Update reads the row and keeps what the client does not send.
UpdateRole(o) ==
    /\ Request
    /\ \E i \in RoleIds, n \in Names, perms \in SUBSET (AllPermissions \cup {Unknown}) :
          /\ roles[i] # None
          /\ roles[i].builtin => n = roles[i].name
          /\ validatePermissions(perms)
          /\ Begin(o, [NoEdit EXCEPT
                          !.at = IF n = roles[i].name THEN "save" ELSE "lookup", !.id = i,
                          !.role = [name |-> n, perms |-> perms,
                                    builtin |-> roles[i].builtin]])
    /\ UNCHANGED <<roles, cache, check, userVars, boot, fails, crashes>>

\* A new name is looked up first; here too the error of FindByName is ignored.
LookupName(o) ==
    /\ edit[o].at = "lookup"
    /\ \/ Named(edit[o].role.name) = {} /\ UNCHANGED fails
       \/ Named(edit[o].role.name) # {} /\ Ignored
    /\ edit' = [edit EXCEPT ![o].at = "save"]
    /\ UNCHANGED <<roles, cache, check, userVars, boot, left, crashes>>

\* Save writes the whole row, and inserts it again when it was deleted meanwhile.
SaveRole(o) ==
    /\ edit[o].at = "save"
    /\ ~Taken(edit[o].role.name, edit[o].id)
    /\ roles' = [roles EXCEPT ![edit[o].id] = edit[o].role]
    /\ edit' = [edit EXCEPT ![o].at = "written"]
    /\ UNCHANGED <<cache, check, userVars, boot, left, fails, crashes>>

FindRole(o) ==
    /\ Request
    /\ \E i \in RoleIds :
          /\ roles[i] # None
          /\ ~roles[i].builtin
          /\ Begin(o, [NoEdit EXCEPT !.at = "delete", !.id = i, !.role = roles[i]])
    /\ UNCHANGED <<roles, cache, check, userVars, boot, fails, crashes>>

\* Mutant of DeleteRole: the cache is left as it is.
DeleteRoleOnly(o) ==
    /\ edit[o].at = "delete"
    /\ roles' = [roles EXCEPT ![edit[o].id] = None]
    /\ edit' = [edit EXCEPT ![o] = NoEdit]
    /\ UNCHANGED <<cache, check, userVars, boot, left, fails, crashes>>

\* A row that is gone already is no error.
DeleteRole(o) ==
    /\ edit[o].at = "delete"
    /\ roles' = [roles EXCEPT ![edit[o].id] = None]
    /\ edit' = [edit EXCEPT ![o].at = "written"]
    /\ UNCHANGED <<cache, check, userVars, boot, left, fails, crashes>>

\* A lookup finds a conflict, or a statement fails: the request ends.
Refuse(o) ==
    /\ edit[o].at \in {"lookup", "insert", "save", "delete"}
    /\ edit' = [edit EXCEPT ![o] = NoEdit]
    /\ UNCHANGED <<roles, cache, check, userVars, boot, left, fails, crashes>>

-----------------------------------------------------------------------------
(* The cache of permissions. *)

\* ClearCache ranges over the entries that are there when it begins ...
ClearCache(o) ==
    /\ edit[o].at = "written"
    /\ edit' = [edit EXCEPT ![o].at = "clear", ![o].todo = {n \in Names : cache[n] # None}]
    /\ UNCHANGED <<roles, cache, check, userVars, boot, left, fails, crashes>>

\* ... and deletes one after the other; it may meet one that was stored since.
ClearEntry(o) ==
    /\ edit[o].at = "clear"
    /\ \E n \in Names :
          /\ n \in edit[o].todo \/ cache[n] # None
          /\ cache' = [cache EXCEPT ![n] = None]
          /\ edit' = [edit EXCEPT ![o].todo = @ \ {n}]
    /\ UNCHANGED <<roles, check, userVars, boot, left, fails, crashes>>

Cleared(o) ==
    /\ edit[o].at = "clear"
    /\ edit[o].todo = {}
    /\ edit' = [edit EXCEPT ![o] = NoEdit]
    /\ UNCHANGED <<roles, cache, check, userVars, boot, left, fails, crashes>>

\* getPermissions misses the cache (a hit changes nothing) ...
LoadPermissions(f) ==
    /\ Request
    /\ check[f] = NoCheck
    /\ \E n \in Names :
          /\ cache[n] = None
          /\ check' = [check EXCEPT ![f] = [NoCheck EXCEPT !.at = "query", !.name = n]]
    /\ UNCHANGED <<roles, cache, edit, userVars, boot, fails, crashes>>

\* ... reads the role, if there is one ...
QueryRole(f) ==
    /\ check[f].at = "query"
    /\ \/ /\ Named(check[f].name) # {}
          /\ check' = [check EXCEPT ![f].at = "store", ![f].perms = PermsOf(check[f].name)]
       \/ check' = [check EXCEPT ![f] = NoCheck]
    /\ UNCHANGED <<roles, cache, edit, userVars, boot, left, fails, crashes>>

\* ... and stores what it has read.  (late: it is no longer what the table says.)
StorePermissions(f) ==
    /\ check[f].at = "store"
    /\ cache' = [cache EXCEPT ![check[f].name] =
                    [perms |-> check[f].perms,
                     late  |-> check[f].perms # PermsOf(check[f].name)]]
    /\ check' = [check EXCEPT ![f] = NoCheck]
    /\ UNCHANGED <<roles, edit, userVars, boot, left, fails, crashes>>

-----------------------------------------------------------------------------
(* The editor of users. *)

Start(w, do) == work[w] = NoWork /\ work' = [work EXCEPT ![w] = do]

\* Create of users: the error of FindByUsername is ignored; any role will do.
CreateUser(w) ==
    /\ Request
    /\ \E u \in Users, n \in Names, p \in Passwords :
          /\ \/ users[u] = None /\ UNCHANGED fails
             \/ users[u] # None /\ Ignored
          /\ Start(w, [NoWork EXCEPT !.at = "insert", !.user = u,
                          !.row = [role |-> n, password |-> p, active |-> TRUE]])
    /\ UNCHANGED <<roleVars, users, tokens, boot, crashes>>

\* The username is unique; a callback (see below) goes on with the new user.
InsertUser(w) ==
    /\ work[w].at \in {"insert", "join"}
    /\ users[work[w].user] = None
    /\ users' = [users EXCEPT ![work[w].user] = work[w].row]
    /\ work' = [work EXCEPT ![w] = IF work[w].at = "insert" THEN NoWork
                                   ELSE [work[w] EXCEPT !.at = "issue"]]
    /\ UNCHANGED <<roleVars, tokens, boot, left, fails, crashes>>

\* A request reads a user's row and means to write it back as row.
Edit(w, u, at, row) ==
    /\ users[u] # None
    /\ Start(w, [NoWork EXCEPT !.at = at, !.user = u, !.row = row])
    /\ UNCHANGED <<roleVars, users, tokens, boot, fails, crashes>>

ToggleActive(w) ==
    /\ Request
    /\ \E u \in Users :
          Edit(w, u, IF users[u].active THEN "save" ELSE "enable",
               [users[u] EXCEPT !.active = ~users[u].active])

ResetPassword(w) ==
    /\ Request
    /\ \E u \in Users, p \in Passwords : Edit(w, u, "save", [users[u] EXCEPT !.password = p])

ChangeRole(w) ==
    /\ Request
    /\ \E u \in Users, n \in Names : Edit(w, u, "save", [users[u] EXCEPT !.role = n])

\* ChangePassword of auth_handler: the user knows the old one.
ChangePassword(w) ==
    /\ Request
    /\ \E u \in Users, old, new \in Passwords :
          /\ users[u] # None => users[u].password = old
          /\ Edit(w, u, "save", [users[u] EXCEPT !.password = new])

\* What happens to the sessions of u; late: they outlive a change of u's row that
\* no revocation follows.
Revoked(u) == [t \in Tokens |-> IF tokens[t] # None /\ tokens[t].user = u
                                THEN [tokens[t] EXCEPT !.live = FALSE] ELSE tokens[t]]
Outlive(u) == [t \in Tokens |-> IF tokens[t] # None /\ tokens[t].user = u
                                THEN [tokens[t] EXCEPT !.late = TRUE] ELSE tokens[t]]

\* Mutant of SaveUser: the sessions are not revoked.
SaveUserOnly(w) ==
    LET u == work[w].user
    IN  /\ work[w].at \in {"save", "enable", "bind"}
        /\ users' = [users EXCEPT ![u] = work[w].row]
        /\ \/ /\ work[w].at = "save"
              /\ work' = [work EXCEPT ![w] = NoWork]
              /\ UNCHANGED tokens
           \/ /\ work[w].at = "enable"
              /\ work' = [work EXCEPT ![w] = NoWork]
              /\ tokens' = IF users[u] = work[w].row THEN tokens ELSE Outlive(u)
           \/ /\ work[w].at = "bind"
              /\ work' = [work EXCEPT ![w].at = "issue"]
              /\ tokens' = IF users[u] = work[w].row THEN tokens ELSE Outlive(u)
        /\ UNCHANGED <<roleVars, boot, left, fails, crashes>>

\* Save writes the whole row, whoever has changed it since it was read.  Nothing
\* is revoked when a user is enabled, or bound to an identity.
SaveUser(w) ==
    LET u == work[w].user
    IN  /\ work[w].at \in {"save", "enable", "bind"}
        /\ users' = [users EXCEPT ![u] = work[w].row]
        /\ \/ /\ work[w].at = "save"
              /\ work' = [work EXCEPT ![w].at = "revoke"]
              /\ UNCHANGED tokens
           \/ /\ work[w].at = "enable"
              /\ work' = [work EXCEPT ![w] = NoWork]
              /\ tokens' = IF users[u] = work[w].row THEN tokens ELSE Outlive(u)
           \/ /\ work[w].at = "bind"
              /\ work' = [work EXCEPT ![w].at = "issue"]
              /\ tokens' = IF users[u] = work[w].row THEN tokens ELSE Outlive(u)
        /\ UNCHANGED <<roleVars, boot, left, fails, crashes>>

RevokeAll(w) ==
    /\ work[w].at = "revoke"
    /\ tokens' = Revoked(work[w].user)
    /\ work' = [work EXCEPT ![w] = NoWork]
    /\ UNCHANGED <<roleVars, users, boot, left, fails, crashes>>

\* The error of RevokeAllUserRefreshTokens is ignored: the client is told "done".
RevokeFails(w) ==
    /\ work[w].at = "revoke"
    /\ Ignored
    /\ tokens' = Outlive(work[w].user)
    /\ work' = [work EXCEPT ![w] = NoWork]
    /\ UNCHANGED <<roleVars, users, boot, left, crashes>>

-----------------------------------------------------------------------------
(* Sessions. *)

\* Login: the row is read once, the session made of it later.
Login(w) ==
    /\ Request
    /\ \E u \in Users, p \in Passwords :
          /\ users[u] # None
          /\ users[u].password = p
          /\ users[u].active
          /\ Edit(w, u, "issue", users[u])

\* CreateRefreshToken, for a user whose row as it was read is active.
\* (on: that row; late: it has changed since.)
IssueToken(w) ==
    LET u == work[w].user
        row == work[w].row
    IN  /\ work[w].at = "issue"
        /\ row.active
        /\ \E t \in Tokens :
              /\ tokens[t] = None
              /\ tokens' = [tokens EXCEPT ![t] = [user |-> u, live |-> TRUE, on |-> row,
                                                  late |-> row # users[u]]]
        /\ work' = [work EXCEPT ![w] = NoWork]
        /\ UNCHANGED <<roleVars, users, boot, left, fails, crashes>>

\* Refresh and Logout find a token that is not revoked.
FindToken(w) ==
    /\ Request
    /\ \E t \in Tokens, at \in {"rotate", "logout"} :
          /\ tokens[t] # None /\ tokens[t].live
          /\ Start(w, [NoWork EXCEPT !.at = at, !.user = tokens[t].user, !.token = t])
    /\ UNCHANGED <<roleVars, users, tokens, boot, fails, crashes>>

\* They revoke it by its id, whoever has done so meanwhile; Refresh goes on.
RevokeToken(w) ==
    /\ work[w].at \in {"rotate", "logout"}
    /\ tokens' = [tokens EXCEPT ![work[w].token] = [@ EXCEPT !.live = FALSE]]
    /\ work' = [work EXCEPT ![w] = IF work[w].at = "logout" THEN NoWork
                                   ELSE [work[w] EXCEPT !.at = "load"]]
    /\ UNCHANGED <<roleVars, users, boot, left, fails, crashes>>

LoadUser(w) ==
    /\ work[w].at = "load"
    /\ users[work[w].user].active
    /\ work' = [work EXCEPT ![w].at = "issue", ![w].row = users[work[w].user]]
    /\ UNCHANGED <<roleVars, users, tokens, boot, left, fails, crashes>>

\* matchOrCreateUser: the user bound to the identity, or one of the same name, who
\* is bound to it now, or a new one, whose role exists or is "viewer".
HandleCallback(w) ==
    /\ Request
    /\ \E u \in Users :
          \/ Edit(w, u, "issue", users[u])
          \/ Edit(w, u, "bind", users[u])
          \/ /\ users[u] = None
             /\ \E n \in Names, p \in Passwords :
                   /\ Named(n) # {} \/ n = "viewer"
                   /\ Start(w, [NoWork EXCEPT !.at = "join", !.user = u,
                                   !.row = [role |-> n, password |-> p, active |-> TRUE]])
             /\ UNCHANGED <<roleVars, users, tokens, boot, fails, crashes>>

\* The user is not active, the name is taken, or a statement fails.
Deny(w) ==
    /\ work[w].at \notin {"idle", "revoke"}
    /\ work' = [work EXCEPT ![w] = NoWork]
    /\ UNCHANGED <<roleVars, users, tokens, boot, left, fails, crashes>>

-----------------------------------------------------------------------------
\* The process dies with its cache and its requests, and starts again.
Restart ==
    /\ crashes > 0 /\ crashes' = crashes - 1
    /\ cache' = [n \in Names |-> None]
    /\ edit' = [o \in Edits |-> NoEdit]
    /\ check' = [f \in Checks |-> NoCheck]
    /\ work' = [w \in Works |-> NoWork]
    /\ tokens' = [t \in Tokens |->
                     IF /\ tokens[t] # None
                        /\ \E w \in Works : work[w].at = "revoke" /\ work[w].user = tokens[t].user
                     THEN [tokens[t] EXCEPT !.late = TRUE] ELSE tokens[t]]
    /\ boot' = 0
    /\ UNCHANGED <<roles, users, left, fails>>

Next ==
    \/ SeedDefaultAdmin \/ SeedBuiltInRole \/ SeedFails \/ Restart
    \/ \E o \in Edits :
          \/ CreateRole(o) \/ InsertRole(o)
          \/ UpdateRole(o) \/ LookupName(o) \/ SaveRole(o)
          \/ FindRole(o) \/ DeleteRole(o) \/ Refuse(o)
          \/ ClearCache(o) \/ ClearEntry(o) \/ Cleared(o)
    \/ \E f \in Checks : LoadPermissions(f) \/ QueryRole(f) \/ StorePermissions(f)
    \/ \E w \in Works :
          \/ CreateUser(w) \/ InsertUser(w)
          \/ ToggleActive(w) \/ ResetPassword(w) \/ ChangeRole(w) \/ ChangePassword(w)
          \/ SaveUser(w) \/ RevokeAll(w) \/ RevokeFails(w)
          \/ Login(w) \/ IssueToken(w) \/ FindToken(w) \/ RevokeToken(w) \/ LoadUser(w)
          \/ HandleCallback(w) \/ Deny(w)

Spec == Init /\ [][Next]_vars

-----------------------------------------------------------------------------
(* Properties. *)

EditOK(e) ==
    /\ e.at \in {"idle", "insert", "lookup", "save", "delete", "written", "clear"}
    /\ e.role \in Roles \cup {None}
    /\ e.at \in {"insert", "lookup", "save", "delete"} => e.role # None
    /\ e.at \in {"lookup", "save", "delete"} => e.id \in RoleIds
    /\ e.todo \subseteq Names

WorkOK(k) ==
    /\ k.at \in {"idle", "insert", "join", "save", "enable", "bind", "revoke", "issue",
                 "rotate", "logout", "load"}
    /\ k.at # "idle" => k.user \in Users
    /\ k.at \in {"insert", "join", "save", "enable", "bind", "issue"} => k.row \in Rows
    /\ k.at \in {"save", "enable", "bind", "load", "issue", "revoke", "rotate", "logout"} =>
          users[k.user] # None
    /\ k.at \in {"rotate", "logout"} => k.token \in Tokens /\ tokens[k.token] # None

TypeOK ==
    /\ roles \in [RoleIds -> Roles \cup {None}]
    /\ \A i, j \in RoleIds : roles[i] # None /\ roles[j] # None /\ i # j =>
          roles[i].name # roles[j].name
    /\ \A n \in Names : cache[n] # None =>
          cache[n].perms \subseteq AllPermissions /\ cache[n].late \in BOOLEAN
    /\ \A o \in Edits : EditOK(edit[o])
    /\ users \in [Users -> Rows \cup {None}]
    /\ tokens \in [Tokens -> Sessions \cup {None}]
    /\ \A w \in Works : WorkOK(work[w])
    /\ boot \in 0..Len(BuiltIns) + 1

\* A built-in role stays under its name, and built in, from the seed on: through
\* saves of whole rows that were read before, deletions and restarts.
BuiltInKept ==
    [][\A i \in RoleIds : roles[i] # None =>
          (roles[i].builtin => /\ roles'[i] # None
                               /\ roles'[i].builtin
                               /\ roles'[i].name = roles[i].name)]_vars

\* What the checker holds of a role is what the table says, unless an editor of
\* roles has still to clear that entry, or the entry was stored late: by a request
\* that had read the role before it changed.
StaleOnlyByOverlap ==
    \A n \in Names : cache[n] # None =>
        \/ cache[n].perms = PermsOf(n)
        \/ cache[n].late
        \/ \E o \in Edits :
              \/ edit[o].at = "written"
              \/ edit[o].at = "clear" /\ n \in edit[o].todo

\* A refresh token that may be used was issued on the row its user has: the
\* password, the role and the activity are still those, unless its issue overlapped
\* the change, the revocation is still to come, or has failed, or was lost with the
\* process, or a Save that revokes nothing wrote back an older row.
SessionsCurrent ==
    \A t \in Tokens : tokens[t] # None =>
        \/ ~tokens[t].live
        \/ tokens[t].late
        \/ tokens[t].on = users[tokens[t].user]
        \/ \E w \in Works : work[w].at = "revoke" /\ work[w].user = tokens[t].user
=============================================================================
