----------------------------- MODULE AuthCache -----------------------------
(***************************************************************************)
(* What the middleware lets a token do, from the entries it caches in      *)
(* Redis, while administrators change users and roles in the database.     *)
(* Source: api/middleware/jwt.go, authorization.go, timeout.go,            *)
(* pkg/cache/cache.go, internal/user/usecase.go, repository.go,            *)
(* internal/role/usecase.go, repostory.go, internal/seeder,                *)
(* api/handler/user_handler.go.                                            *)
(*                                                                         *)
(* The tokens of the model all name one organization, which the users may  *)
(* leave; nothing keeps them from having a role of another organization.   *)
(* The statements of a handler run one by one; a write commits             *)
(* before the keys it concerns are deleted, and an error of Redis is only  *)
(* logged.  Time passes in units of which TTL make the life of an entry    *)
(* and Deadline the longest life of a request.                             *)
(***************************************************************************)
EXTENDS Integers

CONSTANTS
  Users, Roles, Perms, NoUser, NoRole,
  OwnRoles,   \* those of the organization that the tokens name
  SystemRoles,\* those that are ever called SuperAdmin or OrgsAdmin
  Readers,    \* requests in the middleware at one time
  Admins,     \* administrators' requests at one time
  TTL,        \* the life of an entry: 15 minutes
  Deadline,   \* the deadline the timeout middleware puts on a request
  Faults      \* whether Redis and the queries of the middleware may fail

ASSUME TimesAssumption == TTL \in Nat \ {0} /\ Deadline \in Nat
ASSUME NoneAssumption == NoUser \notin Users /\ NoRole \notin Roles
ASSUME RolesAssumption == OwnRoles \subseteq Roles /\ SystemRoles \subseteq Roles
ASSUME FaultsAssumption == Faults \in BOOLEAN

\* How old what a request is let in with can be.
Window == TTL + Deadline

VARIABLES
  users,    \* rows of users
  grants,   \* rows of role_permissions, by role
  cache,    \* auth:user:<id>:<org> in Redis
  reader,   \* what the middleware of each request has read
  todo,     \* keys each administrator's request has yet to delete
  shut,     \* history: time since the database last admitted the user
  apart,    \* history: time since the user last had the role
  lacks     \* history: time since the role last had the permission

vars == <<users, grants, cache, reader, todo, shut, apart, lacks>>

NoEntry == [held |-> FALSE, role |-> NoRole, perms |-> {}, age |-> 0, fresh |-> TRUE]
Waiting == [step |-> "idle", user |-> NoUser, role |-> NoRole, perms |-> {}, age |-> 0]

UserRow == [home: BOOLEAN, active: BOOLEAN, locked: BOOLEAN, role: Roles]
Entry == [held: BOOLEAN, role: Roles \cup {NoRole}, perms: SUBSET Perms,
          age: 0 .. TTL, fresh: BOOLEAN]
Reading == [step: {"idle", "row", "ready"}, user: Users \cup {NoUser},
            role: Roles \cup {NoRole}, perms: SUBSET Perms, age: 0 .. Deadline]
Ages == 0 .. Window + 1

TypeOK ==
  /\ users \in [Users -> UserRow]
  /\ grants \in [Roles -> SUBSET Perms]
  /\ cache \in [Users -> Entry]
  /\ reader \in [Readers -> Reading]
  /\ todo \in [Admins -> SUBSET Users]
  /\ shut \in [Users -> Ages]
  /\ apart \in [Users -> [Roles -> Ages]]
  /\ lacks \in [Roles -> [Perms -> Ages]]

\* The checks of the middleware on a row it has read for the token.
Admitted(row) == row.home /\ row.active /\ ~row.locked

Init ==
  /\ users \in [Users -> [home: {TRUE}, active: {TRUE}, locked: {FALSE}, role: Roles]]
  /\ grants \in [Roles -> SUBSET Perms]
  /\ cache = [u \in Users |-> NoEntry]
  /\ reader = [r \in Readers |-> Waiting]
  /\ todo = [a \in Admins |-> {}]
  /\ shut = [u \in Users |-> 0]
  /\ apart = [u \in Users |-> [r \in Roles |-> IF r = users[u].role THEN 0 ELSE Window + 1]]
  /\ lacks = [r \in Roles |-> [p \in Perms |-> IF p \in grants[r] THEN 0 ELSE Window + 1]]

-----------------------------------------------------------------------------
(* The middleware.  A hit changes nothing: it admits with what is held.     *)

\* The entry says what the rows say.
Agrees(e, u) ==
  Admitted(users[u]) /\ e.role = users[u].role /\ e.perms = grants[e.role]

\* What the first statement finds.
Found(u) == [step |-> "row", user |-> u, role |-> users[u].role, perms |-> {}, age |-> 0]

\* Mutant of ReadUser: the row is not checked.
ReadUnchecked(r, u) ==
  /\ reader[r].step = "idle"
  /\ ~cache[u].held \/ Faults
  /\ reader' = [reader EXCEPT ![r] = Found(u)]
  /\ UNCHANGED <<users, grants, cache, todo, shut, apart, lacks>>

\* A miss, or Redis does not answer; the row of the user is read and checked.
ReadUser(r, u) ==
  /\ reader[r].step = "idle"
  /\ ~cache[u].held \/ Faults
  /\ Admitted(users[u])
  /\ reader' = [reader EXCEPT ![r] = Found(u)]
  /\ UNCHANGED <<users, grants, cache, todo, shut, apart, lacks>>

\* What the statements on its role add.
Completed(g, role, perms) ==
  [step |-> "ready", user |-> g.user, role |-> role, perms |-> perms, age |-> g.age]

\* Mutant of ReadGrants: the permissions of every role.
ReadAllGrants(r) ==
  /\ reader[r].step = "row"
  /\ reader' = [reader EXCEPT ![r] = Completed(@, @.role, UNION {grants[q] : q \in Roles})]
  /\ UNCHANGED <<users, grants, cache, todo, shut, apart, lacks>>

\* The role's permissions are read by statements of their own.
ReadGrants(r) ==
  /\ reader[r].step = "row"
  /\ reader' = [reader EXCEPT ![r] = Completed(@, @.role, grants[@.role])]
  /\ UNCHANGED <<users, grants, cache, todo, shut, apart, lacks>>

\* One of them fails: the request goes on without the role, or with those of
\* its permissions that came before the error.
GrantsUnread(r) ==
  /\ reader[r].step = "row" /\ Faults
  /\ \/ reader' = [reader EXCEPT ![r] = Completed(@, NoRole, {})]
     \/ \E ps \in SUBSET grants[reader[r].role] :
          reader' = [reader EXCEPT ![r] = Completed(@, @.role, ps)]
  /\ UNCHANGED <<users, grants, cache, todo, shut, apart, lacks>>

\* The entry a reading is stored as.
Stored(g) ==
  LET e == [held |-> TRUE, role |-> g.role, perms |-> g.perms, age |-> 0]
  IN  [held |-> TRUE, role |-> g.role, perms |-> g.perms, age |-> 0,
       fresh |-> g.role \in Roles /\ Agrees(e, g.user)]

\* What was read is stored, and the request goes on with it.
Fill(r) ==
  /\ reader[r].step = "ready"
  /\ cache' = [cache EXCEPT ![reader[r].user] = Stored(reader[r])]
  /\ reader' = [reader EXCEPT ![r] = Waiting]
  /\ UNCHANGED <<users, grants, todo, shut, apart, lacks>>

\* It is not stored, or the request ends at its deadline or with its client.
GiveUp(r) ==
  /\ reader[r].step # "idle"
  /\ reader' = [reader EXCEPT ![r] = Waiting]
  /\ UNCHANGED <<users, grants, cache, todo, shut, apart, lacks>>

-----------------------------------------------------------------------------
(* The administrators.  A write commits, then its keys are deleted.         *)

Recall ==
  /\ shut' = [u \in Users |-> IF Admitted(users'[u]) THEN 0 ELSE shut[u]]
  /\ apart' = [u \in Users |-> [r \in Roles |->
                 IF users'[u].role = r THEN 0 ELSE apart[u][r]]]
  /\ lacks' = [r \in Roles |-> [p \in Perms |->
                 IF p \in grants'[r] THEN 0 ELSE lacks[r][p]]]

\* The key of the organization that the row is in after the write.
KeysOf(u) == IF users'[u].home THEN {u} ELSE {}

Delete(a, keys) == todo[a] = {} /\ todo' = [todo EXCEPT ![a] = keys]

\* Entries that no deletion is going to reach.
Forsake(keys) ==
  cache' = [u \in Users |-> IF u \in keys /\ cache[u].held
                            THEN [cache[u] EXCEPT !.fresh = FALSE] ELSE cache[u]]

\* Mutant of ToggleStatus: the cache is forgotten.
ToggleOnly(a, u) ==
  /\ users' = [users EXCEPT ![u].active = ~users[u].active]
  /\ UNCHANGED <<grants, cache, reader, todo>>
  /\ Recall

\* UpdateUserStatus: active_status = NOT active_status.
ToggleStatus(a, u) ==
  /\ users' = [users EXCEPT ![u].active = ~users[u].active]
  /\ Delete(a, KeysOf(u))
  /\ UNCHANGED <<grants, cache, reader>>
  /\ Recall

\* UpdateUserPartial: any of role, status and organization.
UpdateUser(a, u) ==
  /\ \E row \in [home: BOOLEAN, active: BOOLEAN, locked: {users[u].locked}, role: Roles] :
       users' = [users EXCEPT ![u] = row]
  /\ Delete(a, KeysOf(u))
  /\ Forsake(IF users'[u].home THEN {} ELSE {u})
  /\ UNCHANGED <<grants, reader>>
  /\ Recall

\* A lock, an unlock: no key is deleted.
SetLocked(u, locked) ==
  /\ users' = [users EXCEPT ![u].locked = locked]
  /\ Forsake(IF locked THEN {u} ELSE {})
  /\ UNCHANGED <<grants, reader, todo>>
  /\ Recall

LockAccount(u) == SetLocked(u, TRUE)
UnlockAccount(u) == users[u].locked /\ SetLocked(u, FALSE)

\* A password, a soft deletion (which no query of the middleware looks at).
TouchUser(a, u) ==
  /\ Delete(a, {u})
  /\ UNCHANGED <<users, grants, cache, reader, shut, apart, lacks>>

\* auth:user:*:<org> of the organization of a role, which is the caller's too.
KeysOfOrg(r) == IF r \in OwnRoles THEN Users ELSE {}

\* UpdateRole: a name, which no check of the middleware looks at.
RenameRole(a, r) ==
  /\ Delete(a, KeysOfOrg(r))
  /\ UNCHANGED <<users, grants, cache, reader, shut, apart, lacks>>

Holders(r) == {u \in Users : users[u].role = r}

\* AssignPermissionsToRole, one transaction.  A user of this organization who
\* has a role of another keeps the key.
AssignPermissions(a, r) ==
  /\ \E ps \in SUBSET Perms : grants' = [grants EXCEPT ![r] = ps]
  /\ Delete(a, KeysOfOrg(r))
  /\ Forsake(IF r \in OwnRoles THEN {} ELSE Holders(r))
  /\ UNCHANGED <<users, reader>>
  /\ Recall

\* The foreign key lets a role go that no user has; its name may come again.
DeleteRole(a, r) ==
  /\ Holders(r) = {}
  /\ grants' = [grants EXCEPT ![r] = {}]
  /\ Delete(a, KeysOfOrg(r))
  /\ UNCHANGED <<users, cache, reader>>
  /\ Recall

\* Each start of a server seeds, a statement at a time: an obsolete permission
\* goes, or one comes to a system role or goes from it.  No key is deleted.
Seed ==
  /\ \E p \in Perms :
       \/ grants' = [r \in Roles |-> grants[r] \ {p}]
       \/ \E r \in SystemRoles :
            \/ grants' = [grants EXCEPT ![r] = @ \cup {p}]
            \/ grants' = [grants EXCEPT ![r] = @ \ {p}]
  /\ Forsake(UNION {Holders(r) : r \in {q \in Roles : grants'[q] # grants[q]}})
  /\ UNCHANGED <<users, reader, todo>>
  /\ Recall

\* Del, or one key that DelByPattern found.
DelKey(a, u) ==
  /\ u \in todo[a]
  /\ cache' = [cache EXCEPT ![u] = NoEntry]
  /\ todo' = [todo EXCEPT ![a] = @ \ {u}]
  /\ UNCHANGED <<users, grants, reader, shut, apart, lacks>>

\* Redis refuses or the breaker is open, or the server stops.
KeysNotDeleted(a) ==
  /\ todo[a] # {} /\ Faults
  /\ Forsake(todo[a])
  /\ todo' = [todo EXCEPT ![a] = {}]
  /\ UNCHANGED <<users, grants, reader, shut, apart, lacks>>

-----------------------------------------------------------------------------
\* Mutant of Expires: stored without a time to live.
NeverExpires(e) == FALSE

\* The time to live that Set gives an entry is over.
Expires(e) == e.age = TTL

\* Mutant of InTime: the request may outlive its deadline.
InTimeLate(r) == reader[r].age <= Deadline

\* The context of the request is not done.
InTime(r) == reader[r].age < Deadline

Older(n, now) == IF now THEN 0 ELSE IF n > Window THEN n ELSE n + 1

Aged(e) == [held |-> e.held, role |-> e.role, perms |-> e.perms, fresh |-> e.fresh,
            age |-> IF e.age < TTL THEN e.age + 1 ELSE e.age]

\* No request outlives its deadline.
Tick ==
  /\ \A r \in Readers : InTime(r)
  /\ cache' = [u \in Users |->
       IF ~cache[u].held \/ Expires(cache[u]) THEN NoEntry
       ELSE Aged(cache[u])]
  /\ reader' = [r \in Readers |->
       IF reader[r].step = "idle" THEN Waiting ELSE [reader[r] EXCEPT !.age = @ + 1]]
  /\ shut' = [u \in Users |-> Older(shut[u], Admitted(users[u]))]
  /\ apart' = [u \in Users |-> [r \in Roles |-> Older(apart[u][r], users[u].role = r)]]
  /\ lacks' = [r \in Roles |-> [p \in Perms |-> Older(lacks[r][p], p \in grants[r])]]
  /\ UNCHANGED <<users, grants, todo>>

Middleware(r) ==
  \/ \E u \in Users : ReadUser(r, u)
  \/ ReadGrants(r) \/ GrantsUnread(r) \/ Fill(r) \/ GiveUp(r)

Administer(a) ==
  \/ \E u \in Users : ToggleStatus(a, u) \/ UpdateUser(a, u) \/ TouchUser(a, u) \/ DelKey(a, u)
  \/ \E r \in Roles : AssignPermissions(a, r) \/ RenameRole(a, r) \/ DeleteRole(a, r)
  \/ KeysNotDeleted(a)

Next ==
  \/ \E r \in Readers : Middleware(r)
  \/ \E a \in Admins : Administer(a)
  \/ \E u \in Users : LockAccount(u) \/ UnlockAccount(u)
  \/ Seed
  \/ Tick

Spec == Init /\ [][Next]_vars

\* Time passes, and a request ends.
FairSpec ==
  Spec /\ WF_vars(Tick) /\ \A r \in Readers : WF_vars(GiveUp(r))

-----------------------------------------------------------------------------
\* Whoever fills, deletes or fails, and in whatever order, a request is let in
\* only with an account that the database would have let in less than the life
\* of an entry and the deadline of a request ago.
AccessBounded ==
  /\ \A u \in Users : cache[u].held => shut[u] <= Window
  /\ \A r \in Readers : reader[r].step = "ready" => shut[reader[r].user] <= Deadline

\* Each permission a request is let in with was, within that time, one of a
\* role that was, within that time, the user's.
GrantsBounded ==
  \A u \in Users :
    LET e == cache[u] IN
    e.perms # {} => /\ e.role \in Roles
                    /\ apart[u][e.role] <= Window
                    /\ \A p \in e.perms : lacks[e.role][p] <= Window

\* An entry that was true when it was stored is true or about to be deleted,
\* unless, since then, the account was locked or moved, the permissions of a
\* role of another organization were assigned, permissions were seeded, or the
\* deletion failed: no other write leaves an entry behind (fresh is FALSE).
StaleIsInFlight ==
  \A u \in Users :
    (cache[u].held /\ cache[u].fresh /\ ~Agrees(cache[u], u))
      => \E a \in Admins : u \in todo[a]

\* An account that is shut for good is, in the end, let in by no entry.
ShutOutInTheEnd ==
  \A u \in Users :
    <>[](~Admitted(users[u])) => <>[](~cache[u].held)
=============================================================================
