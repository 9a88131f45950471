------------------------------ MODULE Accounts ------------------------------
(***************************************************************************)
(* User accounts and the administrators' hierarchy (services/users.py): a  *)
(* request is checked against the user its token stands for, as            *)
(* get_current_user read it, and runs SELECT, the counts of remaining      *)
(* administrators and the write as statements of one READ COMMITTED        *)
(* transaction. Each statement sees what is committed when it starts, so   *)
(* each is a step, and the statements of different requests interleave.    *)
(* A refusal before anything is read changes nothing and is a stuttering   *)
(* step. Passwords, pictures and preferences decide nothing here.          *)
(***************************************************************************)
EXTENDS Naturals, FiniteSets

CONSTANTS
  Requests,      \* slots of the server's thread pool
  UserIds,       \* ids the users sequence hands out (never twice)
  Names,         \* usernames
  Roles,         \* the roles the CHECK of users.role admits
  Patches,       \* the bodies of PATCH that clients send
  NewUsers,      \* the bodies of POST that clients send
  DefaultName,   \* DEFAULT_ADMIN_USERNAME
  Crashes,       \* TRUE: the server may crash and be restarted
  Unborn, Gone,  \* an id not handed out yet, an id whose row was deleted
  None

VARIABLES
  users,  \* [UserIds -> Row or Unborn or Gone]: the users table
  up,     \* TRUE between the startup event and the end of the process
  req     \* [Requests -> Request]: what each running handler holds

vars == <<users, up, req>>

Row == [name : Names, role : Roles, active : BOOLEAN]

\* The keys of an update: None where the body does not name the column.
Patch == [name : Names \union {None}, role : Roles \union {None},
          active : BOOLEAN \union {None}]

AdminRoles == {"head_admin", "admin"}

\* A DELETE has no body. "seen" is what SELECT role, is_active returned, "checks"
\* the counts still to be taken.
Request ==
  [pc : {"idle", "insert", "load", "write"},
   actor : UserIds \union {None}, role : Roles \union {None},   \* current_user
   target : UserIds \union {None}, body : Patch \union Row \union {None},
   seen : [role : Roles, active : BOOLEAN] \union {None}, checks : SUBSET AdminRoles]

ASSUME AccountsAssumption ==
  /\ AdminRoles \subseteq Roles
  /\ Patches \subseteq Patch /\ NewUsers \subseteq [name : Names, role : Roles]
  /\ DefaultName \in Names /\ Crashes \in BOOLEAN
  /\ Unborn # Gone /\ {Unborn, Gone} \intersect Row = {}
  /\ None \notin Names /\ None \notin Roles /\ None \notin BOOLEAN
  /\ None \notin UserIds /\ None \notin Patch /\ None \notin Row

Idle == [pc |-> "idle", actor |-> None, role |-> None, target |-> None,
         body |-> None, seen |-> None, checks |-> {}]

Live(u) == users[u] \notin {Unborn, Gone}
Active(u) == Live(u) /\ users[u].active
HeadAdmin(u) == Active(u) /\ users[u].role = "head_admin"

\* Mutant: usernames have no UNIQUE constraint.
AnyName(name, u) == TRUE

\* The UNIQUE constraint on username lets u have this name.
NameFree(name, u) == \A v \in UserIds \ {u} : Live(v) => users[v].name # name

\* Mutant: an admin may assign every role but head_admin.
MayAssignAdmin(actorRole, role) == role = "head_admin" => actorRole = "head_admin"

\* _ensure_actor_can_assign_role, for an actor that is an administrator.
MayAssign(actorRole, role) == role \in AdminRoles => actorRole = "head_admin"

\* Mutant: who may manage whom is decided by what the actor does to itself only.
MayManageAny(actorRole, role, isSelf) == isSelf \/ actorRole \in AdminRoles

\* _ensure_actor_can_manage_target
MayManage(actorRole, role, isSelf) ==
  /\ role = "head_admin" => actorRole = "head_admin"
  /\ isSelf \/ actorRole \in AdminRoles

\* Mutant: deactivating does not count as removing.
RemovesByRole(row, body, admins) ==
  row.role \in admins /\ (body = None \/ body.role \notin admins \union {None})

\* removing_admin_role and removing_head_admin, of new_role and new_active, which are
\* the row's where the body names none; a DELETE always removes.
Removes(row, body, admins) ==
  /\ row.role \in admins
  /\ body # None => \/ body.role \notin admins \union {None}
                    \/ body.active = FALSE \/ (body.active = None /\ row.active = FALSE)

\* The counts the handler must take before it writes.
ChecksFor(row, body) ==
  {c \in AdminRoles : Removes(row, body, IF c = "admin" THEN AdminRoles ELSE {"head_admin"})}

\* COUNT(*) of active administrators other than u is positive.
Remain(u, admins) == \E v \in UserIds \ {u} : Active(v) /\ users[v].role \in admins

Init ==
  /\ users = [u \in UserIds |-> Unborn]
  /\ up = FALSE
  /\ req = [r \in Requests |-> Idle]

Finish(r) == req' = [req EXCEPT ![r] = Idle]

-----------------------------------------------------------------------------
(* Process start and end. *)

\* ensure_default_admin: any head admin will do, an inactive one too; without
\* one, INSERT ... ON CONFLICT DO NOTHING.
Boot ==
  LET hasHead == \E u \in UserIds : Live(u) /\ users[u].role = "head_admin"
      nameTaken == \E u \in UserIds : Live(u) /\ users[u].name = DefaultName IN
  /\ ~up
  /\ up' = TRUE
  /\ \/ /\ hasHead \/ nameTaken
        /\ UNCHANGED users
     \/ /\ ~hasHead /\ ~nameTaken
        /\ \E u \in UserIds :
             /\ users[u] = Unborn
             /\ users' = [users EXCEPT ![u] =
                            [name |-> DefaultName, role |-> "head_admin", active |-> TRUE]]
  /\ UNCHANGED req

\* What was not committed is rolled back. Bound: an id is left for Boot.
Crash ==
  /\ Crashes /\ up
  /\ \E u \in UserIds : users[u] = Unborn
  /\ up' = FALSE
  /\ req' = [r \in Requests |-> Idle]
  /\ UNCHANGED users

-----------------------------------------------------------------------------
(* The beginning of a request: the token's user, active and with the role   *)
(* the token names, and the checks that need nothing else.                  *)

Begin(r, actor, pc, target, body) ==
  /\ up /\ req[r].pc = "idle"
  /\ Active(actor)
  /\ req' = [req EXCEPT ![r] = [Idle EXCEPT !.pc = pc, !.actor = actor, !.role = users[actor].role,
                                          !.target = target, !.body = body]]
  /\ UNCHANGED <<users, up>>

\* PATCH /users/{id} and /users/{id}/status, for administrators.
UpdateUser(r, actor, target, patch) ==
  /\ Active(actor) /\ users[actor].role \in AdminRoles
  /\ Begin(r, actor, "load", target, patch)

\* PATCH /auth/me passes on the username and nothing that matters besides.
UpdateMe(r, actor, patch) ==
  Begin(r, actor, "load", actor, [patch EXCEPT !.role = None, !.active = None])

DeleteUser(r, actor, target) ==
  /\ Active(actor) /\ users[actor].role \in AdminRoles
  /\ actor # target
  /\ Begin(r, actor, "load", target, None)

\* Bound: a creation starts only if an id is left for it.
IdsLeft ==
  Cardinality({q \in Requests : req[q].pc = "insert"})
    < Cardinality({u \in UserIds : users[u] = Unborn})

CreateUser(r, actor, new) ==
  /\ Active(actor) /\ users[actor].role \in AdminRoles
  /\ MayAssign(users[actor].role, new.role)
  /\ IdsLeft
  /\ Begin(r, actor, "insert", None, [name |-> new.name, role |-> new.role, active |-> TRUE])

-----------------------------------------------------------------------------
InsertUser(r, u) ==
  /\ req[r].pc = "insert"
  /\ users[u] = Unborn
  /\ \/ /\ NameFree(req[r].body.name, u)
        /\ users' = [users EXCEPT ![u] = req[r].body]
     \/ /\ ~NameFree(req[r].body.name, u)   \* 409
        /\ UNCHANGED users
  /\ Finish(r)
  /\ UNCHANGED up

\* SELECT role, is_active, and the checks of the actor against what it returned.
Load(r) ==
  LET u == req[r].target  body == req[r].body
      allowed == /\ Live(u)
                 /\ MayManage(req[r].role, users[u].role, u = req[r].actor)
                 /\ (body # None /\ body.role # None) => MayAssign(req[r].role, body.role) IN
  /\ req[r].pc = "load"
  /\ \/ /\ allowed
        /\ req' = [req EXCEPT ![r].pc = "write", ![r].checks = ChecksFor(users[u], body),
                              ![r].seen = [role |-> users[u].role, active |-> users[u].active]]
     \/ /\ ~allowed   \* 403, 404
        /\ Finish(r)
  /\ UNCHANGED <<users, up>>

\* _assert_remaining_admin, then _assert_remaining_head_admin: one COUNT each.
Check(r, c) ==
  LET some == Remain(req[r].target, IF c = "admin" THEN AdminRoles ELSE {"head_admin"}) IN
  /\ req[r].pc = "write"
  /\ c \in req[r].checks
  /\ c = "head_admin" => "admin" \notin req[r].checks
  /\ \/ /\ some
        /\ req' = [req EXCEPT ![r].checks = @ \ {c}]
     \/ /\ ~some   \* 400
        /\ Finish(r)
  /\ UNCHANGED <<users, up>>

\* Mutant: a column the body does not name is set to NULL.
PatchedAll(r, row) == req[r].body

\* Mutant: new_role and new_active are written, and not the columns named alone.
PatchedStale(r, row) ==
  LET body == req[r].body IN
  [name |-> IF body.name = None THEN row.name ELSE body.name,
   role |-> IF body.role = None THEN req[r].seen.role ELSE body.role,
   active |-> IF body.active = None THEN req[r].seen.active ELSE body.active]

\* UPDATE of the columns the body names.
Patched(r, row) ==
  LET body == req[r].body IN
  [name |-> IF body.name = None THEN row.name ELSE body.name,
   role |-> IF body.role = None THEN row.role ELSE body.role,
   active |-> IF body.active = None THEN row.active ELSE body.active]

\* UPDATE or DELETE, and COMMIT.
Write(r) ==
  LET u == req[r].target
      after == IF req[r].body = None THEN Gone ELSE Patched(r, users[u])
      fits == Live(u) /\ (after # Gone => NameFree(after.name, u)) IN
  /\ req[r].pc = "write" /\ req[r].checks = {}
  /\ \/ fits /\ users' = [users EXCEPT ![u] = after]
     \/ ~fits /\ UNCHANGED users   \* 404, 409
  /\ Finish(r)
  /\ UNCHANGED up

-----------------------------------------------------------------------------
Handler(r) ==
  \/ \E u \in UserIds : InsertUser(r, u)
  \/ Load(r) \/ Write(r)
  \/ \E c \in AdminRoles : Check(r, c)

Arrival(r) ==
  \E actor \in UserIds :
    \/ \E patch \in Patches : \/ UpdateMe(r, actor, patch)
                              \/ \E target \in UserIds : UpdateUser(r, actor, target, patch)
    \/ \E target \in UserIds : DeleteUser(r, actor, target)
    \/ \E new \in NewUsers : CreateUser(r, actor, new)

\* Nothing is running: the server waits for a request.
Quiet == up /\ (\A r \in Requests : req[r].pc = "idle") /\ UNCHANGED vars

Next == Boot \/ Crash \/ (\E r \in Requests : Handler(r) \/ Arrival(r)) \/ Quiet

Spec == Init /\ [][Next]_vars

-----------------------------------------------------------------------------
(* Properties *)

TypeOK ==
  /\ users \in [UserIds -> Row \union {Unborn, Gone}]
  /\ up \in BOOLEAN
  /\ req \in [Requests -> Request]

\* The running server always has an active head admin: without one nobody can
\* assign an administrator's role again. The counts before a write that removes
\* one are there for this; it holds when requests come one at a time.
HeadAdminRemains == up => \E u \in UserIds : HeadAdmin(u)

\* An account that has the role head_admin is changed or deleted only by a request
\* whose actor has it too; it holds when requests come one at a time.
OnlyHeadsManageHeads ==
  [][\A u \in UserIds :
       (Live(u) /\ users[u].role = "head_admin" /\ users'[u] # users[u]) =>
         \E r \in Requests : req[r].pc = "write" /\ req[r].target = u /\ req[r].role = "head_admin"]_vars

\* Two accounts never share a name, however many requests create and rename.
NamesUnique ==
  \A u, v \in UserIds : (Live(u) /\ Live(v) /\ users[u].name = users[v].name) => u = v

\* Who becomes admin or head_admin owes it to a request whose actor was head_admin
\* when it began, or is the default account of a process start that found no head.
AdminRolesComeFromHeads ==
  [][\A u \in UserIds :
       (/\ Live(u)' /\ users'[u].role \in AdminRoles
        /\ ~(Live(u) /\ users[u].role = users'[u].role)) =>
         \/ \E r \in Requests : req[r].pc \in {"insert", "write"} /\ req[r].role = "head_admin"
                                /\ req'[r].pc = "idle"
         \/ ~up /\ \A v \in UserIds : Live(v) => users[v].role # "head_admin"]_vars

\* A write changes only what its request asked for, although the handler has read
\* the row earlier and decides by it: a rename does not undo a demotion that came in
\* between. And a request of someone who is no administrator renames that very
\* account: its role and is_active and all other accounts stay.
WritesOnlyWhatWasAsked ==
  [][\A u \in UserIds : (Live(u) /\ users'[u] # users[u]) =>
       \E r \in Requests :
         LET body == req[r].body  row == users[u]  new == users'[u] IN
         /\ req[r].pc = "write" /\ req[r].target = u /\ req'[r].pc = "idle"
         /\ IF new = Gone THEN body = None
            ELSE \A c \in {"name", "role", "active"} : new[c] # row[c] => new[c] = body[c]
         /\ req[r].role \notin AdminRoles =>
              u = req[r].actor /\ new = [row EXCEPT !.name = body.name]]_vars
=============================================================================
