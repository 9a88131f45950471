------------------------------- MODULE Access -------------------------------
(***************************************************************************)
(* Who may do what with an entry (permissions/access_control.py), the      *)
(* grants it rests on (services/permissions.py) and the requests that ask  *)
(* it before they write. A request reads the caller, the entry and the     *)
(* grants in transactions of their own, and others change all three in     *)
(* between: each transaction is a step. A refusal before anything is read  *)
(* changes nothing and is a stuttering step.                               *)
(***************************************************************************)
EXTENDS Naturals, FiniteSets

CONSTANTS
  Requests,      \* slots of the server's thread pool
  UserIds,       \* accounts that exist at the start
  Roles,         \* the roles of users
  EntryIds,      \* ids the entries sequence hands out (never twice)
  GrantIds,      \* ids the entry_permissions sequence hands out (never twice)
  Offers,        \* the bodies of POST and PATCH .../permissions that clients send
  Patches,       \* the bodies of PATCH /entries/{id} that clients send
  Posts,         \* what the bodies of POST /entries say of level and deleted_at
  Unborn, Gone,  \* an id not handed out yet, an id whose row was deleted
  None

VARIABLES
  users,    \* [UserIds -> Roles or Gone]: the role of an account
  entries,  \* [EntryIds -> Row or Unborn or Gone]
  grants,   \* [GrantIds -> Grant or Unborn or Gone]: entry_permissions
  req,      \* [Requests -> Request]: what each running handler holds
  had       \* auxiliary: the rights a running request's caller had so far

vars == <<users, entries, grants, req, had>>

EntryPermission == {"read", "view_history", "edit", "edit_status", "edit_visibility",
                    "manage_relations", "manage_attachments", "manage_permissions",
                    "delete", "manage"}
VisibilityLevel == {"private", "internal", "restricted", "public"}

\* deleted: deleted_at is set, which hides a row from lists and not from get_entry.
Row == [owner : UserIds \union {None}, vis : VisibilityLevel, deleted : BOOLEAN]

\* A subject_type of group is a 422.
SubjectType == {"user", "role"}
Subject == UserIds \union Roles
Offer == [subject_type : SubjectType, subject_id : Subject, permission : EntryPermission]
Grant == [entry : EntryIds, subject_type : SubjectType, subject_id : Subject, permission : EntryPermission]

\* A body of PATCH .../permissions names some of the columns, each on its own.
GrantPatch == [subject_type : SubjectType \union {None}, subject_id : Subject \union {None},
               permission : EntryPermission \union {None}]

\* A body of PATCH /entries/{id}: "touch" has edit for title and data_json,
\* edit_status for status, manage for archived_at; deleted: it sets deleted_at.
Patch == [touch : SUBSET {"edit", "edit_status", "manage"},
          vis : VisibilityLevel \union {None}, owner : UserIds \union {None},
          deleted : BOOLEAN]

\* The user get_current_user returned; None is a caller without a token.
Caller == [id : UserIds, role : Roles]

Request ==
  [pc : {"idle", "entry", "checks", "again", "target", "write"},
   op : {"patch", "create", "update", "delete", "none"},
   caller : Caller \union {None}, entry : EntryIds \union {None},
   grant : GrantIds \union {None}, body : Patch \union GrantPatch \union {None},
   before : Row \union {None},        \* the row get_entry returned
   checks : SUBSET EntryPermission]   \* rights still to be asked for

EntryWriteRoles == {"head_admin", "admin", "manager", "editor"}
SchemaWriteRoles == {"head_admin", "admin", "manager"}

ASSUME AccessAssumption ==
  /\ UserIds \intersect Roles = {}
  /\ Offers \subseteq GrantPatch /\ Patches \subseteq Patch
  /\ Posts \subseteq [vis : VisibilityLevel, deleted : BOOLEAN]
  /\ Unborn # Gone /\ {Unborn, Gone} \intersect (Row \union Grant \union Roles) = {}
  /\ None \notin UserIds \union Roles \union EntryIds \union GrantIds
  /\ None \notin Row \union Caller \union VisibilityLevel \union EntryPermission \union SubjectType
  /\ None \notin Patch \union GrantPatch

Idle == [pc |-> "idle", op |-> "none", caller |-> None, entry |-> None, grant |-> None,
         body |-> None, before |-> None, checks |-> {}]

Live(e) == entries[e] \notin {Unborn, Gone}
LiveGrant(g) == grants[g] \notin {Unborn, Gone}
Present(u) == users[u] # Gone

-----------------------------------------------------------------------------
(* AccessControlService *)

\* list_permissions
GrantsOf(e) == {g \in GrantIds : LiveGrant(g) /\ grants[g].entry = e}
Granted(e) == {grants[g] : g \in GrantsOf(e)}

\* Mutant: manage implies no more than the other permissions do.
ImpliesItself(p) == {"read", p}

\* _PERMISSION_IMPLICATIONS
Implies(p) == IF p = "manage" THEN EntryPermission ELSE {"read", p}

\* _subject_matches
Matches(grant, caller) ==
  /\ caller # None
  /\ \/ grant.subject_type = "user" /\ grant.subject_id = caller.id
     \/ grant.subject_type = "role" /\ grant.subject_id = caller.role

\* _collect_matching_grants
Collected(granted, caller) ==
  UNION {Implies(g.permission) : g \in {h \in granted : Matches(h, caller)}}

HasAll(row, caller) ==
  caller # None /\ (caller.role = "head_admin" \/ row.owner = caller.id)

\* _is_visible
Visible(row, caller) ==
  \/ row.vis = "public"
  \/ row.vis = "internal" /\ caller # None

\* Mutant: nothing is special about private entries.
EffectiveOfAny(row, granted, caller) ==
  IF HasAll(row, caller) THEN EntryPermission
  ELSE {p \in {"read"} : Visible(row, caller)} \union Collected(granted, caller)

\* get_effective_permissions
Effective(row, granted, caller) ==
  IF HasAll(row, caller) THEN EntryPermission
  ELSE IF row.vis = "private" THEN {}
  ELSE {p \in {"read"} : Visible(row, caller)} \union Collected(granted, caller)

\* The WHERE clause of the global history: entries whose history is listed.
ListsHistory(row, granted, caller) ==
  /\ ~row.deleted
  /\ caller # None
  /\ \/ caller.role = "head_admin"
     \/ row.owner = caller.id
     \/ /\ row.vis # "private"
        /\ \E g \in granted :
             /\ g.permission \in {"view_history", "manage"}
             /\ \/ g.subject_type = "user" /\ g.subject_id = caller.id
                \/ g.subject_type = "role" /\ g.subject_id = caller.role

-----------------------------------------------------------------------------
Init ==
  /\ users \in [UserIds -> Roles]
  /\ entries = [e \in EntryIds |-> Unborn]
  /\ grants = [g \in GrantIds |-> Unborn]
  /\ req = [r \in Requests |-> Idle]
  /\ had = [r \in Requests |-> {}]

Finish(r) == req' = [req EXCEPT ![r] = Idle]

\* Writes of other components, each one transaction.

\* POST /entries, for the caller or for the owner the body names.
AddEntry(r, u, e, post, owner) ==
  /\ req[r].pc = "idle"
  /\ Present(u) /\ users[u] \in EntryWriteRoles
  /\ entries[e] = Unborn
  /\ Present(owner)
  /\ entries' = [entries EXCEPT ![e] = [owner |-> owner, vis |-> post.vis,
                                                deleted |-> post.deleted]]
  /\ UNCHANGED <<users, grants, req>>

\* DELETE /schemas/{id} takes entries, and their grants with them.
RemoveEntries(r, gone) ==
  /\ req[r].pc = "idle"
  /\ \E u \in UserIds : Present(u) /\ users[u] \in SchemaWriteRoles
  /\ \A e \in gone : Live(e)
  /\ entries' = [e \in EntryIds |-> IF e \in gone THEN Gone ELSE entries[e]]
  /\ grants' = [g \in GrantIds |-> IF LiveGrant(g) /\ grants[g].entry \in gone THEN Gone ELSE grants[g]]
  /\ UNCHANGED <<users, req>>

ChangeRole(r, u, role) ==
  /\ req[r].pc = "idle"
  /\ Present(u)
  /\ users' = [users EXCEPT ![u] = role]
  /\ UNCHANGED <<entries, grants, req>>

\* owner_id ... ON DELETE SET NULL. A grant names its subject as text and stays.
RemoveUser(r, u) ==
  /\ req[r].pc = "idle"
  /\ Present(u)
  /\ users' = [users EXCEPT ![u] = Gone]
  /\ entries' = [e \in EntryIds |-> IF Live(e) /\ entries[e].owner = u
                                    THEN [entries[e] EXCEPT !.owner = None] ELSE entries[e]]
  /\ UNCHANGED <<grants, req>>

-----------------------------------------------------------------------------
(* Requests that need a right on an entry *)

\* Mutant: a new owner is a column like the others.
NeedsUnlessOwner(op, body) ==
  IF op # "patch" THEN {"manage_permissions"}
  ELSE LET named == body.touch \union {p \in {"edit_visibility"} : body.vis # None}
                              \union {p \in {"manage"} : body.deleted} IN
       IF named = {} THEN {"edit"} ELSE named

\* The right the routers ask for, or _permissions_for_update.
Needs(op, body) ==
  IF op # "patch" THEN {"manage_permissions"}
  ELSE LET named == body.touch \union {p \in {"edit_visibility"} : body.vis # None}
                              \union {p \in {"manage"} : body.owner # None \/ body.deleted} IN
       IF named = {} THEN {"edit"} ELSE named

\* Bound: a creation starts only if an id is left for it.
IdsLeft ==
  Cardinality({q \in Requests : req[q].op = "create"})
    < Cardinality({g \in GrantIds : grants[g] = Unborn})

\* get_current_user and require_role. A body that names no column is
\* refused later and changes nothing.
Begin(r, u, op, e, g, body) ==
  /\ req[r].pc = "idle"
  /\ Present(u) /\ users[u] \in EntryWriteRoles
  /\ entries[e] # Unborn
  /\ op = "create" => IdsLeft
  /\ op \in {"update", "delete"} => grants[g] # Unborn
  /\ req' = [req EXCEPT ![r] = [Idle EXCEPT !.pc = "entry", !.op = op, !.entry = e, !.grant = g,
                                          !.caller = [id |-> u, role |-> users[u]], !.body = body]]
  /\ UNCHANGED <<users, entries, grants>>

ReadEntry(r) ==
  LET e == req[r].entry IN
  /\ req[r].pc = "entry"
  /\ \/ /\ Live(e)
        /\ req' = [req EXCEPT ![r].pc = "checks", ![r].before = entries[e],
                              ![r].checks = Needs(req[r].op, req[r].body)]
     \/ /\ ~Live(e)   \* 404
        /\ Finish(r)
  /\ UNCHANGED <<users, entries, grants>>

\* require_access: the grants of now against the entry of before.
Passes(r, p) == p \in Effective(req[r].before, Granted(req[r].entry), req[r].caller)

CheckAccess(r, p) ==
  /\ req[r].pc = "checks"
  /\ p \in req[r].checks
  /\ \/ /\ Passes(r, p)
        /\ LET left == req[r].checks \ {p} IN
           req' = [req EXCEPT ![r].checks = left,
                              ![r].pc = IF left # {} THEN "checks"
                                        ELSE IF req[r].op = "patch" THEN "write" ELSE "again"]
     \/ /\ ~Passes(r, p)   \* 403
        /\ Finish(r)
  /\ UNCHANGED <<users, entries, grants>>

\* The routers of permissions ask again, for the row get_entry gave them.
CheckAgain(r) ==
  /\ req[r].pc = "again"
  /\ \/ /\ Passes(r, "manage_permissions")
        /\ req' = [req EXCEPT ![r].pc = IF req[r].op = "create" THEN "write" ELSE "target"]
     \/ /\ ~Passes(r, "manage_permissions")
        /\ Finish(r)
  /\ UNCHANGED <<users, entries, grants>>

\* Mutant: any grant may be named under any entry.
BelongsAnywhere(g, e) == LiveGrant(g)

\* get_permission, and its entry_id is that of the path; then the entry exists.
Belongs(g, e) == LiveGrant(g) /\ grants[g].entry = e

ReadGrant(r) ==
  /\ req[r].pc = "target"
  /\ \/ /\ Belongs(req[r].grant, req[r].entry)
        /\ req' = [req EXCEPT ![r].pc = "write"]
     \/ /\ ~Belongs(req[r].grant, req[r].entry)   \* 404
        /\ Finish(r)
  /\ UNCHANGED <<users, entries, grants>>

\* Mutant: no UNIQUE constraint.
NeverTaken(row, g) == FALSE

\* uq_entry_permissions
Taken(row, g) == \E h \in GrantIds \ {g} : grants[h] = row

PutGrant(g, row) ==
  \/ ~Taken(row, g) /\ grants' = [grants EXCEPT ![g] = row]
  \/ Taken(row, g) /\ UNCHANGED grants   \* 409

CreateGrant(r, g) ==
  LET body == req[r].body
      row == [entry |-> req[r].entry, subject_type |-> body.subject_type,
              subject_id |-> body.subject_id, permission |-> body.permission] IN
  /\ req[r].pc = "write" /\ req[r].op = "create"
  /\ grants[g] = Unborn
  /\ \/ Live(req[r].entry) /\ PutGrant(g, row)
     \/ ~Live(req[r].entry) /\ UNCHANGED grants   \* foreign key, 500
  /\ Finish(r)
  /\ UNCHANGED <<users, entries>>

\* Mutant: a body without exclude_unset, where what it does not name is null.
AmendedAll(row, body) == 
  [row EXCEPT !.subject_type = body.subject_type, !.subject_id = body.subject_id,
              !.permission = body.permission]

\* The columns a body of PATCH .../permissions names.
Amended(row, body) ==
  [row EXCEPT !.subject_type = IF body.subject_type = None THEN @ ELSE body.subject_type,
              !.subject_id = IF body.subject_id = None THEN @ ELSE body.subject_id,
              !.permission = IF body.permission = None THEN @ ELSE body.permission]

UpdateGrant(r) ==
  LET g == req[r].grant IN
  /\ req[r].pc = "write" /\ req[r].op = "update"
  /\ \/ LiveGrant(g) /\ PutGrant(g, Amended(grants[g], req[r].body))
     \/ ~LiveGrant(g) /\ UNCHANGED grants   \* 404
  /\ Finish(r)
  /\ UNCHANGED <<users, entries>>

DeleteGrant(r) ==
  LET g == req[r].grant IN
  /\ req[r].pc = "write" /\ req[r].op = "delete"
  /\ \/ LiveGrant(g) /\ grants' = [grants EXCEPT ![g] = Gone]
     \/ ~LiveGrant(g) /\ UNCHANGED grants   \* 404
  /\ Finish(r)
  /\ UNCHANGED <<users, entries>>

\* UPDATE of the columns named: a 404 without the row, a 500 without the owner.
WriteEntry(r) ==
  LET e == req[r].entry  body == req[r].body
      fits == Live(e) /\ (body.owner # None => Present(body.owner)) IN
  /\ req[r].pc = "write" /\ req[r].op = "patch"
  /\ \/ /\ fits
        /\ entries' = [entries EXCEPT ![e] =
                         [owner |-> IF body.owner = None THEN @.owner ELSE body.owner,
                          vis |-> IF body.vis = None THEN @.vis ELSE body.vis,
                          deleted |-> @.deleted \/ body.deleted]]
     \/ /\ ~fits
        /\ UNCHANGED entries
  /\ Finish(r)
  /\ UNCHANGED <<users, grants>>

-----------------------------------------------------------------------------
Handler(r) ==
  \/ ReadEntry(r) \/ (\E p \in EntryPermission : CheckAccess(r, p)) \/ CheckAgain(r) \/ ReadGrant(r)
  \/ (\E g \in GrantIds : CreateGrant(r, g)) \/ UpdateGrant(r) \/ DeleteGrant(r) \/ WriteEntry(r)

Others(r) ==
  \/ \E u, owner \in UserIds, e \in EntryIds, post \in Posts : AddEntry(r, u, e, post, owner)
  \/ \E gone \in SUBSET EntryIds : RemoveEntries(r, gone)
  \/ \E u \in UserIds : RemoveUser(r, u) \/ \E role \in Roles : ChangeRole(r, u, role)

Arrival(r) ==
  \E u \in UserIds, e \in EntryIds :
    \/ \E body \in Patches : Begin(r, u, "patch", e, None, body)
    \/ \E body \in Offers : \/ body \in Offer /\ Begin(r, u, "create", e, None, body)
                            \/ \E g \in GrantIds : Begin(r, u, "update", e, g, body)
    \/ \E g \in GrantIds : Begin(r, u, "delete", e, g, None)

\* What the caller of r may do with its entry now, by the role its token names and
\* but for the entry being private.
Has(r) ==
  LET e == req[r].entry IN
  IF ~Live(e) THEN {}
  ELSE IF HasAll(entries[e], req[r].caller) THEN EntryPermission
  ELSE Collected(Granted(e), req[r].caller)

Remember == had' = [r \in Requests |-> IF req'[r].pc = "idle" THEN {} ELSE had[r] \union Has(r)']

\* Nothing is running: the server waits for a request.
Quiet == (\A r \in Requests : req[r].pc = "idle") /\ UNCHANGED vars

Next ==
  \/ (\E r \in Requests : Handler(r) \/ Others(r) \/ Arrival(r)) /\ Remember
  \/ Quiet

Spec == Init /\ [][Next]_vars

-----------------------------------------------------------------------------
(* Properties *)

TypeOK ==
  /\ users \in [UserIds -> Roles \union {Gone}]
  /\ entries \in [EntryIds -> Row \union {Unborn, Gone}]
  /\ grants \in [GrantIds -> Grant \union {Unborn, Gone}]
  /\ req \in [Requests -> Request]
  /\ had \in [Requests -> SUBSET EntryPermission]

\* No grant outlives its entry and no two grants of an entry say the same, whatever
\* overlaps: creations with the deletion of the entry, updates with creations.
GrantsIntact ==
  \A g \in GrantIds : LiveGrant(g) =>
    /\ Live(grants[g].entry)
    /\ \A h \in GrantIds \ {g} : grants[h] # grants[g]

\* A request writes only grants of the entry its path names, which is the entry its
\* caller was checked against; the other way a grant goes is with its entry.
OnlyGrantsOfTheEntry ==
  [][\A g \in GrantIds : (LiveGrant(g) /\ grants'[g] # grants[g]) =>
       \/ grants'[g] = Gone /\ entries'[grants[g].entry] = Gone
       \/ /\ \E r \in Requests : /\ req[r].pc = "write" /\ req'[r].pc = "idle"
                                 /\ req[r].entry = grants[g].entry
          /\ grants'[g] = Gone \/ grants'[g].entry = grants[g].entry]_vars

\* Two programs decide who may see an entry's history: the access control in Python
\* for GET /entries/{id}/history, the WHERE clause of GET /history in SQL. They differ
\* in soft deletion and in nothing else: the history of a soft-deleted entry is still
\* shown by the first, to those it was shown to before, and to nobody by the second.
HistoryRulesAgree ==
  \A e \in EntryIds : Live(e) =>
    \A caller \in Caller \union {None} :
      ListsHistory(entries[e], Granted(e), caller)
        <=> /\ ~entries[e].deleted
            /\ "view_history" \in Effective(entries[e], Granted(e), caller)

\* Who may do p with e now, said without the program: head admins and the owner
\* anything; others nothing with a private entry, and else what a grant of p or of
\* manage to them or to their role allows.
Entitled(caller, e, p) ==
  \/ caller.role = "head_admin" \/ entries[e].owner = caller.id
  \/ /\ entries[e].vis # "private"
     /\ \E g \in GrantsOf(e) :
          /\ <<grants[g].subject_type, grants[g].subject_id>>
               \in {<<"user", caller.id>>, <<"role", caller.role>>}
          /\ grants[g].permission \in {p, "manage"}

\* r is about to change its entry or a grant of it.
Writes(r) == req[r].pc = "write" /\ Live(req[r].entry)
NeededBy(r) ==
  LET body == req[r].body IN
  IF req[r].op = "patch"
  THEN body.touch \union (IF body.vis = None THEN {} ELSE {"edit_visibility"})
                  \union (IF body.owner = None /\ ~body.deleted THEN {} ELSE {"manage"})
  ELSE {"manage_permissions"}

\* With requests one at a time, a request that writes is entitled to it when it does.
WritersAreEntitled ==
  \A r \in Requests : Writes(r) =>
    \A p \in NeededBy(r) : Entitled(req[r].caller, req[r].entry, p)

\* However requests overlap, whoever writes had each of the rights it takes at some
\* moment of that very request, privacy aside: rights revoked before a request began
\* are of no use to it.
WritersWereEntitled == \A r \in Requests : req[r].pc = "write" => NeededBy(r) \subseteq had[r]

\* docs/entry_permissions.md: a private entry is opened by a grant.
GrantsOpenPrivateEntries ==
  \A e \in EntryIds, caller \in Caller : Live(e) =>
    Collected(Granted(e), caller) \subseteq Effective(entries[e], Granted(e), caller)
=============================================================================
