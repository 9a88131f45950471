---------------------------- MODULE AccountsProofs ----------------------------
(***************************************************************************)
(* Theorems of Accounts. Inv says what a running request may hold: it is   *)
(* enough for the properties that hold however requests overlap. With one  *)
(* request at a time nothing changes between the reads of a handler and    *)
(* its write, and SerialInv carries what was read up to the write.         *)
(***************************************************************************)
EXTENDS Accounts, TLAPS

\* What the checks passed so far say of a request.
WellFormed(q) ==
  /\ q.pc = "insert" => q.body \in Row /\ MayAssign(q.role, q.body.role)
  /\ q.pc \in {"load", "write"} =>
       /\ q.target \in UserIds /\ q.body \in Patch \union {None}
       /\ q.role \notin AdminRoles =>
            /\ q.target = q.actor /\ q.body \in Patch
            /\ q.body.role = None /\ q.body.active = None
  /\ (q.pc = "write" /\ q.body # None /\ q.body.role # None) => MayAssign(q.role, q.body.role)

Inv == TypeOK /\ \A r \in Requests : WellFormed(req[r])

\* Requests are handled one after the other.
OneAtATime == \A r, q \in Requests : r = q

\* One request at a time: what a pending write will do to the head admins is known.
WriteInv ==
  \A r \in Requests :
    LET u == req[r].target IN
    (req[r].pc = "write" /\ Live(u) /\ users[u].role = "head_admin") =>
      /\ req[r].role = "head_admin"
      /\ Removes(users[u], req[r].body, {"head_admin"}) =>
           "head_admin" \in req[r].checks \/ Remain(u, {"head_admin"})

\* Before the first start there is nobody; from then on there is a head admin.
HeadInv == (~up /\ \A u \in UserIds : users[u] = Unborn) \/ \E u \in UserIds : HeadAdmin(u)

\* A process that is not running handles nothing.
DownInv == up \/ \A r \in Requests : req[r].pc = "idle"

SerialInv == Inv /\ WriteInv /\ HeadInv /\ DownInv

-----------------------------------------------------------------------------
(* Types *)

LEMMA IdleOK == Idle \in Request /\ WellFormed(Idle) /\ Idle.pc = "idle"
  BY DEF Idle, Request, WellFormed

LEMMA RowsAreRecords ==
  ASSUME TypeOK, NEW u \in UserIds
  PROVE  /\ Live(u) => users[u] \in Row
         /\ users[u] = Unborn => ~Live(u)
  BY DEF TypeOK, Live

\* A step of request r that leaves it well formed leaves all of them so.
LEMMA RequestStep ==
  ASSUME Inv, NEW r \in Requests, NEW q \in Request, WellFormed(q),
         req' = [req EXCEPT ![r] = q]
  PROVE  req' \in [Requests -> Request] /\ \A s \in Requests : WellFormed(req'[s])
  <1>1. req \in [Requests -> Request]
    BY DEF Inv, TypeOK
  <1>2. \A s \in Requests : req'[s] = IF s = r THEN q ELSE req[s]
    BY <1>1
  <1>3. req' \in [Requests -> Request]
    BY <1>1
  <1>4. ASSUME NEW s \in Requests PROVE WellFormed(req'[s])
    <2>1. CASE s = r
      BY <1>2, <2>1
    <2>2. CASE s # r
      BY <1>2, <2>2 DEF Inv
    <2> QED BY <2>1, <2>2
  <1> QED BY <1>3, <1>4

LEMMA FinishStep ==
  ASSUME Inv, NEW r \in Requests, Finish(r)
  PROVE  req' \in [Requests -> Request] /\ \A s \in Requests : WellFormed(req'[s])
  BY IdleOK, RequestStep DEF Finish

LEMMA BeginStep ==
  ASSUME Inv, NEW r \in Requests, NEW actor \in UserIds, NEW pc \in {"insert", "load"},
         NEW target \in UserIds \union {None}, NEW body \in Patch \union Row \union {None},
         Begin(r, actor, pc, target, body),
         pc = "insert" => body \in Row /\ MayAssign(users[actor].role, body.role),
         pc = "load" =>
           /\ target \in UserIds /\ body \in Patch \union {None}
           /\ users[actor].role \notin AdminRoles =>
                /\ target = actor /\ body \in Patch
                /\ body.role = None /\ body.active = None
  PROVE  Inv'
  <1> DEFINE q == [Idle EXCEPT !.pc = pc, !.actor = actor, !.role = users[actor].role,
                               !.target = target, !.body = body]
  <1>1. users[actor] \in Row
    BY RowsAreRecords DEF Inv, Begin, Active
  <1>2. q \in Request
    BY <1>1 DEF Idle, Request, Row
  <1>3. q.pc = pc /\ q.actor = actor /\ q.role = users[actor].role /\ q.target = target /\ q.body = body
    BY DEF Idle
  <1>4. WellFormed(q)
    BY <1>3 DEF WellFormed
  <1>5. req' = [req EXCEPT ![r] = q] /\ UNCHANGED <<users, up>>
    BY DEF Begin
  <1>6. req' \in [Requests -> Request] /\ \A s \in Requests : WellFormed(req'[s])
    BY <1>2, <1>4, <1>5, RequestStep
  <1> QED BY <1>5, <1>6 DEF Inv, TypeOK

LEMMA PatchedType ==
  ASSUME NEW r \in Requests, NEW row \in Row, req[r].body \in Patch
  PROVE  Patched(r, row) \in Row
  BY AccountsAssumption DEF Patched, Row, Patch

LEMMA InvInit == Init => Inv
  BY IdleOK DEF Init, Inv, TypeOK

LEMMA InsertStep ==
  ASSUME Inv, NEW r \in Requests, NEW u \in UserIds, InsertUser(r, u)
  PROVE  Inv'
  <1>1. req[r].body \in Row
    BY DEF InsertUser, Inv, WellFormed
  <1>2. users' \in [UserIds -> Row \union {Unborn, Gone}]
    BY <1>1 DEF InsertUser, Inv, TypeOK
  <1>3. req' \in [Requests -> Request] /\ \A s \in Requests : WellFormed(req'[s])
    BY FinishStep DEF InsertUser
  <1> QED BY <1>2, <1>3 DEF InsertUser, Inv, TypeOK

LEMMA LoadStep ==
  ASSUME Inv, NEW r \in Requests, Load(r)
  PROVE  Inv'
  <1> DEFINE u == req[r].target
             body == req[r].body
             q == [req[r] EXCEPT !.pc = "write", !.checks = ChecksFor(users[u], body),
                                 !.seen = [role |-> users[u].role, active |-> users[u].active]]
  <1>0. req[r] \in Request /\ WellFormed(req[r]) /\ req[r].pc = "load"
    BY DEF Inv, TypeOK, Load
  <1>1. CASE Finish(r)
    <2>1. req' \in [Requests -> Request] /\ \A s \in Requests : WellFormed(req'[s])
      BY <1>1, FinishStep
    <2> QED BY <2>1 DEF Load, Inv, TypeOK
  <1>2. CASE /\ Live(u)
             /\ (body # None /\ body.role # None) => MayAssign(req[r].role, body.role)
             /\ req' = [req EXCEPT ![r].pc = "write", ![r].checks = ChecksFor(users[u], body),
                                   ![r].seen = [role |-> users[u].role, active |-> users[u].active]]
    <2>1. u \in UserIds
      BY <1>0 DEF WellFormed
    <2>2. users[u] \in Row
      BY <1>2, <2>1, RowsAreRecords DEF Inv
    <2>3. ChecksFor(users[u], body) \in SUBSET AdminRoles
      BY DEF ChecksFor
    <2>4. [role |-> users[u].role, active |-> users[u].active] \in [role : Roles, active : BOOLEAN]
      BY <2>2 DEF Row
    <2>5. q \in Request
      BY <1>0, <2>3, <2>4 DEF Request
    <2>6. /\ q.pc = "write" /\ q.target = req[r].target /\ q.body = req[r].body
          /\ q.role = req[r].role /\ q.actor = req[r].actor
      BY <1>0 DEF Request
    <2>7. WellFormed(q)
      BY <1>0, <1>2, <2>6 DEF WellFormed
    <2>8. req' = [req EXCEPT ![r] = q]
      BY <1>2
    <2>9. req' \in [Requests -> Request] /\ \A s \in Requests : WellFormed(req'[s])
      BY <2>5, <2>7, <2>8, RequestStep
    <2> QED BY <2>9 DEF Load, Inv, TypeOK
  <1> QED BY <1>1, <1>2 DEF Load

LEMMA CheckStep ==
  ASSUME Inv, NEW r \in Requests, NEW c \in AdminRoles, Check(r, c)
  PROVE  Inv'
  <1> DEFINE q == [req[r] EXCEPT !.checks = @ \ {c}]
  <1>0. req[r] \in Request /\ WellFormed(req[r])
    BY DEF Inv, TypeOK
  <1>1. CASE Finish(r)
    <2>1. req' \in [Requests -> Request] /\ \A s \in Requests : WellFormed(req'[s])
      BY <1>1, FinishStep
    <2> QED BY <2>1 DEF Check, Inv, TypeOK
  <1>2. CASE req' = [req EXCEPT ![r].checks = @ \ {c}]
    <2>1. q \in Request
      BY <1>0 DEF Request
    <2>2. /\ q.pc = req[r].pc /\ q.target = req[r].target /\ q.body = req[r].body
          /\ q.role = req[r].role /\ q.actor = req[r].actor
      BY <1>0 DEF Request
    <2>3. WellFormed(q)
      BY <1>0, <2>2 DEF WellFormed
    <2>4. req' = [req EXCEPT ![r] = q]
      BY <1>2
    <2>5. req' \in [Requests -> Request] /\ \A s \in Requests : WellFormed(req'[s])
      BY <2>1, <2>3, <2>4, RequestStep
    <2> QED BY <2>5 DEF Check, Inv, TypeOK
  <1> QED BY <1>1, <1>2 DEF Check

\* What a Write of r does to the row of its target.
LEMMA WriteEffect ==
  ASSUME Inv, NEW r \in Requests, Write(r)
  PROVE  LET u == req[r].target  body == req[r].body IN
         /\ u \in UserIds /\ body \in Patch \union {None}
         /\ \/ users' = users
            \/ /\ Live(u) /\ users[u] \in Row
               /\ \/ body = None /\ users' = [users EXCEPT ![u] = Gone]
                  \/ /\ body \in Patch
                     /\ Patched(r, users[u]) \in Row
                     /\ NameFree(Patched(r, users[u]).name, u)
                     /\ users' = [users EXCEPT ![u] = Patched(r, users[u])]
  <1> DEFINE u == req[r].target
             body == req[r].body
  <1>1. u \in UserIds /\ body \in Patch \union {None}
    BY DEF Write, Inv, WellFormed
  <1>2. CASE users' = users
    BY <1>1, <1>2
  <1>3. CASE Live(u) /\ body = None /\ users' = [users EXCEPT ![u] = Gone]
    BY <1>1, <1>3, RowsAreRecords DEF Inv
  <1>4. CASE /\ Live(u) /\ body # None
             /\ Patched(r, users[u]) # Gone => NameFree(Patched(r, users[u]).name, u)
             /\ users' = [users EXCEPT ![u] = Patched(r, users[u])]
    <2>1. users[u] \in Row
      BY <1>1, <1>4, RowsAreRecords DEF Inv
    <2>2. body \in Patch
      BY <1>1, <1>4
    <2>3. Patched(r, users[u]) \in Row
      BY <2>1, <2>2, PatchedType
    <2>4. Patched(r, users[u]) # Gone
      BY <2>3, AccountsAssumption
    <2> QED BY <1>1, <1>4, <2>1, <2>2, <2>3, <2>4
  <1> QED BY <1>2, <1>3, <1>4 DEF Write

LEMMA WriteStep ==
  ASSUME Inv, NEW r \in Requests, Write(r)
  PROVE  Inv'
  <1>1. users' \in [UserIds -> Row \union {Unborn, Gone}]
    BY WriteEffect DEF Inv, TypeOK
  <1>2. req' \in [Requests -> Request] /\ \A s \in Requests : WellFormed(req'[s])
    BY FinishStep DEF Write
  <1> QED BY <1>1, <1>2 DEF Write, Inv, TypeOK

LEMMA ArrivalStep ==
  ASSUME Inv, NEW r \in Requests, Arrival(r)
  PROVE  Inv'
  <1>1. ASSUME NEW actor \in UserIds, NEW patch \in Patches, UpdateMe(r, actor, patch)
        PROVE  Inv'
    <2> DEFINE body == [patch EXCEPT !.role = None, !.active = None]
    <2>1. patch \in Patch
      BY AccountsAssumption
    <2>2. body \in Patch /\ body.role = None /\ body.active = None
      BY <2>1 DEF Patch
    <2> QED BY <1>1, <2>2, BeginStep DEF UpdateMe
  <1>2. ASSUME NEW actor \in UserIds, NEW patch \in Patches, NEW target \in UserIds,
               UpdateUser(r, actor, target, patch)
        PROVE  Inv'
    <2>1. patch \in Patch
      BY AccountsAssumption
    <2> QED BY <1>2, <2>1, BeginStep DEF UpdateUser
  <1>3. ASSUME NEW actor \in UserIds, NEW target \in UserIds, DeleteUser(r, actor, target)
        PROVE  Inv'
    BY <1>3, BeginStep DEF DeleteUser
  <1>4. ASSUME NEW actor \in UserIds, NEW new \in NewUsers, CreateUser(r, actor, new)
        PROVE  Inv'
    <2> DEFINE body == [name |-> new.name, role |-> new.role, active |-> TRUE]
    <2>1. new \in [name : Names, role : Roles]
      BY AccountsAssumption
    <2>2. body \in Row /\ body.role = new.role
      BY <2>1 DEF Row
    <2> QED BY <1>4, <2>2, BeginStep DEF CreateUser
  <1> QED BY <1>1, <1>2, <1>3, <1>4 DEF Arrival

LEMMA InvStep == Inv /\ [Next]_vars => Inv'
  <1> SUFFICES ASSUME Inv, [Next]_vars PROVE Inv'
    OBVIOUS
  <1>1. CASE Boot
    <2>1. [name |-> DefaultName, role |-> "head_admin", active |-> TRUE] \in Row
      BY AccountsAssumption DEF Row, AdminRoles
    <2>2. users' \in [UserIds -> Row \union {Unborn, Gone}]
      BY <1>1, <2>1 DEF Boot, Inv, TypeOK
    <2> QED BY <1>1, <2>2 DEF Boot, Inv, TypeOK
  <1>2. CASE Crash
    BY <1>2, IdleOK DEF Crash, Inv, TypeOK
  <1>3. ASSUME NEW r \in Requests, Handler(r) PROVE Inv'
    BY <1>3, InsertStep, LoadStep, CheckStep, WriteStep DEF Handler
  <1>4. ASSUME NEW r \in Requests, Arrival(r) PROVE Inv'
    BY <1>4, ArrivalStep
  <1>5. CASE UNCHANGED vars
    BY <1>5 DEF vars, Inv, TypeOK
  <1> QED BY <1>1, <1>2, <1>3, <1>4, <1>5 DEF Next, Quiet

LEMMA InvHolds == Spec => []Inv
  BY InvInit, InvStep, PTL DEF Spec

\* Whatever overlaps, whatever the ids, names and bodies: the tables and the state
\* of every request keep their types (users.py with the constraints of init.sql).
THEOREM TypeCorrect == Spec => []TypeOK
  <1>1. Inv => TypeOK
    BY DEF Inv
  <1> QED BY <1>1, InvHolds, PTL

-----------------------------------------------------------------------------
(* Properties that hold however requests overlap *)

\* The steps that touch the table.
LEMMA UsersChange ==
  ASSUME [Next]_vars, users' # users
  PROVE  \/ Boot
         \/ \E r \in Requests, u \in UserIds : InsertUser(r, u)
         \/ \E r \in Requests : Write(r)
  BY DEF Next, vars, Quiet, Crash, Handler, Load, Check, Arrival, UpdateMe, UpdateUser, DeleteUser,
         CreateUser, Begin

\* A row that takes a free name leaves names unique.
LEMMA NameTaken ==
  ASSUME Inv, NamesUnique, NEW u \in UserIds, NEW row \in Row, NameFree(row.name, u),
         users' = [users EXCEPT ![u] = row]
  PROVE  NamesUnique'
  <1> SUFFICES ASSUME NEW v \in UserIds, NEW w \in UserIds, Live(v)', Live(w)',
                      users'[v].name = users'[w].name
               PROVE  v = w
    BY DEF NamesUnique
  <1>1. \A x \in UserIds : users'[x] = IF x = u THEN row ELSE users[x]
    BY DEF Inv, TypeOK
  <1>2. \A x \in UserIds \ {u} : Live(x)' => Live(x)
    BY <1>1 DEF Live
  <1> QED BY <1>1, <1>2 DEF NameFree, NamesUnique

\* No two accounts have the same name, although a name is compared by the INSERT or
\* the UPDATE alone and no request looks before.
THEOREM NamesStayUnique == Spec => []NamesUnique
  <1>1. Init => NamesUnique
    BY DEF Init, NamesUnique, Live
  <1>2. ASSUME Inv, NamesUnique, [Next]_vars PROVE NamesUnique'
    <2>1. CASE users' = users
      BY <1>2, <2>1 DEF NamesUnique, Live
    <2>2. CASE users' # users /\ Boot
      <3> DEFINE row == [name |-> DefaultName, role |-> "head_admin", active |-> TRUE]
      <3>1. PICK u \in UserIds : users' = [users EXCEPT ![u] = row]
        BY <2>2 DEF Boot
      <3>2. row \in Row
        BY AccountsAssumption DEF Row, AdminRoles
      <3>3. NameFree(row.name, u)
        BY <2>2 DEF Boot, NameFree
      <3> QED BY <1>2, <3>1, <3>2, <3>3, NameTaken
    <2>3. CASE users' # users /\ \E r \in Requests, u \in UserIds : InsertUser(r, u)
      <3>1. PICK r \in Requests, u \in UserIds : InsertUser(r, u)
        BY <2>3
      <3>2. req[r].body \in Row
        BY <1>2, <3>1 DEF InsertUser, Inv, WellFormed
      <3>3. NameFree(req[r].body.name, u) /\ users' = [users EXCEPT ![u] = req[r].body]
        BY <2>3, <3>1 DEF InsertUser
      <3> QED BY <1>2, <3>2, <3>3, NameTaken
    <2>4. CASE users' # users /\ \E r \in Requests : Write(r)
      <3>1. PICK r \in Requests : Write(r)
        BY <2>4
      <3> DEFINE u == req[r].target
      <3>2. u \in UserIds
        BY <1>2, <3>1, WriteEffect
      <3>3. CASE users' = [users EXCEPT ![u] = Gone]
        <4>1. \A x \in UserIds : users'[x] = IF x = u THEN Gone ELSE users[x]
          BY <1>2, <3>3 DEF Inv, TypeOK
        <4> QED BY <1>2, <4>1 DEF NamesUnique, Live
      <3>4. CASE /\ Patched(r, users[u]) \in Row
                 /\ NameFree(Patched(r, users[u]).name, u)
                 /\ users' = [users EXCEPT ![u] = Patched(r, users[u])]
        BY <1>2, <3>2, <3>4, NameTaken
      <3> QED BY <1>2, <2>4, <3>1, <3>3, <3>4, WriteEffect
    <2> QED BY <1>2, <2>1, <2>2, <2>3, <2>4, UsersChange
  <1> QED BY <1>1, <1>2, InvHolds, PTL DEF Spec

\* What a write changes, its request asked for: nothing read earlier finds its way
\* into the row, and a request of a non-administrator only renames its own account.
THEOREM WritesAreAsked == Spec => WritesOnlyWhatWasAsked
  <1> DEFINE Asked(u, r) ==
        LET body == req[r].body  row == users[u]  new == users'[u] IN
        /\ req[r].pc = "write" /\ req[r].target = u /\ req'[r].pc = "idle"
        /\ IF new = Gone THEN body = None
           ELSE \A c \in {"name", "role", "active"} : new[c] # row[c] => new[c] = body[c]
        /\ req[r].role \notin AdminRoles =>
             u = req[r].actor /\ new = [row EXCEPT !.name = body.name]
  <1>1. ASSUME Inv, [Next]_vars, NEW u \in UserIds, Live(u), users'[u] # users[u]
        PROVE  \E r \in Requests : Asked(u, r)
    <2>1. ~Boot
      BY <1>1 DEF Boot, Inv, TypeOK, Live
    <2>2. ASSUME NEW r \in Requests, NEW v \in UserIds PROVE ~InsertUser(r, v)
      BY <1>1 DEF InsertUser, Inv, TypeOK, Live
    <2>3. PICK r \in Requests : Write(r)
      BY <1>1, <2>1, <2>2, UsersChange
    <2>4. req[r].pc = "write" /\ WellFormed(req[r]) /\ req'[r].pc = "idle"
      BY <1>1, <2>3, IdleOK DEF Write, Finish, Inv, TypeOK
    <2>5. req[r].target = u
      BY <1>1, <2>3, WriteEffect DEF Inv, TypeOK
    <2>6. CASE req[r].body = None /\ users' = [users EXCEPT ![u] = Gone]
      <3>1. users'[u] = Gone
        BY <1>1, <2>6 DEF Inv, TypeOK
      <3>2. req[r].role \in AdminRoles
        BY <1>1, <2>4, <2>6, AccountsAssumption DEF WellFormed
      <3> QED BY <2>4, <2>5, <2>6, <3>1, <3>2
    <2>7. CASE /\ req[r].body \in Patch /\ Patched(r, users[u]) \in Row /\ users[u] \in Row
               /\ users' = [users EXCEPT ![u] = Patched(r, users[u])]
      <3>1. users'[u] = Patched(r, users[u]) /\ users'[u] # Gone
        BY <1>1, <2>7, AccountsAssumption DEF Inv, TypeOK
      <3>2. \A c \in {"name", "role", "active"} :
              users'[u][c] # users[u][c] => users'[u][c] = req[r].body[c]
        BY <3>1 DEF Patched
      <3>3. ASSUME req[r].role \notin AdminRoles
            PROVE  u = req[r].actor /\ users'[u] = [users[u] EXCEPT !.name = req[r].body.name]
        <4>1. u = req[r].actor /\ req[r].body.role = None /\ req[r].body.active = None
          BY <2>4, <2>5, <3>3 DEF WellFormed
        <4>2. /\ users'[u].role = users[u].role /\ users'[u].active = users[u].active
              /\ users'[u].name = IF req[r].body.name = None THEN users[u].name ELSE req[r].body.name
          BY <3>1, <4>1 DEF Patched
        <4>3. users'[u] \in Row /\ users[u] \in Row
          BY <2>7, <3>1
        <4>4. users'[u].name = req[r].body.name
          BY <1>1, <4>2, <4>3 DEF Row
        <4> QED BY <4>1, <4>2, <4>3, <4>4 DEF Row
      <3> QED BY <2>4, <2>5, <3>1, <3>2, <3>3
    <2> QED BY <1>1, <2>3, <2>5, <2>6, <2>7, WriteEffect
  <1>2. Inv /\ [Next]_vars =>
          [\A u \in UserIds : (Live(u) /\ users'[u] # users[u]) => \E r \in Requests : Asked(u, r)]_vars
    BY <1>1
  <1> QED BY <1>2, InvHolds, PTL DEF Spec, WritesOnlyWhatWasAsked

\* An administrator's role comes from a head admin, or from a start that found none.
THEOREM AdminsAreAppointed == Spec => AdminRolesComeFromHeads
  <1> DEFINE Promoted(u) == /\ Live(u)' /\ users'[u].role \in AdminRoles
                            /\ ~(Live(u) /\ users[u].role = users'[u].role)
             Appointed == \/ \E r \in Requests : req[r].pc \in {"insert", "write"} /\ req[r].role = "head_admin"
                                                 /\ req'[r].pc = "idle"
                          \/ ~up /\ \A v \in UserIds : Live(v) => users[v].role # "head_admin"
  <1>1. ASSUME Inv, [Next]_vars, NEW u \in UserIds, Promoted(u) PROVE Appointed
    <2>1. users' # users
      BY <1>1 DEF Live
    <2>2. CASE Boot
      BY <2>1, <2>2 DEF Boot
    <2>3. ASSUME NEW r \in Requests, NEW v \in UserIds, InsertUser(r, v) PROVE Appointed
      <3>1. users' = [users EXCEPT ![v] = req[r].body]
        BY <2>1, <2>3 DEF InsertUser
      <3>2. v = u /\ users'[u] = req[r].body
        BY <1>1, <3>1 DEF Inv, TypeOK, Live
      <3>3. req[r].role = "head_admin"
        BY <1>1, <2>3, <3>2 DEF InsertUser, Inv, WellFormed, MayAssign
      <3>4. req'[r].pc = "idle"
        BY <1>1, <2>3, IdleOK DEF InsertUser, Finish, Inv, TypeOK
      <3> QED BY <2>3, <3>3, <3>4 DEF InsertUser
    <2>4. ASSUME NEW r \in Requests, Write(r) PROVE Appointed
      <3>1. req[r].target = u /\ Live(u) /\ users[u] \in Row /\ users'[u] # users[u]
        BY <1>1, <2>1, <2>4, WriteEffect DEF Inv, TypeOK, Live
      <3>2. users'[u] # Gone
        BY <1>1 DEF Live
      <3>3. req[r].body \in Patch /\ users'[u] = Patched(r, users[u])
        BY <1>1, <2>1, <2>4, <3>1, <3>2, WriteEffect DEF Inv, TypeOK
      <3>4. req[r].body.role # None /\ users'[u].role = req[r].body.role
        BY <1>1, <3>1, <3>3 DEF Patched
      <3>5. req[r].role = "head_admin"
        BY <1>1, <2>4, <3>3, <3>4, AccountsAssumption DEF Write, Inv, WellFormed, MayAssign
      <3>6. req'[r].pc = "idle"
        BY <1>1, <2>4, IdleOK DEF Write, Finish, Inv, TypeOK
      <3> QED BY <2>4, <3>5, <3>6 DEF Write
    <2> QED BY <1>1, <2>1, <2>2, <2>3, <2>4, UsersChange
  <1>2. Inv /\ [Next]_vars => [\A u \in UserIds : Promoted(u) => Appointed]_vars
    BY <1>1
  <1> QED BY <1>2, InvHolds, PTL DEF Spec, AdminRolesComeFromHeads

-----------------------------------------------------------------------------
(* Requests one at a time *)

LEMMA SerialInit == Init => SerialInv
  <1>1. Init => WriteInv
    BY IdleOK DEF Init, WriteInv
  <1>2. Init => HeadInv
    BY DEF Init, HeadInv
  <1>3. Init => DownInv
    BY IdleOK DEF Init, DownInv
  <1> QED BY <1>1, <1>2, <1>3, InvInit DEF SerialInv

\* A Write leaves a head admin: the count before it found another, or it takes
\* nothing from the head admin it changes.
LEMMA WriteLeavesHead ==
  ASSUME Inv, WriteInv, NEW r \in Requests, Write(r), \E v \in UserIds : HeadAdmin(v)
  PROVE  (\E v \in UserIds : HeadAdmin(v))'
  <1> DEFINE u == req[r].target
             body == req[r].body
  <1>0. u \in UserIds /\ users \in [UserIds -> Row \union {Unborn, Gone}]
    BY WriteEffect DEF Inv, TypeOK
  <1>1. CASE users' = users
    BY <1>1 DEF HeadAdmin, Active, Live
  <1>2. CASE /\ users' # users /\ Live(u) /\ users[u] \in Row
             /\ users[u].role = "head_admin" /\ Removes(users[u], body, {"head_admin"})
    <2>1. Remain(u, {"head_admin"})
      BY <1>0, <1>2 DEF Write, WriteInv
    <2>2. PICK v \in UserIds \ {u} : HeadAdmin(v)
      BY <2>1 DEF Remain, HeadAdmin
    <2>3. users'[v] = users[v]
      BY <1>0, <1>2, <2>2, WriteEffect
    <2> QED BY <2>2, <2>3 DEF HeadAdmin, Active, Live
  <1>3. CASE /\ users' # users /\ Live(u) /\ users[u] \in Row
             /\ ~(users[u].role = "head_admin" /\ Removes(users[u], body, {"head_admin"}))
    <2>1. PICK v \in UserIds : HeadAdmin(v)
      OBVIOUS
    <2>2. CASE v # u
      <3>1. users'[v] = users[v]
        BY <1>0, <1>3, <2>1, <2>2, WriteEffect
      <3> QED BY <2>1, <3>1 DEF HeadAdmin, Active, Live
    <2>3. CASE v = u
      <3>1. users[u].role = "head_admin" /\ users[u].active = TRUE
        BY <1>3, <2>1, <2>3 DEF HeadAdmin, Active, Row
      <3>2. body # None /\ body.role \in {"head_admin", None} /\ body.active # FALSE
        BY <1>3, <3>1 DEF Removes
      <3>3. body \in Patch /\ users' = [users EXCEPT ![u] = Patched(r, users[u])]
        BY <1>3, <3>2, WriteEffect
      <3>4. users'[u] = Patched(r, users[u]) /\ Patched(r, users[u]) \in Row
        BY <1>0, <1>3, <3>3, PatchedType
      <3>5. body.active \in {TRUE, None}
        BY <3>2, <3>3 DEF Patch
      <3>6. users'[u].role = "head_admin" /\ users'[u].active = TRUE
        <4>1. /\ users'[u].role = IF body.role = None THEN users[u].role ELSE body.role
              /\ users'[u].active = IF body.active = None THEN users[u].active ELSE body.active
          BY <3>4 DEF Patched
        <4>2. CASE body.active = None
          BY <3>1, <3>2, <4>1, <4>2
        <4>3. CASE body.active = TRUE
          BY <3>1, <3>2, <4>1, <4>3
        <4> QED BY <3>5, <4>2, <4>3
      <3>7. users'[u] \notin {Unborn, Gone}
        BY <3>4, AccountsAssumption
      <3> QED BY <1>0, <3>6, <3>7 DEF HeadAdmin, Active, Live
    <2> QED BY <2>2, <2>3
  <1> QED BY <1>1, <1>2, <1>3, WriteEffect

\* A request that ends leaves none behind it.
LEMMA AllIdle ==
  ASSUME OneAtATime, Inv, NEW r \in Requests, Finish(r)
  PROVE  (WriteInv /\ DownInv)'
  <1>1. \A s \in Requests : req'[s].pc = "idle"
    BY IdleOK DEF OneAtATime, Finish, Inv, TypeOK
  <1> QED BY <1>1 DEF WriteInv, DownInv

LEMMA SameUsers ==
  ASSUME HeadInv, users' = users, up' = up
  PROVE  HeadInv'
  BY DEF HeadInv, HeadAdmin, Active, Live

\* Load takes note of what the write will need, as long as nobody else can write.
LEMMA SerialLoad ==
  ASSUME OneAtATime, SerialInv, NEW r \in Requests, Load(r), ~Finish(r)
  PROVE  (WriteInv /\ DownInv)'
  <1> DEFINE u == req[r].target
             body == req[r].body
  <1>1. /\ req[r].pc = "load" /\ UNCHANGED <<users, up>>
        /\ Live(u) /\ MayManage(req[r].role, users[u].role, u = req[r].actor)
        /\ req' = [req EXCEPT ![r].pc = "write", ![r].checks = ChecksFor(users[u], body),
                              ![r].seen = [role |-> users[u].role, active |-> users[u].active]]
    BY DEF Load
  <1>2. up /\ up'
    BY <1>1 DEF SerialInv, DownInv
  <1>3. req[r] \in Request /\ req \in [Requests -> Request]
    BY DEF SerialInv, Inv, TypeOK
  <1>4. /\ req'[r].target = u /\ req'[r].body = body /\ req'[r].role = req[r].role
        /\ req'[r].checks = ChecksFor(users[u], body)
    BY <1>1, <1>3 DEF Request
  <1>5. users[u].role = "head_admin" => req[r].role = "head_admin"
    BY <1>1 DEF MayManage
  <1>6. Removes(users[u], body, {"head_admin"}) => "head_admin" \in ChecksFor(users[u], body)
    BY DEF ChecksFor, AdminRoles
  <1>7. \A s \in Requests : s = r
    BY DEF OneAtATime
  <1> QED BY <1>1, <1>2, <1>4, <1>5, <1>6, <1>7 DEF WriteInv, DownInv

LEMMA SerialCheck ==
  ASSUME OneAtATime, SerialInv, NEW r \in Requests, NEW c \in AdminRoles, Check(r, c), ~Finish(r)
  PROVE  (WriteInv /\ DownInv)'
  <1>1. /\ req[r].pc = "write" /\ UNCHANGED <<users, up>>
        /\ Remain(req[r].target, IF c = "admin" THEN AdminRoles ELSE {"head_admin"})
        /\ req' = [req EXCEPT ![r].checks = @ \ {c}]
    BY DEF Check
  <1>2. up /\ up'
    BY <1>1 DEF SerialInv, DownInv
  <1>3. req[r] \in Request /\ req \in [Requests -> Request]
    BY DEF SerialInv, Inv, TypeOK
  <1>4. /\ req'[r].target = req[r].target /\ req'[r].body = req[r].body
        /\ req'[r].role = req[r].role /\ req'[r].checks = req[r].checks \ {c}
    BY <1>1, <1>3 DEF Request
  <1>5. c # "admin" => Remain(req[r].target, {"head_admin"})
    BY <1>1
  <1>6. \A s \in Requests : s = r
    BY DEF OneAtATime
  <1>7. Remain(req[r].target, {"head_admin"})' <=> Remain(req[r].target, {"head_admin"})
    BY <1>1, <1>4 DEF Remain, Active, Live
  <1> QED BY <1>1, <1>2, <1>4, <1>5, <1>6, <1>7 DEF WriteInv, DownInv, SerialInv, AdminRoles, Live

\* The beginning of a request reads and writes no row.
LEMMA SerialArrival ==
  ASSUME OneAtATime, SerialInv, NEW r \in Requests, Arrival(r)
  PROVE  (WriteInv /\ DownInv)' /\ UNCHANGED <<users, up>>
  <1>1. PICK actor \in UserIds, pc \in {"insert", "load"}, target \in UserIds \union {None},
             body \in Patch \union Row \union {None} \union
                      {[p EXCEPT !.role = None, !.active = None] : p \in Patches} :
          Begin(r, actor, pc, target, body)
    BY AccountsAssumption DEF Arrival, UpdateMe, UpdateUser, DeleteUser, CreateUser, Row
  <1>2. up /\ UNCHANGED <<users, up>>
    BY <1>1 DEF Begin
  <1>3. req'[r].pc # "write"
    BY <1>1 DEF Begin, Idle, SerialInv, Inv, TypeOK
  <1>4. \A s \in Requests : s = r
    BY DEF OneAtATime
  <1> QED BY <1>2, <1>3, <1>4 DEF WriteInv, DownInv

LEMMA SerialStep ==
  ASSUME OneAtATime, SerialInv, [Next]_vars
  PROVE  SerialInv'
  <1>0. Inv'
    BY InvStep DEF SerialInv
  <1>1. CASE Boot
    <2>1. (WriteInv /\ DownInv)'
      BY <1>1 DEF Boot, SerialInv, DownInv, WriteInv
    <2>2. (\E u \in UserIds : HeadAdmin(u))'
      <3>1. CASE users' = users
        <4>1. ASSUME \A u \in UserIds : users[u] = Unborn PROVE FALSE
          <5>1. \A u \in UserIds : ~Live(u)
            BY <4>1 DEF Live
          <5>2. PICK u \in UserIds : users' = [users EXCEPT ![u] =
                                       [name |-> DefaultName, role |-> "head_admin", active |-> TRUE]]
            BY <1>1, <5>1 DEF Boot
          <5>3. users'[u] \in Row
            BY <5>2, AccountsAssumption DEF SerialInv, Inv, TypeOK, Row, AdminRoles
          <5> QED BY <3>1, <4>1, <5>3, AccountsAssumption
        <4> QED BY <3>1, <4>1 DEF SerialInv, HeadInv, HeadAdmin, Active, Live
      <3>2. CASE users' # users
        <4> DEFINE row == [name |-> DefaultName, role |-> "head_admin", active |-> TRUE]
        <4>1. PICK u \in UserIds : users' = [users EXCEPT ![u] = row]
          BY <1>1, <3>2 DEF Boot
        <4>2. users'[u] = row /\ row \in Row
          BY <4>1, AccountsAssumption DEF SerialInv, Inv, TypeOK, Row, AdminRoles
        <4>3. row \notin {Unborn, Gone}
          BY <4>2, AccountsAssumption
        <4> QED BY <4>2, <4>3 DEF HeadAdmin, Active, Live
      <3> QED BY <3>1, <3>2
    <2> QED BY <1>0, <2>1, <2>2 DEF SerialInv, HeadInv
  <1>2. CASE Crash
    <2>1. (WriteInv /\ DownInv)'
      BY <1>2, IdleOK DEF Crash, WriteInv, DownInv
    <2>2. HeadInv'
      BY <1>2 DEF Crash, SerialInv, HeadInv, HeadAdmin, Active, Live
    <2> QED BY <1>0, <2>1, <2>2 DEF SerialInv
  <1>3. ASSUME NEW r \in Requests, NEW u \in UserIds, InsertUser(r, u)
        PROVE  SerialInv'
    <2>1. (WriteInv /\ DownInv)'
      BY <1>3, AllIdle DEF InsertUser, SerialInv
    <2>2. PICK v \in UserIds : HeadAdmin(v)
      BY <1>3 DEF InsertUser, SerialInv, HeadInv, DownInv
    <2>3. users'[v] = users[v]
      BY <1>3, <2>2 DEF InsertUser, SerialInv, Inv, TypeOK, HeadAdmin, Active, Live
    <2>4. HeadInv'
      BY <2>2, <2>3 DEF HeadInv, HeadAdmin, Active, Live
    <2> QED BY <1>0, <2>1, <2>4 DEF SerialInv
  <1>4. ASSUME NEW r \in Requests, Load(r) \/ \E c \in AdminRoles : Check(r, c)
        PROVE  SerialInv'
    <2>1. (WriteInv /\ DownInv)'
      BY <1>4, AllIdle, SerialLoad, SerialCheck DEF SerialInv
    <2>2. HeadInv'
      BY <1>4, SameUsers DEF Load, Check, SerialInv
    <2> QED BY <1>0, <2>1, <2>2 DEF SerialInv
  <1>5. ASSUME NEW r \in Requests, Write(r)
        PROVE  SerialInv'
    <2>1. (WriteInv /\ DownInv)'
      BY <1>5, AllIdle DEF Write, SerialInv
    <2>2. \E v \in UserIds : HeadAdmin(v)
      BY <1>5 DEF Write, SerialInv, HeadInv, DownInv
    <2>3. HeadInv'
      BY <1>5, <2>2, WriteLeavesHead DEF SerialInv, HeadInv
    <2> QED BY <1>0, <2>1, <2>3 DEF SerialInv
  <1>6. ASSUME NEW r \in Requests, Arrival(r)
        PROVE  SerialInv'
    BY <1>0, <1>6, SerialArrival, SameUsers DEF SerialInv
  <1>7. CASE UNCHANGED vars
    BY <1>0, <1>7, SameUsers DEF vars, SerialInv, WriteInv, DownInv, Remain, Active, Live
  <1> QED BY <1>1, <1>2, <1>3, <1>4, <1>5, <1>6, <1>7 DEF Next, Handler, Quiet

LEMMA SerialHolds == OneAtATime => (Spec => []SerialInv)
  <1> SUFFICES ASSUME OneAtATime PROVE Spec => []SerialInv
    OBVIOUS
  <1>1. SerialInv /\ [Next]_vars => SerialInv'
    BY SerialStep
  <1> QED BY <1>1, SerialInit, PTL DEF Spec

\* With requests one at a time the running server has an active head admin, from the
\* first start through every update, deletion, crash and restart.
THEOREM HeadAdminStays == OneAtATime => (Spec => []HeadAdminRemains)
  <1>1. SerialInv => HeadAdminRemains
    BY DEF SerialInv, HeadInv, HeadAdminRemains
  <1> QED BY <1>1, SerialHolds, PTL

\* With requests one at a time only head admins change or delete head admins.
THEOREM HeadsManageHeads == OneAtATime => (Spec => OnlyHeadsManageHeads)
  <1> SUFFICES ASSUME OneAtATime PROVE Spec => OnlyHeadsManageHeads
    OBVIOUS
  <1>1. ASSUME SerialInv, [Next]_vars, NEW u \in UserIds,
               Live(u), users[u].role = "head_admin", users'[u] # users[u]
        PROVE  \E r \in Requests : req[r].pc = "write" /\ req[r].target = u /\ req[r].role = "head_admin"
    <2>1. ~Boot
      BY <1>1 DEF Boot, SerialInv, Inv, TypeOK, Live
    <2>2. ASSUME NEW r \in Requests, NEW v \in UserIds PROVE ~InsertUser(r, v)
      BY <1>1 DEF InsertUser, SerialInv, Inv, TypeOK, Live
    <2>3. PICK r \in Requests : Write(r)
      BY <1>1, <2>1, <2>2, UsersChange
    <2>4. req[r].target = u
      BY <1>1, <2>3, WriteEffect DEF SerialInv, Inv, TypeOK
    <2> QED BY <1>1, <2>3, <2>4 DEF Write, SerialInv, WriteInv
  <1>2. SerialInv /\ [Next]_vars =>
          [\A u \in UserIds :
             (Live(u) /\ users[u].role = "head_admin" /\ users'[u] # users[u]) =>
               \E r \in Requests : req[r].pc = "write" /\ req[r].target = u /\ req[r].role = "head_admin"]_vars
    BY <1>1
  <1> QED BY <1>2, SerialHolds, PTL DEF Spec, OnlyHeadsManageHeads
===============================================================================
