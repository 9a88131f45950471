----------------------------- MODULE AccessProofs -----------------------------
(***************************************************************************)
(* Theorems of Access, for any number of overlapping requests. Inv says    *)
(* what a running request holds and that the grant it is about to write is *)
(* one of the entry it was checked against; Earned says that the checks    *)
(* passed so far are covered by rights the caller had while it ran.        *)
(***************************************************************************)
EXTENDS Access, TLAPS

\* What a running request holds, by the step it has reached.
WellFormed(q) ==
  /\ q.pc # "idle" =>
       /\ q.caller \in Caller /\ q.entry \in EntryIds
       /\ q.op \in {"patch", "create", "update", "delete"}
       /\ q.op = "patch" => q.body \in Patch
       /\ q.op = "create" => q.body \in Offer
       /\ q.op = "update" => q.body \in GrantPatch
       /\ q.op \in {"update", "delete"} => q.grant \in GrantIds
  /\ q.pc \in {"checks", "again", "target", "write"} => q.before \in Row
  /\ q.pc = "again" => q.op \in {"create", "update", "delete"}
  /\ q.pc = "target" => q.op \in {"update", "delete"}

\* A grant about to be updated or deleted belongs to the entry of the path, if it
\* still exists.
Targets(r) ==
  (req[r].pc = "write" /\ req[r].op \in {"update", "delete"}) =>
    LET g == req[r].grant IN
    grants[g] = Gone \/ (LiveGrant(g) /\ grants[g].entry = req[r].entry)

\* The types of the variables of the program.
Typed ==
  /\ users \in [UserIds -> Roles \union {Gone}]
  /\ entries \in [EntryIds -> Row \union {Unborn, Gone}]
  /\ grants \in [GrantIds -> Grant \union {Unborn, Gone}]
  /\ req \in [Requests -> Request]

Inv == Typed /\ GrantsIntact /\ \A r \in Requests : WellFormed(req[r]) /\ Targets(r)

-----------------------------------------------------------------------------
(* Requests *)

LEMMA IdleOK == Idle \in Request /\ WellFormed(Idle) /\ Idle.pc = "idle"
  BY DEF Idle, Request, WellFormed

\* A step of request r that leaves it well formed leaves all of them so.
LEMMA RequestStep ==
  ASSUME Inv, NEW r \in Requests, NEW q \in Request, WellFormed(q),
         req' = [req EXCEPT ![r] = q]
  PROVE  /\ req' \in [Requests -> Request]
         /\ \A s \in Requests : WellFormed(req'[s]) /\ req'[s] = IF s = r THEN q ELSE req[s]
  <1>1. req \in [Requests -> Request]
    BY DEF Inv, Typed
  <1>2. \A s \in Requests : req'[s] = IF s = r THEN q ELSE req[s]
    BY <1>1
  <1>3. req' \in [Requests -> Request]
    BY <1>1
  <1>4. ASSUME NEW s \in Requests PROVE WellFormed(req'[s])
    <2>1. CASE s = r
      BY <1>2, <2>1
    <2>2. CASE s # r
      BY <1>2, <2>2 DEF Inv
    <2> QED BY <2>1, <2>2
  <1> QED BY <1>2, <1>3, <1>4

LEMMA FinishStep ==
  ASSUME Inv, NEW r \in Requests, Finish(r)
  PROVE  /\ req' \in [Requests -> Request]
         /\ \A s \in Requests : WellFormed(req'[s]) /\ (req'[s].pc = "idle" \/ req'[s] = req[s])
         /\ req'[r].pc = "idle"
  <1>1. /\ req' \in [Requests -> Request]
        /\ \A s \in Requests : WellFormed(req'[s]) /\ req'[s] = IF s = r THEN Idle ELSE req[s]
    BY IdleOK, RequestStep DEF Finish
  <1> QED BY <1>1, IdleOK

-----------------------------------------------------------------------------
(* Rows and grants *)

LEMMA RowsAreLive ==
  ASSUME Typed, NEW e \in EntryIds
  PROVE  /\ Live(e) => entries[e] \in Row
         /\ entries[e] \in Row => Live(e)
  BY AccessAssumption DEF Typed, Live

LEMMA GrantsAreLive ==
  ASSUME Typed, NEW g \in GrantIds
  PROVE  /\ LiveGrant(g) => grants[g] \in Grant
         /\ grants[g] \in Grant => LiveGrant(g)
  BY AccessAssumption DEF Typed, LiveGrant

\* Whatever a step does to the grants, one handed out stays a grant of its entry
\* until it is gone for good.
GrantsKeepEntry ==
  \A g \in GrantIds : grants[g] # Unborn =>
    \/ grants'[g] = Gone
    \/ LiveGrant(g) /\ LiveGrant(g)' /\ grants'[g].entry = grants[g].entry

LEMMA SameGrants ==
  ASSUME Typed, UNCHANGED grants
  PROVE  GrantsKeepEntry
  BY DEF GrantsKeepEntry, LiveGrant

LEMMA TargetsKept ==
  ASSUME Inv, GrantsKeepEntry, NEW r \in Requests, req'[r] = req[r]
  PROVE  Targets(r)'
  <1> SUFFICES ASSUME req[r].pc = "write", req[r].op \in {"update", "delete"}
               PROVE  LET g == req[r].grant IN
                      grants'[g] = Gone \/ (LiveGrant(g)' /\ grants'[g].entry = req[r].entry)
    BY DEF Targets
  <1> DEFINE g == req[r].grant
  <1>1. g \in GrantIds
    BY DEF Inv, WellFormed
  <1>2. grants[g] = Gone \/ (LiveGrant(g) /\ grants[g].entry = req[r].entry)
    BY DEF Inv, Targets
  <1>3. grants[g] # Unborn
    BY <1>2, AccessAssumption DEF LiveGrant
  <1> QED BY <1>1, <1>2, <1>3 DEF GrantsKeepEntry, LiveGrant

\* Putting a grant in place of another one, or of none, keeps the table intact if
\* its entry exists.
LEMMA PutGrantStep ==
  ASSUME Typed, GrantsIntact, UNCHANGED entries,
         NEW g \in GrantIds, NEW row \in Grant, Live(row.entry), PutGrant(g, row)
  PROVE  /\ grants' \in [GrantIds -> Grant \union {Unborn, Gone}]
         /\ GrantsIntact'
         /\ \A h \in GrantIds : h # g => grants'[h] = grants[h]
         /\ grants'[g] \in {grants[g], row}
  <1>1. CASE UNCHANGED grants
    <2>1. GrantsIntact'
      BY <1>1 DEF GrantsIntact, Live, LiveGrant
    <2> QED BY <1>1, <2>1 DEF Typed
  <1>2. CASE ~Taken(row, g) /\ grants' = [grants EXCEPT ![g] = row]
    <2>1. \A h \in GrantIds : grants'[h] = IF h = g THEN row ELSE grants[h]
      BY <1>2 DEF Typed
    <2>2. \A h \in GrantIds \ {g} : grants[h] # row
      BY <1>2 DEF Taken
    <2>3. GrantsIntact'
      BY <2>1, <2>2 DEF GrantsIntact, Live, LiveGrant
    <2> QED BY <1>2, <2>1, <2>3 DEF Typed
  <1> QED BY <1>1, <1>2 DEF PutGrant

-----------------------------------------------------------------------------
(* Writes of other components *)

\* Entries that exist stay or, when their grants go as well, are removed.
LEMMA EntriesKept ==
  ASSUME Inv, UNCHANGED <<grants, req>>, \A e \in EntryIds : Live(e) => Live(e)'
  PROVE  GrantsIntact' /\ \A r \in Requests : WellFormed(req'[r]) /\ Targets(r)'
  <1>1. GrantsIntact'
    <2> SUFFICES ASSUME NEW g \in GrantIds, LiveGrant(g)
                 PROVE  Live(grants[g].entry)' /\ \A h \in GrantIds \ {g} : grants[h] # grants[g]
      BY DEF GrantsIntact, LiveGrant
    <2>1. grants[g].entry \in EntryIds /\ Live(grants[g].entry)
      BY GrantsAreLive DEF Inv, GrantsIntact, Grant
    <2>2. Live(grants[g].entry)'
      BY <2>1
    <2> QED BY <2>2 DEF Inv, GrantsIntact
  <1>2. GrantsKeepEntry
    BY SameGrants DEF Inv
  <1> QED BY <1>1, <1>2, TargetsKept DEF Inv

LEMMA AddEntryStep ==
  ASSUME Inv, NEW r \in Requests, NEW u \in UserIds, NEW owner \in UserIds, NEW e \in EntryIds,
         NEW post \in Posts, AddEntry(r, u, e, post, owner)
  PROVE  Inv'
  <1>1. [owner |-> owner, vis |-> post.vis, deleted |-> post.deleted] \in Row
    BY AccessAssumption DEF Row
  <1>2. entries' \in [EntryIds -> Row \union {Unborn, Gone}]
    BY <1>1 DEF AddEntry, Inv, Typed
  <1>3. ASSUME NEW f \in EntryIds, Live(f) PROVE Live(f)'
    BY <1>3 DEF AddEntry, Inv, Typed, Live
  <1> QED BY <1>2, <1>3, EntriesKept DEF AddEntry, Inv, Typed

LEMMA ChangeRoleStep ==
  ASSUME Inv, NEW r \in Requests, NEW u \in UserIds, NEW role \in Roles,
         ChangeRole(r, u, role)
  PROVE  Inv'
  <1>1. users' \in [UserIds -> Roles \union {Gone}]
    BY DEF ChangeRole, Inv, Typed
  <1> QED BY <1>1, EntriesKept DEF ChangeRole, Inv, Typed, Live

LEMMA RemoveUserStep ==
  ASSUME Inv, NEW r \in Requests, NEW u \in UserIds,
         RemoveUser(r, u)
  PROVE  Inv'
  <1>1. users' \in [UserIds -> Roles \union {Gone}]
    BY DEF RemoveUser, Inv, Typed
  <1>2. ASSUME NEW e \in EntryIds
        PROVE  /\ entries'[e] \in Row \union {Unborn, Gone}
               /\ Live(e) => entries'[e] \in Row
    <2>1. Live(e) => [entries[e] EXCEPT !.owner = None] \in Row
      BY RowsAreLive DEF Inv, Row
    <2>2. Live(e) => entries[e] \in Row
      BY RowsAreLive DEF Inv
    <2> QED BY <2>1, <2>2 DEF RemoveUser, Inv, Typed
  <1>3. entries' \in [EntryIds -> Row \union {Unborn, Gone}]
    BY <1>2 DEF RemoveUser
  <1>4. \A e \in EntryIds : Live(e) => Live(e)'
    BY <1>2, AccessAssumption DEF Live
  <1> QED BY <1>1, <1>3, <1>4, EntriesKept DEF RemoveUser, Inv, Typed

LEMMA RemoveEntriesStep ==
  ASSUME Inv, NEW r \in Requests, NEW gone \in SUBSET EntryIds,
         RemoveEntries(r, gone)
  PROVE  Inv' /\ GrantsKeepEntry
  <1>1. entries' \in [EntryIds -> Row \union {Unborn, Gone}] /\ grants' \in [GrantIds -> Grant \union {Unborn, Gone}]
    BY DEF RemoveEntries, Inv, Typed
  <1>2. \A g \in GrantIds : grants'[g] = IF LiveGrant(g) /\ grants[g].entry \in gone THEN Gone ELSE grants[g]
    BY DEF RemoveEntries
  <1>3. \A g \in GrantIds : LiveGrant(g)' => LiveGrant(g) /\ grants'[g] = grants[g] /\ grants[g].entry \notin gone
    BY <1>2 DEF LiveGrant
  <1>4. GrantsIntact'
    <2> SUFFICES ASSUME NEW g \in GrantIds, LiveGrant(g)'
                 PROVE  Live(grants[g].entry)' /\ \A h \in GrantIds \ {g} : grants'[h] # grants[g]
      BY <1>3 DEF GrantsIntact
    <2>1. LiveGrant(g) /\ grants[g].entry \notin gone
      BY <1>3
    <2>2. grants[g].entry \in EntryIds /\ Live(grants[g].entry)
      BY <2>1, GrantsAreLive DEF Inv, GrantsIntact, Grant
    <2>3. Live(grants[g].entry)'
      BY <2>1, <2>2 DEF RemoveEntries, Live
    <2>4. \A h \in GrantIds \ {g} : grants'[h] # grants[g]
      BY <1>2, <2>1 DEF Inv, GrantsIntact, LiveGrant
    <2> QED BY <2>3, <2>4
  <1>5. GrantsKeepEntry
    BY <1>2 DEF GrantsKeepEntry, LiveGrant, Inv, Typed
  <1>6. \A s \in Requests : Targets(s)'
    BY <1>5, TargetsKept DEF RemoveEntries
  <1> QED BY <1>1, <1>4, <1>5, <1>6 DEF RemoveEntries, Inv, Typed

-----------------------------------------------------------------------------
(* The handlers *)

\* A step of r that writes nothing and leaves r well formed, and its grant one of
\* its entry, preserves Inv.
LEMMA ReadStep ==
  ASSUME Inv, NEW r \in Requests, NEW q \in Request, WellFormed(q),
         req' = [req EXCEPT ![r] = q], UNCHANGED <<users, entries, grants>>,
         (q.pc = "write" /\ q.op \in {"update", "delete"}) =>
           LiveGrant(q.grant) /\ grants[q.grant].entry = q.entry
  PROVE  Inv'
  <1>1. /\ req' \in [Requests -> Request]
        /\ \A s \in Requests : WellFormed(req'[s]) /\ req'[s] = IF s = r THEN q ELSE req[s]
    BY RequestStep
  <1>2. ASSUME NEW s \in Requests PROVE Targets(s)'
    <2>1. CASE s = r
      BY <1>1, <2>1 DEF Targets, LiveGrant
    <2>2. CASE s # r
      BY <1>1, <2>2 DEF Inv, Targets, LiveGrant
    <2> QED BY <2>1, <2>2
  <1>3. GrantsIntact'
    BY DEF Inv, GrantsIntact, LiveGrant, Live
  <1> QED BY <1>1, <1>2, <1>3 DEF Inv, Typed

LEMMA FinishedStep ==
  ASSUME Inv, NEW r \in Requests, Finish(r), UNCHANGED <<users, entries, grants>>
  PROVE  Inv'
  BY IdleOK, ReadStep DEF Finish

LEMMA BeginStep ==
  ASSUME Inv, NEW r \in Requests, NEW u \in UserIds, NEW op \in {"patch", "create", "update", "delete"},
         NEW e \in EntryIds, NEW g \in GrantIds \union {None},
         NEW body \in Patch \union GrantPatch \union {None},
         Begin(r, u, op, e, g, body),
         op = "patch" => body \in Patch, op = "create" => body \in Offer,
         op = "update" => body \in GrantPatch, op \in {"update", "delete"} => g \in GrantIds
  PROVE  Inv'
  <1> DEFINE q == [Idle EXCEPT !.pc = "entry", !.op = op, !.entry = e, !.grant = g,
                               !.caller = [id |-> u, role |-> users[u]], !.body = body]
  <1>1. [id |-> u, role |-> users[u]] \in Caller
    BY DEF Begin, Present, Inv, Typed, Caller
  <1>2. q \in Request
    BY <1>1 DEF Idle, Request
  <1>3. WellFormed(q) /\ q.pc = "entry"
    BY <1>1 DEF Idle, WellFormed
  <1> QED BY <1>2, <1>3, ReadStep DEF Begin

LEMMA ArrivalStep ==
  ASSUME Inv, NEW r \in Requests, Arrival(r)
  PROVE  Inv'
  <1>1. PICK u \in UserIds, e \in EntryIds :
          \/ \E body \in Patches : Begin(r, u, "patch", e, None, body)
          \/ \E body \in Offers : \/ body \in Offer /\ Begin(r, u, "create", e, None, body)
                                  \/ \E g \in GrantIds : Begin(r, u, "update", e, g, body)
          \/ \E g \in GrantIds : Begin(r, u, "delete", e, g, None)
    BY DEF Arrival
  <1>2. ASSUME NEW body \in Patches, Begin(r, u, "patch", e, None, body) PROVE Inv'
    BY <1>2, BeginStep, AccessAssumption
  <1>3. ASSUME NEW body \in Offers, body \in Offer, Begin(r, u, "create", e, None, body) PROVE Inv'
    BY <1>3, BeginStep, AccessAssumption
  <1>4. ASSUME NEW body \in Offers, NEW g \in GrantIds, Begin(r, u, "update", e, g, body) PROVE Inv'
    BY <1>4, BeginStep, AccessAssumption
  <1>5. ASSUME NEW g \in GrantIds, Begin(r, u, "delete", e, g, None) PROVE Inv'
    BY <1>5, BeginStep
  <1> QED BY <1>1, <1>2, <1>3, <1>4, <1>5

LEMMA NeedsType ==
  ASSUME NEW op, NEW body, op = "patch" => body \in Patch
  PROVE  Needs(op, body) \in SUBSET (EntryPermission \ {"read"})
  BY DEF Needs, Patch, EntryPermission

LEMMA ReadEntryStep ==
  ASSUME Inv, NEW r \in Requests, ReadEntry(r)
  PROVE  Inv'
  <1> DEFINE e == req[r].entry
             q == [req[r] EXCEPT !.pc = "checks", !.before = entries[e],
                                 !.checks = Needs(req[r].op, req[r].body)]
  <1>1. CASE Finish(r)
    BY <1>1, FinishedStep DEF ReadEntry
  <1>2. CASE Live(e) /\ req' = [req EXCEPT ![r].pc = "checks", ![r].before = entries[e],
                                         ![r].checks = Needs(req[r].op, req[r].body)]
    <2>1. req[r] \in Request /\ WellFormed(req[r]) /\ req[r].pc = "entry"
      BY DEF Inv, Typed, ReadEntry
    <2>2. entries[e] \in Row
      BY <1>2, <2>1, RowsAreLive DEF Inv, WellFormed
    <2>3. Needs(req[r].op, req[r].body) \in SUBSET EntryPermission
      BY <2>1, NeedsType DEF WellFormed
    <2>4. q \in Request
      BY <2>1, <2>2, <2>3 DEF Request
    <2>5. WellFormed(q) /\ q.pc = "checks"
      BY <2>1, <2>2 DEF WellFormed, Request
    <2>6. req' = [req EXCEPT ![r] = q]
      BY <1>2 DEF Inv, Typed
    <2> QED BY <2>4, <2>5, <2>6, ReadStep DEF ReadEntry
  <1> QED BY <1>1, <1>2 DEF ReadEntry

LEMMA CheckAccessStep ==
  ASSUME Inv, NEW r \in Requests, NEW p \in EntryPermission, CheckAccess(r, p)
  PROVE  Inv'
  <1> DEFINE left == req[r].checks \ {p}
             pc == IF left # {} THEN "checks" ELSE IF req[r].op = "patch" THEN "write" ELSE "again"
             q == [req[r] EXCEPT !.checks = left, !.pc = pc]
  <1>1. CASE Finish(r)
    BY <1>1, FinishedStep DEF CheckAccess
  <1>2. CASE req' = [req EXCEPT ![r].checks = left, ![r].pc = pc]
    <2>1. req[r] \in Request /\ WellFormed(req[r]) /\ req[r].pc = "checks"
      BY DEF Inv, Typed, CheckAccess
    <2>2. q \in Request
      BY <2>1 DEF Request
    <2>3. WellFormed(q)
      BY <2>1 DEF WellFormed, Request
    <2>4. ~(q.pc = "write" /\ q.op \in {"update", "delete"})
      BY <2>1 DEF Request
    <2>5. req' = [req EXCEPT ![r] = q]
      BY <1>2 DEF Inv, Typed
    <2> QED BY <2>2, <2>3, <2>4, <2>5, ReadStep DEF CheckAccess
  <1> QED BY <1>1, <1>2 DEF CheckAccess

LEMMA CheckAgainStep ==
  ASSUME Inv, NEW r \in Requests, CheckAgain(r)
  PROVE  Inv'
  <1> DEFINE pc == IF req[r].op = "create" THEN "write" ELSE "target"
             q == [req[r] EXCEPT !.pc = pc]
  <1>1. CASE Finish(r)
    BY <1>1, FinishedStep DEF CheckAgain
  <1>2. CASE req' = [req EXCEPT ![r].pc = pc]
    <2>1. req[r] \in Request /\ WellFormed(req[r]) /\ req[r].pc = "again"
      BY DEF Inv, Typed, CheckAgain
    <2>2. q \in Request
      BY <2>1 DEF Request
    <2>3. WellFormed(q) /\ ~(q.pc = "write" /\ q.op \in {"update", "delete"})
      BY <2>1 DEF WellFormed, Request
    <2>4. req' = [req EXCEPT ![r] = q]
      BY <1>2 DEF Inv, Typed
    <2> QED BY <2>2, <2>3, <2>4, ReadStep DEF CheckAgain
  <1> QED BY <1>1, <1>2 DEF CheckAgain

LEMMA ReadGrantStep ==
  ASSUME Inv, NEW r \in Requests, ReadGrant(r)
  PROVE  Inv'
  <1> DEFINE q == [req[r] EXCEPT !.pc = "write"]
  <1>1. CASE Finish(r)
    BY <1>1, FinishedStep DEF ReadGrant
  <1>2. CASE Belongs(req[r].grant, req[r].entry) /\ req' = [req EXCEPT ![r].pc = "write"]
    <2>1. req[r] \in Request /\ WellFormed(req[r]) /\ req[r].pc = "target"
      BY DEF Inv, Typed, ReadGrant
    <2>2. q \in Request
      BY <2>1 DEF Request
    <2>3. WellFormed(q) /\ q.grant = req[r].grant /\ q.entry = req[r].entry
      BY <2>1 DEF WellFormed, Request
    <2>4. req' = [req EXCEPT ![r] = q]
      BY <1>2 DEF Inv, Typed
    <2> HIDE DEF q
    <2> QED BY <1>2, <2>2, <2>3, <2>4, ReadStep DEF ReadGrant, Belongs
  <1> QED BY <1>1, <1>2 DEF ReadGrant

-----------------------------------------------------------------------------
(* The writes *)

\* A request that finishes with a write of grants keeps Inv, if the tables stay
\* intact and grants keep their entries.
LEMMA WriteStep ==
  ASSUME Inv, NEW r \in Requests, Finish(r), UNCHANGED <<users, entries>>,
         grants' \in [GrantIds -> Grant \union {Unborn, Gone}], GrantsIntact', GrantsKeepEntry
  PROVE  Inv'
  <1>1. /\ req' \in [Requests -> Request]
        /\ \A s \in Requests : WellFormed(req'[s]) /\ (req'[s].pc = "idle" \/ req'[s] = req[s])
    BY FinishStep
  <1>2. \A s \in Requests : Targets(s)'
    BY <1>1, TargetsKept DEF Targets
  <1> QED BY <1>1, <1>2 DEF Inv, Typed

\* What each write does to the table of grants.
LEMMA CreateEffect ==
  ASSUME Inv, NEW r \in Requests, NEW g \in GrantIds, CreateGrant(r, g)
  PROVE  /\ grants' \in [GrantIds -> Grant \union {Unborn, Gone}]
         /\ GrantsIntact'
         /\ \A h \in GrantIds : h # g => grants'[h] = grants[h]
  <1> DEFINE body == req[r].body
             row == [entry |-> req[r].entry, subject_type |-> body.subject_type,
                     subject_id |-> body.subject_id, permission |-> body.permission]
  <1>1. row \in Grant /\ row.entry = req[r].entry
    BY DEF CreateGrant, Inv, WellFormed, Offer, Grant
  <1>2. CASE Live(req[r].entry) /\ PutGrant(g, row)
    BY <1>1, <1>2, PutGrantStep DEF CreateGrant, Inv
  <1>3. CASE UNCHANGED grants
    BY <1>3 DEF CreateGrant, Inv, Typed, GrantsIntact, LiveGrant, Live
  <1> QED BY <1>2, <1>3 DEF CreateGrant

LEMMA CreateGrantStep ==
  ASSUME Inv, NEW r \in Requests, NEW g \in GrantIds, CreateGrant(r, g)
  PROVE  Inv' /\ GrantsKeepEntry
  <1>1. GrantsKeepEntry
    BY CreateEffect DEF CreateGrant, GrantsKeepEntry, LiveGrant
  <1> QED BY <1>1, CreateEffect, WriteStep DEF CreateGrant

LEMMA AmendedType ==
  ASSUME NEW row \in Grant, NEW body \in GrantPatch
  PROVE  Amended(row, body) \in Grant /\ Amended(row, body).entry = row.entry
  BY DEF Amended, Grant, GrantPatch

LEMMA UpdateEffect ==
  ASSUME Inv, NEW r \in Requests, UpdateGrant(r)
  PROVE  /\ req[r].grant \in GrantIds
         /\ grants' \in [GrantIds -> Grant \union {Unborn, Gone}]
         /\ GrantsIntact'
         /\ \A h \in GrantIds : h # req[r].grant => grants'[h] = grants[h]
         /\ LiveGrant(req[r].grant) =>
              /\ grants'[req[r].grant] \in Grant
              /\ grants'[req[r].grant].entry = grants[req[r].grant].entry
         /\ ~LiveGrant(req[r].grant) => UNCHANGED grants
  <1> DEFINE g == req[r].grant
             row == Amended(grants[g], req[r].body)
  <1>1. g \in GrantIds /\ req[r].body \in GrantPatch
    BY DEF UpdateGrant, Inv, WellFormed
  <1>2. CASE LiveGrant(g) /\ PutGrant(g, row)
    <2>1. grants[g] \in Grant
      BY <1>1, <1>2, GrantsAreLive DEF Inv
    <2>2. row \in Grant /\ row.entry = grants[g].entry
      BY <1>1, <2>1, AmendedType
    <2>3. Live(row.entry)
      BY <1>1, <1>2, <2>2 DEF Inv, GrantsIntact
    <2>4. /\ grants' \in [GrantIds -> Grant \union {Unborn, Gone}] /\ GrantsIntact'
          /\ \A h \in GrantIds : h # g => grants'[h] = grants[h]
          /\ grants'[g] \in {grants[g], row}
      BY <1>1, <1>2, <2>2, <2>3, PutGrantStep DEF UpdateGrant, Inv
    <2>5. grants'[g] \in Grant /\ grants'[g].entry = grants[g].entry
      BY <2>1, <2>2, <2>4
    <2> QED BY <1>1, <1>2, <2>4, <2>5
  <1>3. CASE ~LiveGrant(g) /\ UNCHANGED grants
    BY <1>1, <1>3 DEF UpdateGrant, Inv, Typed, GrantsIntact, LiveGrant, Live
  <1> QED BY <1>2, <1>3 DEF UpdateGrant

LEMMA UpdateGrantStep ==
  ASSUME Inv, NEW r \in Requests, UpdateGrant(r)
  PROVE  Inv' /\ GrantsKeepEntry
  <1>1. ASSUME NEW h \in GrantIds, grants[h] # Unborn
        PROVE  \/ grants'[h] = Gone
               \/ LiveGrant(h) /\ LiveGrant(h)' /\ grants'[h].entry = grants[h].entry
    <2>1. CASE h = req[r].grant
      BY <1>1, <2>1, UpdateEffect, AccessAssumption DEF LiveGrant
    <2>2. CASE h # req[r].grant
      BY <1>1, <2>2, UpdateEffect DEF LiveGrant
    <2> QED BY <2>1, <2>2
  <1>2. GrantsKeepEntry
    BY <1>1 DEF GrantsKeepEntry
  <1> QED BY <1>2, UpdateEffect, WriteStep DEF UpdateGrant

LEMMA DeleteEffect ==
  ASSUME Inv, NEW r \in Requests, DeleteGrant(r)
  PROVE  /\ req[r].grant \in GrantIds
         /\ grants' \in [GrantIds -> Grant \union {Unborn, Gone}]
         /\ \A h \in GrantIds : h # req[r].grant => grants'[h] = grants[h]
         /\ grants'[req[r].grant] \in {Gone, grants[req[r].grant]}
  BY DEF DeleteGrant, Inv, WellFormed, Typed

LEMMA DeleteGrantStep ==
  ASSUME Inv, NEW r \in Requests, DeleteGrant(r)
  PROVE  Inv' /\ GrantsKeepEntry
  <1>1. \A h \in GrantIds : grants'[h] \in {Gone, grants[h]}
    BY DeleteEffect
  <1>2. GrantsKeepEntry
    BY <1>1 DEF GrantsKeepEntry, LiveGrant
  <1>3. GrantsIntact'
    BY <1>1 DEF DeleteGrant, Inv, GrantsIntact, LiveGrant, Live
  <1> QED BY <1>2, <1>3, DeleteEffect, WriteStep DEF DeleteGrant

LEMMA WriteEntryStep ==
  ASSUME Inv, NEW r \in Requests, WriteEntry(r)
  PROVE  Inv'
  <1> DEFINE e == req[r].entry
             body == req[r].body
             row == [owner |-> IF body.owner = None THEN entries[e].owner ELSE body.owner,
                     vis |-> IF body.vis = None THEN entries[e].vis ELSE body.vis,
                     deleted |-> entries[e].deleted \/ body.deleted]
  <1>1. e \in EntryIds /\ body \in Patch
    BY DEF WriteEntry, Inv, WellFormed
  <1>2. ASSUME Live(e) PROVE row \in Row
    <2>1. entries[e] \in Row
      BY <1>1, <1>2, RowsAreLive DEF Inv
    <2> QED BY <1>1, <2>1 DEF Row, Patch
  <1>3. ASSUME NEW f \in EntryIds
        PROVE  entries'[f] \in Row \union {Unborn, Gone} /\ (Live(f) => Live(f)')
    <2>1. CASE Live(e) /\ entries' = [entries EXCEPT ![e] = row]
      <3>1. row \in Row /\ row \notin {Unborn, Gone}
        BY <1>2, <2>1, AccessAssumption
      <3>2. entries'[f] = IF f = e THEN row ELSE entries[f]
        BY <2>1 DEF Inv, Typed
      <3> HIDE DEF row
      <3> QED BY <3>1, <3>2 DEF Inv, Typed, Live
    <2>2. CASE UNCHANGED entries
      BY <2>2 DEF Inv, Typed, Live
    <2> QED BY <2>1, <2>2 DEF WriteEntry
  <1>4. DOMAIN entries' = EntryIds /\ entries' = [f \in EntryIds |-> entries'[f]]
    BY DEF WriteEntry, Inv, Typed
  <1>5. entries' \in [EntryIds -> Row \union {Unborn, Gone}]
    BY <1>3, <1>4
  <1>6. /\ req' \in [Requests -> Request]
        /\ \A s \in Requests : WellFormed(req'[s]) /\ (req'[s].pc = "idle" \/ req'[s] = req[s])
    BY FinishStep DEF WriteEntry
  <1>7. GrantsIntact'
    <2> SUFFICES ASSUME NEW g \in GrantIds, LiveGrant(g)
                 PROVE  Live(grants[g].entry)' /\ \A h \in GrantIds \ {g} : grants[h] # grants[g]
      BY DEF GrantsIntact, LiveGrant, WriteEntry
    <2>1. grants[g].entry \in EntryIds /\ Live(grants[g].entry)
      BY GrantsAreLive DEF Inv, GrantsIntact, Grant
    <2>2. Live(grants[g].entry)'
      BY <1>3, <2>1 DEF WriteEntry, Live
    <2> QED BY <2>2 DEF Inv, GrantsIntact
  <1>8. GrantsKeepEntry
    BY SameGrants DEF WriteEntry, Inv
  <1>9. \A s \in Requests : Targets(s)'
    BY <1>6, <1>8, TargetsKept DEF Targets
  <1> QED BY <1>5, <1>6, <1>7, <1>9 DEF WriteEntry, Inv, Typed

-----------------------------------------------------------------------------
(* Types, and the table of grants *)

LEMMA InvInit == Init => Inv
  BY IdleOK, AccessAssumption DEF Init, Inv, Typed, GrantsIntact, LiveGrant, Targets

\* What grants allow is a set of permissions.
LEMMA HasType == Typed => \A r \in Requests : Has(r) \in SUBSET EntryPermission
  <1> SUFFICES ASSUME Typed, NEW r \in Requests PROVE Has(r) \in SUBSET EntryPermission
    OBVIOUS
  <1>1. ASSUME NEW e PROVE Collected(Granted(e), req[r].caller) \in SUBSET EntryPermission
    <2> SUFFICES ASSUME NEW g \in Granted(e), NEW p \in Implies(g.permission)
                 PROVE  p \in EntryPermission
      BY DEF Collected
    <2>1. g.permission \in EntryPermission
      BY GrantsAreLive DEF Granted, GrantsOf, Grant
    <2> QED BY <2>1 DEF Implies, EntryPermission
  <1> QED BY <1>1 DEF Has

LEMMA HasTypeNext == Typed' => (\A r \in Requests : Has(r) \in SUBSET EntryPermission)'
  BY HasType, PTL

LEMMA InvStep == Inv /\ [Next]_vars => Inv'
  <1> SUFFICES ASSUME Inv, [Next]_vars PROVE Inv'
    OBVIOUS
  <1>1. ASSUME NEW r \in Requests, Handler(r) PROVE Inv'
    BY <1>1, ReadEntryStep, CheckAccessStep, CheckAgainStep, ReadGrantStep, CreateGrantStep,
       UpdateGrantStep, DeleteGrantStep, WriteEntryStep DEF Handler
  <1>2. ASSUME NEW r \in Requests, Others(r) PROVE Inv'
    BY <1>2, AddEntryStep, RemoveEntriesStep, RemoveUserStep, ChangeRoleStep DEF Others
  <1>3. ASSUME NEW r \in Requests, Arrival(r) PROVE Inv'
    BY <1>3, ArrivalStep
  <1>4. CASE UNCHANGED vars
    BY <1>4 DEF vars, Inv, Typed, GrantsIntact, Targets, LiveGrant, Live
  <1> QED BY <1>1, <1>2, <1>3, <1>4 DEF Next, Quiet

\* Every variable keeps its type, the history variable among them.
THEOREM TypeCorrect == Spec => []TypeOK
  <1>1. Init => Inv /\ TypeOK
    BY InvInit DEF Init, Inv, Typed, TypeOK
  <1>2. Inv /\ TypeOK /\ [Next]_vars => Inv' /\ TypeOK'
    <2> SUFFICES ASSUME Inv, TypeOK, [Next]_vars PROVE Inv' /\ TypeOK'
      OBVIOUS
    <2>1. Inv'
      BY InvStep
    <2>2. \A r \in Requests : Has(r)' \in SUBSET EntryPermission
      BY <2>1, HasTypeNext DEF Inv
    <2>3. had' \in [Requests -> SUBSET EntryPermission]
      <3>1. CASE Remember
        BY <2>2, <3>1 DEF Remember, TypeOK
      <3>2. CASE UNCHANGED vars
        BY <3>2 DEF vars, TypeOK
      <3> QED BY <3>1, <3>2 DEF Next, Quiet
    <2> QED BY <2>1, <2>3 DEF Inv, Typed, TypeOK
  <1> QED BY <1>1, <1>2, PTL DEF Spec

LEMMA InvHolds == Spec => []Inv
  BY InvInit, InvStep, PTL DEF Spec

\* However requests overlap, a grant's entry exists and no two grants of an entry
\* say the same.
THEOREM GrantsStayIntact == Spec => []GrantsIntact
  BY InvHolds, PTL DEF Inv

LEMMA Reads ==
  ASSUME NEW r \in Requests,
         ReadEntry(r) \/ (\E p \in EntryPermission : CheckAccess(r, p)) \/ CheckAgain(r) \/ ReadGrant(r)
  PROVE  UNCHANGED <<users, entries, grants>>
  <1>1. CASE ReadEntry(r) BY <1>1 DEF ReadEntry
  <1>2. CASE \E p \in EntryPermission : CheckAccess(r, p) BY <1>2 DEF CheckAccess
  <1>3. CASE CheckAgain(r) BY <1>3 DEF CheckAgain
  <1>4. CASE ReadGrant(r) BY <1>4 DEF ReadGrant
  <1> QED BY <1>1, <1>2, <1>3, <1>4

\* A request changes only grants of the entry its caller was checked against; the
\* other way a grant goes is with its entry.
THEOREM OnlyThisEntrysGrants == Spec => OnlyGrantsOfTheEntry
  <1> DEFINE ByRequest(g) ==
               /\ \E r \in Requests : /\ req[r].pc = "write" /\ req'[r].pc = "idle"
                                      /\ req[r].entry = grants[g].entry
               /\ grants'[g] = Gone \/ grants'[g].entry = grants[g].entry
             WithEntry(g) == grants'[g] = Gone /\ entries'[grants[g].entry] = Gone
  <1>1. ASSUME Inv, [Next]_vars, NEW g \in GrantIds, LiveGrant(g), grants'[g] # grants[g]
        PROVE  WithEntry(g) \/ ByRequest(g)
    <2>0. grants[g] \in Grant /\ grants[g] # Unborn
      BY <1>1, GrantsAreLive DEF Inv, LiveGrant
    <2>1. ASSUME NEW r \in Requests, NEW h \in GrantIds, CreateGrant(r, h) PROVE FALSE
      BY <1>1, <2>0, <2>1, CreateEffect DEF CreateGrant
    <2>2. ASSUME NEW r \in Requests, UpdateGrant(r) \/ DeleteGrant(r) PROVE ByRequest(g)
      <3>1. req[r].grant = g
        BY <1>1, <2>2, UpdateEffect, DeleteEffect
      <3>2. req[r].pc = "write" /\ req[r].entry = grants[g].entry
        BY <1>1, <2>2, <3>1, <2>0 DEF UpdateGrant, DeleteGrant, Inv, Targets, LiveGrant
      <3>3. req'[r].pc = "idle"
        BY <1>1, <2>2, FinishStep DEF UpdateGrant, DeleteGrant
      <3>4. grants'[g] = Gone \/ grants'[g].entry = grants[g].entry
        BY <1>1, <2>2, <3>1, UpdateEffect, DeleteEffect
      <3> QED BY <3>2, <3>3, <3>4
    <2>3. ASSUME NEW r \in Requests, NEW gone \in SUBSET EntryIds, RemoveEntries(r, gone)
          PROVE  WithEntry(g)
      <3>1. grants[g].entry \in gone /\ grants'[g] = Gone
        BY <1>1, <2>3 DEF RemoveEntries
      <3> QED BY <2>3, <3>1 DEF RemoveEntries
    <2>4. ASSUME NEW r \in Requests PROVE Arrival(r) => UNCHANGED grants
      BY DEF Arrival, Begin
    <2>5. ASSUME NEW r \in Requests, Handler(r) PROVE UNCHANGED grants \/ ByRequest(g)
      BY <2>1, <2>2, <2>5, Reads DEF Handler, WriteEntry
    <2>6. ASSUME NEW r \in Requests, Others(r) PROVE UNCHANGED grants \/ WithEntry(g)
      BY <2>3, <2>6 DEF Others, AddEntry, ChangeRole, RemoveUser
    <2>7. UNCHANGED vars => UNCHANGED grants
      BY DEF vars
    <2> QED BY <1>1, <2>1, <2>2, <2>4, <2>5, <2>6, <2>7 DEF Next, Quiet
  <1>2. Inv /\ [Next]_vars =>
          [\A g \in GrantIds : (LiveGrant(g) /\ grants'[g] # grants[g]) =>
             \/ grants'[g] = Gone /\ entries'[grants[g].entry] = Gone
             \/ /\ \E r \in Requests : /\ req[r].pc = "write" /\ req'[r].pc = "idle"
                                       /\ req[r].entry = grants[g].entry
                /\ grants'[g] = Gone \/ grants'[g].entry = grants[g].entry]_vars
    BY <1>1
  <1> QED BY <1>2, InvHolds, PTL DEF Spec, OnlyGrantsOfTheEntry

-----------------------------------------------------------------------------
(* The two rules of who may see an entry's history *)

\* Of the permissions a grant implies, view_history comes with itself and manage.
LEMMA ImpliesHistory ==
  ASSUME NEW p \in EntryPermission
  PROVE  "view_history" \in Implies(p) <=> p \in {"view_history", "manage"}
  BY DEF Implies, EntryPermission

\* For every row of an entry, table of grants and caller, the query of the global
\* history lists what the access control shows, soft-deleted rows excepted.
LEMMA HistoryRules ==
  ASSUME NEW row \in Row, NEW caller \in Caller \union {None},
         NEW granted, \A g \in granted : g.permission \in EntryPermission
  PROVE  ListsHistory(row, granted, caller)
           <=> ~row.deleted /\ "view_history" \in Effective(row, granted, caller)
  <1>1. "view_history" \in Collected(granted, caller)
          <=> \E g \in granted : /\ Matches(g, caller)
                                 /\ g.permission \in {"view_history", "manage"}
    BY ImpliesHistory DEF Collected
  <1>2. "view_history" \in EntryPermission
    BY DEF EntryPermission
  <1> QED BY <1>1, <1>2 DEF ListsHistory, Effective, HasAll, Matches

\* The Python rule and the SQL rule of who may see an entry's history differ for the
\* entries with deleted_at set, which the SQL rule leaves out, and for no others.
THEOREM RulesAgree == Spec => []HistoryRulesAgree
  <1>1. Inv => HistoryRulesAgree
    <2> SUFFICES ASSUME Inv, NEW e \in EntryIds, Live(e), NEW caller \in Caller \union {None}
                 PROVE  ListsHistory(entries[e], Granted(e), caller)
                          <=> /\ ~entries[e].deleted
                              /\ "view_history" \in Effective(entries[e], Granted(e), caller)
      BY DEF HistoryRulesAgree
    <2>1. entries[e] \in Row
      BY RowsAreLive DEF Inv
    <2>2. \A g \in Granted(e) : g.permission \in EntryPermission
      BY GrantsAreLive DEF Inv, Granted, GrantsOf, Grant
    <2> QED BY <2>1, <2>2, HistoryRules
  <1> QED BY <1>1, InvHolds, PTL

-----------------------------------------------------------------------------
(* Whoever writes was entitled to it while it ran *)

\* Checks passed are covered by rights the caller had since the request began; if the
\* row it read made it owner or head admin, it had them all.
Earned(r) ==
  req[r].pc # "idle" =>
    /\ Has(r) \subseteq had[r]
    /\ (req[r].pc \in {"checks", "again", "target", "write"} /\ HasAll(req[r].before, req[r].caller)) =>
         EntryPermission \subseteq had[r]
    /\ req[r].pc = "checks" => /\ req[r].checks \subseteq EntryPermission \ {"read"}
                               /\ NeededBy(r) \ req[r].checks \subseteq had[r]
    /\ req[r].pc \in {"again", "target", "write"} => NeededBy(r) \subseteq had[r]

\* A step of one request leaves what the others hold alone.
LEMMA OthersStay ==
  ASSUME Typed, NEW r \in Requests, Handler(r) \/ Others(r) \/ Arrival(r),
         NEW s \in Requests, s # r
  PROVE  req'[s] = req[s]
  <1>1. CASE Others(r)
    BY <1>1 DEF Others, AddEntry, RemoveEntries, RemoveUser, ChangeRole
  <1>2. CASE Arrival(r)
    BY <1>2 DEF Arrival, Begin, Typed
  <1>3. CASE ReadEntry(r)
    BY <1>3 DEF ReadEntry, Finish, Typed
  <1>4. CASE \E p \in EntryPermission : CheckAccess(r, p)
    BY <1>4 DEF CheckAccess, Finish, Typed
  <1>5. CASE CheckAgain(r) \/ ReadGrant(r)
    BY <1>5 DEF CheckAgain, ReadGrant, Finish, Typed
  <1>6. CASE (\E g \in GrantIds : CreateGrant(r, g)) \/ UpdateGrant(r) \/ DeleteGrant(r) \/ WriteEntry(r)
    BY <1>6 DEF CreateGrant, UpdateGrant, DeleteGrant, WriteEntry, Finish, Typed
  <1> QED BY <1>1, <1>2, <1>3, <1>4, <1>5, <1>6 DEF Handler

\* A right that was needed and given is not given by visibility, so the caller has it
\* now or had it when the entry was read.
LEMMA PassedIsHad ==
  ASSUME Inv, NEW r \in Requests, Earned(r), req[r].pc = "checks",
         NEW p \in req[r].checks, Passes(r, p)
  PROVE  p \in had[r]
  <1> DEFINE e == req[r].entry
             caller == req[r].caller
  <1>1. CASE HasAll(req[r].before, caller)
    BY <1>1 DEF Earned, Inv, Typed, Request
  <1>2. CASE ~HasAll(req[r].before, caller)
    <2>0. p # "read" /\ p \in EntryPermission
      BY DEF Earned
    <2>1. p \in Collected(Granted(e), caller)
      BY <1>2, <2>0 DEF Passes, Effective
    <2>2. \E g \in GrantIds : LiveGrant(g) /\ grants[g].entry = e
      BY <2>1 DEF Collected, Granted, GrantsOf
    <2>3. Live(e)
      BY <2>2 DEF Inv, GrantsIntact
    <2>4. p \in Has(r)
      BY <2>0, <2>1, <2>3 DEF Has
    <2> QED BY <2>4 DEF Earned
  <1> QED BY <1>1, <1>2

LEMMA NeededIsNeeds ==
  ASSUME NEW r \in Requests
  PROVE  NeededBy(r) \subseteq Needs(req[r].op, req[r].body)
  BY DEF NeededBy, Needs

\* What stays true of a request while others act, since had only grows.
LEMMA EarnedKept ==
  ASSUME Inv, NEW r \in Requests, Earned(r), Remember, req'[r] = req[r]
  PROVE  Earned(r)'
  <1> SUFFICES ASSUME req[r].pc # "idle" PROVE Earned(r)'
    BY DEF Earned
  <1>1. had'[r] = had[r] \union Has(r)'
    BY DEF Remember
  <1>2. NeededBy(r)' = NeededBy(r)
    BY DEF NeededBy
  <1> QED BY <1>1, <1>2 DEF Earned, HasAll

LEMMA EarnedRead ==
  ASSUME Inv, NEW r \in Requests, Earned(r), Remember, ReadEntry(r)
  PROVE  Earned(r)'
  <1> DEFINE e == req[r].entry
             q == [req[r] EXCEPT !.pc = "checks", !.before = entries[e],
                                 !.checks = Needs(req[r].op, req[r].body)]
  <1>1. CASE Finish(r)
    BY <1>1, FinishStep DEF Earned
  <1>2. CASE Live(e) /\ req' = [req EXCEPT ![r].pc = "checks", ![r].before = entries[e],
                                         ![r].checks = Needs(req[r].op, req[r].body)]
    <2>1. req[r] \in Request /\ WellFormed(req[r]) /\ req[r].pc = "entry"
      BY DEF Inv, Typed, ReadEntry
    <2>2. /\ req'[r].pc = "checks" /\ req'[r].before = entries[e]
          /\ req'[r].checks = Needs(req[r].op, req[r].body)
          /\ req'[r].caller = req[r].caller /\ req'[r].op = req[r].op /\ req'[r].body = req[r].body
      BY <1>2, <2>1 DEF Inv, Typed, Request
    <2>3. had'[r] = had[r] \union Has(r)'
      BY <2>2 DEF Remember
    <2>4. HasAll(entries[e], req[r].caller) => EntryPermission \subseteq had[r]
      BY <1>2, <2>1 DEF Earned, Has
    <2>5. NeededBy(r)' \subseteq req'[r].checks
      BY <2>2, NeededIsNeeds DEF NeededBy
    <2>6. req'[r].checks \subseteq EntryPermission \ {"read"}
      BY <2>1, <2>2, NeedsType DEF WellFormed
    <2> QED BY <2>2, <2>3, <2>4, <2>5, <2>6 DEF Earned, HasAll
  <1> QED BY <1>1, <1>2 DEF ReadEntry

LEMMA EarnedCheck ==
  ASSUME Inv, NEW r \in Requests, Earned(r), Remember, NEW p \in EntryPermission, CheckAccess(r, p)
  PROVE  Earned(r)'
  <1> DEFINE left == req[r].checks \ {p}
             pc == IF left # {} THEN "checks" ELSE IF req[r].op = "patch" THEN "write" ELSE "again"
  <1>1. CASE Finish(r)
    BY <1>1, FinishStep DEF Earned
  <1>2. CASE Passes(r, p) /\ req' = [req EXCEPT ![r].checks = left, ![r].pc = pc]
    <2>1. req[r] \in Request /\ req[r].pc = "checks" /\ p \in req[r].checks
      BY DEF Inv, Typed, CheckAccess
    <2>2. /\ req'[r].pc = pc /\ req'[r].checks = left /\ req'[r].before = req[r].before
          /\ req'[r].caller = req[r].caller /\ req'[r].op = req[r].op /\ req'[r].body = req[r].body
      BY <1>2, <2>1 DEF Inv, Typed, Request
    <2>3. had'[r] = had[r] \union Has(r)'
      BY <2>2 DEF Remember
    <2>4. p \in had[r]
      BY <1>2, <2>1, PassedIsHad
    <2>5. NeededBy(r)' = NeededBy(r)
      BY <2>2 DEF NeededBy
    <2>6. NeededBy(r) \ left \subseteq had[r] /\ left \subseteq EntryPermission \ {"read"}
      BY <2>1, <2>4 DEF Earned
    <2>7. HasAll(req[r].before, req[r].caller) => EntryPermission \subseteq had[r]
      BY <2>1 DEF Earned
    <2>8. left = {} => NeededBy(r) \subseteq had[r]
      BY <2>6
    <2>9. pc = "checks" <=> left # {}
      OBVIOUS
    <2> HIDE DEF left, pc
    <2> QED BY <2>2, <2>3, <2>5, <2>6, <2>7, <2>8, <2>9 DEF Earned, HasAll
  <1> QED BY <1>1, <1>2 DEF CheckAccess

\* Steps after the checks of an administration of grants.
LEMMA EarnedAfter ==
  ASSUME Inv, NEW r \in Requests, Earned(r), Remember, CheckAgain(r) \/ ReadGrant(r)
  PROVE  Earned(r)'
  <1>1. CASE Finish(r)
    BY <1>1, FinishStep DEF Earned
  <1>2. CASE \E pc \in {"write", "target"} : req' = [req EXCEPT ![r].pc = pc]
    <2>1. req[r] \in Request /\ req[r].pc \in {"again", "target"}
      BY DEF Inv, Typed, CheckAgain, ReadGrant
    <2>2. /\ req'[r].pc \in {"write", "target"} /\ req'[r].before = req[r].before
          /\ req'[r].caller = req[r].caller /\ req'[r].op = req[r].op /\ req'[r].body = req[r].body
      BY <1>2, <2>1 DEF Inv, Typed, Request
    <2>3. had'[r] = had[r] \union Has(r)'
      BY <2>2 DEF Remember
    <2>4. NeededBy(r)' = NeededBy(r)
      BY <2>2 DEF NeededBy
    <2> QED BY <2>1, <2>2, <2>3, <2>4 DEF Earned, HasAll
  <1> QED BY <1>1, <1>2 DEF CheckAgain, ReadGrant

LEMMA EarnedArrival ==
  ASSUME Inv, NEW r \in Requests, Remember, Arrival(r)
  PROVE  Earned(r)'
  <1>1. ASSUME NEW u, NEW op, NEW e, NEW g, NEW body, Begin(r, u, op, e, g, body)
        PROVE  req'[r].pc = "entry"
    BY <1>1 DEF Begin, Idle, Inv, Typed
  <1>2. req'[r].pc = "entry"
    BY <1>1 DEF Arrival
  <1>3. had'[r] = had[r] \union Has(r)'
    BY <1>2 DEF Remember
  <1> QED BY <1>2, <1>3 DEF Earned

LEMMA EarnedStep ==
  ASSUME Inv, NEW r \in Requests, Earned(r), [Next]_vars
  PROVE  Earned(r)'
  <1>1. CASE UNCHANGED vars
    BY <1>1 DEF vars, Earned, HasAll, NeededBy, Has, Live, Collected, Granted, GrantsOf, LiveGrant
  <1>2. ASSUME NEW s \in Requests, Handler(s) \/ Others(s) \/ Arrival(s), Remember
        PROVE  Earned(r)'
    <2>1. CASE s # r \/ Others(s)
      <3>1. req'[r] = req[r]
        BY <1>2, <2>1, OthersStay DEF Inv, Others, AddEntry, RemoveEntries, RemoveUser, ChangeRole
      <3> QED BY <1>2, <3>1, EarnedKept
    <2>2. CASE s = r /\ Arrival(s)
      BY <1>2, <2>2, EarnedArrival
    <2>3. CASE s = r /\ Handler(s)
      <3>1. CASE Finish(r)
        BY <3>1, FinishStep DEF Earned
      <3>2. CASE ~Finish(r)
        BY <1>2, <2>3, <3>2, EarnedRead, EarnedCheck, EarnedAfter
           DEF Handler, CreateGrant, UpdateGrant, DeleteGrant, WriteEntry
      <3> QED BY <3>1, <3>2
    <2> QED BY <1>2, <2>1, <2>2, <2>3
  <1> QED BY <1>1, <1>2 DEF Next, Quiet

\* However requests overlap, whoever writes had each right it takes while the request
\* ran, but for the entry being private.
THEOREM WritersEntitled == Spec => []WritersWereEntitled
  <1> DEFINE AllEarned == \A r \in Requests : Earned(r)
  <1>1. Init => AllEarned
    BY IdleOK DEF Init, Earned
  <1>2. Inv /\ AllEarned /\ [Next]_vars => AllEarned'
    BY EarnedStep
  <1>3. AllEarned => WritersWereEntitled
    BY DEF Earned, WritersWereEntitled
  <1> QED BY <1>1, <1>2, <1>3, InvHolds, PTL DEF Spec
-----------------------------------------------------------------------------
(* Whoever writes is entitled to it, with requests one at a time *)

OneAtATime == \A r, q \in Requests : r = q

\* The row a request read is the row that is there, and the checks it passed would
\* pass now.
Allowed(r) ==
  /\ req[r].pc \in {"checks", "again", "target", "write"} =>
       req[r].before = entries[req[r].entry]
  /\ req[r].pc = "checks" => \A p \in NeededBy(r) \ req[r].checks : Passes(r, p)
  /\ req[r].pc \in {"again", "target", "write"} => \A p \in NeededBy(r) : Passes(r, p)

AllAllowed == \A r \in Requests : Allowed(r)

\* What passes is read from these parts of the state.
LEMMA SamePasses ==
  ASSUME NEW r \in Requests, UNCHANGED <<entries, grants>>,
         UNCHANGED <<req[r].op, req[r].body, req[r].caller, req[r].entry, req[r].before>>
  PROVE  /\ NeededBy(r)' = NeededBy(r)
         /\ \A p : Passes(r, p)' = Passes(r, p)
  <1>1. NeededBy(r)' = NeededBy(r)
    BY DEF NeededBy
  <1>2. Granted(req[r].entry)' = Granted(req[r].entry)
    BY DEF Granted, GrantsOf, LiveGrant
  <1>3. ASSUME NEW p PROVE Passes(r, p)' = Passes(r, p)
    BY <1>2 DEF Passes, Effective, HasAll, Visible, Collected
  <1> QED BY <1>1, <1>3

LEMMA AllowedRead ==
  ASSUME Inv, NEW r \in Requests, Allowed(r), ReadEntry(r)
  PROVE  Allowed(r)'
  <1> DEFINE e == req[r].entry
  <1>1. CASE Finish(r)
    BY <1>1, FinishStep DEF Allowed
  <1>2. CASE req' = [req EXCEPT ![r].pc = "checks", ![r].before = entries[e],
                                ![r].checks = Needs(req[r].op, req[r].body)]
    <2>1. /\ req'[r].pc = "checks" /\ req'[r].before = entries[e] /\ req'[r].entry = e
          /\ req'[r].checks = Needs(req[r].op, req[r].body)
          /\ req'[r].op = req[r].op /\ req'[r].body = req[r].body /\ entries' = entries
      BY <1>2 DEF Inv, Typed, Request, ReadEntry
    <2>2. NeededBy(r)' \subseteq req'[r].checks
      BY <2>1, NeededIsNeeds DEF NeededBy
    <2> QED BY <2>1, <2>2 DEF Allowed
  <1> QED BY <1>1, <1>2 DEF ReadEntry

LEMMA AllowedCheck ==
  ASSUME Inv, NEW r \in Requests, Allowed(r), NEW p \in EntryPermission, CheckAccess(r, p)
  PROVE  Allowed(r)'
  <1> DEFINE left == req[r].checks \ {p}
             pc == IF left # {} THEN "checks" ELSE IF req[r].op = "patch" THEN "write" ELSE "again"
  <1>1. CASE Finish(r)
    BY <1>1, FinishStep DEF Allowed
  <1>2. CASE Passes(r, p) /\ req' = [req EXCEPT ![r].checks = left, ![r].pc = pc]
    <2>1. /\ req'[r].pc = pc /\ req'[r].checks = left /\ UNCHANGED <<entries, grants>>
          /\ UNCHANGED <<req[r].op, req[r].body, req[r].caller, req[r].entry, req[r].before>>
      BY <1>2 DEF Inv, Typed, Request, CheckAccess
    <2>2. /\ NeededBy(r)' = NeededBy(r)
          /\ \A t : Passes(r, t)' = Passes(r, t)
      BY <2>1, SamePasses
    <2>3. req[r].pc = "checks" /\ \A t \in NeededBy(r) \ left : Passes(r, t)
      BY <1>2 DEF Allowed, CheckAccess
    <2>4. pc = "checks" <=> left # {}
      OBVIOUS
    <2> HIDE DEF left, pc
    <2> QED BY <2>1, <2>2, <2>3, <2>4 DEF Allowed
  <1> QED BY <1>1, <1>2 DEF CheckAccess

LEMMA AllowedAfter ==
  ASSUME Inv, NEW r \in Requests, Allowed(r), CheckAgain(r) \/ ReadGrant(r)
  PROVE  Allowed(r)'
  <1>1. CASE Finish(r)
    BY <1>1, FinishStep DEF Allowed
  <1>2. CASE \E pc \in {"write", "target"} : req' = [req EXCEPT ![r].pc = pc]
    <2>1. /\ req'[r].pc \in {"write", "target"} /\ UNCHANGED <<entries, grants>>
          /\ UNCHANGED <<req[r].op, req[r].body, req[r].caller, req[r].entry, req[r].before>>
      BY <1>2 DEF Inv, Typed, Request, CheckAgain, ReadGrant
    <2>2. /\ NeededBy(r)' = NeededBy(r)
          /\ \A t : Passes(r, t)' = Passes(r, t)
      BY <2>1, SamePasses
    <2>3. req[r].pc \in {"again", "target"}
      BY DEF CheckAgain, ReadGrant
    <2> QED BY <2>1, <2>2, <2>3 DEF Allowed
  <1> QED BY <1>1, <1>2 DEF CheckAgain, ReadGrant

LEMMA AllowedStep ==
  ASSUME OneAtATime, Inv, NEW r \in Requests, Allowed(r), [Next]_vars
  PROVE  Allowed(r)'
  <1>1. CASE UNCHANGED vars
    BY <1>1, SamePasses DEF vars, Allowed
  <1>2. CASE Others(r)
    BY <1>2 DEF Others, AddEntry, RemoveEntries, RemoveUser, ChangeRole, Allowed
  <1>3. CASE Arrival(r)
    <2>1. ASSUME NEW u, NEW op, NEW e, NEW g, NEW body, Begin(r, u, op, e, g, body)
          PROVE  req'[r].pc = "entry"
      BY <2>1 DEF Begin, Idle, Inv, Typed
    <2>2. req'[r].pc = "entry"
      BY <1>3, <2>1 DEF Arrival
    <2> QED BY <2>2 DEF Allowed
  <1>4. CASE Handler(r)
    <2>1. CASE Finish(r)
      BY <2>1, FinishStep DEF Allowed
    <2>2. CASE ~Finish(r)
      BY <1>4, <2>2, AllowedRead, AllowedCheck, AllowedAfter
         DEF Handler, CreateGrant, UpdateGrant, DeleteGrant, WriteEntry
    <2> QED BY <2>1, <2>2
  <1>5. Handler(r) \/ Others(r) \/ Arrival(r) \/ UNCHANGED vars
    BY DEF Next, Quiet, OneAtATime
  <1> QED BY <1>1, <1>2, <1>3, <1>4, <1>5

\* The access control of the program allows what a request needs only to those who
\* are entitled to it: no right to write comes from visibility.
LEMMA PassedIsEntitled ==
  ASSUME Inv, NEW r \in Requests, req[r].pc = "write", req[r].before = entries[req[r].entry],
         NEW p \in NeededBy(r), Passes(r, p)
  PROVE  Entitled(req[r].caller, req[r].entry, p)
  <1> DEFINE e == req[r].entry
             caller == req[r].caller
             row == entries[e]
  <1>1. WellFormed(req[r])
    BY DEF Inv
  <1>2. p \in EntryPermission \ {"read"}
    BY <1>1, NeededIsNeeds, NeedsType DEF WellFormed
  <1>3. p \in Effective(row, Granted(e), caller)
    BY DEF Passes
  <1>4. CASE HasAll(row, caller)
    BY <1>4 DEF HasAll, Entitled
  <1>5. CASE ~HasAll(row, caller)
    <2>1. row.vis # "private" /\ p \in Collected(Granted(e), caller)
      BY <1>2, <1>3, <1>5 DEF Effective
    <2>2. PICK g \in GrantsOf(e) : Matches(grants[g], caller) /\ p \in Implies(grants[g].permission)
      BY <2>1 DEF Collected, Granted
    <2>3. grants[g].permission \in {p, "manage"}
      BY <1>2, <2>2 DEF Implies
    <2>4. <<grants[g].subject_type, grants[g].subject_id>>
            \in {<<"user", caller.id>>, <<"role", caller.role>>}
      BY <2>2 DEF Matches
    <2> QED BY <2>1, <2>3, <2>4 DEF Entitled
  <1> QED BY <1>4, <1>5

\* With requests one at a time, whoever changes an entry or a grant of it is entitled
\* to each right the change takes at the moment it is made.
THEOREM WritersEntitledNow == OneAtATime => (Spec => []WritersAreEntitled)
  <1> SUFFICES ASSUME OneAtATime PROVE Spec => []WritersAreEntitled
    OBVIOUS
  <1>1. Init => AllAllowed
    BY IdleOK DEF Init, AllAllowed, Allowed
  <1>2. Inv /\ AllAllowed /\ [Next]_vars => AllAllowed'
    BY AllowedStep DEF AllAllowed
  <1>3. Inv /\ AllAllowed => WritersAreEntitled
    BY PassedIsEntitled DEF AllAllowed, Allowed, WritersAreEntitled, Writes
  <1> QED BY <1>1, <1>2, <1>3, InvHolds, PTL DEF Spec
===============================================================================
