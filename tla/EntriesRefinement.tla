-------------------------- MODULE EntriesRefinement --------------------------
(***************************************************************************)
(* Entries implements AuditedStore, for any number of requests, with       *)
(* failures or without; and without failures every committed version is in *)
(* the audit trail exactly once, or about to be put there.                 *)
(***************************************************************************)
EXTENDS EntriesProofs, FiniteSetTheorems

\* A handler has committed a version of e and not yet recorded it.
Owes(q, e) == q.pc = "history" /\ q.entry = e

\* Pending(e), as a function of the handlers; and what all but r have to record.
PendingOf(f, e) == {f[r].version : r \in {q \in Requests : Owes(f[q], e)}}
OthersPending(f, r, e) == {f[p].version : p \in {q \in Requests \ {r} : Owes(f[q], e)}}

\* No two requests have the same version to record.
Distinct(f) ==
  \A r, q \in Requests :
    (r # q /\ f[r].pc = "history" /\ f[q].pc = "history" /\ f[r].entry = f[q].entry)
      => f[r].version # f[q].version

SameBut(f, g, r) == \A p \in Requests \ {r} : g[p] = f[p]

-----------------------------------------------------------------------------
(* What a step of one request does to the versions that are to be recorded. *)

LEMMA PendingSplit ==
  ASSUME NEW f, NEW e, NEW r \in Requests
  PROVE  PendingOf(f, e) = OthersPending(f, r, e)
                             \union (IF Owes(f[r], e) THEN {f[r].version} ELSE {})
BY DEF PendingOf, OthersPending

LEMMA PendingStep ==
  ASSUME NEW f, NEW g, NEW e, NEW r \in Requests, SameBut(f, g, r)
  PROVE  PendingOf(g, e) = OthersPending(f, r, e)
                             \union (IF Owes(g[r], e) THEN {g[r].version} ELSE {})
<1>1. OthersPending(g, r, e) = OthersPending(f, r, e)
  BY DEF OthersPending, SameBut
<1>2. PendingOf(g, e) = OthersPending(g, r, e) \union (IF Owes(g[r], e) THEN {g[r].version} ELSE {})
  BY PendingSplit
<1> QED
  BY <1>1, <1>2

\* What the other requests have to record stays. What r has: nothing before and
\* after; or one version, its own alone, which it records or gives up; or one more,
\* which it has just committed.
LEMMA PendingKept ==
  ASSUME NEW f, NEW g, NEW e, NEW r \in Requests, SameBut(f, g, r),
         f[r].pc # "history", g[r].pc # "history"
  PROVE  PendingOf(g, e) = PendingOf(f, e)
<1>1. PendingOf(f, e) = OthersPending(f, r, e)
                          \union (IF Owes(f[r], e) THEN {f[r].version} ELSE {})
  BY PendingSplit
<1>2. PendingOf(g, e) = OthersPending(f, r, e)
                          \union (IF Owes(g[r], e) THEN {g[r].version} ELSE {})
  BY PendingStep
<1> QED
  BY <1>1, <1>2 DEF Owes

LEMMA PendingSettled ==
  ASSUME NEW f, NEW g, NEW e, NEW r \in Requests, SameBut(f, g, r),
         f[r].pc = "history", g[r].pc # "history", Distinct(f)
  PROVE  PendingOf(g, e) = PendingOf(f, e) \ (IF e = f[r].entry THEN {f[r].version} ELSE {})
<1>1. PendingOf(f, e) = OthersPending(f, r, e)
                          \union (IF Owes(f[r], e) THEN {f[r].version} ELSE {})
  BY PendingSplit
<1>2. PendingOf(g, e) = OthersPending(f, r, e)
                          \union (IF Owes(g[r], e) THEN {g[r].version} ELSE {})
  BY PendingStep
<1>3. e = f[r].entry => f[r].version \notin OthersPending(f, r, e)
  BY DEF Distinct, OthersPending, Owes
<1> QED
  BY <1>1, <1>2, <1>3 DEF Owes

LEMMA PendingAdded ==
  ASSUME NEW f, NEW g, NEW e, NEW r \in Requests, SameBut(f, g, r),
         f[r].pc # "history", g[r].pc = "history"
  PROVE  PendingOf(g, e) = PendingOf(f, e) \union (IF e = g[r].entry THEN {g[r].version} ELSE {})
<1>1. PendingOf(f, e) = OthersPending(f, r, e)
                          \union (IF Owes(f[r], e) THEN {f[r].version} ELSE {})
  BY PendingSplit
<1>2. PendingOf(g, e) = OthersPending(f, r, e)
                          \union (IF Owes(g[r], e) THEN {g[r].version} ELSE {})
  BY PendingStep
<1> QED
  BY <1>1, <1>2 DEF Owes

LEMMA PendingIs == \A e : Pending(e) = PendingOf(req, e)
BY DEF Pending, PendingOf, Owes

\* Of an entry that lives, only versions of its log are to be recorded; of an id
\* that is not handed out, none.
LEMMA PendingOfLog ==
  ASSUME TypeInv, SnapshotInv, NEW e \in EntryIds
  PROVE  /\ Live(e) => PendingOf(req, e) \subseteq 1 .. Len(log[e])
         /\ entries[e] = Unborn => PendingOf(req, e) = {}
<1>1. ASSUME NEW r \in Requests, Owes(req[r], e)
      PROVE  entries[e] # Unborn /\ (Live(e) => req[r].version \in 1 .. Len(log[e]))
  BY <1>1 DEF Owes, SnapshotInv, SnapshotOK, Live
<1> QED
  BY <1>1 DEF PendingOf

LEMMA DistinctKept ==
  ASSUME NEW f, NEW g, Distinct(f), NEW r \in Requests, SameBut(f, g, r),
         g[r].pc # "history" \/ g[r].version \notin PendingOf(f, g[r].entry)
  PROVE  Distinct(g)
<1>1. ASSUME NEW p \in Requests \ {r}, f[p].pc = "history", f[p].entry = g[r].entry
      PROVE  f[p].version \in PendingOf(f, g[r].entry)
  BY <1>1 DEF PendingOf, Owes
<1> QED
  BY <1>1 DEF Distinct, SameBut

-----------------------------------------------------------------------------
(* The kinds of steps there are, as far as the promise is concerned. *)

Silent ==
  /\ UNCHANGED <<entries, log, history>>
  /\ \A e \in EntryIds : PendingOf(req', e) = PendingOf(req, e)

Commits(f, row) ==
  /\ entries[f] # Gone /\ row \in Row
  /\ entries' = [entries EXCEPT ![f] = row]
  /\ log' = [log EXCEPT ![f] = Append(log[f], VersionOf(row))]
  /\ \A e \in EntryIds :
       PendingOf(req', e) = PendingOf(req, e) \union (IF e = f THEN {Len(log[f]) + 1} ELSE {})
  /\ UNCHANGED history

Settles(r) ==
  /\ req[r].pc = "history" /\ req[r].entry \in EntryIds
  /\ \A e \in EntryIds :
       PendingOf(req', e) = PendingOf(req, e) \ (IF e = req[r].entry THEN {req[r].version} ELSE {})
  /\ UNCHANGED <<entries, log>>

Records(r) ==
  /\ Settles(r) /\ Live(req[r].entry)
  /\ history' = [history EXCEPT ![req[r].entry] = Append(@, HistoryRowOf(r))]

GivesUp(r) ==
  /\ Settles(r)
  /\ Failures \/ ~Live(req[r].entry)
  /\ UNCHANGED history

Erases(gone) ==
  /\ \A e \in gone : Live(e)
  /\ entries' = [e \in EntryIds |-> IF e \in gone THEN Gone ELSE entries[e]]
  /\ history' = [e \in EntryIds |-> IF e \in gone THEN <<>> ELSE history[e]]
  /\ log' = [e \in EntryIds |-> IF e \in gone THEN <<>> ELSE log[e]]
  /\ \A e \in EntryIds : PendingOf(req', e) = PendingOf(req, e)

Kinds ==
  \/ Silent
  \/ \E f \in EntryIds, row \in Row : Commits(f, row)
  \/ \E r \in Requests : Records(r) \/ GivesUp(r)
  \/ \E gone \in SUBSET EntryIds : Erases(gone)

\* A handler that has nothing to record, before or after the step.
LEMMA SilentRequest ==
  ASSUME TypeInv, Distinct(req), NEW r \in Requests, NEW q, req' = [req EXCEPT ![r] = q],
         req[r].pc # "history", q.pc # "history"
  PROVE  /\ \A e \in EntryIds : PendingOf(req', e) = PendingOf(req, e)
         /\ Distinct(req')
<1>1. req'[r] = q /\ SameBut(req, req', r)
  BY DEF TypeInv, TypeOK, SameBut
<1>2. ASSUME NEW e \in EntryIds
      PROVE  PendingOf(req', e) = PendingOf(req, e)
  BY <1>1, PendingKept
<1>3. Distinct(req')
  BY <1>1, DistinctKept
<1> QED
  BY <1>2, <1>3

LEMMA SettlingRequest ==
  ASSUME TypeInv, Distinct(req), NEW r \in Requests, Finish(r), req[r].pc = "history",
         UNCHANGED <<entries, log>>
  PROVE  Settles(r) /\ Distinct(req')
<1>1. req'[r].pc # "history" /\ SameBut(req, req', r)
  BY DEF TypeInv, TypeOK, Finish, Idle, SameBut
<1>2. ASSUME NEW e \in EntryIds
      PROVE  PendingOf(req', e)
               = PendingOf(req, e) \ (IF e = req[r].entry THEN {req[r].version} ELSE {})
  <2>1. PendingOf(req', e) = PendingOf(req, e) \ (IF e = req[r].entry THEN {req[r].version} ELSE {})
    BY <1>1, PendingSettled
  <2> QED
    BY <2>1
<1>3. Distinct(req')
  BY <1>1, DistinctKept
<1>4. req[r].entry \in EntryIds
  BY DEF TypeInv, RequestOK
<1> QED
  BY <1>2, <1>3, <1>4 DEF Settles

LEMMA AfterWriteStep ==
  ASSUME TypeInv, NEW r \in Requests, NEW f, NEW row, NEW n,
         req' = [req EXCEPT ![r] = AfterWrite(r, f, row, n)]
  PROVE  /\ SameBut(req, req', r)
         /\ req'[r].pc = "history" /\ req'[r].entry = f /\ req'[r].version = n
BY DEF TypeInv, TypeOK, AfterWrite, Idle, SameBut

LEMMA CommittingRequest ==
  ASSUME TypeInv, SnapshotInv, Distinct(req), NEW r \in Requests, NEW f \in EntryIds,
         NEW row \in Row, entries[f] # Gone, req[r].pc # "history", SameBut(req, req', r),
         req'[r].pc = "history", req'[r].entry = f, req'[r].version = Len(log[f]) + 1,
         entries' = [entries EXCEPT ![f] = row],
         log' = [log EXCEPT ![f] = Append(log[f], VersionOf(row))],
         UNCHANGED history
  PROVE  Commits(f, row) /\ Distinct(req')
<1>1. Len(log[f]) \in Nat
  BY DEF TypeInv, TypeOK
<1>2. PendingOf(req, f) \subseteq 1 .. Len(log[f]) \/ PendingOf(req, f) = {}
  BY PendingOfLog DEF Live
<1>3. req'[r].version \notin PendingOf(req, req'[r].entry)
  BY <1>1, <1>2
<1>4. Distinct(req')
  BY <1>3, DistinctKept
<1>5. ASSUME NEW e \in EntryIds
      PROVE  PendingOf(req', e) = PendingOf(req, e) \union (IF e = f THEN {Len(log[f]) + 1} ELSE {})
  <2>1. PendingOf(req', e) = PendingOf(req, e) \union (IF e = req'[r].entry THEN {req'[r].version} ELSE {})
    BY PendingAdded
  <2> QED
    BY <2>1
<1> QED
  BY <1>4, <1>5 DEF Commits

\* Every step is of one of the kinds, and no version gets two requests to record it.
LEMMA KindOfStep ==
  ASSUME IInv, Distinct(req), [Next]_vars
  PROVE  Kinds /\ Distinct(req')
<1> USE DEF IInv
<1>1. ASSUME UNCHANGED <<entries, log, history, req>>
      PROVE  Silent /\ Distinct(req')
  BY <1>1 DEF Silent
<1>2. ASSUME NEW r \in Requests, NEW q, req' = [req EXCEPT ![r] = q],
             req[r].pc # "history", q.pc # "history", UNCHANGED <<entries, log, history>>
      PROVE  Silent /\ Distinct(req')
  BY <1>2, SilentRequest DEF Silent
<1>3. ASSUME NEW r \in Requests, req[r].pc # "history", Finish(r),
             UNCHANGED <<entries, log, history>>
      PROVE  Silent /\ Distinct(req')
  <2>1. Idle.pc # "history"
    BY DEF Idle
  <2> QED
    BY <1>2, <1>3, <2>1 DEF Finish
<1>4. ASSUME NEW r \in Requests, NEW s \in SchemaIds, NEW k, NEW newKey, NEW row,
             AddField(r, s, k, row) \/ UpdateField(r, s, k, newKey, row)
      PROVE  Silent /\ Distinct(req')
  BY <1>1, <1>4 DEF AddField, UpdateField
<1>5. ASSUME NEW r \in Requests, NEW s \in SchemaIds, NEW k,
             CreateSchema(r, s) \/ DeleteField(r, s, k)
      PROVE  Silent /\ Distinct(req')
  BY <1>1, <1>5 DEF CreateSchema, DeleteField
<1>6. ASSUME NEW r \in Requests, NEW s \in SchemaIds, BeginDelete(r, s)
      PROVE  Silent /\ Distinct(req')
  <2> DEFINE q == [Idle EXCEPT !.pc = "drop", !.schema = s, !.doomed = EntriesOf(s)]
  <2>1. q.pc # "history" /\ req[r].pc # "history"
    BY <1>6 DEF Idle, BeginDelete
  <2> QED
    BY <1>2, <1>6, <2>1 DEF BeginDelete
<1>7. ASSUME NEW r \in Requests, NEW s \in SchemaIds, NEW body \in Bodies, PostEntry(r, s, body)
      PROVE  Silent /\ Distinct(req')
  <2> DEFINE q == [Idle EXCEPT !.pc = "createFields", !.schema = s, !.body = body]
  <2>1. q.pc # "history" /\ req[r].pc # "history"
    BY <1>7 DEF Idle, PostEntry
  <2> QED
    BY <1>2, <1>7, <2>1 DEF PostEntry
<1>8. ASSUME NEW r \in Requests, NEW e \in EntryIds, NEW body \in Bodies, PatchEntry(r, e, body)
      PROVE  Silent /\ Distinct(req')
  <2> DEFINE q == [Idle EXCEPT !.pc = "updateFields", !.schema = entries[e].schema,
                              !.entry = e, !.before = entries[e], !.body = body]
  <2>1. q.pc # "history" /\ req[r].pc # "history"
    BY <1>8 DEF Idle, PatchEntry
  <2> QED
    BY <1>2, <1>8, <2>1 DEF PatchEntry
<1>9. ASSUME NEW r \in Requests, CreateFields(r)
      PROVE  Silent /\ Distinct(req')
  <2> DEFINE own == fields[req[r].schema]
             draft == Normalize(own, req[r].body.data, FALSE)
             q == [req[r] EXCEPT !.pc = "create", !.draft = draft, !.todo = UniqueKeys(own, draft)]
  <2>1. req[r].pc # "history" /\ UNCHANGED <<entries, log, history>>
    BY <1>9 DEF CreateFields
  <2>2. Finish(r) \/ req' = [req EXCEPT ![r] = q]
    BY <1>9 DEF CreateFields, TypeInv, TypeOK
  <2>3. q.pc # "history"
    BY DEF TypeInv, TypeOK, Request
  <2> HIDE DEF q
  <2> QED
    BY <1>2, <1>3, <2>1, <2>2, <2>3
<1>10. ASSUME NEW r \in Requests, UpdateFields(r)
       PROVE  Silent /\ Distinct(req')
  <2> DEFINE own == fields[req[r].schema]
             draft == Merge(req[r].before.data, Normalize(own, req[r].body.data, TRUE))
             q == [req[r] EXCEPT !.pc = "update", !.draft = draft, !.todo = UniqueKeys(own, draft)]
             t == [req[r] EXCEPT !.pc = "update"]
  <2>1. req[r].pc # "history" /\ UNCHANGED <<entries, log, history>>
    BY <1>10 DEF UpdateFields
  <2>2. Finish(r) \/ req' = [req EXCEPT ![r] = q] \/ req' = [req EXCEPT ![r] = t]
    BY <1>10 DEF UpdateFields, TypeInv, TypeOK
  <2>3. q.pc # "history" /\ t.pc # "history"
    BY DEF TypeInv, TypeOK, Request
  <2> HIDE DEF q, t
  <2> QED
    BY <1>2, <1>3, <2>1, <2>2, <2>3
<1>11. ASSUME NEW r \in Requests, NEW k \in FieldKeys, CheckUnique(r, k)
       PROVE  Silent /\ Distinct(req')
  <2> DEFINE q == [req[r] EXCEPT !.todo = @ \ {k}]
  <2>1. req[r].pc # "history" /\ UNCHANGED <<entries, log, history>>
    BY <1>11 DEF CheckUnique
  <2>2. Finish(r) \/ req' = [req EXCEPT ![r] = q]
    BY <1>11 DEF CheckUnique, TypeInv, TypeOK
  <2>3. q.pc # "history"
    BY <2>1 DEF TypeInv, TypeOK, Request
  <2> HIDE DEF q
  <2> QED
    BY <1>2, <1>3, <2>1, <2>2, <2>3
<1>12. ASSUME NEW r \in Requests, NEW e \in EntryIds, InsertEntry(r, e)
       PROVE  Kinds /\ Distinct(req')
  <2>1. CASE LiveSchema(req[r].schema)
    <3>1. NewRow(r) \in Row
      BY <1>12 DEF InsertEntry, NewRow, Row, TypeInv, RequestOK, Body
    <3>2. log[e] = <<>> /\ entries[e] # Gone /\ req[r].pc # "history"
      BY <1>12, EntriesAssumption DEF InsertEntry, LogInv, Live
    <3> DEFINE row == NewRow(r)
    <3> HIDE DEF row
    <3>3. /\ entries' = [entries EXCEPT ![e] = row]
          /\ log' = [log EXCEPT ![e] = <<VersionOf(row)>>]
          /\ req' = [req EXCEPT ![r] = AfterWrite(r, e, row, 1)]
          /\ UNCHANGED history
      BY <1>12, <2>1 DEF InsertEntry, row
    <3>4. Len(log[e]) + 1 = 1 /\ Append(log[e], VersionOf(row)) = <<VersionOf(row)>>
      BY <3>2
    <3>5. /\ SameBut(req, req', r)
          /\ req'[r].pc = "history" /\ req'[r].entry = e /\ req'[r].version = 1
      BY <3>3, AfterWriteStep
    <3>6. Commits(e, row) /\ Distinct(req')
      BY <3>1, <3>2, <3>3, <3>4, <3>5, CommittingRequest DEF row
    <3> QED
      BY <3>1, <3>6 DEF Kinds, row
  <2>2. CASE ~LiveSchema(req[r].schema)
    BY <1>3, <1>12, <2>2 DEF InsertEntry, Kinds
  <2> QED
    BY <2>1, <2>2
<1>13. ASSUME NEW r \in Requests, UpdateRow(r)
       PROVE  Kinds /\ Distinct(req')
  <2>1. CASE Live(req[r].entry)
    <3> DEFINE e == req[r].entry
               row == Patched(r, entries[e])
    <3>1. e \in EntryIds /\ row \in Row /\ entries[e] # Gone /\ req[r].pc # "history"
      BY <1>13, <2>1, PatchedType DEF UpdateRow, Live
    <3> HIDE DEF row
    <3>2. /\ entries' = [entries EXCEPT ![e] = row]
          /\ log' = [log EXCEPT ![e] = Append(log[e], VersionOf(row))]
          /\ req' = [req EXCEPT ![r] = AfterWrite(r, e, row, Len(log[e]) + 1)]
          /\ UNCHANGED history
      BY <1>13, <2>1 DEF UpdateRow, row
    <3>3. /\ SameBut(req, req', r)
          /\ req'[r].pc = "history" /\ req'[r].entry = e /\ req'[r].version = Len(log[e]) + 1
      BY <3>2, AfterWriteStep
    <3> HIDE DEF e
    <3>4. Commits(e, row) /\ Distinct(req')
      BY <3>1, <3>2, <3>3, CommittingRequest
    <3> QED
      BY <3>1, <3>4 DEF Kinds
  <2>2. CASE ~Live(req[r].entry)
    BY <1>3, <1>13, <2>2 DEF UpdateRow, Kinds
  <2> QED
    BY <2>1, <2>2
<1>14. ASSUME NEW r \in Requests, InsertHistory(r)
       PROVE  Kinds /\ Distinct(req')
  <2>1. Settles(r) /\ Distinct(req')
    BY <1>14, SettlingRequest DEF InsertHistory
  <2>2. Records(r) \/ GivesUp(r)
    BY <1>14, <2>1 DEF InsertHistory, Records, GivesUp
  <2> QED
    BY <2>1, <2>2 DEF Kinds
<1>15. ASSUME NEW r \in Requests, DropSchema(r)
       PROVE  Kinds /\ Distinct(req')
  <2>1. req[r].pc # "history" /\ req' = [req EXCEPT ![r] = Idle] /\ Idle.pc # "history"
    BY <1>15 DEF DropSchema, Finish, Idle
  <2>2. CASE MayDrop(r)
    <3>1. /\ \A e \in EntryIds : PendingOf(req', e) = PendingOf(req, e)
          /\ Distinct(req')
      BY <2>1, SilentRequest
    <3>2. req[r].doomed \in SUBSET EntryIds /\ \A e \in req[r].doomed : Live(e)
      BY DEF LockInv, TypeInv, TypeOK, Request
    <3>3. Erases(req[r].doomed)
      BY <1>15, <2>2, <3>1, <3>2 DEF DropSchema, Erases
    <3> QED
      BY <3>1, <3>2, <3>3 DEF Kinds
  <2>3. CASE ~MayDrop(r)
    BY <1>3, <1>15, <2>1, <2>3 DEF DropSchema, Kinds
  <2> QED
    BY <2>2, <2>3
<1>16. ASSUME NEW r \in Requests, Abort(r)
       PROVE  Kinds /\ Distinct(req')
  <2>1. CASE req[r].pc = "history"
    <3>1. Settles(r) /\ Distinct(req')
      BY <1>16, <2>1, SettlingRequest DEF Abort
    <3>2. GivesUp(r)
      BY <1>16, <3>1 DEF Abort, GivesUp
    <3> QED
      BY <3>1, <3>2 DEF Kinds
  <2>2. CASE req[r].pc # "history"
    BY <1>3, <1>16, <2>2 DEF Abort, Kinds
  <2> QED
    BY <2>1, <2>2
<1>17. CASE UNCHANGED vars
  BY <1>1, <1>17 DEF vars, Kinds
<1>18. ASSUME NEW r \in Requests, Handler(r)
       PROVE  Kinds /\ Distinct(req')
  BY <1>9, <1>10, <1>11, <1>12, <1>13, <1>14, <1>15, <1>18 DEF Handler, Kinds
<1>19. ASSUME NEW r \in Requests, Administration(r) \/ Arrival(r)
       PROVE  Silent /\ Distinct(req')
  BY <1>4, <1>5, <1>6, <1>7, <1>8, <1>19 DEF Administration, Arrival
<1> QED
  BY <1>16, <1>17, <1>18, <1>19 DEF Next, Quiet, Kinds

-----------------------------------------------------------------------------
(* Each kind of step is a step of the abstract specification, or none. *)

\* Pending, before and after a step, as the function of the handlers it is.
LEMMA PendingIsNext == \A e : Pending(e)' = PendingOf(req', e)
BY DEF Pending, PendingOf, Owes

LEMMA SilentIsStutter == Silent => UNCHANGED Promise!vars
BY PendingIs, PendingIsNext DEF Silent, Promise!vars, Live

LEMMA CommitIsCommit ==
  ASSUME IInv, NEW f \in EntryIds, NEW row \in Row, Commits(f, row)
  PROVE  VersionOf(row) \in Version /\ Promise!Commit(f, VersionOf(row))
<1>1. VersionOf(row) \in Version
  BY DEF VersionOf, Version, Row
<1>2. row \notin {Unborn, Gone}
  BY EntriesAssumption
<1>3. entries \in [EntryIds -> Row \union {Unborn, Gone}] /\ log \in [EntryIds -> Seq(Version)]
  BY DEF IInv, TypeInv, TypeOK
<1>4. \A e \in EntryIds : entries'[e] = IF e = f THEN row ELSE entries[e]
  BY <1>3 DEF Commits
<1>5. ~Live(f) => PendingOf(req, f) = {}
  BY PendingOfLog, <1>3 DEF Commits, Live, IInv
<1>6. \A e \in EntryIds : (IF Live(e)' THEN Pending(e)' ELSE {})
        = IF e = f THEN (IF Live(f) THEN Pending(f) ELSE {}) \union {Len(log[f]) + 1}
          ELSE IF Live(e) THEN Pending(e) ELSE {}
  BY <1>2, <1>4, <1>5, PendingIs, PendingIsNext DEF Commits, Live
<1>7. \A e \in EntryIds : (IF Live(e)' THEN VersionOf(entries'[e]) ELSE entries'[e])
        = IF e = f THEN VersionOf(row) ELSE IF Live(e) THEN VersionOf(entries[e]) ELSE entries[e]
  BY <1>2, <1>4 DEF Live
<1>8. (IF Live(f) THEN VersionOf(entries[f]) ELSE entries[f]) # Gone
  <2>1. Live(f) => entries[f] \in Row
    BY <1>3 DEF Live
  <2>2. Live(f) => VersionOf(entries[f]) \in Version
    BY <2>1 DEF VersionOf, Version, Row
  <2> QED
    BY <2>2, EntriesAssumption DEF Commits
<1> QED
  BY <1>1, <1>6, <1>7, <1>8 DEF Promise!Commit, Commits

LEMMA SettledDue ==
  ASSUME NEW r \in Requests, Settles(r)
  PROVE  \A e \in EntryIds : (IF Live(e)' THEN Pending(e)' ELSE {})
           = (IF Live(e) THEN Pending(e) ELSE {})
               \ (IF e = req[r].entry THEN {req[r].version} ELSE {})
<1>1. \A e \in EntryIds : PendingOf(req', e)
        = PendingOf(req, e) \ (IF e = req[r].entry THEN {req[r].version} ELSE {})
  BY DEF Settles
<1>2. \A e \in EntryIds : Live(e)' = Live(e)
  BY DEF Settles, Live
<1> QED
  BY <1>1, <1>2, PendingIs, PendingIsNext

\* What a handler in pc "history" owes is due.
LEMMA OwedIsDue ==
  ASSUME NEW r \in Requests, req[r].pc = "history"
  PROVE  req[r].version \in Pending(req[r].entry)
BY DEF Pending

LEMMA GivingUpIsLosing ==
  ASSUME IInv, NEW r \in Requests, GivesUp(r)
  PROVE  \/ Promise!Lose(req[r].entry, req[r].version)
         \/ UNCHANGED Promise!vars
<1> DEFINE f == req[r].entry
           n == req[r].version
<1>1. /\ f \in EntryIds /\ n \in Pending(f) /\ UNCHANGED <<entries, log, history>>
      /\ Failures \/ ~Live(f)
  BY OwedIsDue DEF GivesUp, Settles
<1>2. \A e \in EntryIds : (IF Live(e)' THEN Pending(e)' ELSE {})
        = (IF Live(e) THEN Pending(e) ELSE {}) \ (IF e = f THEN {n} ELSE {})
  BY SettledDue DEF GivesUp
<1>3. CASE Live(f)
  BY <1>1, <1>2, <1>3 DEF Promise!Lose, Live
<1>4. CASE ~Live(f)
  BY <1>1, <1>2, <1>4 DEF Promise!vars, Live
<1> QED
  BY <1>3, <1>4

LEMMA RecordingIsRecord ==
  ASSUME IInv, NEW r \in Requests, Records(r)
  PROVE  Promise!Record(req[r].entry, req[r].version)
<1> DEFINE f == req[r].entry
           n == req[r].version
           before == req[r].before
           old == IF before = None THEN None ELSE VersionOf(before)
           record == [type |-> Promise!TypeOf(old, log[f][n]), old |-> old,
                      new |-> log[f][n], version |-> n]
<1>1. f \in EntryIds /\ n \in Pending(f) /\ Live(f) /\ UNCHANGED <<entries, log>>
  BY OwedIsDue DEF Records, Settles
<1>2. /\ log[f][n] = VersionOf(req[r].after) /\ n \in 1 .. Len(log[f])
      /\ n = 1 => before = None
      /\ n # 1 => before # None /\ \E v \in 1 .. (n - 1) : log[f][v] = VersionOf(before)
  BY <1>1 DEF Records, Settles, IInv, SnapshotInv, SnapshotOK, Live
<1>3. before \in Row \union {None}
  BY DEF IInv, TypeInv, TypeOK, Request
<1>4. before # None => VersionOf(before) # None /\ VersionOf(before).vis = before.vis
  BY <1>3, EntriesAssumption DEF VersionOf, Version, Row
<1>5. VersionOf(req[r].after).vis = req[r].after.vis
  BY DEF VersionOf
<1>6. HistoryRowOf(r) = record
  BY <1>2, <1>4, <1>5 DEF HistoryRowOf, Promise!TypeOf
<1>7. old \in Promise!Earlier(f, n)
  BY <1>2 DEF Promise!Earlier
<1>8. \A e \in EntryIds : (IF Live(e)' THEN Pending(e)' ELSE {})
        = (IF Live(e) THEN Pending(e) ELSE {}) \ (IF e = f THEN {n} ELSE {})
  BY SettledDue DEF Records
<1>9. history' = [history EXCEPT ![f] = Append(@, record)]
  BY <1>6 DEF Records
<1> HIDE DEF before, old
<1>10. \E o \in Promise!Earlier(f, n) :
         history' = [history EXCEPT ![f] =
           Append(@, [type |-> Promise!TypeOf(o, log[f][n]), old |-> o, new |-> log[f][n], version |-> n])]
  BY <1>7, <1>9
<1>11. [e \in EntryIds |-> IF Live(e) THEN Pending(e) ELSE {}]'
         = [[e \in EntryIds |-> IF Live(e) THEN Pending(e) ELSE {}] EXCEPT ![f] = @ \ {n}]
  BY <1>1, <1>8
<1>12. n \in [e \in EntryIds |-> IF Live(e) THEN Pending(e) ELSE {}][f]
  BY <1>1
<1>13. UNCHANGED [e \in EntryIds |-> IF Live(e) THEN VersionOf(entries[e]) ELSE entries[e]]
  BY <1>1 DEF Live
<1> QED
  BY <1>1, <1>10, <1>11, <1>12, <1>13 DEF Promise!Record

LEMMA ErasingIsErase ==
  ASSUME IInv, NEW gone \in SUBSET EntryIds, Erases(gone)
  PROVE  Promise!Erase(gone)
<1>1. \A e \in EntryIds : entries'[e] = IF e \in gone THEN Gone ELSE entries[e]
  BY DEF Erases
<1>2. \A e \in EntryIds : (IF Live(e)' THEN Pending(e)' ELSE {})
        = IF e \in gone THEN {} ELSE IF Live(e) THEN Pending(e) ELSE {}
  BY <1>1, PendingIs, PendingIsNext DEF Erases, Live
<1>3. \A e \in gone : VersionOf(entries[e]) \in Version
  <2>1. \A e \in gone : entries[e] \in Row
    BY DEF Erases, Live, IInv, TypeInv, TypeOK
  <2> QED
    BY <2>1 DEF VersionOf, Version, Row
<1>4. \A e \in EntryIds : (IF Live(e)' THEN VersionOf(entries'[e]) ELSE entries'[e])
        = IF e \in gone THEN Gone ELSE IF Live(e) THEN VersionOf(entries[e]) ELSE entries[e]
  BY <1>1 DEF Live
<1> QED
  BY <1>2, <1>3, <1>4 DEF Promise!Erase, Erases

LEMMA PromiseInit == Init => Promise!Init
BY EntriesAssumption DEF Init, Promise!Init, Live

LEMMA PromiseStep ==
  ASSUME IInv, Kinds
  PROVE  [Promise!Next]_(Promise!vars)
<1>1. CASE Silent
  BY <1>1, SilentIsStutter
<1>2. ASSUME NEW f \in EntryIds, NEW row \in Row, Commits(f, row)
      PROVE  Promise!Next
  BY <1>2, CommitIsCommit DEF Promise!Next
<1>3. ASSUME NEW r \in Requests, Records(r)
      PROVE  Promise!Next
  <2>1. Promise!Record(req[r].entry, req[r].version) /\ req[r].entry \in EntryIds
    BY <1>3, RecordingIsRecord DEF Records, Settles
  <2> QED
    BY <2>1 DEF Promise!Next, Promise!Record
<1>4. ASSUME NEW r \in Requests, GivesUp(r)
      PROVE  Promise!Next \/ UNCHANGED Promise!vars
  <2>1. CASE Promise!Lose(req[r].entry, req[r].version)
    <3>1. req[r].entry \in EntryIds
      BY <1>4 DEF GivesUp, Settles
    <3> QED
      BY <2>1, <3>1 DEF Promise!Next, Promise!Lose
  <2> QED
    BY <1>4, <2>1, GivingUpIsLosing
<1>5. ASSUME NEW gone \in SUBSET EntryIds, Erases(gone)
      PROVE  Promise!Next
  BY <1>5, ErasingIsErase DEF Promise!Next
<1> QED
  BY <1>1, <1>2, <1>3, <1>4, <1>5 DEF Kinds

LEMMA DistinctInit == Init => Distinct(req)
BY DEF Init, Distinct, Idle

LEMMA DistinctHolds == Spec => []Distinct(req)
<1>1. IInv /\ Distinct(req) /\ [Next]_vars => Distinct(req)'
  <2> SUFFICES ASSUME IInv, Distinct(req), [Next]_vars PROVE Distinct(req')
    BY DEF Distinct
  <2> QED
    BY KindOfStep
<1> QED
  BY <1>1, DistinctInit, InvHolds, PTL DEF Spec

\* The component keeps its promise, however many requests overlap or die: what it
\* does is what AuditedStore does, which knows of no requests and no transactions.
THEOREM KeepsPromise == Spec => PromiseKept
<1>1. IInv /\ Distinct(req) /\ [Next]_vars => [Promise!Next]_(Promise!vars)
  BY KindOfStep, PromiseStep
<1> QED
  BY <1>1, PromiseInit, InvHolds, DistinctHolds, PTL DEF Spec, PromiseKept, Promise!Spec

-----------------------------------------------------------------------------
(* Without failures, each version is recorded once. *)

RecordedOf(trail) == {trail[i].version : i \in DOMAIN trail}

\* A trail and the versions still to be recorded make up the versions 1 .. n.
Balances(trail, due, n) ==
  /\ RecordedOf(trail) \union due = 1 .. n
  /\ RecordedOf(trail) \intersect due = {}
  /\ \A i, j \in DOMAIN trail : i # j => trail[i].version # trail[j].version

BalanceInv == \A e \in EntryIds : Live(e) => Balances(history[e], PendingOf(req, e), Len(log[e]))

LEMMA CommitBalance ==
  ASSUME NEW trail, NEW due, NEW n \in Nat, Balances(trail, due, n)
  PROVE  Balances(trail, due \union {n + 1}, n + 1)
BY DEF Balances

LEMMA RecordBalance ==
  ASSUME NEW trail \in Seq(HistoryRow), NEW due, NEW n \in Nat, Balances(trail, due, n),
         NEW row \in HistoryRow, row.version \in due
  PROVE  Balances(Append(trail, row), due \ {row.version}, n)
<1> DEFINE t == Append(trail, row)
<1>1. /\ DOMAIN t = 1 .. (Len(trail) + 1) /\ DOMAIN trail = 1 .. Len(trail) /\ Len(trail) \in Nat
      /\ \A i \in 1 .. Len(trail) : t[i] = trail[i]
      /\ t[Len(trail) + 1] = row
  OBVIOUS
<1> HIDE DEF t
<1>2. RecordedOf(t) = RecordedOf(trail) \union {row.version}
  BY <1>1 DEF RecordedOf
<1>3. row.version \notin RecordedOf(trail)
  BY DEF Balances
<1>4. \A i \in DOMAIN trail : trail[i].version # row.version
  BY <1>3 DEF RecordedOf
<1>5. \A i, j \in DOMAIN t : i # j => t[i].version # t[j].version
  BY <1>1, <1>4 DEF Balances
<1> QED
  BY <1>2, <1>3, <1>5 DEF Balances, t

LEMMA BalanceCounts ==
  ASSUME NEW trail \in Seq(HistoryRow), NEW due, NEW n, Balances(trail, due, n)
  PROVE  Cardinality(RecordedOf(trail)) = Len(trail)
<1> DEFINE f == [i \in 1 .. Len(trail) |-> trail[i].version]
<1>1. f \in Bijection(1 .. Len(trail), RecordedOf(trail))
  BY DEF RecordedOf, Balances, Bijection, Injection, Surjection, IsInjective
<1>2. Len(trail) \in Nat /\ ExistsBijection(1 .. Len(trail), RecordedOf(trail))
  BY <1>1 DEF ExistsBijection
<1> QED
  BY <1>2, FS_CountingElements

LEMMA BalanceInit == Init => BalanceInv
BY EntriesAssumption DEF Init, BalanceInv, Live

LEMMA BalanceStep ==
  ASSUME ~Failures, IInv, BalanceInv, Kinds
  PROVE  BalanceInv'
<1> SUFFICES ASSUME NEW e \in EntryIds, Live(e)'
             PROVE  Balances(history'[e], PendingOf(req', e), Len(log'[e]))
  BY DEF BalanceInv
<1>0. /\ entries \in [EntryIds -> Row \union {Unborn, Gone}]
      /\ log \in [EntryIds -> Seq(Version)] /\ history \in [EntryIds -> Seq(HistoryRow)]
      /\ Len(log[e]) \in Nat
  BY DEF IInv, TypeInv, TypeOK
<1>1. CASE Silent
  BY <1>1 DEF Silent, BalanceInv, Live
<1>2. ASSUME NEW f \in EntryIds, NEW row \in Row, Commits(f, row)
      PROVE  Balances(history'[e], PendingOf(req', e), Len(log'[e]))
  <2>1. CASE e # f
    BY <1>0, <1>2, <2>1 DEF Commits, BalanceInv, Live
  <2>2. CASE e = f
    <3>1. Len(log'[e]) = Len(log[e]) + 1
      BY <1>0, <1>2, <2>2 DEF Commits
    <3>2. history'[e] = history[e] /\ PendingOf(req', e) = PendingOf(req, e) \union {Len(log[e]) + 1}
      BY <1>2, <2>2 DEF Commits
    <3>3. Balances(history[e], PendingOf(req, e), Len(log[e]))
      <4>1. CASE Live(e)
        BY <4>1 DEF BalanceInv
      <4>2. CASE ~Live(e)
        <5>1. log[e] = <<>> /\ history[e] = <<>> /\ PendingOf(req, e) = {}
          BY <1>2, <2>2, <4>2, PendingOfLog DEF IInv, LogInv, Live, Commits
        <5> QED
          BY <5>1 DEF Balances, RecordedOf
      <4> QED
        BY <4>1, <4>2
    <3> QED
      BY <1>0, <3>1, <3>2, <3>3, CommitBalance
  <2> QED
    BY <2>1, <2>2
<1>3. ASSUME NEW r \in Requests, Records(r)
      PROVE  Balances(history'[e], PendingOf(req', e), Len(log'[e]))
  <2> DEFINE f == req[r].entry
             row == HistoryRowOf(r)
  <2>1. CASE e # f
    BY <1>0, <1>3, <2>1 DEF Records, Settles, BalanceInv, Live
  <2>2. CASE e = f
    <3>1. row \in HistoryRow /\ row.version = req[r].version
      BY <1>3 DEF Records, Settles, HistoryRowOf, HistoryRow, VersionOf, Version, Row,
                  IInv, TypeInv, TypeOK, RequestOK, Request
    <3>2. row.version \in PendingOf(req, e)
      BY <1>3, <2>2, <3>1, OwedIsDue, PendingIs DEF Records, Settles
    <3>3. Balances(history[e], PendingOf(req, e), Len(log[e]))
      BY <1>3, <2>2 DEF BalanceInv, Records
    <3>4. /\ history'[e] = Append(history[e], row) /\ log' = log
          /\ PendingOf(req', e) = PendingOf(req, e) \ {req[r].version}
      BY <1>0, <1>3, <2>2 DEF Records, Settles
    <3> HIDE DEF row
    <3>5. history[e] \in Seq(HistoryRow)
      BY <1>0
    <3>6. Balances(Append(history[e], row), PendingOf(req, e) \ {row.version}, Len(log[e]))
      BY <1>0, <3>1, <3>2, <3>3, <3>5, RecordBalance
    <3> QED
      BY <3>1, <3>4, <3>6
  <2> QED
    BY <2>1, <2>2
<1>4. ASSUME NEW r \in Requests, GivesUp(r)
      PROVE  Balances(history'[e], PendingOf(req', e), Len(log'[e]))
  <2>1. e # req[r].entry
    BY <1>4 DEF GivesUp, Settles, Live
  <2> QED
    BY <1>4, <2>1 DEF GivesUp, Settles, BalanceInv, Live
<1>5. ASSUME NEW gone \in SUBSET EntryIds, Erases(gone)
      PROVE  Balances(history'[e], PendingOf(req', e), Len(log'[e]))
  BY <1>5 DEF Erases, BalanceInv, Live
<1> QED
  BY <1>1, <1>2, <1>3, <1>4, <1>5 DEF Kinds

\* As long as no request dies, no write goes without its record and no write is
\* recorded twice.
THEOREM EveryWriteRecorded == ~Failures => (Spec => []EveryWriteRecordedOnce)
<1> SUFFICES ASSUME ~Failures PROVE Spec => []EveryWriteRecordedOnce
  OBVIOUS
<1>1. IInv /\ Distinct(req) /\ BalanceInv /\ [Next]_vars => BalanceInv'
  BY KindOfStep, BalanceStep
<1>2. IInv /\ BalanceInv => EveryWriteRecordedOnce
  <2> SUFFICES ASSUME IInv, BalanceInv, NEW e \in EntryIds, Live(e)
               PROVE  /\ Recorded(e) \union Pending(e) = DOMAIN log[e]
                      /\ Recorded(e) \intersect Pending(e) = {}
                      /\ Cardinality(Recorded(e)) = Len(history[e])
    BY DEF EveryWriteRecordedOnce
  <2>1. Balances(history[e], PendingOf(req, e), Len(log[e]))
    BY DEF BalanceInv
  <2>2. Recorded(e) = RecordedOf(history[e]) /\ Pending(e) = PendingOf(req, e)
    BY PendingIs DEF Recorded, RecordedOf
  <2>3. history[e] \in Seq(HistoryRow) /\ DOMAIN log[e] = 1 .. Len(log[e])
    BY DEF IInv, TypeInv, TypeOK
  <2>4. Cardinality(RecordedOf(history[e])) = Len(history[e])
    BY <2>1, <2>3, BalanceCounts
  <2> QED
    BY <2>1, <2>2, <2>3, <2>4 DEF Balances
<1> QED
  BY <1>1, <1>2, BalanceInit, InvHolds, DistinctHolds, PTL DEF Spec
=============================================================================
