---------------------------- MODULE EntriesProofs ----------------------------
(***************************************************************************)
(* Proofs about Entries for any number of requests, schemas, entries and   *)
(* fields, with failures or without.                                       *)
(***************************************************************************)
EXTENDS Entries, SequenceTheorems, TLAPS

\* What a handler holds where it stands.
RequestOK(q) ==
  /\ q.pc = "createFields" =>
       /\ q.schema \in SchemaIds /\ q.before = None
       /\ q.body \in Body /\ q.body.data \in Data /\ q.body.vis \in Visibilities
  /\ q.pc = "create" =>
       /\ q.schema \in SchemaIds /\ q.before = None
       /\ q.body \in Body /\ q.body.vis \in Visibilities /\ q.draft \in Data
  /\ q.pc = "updateFields" =>
       /\ q.schema \in SchemaIds /\ q.entry \in EntryIds
       /\ q.before \in Row /\ q.body \in Body
  /\ q.pc = "update" =>
       /\ q.entry \in EntryIds /\ q.before \in Row /\ q.body \in Body
  /\ q.pc = "history" =>
       /\ q.entry \in EntryIds /\ q.after \in Row /\ q.version >= 1
  /\ q.pc = "drop" => q.schema \in SchemaIds

TypeInv == TypeOK /\ \A r \in Requests : RequestOK(req[r])

\* Row locks are exclusive: an open DELETE holds living entries of its own schema
\* that no other DELETE holds.
LockInv ==
  \A r \in Requests : \A e \in req[r].doomed :
    /\ req[r].pc = "drop"
    /\ Live(e) /\ entries[e].schema = req[r].schema
    /\ \A q \in Requests : e \in req[q].doomed => q = r

\* The log of a living entry ends with the row; other entries have no past.
LogInv ==
  \A e \in EntryIds :
    IF Live(e) THEN Len(log[e]) >= 1 /\ log[e][Len(log[e])] = VersionOf(entries[e])
    ELSE log[e] = <<>> /\ history[e] = <<>>

\* The snapshot a handler works from was committed, and before what it wrote.
SnapshotOK(q, rows, past) ==
  LET e == q.entry IN
  /\ q.pc \in {"updateFields", "update", "history"} => rows[e] # Unborn
  /\ (q.pc \in {"updateFields", "update"} /\ rows[e] \notin {Unborn, Gone}) =>
       \E v \in 1 .. Len(past[e]) : past[e][v] = VersionOf(q.before)
  /\ (q.pc = "history" /\ rows[e] \notin {Unborn, Gone}) =>
       /\ q.version \in 1 .. Len(past[e])
       /\ past[e][q.version] = VersionOf(q.after)
       /\ IF q.version = 1 THEN q.before = None
          ELSE /\ q.before # None
               /\ \E v \in 1 .. (q.version - 1) : past[e][v] = VersionOf(q.before)

SnapshotInv == \A r \in Requests : SnapshotOK(req[r], entries, log)

IInv == TypeInv /\ ReferentialIntegrity /\ LockInv /\ LogInv /\ SnapshotInv /\ HistoryTruthful

\* From one state to a later one: ids are never used again, and the past of an
\* entry that is still there only grows.
Grows(rows, past, rows2, past2) ==
  \A e \in EntryIds : rows[e] # Unborn =>
    /\ rows2[e] # Unborn
    /\ rows2[e] # Gone => /\ rows[e] # Gone
                          /\ Len(past[e]) <= Len(past2[e])
                          /\ \A v \in 1 .. Len(past[e]) : past2[e][v] = past[e][v]


-----------------------------------------------------------------------------
(* Lemmas about the validation operators. *)

\* An accepted document is normalised to a document.
LEMMA NormalizeType ==
  ASSUME NEW own \in FieldMap, NEW data \in Data, NEW partial \in BOOLEAN,
         Accepts(own, data, partial)
  PROVE  Normalize(own, data, partial) \in Data
<1> SUFFICES ASSUME NEW k \in FieldKeys
             PROVE  Normalize(own, data, partial)[k] \in Values \union {Null, Absent}
  BY DEF Normalize, Data
<1>1. CASE data[k] # Absent
  <2>1. k \in ActiveKeys(own) /\ CleanValue(own[k], data[k]) # Invalid
    BY <1>1 DEF Accepts
  <2>2. own[k] \in Field
    BY <2>1 DEF ActiveKeys, FieldMap
  <2>3. CleanValue(own[k], data[k]) \in Values \union {Null}
    BY <1>1, <2>1, <2>2, CleanAssumption DEF CleanValue, Field, Data
  <2> QED
    BY <1>1, <2>3 DEF Normalize
<1>2. CASE data[k] = Absent
  <2>1. k \in ActiveKeys(own) => own[k] \in Field
    BY DEF ActiveKeys, FieldMap
  <2> QED
    BY <1>2, <2>1 DEF Normalize, Field
<1> QED
  BY <1>1, <1>2

LEMMA MergeType ==
  ASSUME NEW old \in Data, NEW changes \in Data
  PROVE  Merge(old, changes) \in Data
BY DEF Merge, Data

-----------------------------------------------------------------------------
(* Type correctness. *)

LEMMA IdleOK == Idle \in Request /\ RequestOK(Idle)
BY DEF Idle, Request, RequestOK

\* A step that changes the record of one request to a well-formed one.
LEMMA RequestStep ==
  ASSUME TypeInv, NEW r \in Requests, NEW q \in Request, RequestOK(q),
         req' = [req EXCEPT ![r] = q]
  PROVE  /\ req' \in [Requests -> Request]
         /\ \A p \in Requests : RequestOK(req'[p])
         /\ req'[r] = q
         /\ \A p \in Requests : p # r => req'[p] = req[p]
BY DEF TypeInv, TypeOK

\* Once the row is written, the handler keeps a well-formed rest.
LEMMA AfterWriteType ==
  ASSUME TypeInv, NEW r \in Requests, NEW e \in EntryIds, NEW row \in Row,
         NEW n \in Nat, n >= 1
  PROVE  AfterWrite(r, e, row, n) \in Request /\ RequestOK(AfterWrite(r, e, row, n))
<1>1. req[r] \in Request
  BY DEF TypeInv, TypeOK
<1>2. req[r].before \in Row \union {None}
  BY <1>1 DEF Request
<1> DEFINE before == req[r].before
<1> HIDE DEF before, Row
<1>3. /\ [Idle EXCEPT !.pc = "history", !.entry = e, !.before = before, !.after = row, !.version = n] \in Request
      /\ RequestOK([Idle EXCEPT !.pc = "history", !.entry = e, !.before = before, !.after = row, !.version = n])
  BY <1>2 DEF Idle, Request, RequestOK, before
<1> QED
  BY <1>3 DEF AfterWrite, before

\* The row an UPDATE leaves is a row of the same schema.
LEMMA PatchedType ==
  ASSUME TypeInv, NEW r \in Requests, UpdateRow(r), Live(req[r].entry)
  PROVE  LET row == entries[req[r].entry] IN
         /\ req[r].entry \in EntryIds /\ row \in Row /\ log[req[r].entry] \in Seq(Version)
         /\ Patched(r, row) \in Row /\ Patched(r, row).schema = row.schema
         /\ Patched(r, row) \notin {Unborn, Gone}
         /\ VersionOf(Patched(r, row)) \in Version
<1> DEFINE e == req[r].entry
           row == entries[e]
<1>1. e \in EntryIds /\ row \in Row /\ log[e] \in Seq(Version)
  BY DEF UpdateRow, Live, TypeInv, TypeOK, RequestOK
<1>2. Patched(r, row) \in Row /\ Patched(r, row).schema = row.schema
  BY <1>1 DEF UpdateRow, Patched, Row, TypeInv, TypeOK, RequestOK, Request, Body
<1>3. VersionOf(Patched(r, row)) \in Version
  BY <1>2 DEF VersionOf, Version, Row
<1> QED
  BY <1>1, <1>2, <1>3, EntriesAssumption

LEMMA TypeInit == Init => TypeInv
<1> SUFFICES ASSUME Init PROVE TypeInv
  OBVIOUS
<1>1. NoFields \in FieldMap
  BY DEF NoFields, FieldMap
<1> QED
  BY <1>1, IdleOK DEF Init, TypeInv, TypeOK


\* Each action of a request keeps every variable of its type.
LEMMA TypeStep == TypeInv /\ [Next]_vars => TypeInv'
<1> SUFFICES ASSUME TypeInv, [Next]_vars
             PROVE  TypeInv'
  OBVIOUS
<1> USE DEF LiveSchema, Live
<1>0. ASSUME NEW r \in Requests, Finish(r)
      PROVE  req' \in [Requests -> Request] /\ \A p \in Requests : RequestOK(req'[p])
  BY <1>0, IdleOK, RequestStep DEF Finish
<1>1. ASSUME NEW r \in Requests, NEW s \in SchemaIds, CreateSchema(r, s)
      PROVE  TypeInv'
  BY <1>1 DEF CreateSchema, TypeInv, TypeOK
<1>2. ASSUME NEW r \in Requests, NEW s \in SchemaIds, NEW k \in FieldKeys, NEW row \in FieldRows,
             AddField(r, s, k, row)
      PROVE  TypeInv'
  <2>1. row \in Field
    BY EntriesAssumption
  <2>2. fields' \in [SchemaIds -> FieldMap]
    BY <1>2, <2>1 DEF AddField, TypeInv, TypeOK, FieldMap
  <2> QED
    BY <1>2, <2>2 DEF AddField, TypeInv, TypeOK
<1>3. ASSUME NEW r \in Requests, NEW s \in SchemaIds, NEW k \in FieldKeys, NEW row \in FieldRows,
             NEW newKey \in FieldKeys, UpdateField(r, s, k, newKey, row)
      PROVE  TypeInv'
  <2>1. row \in Field
    BY EntriesAssumption
  <2>2. fields' \in [SchemaIds -> FieldMap]
    BY <1>3, <2>1 DEF UpdateField, TypeInv, TypeOK, FieldMap
  <2> QED
    BY <1>3, <2>2 DEF UpdateField, TypeInv, TypeOK
<1>4. ASSUME NEW r \in Requests, NEW s \in SchemaIds, NEW k \in FieldKeys, DeleteField(r, s, k)
      PROVE  TypeInv'
  <2>1. fields' \in [SchemaIds -> FieldMap]
    BY <1>4 DEF DeleteField, TypeInv, TypeOK, FieldMap
  <2> QED
    BY <1>4, <2>1 DEF DeleteField, TypeInv, TypeOK
<1>5. ASSUME NEW r \in Requests, NEW s \in SchemaIds, BeginDelete(r, s)
      PROVE  TypeInv'
  <2> DEFINE q == [Idle EXCEPT !.pc = "drop", !.schema = s, !.doomed = EntriesOf(s)]
  <2>1. q \in Request /\ RequestOK(q)
    BY DEF Idle, Request, RequestOK, EntriesOf
  <2>2. req' = [req EXCEPT ![r] = q]
    BY <1>5 DEF BeginDelete
  <2> QED
    BY <1>5, <2>1, <2>2, RequestStep DEF BeginDelete, TypeInv, TypeOK
<1>6. ASSUME NEW r \in Requests, NEW s \in SchemaIds, NEW body \in Bodies, PostEntry(r, s, body)
      PROVE  TypeInv'
  <2> DEFINE q == [Idle EXCEPT !.pc = "createFields", !.schema = s, !.body = body]
  <2>1. body \in Body /\ body.data \in Data /\ body.vis \in Visibilities
    BY <1>6, EntriesAssumption DEF PostEntry, Body
  <2>2. q \in Request /\ RequestOK(q)
    BY <2>1 DEF Idle, Request, RequestOK
  <2>3. req' = [req EXCEPT ![r] = q]
    BY <1>6 DEF PostEntry
  <2> QED
    BY <1>6, <2>2, <2>3, RequestStep DEF PostEntry, TypeInv, TypeOK
<1>7. ASSUME NEW r \in Requests, NEW e \in EntryIds, NEW body \in Bodies, PatchEntry(r, e, body)
      PROVE  TypeInv'
  <2> DEFINE q == [Idle EXCEPT !.pc = "updateFields", !.schema = entries[e].schema,
                              !.entry = e, !.before = entries[e], !.body = body]
  <2>1. body \in Body /\ entries[e] \in Row
    BY <1>7, EntriesAssumption DEF PatchEntry, TypeInv, TypeOK
  <2>2. q \in Request /\ RequestOK(q)
    BY <2>1 DEF Idle, Request, RequestOK, Row
  <2>3. req' = [req EXCEPT ![r] = q]
    BY <1>7 DEF PatchEntry
  <2> QED
    BY <1>7, <2>2, <2>3, RequestStep DEF PatchEntry, TypeInv, TypeOK
<1>8. ASSUME NEW r \in Requests, CreateFields(r)
      PROVE  TypeInv'
  <2> DEFINE own == fields[req[r].schema]
             data == req[r].body.data
             draft == Normalize(own, data, FALSE)
             q == [req[r] EXCEPT !.pc = "create", !.draft = draft, !.todo = UniqueKeys(own, draft)]
  <2>1. own \in FieldMap /\ data \in Data
    BY <1>8 DEF CreateFields, TypeInv, TypeOK, RequestOK
  <2>2. CASE Accepts(own, data, FALSE)
    <3>1. draft \in Data
      BY <2>1, <2>2, NormalizeType
    <3>2. UniqueKeys(own, draft) \subseteq FieldKeys
      BY DEF UniqueKeys, ActiveKeys
    <3> HIDE DEF own, data, draft
    <3>3. q \in Request /\ RequestOK(q)
      BY <1>8, <3>1, <3>2 DEF CreateFields, TypeInv, TypeOK, RequestOK, Request
    <3>4. req' = [req EXCEPT ![r] = q]
      BY <1>8, <2>2 DEF CreateFields, TypeInv, TypeOK, own, data, draft
    <3> QED
      BY <1>8, <3>3, <3>4, RequestStep DEF CreateFields, TypeInv, TypeOK
  <2>3. CASE ~Accepts(own, data, FALSE)
    BY <1>8, <2>3, <1>0 DEF CreateFields, TypeInv, TypeOK
  <2> QED
    BY <2>2, <2>3
<1>9. ASSUME NEW r \in Requests, UpdateFields(r)
      PROVE  TypeInv'
  <2> DEFINE own == fields[req[r].schema]
             data == req[r].body.data
             draft == Merge(req[r].before.data, Normalize(own, data, TRUE))
             q == [req[r] EXCEPT !.pc = "update", !.draft = draft, !.todo = UniqueKeys(own, draft)]
             t == [req[r] EXCEPT !.pc = "update"]
  <2>1. /\ own \in FieldMap /\ data \in Data \union {None}
        /\ req[r].before.data \in Data
    BY <1>9 DEF UpdateFields, TypeInv, TypeOK, RequestOK, Body, Row
  <2>2. CASE data # None /\ Accepts(own, data, TRUE)
    <3>1. draft \in Data
      BY <2>1, <2>2, NormalizeType, MergeType
    <3>2. UniqueKeys(own, draft) \subseteq FieldKeys
      BY DEF UniqueKeys, ActiveKeys
    <3> HIDE DEF own, data, draft
    <3>3. q \in Request /\ RequestOK(q)
      BY <1>9, <3>1, <3>2 DEF UpdateFields, TypeInv, TypeOK, RequestOK, Request
    <3>4. req' = [req EXCEPT ![r] = q]
      BY <1>9, <2>2 DEF UpdateFields, TypeInv, TypeOK, own, data, draft
    <3> QED
      BY <1>9, <3>3, <3>4, RequestStep DEF UpdateFields, TypeInv, TypeOK
  <2>3. CASE data = None /\ ~NamesNothing(req[r].body)
    <3>1. t \in Request /\ RequestOK(t)
      BY <1>9 DEF UpdateFields, TypeInv, TypeOK, RequestOK, Request
    <3>2. req' = [req EXCEPT ![r] = t]
      BY <1>9, <2>3 DEF UpdateFields, TypeInv, TypeOK
    <3> QED
      BY <1>9, <3>1, <3>2, RequestStep DEF UpdateFields, TypeInv, TypeOK
  <2>4. CASE Finish(r)
    BY <1>9, <2>4, <1>0 DEF UpdateFields, TypeInv, TypeOK
  <2> QED
    BY <1>9, <2>2, <2>3, <2>4 DEF UpdateFields
<1>10. ASSUME NEW r \in Requests, NEW k \in FieldKeys, CheckUnique(r, k)
       PROVE  TypeInv'
  <2> DEFINE q == [req[r] EXCEPT !.todo = @ \ {k}]
  <2>1. q \in Request /\ RequestOK(q)
    BY <1>10 DEF TypeInv, TypeOK, RequestOK, Request
  <2>2. CASE req' = [req EXCEPT ![r] = q]
    BY <1>10, <2>1, <2>2, RequestStep DEF CheckUnique, TypeInv, TypeOK
  <2>3. CASE Finish(r)
    BY <1>10, <2>3, <1>0 DEF CheckUnique, TypeInv, TypeOK
  <2> QED
    BY <1>10, <2>2, <2>3 DEF CheckUnique, TypeInv, TypeOK
<1>11. ASSUME NEW r \in Requests, NEW e \in EntryIds, InsertEntry(r, e)
       PROVE  TypeInv'
  <2>1. CASE LiveSchema(req[r].schema)
    <3> DEFINE q == AfterWrite(r, e, NewRow(r), 1)
    <3>1. NewRow(r) \in Row
      BY <1>11 DEF InsertEntry, NewRow, Row, TypeInv, RequestOK, Body
    <3>2. VersionOf(NewRow(r)) \in Version
      BY <3>1 DEF VersionOf, Version, Row
    <3>3. q \in Request /\ RequestOK(q)
      BY <3>1, AfterWriteType
    <3>4. <<VersionOf(NewRow(r))>> \in Seq(Version)
      BY <3>2
    <3> HIDE DEF q
    <3>5. /\ req' = [req EXCEPT ![r] = q]
          /\ entries' = [entries EXCEPT ![e] = NewRow(r)]
          /\ log' = [log EXCEPT ![e] = <<VersionOf(NewRow(r))>>]
          /\ UNCHANGED <<schemas, fields, history>>
      BY <1>11, <2>1 DEF InsertEntry, q
    <3>6. entries' \in [EntryIds -> Row \union {Unborn, Gone}]
      BY <3>1, <3>5 DEF TypeInv, TypeOK
    <3>7. log' \in [EntryIds -> Seq(Version)]
      BY <3>4, <3>5 DEF TypeInv, TypeOK
    <3> QED
      BY <3>3, <3>5, <3>6, <3>7, RequestStep DEF TypeInv, TypeOK
  <2>2. CASE ~LiveSchema(req[r].schema)
    BY <1>11, <2>2, <1>0 DEF InsertEntry, TypeInv, TypeOK
  <2> QED
    BY <2>1, <2>2
<1>12. ASSUME NEW r \in Requests, UpdateRow(r)
       PROVE  TypeInv'
  <2> DEFINE e == req[r].entry
             row == Patched(r, entries[e])
  <2>1. CASE Live(e)
    <3> DEFINE q == AfterWrite(r, e, row, Len(log[e]) + 1)
    <3>1. e \in EntryIds /\ log[e] \in Seq(Version)
      BY <1>12, <2>1, PatchedType
    <3>2. row \in Row
      BY <1>12, <2>1, PatchedType
    <3>3. VersionOf(row) \in Version
      BY <1>12, <2>1, PatchedType
    <3> HIDE DEF row
    <3>4. Len(log[e]) + 1 \in Nat /\ Len(log[e]) + 1 >= 1
      BY <3>1
    <3>5. q \in Request /\ RequestOK(q)
      BY <3>1, <3>2, <3>4, AfterWriteType
    <3>6. Append(log[e], VersionOf(row)) \in Seq(Version)
      BY <3>1, <3>3
    <3> HIDE DEF q
    <3>7. /\ req' = [req EXCEPT ![r] = q]
          /\ entries' = [entries EXCEPT ![e] = row]
          /\ log' = [log EXCEPT ![e] = Append(log[e], VersionOf(row))]
          /\ UNCHANGED <<schemas, fields, history>>
      BY <1>12, <2>1 DEF UpdateRow, q, row
    <3>8. entries' \in [EntryIds -> Row \union {Unborn, Gone}]
      BY <3>2, <3>7 DEF TypeInv, TypeOK
    <3>9. log' \in [EntryIds -> Seq(Version)]
      BY <3>6, <3>7 DEF TypeInv, TypeOK
    <3> QED
      BY <3>5, <3>7, <3>8, <3>9, RequestStep DEF TypeInv, TypeOK
  <2>2. CASE ~Live(e)
    BY <1>12, <2>2, <1>0 DEF UpdateRow, TypeInv, TypeOK
  <2> QED
    BY <2>1, <2>2
<1>13. ASSUME NEW r \in Requests, InsertHistory(r)
       PROVE  TypeInv'
  <2> DEFINE e == req[r].entry
  <2>1. e \in EntryIds /\ req[r] \in Request /\ req[r].after \in Row
    BY <1>13 DEF InsertHistory, TypeInv, TypeOK, RequestOK
  <2>2. HistoryRowOf(r) \in HistoryRow
    BY <2>1 DEF HistoryRowOf, HistoryRow, Request, VersionOf, Version, Row
  <2>3. history' \in [EntryIds -> Seq(HistoryRow)]
    <3>1. Append(history[e], HistoryRowOf(r)) \in Seq(HistoryRow)
      BY <2>1, <2>2 DEF TypeInv, TypeOK
    <3> QED
      BY <1>13, <3>1 DEF InsertHistory, TypeInv, TypeOK
  <2> QED
    BY <1>13, <2>3, <1>0 DEF InsertHistory, TypeInv, TypeOK
<1>14. ASSUME NEW r \in Requests, DropSchema(r)
       PROVE  TypeInv'
  <2>1. req' \in [Requests -> Request] /\ \A p \in Requests : RequestOK(req'[p])
    BY <1>14, <1>0 DEF DropSchema
  <2>2. CASE MayDrop(r)
    <3>1. NoFields \in FieldMap
      BY DEF NoFields, FieldMap
    <3>2. schemas' \in [SchemaIds -> {Unborn, "live", Gone}] /\ fields' \in [SchemaIds -> FieldMap]
      BY <1>14, <2>2, <3>1 DEF DropSchema, TypeInv, TypeOK
    <3>3. entries' \in [EntryIds -> Row \union {Unborn, Gone}]
      BY <1>14, <2>2 DEF DropSchema, TypeInv, TypeOK
    <3>4. history' \in [EntryIds -> Seq(HistoryRow)] /\ log' \in [EntryIds -> Seq(Version)]
      <4>1. <<>> \in Seq(HistoryRow) /\ <<>> \in Seq(Version)
        OBVIOUS
      <4> HIDE DEF HistoryRow, Version
      <4>2. /\ history' = [e \in EntryIds |-> IF e \in req[r].doomed THEN <<>> ELSE history[e]]
            /\ log' = [e \in EntryIds |-> IF e \in req[r].doomed THEN <<>> ELSE log[e]]
        BY <1>14, <2>2 DEF DropSchema
      <4> QED
        BY <4>1, <4>2 DEF TypeInv, TypeOK
    <3> QED
      BY <2>1, <3>2, <3>3, <3>4 DEF TypeInv, TypeOK
  <2>3. CASE ~MayDrop(r)
    BY <1>14, <2>1, <2>3 DEF DropSchema, TypeInv, TypeOK
  <2> QED
    BY <2>2, <2>3
<1>15. ASSUME NEW r \in Requests, Abort(r)
       PROVE  TypeInv'
  BY <1>15, <1>0 DEF Abort, TypeInv, TypeOK
<1>16. CASE UNCHANGED vars
  BY <1>16 DEF vars, TypeInv, TypeOK
<1> QED
  BY <1>1, <1>2, <1>3, <1>4, <1>5, <1>6, <1>7, <1>8, <1>9, <1>10, <1>11, <1>12, <1>13, <1>14,
     <1>15, <1>16 DEF Next, Handler, Administration, Arrival, Quiet

\* Spec => []TypeOK: whatever overlaps or fails, every table and every handler
\* holds values of its type. In particular a document reaches the entries table
\* only after validation has turned it into one.
THEOREM TypeCorrect == Spec => []TypeOK
<1>1. Spec => []TypeInv
  BY TypeInit, TypeStep, PTL DEF Spec
<1> QED
  BY <1>1, PTL DEF TypeInv


-----------------------------------------------------------------------------
(* Row locks. *)

\* A request that ends up holding no lock disturbs none, provided the rows the
\* others have locked stay where they are.
LEMMA LockRequest ==
  ASSUME TypeInv, LockInv, NEW r \in Requests, NEW q, q.doomed = {},
         req' = [req EXCEPT ![r] = q],
         \A p \in Requests \ {r} : \A e \in req[p].doomed :
            Live(e)' /\ entries'[e].schema = entries[e].schema
  PROVE  LockInv'
<1>1. req'[r].doomed = {} /\ \A p \in Requests \ {r} : req'[p] = req[p]
  BY DEF TypeInv, TypeOK
<1> QED
  BY <1>1 DEF LockInv, Live

\* Only an open DELETE holds locks.
LEMMA NoLocks ==
  ASSUME LockInv, NEW r \in Requests, req[r].pc # "drop"
  PROVE  req[r].doomed = {}
BY DEF LockInv

LEMMA LockStep == TypeInv /\ LockInv /\ [Next]_vars => LockInv'
<1> SUFFICES ASSUME TypeInv, LockInv, [Next]_vars
             PROVE  LockInv'
  OBVIOUS
<1>0. ASSUME NEW r \in Requests, Finish(r), UNCHANGED entries
      PROVE  LockInv'
  <2>1. Idle.doomed = {}
    BY DEF Idle
  <2>2. req' = [req EXCEPT ![r] = Idle]
    BY <1>0 DEF Finish
  <2>3. \A p \in Requests : \A e \in req[p].doomed : Live(e)' /\ entries'[e].schema = entries[e].schema
    BY <1>0 DEF LockInv, Live
  <2> HIDE DEF Idle
  <2> QED
    BY <2>1, <2>2, <2>3, LockRequest
<1>1. ASSUME NEW r \in Requests, NEW q, q.doomed = {}, req' = [req EXCEPT ![r] = q], UNCHANGED entries
      PROVE  LockInv'
  <2>1. \A p \in Requests : \A e \in req[p].doomed : Live(e)' /\ entries'[e].schema = entries[e].schema
    BY <1>1 DEF LockInv, Live
  <2> QED
    BY <1>1, <2>1, LockRequest
<1>2. ASSUME NEW r \in Requests, NEW s \in SchemaIds, BeginDelete(r, s)
      PROVE  LockInv'
  <2> DEFINE q == [Idle EXCEPT !.pc = "drop", !.schema = s, !.doomed = EntriesOf(s)]
  <2>1. req' = [req EXCEPT ![r] = q] /\ UNCHANGED entries
    BY <1>2 DEF BeginDelete
  <2>2. q.pc = "drop" /\ q.schema = s /\ q.doomed = EntriesOf(s)
    BY DEF Idle
  <2> HIDE DEF q
  <2>3. req'[r] = q /\ \A p \in Requests \ {r} : req'[p] = req[p]
    BY <2>1 DEF TypeInv, TypeOK
  <2>4. \A e \in EntriesOf(s) : \A p \in Requests : e \notin req[p].doomed
    BY <1>2 DEF BeginDelete, Locked
  <2>5. \A e \in EntriesOf(s) : Live(e) /\ entries[e].schema = s
    BY DEF EntriesOf
  <2> QED
    BY <2>1, <2>2, <2>3, <2>4, <2>5 DEF LockInv, Live
<1>3. ASSUME NEW r \in Requests, NEW e \in EntryIds, InsertEntry(r, e)
      PROVE  LockInv'
  <2>1. CASE ~LiveSchema(req[r].schema)
    BY <1>3, <1>0, <2>1 DEF InsertEntry
  <2>2. CASE LiveSchema(req[r].schema)
    <3> DEFINE q == AfterWrite(r, e, NewRow(r), 1)
    <3>1. q.doomed = {}
      BY DEF AfterWrite, Idle
    <3>2. req' = [req EXCEPT ![r] = q]
      BY <1>3, <2>2 DEF InsertEntry
    <3>3. \A p \in Requests : \A f \in req[p].doomed : Live(f)' /\ entries'[f].schema = entries[f].schema
      <4>1. \A p \in Requests : e \notin req[p].doomed
        BY <1>3 DEF InsertEntry, LockInv, Live
      <4>2. \A f \in EntryIds : f # e => entries'[f] = entries[f]
        BY <1>3, <2>2 DEF InsertEntry, TypeInv, TypeOK
      <4>3. \A p \in Requests : req[p].doomed \subseteq EntryIds
        BY DEF TypeInv, TypeOK, Request
      <4> QED
        BY <4>1, <4>2, <4>3 DEF LockInv, Live
    <3> HIDE DEF q
    <3> QED
      BY <3>1, <3>2, <3>3, LockRequest
  <2> QED
    BY <2>1, <2>2
<1>4. ASSUME NEW r \in Requests, UpdateRow(r)
      PROVE  LockInv'
  <2> DEFINE e == req[r].entry
  <2>1. CASE ~Live(e)
    BY <1>4, <1>0, <2>1 DEF UpdateRow
  <2>2. CASE Live(e)
    <3> DEFINE q == AfterWrite(r, e, Patched(r, entries[e]), Len(log[e]) + 1)
    <3>1. q.doomed = {}
      BY DEF AfterWrite, Idle
    <3>2. req' = [req EXCEPT ![r] = q]
      BY <1>4, <2>2 DEF UpdateRow
    <3>3. \A p \in Requests : \A f \in req[p].doomed : Live(f)' /\ entries'[f].schema = entries[f].schema
      <4>1. \A p \in Requests : e \notin req[p].doomed
        BY <1>4 DEF UpdateRow, Locked
      <4>2. \A f \in EntryIds : f # e => entries'[f] = entries[f]
        BY <1>4, <2>2 DEF UpdateRow, TypeInv, TypeOK
      <4>3. \A p \in Requests : req[p].doomed \subseteq EntryIds
        BY DEF TypeInv, TypeOK, Request
      <4> QED
        BY <4>1, <4>2, <4>3 DEF LockInv, Live
    <3> HIDE DEF q
    <3> QED
      BY <3>1, <3>2, <3>3, LockRequest
  <2> QED
    BY <2>1, <2>2
<1>5. ASSUME NEW r \in Requests, DropSchema(r)
      PROVE  LockInv'
  <2>1. CASE ~MayDrop(r)
    BY <1>5, <1>0, <2>1 DEF DropSchema
  <2>2. CASE MayDrop(r)
    <3>1. req' = [req EXCEPT ![r] = Idle] /\ Idle.doomed = {}
      BY <1>5 DEF DropSchema, Finish, Idle
    <3>2. \A p \in Requests \ {r} : \A f \in req[p].doomed :
             Live(f)' /\ entries'[f].schema = entries[f].schema
      <4>1. \A p \in Requests \ {r} : \A f \in req[p].doomed : f \in EntryIds /\ f \notin req[r].doomed
        BY DEF LockInv, TypeInv, TypeOK, Request
      <4>2. \A f \in EntryIds : f \notin req[r].doomed => entries'[f] = entries[f]
        BY <1>5, <2>2 DEF DropSchema
      <4> QED
        BY <4>1, <4>2 DEF LockInv, Live
    <3> HIDE DEF Idle
    <3> QED
      BY <3>1, <3>2, LockRequest
  <2> QED
    BY <2>1, <2>2
<1>6. ASSUME NEW r \in Requests, CreateFields(r)
      PROVE  LockInv'
  <2> DEFINE own == fields[req[r].schema]
             draft == Normalize(own, req[r].body.data, FALSE)
             q == [req[r] EXCEPT !.pc = "create", !.draft = draft, !.todo = UniqueKeys(own, draft)]
  <2>1. UNCHANGED entries /\ req[r].pc = "createFields"
    BY <1>6 DEF CreateFields
  <2>2. CASE Finish(r)
    BY <2>1, <2>2, <1>0
  <2>3. CASE req' = [req EXCEPT ![r] = q]
    <3>1. q.doomed = {}
      BY <2>1, NoLocks DEF TypeInv, TypeOK, Request
    <3> HIDE DEF q
    <3> QED
      BY <2>1, <2>3, <3>1, <1>1
  <2> QED
    BY <1>6, <2>2, <2>3 DEF CreateFields, TypeInv, TypeOK
<1>7. ASSUME NEW r \in Requests, UpdateFields(r)
      PROVE  LockInv'
  <2> DEFINE own == fields[req[r].schema]
             draft == Merge(req[r].before.data, Normalize(own, req[r].body.data, TRUE))
             q == [req[r] EXCEPT !.pc = "update", !.draft = draft, !.todo = UniqueKeys(own, draft)]
             t == [req[r] EXCEPT !.pc = "update"]
  <2>1. UNCHANGED entries /\ req[r].pc = "updateFields"
    BY <1>7 DEF UpdateFields
  <2>2. CASE Finish(r)
    BY <2>1, <2>2, <1>0
  <2>3. q.doomed = {} /\ t.doomed = {}
    BY <2>1, NoLocks DEF TypeInv, TypeOK, Request
  <2>4. CASE req' = [req EXCEPT ![r] = q]
    <3> HIDE DEF q
    <3> QED
      BY <2>1, <2>3, <2>4, <1>1
  <2>5. CASE req' = [req EXCEPT ![r] = t]
    <3> HIDE DEF t
    <3> QED
      BY <2>1, <2>3, <2>5, <1>1
  <2> QED
    BY <1>7, <2>2, <2>4, <2>5 DEF UpdateFields, TypeInv, TypeOK
<1>8. ASSUME NEW r \in Requests, NEW k \in FieldKeys, CheckUnique(r, k)
      PROVE  LockInv'
  <2> DEFINE q == [req[r] EXCEPT !.todo = @ \ {k}]
  <2>1. UNCHANGED entries /\ req[r].pc # "drop"
    BY <1>8 DEF CheckUnique
  <2>2. CASE Finish(r)
    BY <2>1, <2>2, <1>0
  <2>3. CASE req' = [req EXCEPT ![r] = q]
    <3>1. q.doomed = {}
      BY <2>1, NoLocks DEF TypeInv, TypeOK, Request
    <3> HIDE DEF q
    <3> QED
      BY <2>1, <2>3, <3>1, <1>1
  <2> QED
    BY <1>8, <2>2, <2>3 DEF CheckUnique, TypeInv, TypeOK
<1>9. ASSUME NEW r \in Requests, NEW s \in SchemaIds, NEW body \in Bodies, PostEntry(r, s, body)
      PROVE  LockInv'
  BY <1>9, <1>1 DEF PostEntry, Idle
<1>10. ASSUME NEW r \in Requests, NEW e \in EntryIds, NEW body \in Bodies, PatchEntry(r, e, body)
       PROVE  LockInv'
  BY <1>10, <1>1 DEF PatchEntry, Idle
<1>11. ASSUME UNCHANGED <<entries, req>>
       PROVE  LockInv'
  BY <1>11 DEF LockInv, Live
<1> QED
  BY <1>0, <1>2, <1>3, <1>4, <1>5, <1>6, <1>7, <1>8, <1>9, <1>10, <1>11
  DEF Next, Handler, Administration, Arrival, Quiet, vars, CreateSchema, AddField, UpdateField,
      DeleteField, InsertHistory, Abort


-----------------------------------------------------------------------------
(* References. *)

LEMMA ReferencesStep ==
  TypeInv /\ LockInv /\ ReferentialIntegrity /\ [Next]_vars => ReferentialIntegrity'
<1> SUFFICES ASSUME TypeInv, LockInv, ReferentialIntegrity, [Next]_vars
             PROVE  ReferentialIntegrity'
  OBVIOUS
<1>0. ASSUME UNCHANGED <<schemas, fields, entries, history>>
      PROVE  ReferentialIntegrity'
  BY <1>0 DEF ReferentialIntegrity, Live, LiveSchema
<1>1. ASSUME NEW r \in Requests, NEW s \in SchemaIds, CreateSchema(r, s)
      PROVE  ReferentialIntegrity'
  <2>1. \A t : LiveSchema(t) /\ t \in SchemaIds => LiveSchema(t)'
    BY <1>1 DEF CreateSchema, LiveSchema, TypeInv, TypeOK
  <2>2. \A e \in EntryIds : Live(e) => entries[e].schema \in SchemaIds
    BY DEF Live, TypeInv, TypeOK, Row
  <2> QED
    BY <1>1, <2>1, <2>2 DEF CreateSchema, ReferentialIntegrity, Live
<1>2. ASSUME NEW r \in Requests, NEW s \in SchemaIds, NEW k \in FieldKeys, NEW row \in FieldRows,
             AddField(r, s, k, row)
      PROVE  ReferentialIntegrity'
  <2>1. \A t \in SchemaIds, l \in FieldKeys : t # s => fields'[t][l] = fields[t][l]
    BY <1>2 DEF AddField, TypeInv, TypeOK
  <2> QED
    BY <1>2, <2>1 DEF AddField, ReferentialIntegrity, Live, LiveSchema
<1>3. ASSUME NEW r \in Requests, NEW s \in SchemaIds, NEW k \in FieldKeys, NEW row \in FieldRows,
             NEW newKey \in FieldKeys, UpdateField(r, s, k, newKey, row)
      PROVE  ReferentialIntegrity'
  <2>1. \A t \in SchemaIds, l \in FieldKeys : t # s => fields'[t][l] = fields[t][l]
    BY <1>3 DEF UpdateField, TypeInv, TypeOK
  <2> QED
    BY <1>3, <2>1 DEF UpdateField, ReferentialIntegrity, Live, LiveSchema
<1>4. ASSUME NEW r \in Requests, NEW s \in SchemaIds, NEW k \in FieldKeys, DeleteField(r, s, k)
      PROVE  ReferentialIntegrity'
  <2>1. \A t \in SchemaIds, l \in FieldKeys : t # s => fields'[t][l] = fields[t][l]
    BY <1>4 DEF DeleteField, TypeInv, TypeOK
  <2> QED
    BY <1>4, <2>1 DEF DeleteField, ReferentialIntegrity, Live, LiveSchema
<1>5. ASSUME NEW r \in Requests, NEW e \in EntryIds, InsertEntry(r, e)
      PROVE  ReferentialIntegrity'
  <2>1. CASE ~LiveSchema(req[r].schema)
    BY <1>5, <1>0, <2>1 DEF InsertEntry
  <2>2. CASE LiveSchema(req[r].schema)
    <3>1. entries'[e] = NewRow(r) /\ \A f \in EntryIds : f # e => entries'[f] = entries[f]
      BY <1>5, <2>2 DEF InsertEntry, TypeInv, TypeOK
    <3>2. UNCHANGED <<schemas, fields, history>>
      BY <1>5 DEF InsertEntry
    <3>3. NewRow(r).schema = req[r].schema
      BY DEF NewRow
    <3>4. NewRow(r) \in Row
      BY <1>5 DEF InsertEntry, NewRow, Row, TypeInv, RequestOK, Body
    <3>5. Live(e)'
      BY <3>1, <3>4, EntriesAssumption DEF Live
    <3> QED
      BY <2>2, <3>1, <3>2, <3>3, <3>5 DEF ReferentialIntegrity, Live, LiveSchema
  <2> QED
    BY <2>1, <2>2
<1>6. ASSUME NEW r \in Requests, UpdateRow(r)
      PROVE  ReferentialIntegrity'
  <2> DEFINE e == req[r].entry
  <2>1. CASE ~Live(e)
    BY <1>6, <1>0, <2>1 DEF UpdateRow
  <2>2. CASE Live(e)
    <3> DEFINE row == Patched(r, entries[e])
    <3>1. e \in EntryIds
      BY <1>6, <2>2, PatchedType
    <3>2. row.schema = entries[e].schema
      BY <1>6, <2>2, PatchedType
    <3>3. row \notin {Unborn, Gone}
      BY <1>6, <2>2, PatchedType
    <3> HIDE DEF e, row
    <3>4. entries'[e] = row /\ \A f \in EntryIds : f # e => entries'[f] = entries[f]
      BY <1>6, <2>2, <3>1 DEF UpdateRow, TypeInv, TypeOK, e, row
    <3>5. UNCHANGED <<schemas, fields, history>>
      BY <1>6 DEF UpdateRow
    <3>6. \A f \in EntryIds : Live(f)' = Live(f) /\ (Live(f) => entries'[f].schema = entries[f].schema)
      BY <2>2, <3>2, <3>3, <3>4 DEF Live
    <3> QED
      BY <3>5, <3>6 DEF ReferentialIntegrity, LiveSchema
  <2> QED
    BY <2>1, <2>2
<1>7. ASSUME NEW r \in Requests, InsertHistory(r)
      PROVE  ReferentialIntegrity'
  <2> DEFINE e == req[r].entry
  <2>1. UNCHANGED <<schemas, fields, entries>>
    BY <1>7 DEF InsertHistory
  <2>2. \A f \in EntryIds : history'[f] # <<>> => Live(f)
    BY <1>7 DEF InsertHistory, ReferentialIntegrity, TypeInv, TypeOK
  <2> QED
    BY <2>1, <2>2 DEF ReferentialIntegrity, Live, LiveSchema
<1>8. ASSUME NEW r \in Requests, DropSchema(r)
      PROVE  ReferentialIntegrity'
  <2>1. CASE ~MayDrop(r)
    BY <1>8, <1>0, <2>1 DEF DropSchema
  <2>2. CASE MayDrop(r)
    <3> DEFINE s == req[r].schema
    <3>1. s \in SchemaIds
      BY <1>8 DEF DropSchema, TypeInv, RequestOK
    <3>2. \A t \in SchemaIds : t # s => schemas'[t] = schemas[t] /\ fields'[t] = fields[t]
      BY <1>8, <2>2 DEF DropSchema, TypeInv, TypeOK
    <3>3. \A k \in FieldKeys : fields'[s][k] = None
      BY <1>8, <2>2, <3>1 DEF DropSchema, NoFields, TypeInv, TypeOK
    <3>4. \A e \in EntryIds : IF e \in req[r].doomed THEN entries'[e] = Gone /\ history'[e] = <<>>
                             ELSE entries'[e] = entries[e] /\ history'[e] = history[e]
      BY <1>8, <2>2 DEF DropSchema
    <3>5. \A e \in EntryIds : Live(e) /\ entries[e].schema = s => e \in req[r].doomed
      BY <2>2 DEF MayDrop, EntriesOf
    <3>6. \A e \in EntryIds : Live(e) => entries[e].schema \in SchemaIds
      BY DEF Live, TypeInv, TypeOK, Row
    <3>7. \A e \in EntryIds : Live(e)' => e \notin req[r].doomed /\ Live(e)
      BY <3>4 DEF Live
    <3>8. \A e \in EntryIds : Live(e)' => LiveSchema(entries[e].schema)'
      BY <3>2, <3>4, <3>5, <3>6, <3>7 DEF ReferentialIntegrity, LiveSchema
    <3>9. \A e \in EntryIds : history'[e] # <<>> => Live(e)'
      BY <3>4 DEF ReferentialIntegrity, Live
    <3>10. \A t \in SchemaIds, k \in FieldKeys : fields'[t][k] # None => LiveSchema(t)'
      BY <3>2, <3>3 DEF ReferentialIntegrity, LiveSchema
    <3> QED
      BY <3>8, <3>9, <3>10 DEF ReferentialIntegrity
  <2> QED
    BY <2>1, <2>2
<1> QED
  BY <1>0, <1>1, <1>2, <1>3, <1>4, <1>5, <1>6, <1>7, <1>8
  DEF Next, Handler, Administration, Arrival, Quiet, vars, Abort, CreateFields, UpdateFields,
      CheckUnique, PostEntry, PatchEntry, BeginDelete


-----------------------------------------------------------------------------
(* The past of an entry. *)

LEMMA GrowsSame ==
  ASSUME TypeInv, UNCHANGED <<entries, log>>
  PROVE  Grows(entries, log, entries', log')
BY DEF Grows, TypeInv, TypeOK

\* Every step lets the past grow and keeps the log in line with the table.
LEMMA LogStep ==
  TypeInv /\ LogInv /\ [Next]_vars => LogInv' /\ Grows(entries, log, entries', log')
<1> SUFFICES ASSUME TypeInv, LogInv, [Next]_vars
             PROVE  LogInv' /\ Grows(entries, log, entries', log')
  OBVIOUS
<1>0. ASSUME UNCHANGED <<entries, log, history>>
      PROVE  LogInv' /\ Grows(entries, log, entries', log')
  BY <1>0, GrowsSame DEF LogInv, Live
<1>1. ASSUME NEW r \in Requests, NEW e \in EntryIds, InsertEntry(r, e)
      PROVE  LogInv' /\ Grows(entries, log, entries', log')
  <2>1. CASE ~LiveSchema(req[r].schema)
    BY <1>1, <1>0, <2>1 DEF InsertEntry
  <2>2. CASE LiveSchema(req[r].schema)
    <3> DEFINE row == NewRow(r)
    <3>1. row \in Row
      BY <1>1 DEF InsertEntry, NewRow, Row, TypeInv, RequestOK, Body
    <3>2. row \notin {Unborn, Gone} /\ entries[e] = Unborn
      BY <1>1, <3>1, EntriesAssumption DEF InsertEntry
    <3> HIDE DEF row
    <3>3. /\ entries'[e] = row /\ \A f \in EntryIds : f # e => entries'[f] = entries[f]
          /\ log'[e] = <<VersionOf(row)>> /\ \A f \in EntryIds : f # e => log'[f] = log[f]
          /\ history' = history
      BY <1>1, <2>2 DEF InsertEntry, TypeInv, TypeOK, row
    <3>4. Len(<<VersionOf(row)>>) = 1 /\ <<VersionOf(row)>>[1] = VersionOf(row)
      OBVIOUS
    <3>5. LogInv'
      BY <3>2, <3>3, <3>4 DEF LogInv, Live
    <3>6. Grows(entries, log, entries', log')
      BY <3>2, <3>3 DEF Grows, TypeInv, TypeOK
    <3> QED
      BY <3>5, <3>6
  <2> QED
    BY <2>1, <2>2
<1>2. ASSUME NEW r \in Requests, UpdateRow(r)
      PROVE  LogInv' /\ Grows(entries, log, entries', log')
  <2> DEFINE e == req[r].entry
  <2>1. CASE ~Live(e)
    BY <1>2, <1>0, <2>1 DEF UpdateRow
  <2>2. CASE Live(e)
    <3> DEFINE row == Patched(r, entries[e])
    <3>1. e \in EntryIds /\ log[e] \in Seq(Version)
      BY <1>2, <2>2, PatchedType
    <3>3. row \notin {Unborn, Gone} /\ entries[e] \notin {Unborn, Gone}
      BY <1>2, <2>2, PatchedType DEF Live
    <3>4. VersionOf(row) \in Version
      BY <1>2, <2>2, PatchedType
    <3> HIDE DEF e, row
    <3>5. /\ entries'[e] = row /\ \A f \in EntryIds : f # e => entries'[f] = entries[f]
          /\ log'[e] = Append(log[e], VersionOf(row)) /\ \A f \in EntryIds : f # e => log'[f] = log[f]
          /\ history' = history
      BY <1>2, <2>2, <3>1 DEF UpdateRow, TypeInv, TypeOK, e, row
    <3> DEFINE past == log[e]
    <3> HIDE DEF past
    <3>6. /\ Len(Append(past, VersionOf(row))) = Len(past) + 1
          /\ Append(past, VersionOf(row))[Len(past) + 1] = VersionOf(row)
          /\ \A v \in 1 .. Len(past) : Append(past, VersionOf(row))[v] = past[v]
          /\ Len(past) \in Nat
      BY <3>1, <3>4 DEF past
    <3>7. LogInv'
      BY <3>3, <3>5, <3>6 DEF LogInv, Live, past
    <3>8. Grows(entries, log, entries', log')
      <4>1. Len(log[e]) <= Len(log'[e]) /\ \A v \in 1 .. Len(log[e]) : log'[e][v] = log[e][v]
        BY <3>5, <3>6 DEF past
      <4>2. \A f \in EntryIds : Len(log[f]) \in Nat
        BY DEF TypeInv, TypeOK
      <4> QED
        BY <3>3, <3>5, <4>1, <4>2 DEF Grows
    <3> QED
      BY <3>7, <3>8
  <2> QED
    BY <2>1, <2>2
<1>3. ASSUME NEW r \in Requests, InsertHistory(r)
      PROVE  LogInv' /\ Grows(entries, log, entries', log')
  <2>1. \A f \in EntryIds : ~Live(f) => history'[f] = history[f]
    BY <1>3 DEF InsertHistory, TypeInv, TypeOK
  <2>2. UNCHANGED <<entries, log>>
    BY <1>3 DEF InsertHistory
  <2> QED
    BY <2>1, <2>2, GrowsSame DEF LogInv, Live
<1>4. ASSUME NEW r \in Requests, DropSchema(r)
      PROVE  LogInv' /\ Grows(entries, log, entries', log')
  <2>1. CASE ~MayDrop(r)
    BY <1>4, <1>0, <2>1 DEF DropSchema
  <2>2. CASE MayDrop(r)
    <3>1. \A e \in EntryIds :
            IF e \in req[r].doomed THEN entries'[e] = Gone /\ history'[e] = <<>> /\ log'[e] = <<>>
            ELSE entries'[e] = entries[e] /\ history'[e] = history[e] /\ log'[e] = log[e]
      BY <1>4, <2>2 DEF DropSchema
    <3>2. LogInv'
      BY <3>1 DEF LogInv, Live
    <3>3. \A e \in EntryIds : Len(log[e]) \in Nat
      BY DEF TypeInv, TypeOK
    <3>4. Grows(entries, log, entries', log')
      BY <3>1, <3>3, EntriesAssumption DEF Grows
    <3> QED
      BY <3>2, <3>4
  <2> QED
    BY <2>1, <2>2
<1>5. ASSUME NEW r \in Requests, Administration(r) \/ Arrival(r) \/ Abort(r)
      PROVE  UNCHANGED <<entries, log, history>>
  BY <1>5 DEF Administration, Arrival, Abort, PostEntry, PatchEntry, BeginDelete, CreateSchema,
              AddField, UpdateField, DeleteField
<1>6. ASSUME NEW r \in Requests, CreateFields(r) \/ UpdateFields(r) \/ \E k \in FieldKeys : CheckUnique(r, k)
      PROVE  UNCHANGED <<entries, log, history>>
  BY <1>6 DEF CreateFields, UpdateFields, CheckUnique
<1> QED
  BY <1>0, <1>1, <1>2, <1>3, <1>4, <1>5, <1>6 DEF Next, Handler, Quiet, vars

\* What a handler knows stays true while the past grows.
LEMMA SnapshotKept ==
  ASSUME NEW q, RequestOK(q), NEW rows, NEW past, NEW rows2, NEW past2,
         SnapshotOK(q, rows, past), Grows(rows, past, rows2, past2),
         \A e \in EntryIds : Len(past[e]) \in Nat /\ Len(past2[e]) \in Nat
  PROVE  SnapshotOK(q, rows2, past2)
<1> DEFINE e == q.entry
<1>1. CASE q.pc \in {"updateFields", "update"}
  <2>1. e \in EntryIds /\ rows[e] # Unborn /\ rows2[e] # Unborn
    BY <1>1 DEF RequestOK, SnapshotOK, Grows
  <2>2. SUFFICES ASSUME rows2[e] # Gone
                 PROVE  \E v \in 1 .. Len(past2[e]) : past2[e][v] = VersionOf(q.before)
    BY <1>1, <2>1 DEF SnapshotOK
  <2>3. rows[e] \notin {Unborn, Gone}
    BY <2>1, <2>2 DEF Grows
  <2>4. PICK v \in 1 .. Len(past[e]) : past[e][v] = VersionOf(q.before)
    BY <1>1, <2>3 DEF SnapshotOK
  <2>5. v \in 1 .. Len(past2[e]) /\ past2[e][v] = past[e][v]
    BY <2>1, <2>2, <2>4 DEF Grows
  <2> QED
    BY <2>4, <2>5
<1>2. CASE q.pc = "history"
  <2>1. e \in EntryIds /\ rows[e] # Unborn /\ rows2[e] # Unborn
    BY <1>2 DEF RequestOK, SnapshotOK, Grows
  <2>2. CASE rows2[e] = Gone
    BY <1>2, <2>1, <2>2 DEF SnapshotOK
  <2>3. CASE rows2[e] # Gone
    <3>1. /\ rows[e] \notin {Unborn, Gone}
          /\ Len(past[e]) <= Len(past2[e])
          /\ \A v \in 1 .. Len(past[e]) : past2[e][v] = past[e][v]
      BY <2>1, <2>3 DEF Grows
    <3>2. /\ q.version \in 1 .. Len(past[e])
          /\ past[e][q.version] = VersionOf(q.after)
          /\ IF q.version = 1 THEN q.before = None
             ELSE /\ q.before # None
                  /\ \E v \in 1 .. (q.version - 1) : past[e][v] = VersionOf(q.before)
      BY <1>2, <3>1 DEF SnapshotOK
    <3>3. q.version \in 1 .. Len(past2[e]) /\ past2[e][q.version] = VersionOf(q.after)
      BY <2>1, <3>1, <3>2
    <3>4. CASE q.version # 1
      <4>1. PICK v \in 1 .. (q.version - 1) : past[e][v] = VersionOf(q.before)
        BY <3>2, <3>4
      <4>2. past2[e][v] = VersionOf(q.before)
        BY <2>1, <3>1, <3>2, <4>1
      <4> QED
        BY <1>2, <2>1, <3>2, <3>3, <3>4, <4>2 DEF SnapshotOK
    <3> QED
      BY <1>2, <2>1, <3>2, <3>3, <3>4 DEF SnapshotOK
  <2> QED
    BY <2>2, <2>3
<1>3. CASE q.pc \notin {"updateFields", "update", "history"}
  BY <1>3 DEF SnapshotOK
<1> QED
  BY <1>1, <1>2, <1>3


LEMMA SnapshotStep ==
  TypeInv /\ TypeInv' /\ LogInv /\ SnapshotInv /\ Grows(entries, log, entries', log') /\ [Next]_vars
    => SnapshotInv'
<1> SUFFICES ASSUME TypeInv, TypeInv', LogInv, SnapshotInv, Grows(entries, log, entries', log'), [Next]_vars
             PROVE  SnapshotInv'
  OBVIOUS
<1>1. \A e \in EntryIds : Len(log[e]) \in Nat /\ Len(log'[e]) \in Nat
  BY DEF TypeInv, TypeOK
<1>2. \A p \in Requests : SnapshotOK(req[p], entries', log')
  BY <1>1, SnapshotKept DEF TypeInv, SnapshotInv
<1>3. ASSUME NEW r \in Requests, NEW q, req' = [req EXCEPT ![r] = q], SnapshotOK(q, entries', log')
      PROVE  SnapshotInv'
  BY <1>2, <1>3 DEF SnapshotInv, TypeInv, TypeOK
<1>4. ASSUME NEW r \in Requests, NEW q, req' = [req EXCEPT ![r] = q],
             q.pc \notin {"updateFields", "update", "history"}
      PROVE  SnapshotInv'
  BY <1>3, <1>4 DEF SnapshotOK
<1>5. ASSUME NEW r \in Requests, Finish(r)
      PROVE  SnapshotInv'
  <2>1. Idle.pc = "idle"
    BY DEF Idle
  <2> HIDE DEF Idle
  <2> QED
    BY <1>4, <1>5, <2>1 DEF Finish
<1>6. ASSUME UNCHANGED req
      PROVE  SnapshotInv'
  BY <1>2, <1>6 DEF SnapshotInv
<1>7. ASSUME NEW r \in Requests, NEW s \in SchemaIds, NEW body \in Bodies, PostEntry(r, s, body)
      PROVE  SnapshotInv'
  <2> DEFINE q == [Idle EXCEPT !.pc = "createFields", !.schema = s, !.body = body]
  <2>1. q.pc = "createFields" /\ req' = [req EXCEPT ![r] = q]
    BY <1>7 DEF PostEntry, Idle
  <2> HIDE DEF q
  <2> QED
    BY <1>4, <2>1
<1>8. ASSUME NEW r \in Requests, NEW s \in SchemaIds, BeginDelete(r, s)
      PROVE  SnapshotInv'
  <2> DEFINE q == [Idle EXCEPT !.pc = "drop", !.schema = s, !.doomed = EntriesOf(s)]
  <2>1. q.pc = "drop" /\ req' = [req EXCEPT ![r] = q]
    BY <1>8 DEF BeginDelete, Idle
  <2> HIDE DEF q
  <2> QED
    BY <1>4, <2>1
<1>9. ASSUME NEW r \in Requests, CreateFields(r)
      PROVE  SnapshotInv'
  <2> DEFINE own == fields[req[r].schema]
             draft == Normalize(own, req[r].body.data, FALSE)
             q == [req[r] EXCEPT !.pc = "create", !.draft = draft, !.todo = UniqueKeys(own, draft)]
  <2>1. q.pc = "create"
    BY DEF TypeInv, TypeOK, Request
  <2>2. CASE Finish(r)
    BY <2>2, <1>5
  <2>3. CASE req' = [req EXCEPT ![r] = q]
    <3> HIDE DEF q
    <3> QED
      BY <2>1, <2>3, <1>4
  <2> QED
    BY <1>9, <2>2, <2>3 DEF CreateFields, TypeInv, TypeOK
<1>10. ASSUME NEW r \in Requests, req[r].pc \in {"updateFields", "update"}, NEW q,
              q.pc \in {"create", "update"}, q.entry = req[r].entry, q.before = req[r].before
       PROVE  SnapshotOK(q, entries', log')
  BY <1>2, <1>10 DEF SnapshotOK
<1>11. ASSUME NEW r \in Requests, UpdateFields(r)
       PROVE  SnapshotInv'
  <2> DEFINE own == fields[req[r].schema]
             draft == Merge(req[r].before.data, Normalize(own, req[r].body.data, TRUE))
             q == [req[r] EXCEPT !.pc = "update", !.draft = draft, !.todo = UniqueKeys(own, draft)]
             t == [req[r] EXCEPT !.pc = "update"]
  <2>1. /\ req[r].pc = "updateFields" /\ q.pc = "update" /\ t.pc = "update"
        /\ q.entry = req[r].entry /\ q.before = req[r].before
        /\ t.entry = req[r].entry /\ t.before = req[r].before
    BY <1>11 DEF UpdateFields, TypeInv, TypeOK, Request
  <2>2. CASE Finish(r)
    BY <2>2, <1>5
  <2>3. CASE req' = [req EXCEPT ![r] = q]
    <3> HIDE DEF q
    <3>1. SnapshotOK(q, entries', log')
      BY <2>1, <1>10
    <3> QED
      BY <2>3, <3>1, <1>3
  <2>4. CASE req' = [req EXCEPT ![r] = t]
    <3> HIDE DEF t
    <3>1. SnapshotOK(t, entries', log')
      BY <2>1, <1>10
    <3> QED
      BY <2>4, <3>1, <1>3
  <2> QED
    BY <1>11, <2>2, <2>3, <2>4 DEF UpdateFields, TypeInv, TypeOK
<1>12. ASSUME NEW r \in Requests, NEW k \in FieldKeys, CheckUnique(r, k)
       PROVE  SnapshotInv'
  <2> DEFINE q == [req[r] EXCEPT !.todo = @ \ {k}]
  <2>1. q.pc = req[r].pc /\ q.entry = req[r].entry /\ q.before = req[r].before
    BY DEF TypeInv, TypeOK, Request
  <2>2. req[r].pc \in {"create", "update"}
    BY <1>12 DEF CheckUnique
  <2>3. CASE Finish(r)
    BY <2>3, <1>5
  <2>4. CASE req' = [req EXCEPT ![r] = q]
    <3> HIDE DEF q
    <3>1. CASE req[r].pc = "create"
      BY <2>1, <2>4, <3>1, <1>4
    <3>2. CASE req[r].pc = "update"
      <4>1. SnapshotOK(q, entries', log')
        BY <2>1, <3>2, <1>10
      <4> QED
        BY <2>4, <4>1, <1>3
    <3> QED
      BY <2>2, <3>1, <3>2
  <2> QED
    BY <1>12, <2>3, <2>4 DEF CheckUnique, TypeInv, TypeOK
<1>13. ASSUME NEW r \in Requests, NEW e \in EntryIds, NEW body \in Bodies, PatchEntry(r, e, body)
       PROVE  SnapshotInv'
  <2> DEFINE q == [Idle EXCEPT !.pc = "updateFields", !.schema = entries[e].schema,
                              !.entry = e, !.before = entries[e], !.body = body]
  <2>1. /\ Live(e) /\ UNCHANGED <<entries, log>>
        /\ q.pc = "updateFields" /\ q.entry = e /\ q.before = entries[e]
        /\ req' = [req EXCEPT ![r] = q]
    BY <1>13 DEF PatchEntry, Idle
  <2> HIDE DEF q
  <2>2. Len(log[e]) \in 1 .. Len(log[e]) /\ log[e][Len(log[e])] = VersionOf(entries[e])
    BY <1>1, <2>1 DEF LogInv
  <2>3. SnapshotOK(q, entries', log')
    BY <2>1, <2>2 DEF SnapshotOK, Live
  <2> QED
    BY <1>3, <2>1, <2>3
<1>14. ASSUME NEW r \in Requests, NEW e \in EntryIds, InsertEntry(r, e)
       PROVE  SnapshotInv'
  <2>1. CASE ~LiveSchema(req[r].schema)
    BY <1>14, <1>5, <2>1 DEF InsertEntry
  <2>2. CASE LiveSchema(req[r].schema)
    <3> DEFINE row == NewRow(r)
               q == AfterWrite(r, e, row, 1)
    <3>1. row \in Row /\ req[r].before = None
      BY <1>14 DEF InsertEntry, NewRow, Row, TypeInv, RequestOK, Body
    <3>2. row \notin {Unborn, Gone}
      BY <3>1, EntriesAssumption
    <3>3. /\ q.pc = "history" /\ q.entry = e /\ q.before = None
          /\ q.after = row /\ q.version = 1
      BY <3>1 DEF AfterWrite, Idle
    <3>4. /\ req' = [req EXCEPT ![r] = q] /\ entries'[e] = row /\ log'[e] = <<VersionOf(row)>>
      BY <1>14, <2>2 DEF InsertEntry, TypeInv, TypeOK
    <3> HIDE DEF row, q
    <3>5. SnapshotOK(q, entries', log')
      BY <3>2, <3>3, <3>4 DEF SnapshotOK
    <3> QED
      BY <1>3, <3>4, <3>5
  <2> QED
    BY <2>1, <2>2
<1>15. ASSUME NEW r \in Requests, UpdateRow(r)
       PROVE  SnapshotInv'
  <2> DEFINE e == req[r].entry
  <2>1. CASE ~Live(e)
    BY <1>15, <1>5, <2>1 DEF UpdateRow
  <2>2. CASE Live(e)
    <3> DEFINE row == Patched(r, entries[e])
               q == AfterWrite(r, e, row, Len(log[e]) + 1)
               past == log[e]
    <3>1. /\ e \in EntryIds /\ past \in Seq(Version)
          /\ req[r].before \in Row /\ req[r].pc = "update"
      BY <1>15, <2>2 DEF UpdateRow, Live, TypeInv, TypeOK, RequestOK
    <3>2. VersionOf(row) \in Version /\ row \notin {Unborn, Gone}
      BY <1>15, <2>2, PatchedType
    <3>3. req[r].before # None
      BY <3>1, EntriesAssumption
    <3>4. /\ q.pc = "history" /\ q.entry = e /\ q.before = req[r].before
          /\ q.after = row /\ q.version = Len(past) + 1
      BY DEF AfterWrite, Idle
    <3> HIDE DEF row, q
    <3>5. /\ req' = [req EXCEPT ![r] = q] /\ entries'[e] = row
          /\ log'[e] = Append(past, VersionOf(row))
      BY <1>15, <2>2, <3>1 DEF UpdateRow, TypeInv, TypeOK, row, q
    <3>6. PICK v \in 1 .. Len(past) : past[v] = VersionOf(req[r].before)
      BY <2>2, <3>1 DEF SnapshotInv, SnapshotOK, Live
    <3> HIDE DEF past, e
    <3>7. /\ Len(Append(past, VersionOf(row))) = Len(past) + 1
          /\ Append(past, VersionOf(row))[Len(past) + 1] = VersionOf(row)
          /\ Append(past, VersionOf(row))[v] = past[v]
          /\ Len(past) \in Nat /\ Len(past) >= 1
      BY <3>1, <3>2, <3>6
    <3>8. v \in 1 .. (q.version - 1) /\ log'[e][v] = VersionOf(q.before)
      BY <3>4, <3>5, <3>6, <3>7
    <3>9. q.version \in 1 .. Len(log'[e]) /\ q.version # 1 /\ log'[e][q.version] = VersionOf(q.after)
      BY <3>4, <3>5, <3>7
    <3>10. SnapshotOK(q, entries', log')
      BY <3>2, <3>3, <3>4, <3>5, <3>8, <3>9 DEF SnapshotOK
    <3> QED
      BY <1>3, <3>5, <3>10
  <2> QED
    BY <2>1, <2>2
<1>16. ASSUME NEW r \in Requests, InsertHistory(r) \/ DropSchema(r) \/ Abort(r)
       PROVE  SnapshotInv'
  BY <1>16, <1>5 DEF InsertHistory, DropSchema, Abort
<1>17. ASSUME NEW r \in Requests, Administration(r)
       PROVE  SnapshotInv'
  BY <1>6, <1>8, <1>17 DEF Administration, CreateSchema, AddField, UpdateField, DeleteField
<1> QED
  BY <1>6, <1>7, <1>9, <1>11, <1>12, <1>13, <1>14, <1>15, <1>16, <1>17
  DEF Next, Handler, Arrival, Quiet, vars

-----------------------------------------------------------------------------
(* The audit trail. *)

\* What one history row claims of the past of its entry.
RowTruthful(h, past) ==
  /\ h.version \in DOMAIN past
  /\ past[h.version] = h.new
  /\ IF h.version = 1 THEN h.old = None
     ELSE \E v \in 1 .. (h.version - 1) : past[v] = h.old

LEMMA TruthKept ==
  ASSUME NEW S, NEW past \in Seq(S), NEW past2 \in Seq(S), Len(past) <= Len(past2),
         \A v \in 1 .. Len(past) : past2[v] = past[v],
         NEW h, RowTruthful(h, past)
  PROVE  RowTruthful(h, past2)
<1>1. h.version \in 1 .. Len(past) /\ Len(past) \in Nat /\ Len(past2) \in Nat
  BY DEF RowTruthful
<1>2. h.version \in DOMAIN past2 /\ past2[h.version] = h.new
  BY <1>1 DEF RowTruthful
<1>3. CASE h.version # 1
  <2>1. PICK v \in 1 .. (h.version - 1) : past[v] = h.old
    BY <1>3 DEF RowTruthful
  <2>2. past2[v] = h.old
    BY <1>1, <2>1
  <2> QED
    BY <1>2, <1>3, <2>1, <2>2 DEF RowTruthful
<1> QED
  BY <1>2, <1>3 DEF RowTruthful

LEMMA HistoryStep ==
  TypeInv /\ TypeInv' /\ LogInv /\ SnapshotInv /\ HistoryTruthful
    /\ LogInv' /\ Grows(entries, log, entries', log') /\ [Next]_vars
    => HistoryTruthful'
<1> SUFFICES ASSUME TypeInv, TypeInv', LogInv, LogInv', SnapshotInv, HistoryTruthful,
                    Grows(entries, log, entries', log'), [Next]_vars,
                    NEW e \in EntryIds, NEW i \in DOMAIN history'[e]
             PROVE  RowTruthful(history'[e][i], log'[e])
  BY DEF HistoryTruthful, RowTruthful
<1>1. /\ log[e] \in Seq(Version) /\ log'[e] \in Seq(Version)
      /\ history[e] \in Seq(HistoryRow) /\ history'[e] \in Seq(HistoryRow)
  BY DEF TypeInv, TypeOK
<1>2. Live(e)'
  BY <1>1 DEF LogInv
<1>3. /\ entries[e] # Unborn => /\ Live(e)
                               /\ Len(log[e]) <= Len(log'[e])
                               /\ \A v \in 1 .. Len(log[e]) : log'[e][v] = log[e][v]
  BY <1>2 DEF Grows, Live
<1>4. ASSUME NEW h, RowTruthful(h, log[e]), entries[e] # Unborn
      PROVE  RowTruthful(h, log'[e])
  BY <1>1, <1>3, <1>4, TruthKept
<1>5. CASE history'[e] = history[e]
  <2>1. Live(e)
    BY <1>1, <1>5 DEF LogInv
  <2>2. RowTruthful(history[e][i], log[e])
    BY <1>5 DEF HistoryTruthful, RowTruthful
  <2> QED
    BY <1>4, <1>5, <2>1, <2>2 DEF Live
<1>6. ASSUME NEW r \in Requests, InsertHistory(r)
      PROVE  RowTruthful(history'[e][i], log'[e])
  <2>1. CASE ~Live(req[r].entry) \/ req[r].entry # e
    BY <1>5, <1>6, <2>1 DEF InsertHistory, TypeInv, TypeOK
  <2>2. CASE Live(e) /\ req[r].entry = e
    <3> DEFINE h == HistoryRowOf(r)
    <3>1. history'[e] = Append(history[e], h) /\ log'[e] = log[e]
      BY <1>6, <2>2 DEF InsertHistory, TypeInv, TypeOK
    <3>2. RowTruthful(h, log[e])
      <4>1. /\ req[r].version \in 1 .. Len(log[e])
            /\ log[e][req[r].version] = VersionOf(req[r].after)
            /\ IF req[r].version = 1 THEN req[r].before = None
               ELSE /\ req[r].before # None
                    /\ \E v \in 1 .. (req[r].version - 1) : log[e][v] = VersionOf(req[r].before)
        BY <1>6, <2>2 DEF InsertHistory, SnapshotInv, SnapshotOK, Live
      <4>2. /\ h.version = req[r].version /\ h.new = VersionOf(req[r].after)
            /\ h.old = IF req[r].before = None THEN None ELSE VersionOf(req[r].before)
        BY DEF HistoryRowOf
      <4> HIDE DEF h
      <4> QED
        BY <1>1, <4>1, <4>2 DEF RowTruthful
    <3>3. h \in HistoryRow
      <4>1. req[r] \in Request /\ req[r].after \in Row
        BY <1>6 DEF InsertHistory, TypeInv, TypeOK, RequestOK
      <4> QED
        BY <4>1 DEF HistoryRowOf, HistoryRow, Request, VersionOf, Version, Row
    <3> HIDE DEF h
    <3>4. CASE i \in DOMAIN history[e]
      <4>1. history'[e][i] = history[e][i]
        BY <1>1, <3>1, <3>3, <3>4
      <4>2. RowTruthful(history[e][i], log[e])
        BY <3>4 DEF HistoryTruthful, RowTruthful
      <4> QED
        BY <3>1, <4>1, <4>2
    <3>5. CASE i = Len(history[e]) + 1
      <4>1. history'[e][i] = h
        BY <1>1, <3>1, <3>3, <3>5
      <4> QED
        BY <3>1, <3>2, <4>1
    <3> QED
      BY <1>1, <3>1, <3>3, <3>4, <3>5
  <2> QED
    BY <2>1, <2>2
<1>7. ASSUME NEW r \in Requests, DropSchema(r)
      PROVE  RowTruthful(history'[e][i], log'[e])
  <2>1. history'[e] = history[e] \/ history'[e] = <<>>
    BY <1>7 DEF DropSchema
  <2> QED
    BY <1>5, <2>1
<1>8. ASSUME NEW r \in Requests, Administration(r) \/ Arrival(r) \/ Abort(r)
      PROVE  UNCHANGED history
  BY <1>8 DEF Administration, Arrival, Abort, PostEntry, PatchEntry, BeginDelete, CreateSchema,
              AddField, UpdateField, DeleteField
<1>9. ASSUME NEW r \in Requests,
             \/ CreateFields(r) \/ UpdateFields(r) \/ UpdateRow(r)
             \/ \E k \in FieldKeys : CheckUnique(r, k)
             \/ \E f \in EntryIds : InsertEntry(r, f)
      PROVE  UNCHANGED history
  BY <1>9 DEF CreateFields, UpdateFields, UpdateRow, CheckUnique, InsertEntry
<1> QED
  BY <1>5, <1>6, <1>7, <1>8, <1>9 DEF Next, Handler, Quiet, vars


-----------------------------------------------------------------------------
(* The theorems. *)

LEMMA InvInit == Init => IInv
<1> SUFFICES ASSUME Init PROVE IInv
  OBVIOUS
<1>1. ReferentialIntegrity /\ LogInv /\ HistoryTruthful
  BY EntriesAssumption DEF Init, ReferentialIntegrity, LogInv, HistoryTruthful, Live, NoFields
<1>2. LockInv /\ SnapshotInv
  BY DEF Init, Idle, LockInv, SnapshotInv, SnapshotOK
<1> QED
  BY <1>1, <1>2, TypeInit DEF IInv

LEMMA InvStep == IInv /\ [Next]_vars => IInv'
BY TypeStep, LockStep, ReferencesStep, LogStep, SnapshotStep, HistoryStep DEF IInv

LEMMA InvHolds == Spec => []IInv
BY InvInit, InvStep, PTL DEF Spec

\* However many requests overlap or die, no committed state has an entry without
\* its schema, a history row without its entry or a field without its schema: the
\* two statements of delete_schema and the foreign keys are enough.
THEOREM ReferencesHold == Spec => []ReferentialIntegrity
BY InvHolds, PTL DEF IInv

\* The audit trail never lies: each row names a version that was committed and, as
\* its old content, one committed earlier - although old comes from a snapshot and
\* new from the UPDATE, in different transactions.
THEOREM HistoryNeverLies == Spec => []HistoryTruthful
BY InvHolds, PTL DEF IInv

\* Entries leave the table only with their schema, all of them in one step.
THEOREM SchemaDeleteAtomic == Spec => SchemaDeleteIsAtomic
<1>1. ASSUME IInv, [Next]_vars, NEW e \in EntryIds, Live(e), ~Live(e)'
      PROVE  schemas'[entries[e].schema] = Gone
               /\ \A f \in EntriesOf(entries[e].schema) : entries'[f] = Gone
  <2>1. ASSUME NEW r \in Requests, DropSchema(r)
        PROVE  schemas'[entries[e].schema] = Gone
                 /\ \A f \in EntriesOf(entries[e].schema) : entries'[f] = Gone
    <3>1. MayDrop(r) /\ e \in req[r].doomed
      BY <1>1, <2>1 DEF DropSchema, Live
    <3>2. entries[e].schema = req[r].schema /\ req[r].schema \in SchemaIds
      BY <1>1, <2>1, <3>1 DEF IInv, LockInv, TypeInv, RequestOK, DropSchema
    <3>3. schemas'[req[r].schema] = Gone
      BY <1>1, <2>1, <3>1, <3>2 DEF DropSchema, IInv, TypeInv, TypeOK
    <3>4. \A f \in EntriesOf(req[r].schema) : entries'[f] = Gone
      BY <2>1, <3>1 DEF DropSchema, MayDrop, EntriesOf
    <3> QED
      BY <3>2, <3>3, <3>4
  <2>2. ASSUME NEW r \in Requests, NEW f \in EntryIds, InsertEntry(r, f)
        PROVE  FALSE
    <3>1. CASE f = e
      BY <1>1, <2>2, <3>1 DEF InsertEntry, Live
    <3>2. CASE f # e
      BY <1>1, <2>2, <3>2 DEF InsertEntry, Live, IInv, TypeInv, TypeOK
    <3> QED
      BY <3>1, <3>2
  <2>3. ASSUME NEW r \in Requests, UpdateRow(r)
        PROVE  FALSE
    <3>1. CASE Live(req[r].entry)
      <4>1. Patched(r, entries[req[r].entry]) \notin {Unborn, Gone} /\ req[r].entry \in EntryIds
        BY <1>1, <2>3, <3>1, PatchedType DEF IInv
      <4> DEFINE row == Patched(r, entries[req[r].entry])
      <4> HIDE DEF row
      <4>2. entries' = [entries EXCEPT ![req[r].entry] = row]
        BY <2>3, <3>1 DEF UpdateRow, row
      <4> QED
        BY <1>1, <4>1, <4>2 DEF Live, IInv, TypeInv, TypeOK, row
    <3>2. CASE ~Live(req[r].entry)
      BY <1>1, <2>3, <3>2 DEF UpdateRow, Live
    <3> QED
      BY <3>1, <3>2
  <2>4. ASSUME NEW r \in Requests,
               \/ Administration(r) \/ Arrival(r) \/ Abort(r) \/ CreateFields(r) \/ UpdateFields(r)
               \/ InsertHistory(r) \/ \E k \in FieldKeys : CheckUnique(r, k)
        PROVE  UNCHANGED entries
    BY <2>4 DEF Administration, Arrival, Abort, PostEntry, PatchEntry, BeginDelete, CreateSchema,
                AddField, UpdateField, DeleteField, CreateFields, UpdateFields, InsertHistory, CheckUnique
  <2> QED
    BY <1>1, <2>1, <2>2, <2>3, <2>4 DEF Next, Handler, Quiet, vars, Live
<1>2. IInv /\ [Next]_vars =>
        [\A e \in EntryIds : (Live(e) /\ (~Live(e))') =>
           LET s == entries[e].schema IN
           schemas'[s] = Gone /\ \A f \in EntriesOf(s) : entries'[f] = Gone]_vars
  BY <1>1 DEF Live
<1> QED
  BY <1>2, InvHolds, PTL DEF Spec, SchemaDeleteIsAtomic

\* An UPDATE leaves alone the columns its request does not name, whatever the
\* handler read before.
THEOREM OnlyNamedColumns == Spec => OnlyNamedColumnsChange
<1> DEFINE Kept(e) ==
      /\ entries[e].deleted => entries'[e].deleted
      /\ entries'[e].vis # entries[e].vis =>
           \E r \in Requests : req[r].pc = "update" /\ req[r].entry = e
                               /\ req[r].body.vis = entries'[e].vis
      /\ entries'[e].schema = entries[e].schema
<1>1. ASSUME IInv, [Next]_vars, NEW e \in EntryIds, Live(e), Live(e)'
      PROVE  Kept(e)
  <2>1. CASE entries'[e] = entries[e]
    BY <2>1
  <2>2. ASSUME NEW r \in Requests, UpdateRow(r), entries'[e] # entries[e]
        PROVE  Kept(e)
    <3>1. Live(req[r].entry)
      BY <2>2 DEF UpdateRow
    <3> DEFINE row == Patched(r, entries[req[r].entry])
    <3>2. req[r].entry \in EntryIds /\ row.schema = entries[req[r].entry].schema
      BY <1>1, <2>2, <3>1, PatchedType DEF IInv
    <3>3. entries' = [entries EXCEPT ![req[r].entry] = row]
      BY <2>2, <3>1 DEF UpdateRow
    <3>4. e = req[r].entry /\ entries'[e] = row
      BY <1>1, <2>2, <3>2, <3>3 DEF IInv, TypeInv, TypeOK
    <3>5. entries[e] \in Row
      BY <1>1 DEF Live, IInv, TypeInv, TypeOK
    <3>6. entries[e].deleted => row.deleted
      BY <3>4, <3>5 DEF Patched, Row
    <3>7. row.vis # entries[e].vis => req[r].body.vis = row.vis
      BY <3>4, <3>5 DEF Patched, Row
    <3> QED
      BY <2>2, <3>2, <3>4, <3>6, <3>7 DEF UpdateRow
  <2>3. ASSUME NEW r \in Requests, NEW f \in EntryIds, InsertEntry(r, f)
        PROVE  entries'[e] = entries[e]
    BY <1>1, <2>3 DEF InsertEntry, Live, IInv, TypeInv, TypeOK
  <2>4. ASSUME NEW r \in Requests, DropSchema(r)
        PROVE  entries'[e] = entries[e]
    BY <1>1, <2>4 DEF DropSchema, Live
  <2>5. ASSUME NEW r \in Requests,
               \/ Administration(r) \/ Arrival(r) \/ Abort(r) \/ CreateFields(r) \/ UpdateFields(r)
               \/ InsertHistory(r) \/ \E k \in FieldKeys : CheckUnique(r, k)
        PROVE  UNCHANGED entries
    BY <2>5 DEF Administration, Arrival, Abort, PostEntry, PatchEntry, BeginDelete, CreateSchema,
                AddField, UpdateField, DeleteField, CreateFields, UpdateFields, InsertHistory, CheckUnique
  <2> QED
    BY <1>1, <2>1, <2>2, <2>3, <2>4, <2>5 DEF Next, Handler, Quiet, vars
<1>2. IInv /\ [Next]_vars => [\A e \in EntryIds : (Live(e) /\ Live(e)') => Kept(e)]_vars
  BY <1>1
<1> QED
  BY <1>2, InvHolds, PTL DEF Spec, OnlyNamedColumnsChange
=============================================================================
