------------------------- MODULE EntriesSerialProofs -------------------------
(***************************************************************************)
(* What Entries promises when requests come one at a time, for any number  *)
(* of schemas, entries and fields: nothing changes between what a request  *)
(* reads and what it writes, so the audit trail is the whole past, a PATCH *)
(* touches the fields it names, and a unique field stays unique.           *)
(***************************************************************************)
EXTENDS EntriesProofs

OneAtATime == \A r, q \in Requests : r = q

\* The row a PATCH read is the row that is there.
SnapshotIsNow(r) ==
  req[r].pc \in {"updateFields", "update"} =>
    /\ req[r].before = entries[req[r].entry]
    /\ req[r].schema = req[r].before.schema

\* The draft of a PATCH differs from the row only in fields the body names.
DraftMerges(r) ==
  /\ req[r].pc = "updateFields" => req[r].draft = None
  /\ (req[r].pc = "update" /\ req[r].draft # None) =>
       /\ req[r].draft \in Data /\ req[r].body.data # None
       /\ \A k \in FieldKeys : req[r].draft[k] # req[r].before.data[k] => req[r].body.data[k] # Absent

\* Of the unique keys of the draft, all but those still to be checked are free.
DraftIsFree(r) ==
  (req[r].pc \in {"create", "update"} /\ req[r].draft # None) =>
    \A k \in UniqueKeys(fields[req[r].schema], req[r].draft) \ req[r].todo :
      ~Clashes(req[r].schema, k, req[r].draft[k], req[r].entry)

\* If no request dies, the record still to be written is the next of the trail, and
\* starts where the last one ended.
RecordIsNext(r) ==
  (~Failures /\ req[r].pc = "history") =>
    LET e == req[r].entry  n == req[r].version IN
    /\ Live(e) /\ Len(log[e]) = n /\ Len(history[e]) = n - 1
    /\ n > 1 => VersionOf(req[r].before) = log[e][n - 1]

\* If no request dies, each row of the trail tells of its own version.
TrailInOrder ==
  \A e \in EntryIds : (~Failures /\ Live(e)) =>
    /\ Len(history[e]) <= Len(log[e])
    /\ \A i \in 1 .. Len(history[e]) :
         /\ history[e][i].new = log[e][i]
         /\ history[e][i].old = (IF i = 1 THEN None ELSE log[e][i - 1])
    /\ Pending(e) = {} => Len(history[e]) = Len(log[e])

\* A creation has no id yet.
NoIdYet(r) == req[r].pc \in {"createFields", "create"} => req[r].entry = None

Serial(r) ==
  NoIdYet(r) /\ SnapshotIsNow(r) /\ DraftMerges(r) /\ DraftIsFree(r) /\ RecordIsNext(r)
SerialInv == TrailInOrder /\ \A r \in Requests : Serial(r)

-----------------------------------------------------------------------------
(* A single request *)

LEMMA PendingAlone ==
  ASSUME OneAtATime, NEW r \in Requests, NEW e
  PROVE  /\ Pending(e) = {} <=> ~(req[r].pc = "history" /\ req[r].entry = e)
         /\ Pending(e)' = {} <=> ~(req'[r].pc = "history" /\ req'[r].entry = e)
BY DEF OneAtATime, Pending

LEMMA Alone ==
  ASSUME OneAtATime, NEW r \in Requests
  PROVE  /\ (\A p \in Requests : Serial(p)) <=> Serial(r)
         /\ (\A p \in Requests : Serial(p)') <=> Serial(r)'
BY DEF OneAtATime

\* While nothing is to be recorded, the trail is complete, and stays so as long as
\* nothing is written.
LEMMA TrailKept ==
  ASSUME OneAtATime, TrailInOrder, NEW r \in Requests, req[r].pc # "history",
         UNCHANGED <<entries, log, history>>
  PROVE  TrailInOrder'
<1> SUFFICES ASSUME ~Failures, NEW e \in EntryIds, Live(e)'
             PROVE  /\ Len(history'[e]) <= Len(log'[e])
                    /\ \A i \in 1 .. Len(history'[e]) :
                         /\ history'[e][i].new = log'[e][i]
                         /\ history'[e][i].old = (IF i = 1 THEN None ELSE log'[e][i - 1])
                    /\ Len(history'[e]) = Len(log'[e])
  BY DEF TrailInOrder
<1>1. Live(e) /\ Pending(e) = {}
  BY PendingAlone DEF Live
<1> QED
  BY <1>1 DEF TrailInOrder

\* A request that is over, or has only begun to read, holds nothing that could be
\* out of date.
LEMMA NothingHeld ==
  ASSUME NEW r \in Requests, req'[r].pc \in {"idle", "drop"}
  PROVE  Serial(r)'
BY DEF Serial, NoIdYet, SnapshotIsNow, DraftMerges, DraftIsFree, RecordIsNext

LEMMA Finished ==
  ASSUME OneAtATime, TypeInv, SerialInv, NEW r \in Requests, Finish(r), req[r].pc # "history",
         UNCHANGED <<entries, log, history>>
  PROVE  SerialInv'
<1>1. req'[r].pc = "idle"
  BY DEF Finish, Idle, TypeInv, TypeOK
<1>2. Serial(r)'
  BY <1>1, NothingHeld
<1> QED
  BY <1>2, Alone, TrailKept DEF SerialInv

LEMMA AdministrationSerial ==
  ASSUME OneAtATime, TypeInv, SerialInv, NEW r \in Requests, Administration(r)
  PROVE  SerialInv'
<1>1. ASSUME NEW s \in SchemaIds, BeginDelete(r, s)
      PROVE  /\ req[r].pc = "idle" /\ req'[r].pc = "drop"
             /\ UNCHANGED <<entries, log, history>>
  BY <1>1 DEF BeginDelete, Idle, TypeInv, TypeOK
<1>2. /\ req[r].pc = "idle" /\ req'[r].pc \in {"idle", "drop"}
      /\ UNCHANGED <<entries, log, history>>
  BY <1>1 DEF Administration, CreateSchema, AddField, UpdateField, DeleteField
<1>3. Serial(r)'
  BY <1>2, NothingHeld
<1> QED
  BY <1>2, <1>3, Alone, TrailKept DEF SerialInv

LEMMA ArrivalSerial ==
  ASSUME OneAtATime, TypeInv, SerialInv, NEW r \in Requests, Arrival(r)
  PROVE  SerialInv'
<1>1. ASSUME NEW s \in SchemaIds, NEW body, PostEntry(r, s, body)
      PROVE  /\ req[r].pc = "idle" /\ UNCHANGED <<entries, log, history>>
             /\ req'[r].pc = "createFields" /\ req'[r].entry = None
  BY <1>1 DEF PostEntry, Idle, TypeInv, TypeOK
<1>2. ASSUME NEW e \in EntryIds, NEW body, PatchEntry(r, e, body)
      PROVE  /\ req[r].pc = "idle" /\ UNCHANGED <<entries, log, history>>
             /\ req'[r].pc = "updateFields" /\ req'[r].entry = e
             /\ req'[r].before = entries[e] /\ req'[r].schema = entries[e].schema
             /\ req'[r].draft = None
  BY <1>2 DEF PatchEntry, Idle, TypeInv, TypeOK
<1>3. req[r].pc = "idle" /\ UNCHANGED <<entries, log, history>>
  BY <1>1, <1>2 DEF Arrival
<1>4. Serial(r)'
  BY <1>1, <1>2 DEF Arrival, Serial, NoIdYet, SnapshotIsNow, DraftMerges, DraftIsFree, RecordIsNext
<1> QED
  BY <1>3, <1>4, Alone, TrailKept DEF SerialInv

-----------------------------------------------------------------------------
(* Validation and the uniqueness queries *)

LEMMA CreateFieldsSerial ==
  ASSUME OneAtATime, TypeInv, SerialInv, NEW r \in Requests, CreateFields(r)
  PROVE  SerialInv'
<1> DEFINE own == fields[req[r].schema]
           draft == Normalize(own, req[r].body.data, FALSE)
<1>1. CASE Finish(r)
  BY <1>1, Finished DEF CreateFields
<1>2. CASE req' = [req EXCEPT ![r].pc = "create", ![r].draft = draft, ![r].todo = UniqueKeys(own, draft)]
  <2>1. /\ req'[r].pc = "create" /\ req'[r].draft = draft /\ req'[r].todo = UniqueKeys(own, draft)
        /\ req'[r].schema = req[r].schema /\ req'[r].entry = req[r].entry /\ fields' = fields
        /\ req[r].pc = "createFields"
    BY <1>2 DEF CreateFields, TypeInv, TypeOK, Request
  <2>2. UniqueKeys(fields'[req'[r].schema], req'[r].draft) \ req'[r].todo = {}
    BY <2>1
  <2>3. req[r].entry = None
    BY <2>1 DEF SerialInv, Serial, NoIdYet
  <2>4. Serial(r)'
    BY <2>1, <2>2, <2>3 DEF Serial, NoIdYet, SnapshotIsNow, DraftMerges, DraftIsFree, RecordIsNext
  <2> QED
    BY <2>1, <2>4, Alone, TrailKept DEF SerialInv, CreateFields
<1> QED
  BY <1>1, <1>2 DEF CreateFields

\* What a merge changes, the changes name; what they name, the body names.
LEMMA MergeChanges ==
  ASSUME NEW own, NEW old \in Data, NEW data, NEW k \in FieldKeys,
         Merge(old, Normalize(own, data, TRUE))[k] # old[k]
  PROVE  data[k] # Absent
BY DEF Merge, Normalize

LEMMA UpdateFieldsSerial ==
  ASSUME OneAtATime, TypeInv, SerialInv, NEW r \in Requests, UpdateFields(r)
  PROVE  SerialInv'
<1> DEFINE own == fields[req[r].schema]
           data == req[r].body.data
           old == req[r].before.data
           draft == Merge(old, Normalize(own, data, TRUE))
<1>1. /\ req[r] \in Request /\ req[r].pc = "updateFields" /\ UNCHANGED <<entries, log, history, fields>>
      /\ req[r].before = entries[req[r].entry] /\ req[r].schema = req[r].before.schema
      /\ req[r].before \in Row /\ req[r].schema \in SchemaIds /\ req[r].body \in Body
  BY DEF UpdateFields, TypeInv, TypeOK, RequestOK, SerialInv, Serial, SnapshotIsNow
<1>2. CASE Finish(r)
  BY <1>1, <1>2, Finished
<1>3. CASE /\ data # None /\ Accepts(own, data, TRUE)
           /\ req' = [req EXCEPT ![r].pc = "update", ![r].draft = draft, ![r].todo = UniqueKeys(own, draft)]
  <2>1. own \in FieldMap /\ data \in Data /\ old \in Data
    BY <1>1, <1>3 DEF TypeInv, TypeOK, Body, Row
  <2>2. draft \in Data /\ draft # None
    BY <1>3, <2>1, NormalizeType, MergeType, NoneAssumption
  <2>3. \A k \in FieldKeys : draft[k] # old[k] => data[k] # Absent
    BY <2>1, MergeChanges
  <2> HIDE DEF draft
  <2>4. /\ req'[r].pc = "update" /\ req'[r].draft = draft /\ req'[r].todo = UniqueKeys(own, draft)
        /\ req'[r].schema = req[r].schema /\ req'[r].entry = req[r].entry
        /\ req'[r].before = req[r].before /\ req'[r].body = req[r].body
    BY <1>1, <1>3 DEF Request, TypeInv, TypeOK
  <2>5. UniqueKeys(fields'[req'[r].schema], req'[r].draft) \ req'[r].todo = {}
    BY <1>1, <2>4
  <2>6. Serial(r)'
    BY <1>1, <1>3, <2>2, <2>3, <2>4, <2>5
       DEF Serial, NoIdYet, SnapshotIsNow, DraftMerges, DraftIsFree, RecordIsNext
  <2> QED
    BY <1>1, <2>6, Alone, TrailKept DEF SerialInv
<1>4. CASE req' = [req EXCEPT ![r].pc = "update"]
  <2>1. /\ req'[r].pc = "update" /\ req'[r].draft = req[r].draft
        /\ req'[r].schema = req[r].schema /\ req'[r].entry = req[r].entry
        /\ req'[r].before = req[r].before
    BY <1>1, <1>4 DEF Request, TypeInv, TypeOK
  <2>2. req[r].draft = None
    BY <1>1 DEF SerialInv, Serial, DraftMerges
  <2>3. Serial(r)'
    BY <1>1, <2>1, <2>2 DEF Serial, NoIdYet, SnapshotIsNow, DraftMerges, DraftIsFree, RecordIsNext
  <2> QED
    BY <1>1, <2>3, Alone, TrailKept DEF SerialInv
<1> QED
  BY <1>2, <1>3, <1>4 DEF UpdateFields

LEMMA CheckUniqueSerial ==
  ASSUME OneAtATime, TypeInv, SerialInv, NEW r \in Requests, NEW k \in FieldKeys, CheckUnique(r, k)
  PROVE  SerialInv'
<1>1. req[r].pc \in {"create", "update"} /\ UNCHANGED <<entries, log, history, fields>>
  BY DEF CheckUnique
<1>2. CASE Finish(r)
  BY <1>1, <1>2, Finished
<1>3. CASE /\ ~Clashes(req[r].schema, k, req[r].draft[k], req[r].entry)
           /\ req' = [req EXCEPT ![r].todo = @ \ {k}]
  <2>1. /\ req'[r].pc = req[r].pc /\ req'[r].draft = req[r].draft /\ req'[r].todo = req[r].todo \ {k}
        /\ req'[r].schema = req[r].schema /\ req'[r].entry = req[r].entry
        /\ req'[r].before = req[r].before /\ req'[r].body = req[r].body
    BY <1>3 DEF TypeInv, TypeOK, Request
  <2>2. Serial(r)
    BY DEF SerialInv
  <2>3. DraftIsFree(r)'
    BY <1>1, <1>3, <2>1, <2>2 DEF Serial, DraftIsFree, Clashes, Live
  <2>4. Serial(r)'
    BY <1>1, <2>1, <2>2, <2>3 DEF Serial, NoIdYet, SnapshotIsNow, DraftMerges, RecordIsNext
  <2> QED
    BY <1>1, <2>4, Alone, TrailKept DEF SerialInv
<1> QED
  BY <1>2, <1>3 DEF CheckUnique

-----------------------------------------------------------------------------
(* The writes *)

\* A request that has written a version which is the next one of its entry's trail.
LEMMA WrittenSerial ==
  ASSUME OneAtATime, TypeInv, SerialInv, NEW r \in Requests, NEW e \in EntryIds, NEW row \in Row,
         req[r].pc # "history", ~Failures => Len(log[e]) = Len(history[e]),
         entries' = [entries EXCEPT ![e] = row],
         log' = [log EXCEPT ![e] = Append(log[e], VersionOf(row))],
         req' = [req EXCEPT ![r] = AfterWrite(r, e, row, Len(log[e]) + 1)],
         Len(log[e]) > 0 => VersionOf(req[r].before) = log[e][Len(log[e])],
         ~Failures => \A i \in 1 .. Len(history[e]) :
           /\ history[e][i].new = log[e][i]
           /\ history[e][i].old = (IF i = 1 THEN None ELSE log[e][i - 1]),
         UNCHANGED history
  PROVE  SerialInv'
<1>1. /\ req'[r].pc = "history" /\ req'[r].entry = e /\ req'[r].version = Len(log[e]) + 1
      /\ req'[r].before = req[r].before
  BY DEF AfterWrite, Idle, TypeInv, TypeOK
<1>2. /\ log \in [EntryIds -> Seq(Version)] /\ entries \in [EntryIds -> Row \union {Unborn, Gone}]
      /\ history \in [EntryIds -> Seq(HistoryRow)]
      /\ VersionOf(row) \in Version /\ row \notin {Unborn, Gone}
  BY EntriesAssumption DEF TypeInv, TypeOK, VersionOf, Version, Row
<1> DEFINE n == Len(log[e])
<1>3. /\ n \in Nat /\ Len(log'[e]) = n + 1 /\ log'[e][n + 1] = VersionOf(row)
      /\ \A i \in 1 .. n : log'[e][i] = log[e][i]
      /\ \A f \in EntryIds \ {e} : log'[f] = log[f] /\ entries'[f] = entries[f]
      /\ entries'[e] = row
  BY <1>2
<1>4. Serial(r)'
  <2>1. RecordIsNext(r)'
    BY <1>1, <1>2, <1>3 DEF RecordIsNext, Live
  <2> QED
    BY <1>1, <2>1 DEF Serial, NoIdYet, SnapshotIsNow, DraftMerges, DraftIsFree
<1>5. TrailInOrder'
  <2> SUFFICES ASSUME ~Failures, NEW f \in EntryIds, Live(f)'
               PROVE  /\ Len(history[f]) <= Len(log'[f])
                      /\ \A i \in 1 .. Len(history[f]) :
                           /\ history[f][i].new = log'[f][i]
                           /\ history[f][i].old = (IF i = 1 THEN None ELSE log'[f][i - 1])
                      /\ Pending(f)' = {} => Len(history[f]) = Len(log'[f])
    BY DEF TrailInOrder
  <2>1. CASE f = e
    <3>1. Pending(f)' # {}
      BY <1>1, <2>1, PendingAlone
    <3>2. Len(history[f]) = n
      BY <2>1
    <3>3. ASSUME NEW i \in 1 .. n
          PROVE  /\ history[e][i].new = log'[e][i]
                 /\ history[e][i].old = (IF i = 1 THEN None ELSE log'[e][i - 1])
      <4>1. log'[e][i] = log[e][i] /\ (i # 1 => log'[e][i - 1] = log[e][i - 1])
        BY <1>3
      <4> QED
        BY <4>1
    <3>4. Len(history[f]) <= Len(log'[f])
      BY <1>3, <2>1, <3>2
    <3>5. 1 .. Len(history[f]) = 1 .. n
      BY <3>2
    <3> HIDE DEF n
    <3>6. \A i \in 1 .. Len(history[f]) :
            /\ history[f][i].new = log'[f][i]
            /\ history[f][i].old = (IF i = 1 THEN None ELSE log'[f][i - 1])
      BY <2>1, <3>3, <3>5, Zenon
    <3>7. Pending(f)' = {} => Len(history[f]) = Len(log'[f])
      BY <3>1
    <3> QED
      BY <3>4, <3>6, <3>7, Zenon
  <2>2. CASE f # e
    <3>1. Live(f) /\ log'[f] = log[f]
      BY <1>3, <2>2 DEF Live
    <3>2. Pending(f) = {}
      BY PendingAlone
    <3>3. Len(history[f]) = Len(log[f])
      BY <3>1, <3>2 DEF SerialInv, TrailInOrder
    <3>4. /\ Len(history[f]) <= Len(log[f])
          /\ \A i \in 1 .. Len(history[f]) :
               /\ history[f][i].new = log[f][i]
               /\ history[f][i].old = (IF i = 1 THEN None ELSE log[f][i - 1])
      BY <3>1, Zenon DEF SerialInv, TrailInOrder
    <3> QED
      BY <3>1, <3>3, <3>4, Zenon
  <2> QED
    BY <2>1, <2>2
<1> QED
  BY <1>4, <1>5, Alone DEF SerialInv

LEMMA InsertEntrySerial ==
  ASSUME OneAtATime, IInv, SerialInv, NEW r \in Requests, NEW e \in EntryIds, InsertEntry(r, e)
  PROVE  SerialInv'
<1>1. req[r].pc = "create" /\ TypeInv
  BY DEF InsertEntry, IInv
<1>2. CASE ~LiveSchema(req[r].schema)
  BY <1>1, <1>2, Finished DEF InsertEntry
<1>3. CASE LiveSchema(req[r].schema)
  <2> DEFINE row == NewRow(r)
  <2>1. row \in Row
    BY <1>1 DEF NewRow, Row, TypeInv, RequestOK, Body
  <2>2. log[e] = <<>> /\ history[e] = <<>>
    BY EntriesAssumption DEF InsertEntry, IInv, LogInv, Live
  <2> HIDE DEF row
  <2>3. /\ entries' = [entries EXCEPT ![e] = row]
        /\ log' = [log EXCEPT ![e] = <<VersionOf(row)>>]
        /\ req' = [req EXCEPT ![r] = AfterWrite(r, e, row, 1)]
        /\ UNCHANGED history
    BY <1>3 DEF InsertEntry, row
  <2>4. Len(log[e]) = 0 /\ Len(history[e]) = 0 /\ Append(log[e], VersionOf(row)) = <<VersionOf(row)>>
    BY <2>2
  <2>5. /\ Len(log[e]) = Len(history[e]) /\ ~(Len(log[e]) > 0) /\ 1 .. Len(history[e]) = {}
        /\ log' = [log EXCEPT ![e] = Append(log[e], VersionOf(row))]
        /\ req' = [req EXCEPT ![r] = AfterWrite(r, e, row, Len(log[e]) + 1)]
    BY <2>3, <2>4
  <2> QED
    BY <1>1, <2>1, <2>3, <2>5, WrittenSerial
<1> QED
  BY <1>2, <1>3 DEF InsertEntry

LEMMA UpdateRowSerial ==
  ASSUME OneAtATime, IInv, SerialInv, NEW r \in Requests, UpdateRow(r)
  PROVE  SerialInv'
<1> DEFINE e == req[r].entry
           row == Patched(r, entries[e])
<1>1. req[r].pc = "update" /\ TypeInv
  BY DEF UpdateRow, IInv
<1>2. CASE ~Live(e)
  BY <1>1, <1>2, Finished DEF UpdateRow
<1>3. CASE Live(e)
  <2>1. e \in EntryIds /\ row \in Row
    BY <1>1, <1>3, PatchedType
  <2> HIDE DEF row
  <2>2. /\ entries' = [entries EXCEPT ![e] = row]
        /\ log' = [log EXCEPT ![e] = Append(log[e], VersionOf(row))]
        /\ req' = [req EXCEPT ![r] = AfterWrite(r, e, row, Len(log[e]) + 1)]
        /\ UNCHANGED history
    BY <1>3 DEF UpdateRow, row
  <2>3. Pending(e) = {}
    BY <1>1, PendingAlone
  <2>4. ~Failures =>
          /\ Len(log[e]) = Len(history[e])
          /\ \A i \in 1 .. Len(history[e]) :
               /\ history[e][i].new = log[e][i]
               /\ history[e][i].old = (IF i = 1 THEN None ELSE log[e][i - 1])
    BY <1>3, <2>1, <2>3 DEF SerialInv, TrailInOrder
  <2>5. Len(log[e]) > 0 => VersionOf(req[r].before) = log[e][Len(log[e])]
    BY <1>1, <1>3, <2>1 DEF SerialInv, Serial, SnapshotIsNow, IInv, LogInv
  <2> HIDE DEF e
  <2> QED
    BY <1>1, <2>1, <2>2, <2>4, <2>5, WrittenSerial
<1> QED
  BY <1>2, <1>3 DEF UpdateRow

LEMMA RecordKeepsOrder ==
  ASSUME OneAtATime, ~Failures, IInv, SerialInv, NEW r \in Requests, InsertHistory(r)
  PROVE  SerialInv'
<1> DEFINE e == req[r].entry
           n == req[r].version
           row == HistoryRowOf(r)
<1>1. /\ e \in EntryIds /\ n \in Nat /\ Live(e) /\ Len(log[e]) = n /\ Len(history[e]) = n - 1
      /\ n > 1 => VersionOf(req[r].before) = log[e][n - 1]
      /\ req[r].pc = "history" /\ UNCHANGED <<entries, log>>
  BY DEF InsertHistory, SerialInv, Serial, RecordIsNext, IInv, TypeInv, TypeOK, RequestOK, Request
<1>2. req'[r].pc = "idle"
  BY DEF InsertHistory, Finish, Idle, IInv, TypeInv, TypeOK
<1>3. /\ n \in 1 .. Len(log[e]) /\ row.new = log[e][n]
      /\ row.old = (IF n = 1 THEN None ELSE log[e][n - 1])
  <2>1. /\ n \in 1 .. Len(log[e]) /\ log[e][n] = VersionOf(req[r].after)
        /\ IF n = 1 THEN req[r].before = None ELSE req[r].before # None
    BY <1>1 DEF IInv, SnapshotInv, SnapshotOK, Live
  <2> QED
    BY <1>1, <2>1 DEF HistoryRowOf
<1> HIDE DEF row
<1>4. history' = [history EXCEPT ![e] = Append(history[e], row)]
  BY <1>1 DEF InsertHistory, row
<1>5. history[e] \in Seq(HistoryRow) /\ history \in [EntryIds -> Seq(HistoryRow)]
  BY <1>1 DEF IInv, TypeInv, TypeOK
<1>6. /\ Len(history'[e]) = n /\ history'[e][n] = row
      /\ \A i \in 1 .. n - 1 : history'[e][i] = history[e][i]
      /\ \A f \in EntryIds \ {e} : history'[f] = history[f]
  BY <1>1, <1>4, <1>5
<1>7. TrailInOrder'
  <2> SUFFICES ASSUME ~Failures, NEW f \in EntryIds, Live(f)'
               PROVE  /\ Len(history'[f]) <= Len(log[f])
                      /\ \A i \in 1 .. Len(history'[f]) :
                           /\ history'[f][i].new = log[f][i]
                           /\ history'[f][i].old = (IF i = 1 THEN None ELSE log[f][i - 1])
                      /\ Len(history'[f]) = Len(log[f])
    BY <1>1 DEF TrailInOrder
  <2>1. CASE f = e
    <3>1. \A i \in 1 .. n - 1 :
            /\ history[e][i].new = log[e][i]
            /\ history[e][i].old = (IF i = 1 THEN None ELSE log[e][i - 1])
      BY <1>1 DEF SerialInv, TrailInOrder
    <3>2. ASSUME NEW i \in 1 .. n
          PROVE  /\ history'[e][i].new = log[e][i]
                 /\ history'[e][i].old = (IF i = 1 THEN None ELSE log[e][i - 1])
      <4>1. CASE i = n
        BY <1>3, <1>6, <4>1
      <4>2. CASE i # n
        <5>1. i \in 1 .. n - 1
          BY <1>1, <4>2
        <5> QED
          BY <1>6, <3>1, <5>1
      <4> QED
        BY <4>1, <4>2
    <3>3. Len(history'[e]) = n /\ Len(log[e]) = n /\ n <= n
      BY <1>1, <1>6
    <3> HIDE DEF n, e
    <3> QED
      BY <2>1, <3>2, <3>3
  <2>2. CASE f # e
    <3>1. Live(f) /\ Pending(f) = {} /\ history'[f] = history[f]
      BY <1>1, <1>6, <2>2, PendingAlone DEF Live
    <3> QED
      BY <3>1 DEF SerialInv, TrailInOrder
  <2> QED
    BY <2>1, <2>2
<1>8. Serial(r)'
  BY <1>2, NothingHeld
<1> QED
  BY <1>7, <1>8, Alone DEF SerialInv

LEMMA InsertHistorySerial ==
  ASSUME OneAtATime, IInv, SerialInv, NEW r \in Requests, InsertHistory(r)
  PROVE  SerialInv'
<1>1. req'[r].pc = "idle"
  BY DEF InsertHistory, Finish, Idle, IInv, TypeInv, TypeOK
<1>2. Failures => TrailInOrder'
  BY DEF TrailInOrder
<1> QED
  BY <1>1, <1>2, RecordKeepsOrder, NothingHeld, Alone DEF SerialInv

\* A request that dies holds nothing afterwards; what it has not recorded stays
\* unrecorded, so the trail is no longer the whole past.
LEMMA AbortSerial ==
  ASSUME OneAtATime, TypeInv, NEW r \in Requests, Abort(r)
  PROVE  SerialInv'
<1>1. req'[r].pc = "idle"
  BY DEF Abort, Finish, Idle, TypeInv, TypeOK
<1>2. TrailInOrder'
  BY DEF Abort, TrailInOrder
<1> QED
  BY <1>1, <1>2, NothingHeld, Alone DEF SerialInv

LEMMA DropSchemaSerial ==
  ASSUME OneAtATime, IInv, SerialInv, NEW r \in Requests, DropSchema(r)
  PROVE  SerialInv'
<1>1. req[r].pc = "drop" /\ TypeInv /\ Finish(r)
  BY DEF DropSchema, IInv
<1>2. CASE ~MayDrop(r)
  BY <1>1, <1>2, Finished DEF DropSchema
<1>3. CASE MayDrop(r)
  <2>1. \A e \in EntryIds : Live(e)' =>
          /\ Live(e) /\ history'[e] = history[e] /\ log'[e] = log[e]
    BY <1>3 DEF DropSchema, Live
  <2>2. \A e \in EntryIds : Pending(e) = {}
    BY <1>1, PendingAlone
  <2>3. TrailInOrder'
    BY <2>1, <2>2 DEF SerialInv, TrailInOrder
  <2>4. req'[r].pc = "idle"
    BY <1>1 DEF Finish, Idle, TypeInv, TypeOK
  <2> QED
    BY <2>3, <2>4, NothingHeld, Alone DEF SerialInv
<1> QED
  BY <1>2, <1>3

LEMMA SerialInit == Init => SerialInv
BY EntriesAssumption DEF Init, SerialInv, TrailInOrder, Live, Serial, NoIdYet, SnapshotIsNow,
   DraftMerges, DraftIsFree, RecordIsNext, Idle

LEMMA SerialStep ==
  ASSUME OneAtATime, IInv, SerialInv, [Next]_vars
  PROVE  SerialInv'
<1>1. CASE UNCHANGED vars
  BY <1>1 DEF vars, SerialInv, TrailInOrder, Live, Pending, Serial, NoIdYet, SnapshotIsNow, DraftMerges,
              DraftIsFree, RecordIsNext, Clashes
<1>2. ASSUME NEW r \in Requests, Handler(r)
      PROVE  SerialInv'
  BY <1>2, CreateFieldsSerial, UpdateFieldsSerial, CheckUniqueSerial, InsertEntrySerial,
     UpdateRowSerial, InsertHistorySerial, DropSchemaSerial DEF Handler, IInv
<1>3. ASSUME NEW r \in Requests, Administration(r) \/ Arrival(r)
      PROVE  SerialInv'
  BY <1>3, AdministrationSerial, ArrivalSerial DEF IInv
<1> QED
  BY <1>1, <1>2, <1>3, AbortSerial DEF Next, Quiet, IInv

LEMMA SerialHolds == OneAtATime => (Spec => []SerialInv)
<1> SUFFICES ASSUME OneAtATime PROVE Spec => []SerialInv
  OBVIOUS
<1>1. IInv /\ SerialInv /\ [Next]_vars => SerialInv'
  BY SerialStep
<1> QED
  BY <1>1, SerialInit, InvHolds, PTL DEF Spec
-----------------------------------------------------------------------------
(* The theorems *)

\* With requests one at a time and no failures, the audit trail of an entry at rest
\* is its whole past: PATCH reads, writes and records in three transactions, and
\* none of them can miss or repeat a version.
THEOREM HistoryIsComplete == (OneAtATime /\ ~Failures) => (Spec => []HistoryComplete)
<1> SUFFICES ASSUME OneAtATime, ~Failures PROVE Spec => []HistoryComplete
  OBVIOUS
<1>1. TypeInv /\ SerialInv => HistoryComplete
  <2> SUFFICES ASSUME TypeInv, SerialInv, NEW e \in EntryIds, Live(e), Pending(e) = {}
               PROVE  /\ Len(history[e]) = Len(log[e])
                      /\ \A i \in DOMAIN log[e] :
                           /\ history[e][i].new = log[e][i]
                           /\ history[e][i].old = (IF i = 1 THEN None ELSE log[e][i - 1])
    BY DEF HistoryComplete
  <2>1. Len(history[e]) = Len(log[e])
    BY DEF SerialInv, TrailInOrder
  <2>2. DOMAIN log[e] = 1 .. Len(history[e])
    BY <2>1 DEF TypeInv, TypeOK
  <2>3. \A i \in 1 .. Len(history[e]) :
          /\ history[e][i].new = log[e][i]
          /\ history[e][i].old = (IF i = 1 THEN None ELSE log[e][i - 1])
    BY DEF SerialInv, TrailInOrder
  <2> QED
    BY <2>1, <2>2, <2>3, Zenon
<1> QED
  BY <1>1, SerialHolds, InvHolds, PTL DEF IInv

\* What a step does to a row: it inserts it, it updates it or it deletes it.
LEMMA WhoWrites ==
  ASSUME IInv, [Next]_vars, NEW e \in EntryIds, entries'[e] # entries[e]
  PROVE  \/ entries'[e] = Gone
         \/ \E r \in Requests :
              /\ req[r].pc = "create" /\ req[r].todo = {}
              /\ ~Live(e) /\ entries'[e] = NewRow(r)
         \/ \E r \in Requests :
              /\ req[r].pc = "update" /\ req[r].todo = {} /\ req[r].entry = e
              /\ Live(e) /\ entries'[e] = Patched(r, entries[e])
<1>1. entries \in [EntryIds -> Row \union {Unborn, Gone}]
  BY DEF IInv, TypeInv, TypeOK
<1>2. ASSUME NEW r \in Requests, NEW f \in EntryIds, InsertEntry(r, f)
      PROVE  /\ req[r].pc = "create" /\ req[r].todo = {}
             /\ ~Live(e) /\ entries'[e] = NewRow(r)
  <2> DEFINE row == NewRow(r)
  <2> HIDE DEF row
  <2>1. entries' = [entries EXCEPT ![f] = row] /\ req[r].pc = "create" /\ req[r].todo = {}
    BY <1>2 DEF InsertEntry, row
  <2>2. e = f /\ entries'[e] = row
    BY <1>1, <2>1
  <2> QED
    BY <1>2, <2>1, <2>2 DEF row, InsertEntry, Live
<1>3. ASSUME NEW r \in Requests, UpdateRow(r)
      PROVE  /\ req[r].pc = "update" /\ req[r].todo = {} /\ req[r].entry = e
             /\ Live(e) /\ entries'[e] = Patched(r, entries[e])
  <2> DEFINE f == req[r].entry
             row == Patched(r, entries[f])
  <2>1. Live(f) /\ req[r].pc = "update" /\ req[r].todo = {}
    BY <1>3 DEF UpdateRow
  <2> HIDE DEF row
  <2>2. entries' = [entries EXCEPT ![f] = row]
    BY <1>3, <2>1 DEF UpdateRow, row
  <2>3. e = f /\ entries'[e] = row
    BY <1>1, <2>2
  <2> QED
    BY <2>1, <2>3 DEF row
<1>4. ASSUME NEW r \in Requests, DropSchema(r)
      PROVE  entries'[e] = Gone
  BY <1>4 DEF DropSchema
<1>5. ASSUME NEW r \in Requests,
             \/ Administration(r) \/ Arrival(r) \/ Abort(r) \/ CreateFields(r) \/ UpdateFields(r)
             \/ InsertHistory(r) \/ \E k \in FieldKeys : CheckUnique(r, k)
      PROVE  UNCHANGED entries
  BY <1>5 DEF Administration, Arrival, Abort, PostEntry, PatchEntry, BeginDelete, CreateSchema,
              AddField, UpdateField, DeleteField, CreateFields, UpdateFields, InsertHistory, CheckUnique
<1> QED
  BY <1>2, <1>3, <1>4, <1>5 DEF Next, Handler, Quiet, vars

\* With requests one at a time, failures or none, the uniqueness query is enough: a write never gives
\* an entry a value that another one of the schema has under a unique field, where
\* the two programs write that value alike.
THEOREM UniqueStaysUnique == OneAtATime => (Spec => WriteKeepsUnique)
<1> DEFINE Apart(e) ==
      LET row == entries'[e] IN
      (row \in Row /\ (Live(e) => row.data # entries[e].data)) =>
        \A k \in FieldKeys, f \in EntriesOf(row.schema) \ {e} :
          LET field == fields[row.schema][k] IN
          (/\ field # None /\ field.active /\ field.unique
           /\ ~entries[f].deleted /\ Holds(entries[f], k)
           /\ SameText(entries[f].data[k], entries[f].data[k])) =>
             entries[f].data[k] # row.data[k]
<1> SUFFICES ASSUME OneAtATime PROVE Spec => WriteKeepsUnique
  OBVIOUS
<1>1. ASSUME IInv, SerialInv, [Next]_vars, NEW e \in EntryIds,
             entries'[e] \in Row, Live(e) => entries'[e].data # entries[e].data,
             NEW k \in FieldKeys, NEW f \in EntriesOf(entries'[e].schema) \ {e},
             fields[entries'[e].schema][k] # None, fields[entries'[e].schema][k].active,
             fields[entries'[e].schema][k].unique,
             ~entries[f].deleted, Holds(entries[f], k),
             SameText(entries[f].data[k], entries[f].data[k]),
             entries[f].data[k] = entries'[e].data[k]
      PROVE  FALSE
  <2> DEFINE row == entries'[e]
  <2>1. row \notin {Unborn, Gone} /\ None \notin EntryIds
    BY <1>1, EntriesAssumption
  <2>2. entries[e] # row
    BY <1>1, <2>1 DEF Live
  <2>3. f \in EntryIds /\ f # e /\ Live(f) /\ entries[f].schema = row.schema
    BY <1>1 DEF EntriesOf
  <2>4. k \in UniqueKeys(fields[row.schema], row.data)
    BY <1>1 DEF UniqueKeys, ActiveKeys, Holds
  <2>5. ASSUME NEW r \in Requests, req[r].pc \in {"create", "update"}, req[r].todo = {},
               req[r].draft # None, row.schema = req[r].schema, row.data = req[r].draft,
               req[r].entry # f
        PROVE  FALSE
    <3>1. ~Clashes(row.schema, k, row.data[k], req[r].entry)
      BY <1>1, <2>4, <2>5 DEF SerialInv, Serial, DraftIsFree
    <3> QED
      BY <1>1, <2>3, <2>5, <3>1 DEF Clashes, Holds
  <2>6. ASSUME NEW r \in Requests, req[r].pc = "create", req[r].todo = {}, row = NewRow(r)
        PROVE  FALSE
    <3>1. req[r].entry = None /\ req[r].draft \in Data
      BY <1>1, <2>6 DEF SerialInv, Serial, NoIdYet, IInv, TypeInv, RequestOK
    <3> QED
      BY <2>1, <2>3, <2>5, <2>6, <3>1, NoneAssumption DEF NewRow
  <2>7. ASSUME NEW r \in Requests, req[r].pc = "update", req[r].todo = {}, req[r].entry = e,
               Live(e), row = Patched(r, entries[e])
        PROVE  FALSE
    <3>1. entries[e] \in Row
      BY <1>1, <2>7 DEF Live, IInv, TypeInv, TypeOK
    <3>2. /\ row.schema = entries[e].schema
          /\ row.data = IF req[r].draft = None THEN entries[e].data ELSE req[r].draft
      BY <2>7, <3>1 DEF Patched, Row
    <3>3. req[r].draft # None
      BY <1>1, <2>7, <3>2
    <3>4. req[r].schema = entries[e].schema
      BY <1>1, <2>7 DEF SerialInv, Serial, SnapshotIsNow
    <3> QED
      BY <2>3, <2>5, <2>7, <3>2, <3>3, <3>4
  <2> QED
    BY <1>1, <2>1, <2>2, <2>6, <2>7, WhoWrites
<1>2. IInv /\ SerialInv /\ [Next]_vars => [\A e \in EntryIds : Apart(e)]_vars
  BY <1>1
<1> QED
  BY <1>2, InvHolds, SerialHolds, PTL DEF Spec, WriteKeepsUnique

\* With requests one at a time, failures or none, a PATCH leaves the fields it does not name as they
\* were: what it merges into is still what the entry holds.
THEOREM PatchKeepsOthers == OneAtATime => (Spec => PatchKeepsOtherFields)
<1> SUFFICES ASSUME OneAtATime PROVE Spec => PatchKeepsOtherFields
  OBVIOUS
<1>1. ASSUME IInv, SerialInv, [Next]_vars, NEW e \in EntryIds, NEW k \in FieldKeys,
             Live(e), Live(e)', entries'[e].data[k] # entries[e].data[k]
      PROVE  \E r \in Requests : /\ req[r].pc = "update" /\ req[r].entry = e
                                 /\ req[r].body.data # None /\ req[r].body.data[k] # Absent
  <2>1. ASSUME NEW r \in Requests, req[r].pc = "update", req[r].entry = e,
               entries'[e] = Patched(r, entries[e])
        PROVE  req[r].body.data # None /\ req[r].body.data[k] # Absent
    <3>1. entries[e] \in Row
      BY <1>1 DEF Live, IInv, TypeInv, TypeOK
    <3>2. entries'[e].data = IF req[r].draft = None THEN entries[e].data ELSE req[r].draft
      BY <2>1, <3>1 DEF Patched, Row
    <3>3. req[r].draft # None /\ entries'[e].data = req[r].draft
      BY <1>1, <3>2
    <3>4. req[r].before = entries[e]
      BY <1>1, <2>1 DEF SerialInv, Serial, SnapshotIsNow
    <3> QED
      BY <1>1, <2>1, <3>3, <3>4 DEF SerialInv, Serial, DraftMerges
  <2>2. entries'[e] # entries[e] /\ entries'[e] # Gone
    BY <1>1 DEF Live
  <2> QED
    BY <1>1, <2>1, <2>2, WhoWrites
<1>2. IInv /\ SerialInv /\ [Next]_vars =>
        [\A e \in EntryIds, k \in FieldKeys :
           (Live(e) /\ Live(e)' /\ entries'[e].data[k] # entries[e].data[k]) =>
             \E r \in Requests : /\ req[r].pc = "update" /\ req[r].entry = e
                                 /\ req[r].body.data # None /\ req[r].body.data[k] # Absent]_vars
  BY <1>1
<1> QED
  BY <1>2, InvHolds, SerialHolds, PTL DEF Spec, PatchKeepsOtherFields
=============================================================================
