------------------------------- MODULE Entries -------------------------------
(***************************************************************************)
(* Schemas, fields, entries and entry history, as concurrent API requests  *)
(* change them.  Every call of a repository method opens a connection and  *)
(* runs its own READ COMMITTED transaction, and the endpoints run in a     *)
(* pool of threads: so one transaction is one step, and the steps of       *)
(* different requests interleave.  A 4xx answer given before anything is   *)
(* written changes nothing and is a stuttering step; one given later in a  *)
(* handler ends the request (Finish).                                      *)
(***************************************************************************)
EXTENDS Validation, Naturals, Sequences, FiniteSets

CONSTANTS
  Requests,      \* slots of the server's thread pool
  SchemaIds,     \* ids the schemas sequence hands out (never twice)
  EntryIds,      \* ids the entries sequence hands out (never twice)
  FieldRows,     \* the field definitions administrators write
  Bodies,        \* the bodies of POST and PATCH that clients send
  Visibilities,  \* visibility_level_enum
  MaxVersions,   \* bound: no PATCH starts on an entry with this many versions
  Failures,      \* TRUE: a request may die (database error, crash) at any step
  Unborn, Gone   \* an id not handed out yet, an id whose row was deleted

VARIABLES
  schemas,  \* [SchemaIds -> {Unborn, "live", Gone}]: the schemas table
  fields,   \* [SchemaIds -> FieldMap]: the fields table
  entries,  \* [EntryIds -> Row or Unborn or Gone]: the entries table
  history,  \* [EntryIds -> Seq(HistoryRow)]: entry_history, in order of id
  req,      \* [Requests -> Request]: what each running handler holds
  log       \* auxiliary: the committed versions of each entry, in order

vars == <<schemas, fields, entries, history, req, log>>

Row == [schema : SchemaIds, data : Data, vis : Visibilities, deleted : BOOLEAN]

\* What the audit trail speaks of: the content of a row.
Version == [data : Data, vis : Visibilities]
VersionOf(row) == [data |-> row.data, vis |-> row.vis]

\* A body: None where the client left the key out or sent null. In a POST body
\* data and vis are always there; "touch" stands for title, status, owner_id and
\* archived_at.
Body == [data : Data \union {None}, vis : Visibilities \union {None},
         delete : BOOLEAN, touch : BOOLEAN]

\* old is None for a creation; "version" is auxiliary: the version recorded.
HistoryRow == [type : {"created", "updated", "visibility_changed"},
               old : Version \union {None}, new : Version, version : Nat]

Request ==
  [pc : {"idle", "createFields", "create", "updateFields", "update", "history", "drop"},
   schema : SchemaIds \union {None}, entry : EntryIds \union {None},
   before : Row \union {None},      \* existing: the row get_entry returned
   body : Body \union {None}, draft : Data \union {None},
   todo : SUBSET FieldKeys,         \* unique keys still to be checked
   after : Row \union {None}, version : Nat,  \* what RETURNING gave
   doomed : SUBSET EntryIds]        \* rows its open DELETE has locked

ASSUME EntriesAssumption ==
  /\ FieldRows \subseteq Field /\ Bodies \subseteq Body
  /\ MaxVersions \in Nat /\ Failures \in BOOLEAN
  /\ Unborn # Gone /\ {Unborn, Gone} \intersect (Row \union Version \union {"live"}) = {}
  /\ None \notin Row \union Visibilities \union SchemaIds \union EntryIds \union Version \union Body

Idle == [pc |-> "idle", schema |-> None, entry |-> None, before |-> None,
         body |-> None, draft |-> None, todo |-> {}, after |-> None,
         version |-> 0, doomed |-> {}]

LiveSchema(s) == schemas[s] = "live"
Live(e) == entries[e] \notin {Unborn, Gone}

\* A row lock held by an uncommitted DELETE makes every other writer wait.
Locked(e) == \E r \in Requests : e \in req[r].doomed

NoFields == [k \in FieldKeys |-> None]

Init ==
  /\ schemas = [s \in SchemaIds |-> Unborn]
  /\ fields = [s \in SchemaIds |-> NoFields]
  /\ entries = [e \in EntryIds |-> Unborn]
  /\ history = [e \in EntryIds |-> <<>>]
  /\ log = [e \in EntryIds |-> <<>>]
  /\ req = [r \in Requests |-> Idle]

Finish(r) == req' = [req EXCEPT ![r] = Idle]

-----------------------------------------------------------------------------
(* Schema and field administration. Each is one transaction after a         *)
(* get_schema whose only effect is an earlier 404.                          *)

CreateSchema(r, s) ==
  /\ req[r].pc = "idle"
  /\ schemas[s] = Unborn
  /\ schemas' = [schemas EXCEPT ![s] = "live"]
  /\ UNCHANGED <<fields, entries, history, req, log>>

\* A key already taken is a 409, a missing schema a 404.
AddField(r, s, k, row) ==
  /\ req[r].pc = "idle"
  /\ LiveSchema(s)
  /\ fields[s][k] = None
  /\ fields' = [fields EXCEPT ![s][k] = row]
  /\ UNCHANGED <<schemas, entries, history, req, log>>

\* A PATCH names any of the columns, the key among them: the row becomes any
\* row, under the same key or a free one. Entries keep their data as it is.
UpdateField(r, s, k, newKey, row) ==
  /\ req[r].pc = "idle"
  /\ LiveSchema(s)
  /\ fields[s][k] # None
  /\ newKey = k \/ fields[s][newKey] = None
  /\ fields' = [fields EXCEPT ![s] = [@ EXCEPT ![k] = None, ![newKey] = row]]
  /\ UNCHANGED <<schemas, entries, history, req, log>>

DeleteField(r, s, k) ==
  /\ req[r].pc = "idle"
  /\ LiveSchema(s)
  /\ fields[s][k] # None
  /\ fields' = [fields EXCEPT ![s][k] = None]
  /\ UNCHANGED <<schemas, entries, history, req, log>>

-----------------------------------------------------------------------------
(* POST /entries: get_schema, list_fields and validation, one query for     *)
(* every unique key, INSERT, and the history row in its own transaction.    *)

\* Bound: a creation starts only if an id is left for it.
IdsLeft ==
  Cardinality({q \in Requests : req[q].pc \in {"createFields", "create"}})
    < Cardinality({e \in EntryIds : entries[e] = Unborn})

PostEntry(r, s, body) ==
  /\ req[r].pc = "idle"
  /\ LiveSchema(s)
  /\ IdsLeft
  /\ body.data # None /\ body.vis # None
  /\ req' = [req EXCEPT ![r] = [Idle EXCEPT !.pc = "createFields", !.schema = s, !.body = body]]
  /\ UNCHANGED <<schemas, fields, entries, history, log>>

CreateFields(r) ==
  LET own == fields[req[r].schema]
      data == req[r].body.data
      draft == Normalize(own, data, FALSE) IN
  /\ req[r].pc = "createFields"
  /\ \/ /\ Accepts(own, data, FALSE)
        /\ req' = [req EXCEPT ![r].pc = "create", ![r].draft = draft,
                              ![r].todo = UniqueKeys(own, draft)]
     \/ /\ ~Accepts(own, data, FALSE)   \* 422
        /\ Finish(r)
  /\ UNCHANGED <<schemas, fields, entries, history, log>>

\* The row the uniqueness query finds: an entry of the schema, not deleted, other
\* than the one being patched, whose text under the key is that of the value.
Clashes(s, k, value, self) ==
  \E e \in EntryIds :
    /\ Live(e) /\ e # self
    /\ entries[e].schema = s /\ ~entries[e].deleted
    /\ entries[e].data[k] \notin {Absent, Null}
    /\ SameText(entries[e].data[k], value)

\* Mutant: a clash is tried again instead of being answered with a 409.
CheckUniqueRetry(r, k) ==
  /\ req[r].pc \in {"create", "update"}
  /\ k \in req[r].todo
  /\ req' = [req EXCEPT ![r].todo =
               IF Clashes(req[r].schema, k, req[r].draft[k], req[r].entry) THEN @ ELSE @ \ {k}]
  /\ UNCHANGED <<schemas, fields, entries, history, log>>

\* One round of _ensure_unique_fields, its own transaction.
CheckUnique(r, k) ==
  /\ req[r].pc \in {"create", "update"}
  /\ k \in req[r].todo
  /\ \/ /\ ~Clashes(req[r].schema, k, req[r].draft[k], req[r].entry)
        /\ req' = [req EXCEPT ![r].todo = @ \ {k}]
     \/ /\ Clashes(req[r].schema, k, req[r].draft[k], req[r].entry)   \* 409
        /\ Finish(r)
  /\ UNCHANGED <<schemas, fields, entries, history, log>>

NewRow(r) == [schema |-> req[r].schema, data |-> req[r].draft,
              vis |-> req[r].body.vis, deleted |-> req[r].body.delete]

\* Mutant: the write that soft-deletes an entry is not recorded.
AfterWriteUnlessDeleted(r, e, row, version) ==
  IF row.deleted THEN Idle
  ELSE [Idle EXCEPT !.pc = "history", !.entry = e, !.before = req[r].before,
                    !.after = row, !.version = version]

\* What the handler still uses: existing, and the row RETURNING gave it.
AfterWrite(r, e, row, version) ==
  [Idle EXCEPT !.pc = "history", !.entry = e, !.before = req[r].before,
               !.after = row, !.version = version]

\* The foreign key to schemas is the last word on the schema: gone is a 500.
InsertEntry(r, e) ==
  /\ req[r].pc = "create" /\ req[r].todo = {}
  /\ entries[e] = Unborn
  /\ \/ /\ LiveSchema(req[r].schema)
        /\ entries' = [entries EXCEPT ![e] = NewRow(r)]
        /\ log' = [log EXCEPT ![e] = <<VersionOf(NewRow(r))>>]
        /\ req' = [req EXCEPT ![r] = AfterWrite(r, e, NewRow(r), 1)]
     \/ /\ ~LiveSchema(req[r].schema)
        /\ Finish(r)
        /\ UNCHANGED <<entries, log>>
  /\ UNCHANGED <<schemas, fields, history>>

-----------------------------------------------------------------------------
(* PATCH /entries/{id}: get_entry and the access checks (a 403 changes      *)
(* nothing), list_fields and validation, the uniqueness queries, UPDATE of  *)
(* the columns named, and the history row.                                  *)

PatchEntry(r, e, body) ==
  /\ req[r].pc = "idle"
  /\ Live(e)
  /\ Len(log[e]) < MaxVersions
  /\ req' = [req EXCEPT ![r] = [Idle EXCEPT !.pc = "updateFields", !.schema = entries[e].schema,
                                          !.entry = e, !.before = entries[e], !.body = body]]
  /\ UNCHANGED <<schemas, fields, entries, history, log>>

NamesNothing(body) == body.data = None /\ body.vis = None /\ ~body.delete /\ ~body.touch

\* The merge is with the data get_entry returned, whatever happened since.
UpdateFields(r) ==
  LET own == fields[req[r].schema]
      data == req[r].body.data
      draft == Merge(req[r].before.data, Normalize(own, data, TRUE)) IN
  /\ req[r].pc = "updateFields"
  /\ \/ /\ data # None /\ Accepts(own, data, TRUE)
        /\ req' = [req EXCEPT ![r].pc = "update", ![r].draft = draft,
                              ![r].todo = UniqueKeys(own, draft)]
     \/ /\ data = None /\ ~NamesNothing(req[r].body)
        /\ req' = [req EXCEPT ![r].pc = "update"]
     \/ /\ IF data = None THEN NamesNothing(req[r].body) ELSE ~Accepts(own, data, TRUE)   \* 422
        /\ Finish(r)
  /\ UNCHANGED <<schemas, fields, entries, history, log>>

\* Mutant: the whole row is saved as it was read, with the changes made to it.
PatchedSnapshot(r, row) ==
  [req[r].before EXCEPT !.data = IF req[r].draft = None THEN @ ELSE req[r].draft,
                        !.vis = IF req[r].body.vis = None THEN @ ELSE req[r].body.vis,
                        !.deleted = @ \/ req[r].body.delete]

\* UPDATE sets the columns the request names and leaves the others as they are.
Patched(r, row) ==
  [row EXCEPT !.data = IF req[r].draft = None THEN @ ELSE req[r].draft,
              !.vis = IF req[r].body.vis = None THEN @ ELSE req[r].body.vis,
              !.deleted = @ \/ req[r].body.delete]

UpdateRow(r) ==
  LET e == req[r].entry IN
  /\ req[r].pc = "update" /\ req[r].todo = {}
  /\ ~Locked(e)
  /\ \/ /\ Live(e)
        /\ entries' = [entries EXCEPT ![e] = Patched(r, entries[e])]
        /\ log' = [log EXCEPT ![e] = Append(@, VersionOf(Patched(r, entries[e])))]
        /\ req' = [req EXCEPT ![r] = AfterWrite(r, e, Patched(r, entries[e]), Len(log[e]) + 1)]
     \/ /\ ~Live(e)   \* 404
        /\ Finish(r)
        /\ UNCHANGED <<entries, log>>
  /\ UNCHANGED <<schemas, fields, history>>

-----------------------------------------------------------------------------
(* The end of both: add_history with the old content of the snapshot and    *)
(* the new content of the row written.                                      *)

\* Mutant: new_data is old_data itself, not a copy, so the merge changes both.
HistoryRowOfAlias(r) ==
  LET before == req[r].before  after == req[r].after IN
  [type |-> IF before = None THEN "created"
            ELSE IF before.vis # after.vis THEN "visibility_changed" ELSE "updated",
   old |-> IF before = None THEN None ELSE [data |-> after.data, vis |-> before.vis],
   new |-> VersionOf(after),
   version |-> req[r].version]

\* Mutant: the new visibility is taken from the row read, not the row written.
HistoryRowOfOldVis(r) ==
  LET before == req[r].before  after == req[r].after IN
  [type |-> IF before = None THEN "created" ELSE "updated",
   old |-> IF before = None THEN None ELSE VersionOf(before),
   new |-> [data |-> after.data, vis |-> IF before = None THEN after.vis ELSE before.vis],
   version |-> req[r].version]

HistoryRowOf(r) ==
  LET before == req[r].before  after == req[r].after IN
  [type |-> IF before = None THEN "created"
            ELSE IF before.vis # after.vis THEN "visibility_changed" ELSE "updated",
   old |-> IF before = None THEN None ELSE VersionOf(before),
   new |-> VersionOf(after),
   version |-> req[r].version]

\* The foreign key to entries waits for the row and fails (500) if it is gone.
InsertHistory(r) ==
  LET e == req[r].entry IN
  /\ req[r].pc = "history"
  /\ ~Locked(e)
  /\ \/ /\ Live(e)
        /\ history' = [history EXCEPT ![e] = Append(@, HistoryRowOf(r))]
     \/ /\ ~Live(e)
        /\ UNCHANGED history
  /\ Finish(r)
  /\ UNCHANGED <<schemas, fields, entries, log>>

-----------------------------------------------------------------------------
(* DELETE /schemas/{id}: one transaction of two statements. The first locks *)
(* the entries it sees, the second deletes the schema unless an entry came  *)
(* in between; everything that refers to the deleted rows goes with them.   *)

EntriesOf(s) == {e \in EntryIds : Live(e) /\ entries[e].schema = s}

\* Mutant: the first statement is committed on its own.
BeginDeleteAutocommit(r, s) ==
  LET mine == EntriesOf(s) IN
  /\ req[r].pc = "idle"
  /\ LiveSchema(s)
  /\ \A e \in mine : ~Locked(e)
  /\ entries' = [e \in EntryIds |-> IF e \in mine THEN Gone ELSE entries[e]]
  /\ history' = [e \in EntryIds |-> IF e \in mine THEN <<>> ELSE history[e]]
  /\ log' = [e \in EntryIds |-> IF e \in mine THEN <<>> ELSE log[e]]
  /\ req' = [req EXCEPT ![r] = [Idle EXCEPT !.pc = "drop", !.schema = s, !.doomed = mine]]
  /\ UNCHANGED <<schemas, fields>>

BeginDelete(r, s) ==
  /\ req[r].pc = "idle"
  /\ LiveSchema(s)
  /\ \A e \in EntriesOf(s) : ~Locked(e)
  /\ req' = [req EXCEPT ![r] = [Idle EXCEPT !.pc = "drop", !.schema = s, !.doomed = EntriesOf(s)]]
  /\ UNCHANGED <<schemas, fields, entries, history, log>>

\* Mutant: no foreign key, so the schema goes whatever entries it has.
MayDropAlways(r) == LiveSchema(req[r].schema)

\* ON DELETE RESTRICT of entries.schema_id lets the second statement pass.
MayDrop(r) == LiveSchema(req[r].schema) /\ EntriesOf(req[r].schema) \subseteq req[r].doomed

DropSchema(r) ==
  /\ req[r].pc = "drop"
  /\ \/ /\ MayDrop(r)
        /\ schemas' = [schemas EXCEPT ![req[r].schema] = Gone]
        /\ fields' = [fields EXCEPT ![req[r].schema] = NoFields]
        /\ entries' = [e \in EntryIds |-> IF e \in req[r].doomed THEN Gone ELSE entries[e]]
        /\ history' = [e \in EntryIds |-> IF e \in req[r].doomed THEN <<>> ELSE history[e]]
        /\ log' = [e \in EntryIds |-> IF e \in req[r].doomed THEN <<>> ELSE log[e]]
     \/ /\ ~MayDrop(r)   \* 404, or a 500 that rolls the first statement back
        /\ UNCHANGED <<schemas, fields, entries, history, log>>
  /\ Finish(r)

\* A lost connection, a database error, a deadlock victim or a crash of the
\* server: what the request has not committed is rolled back, the rest stays.
Abort(r) ==
  /\ Failures
  /\ req[r].pc # "idle"
  /\ Finish(r)
  /\ UNCHANGED <<schemas, fields, entries, history, log>>

-----------------------------------------------------------------------------
Handler(r) ==
  \/ CreateFields(r) \/ UpdateFields(r)
  \/ \E k \in FieldKeys : CheckUnique(r, k)
  \/ \E e \in EntryIds : InsertEntry(r, e)
  \/ UpdateRow(r) \/ InsertHistory(r) \/ DropSchema(r)

Administration(r) ==
  \E s \in SchemaIds :
    \/ CreateSchema(r, s)
    \/ \E k \in FieldKeys, row \in FieldRows :
         \/ AddField(r, s, k, row)
         \/ \E newKey \in FieldKeys : UpdateField(r, s, k, newKey, row)
    \/ \E k \in FieldKeys : DeleteField(r, s, k)
    \/ BeginDelete(r, s)

Arrival(r) ==
  \E body \in Bodies :
    \/ \E s \in SchemaIds : PostEntry(r, s, body)
    \/ \E e \in EntryIds : PatchEntry(r, e, body)

\* Nothing is running: the server waits for a request.
Quiet == (\A r \in Requests : req[r].pc = "idle") /\ UNCHANGED vars

Next ==
  \/ \E r \in Requests : Handler(r) \/ Administration(r) \/ Arrival(r) \/ Abort(r)
  \/ Quiet

Spec == Init /\ [][Next]_vars

\* A running handler goes on. Strong fairness, because a writer that waits for a
\* row lock is queued by PostgreSQL and is not overtaken for ever.
FairSpec == Spec /\ \A r \in Requests : SF_vars(Handler(r))

-----------------------------------------------------------------------------
(* Properties *)

TypeOK ==
  /\ schemas \in [SchemaIds -> {Unborn, "live", Gone}]
  /\ fields \in [SchemaIds -> FieldMap]
  /\ entries \in [EntryIds -> Row \union {Unborn, Gone}]
  /\ history \in [EntryIds -> Seq(HistoryRow)]
  /\ log \in [EntryIds -> Seq(Version)]
  /\ req \in [Requests -> Request]

\* No row refers to a deleted one: entries and fields have their schema, history
\* rows their entry. delete_schema and the foreign keys of init.sql together must
\* hold this while creations, patches and deletions overlap.
ReferentialIntegrity ==
  /\ \A e \in EntryIds : Live(e) => LiveSchema(entries[e].schema)
  /\ \A e \in EntryIds : history[e] # <<>> => Live(e)
  /\ \A s \in SchemaIds, k \in FieldKeys : fields[s][k] # None => LiveSchema(s)

\* Everything the audit trail says happened: the new content of a history row was
\* committed, its old content was committed earlier, and only the first version is
\* a creation - whatever overlapped and whatever failed.
HistoryTruthful ==
  \A e \in EntryIds : \A i \in DOMAIN history[e] :
    LET h == history[e][i] IN
    /\ h.version \in DOMAIN log[e]
    /\ log[e][h.version] = h.new
    /\ IF h.version = 1 THEN h.old = None
       ELSE \E v \in 1 .. (h.version - 1) : log[e][v] = h.old

\* Versions of e that a handler has committed and not yet recorded.
Pending(e) == {req[r].version : r \in {q \in Requests : req[q].pc = "history" /\ req[q].entry = e}}
Recorded(e) == {history[e][i].version : i \in DOMAIN history[e]}

\* As long as no request dies, every committed version of a living entry is in the
\* audit trail exactly once, or is about to be put there: nothing is written
\* without a record, and nothing is recorded twice, in any interleaving.
EveryWriteRecordedOnce ==
  \A e \in EntryIds : Live(e) =>
    /\ Recorded(e) \union Pending(e) = DOMAIN log[e]
    /\ Recorded(e) \intersect Pending(e) = {}
    /\ Cardinality(Recorded(e)) = Len(history[e])

\* An UPDATE touches only the columns its request names: visibility moves only by a
\* request that asked for it, and a soft-deleted entry stays deleted, although every
\* request works from a row it read earlier.
OnlyNamedColumnsChange ==
  [][\A e \in EntryIds : (Live(e) /\ Live(e)') =>
       /\ entries[e].deleted => entries'[e].deleted
       /\ entries'[e].vis # entries[e].vis =>
            \E r \in Requests : req[r].pc = "update" /\ req[r].entry = e
                                /\ req[r].body.vis = entries'[e].vis
       /\ entries'[e].schema = entries[e].schema]_vars

\* Deleting a schema is all or nothing: entries vanish only in the step that takes
\* the schema away, and that step leaves none of its entries behind.
SchemaDeleteIsAtomic ==
  [][\A e \in EntryIds : (Live(e) /\ (~Live(e))') =>
       LET s == entries[e].schema IN
       schemas'[s] = Gone /\ \A f \in EntriesOf(s) : entries'[f] = Gone]_vars

\* With requests one at a time, the audit trail of an entry at rest is its whole
\* past: one row for each version, in order, each starting where the last ended.
HistoryComplete ==
  \A e \in EntryIds : (Live(e) /\ Pending(e) = {}) =>
    /\ Len(history[e]) = Len(log[e])
    /\ \A i \in DOMAIN log[e] :
         /\ history[e][i].new = log[e][i]
         /\ history[e][i].old = (IF i = 1 THEN None ELSE log[e][i - 1])

Holds(row, k) == row.data[k] \notin {Absent, Null}

\* With requests one at a time, no write gives an entry the value another entry of
\* the schema already has under a key whose field is unique - unless the two texts
\* of the value differ, as those of a boolean do: then the query finds nothing.
WriteKeepsUnique ==
  [][\A e \in EntryIds :
       LET row == entries'[e] IN
       (row \in Row /\ (Live(e) => row.data # entries[e].data)) =>
         \A k \in FieldKeys, f \in EntriesOf(row.schema) \ {e} :
           LET field == fields[row.schema][k] IN
           (/\ field # None /\ field.active /\ field.unique
            /\ ~entries[f].deleted /\ Holds(entries[f], k)
            /\ SameText(entries[f].data[k], entries[f].data[k])) =>
              entries[f].data[k] # row.data[k]]_vars

\* With requests one at a time, a PATCH of some fields leaves the others of the
\* document as they were.
PatchKeepsOtherFields ==
  [][\A e \in EntryIds, k \in FieldKeys :
       (Live(e) /\ Live(e)' /\ entries'[e].data[k] # entries[e].data[k]) =>
         \E r \in Requests : /\ req[r].pc = "update" /\ req[r].entry = e
                             /\ req[r].body.data # None /\ req[r].body.data[k] # Absent]_vars

\* Every request is answered: no handler waits for ever for a row lock, and no
\* loop over the unique fields goes on for ever.
RequestsFinish == \A r \in Requests : req[r].pc # "idle" ~> req[r].pc = "idle"

\* What the component promises, said without its requests and transactions: every
\* version committed gets one truthful record, or none if the request dies, in any
\* interleaving; what is read is the last version; what is deleted stays deleted.
Promise == INSTANCE AuditedStore WITH
  Versions <- Version,
  Lossy <- Failures,
  content <- [e \in EntryIds |-> IF Live(e) THEN VersionOf(entries[e]) ELSE entries[e]],
  versions <- log,
  trail <- history,
  due <- [e \in EntryIds |-> IF Live(e) THEN Pending(e) ELSE {}]

PromiseKept == Promise!Spec
=============================================================================
