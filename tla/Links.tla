-------------------------------- MODULE Links --------------------------------
(***************************************************************************)
(* Relations between entries and attachment links, as concurrent requests  *)
(* change them while whole entries are deleted under them.  Every query is *)
(* a READ COMMITTED transaction of its own, so a handler that has looked   *)
(* at an entry or at a row works on without it: only the constraints of    *)
(* the tables see the state at the moment of the write.  Rights are left   *)
(* out here (see Access); a 403 only ends a request.                       *)
(***************************************************************************)
EXTENDS Naturals, FiniteSets

CONSTANTS
  Requests,      \* slots of the server's thread pool
  EntryIds,
  RelIds, AttIds,  \* ids the two sequences hand out (never twice)
  Urls,          \* external URLs
  Sums,          \* checksums that clients compute
  Together,      \* FALSE: bound, a behaviour uses only one of the two tables
  None,
  Unborn, Gone   \* an id not handed out yet, an id whose row was deleted

VARIABLES
  live,         \* SUBSET EntryIds: the entries that are there
  relations,    \* [RelIds -> Relation or Unborn or Gone]: entry_relations
  attachments,  \* [AttIds -> Attachment or Unborn or Gone]: attachments
  req           \* [Requests -> Request]: what each running handler holds

vars == <<live, relations, attachments, req>>

\* relation_type, sort_order and metadata_json, like the name, type, size and
\* description of an attachment, are columns no rule speaks of.
Relation == [from : EntryIds, to : EntryIds]
Attachment == [entry : EntryIds, url : Urls, sum : Urls \union Sums]

\* The keys of a body; None where the client left the key out.
Body == [to : EntryIds \union {None}, url : Urls \union {None}, sum : Sums \union {None}]

RelationOps == {"createRelation", "updateRelation", "deleteRelation"}
AttachmentOps == {"createAttachment", "updateAttachment", "deleteAttachment"}

\* pc is the query that comes next: the service's own get_entry, get_entry of the
\* target, get_relation or get_attachment, or the statement that writes.
Request ==
  [pc : {"idle", "entry", "target", "child", "write"},
   op : RelationOps \union AttachmentOps \union {None},
   entry : EntryIds \union {None},          \* entry_id of the path
   child : RelIds \union AttIds \union {None},
   body : Body \union {None},
   seen : Relation \union Attachment \union {None}]   \* the row get_... returned

ASSUME LinksAssumption ==
  /\ Together \in BOOLEAN
  /\ Urls \intersect Sums = {} /\ RelIds \intersect AttIds = {}
  /\ Unborn # Gone /\ {Unborn, Gone} \intersect (Relation \union Attachment) = {}
  /\ None \notin EntryIds \union RelIds \union AttIds \union Urls \union Sums
                  \union Relation \union Attachment \union Body

Idle == [pc |-> "idle", op |-> None, entry |-> None, child |-> None, body |-> None, seen |-> None]

Init ==
  /\ live = EntryIds
  /\ relations = [x \in RelIds |-> Unborn]
  /\ attachments = [x \in AttIds |-> Unborn]
  /\ req = [r \in Requests |-> Idle]

Finish(r) == req' = [req EXCEPT ![r] = Idle]
GoTo(r, pc) == req' = [req EXCEPT ![r].pc = pc]

-----------------------------------------------------------------------------
(* The reads of a handler. *)

\* Bound: unless Together, relations and attachments are not used side by side.
OnlyTable(ops) ==
  Together \/ /\ \A q \in Requests : req[q].op \in ops \union {None}
              /\ ops = RelationOps => \A x \in AttIds : attachments[x] = Unborn
              /\ ops = AttachmentOps => \A x \in RelIds : relations[x] = Unborn

\* A request of a client and the router's get_entry.
Arrive(r, op, e, child, body) ==
  /\ req[r].pc = "idle"
  /\ e \in live
  /\ req' = [req EXCEPT ![r] = [pc |-> "entry", op |-> op, entry |-> e, child |-> child,
                                body |-> body, seen |-> None]]
  /\ UNCHANGED <<live, relations, attachments>>

\* Bound: a creation starts only if an id is left for it.
IdsLeft(op, table) ==
  Cardinality({q \in Requests : req[q].op = op})
    < Cardinality({x \in DOMAIN table : table[x] = Unborn})

PostRelation(r, e, to) ==
  /\ OnlyTable(RelationOps)
  /\ IdsLeft("createRelation", relations)
  /\ Arrive(r, "createRelation", e, None, [to |-> to, url |-> None, sum |-> None])

\* to is None where the PATCH names only other columns. (One that names none, or
\* sends null for to_entry_id, ends in a 500 at the UPDATE.)
PatchRelation(r, e, x, to) ==
  /\ OnlyTable(RelationOps)
  /\ Arrive(r, "updateRelation", e, x, [to |-> to, url |-> None, sum |-> None])

DeleteRelationRequest(r, e, x) ==
  /\ OnlyTable(RelationOps)
  /\ Arrive(r, "deleteRelation", e, x, None)

PostAttachment(r, e, url, sum) ==
  /\ OnlyTable(AttachmentOps)
  /\ IdsLeft("createAttachment", attachments)
  /\ Arrive(r, "createAttachment", e, None, [to |-> None, url |-> url, sum |-> sum])

PatchAttachment(r, e, x, url, sum) ==
  /\ OnlyTable(AttachmentOps)
  /\ Arrive(r, "updateAttachment", e, x, [to |-> None, url |-> url, sum |-> sum])

DeleteAttachmentRequest(r, e, x) ==
  /\ OnlyTable(AttachmentOps)
  /\ Arrive(r, "deleteAttachment", e, x, None)

\* The first get_entry of the service.
GetEntry(r) ==
  /\ req[r].pc = "entry"
  /\ IF req[r].entry \notin live THEN Finish(r)   \* 404
     ELSE GoTo(r, CASE req[r].op = "createRelation" -> "target"
                    [] req[r].op = "createAttachment" -> "write"
                    [] OTHER -> "child")
  /\ UNCHANGED <<live, relations, attachments>>

\* get_entry of to_entry_id, in create_relation and update_relation.
GetTarget(r) ==
  /\ req[r].pc = "target"
  /\ IF req[r].body.to \in live THEN GoTo(r, "write") ELSE Finish(r)   \* 404
  /\ UNCHANGED <<live, relations, attachments>>

\* Mutant: any relation will do.
AnyRelation(row, e) == TRUE

\* A relation belongs to both its ends.
Touches(row, e) == row.from = e \/ row.to = e

GetRelation(r) ==
  LET row == relations[req[r].child] IN
  /\ req[r].pc = "child" /\ req[r].op \in RelationOps
  /\ IF row \in {Unborn, Gone} THEN Finish(r)            \* 404
     ELSE IF ~Touches(row, req[r].entry) THEN Finish(r)  \* 404
     ELSE req' = [req EXCEPT ![r].seen = row,
                    ![r].pc = IF req[r].op = "updateRelation" /\ req[r].body.to # None
                              THEN "target" ELSE "write"]
  /\ UNCHANGED <<live, relations, attachments>>

\* Mutant: any attachment will do.
AnyAttachment(row, e) == TRUE

BelongsTo(row, e) == row.entry = e

GetAttachment(r) ==
  LET row == attachments[req[r].child] IN
  /\ req[r].pc = "child" /\ req[r].op \in AttachmentOps
  /\ IF row \in {Unborn, Gone} THEN Finish(r)              \* 404
     ELSE IF ~BelongsTo(row, req[r].entry) THEN Finish(r)  \* 404
     ELSE req' = [req EXCEPT ![r].seen = row, ![r].pc = "write"]
  /\ UNCHANGED <<live, relations, attachments>>

-----------------------------------------------------------------------------
(* The statements that write: one transaction each, which the constraints of *)
(* the tables refuse (a 409 or a 500) or the row's absence ends (a 404).      *)

\* The two foreign keys of entry_relations and its CHECK.
RelationAllowed(row) == {row.from, row.to} \subseteq live /\ row.from # row.to

InsertRelation(r, x) ==
  LET row == [from |-> req[r].entry, to |-> req[r].body.to] IN
  /\ req[r].pc = "write" /\ req[r].op = "createRelation"
  /\ relations[x] = Unborn
  /\ relations' = IF RelationAllowed(row) THEN [relations EXCEPT ![x] = row] ELSE relations
  /\ Finish(r)
  /\ UNCHANGED <<live, attachments>>

\* UPDATE by id alone; from_entry_id is no column of the body.
UpdateRelation(r) ==
  LET x == req[r].child  to == req[r].body.to IN
  /\ req[r].pc = "write" /\ req[r].op = "updateRelation"
  /\ relations' = IF /\ relations[x] # Gone /\ to # None
                     /\ RelationAllowed([relations[x] EXCEPT !.to = to])
                  THEN [relations EXCEPT ![x].to = to] ELSE relations
  /\ Finish(r)
  /\ UNCHANGED <<live, attachments>>

\* DELETE by id alone.
DeleteRelation(r) ==
  /\ req[r].pc = "write" /\ req[r].op = "deleteRelation"
  /\ relations' = [relations EXCEPT ![req[r].child] = Gone]
  /\ Finish(r)
  /\ UNCHANGED <<live, attachments>>

\* Mutant: the checksum is given a value only when the attachment is created.
KeptChecksum(old, body) ==
  IF body.sum # None THEN body.sum ELSE IF old # None THEN old ELSE body.url

\* Mutant: a checksum the client does not send is left empty.
OnlyGivenChecksum(old, body) == IF body.sum # None THEN body.sum ELSE old

\* Where the client names no checksum, the URL stands in for it; a PATCH of
\* neither leaves what is there.
Checksum(old, body) ==
  IF body.sum # None THEN body.sum ELSE IF body.url # None THEN body.url ELSE old

\* UNIQUE (entry_id, checksum).
SumFree(x, e, sum) ==
  \A y \in AttIds \ {x} : attachments[y] \notin {Unborn, Gone} =>
    (attachments[y].entry = e => attachments[y].sum # sum)

InsertAttachment(r, x) ==
  LET e == req[r].entry  sum == Checksum(None, req[r].body) IN
  /\ req[r].pc = "write" /\ req[r].op = "createAttachment"
  /\ attachments[x] = Unborn
  /\ attachments' = IF e \in live /\ SumFree(x, e, sum)
                    THEN [attachments EXCEPT ![x] = [entry |-> e, url |-> req[r].body.url, sum |-> sum]]
                    ELSE attachments
  /\ Finish(r)
  /\ UNCHANGED <<live, relations>>

PatchedAttachment(row, body) ==
  [row EXCEPT !.url = IF body.url = None THEN @ ELSE body.url, !.sum = Checksum(@, body)]

UpdateAttachment(r) ==
  LET x == req[r].child  row == attachments[x]  new == PatchedAttachment(row, req[r].body) IN
  /\ req[r].pc = "write" /\ req[r].op = "updateAttachment"
  /\ attachments' = IF row # Gone /\ SumFree(x, new.entry, new.sum)
                    THEN [attachments EXCEPT ![x] = new] ELSE attachments
  /\ Finish(r)
  /\ UNCHANGED <<live, relations>>

DeleteAttachment(r) ==
  /\ req[r].pc = "write" /\ req[r].op = "deleteAttachment"
  /\ attachments' = [attachments EXCEPT ![req[r].child] = Gone]
  /\ Finish(r)
  /\ UNCHANGED <<live, relations>>

\* Mutant: only the relations that start at a deleted entry go with it.
CascadesFrom(row, gone) == row \notin {Unborn, Gone} /\ row.from \in gone

\* ON DELETE CASCADE of both foreign keys.
Cascades(row, gone) == row \notin {Unborn, Gone} /\ {row.from, row.to} \intersect gone # {}

\* delete_schema takes all entries of a schema, and the tables cascade.
DeleteEntries(gone) ==
  /\ gone # {} /\ gone \subseteq live
  /\ live' = live \ gone
  /\ relations' = [x \in RelIds |-> IF Cascades(relations[x], gone) THEN Gone ELSE relations[x]]
  /\ attachments' = [x \in AttIds |->
       IF attachments[x] \notin {Unborn, Gone} /\ attachments[x].entry \in gone
       THEN Gone ELSE attachments[x]]
  /\ UNCHANGED req

-----------------------------------------------------------------------------
Arrival(r) ==
  \E e \in EntryIds :
    \/ \E to \in EntryIds : PostRelation(r, e, to)
    \/ \E x \in RelIds :
         \/ \E to \in EntryIds \union {None} : PatchRelation(r, e, x, to)
         \/ DeleteRelationRequest(r, e, x)
    \/ \E url \in Urls, sum \in Sums \union {None} : PostAttachment(r, e, url, sum)
    \/ \E x \in AttIds :
         \/ \E url \in Urls \union {None}, sum \in Sums \union {None} : PatchAttachment(r, e, x, url, sum)
         \/ DeleteAttachmentRequest(r, e, x)

Handler(r) ==
  \/ GetEntry(r) \/ GetTarget(r) \/ GetRelation(r) \/ GetAttachment(r)
  \/ \E x \in RelIds : InsertRelation(r, x)
  \/ \E x \in AttIds : InsertAttachment(r, x)
  \/ UpdateRelation(r) \/ DeleteRelation(r) \/ UpdateAttachment(r) \/ DeleteAttachment(r)

\* Nothing is running: the server waits for a request.
Quiet == (\A r \in Requests : req[r].pc = "idle") /\ UNCHANGED vars

Next ==
  \/ \E r \in Requests : Arrival(r) \/ Handler(r)
  \/ \E gone \in SUBSET EntryIds : DeleteEntries(gone)
  \/ Quiet

Spec == Init /\ [][Next]_vars

-----------------------------------------------------------------------------
(* Properties *)

TypeOK ==
  /\ live \subseteq EntryIds
  /\ relations \in [RelIds -> Relation \union {Unborn, Gone}]
  /\ attachments \in [AttIds -> Attachment \union {Unborn, Gone}]
  /\ req \in [Requests -> Request]

HasRelation(x) == relations[x] \notin {Unborn, Gone}
HasAttachment(x) == attachments[x] \notin {Unborn, Gone}

\* Every relation joins two different entries that are there, and every attachment
\* hangs on one: although no handler holds the entries it has looked at, and entries
\* are deleted while it goes on.
LinksIntact ==
  /\ \A x \in RelIds : HasRelation(x) =>
       {relations[x].from, relations[x].to} \subseteq live /\ relations[x].from # relations[x].to
  /\ \A x \in AttIds : HasAttachment(x) => attachments[x].entry \in live

\* An entry has one URL twice only if a client told the two apart by a checksum of
\* its own - whatever sequence of patches brought the two to that URL.
LinkedOnce ==
  \A x, y \in AttIds :
    (/\ x # y /\ HasAttachment(x) /\ HasAttachment(y)
     /\ attachments[x].entry = attachments[y].entry /\ attachments[x].url = attachments[y].url)
      => attachments[x].sum \in Sums \/ attachments[y].sum \in Sums

\* Who asked for it: a running request whose path entry the relation touched when it
\* was read. Its start is still the one that was read; its end may have been moved.
AskedFor(x) ==
  \E r \in Requests :
    /\ req[r].pc = "write" /\ req[r].child = x
    /\ req[r].entry \in {req[r].seen.from, req[r].seen.to}
    /\ req[r].seen.from = relations[x].from

\* A relation that is there never gets another start, and it is moved or removed
\* only by a request that came through one of its entries, or with an entry it joins:
\* the UPDATE and the DELETE name nothing but the id, some time after the check.
RelationsChangeAsAsked ==
  [][\A x \in RelIds : (HasRelation(x) /\ relations'[x] # relations[x]) =>
       /\ HasRelation(x)' => relations'[x].from = relations[x].from
       /\ AskedFor(x) \/ ~({relations[x].from, relations[x].to} \subseteq live')]_vars

\* An attachment never passes to another entry, and it is changed or removed only
\* through its own entry, or with it.
AttachmentsStayWithTheirEntry ==
  [][\A x \in AttIds : (HasAttachment(x) /\ attachments'[x] # attachments[x]) =>
       /\ HasAttachment(x)' => attachments'[x].entry = attachments[x].entry
       /\ \/ \E r \in Requests : /\ req[r].pc = "write" /\ req[r].child = x
                                 /\ req[r].entry = attachments[x].entry
          \/ attachments[x].entry \notin live']_vars
=============================================================================
