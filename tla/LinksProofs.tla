----------------------------- MODULE LinksProofs -----------------------------
(***************************************************************************)
(* Proofs about Links for any number of requests, entries, relations and   *)
(* attachments, used side by side or not.                                  *)
(***************************************************************************)
EXTENDS Links, TLAPS

\* What a handler holds.
RequestOK(q) ==
  /\ q.pc # "idle" => q.entry \in EntryIds
  /\ q.pc = "child" => q.op \notin {"createRelation", "createAttachment"}
  /\ (q.pc # "idle" /\ q.op = "createRelation") => q.body \in Body /\ q.body.to \in EntryIds
  /\ (q.pc # "idle" /\ q.op = "updateRelation") => q.child \in RelIds /\ q.body \in Body
  /\ (q.pc # "idle" /\ q.op = "deleteRelation") => q.child \in RelIds
  /\ (q.pc # "idle" /\ q.op = "createAttachment") => q.body \in Body /\ q.body.url \in Urls
  /\ (q.pc # "idle" /\ q.op = "updateAttachment") => q.child \in AttIds /\ q.body \in Body
  /\ (q.pc # "idle" /\ q.op = "deleteAttachment") => q.child \in AttIds

\* What a handler that has seen a row still knows of it, if the row is there.
SeenOK(q, rels, atts) ==
  /\ (q.pc \in {"target", "write"} /\ q.op \in {"updateRelation", "deleteRelation"}) =>
       /\ rels[q.child] # Unborn
       /\ q.entry \in {q.seen.from, q.seen.to}
       /\ rels[q.child] # Gone => rels[q.child].from = q.seen.from
  /\ (q.pc \in {"target", "write"} /\ q.op \in {"updateAttachment", "deleteAttachment"}) =>
       /\ atts[q.child] # Unborn
       /\ atts[q.child] # Gone => atts[q.child].entry = q.entry

TypeInv == TypeOK /\ \A r \in Requests : RequestOK(req[r])
SeenInv == \A r \in Requests : SeenOK(req[r], relations, attachments)

\* UNIQUE (entry_id, checksum), and a checksum that no client gave is the URL.
SumInv ==
  /\ \A x \in AttIds : HasAttachment(x) /\ attachments[x].sum \notin Sums =>
       attachments[x].sum = attachments[x].url
  /\ \A x, y \in AttIds :
       (x # y /\ HasAttachment(x) /\ HasAttachment(y) /\ attachments[x].entry = attachments[y].entry)
         => attachments[x].sum # attachments[y].sum

IInv == TypeInv /\ SeenInv /\ LinksIntact /\ SumInv

\* Rows that are there later were there, at the same entry, or are new.
Keeps(rels, atts, rels2, atts2) ==
  /\ \A x \in RelIds : rels[x] # Unborn =>
       /\ rels2[x] # Unborn
       /\ rels2[x] # Gone => rels[x] # Gone /\ rels2[x].from = rels[x].from
  /\ \A x \in AttIds : atts[x] # Unborn =>
       /\ atts2[x] # Unborn
       /\ atts2[x] # Gone => atts[x] # Gone /\ atts2[x].entry = atts[x].entry

-----------------------------------------------------------------------------
(* Steps of one request. *)

LEMMA IdleOK == Idle \in Request /\ RequestOK(Idle) /\ \A f, g : SeenOK(Idle, f, g)
BY DEF Idle, Request, RequestOK, SeenOK

\* One request gets a well-formed record, and the tables keep their rows.
LEMMA RequestStep ==
  ASSUME TypeInv, SeenInv, NEW r \in Requests, NEW q \in Request, RequestOK(q),
         SeenOK(q, relations', attachments'), req' = [req EXCEPT ![r] = q],
         Keeps(relations, attachments, relations', attachments')
  PROVE  /\ req' \in [Requests -> Request]
         /\ \A p \in Requests : RequestOK(req'[p])
         /\ SeenInv'
<1>1. /\ req' \in [Requests -> Request]
      /\ req'[r] = q /\ \A p \in Requests \ {r} : req'[p] = req[p]
  BY DEF TypeInv, TypeOK
<1>2. \A p \in Requests : RequestOK(req'[p])
  BY <1>1 DEF TypeInv
<1>3. ASSUME NEW p \in Requests
      PROVE  SeenOK(req'[p], relations', attachments')
  <2>1. CASE p = r
    BY <1>1, <2>1
  <2>2. CASE p # r
    <3>1. req'[p] = req[p] /\ SeenOK(req[p], relations, attachments) /\ RequestOK(req[p])
      BY <1>1, <2>2 DEF SeenInv, TypeInv
    <3> QED
      BY <3>1 DEF SeenOK, RequestOK, Keeps
  <2> QED
    BY <2>1, <2>2
<1> QED
  BY <1>1, <1>2, <1>3 DEF SeenInv

LEMMA FinishStep ==
  ASSUME TypeInv, SeenInv, NEW r \in Requests, Finish(r),
         Keeps(relations, attachments, relations', attachments')
  PROVE  /\ req' \in [Requests -> Request]
         /\ \A p \in Requests : RequestOK(req'[p])
         /\ SeenInv'
BY IdleOK, RequestStep DEF Finish

\* A step that leaves the tables as they are.
LEMMA ReadStep ==
  ASSUME IInv, NEW r \in Requests, NEW q \in Request, RequestOK(q),
         SeenOK(q, relations, attachments), req' = [req EXCEPT ![r] = q],
         UNCHANGED <<live, relations, attachments>>
  PROVE  IInv'
<1>1. Keeps(relations, attachments, relations', attachments')
  BY DEF Keeps
<1>2. SeenOK(q, relations', attachments')
  OBVIOUS
<1>3. /\ req' \in [Requests -> Request]
      /\ \A p \in Requests : RequestOK(req'[p])
      /\ SeenInv'
  BY <1>1, <1>2, RequestStep DEF IInv
<1>4. LinksIntact' /\ SumInv'
  BY DEF IInv, LinksIntact, SumInv, HasRelation, HasAttachment
<1> QED
  BY <1>3, <1>4 DEF IInv, TypeInv, TypeOK

LEMMA FinishRead ==
  ASSUME IInv, NEW r \in Requests, Finish(r), UNCHANGED <<live, relations, attachments>>
  PROVE  IInv'
BY IdleOK, ReadStep DEF Finish

LEMMA ArriveStep ==
  ASSUME IInv, NEW r \in Requests, NEW e \in EntryIds, NEW op \in RelationOps \union AttachmentOps,
         NEW child \in RelIds \union AttIds \union {None}, NEW body \in Body \union {None},
         Arrive(r, op, e, child, body),
         RequestOK([pc |-> "entry", op |-> op, entry |-> e, child |-> child, body |-> body, seen |-> None])
  PROVE  IInv'
<1> DEFINE q == [pc |-> "entry", op |-> op, entry |-> e, child |-> child, body |-> body, seen |-> None]
<1>1. q \in Request /\ SeenOK(q, relations, attachments)
  BY DEF Request, SeenOK
<1>2. req' = [req EXCEPT ![r] = q] /\ UNCHANGED <<live, relations, attachments>>
  BY DEF Arrive
<1> HIDE DEF q
<1> QED
  BY <1>1, <1>2, ReadStep DEF q

LEMMA ArrivalStep ==
  ASSUME IInv, NEW r \in Requests, Arrival(r)
  PROVE  IInv'
<1> USE LinksAssumption DEF RelationOps, AttachmentOps
<1>1. ASSUME NEW e \in EntryIds, NEW to \in EntryIds, PostRelation(r, e, to)
      PROVE  IInv'
  <2> DEFINE body == [to |-> to, url |-> None, sum |-> None]
             q == [pc |-> "entry", op |-> "createRelation", entry |-> e, child |-> None,
                   body |-> body, seen |-> None]
  <2>1. body \in Body /\ body.to \in EntryIds
    BY DEF Body
  <2>2. RequestOK(q)
    BY <2>1 DEF RequestOK
  <2>3. Arrive(r, "createRelation", e, None, body)
    BY <1>1 DEF PostRelation
  <2> HIDE DEF body
  <2> QED
    BY <2>1, <2>2, <2>3, ArriveStep
<1>2. ASSUME NEW e \in EntryIds, NEW x \in RelIds, NEW to \in EntryIds \union {None},
             PatchRelation(r, e, x, to)
      PROVE  IInv'
  <2> DEFINE body == [to |-> to, url |-> None, sum |-> None]
             q == [pc |-> "entry", op |-> "updateRelation", entry |-> e, child |-> x,
                   body |-> body, seen |-> None]
  <2>1. body \in Body
    BY DEF Body
  <2>2. RequestOK(q)
    BY <2>1 DEF RequestOK
  <2>3. Arrive(r, "updateRelation", e, x, body)
    BY <1>2 DEF PatchRelation
  <2> HIDE DEF body
  <2> QED
    BY <2>1, <2>2, <2>3, ArriveStep
<1>3. ASSUME NEW e \in EntryIds, NEW x \in RelIds, DeleteRelationRequest(r, e, x)
      PROVE  IInv'
  <2> DEFINE q == [pc |-> "entry", op |-> "deleteRelation", entry |-> e, child |-> x,
                   body |-> None, seen |-> None]
  <2>1. RequestOK(q)
    BY DEF RequestOK
  <2>2. Arrive(r, "deleteRelation", e, x, None)
    BY <1>3 DEF DeleteRelationRequest
  <2> QED
    BY <2>1, <2>2, ArriveStep
<1>4. ASSUME NEW e \in EntryIds, NEW url \in Urls, NEW sum \in Sums \union {None},
             PostAttachment(r, e, url, sum)
      PROVE  IInv'
  <2> DEFINE body == [to |-> None, url |-> url, sum |-> sum]
             q == [pc |-> "entry", op |-> "createAttachment", entry |-> e, child |-> None,
                   body |-> body, seen |-> None]
  <2>1. body \in Body /\ body.url \in Urls
    BY DEF Body
  <2>2. RequestOK(q)
    BY <2>1 DEF RequestOK
  <2>3. Arrive(r, "createAttachment", e, None, body)
    BY <1>4 DEF PostAttachment
  <2> HIDE DEF body
  <2> QED
    BY <2>1, <2>2, <2>3, ArriveStep
<1>5. ASSUME NEW e \in EntryIds, NEW x \in AttIds, NEW url \in Urls \union {None},
             NEW sum \in Sums \union {None}, PatchAttachment(r, e, x, url, sum)
      PROVE  IInv'
  <2> DEFINE body == [to |-> None, url |-> url, sum |-> sum]
             q == [pc |-> "entry", op |-> "updateAttachment", entry |-> e, child |-> x,
                   body |-> body, seen |-> None]
  <2>1. body \in Body
    BY DEF Body
  <2>2. RequestOK(q)
    BY <2>1 DEF RequestOK
  <2>3. Arrive(r, "updateAttachment", e, x, body)
    BY <1>5 DEF PatchAttachment
  <2> HIDE DEF body
  <2> QED
    BY <2>1, <2>2, <2>3, ArriveStep
<1>6. ASSUME NEW e \in EntryIds, NEW x \in AttIds, DeleteAttachmentRequest(r, e, x)
      PROVE  IInv'
  <2> DEFINE q == [pc |-> "entry", op |-> "deleteAttachment", entry |-> e, child |-> x,
                   body |-> None, seen |-> None]
  <2>1. RequestOK(q)
    BY DEF RequestOK
  <2>2. Arrive(r, "deleteAttachment", e, x, None)
    BY <1>6 DEF DeleteAttachmentRequest
  <2> QED
    BY <2>1, <2>2, ArriveStep
<1> QED
  BY <1>1, <1>2, <1>3, <1>4, <1>5, <1>6 DEF Arrival

LEMMA ReadsStep ==
  ASSUME IInv, NEW r \in Requests, GetEntry(r) \/ GetTarget(r) \/ GetRelation(r) \/ GetAttachment(r)
  PROVE  IInv'
<1> DEFINE old == req[r]
<1>1. old \in Request /\ RequestOK(old) /\ SeenOK(old, relations, attachments)
  BY DEF IInv, TypeInv, TypeOK, SeenInv
<1>2. UNCHANGED <<live, relations, attachments>>
  BY DEF GetEntry, GetTarget, GetRelation, GetAttachment
<1>3. ASSUME NEW q \in Request, RequestOK(q), SeenOK(q, relations, attachments),
             req' = [req EXCEPT ![r] = q]
      PROVE  IInv'
  BY <1>2, <1>3, ReadStep
<1>4. CASE Finish(r)
  BY <1>2, <1>4, FinishRead
<1>5. CASE GetEntry(r) /\ ~Finish(r)
  <2>1. PICK pc \in {"target", "write", "child"} :
          /\ req' = [req EXCEPT ![r].pc = pc]
          /\ pc = "target" => old.op = "createRelation"
          /\ pc = "write" => old.op = "createAttachment"
          /\ pc = "child" => old.op \notin {"createRelation", "createAttachment"}
    BY <1>5 DEF GetEntry, GoTo
  <2> DEFINE q == [old EXCEPT !.pc = pc]
  <2>2. q \in Request
    BY <1>1 DEF Request
  <2>3. RequestOK(q)
    BY <1>1, <1>5, <2>1 DEF Request, RequestOK, GetEntry
  <2>4. SeenOK(q, relations, attachments)
    BY <1>1, <2>1 DEF Request, SeenOK
  <2>5. req' = [req EXCEPT ![r] = q]
    BY <2>1 DEF IInv, TypeInv, TypeOK
  <2> HIDE DEF q
  <2> QED
    BY <1>3, <2>2, <2>3, <2>4, <2>5
<1>6. CASE GetTarget(r) /\ ~Finish(r)
  <2> DEFINE q == [old EXCEPT !.pc = "write"]
  <2>1. q \in Request /\ RequestOK(q) /\ SeenOK(q, relations, attachments)
    BY <1>1, <1>6 DEF Request, RequestOK, SeenOK, GetTarget
  <2>2. req' = [req EXCEPT ![r] = q]
    BY <1>6 DEF GetTarget, GoTo, IInv, TypeInv, TypeOK
  <2> HIDE DEF q
  <2> QED
    BY <1>3, <2>1, <2>2
<1>7. CASE GetRelation(r) /\ ~Finish(r)
  <2> DEFINE row == relations[old.child]
             q(pc) == [old EXCEPT !.seen = row, !.pc = pc]
  <2>1. PICK pc \in {"target", "write"} : req' = [req EXCEPT ![r].seen = row, ![r].pc = pc]
    BY <1>7 DEF GetRelation
  <2>2. /\ old.op \in {"updateRelation", "deleteRelation"} /\ old.pc = "child"
        /\ row \notin {Unborn, Gone} /\ Touches(row, old.entry)
    BY <1>1, <1>7 DEF GetRelation, RelationOps, RequestOK
  <2>3. old.child \in RelIds /\ row \in Relation
    BY <1>1, <2>2 DEF RequestOK, IInv, TypeInv, TypeOK
  <2>4. q(pc) \in Request /\ RequestOK(q(pc))
    BY <1>1, <2>2, <2>3 DEF Request, RequestOK
  <2>5. SeenOK(q(pc), relations, attachments)
    BY <1>1, <2>2, <2>3 DEF Request, SeenOK, Touches
  <2>6. req' = [req EXCEPT ![r] = q(pc)]
    BY <2>1 DEF IInv, TypeInv, TypeOK
  <2> HIDE DEF q
  <2> QED
    BY <1>3, <2>4, <2>5, <2>6
<1>8. CASE GetAttachment(r) /\ ~Finish(r)
  <2> DEFINE row == attachments[old.child]
             q == [old EXCEPT !.seen = row, !.pc = "write"]
  <2>1. req' = [req EXCEPT ![r].seen = row, ![r].pc = "write"]
    BY <1>8 DEF GetAttachment
  <2>2. /\ old.op \in {"updateAttachment", "deleteAttachment"} /\ old.pc = "child"
        /\ row \notin {Unborn, Gone} /\ BelongsTo(row, old.entry)
    BY <1>1, <1>8 DEF GetAttachment, AttachmentOps, RequestOK
  <2>3. old.child \in AttIds /\ row \in Attachment
    BY <1>1, <2>2 DEF RequestOK, IInv, TypeInv, TypeOK
  <2>4. q \in Request /\ RequestOK(q)
    BY <1>1, <2>2, <2>3 DEF Request, RequestOK
  <2>5. SeenOK(q, relations, attachments)
    BY <1>1, <2>2, <2>3 DEF Request, SeenOK, BelongsTo
  <2>6. req' = [req EXCEPT ![r] = q]
    BY <2>1 DEF IInv, TypeInv, TypeOK
  <2> HIDE DEF q
  <2> QED
    BY <1>3, <2>4, <2>5, <2>6
<1> QED
  BY <1>4, <1>5, <1>6, <1>7, <1>8

-----------------------------------------------------------------------------
(* Statements that write. *)

\* A statement on relations, at the end of a request.
LEMMA RelationWrite ==
  ASSUME IInv, NEW r \in Requests, Finish(r), UNCHANGED <<live, attachments>>,
         Keeps(relations, attachments, relations', attachments'),
         relations' \in [RelIds -> Relation \union {Unborn, Gone}],
         \A x \in RelIds : relations'[x] # relations[x] /\ relations'[x] # Gone =>
           RelationAllowed(relations'[x])
  PROVE  IInv'
<1>1. /\ req' \in [Requests -> Request]
      /\ \A p \in Requests : RequestOK(req'[p])
      /\ SeenInv'
  BY FinishStep DEF IInv
<1>2. LinksIntact'
  BY DEF IInv, LinksIntact, HasRelation, HasAttachment, RelationAllowed
<1>3. SumInv'
  BY DEF IInv, SumInv, HasAttachment
<1> QED
  BY <1>1, <1>2, <1>3 DEF IInv, TypeInv, TypeOK

LEMMA RelationStep ==
  ASSUME IInv, NEW r \in Requests,
         (\E x \in RelIds : InsertRelation(r, x)) \/ UpdateRelation(r) \/ DeleteRelation(r)
  PROVE  IInv'
<1> USE LinksAssumption
<1>1. relations \in [RelIds -> Relation \union {Unborn, Gone}]
  BY DEF IInv, TypeInv, TypeOK
<1>2. RequestOK(req[r]) /\ SeenOK(req[r], relations, attachments)
  BY DEF IInv, TypeInv, SeenInv
<1>3. CASE UNCHANGED <<live, relations, attachments>> /\ Finish(r)
  BY <1>3, FinishRead
<1>4. ASSUME NEW x \in RelIds, InsertRelation(r, x), relations' # relations
      PROVE  IInv'
  <2> DEFINE row == [from |-> req[r].entry, to |-> req[r].body.to]
  <2>1. /\ relations' = [relations EXCEPT ![x] = row] /\ RelationAllowed(row)
        /\ relations[x] = Unborn /\ Finish(r) /\ UNCHANGED <<live, attachments>>
    BY <1>4 DEF InsertRelation
  <2>2. row \in Relation
    BY <1>2, <1>4 DEF InsertRelation, RequestOK, Relation
  <2> HIDE DEF row
  <2>3. relations' \in [RelIds -> Relation \union {Unborn, Gone}]
    BY <1>1, <2>1, <2>2
  <2>4. \A y \in RelIds : relations'[y] = IF y = x THEN row ELSE relations[y]
    BY <1>1, <2>1
  <2>5. Keeps(relations, attachments, relations', attachments')
    BY <2>1, <2>4 DEF Keeps
  <2> QED
    BY <2>1, <2>3, <2>4, <2>5, RelationWrite
<1>5. CASE UpdateRelation(r) /\ relations' # relations
  <2> DEFINE x == req[r].child
             row == [relations[x] EXCEPT !.to = req[r].body.to]
  <2>1. /\ relations' = [relations EXCEPT ![x].to = req[r].body.to] /\ relations[x] # Gone
        /\ RelationAllowed(row) /\ req[r].body.to # None
        /\ Finish(r) /\ UNCHANGED <<live, attachments>>
    BY <1>5 DEF UpdateRelation
  <2>2. /\ x \in RelIds /\ req[r].body.to \in EntryIds /\ relations[x] # Unborn
    BY <1>2, <1>5, <2>1 DEF UpdateRelation, RequestOK, SeenOK, Body
  <2>3. relations[x] \in Relation
    BY <1>1, <2>1, <2>2
  <2>4. row \in Relation /\ row.from = relations[x].from
    BY <2>2, <2>3 DEF Relation
  <2>5. relations' = [relations EXCEPT ![x] = row]
    BY <2>1
  <2> HIDE DEF row
  <2>6. relations' \in [RelIds -> Relation \union {Unborn, Gone}]
    BY <1>1, <2>4, <2>5
  <2>7. \A y \in RelIds : relations'[y] = IF y = x THEN row ELSE relations[y]
    BY <1>1, <2>5
  <2>8. Keeps(relations, attachments, relations', attachments')
    BY <2>1, <2>2, <2>4, <2>7 DEF Keeps
  <2> QED
    BY <2>1, <2>6, <2>7, <2>8, RelationWrite
<1>6. CASE DeleteRelation(r)
  <2> DEFINE x == req[r].child
  <2>1. /\ relations' = [relations EXCEPT ![x] = Gone] /\ Finish(r) /\ UNCHANGED <<live, attachments>>
    BY <1>6 DEF DeleteRelation
  <2>2. relations' \in [RelIds -> Relation \union {Unborn, Gone}]
    BY <1>1, <2>1
  <2>3. \A y \in RelIds : relations'[y] = IF y = x THEN Gone ELSE relations[y]
    BY <1>1, <2>1
  <2>4. Keeps(relations, attachments, relations', attachments')
    BY <2>1, <2>3 DEF Keeps
  <2> QED
    BY <2>1, <2>2, <2>3, <2>4, RelationWrite
<1> QED
  BY <1>3, <1>4, <1>5, <1>6 DEF InsertRelation, UpdateRelation, DeleteRelation

\* A statement on attachments, at the end of a request.
LEMMA AttachmentWrite ==
  ASSUME IInv, NEW r \in Requests, Finish(r), UNCHANGED <<live, relations>>,
         Keeps(relations, attachments, relations', attachments'),
         attachments' \in [AttIds -> Attachment \union {Unborn, Gone}],
         NEW x \in AttIds, \A y \in AttIds \ {x} : attachments'[y] = attachments[y],
         HasAttachment(x)' =>
           /\ attachments'[x].entry \in live
           /\ attachments'[x].sum \in Sums \/ attachments'[x].sum = attachments'[x].url
           /\ SumFree(x, attachments'[x].entry, attachments'[x].sum)
  PROVE  IInv'
<1>1. /\ req' \in [Requests -> Request]
      /\ \A p \in Requests : RequestOK(req'[p])
      /\ SeenInv'
  BY FinishStep DEF IInv
<1>2. LinksIntact'
  BY DEF IInv, LinksIntact, HasRelation, HasAttachment
<1>3. SumInv'
  <2>1. \A y \in AttIds : HasAttachment(y)' /\ attachments'[y].sum \notin Sums =>
          attachments'[y].sum = attachments'[y].url
    BY DEF IInv, SumInv, HasAttachment
  <2>2. \A y, z \in AttIds \ {x} :
          (y # z /\ HasAttachment(y)' /\ HasAttachment(z)' /\ attachments'[y].entry = attachments'[z].entry)
            => attachments'[y].sum # attachments'[z].sum
    BY DEF IInv, SumInv, HasAttachment
  <2>3. \A y \in AttIds \ {x} :
          (HasAttachment(y)' /\ HasAttachment(x)' /\ attachments'[y].entry = attachments'[x].entry)
            => attachments'[y].sum # attachments'[x].sum
    BY DEF SumFree, HasAttachment
  <2> QED
    BY <2>1, <2>2, <2>3 DEF SumInv
<1> QED
  BY <1>1, <1>2, <1>3 DEF IInv, TypeInv, TypeOK

LEMMA AttachmentStep ==
  ASSUME IInv, NEW r \in Requests,
         (\E x \in AttIds : InsertAttachment(r, x)) \/ UpdateAttachment(r) \/ DeleteAttachment(r)
  PROVE  IInv'
<1> USE LinksAssumption
<1>1. attachments \in [AttIds -> Attachment \union {Unborn, Gone}]
  BY DEF IInv, TypeInv, TypeOK
<1>2. RequestOK(req[r]) /\ SeenOK(req[r], relations, attachments)
  BY DEF IInv, TypeInv, SeenInv
<1>3. CASE UNCHANGED <<live, relations, attachments>> /\ Finish(r)
  BY <1>3, FinishRead
<1>4. ASSUME NEW x \in AttIds, InsertAttachment(r, x), attachments' # attachments
      PROVE  IInv'
  <2> DEFINE e == req[r].entry
             sum == Checksum(None, req[r].body)
             row == [entry |-> e, url |-> req[r].body.url, sum |-> sum]
  <2>1. /\ attachments' = [attachments EXCEPT ![x] = row] /\ e \in live /\ SumFree(x, e, sum)
        /\ attachments[x] = Unborn /\ Finish(r) /\ UNCHANGED <<live, relations>>
    BY <1>4 DEF InsertAttachment
  <2>2. e \in EntryIds /\ req[r].body \in Body /\ req[r].body.url \in Urls
    BY <1>2, <1>4 DEF InsertAttachment, RequestOK
  <2>3. sum \in Urls \union Sums /\ (sum \in Sums \/ sum = row.url)
    BY <2>2 DEF Checksum, Body
  <2>4. row \in Attachment /\ row.entry = e /\ row.sum = sum
    BY <2>2, <2>3 DEF Attachment
  <2> HIDE DEF row, sum
  <2>5. attachments' \in [AttIds -> Attachment \union {Unborn, Gone}]
    BY <1>1, <2>1, <2>4
  <2>6. \A y \in AttIds : attachments'[y] = IF y = x THEN row ELSE attachments[y]
    BY <1>1, <2>1
  <2>7. Keeps(relations, attachments, relations', attachments')
    BY <2>1, <2>6 DEF Keeps
  <2> QED
    BY <2>1, <2>3, <2>4, <2>5, <2>6, <2>7, AttachmentWrite
<1>5. CASE UpdateAttachment(r) /\ attachments' # attachments
  <2> DEFINE x == req[r].child
             old == attachments[x]
             row == PatchedAttachment(old, req[r].body)
  <2>1. /\ attachments' = [attachments EXCEPT ![x] = row] /\ old # Gone
        /\ SumFree(x, row.entry, row.sum)
        /\ Finish(r) /\ UNCHANGED <<live, relations>>
    BY <1>5 DEF UpdateAttachment
  <2>2. x \in AttIds /\ req[r].body \in Body /\ old # Unborn
    BY <1>2, <1>5 DEF UpdateAttachment, RequestOK, SeenOK
  <2>3. old \in Attachment /\ HasAttachment(x)
    BY <1>1, <2>1, <2>2 DEF HasAttachment
  <2>4. old.entry \in live /\ (old.sum \in Sums \/ old.sum = old.url)
    BY <2>2, <2>3 DEF IInv, LinksIntact, SumInv
  <2>5. row \in Attachment /\ row.entry = old.entry /\ (row.sum \in Sums \/ row.sum = row.url)
    BY <2>2, <2>3, <2>4 DEF PatchedAttachment, Checksum, Attachment, Body
  <2> HIDE DEF row
  <2>6. attachments' \in [AttIds -> Attachment \union {Unborn, Gone}]
    BY <1>1, <2>1, <2>5
  <2>7. \A y \in AttIds : attachments'[y] = IF y = x THEN row ELSE attachments[y]
    BY <1>1, <2>1
  <2>8. Keeps(relations, attachments, relations', attachments')
    BY <2>1, <2>2, <2>5, <2>7 DEF Keeps
  <2>9. /\ attachments'[x].entry \in live
        /\ attachments'[x].sum \in Sums \/ attachments'[x].sum = attachments'[x].url
        /\ SumFree(x, attachments'[x].entry, attachments'[x].sum)
        /\ \A y \in AttIds \ {x} : attachments'[y] = attachments[y]
    BY <2>1, <2>2, <2>4, <2>5, <2>7
  <2> QED
    BY <2>1, <2>2, <2>6, <2>8, <2>9, AttachmentWrite
<1>6. CASE DeleteAttachment(r)
  <2>2. PICK x \in AttIds : x = req[r].child
    BY <1>2, <1>6 DEF DeleteAttachment, RequestOK
  <2>1. /\ attachments' = [attachments EXCEPT ![x] = Gone] /\ Finish(r) /\ UNCHANGED <<live, relations>>
    BY <1>6, <2>2 DEF DeleteAttachment
  <2>3. attachments' \in [AttIds -> Attachment \union {Unborn, Gone}]
    BY <1>1, <2>1
  <2>4. \A y \in AttIds : attachments'[y] = IF y = x THEN Gone ELSE attachments[y]
    BY <1>1, <2>1
  <2>5. Keeps(relations, attachments, relations', attachments')
    BY <2>1, <2>4 DEF Keeps
  <2>6. ~HasAttachment(x)'
    BY <2>2, <2>4 DEF HasAttachment
  <2> QED
    BY <2>1, <2>2, <2>3, <2>4, <2>5, <2>6, AttachmentWrite
<1> QED
  BY <1>3, <1>4, <1>5, <1>6 DEF InsertAttachment, UpdateAttachment, DeleteAttachment

LEMMA DeletionStep ==
  ASSUME IInv, NEW gone \in SUBSET EntryIds, DeleteEntries(gone)
  PROVE  IInv'
<1>1. /\ relations \in [RelIds -> Relation \union {Unborn, Gone}]
      /\ attachments \in [AttIds -> Attachment \union {Unborn, Gone}]
  BY DEF IInv, TypeInv, TypeOK
<1>2. /\ \A x \in RelIds : relations'[x] = IF Cascades(relations[x], gone) THEN Gone ELSE relations[x]
      /\ \A x \in AttIds : attachments'[x] =
           IF attachments[x] \notin {Unborn, Gone} /\ attachments[x].entry \in gone
           THEN Gone ELSE attachments[x]
      /\ live' = live \ gone /\ req' = req
  BY DEF DeleteEntries
<1>3. TypeInv'
  BY <1>1, <1>2 DEF DeleteEntries, IInv, TypeInv, TypeOK
<1>4. Keeps(relations, attachments, relations', attachments')
  BY <1>2, LinksAssumption DEF Keeps, Cascades
<1>5. SeenInv'
  <2> SUFFICES ASSUME NEW p \in Requests
               PROVE  SeenOK(req[p], relations', attachments')
    BY <1>2 DEF SeenInv
  <2> QED
    BY <1>4 DEF IInv, TypeInv, SeenInv, SeenOK, RequestOK, Keeps
<1>6. LinksIntact'
  BY <1>2 DEF IInv, LinksIntact, HasRelation, HasAttachment, Cascades
<1>7. SumInv'
  BY <1>2 DEF IInv, SumInv, HasAttachment
<1> QED
  BY <1>3, <1>5, <1>6, <1>7 DEF IInv

-----------------------------------------------------------------------------

LEMMA InvInit == Init => IInv
BY IdleOK DEF Init, IInv, TypeInv, TypeOK, SeenInv, LinksIntact, SumInv, HasRelation, HasAttachment

LEMMA InvStep == IInv /\ [Next]_vars => IInv'
<1> SUFFICES ASSUME IInv, [Next]_vars PROVE IInv'
  OBVIOUS
<1>1. CASE UNCHANGED vars
  BY <1>1 DEF vars, IInv, TypeInv, TypeOK, SeenInv, LinksIntact, SumInv, HasRelation, HasAttachment
<1> QED
  BY <1>1, ArrivalStep, ReadsStep, RelationStep, AttachmentStep, DeletionStep DEF Next, Handler, Quiet

LEMMA InvHolds == Spec => []IInv
BY InvInit, InvStep, PTL DEF Spec

\* Whatever overlaps, requests and tables stay what the code takes them for.
THEOREM TypeCorrect == Spec => []TypeOK
BY InvHolds, PTL DEF IInv, TypeInv

\* No relation and no attachment outlives its entries, and none joins an entry to
\* itself: the constraints of the tables make up for what the handlers do not hold.
THEOREM LinksStayIntact == Spec => []LinksIntact
BY InvHolds, PTL DEF IInv

\* The checksum that stands in for a missing one follows the URL, so the UNIQUE
\* constraint keeps an entry from having one URL twice unnoticed.
THEOREM NoUrlTwice == Spec => []LinkedOnce
<1>1. IInv => LinkedOnce
  BY DEF IInv, SumInv, LinkedOnce
<1> QED
  BY <1>1, InvHolds, PTL

-----------------------------------------------------------------------------
(* Who may change a row. *)

\* Of all steps, only these change a relation that is there.
LEMMA RelationChange ==
  ASSUME IInv, [Next]_vars, NEW x \in RelIds, HasRelation(x), relations'[x] # relations[x]
  PROVE  \/ \E r \in Requests : /\ req[r].child = x /\ (UpdateRelation(r) \/ DeleteRelation(r))
                                /\ HasRelation(x)' => relations'[x].from = relations[x].from
         \/ \E gone \in SUBSET EntryIds :
              DeleteEntries(gone) /\ relations'[x] = Gone /\ Cascades(relations[x], gone)
<1> USE LinksAssumption
<1>1. relations \in [RelIds -> Relation \union {Unborn, Gone}]
  BY DEF IInv, TypeInv, TypeOK
<1>2. ASSUME NEW r \in Requests, NEW y \in RelIds, InsertRelation(r, y)
      PROVE  FALSE
  BY <1>1, <1>2 DEF InsertRelation, HasRelation
<1>3. ASSUME NEW r \in Requests, UpdateRelation(r)
      PROVE  req[r].child = x /\ (HasRelation(x)' => relations'[x].from = relations[x].from)
  <2>1. /\ relations' = [relations EXCEPT ![req[r].child].to = req[r].body.to]
        /\ relations[x] \in Relation
    BY <1>1, <1>3 DEF UpdateRelation, HasRelation
  <2> QED
    BY <1>1, <2>1 DEF Relation
<1>4. ASSUME NEW r \in Requests, DeleteRelation(r)
      PROVE  req[r].child = x /\ ~HasRelation(x)'
  BY <1>1, <1>4 DEF DeleteRelation, HasRelation
<1>5. ASSUME NEW gone \in SUBSET EntryIds, DeleteEntries(gone)
      PROVE  relations'[x] = Gone /\ Cascades(relations[x], gone)
  BY <1>5 DEF DeleteEntries
<1>6. ASSUME NEW r \in Requests, Arrival(r) \/ GetEntry(r) \/ GetTarget(r) \/ GetRelation(r) \/ GetAttachment(r)
      PROVE  FALSE
  BY <1>6 DEF Arrival, Arrive, PostRelation, PatchRelation, DeleteRelationRequest, PostAttachment,
     PatchAttachment, DeleteAttachmentRequest, GetEntry, GetTarget, GetRelation, GetAttachment
<1>7. ASSUME NEW r \in Requests,
             (\E y \in AttIds : InsertAttachment(r, y)) \/ UpdateAttachment(r) \/ DeleteAttachment(r)
      PROVE  FALSE
  BY <1>7 DEF InsertAttachment, UpdateAttachment, DeleteAttachment
<1>8. CASE UNCHANGED vars
  BY <1>8 DEF vars
<1> QED
  BY <1>2, <1>3, <1>4, <1>5, <1>6, <1>7, <1>8 DEF Next, Handler, Quiet

\* A relation changes only by a request that reached it through one of its entries,
\* however long ago, or with an entry; it never starts anywhere else.
THEOREM RelationsOnlyAsAsked == Spec => RelationsChangeAsAsked
<1>1. ASSUME IInv, [Next]_vars, NEW x \in RelIds, HasRelation(x), relations'[x] # relations[x]
      PROVE  /\ HasRelation(x)' => relations'[x].from = relations[x].from
             /\ AskedFor(x) \/ ~({relations[x].from, relations[x].to} \subseteq live')
  <2>1. ASSUME NEW r \in Requests, req[r].child = x, UpdateRelation(r) \/ DeleteRelation(r)
        PROVE  AskedFor(x)
    <3>1. SeenOK(req[r], relations, attachments) /\ req[r].pc = "write"
          /\ req[r].op \in {"updateRelation", "deleteRelation"}
      BY <1>1, <2>1 DEF IInv, SeenInv, UpdateRelation, DeleteRelation
    <3> QED
      BY <1>1, <2>1, <3>1 DEF SeenOK, AskedFor, HasRelation
  <2>2. ASSUME NEW gone \in SUBSET EntryIds, DeleteEntries(gone), Cascades(relations[x], gone)
        PROVE  ~({relations[x].from, relations[x].to} \subseteq live')
    BY <2>2 DEF DeleteEntries, Cascades
  <2>3. relations'[x] = Gone => ~HasRelation(x)'
    BY DEF HasRelation
  <2>4. \/ \E r \in Requests : /\ req[r].child = x /\ (UpdateRelation(r) \/ DeleteRelation(r))
                               /\ HasRelation(x)' => relations'[x].from = relations[x].from
        \/ \E gone \in SUBSET EntryIds :
             DeleteEntries(gone) /\ relations'[x] = Gone /\ Cascades(relations[x], gone)
    BY <1>1, RelationChange
  <2>5. HasRelation(x)' => relations'[x].from = relations[x].from
    BY <2>4 DEF HasRelation
  <2> QED
    BY <2>1, <2>2, <2>4, <2>5
<1>2. IInv /\ [Next]_vars =>
        (\A x \in RelIds : (HasRelation(x) /\ relations'[x] # relations[x]) =>
           /\ HasRelation(x)' => relations'[x].from = relations[x].from
           /\ AskedFor(x) \/ ~({relations[x].from, relations[x].to} \subseteq live'))
  BY <1>1
<1>3. IInv /\ [Next]_vars =>
        [\A x \in RelIds : (HasRelation(x) /\ relations'[x] # relations[x]) =>
           /\ HasRelation(x)' => relations'[x].from = relations[x].from
           /\ AskedFor(x) \/ ~({relations[x].from, relations[x].to} \subseteq live')]_vars
  BY <1>2
<1> QED
  BY <1>3, InvHolds, PTL DEF Spec, RelationsChangeAsAsked

LEMMA AttachmentChange ==
  ASSUME IInv, [Next]_vars, NEW x \in AttIds, HasAttachment(x), attachments'[x] # attachments[x]
  PROVE  \/ \E r \in Requests : /\ req[r].child = x /\ (UpdateAttachment(r) \/ DeleteAttachment(r))
                                /\ HasAttachment(x)' => attachments'[x].entry = attachments[x].entry
         \/ \E gone \in SUBSET EntryIds :
              DeleteEntries(gone) /\ attachments'[x] = Gone /\ attachments[x].entry \in gone
<1> USE LinksAssumption
<1>1. attachments \in [AttIds -> Attachment \union {Unborn, Gone}]
  BY DEF IInv, TypeInv, TypeOK
<1>2. ASSUME NEW r \in Requests, NEW y \in AttIds, InsertAttachment(r, y)
      PROVE  FALSE
  BY <1>1, <1>2 DEF InsertAttachment, HasAttachment
<1>3. ASSUME NEW r \in Requests, UpdateAttachment(r)
      PROVE  req[r].child = x /\ (HasAttachment(x)' => attachments'[x].entry = attachments[x].entry)
  <2>1. /\ attachments' = [attachments EXCEPT ![req[r].child] =
                             PatchedAttachment(attachments[req[r].child], req[r].body)]
        /\ attachments[x] \in Attachment
    BY <1>1, <1>3 DEF UpdateAttachment, HasAttachment
  <2> QED
    BY <1>1, <2>1 DEF Attachment, PatchedAttachment
<1>4. ASSUME NEW r \in Requests, DeleteAttachment(r)
      PROVE  req[r].child = x /\ ~HasAttachment(x)'
  BY <1>1, <1>4 DEF DeleteAttachment, HasAttachment
<1>5. ASSUME NEW gone \in SUBSET EntryIds, DeleteEntries(gone)
      PROVE  attachments'[x] = Gone /\ attachments[x].entry \in gone
  BY <1>5 DEF DeleteEntries
<1>6. ASSUME NEW r \in Requests, Arrival(r) \/ GetEntry(r) \/ GetTarget(r) \/ GetRelation(r) \/ GetAttachment(r)
      PROVE  FALSE
  BY <1>6 DEF Arrival, Arrive, PostRelation, PatchRelation, DeleteRelationRequest, PostAttachment,
     PatchAttachment, DeleteAttachmentRequest, GetEntry, GetTarget, GetRelation, GetAttachment
<1>7. ASSUME NEW r \in Requests,
             (\E y \in RelIds : InsertRelation(r, y)) \/ UpdateRelation(r) \/ DeleteRelation(r)
      PROVE  FALSE
  BY <1>7 DEF InsertRelation, UpdateRelation, DeleteRelation
<1>8. CASE UNCHANGED vars
  BY <1>8 DEF vars
<1> QED
  BY <1>2, <1>3, <1>4, <1>5, <1>6, <1>7, <1>8 DEF Next, Handler, Quiet

\* An attachment keeps its entry, and only requests to that entry change it: unlike
\* that of a relation, the check made before the write cannot have become wrong.
THEOREM AttachmentsStay == Spec => AttachmentsStayWithTheirEntry
<1>1. ASSUME IInv, [Next]_vars, NEW x \in AttIds, HasAttachment(x), attachments'[x] # attachments[x]
      PROVE  /\ HasAttachment(x)' => attachments'[x].entry = attachments[x].entry
             /\ \/ \E r \in Requests : /\ req[r].pc = "write" /\ req[r].child = x
                                       /\ req[r].entry = attachments[x].entry
                \/ attachments[x].entry \notin live'
  <2>1. ASSUME NEW r \in Requests, req[r].child = x, UpdateAttachment(r) \/ DeleteAttachment(r)
        PROVE  req[r].pc = "write" /\ req[r].entry = attachments[x].entry
    <3>1. SeenOK(req[r], relations, attachments) /\ req[r].pc = "write"
          /\ req[r].op \in {"updateAttachment", "deleteAttachment"}
      BY <1>1, <2>1 DEF IInv, SeenInv, UpdateAttachment, DeleteAttachment
    <3> QED
      BY <1>1, <2>1, <3>1 DEF SeenOK, HasAttachment
  <2>2. ASSUME NEW gone \in SUBSET EntryIds, DeleteEntries(gone), attachments[x].entry \in gone
        PROVE  attachments[x].entry \notin live'
    BY <2>2 DEF DeleteEntries
  <2>3. attachments'[x] = Gone => ~HasAttachment(x)'
    BY DEF HasAttachment
  <2>4. \/ \E r \in Requests : /\ req[r].child = x /\ (UpdateAttachment(r) \/ DeleteAttachment(r))
                               /\ HasAttachment(x)' => attachments'[x].entry = attachments[x].entry
        \/ \E gone \in SUBSET EntryIds :
             DeleteEntries(gone) /\ attachments'[x] = Gone /\ attachments[x].entry \in gone
    BY <1>1, AttachmentChange
  <2>5. HasAttachment(x)' => attachments'[x].entry = attachments[x].entry
    BY <2>4 DEF HasAttachment
  <2> QED
    BY <2>1, <2>2, <2>4, <2>5
<1>2. IInv /\ [Next]_vars =>
        [\A x \in AttIds : (HasAttachment(x) /\ attachments'[x] # attachments[x]) =>
           /\ HasAttachment(x)' => attachments'[x].entry = attachments[x].entry
           /\ \/ \E r \in Requests : /\ req[r].pc = "write" /\ req[r].child = x
                                     /\ req[r].entry = attachments[x].entry
              \/ attachments[x].entry \notin live']_vars
  BY <1>1
<1> QED
  BY <1>2, InvHolds, PTL DEF Spec, AttachmentsStayWithTheirEntry
=============================================================================
