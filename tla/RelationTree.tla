---------------------------- MODULE RelationTree ----------------------------
(***************************************************************************)
(* GET /entries/{id}/relation-tree: one reader's depth-first walk over the *)
(* relations, query by query, while others write.  Each query is a         *)
(* transaction of its own, so the walk never sees one state of the graph.  *)
(* The calls of _build_tree_node are the frames of a stack.  sort_order,   *)
(* which decides the order of a frame's relations, may be anything, so the *)
(* next relation is any of those left.                                     *)
(***************************************************************************)
EXTENDS Naturals, Sequences, FiniteSets

CONSTANTS
  EntryIds, SchemaIds,
  SchemaOf,      \* [EntryIds -> SchemaIds]
  RelIds,        \* ids the relations sequence hands out (never twice)
  Root,          \* the entry the reader asks for
  InitialRows,   \* relations there may be when the request comes
  Room,          \* how many open calls of _build_tree_node Python's stack surely has room for
  MaxWrites,     \* bound: transactions of others during the request
  None,
  Unborn, Gone   \* an id not handed out yet, an id whose row was deleted

\* The rows of others: what a row alone tells the reader. Open stands for public,
\* internal or its own; of a restricted entry the grants decide; private is private.
Levels == {"open", "restricted", "private"}

Relation == [from : EntryIds, to : EntryIds]

VARIABLES
  relations,  \* [RelIds -> Relation or Unborn or Gone]
  level,      \* [EntryIds -> Levels or Gone]: the entries table
  granted,    \* SUBSET EntryIds: those with a grant that lets the reader read
  writes,     \* number of transactions of others so far
  pc,         \* the query that comes next
  at,         \* the entry it is about
  via,        \* id of the relation that led there, None for the root
  stack,      \* Seq(Frame): the calls of _build_tree_node that are open
  expanded,   \* expanded_entry_ids
  cache,      \* keys of schema_cache
  shown,      \* the nodes of the answer so far
  since       \* auxiliary: what has not changed since the request came

walker == <<pc, at, via, stack, expanded, cache, shown>>
vars == <<relations, level, granted, writes, walker, since>>

\* todo: the rows list_relations gave that the loop has not come to.
Frame == [entry : EntryIds, via : RelIds \union {None},
          todo : SUBSET [id : RelIds, from : EntryIds, to : EntryIds]]

\* A node of the answer: under which entry, by which relation, which entry, and
\* whether it is expanded there or only referred to.
Node == [parent : EntryIds \union {None}, via : RelIds \union {None}, entry : EntryIds,
         kind : {"node", "cycle", "duplicate"}]

ASSUME TreeAssumption ==
  /\ SchemaOf \in [EntryIds -> SchemaIds] /\ Root \in EntryIds
  /\ InitialRows \subseteq Relation
  /\ MaxWrites \in Nat /\ Room \in Nat \ {0}
  /\ Unborn # Gone /\ {Unborn, Gone} \intersect (Relation \union Levels) = {}
  /\ None \notin EntryIds \union RelIds

HasRelation(x) == relations[x] \notin {Unborn, Gone}
HasEntry(e) == level[e] # Gone
Open(e) == level[e] = "open"
Granted(e) == level[e] \in {"open", "restricted"} /\ e \in granted

Unchanged == [kept |-> {x \in RelIds : HasRelation(x)},
              open |-> {e \in EntryIds : Open(e)},
              granted |-> {e \in EntryIds : Granted(e)},
              private |-> {e \in EntryIds : level[e] = "private"},
              barred |-> {e \in EntryIds : ~Open(e) /\ e \notin granted},
              entries |-> {e \in EntryIds : HasEntry(e)}]

Init ==
  /\ relations \in [RelIds -> InitialRows \union {Unborn}]
  /\ level \in [EntryIds -> Levels]
  /\ granted \in SUBSET {e \in EntryIds : level[e] = "restricted"}
  /\ writes = 0
  /\ pc = "look" /\ at = Root /\ via = None
  /\ stack = <<>> /\ expanded = {} /\ cache = {} /\ shown = {}
  /\ since = Unchanged

-----------------------------------------------------------------------------
(* The walk. *)

Top == stack[Len(stack)]
Below == SubSeq(stack, 1, Len(stack) - 1)
EntryUnder(s) == IF s = <<>> THEN None ELSE s[Len(s)].entry

Ancestors == {stack[i].entry : i \in DOMAIN stack}

Fail == pc' = "failed" /\ UNCHANGED <<at, via, stack, expanded, cache, shown>>   \* 404

\* The entry may not be read: the router answers 403, the walk goes on without it.
Skip == pc' = (IF via = None THEN "refused" ELSE "next")
        /\ UNCHANGED <<at, via, stack, expanded, cache, shown>>

\* Mutant: entries expanded elsewhere are not looked for.
ReasonCycleOnly(e) == IF e \in Ancestors THEN "cycle" ELSE "none"

\* Mutant: no occurrence of an entry is a mere reference.
ReasonNever(e) == "none"

\* reference_reason of a neighbour: already above, or already in another branch.
Reason(e) ==
  IF e \in Ancestors THEN "cycle" ELSE IF e \in expanded THEN "duplicate" ELSE "none"

Enter == /\ pc' = (IF via = None THEN "root" ELSE IF Reason(at) = "none" THEN "list" ELSE "refer")
         /\ UNCHANGED <<at, via, stack, expanded, cache, shown>>

\* get_entry and, as far as the row decides it, check_access.
Look ==
  /\ pc = "look"
  /\ CASE level[at] = Gone -> Fail
       [] level[at] = "open" -> Enter
       [] level[at] = "private" -> Skip
       [] OTHER -> pc' = "grants" /\ UNCHANGED <<at, via, stack, expanded, cache, shown>>

\* Mutant: a restricted entry counts as visible.
GrantsNotAsked == pc = "grants" /\ Enter

\* list_permissions, for an entry whose row was restricted when it was read.
Grants ==
  /\ pc = "grants"
  /\ IF at \in granted THEN Enter ELSE Skip

\* get_relation_tree reads the root a second time.
ReadRoot ==
  /\ pc = "root"
  /\ IF HasEntry(at) THEN pc' = "list" /\ UNCHANGED <<at, via, stack, expanded, cache, shown>>
     ELSE Fail

\* Mutant: only relations that start at the entry.
RowsFrom(e) ==
  {[id |-> x, from |-> relations[x].from, to |-> relations[x].to] :
     x \in {y \in RelIds : HasRelation(y) /\ e = relations[y].from}}

RowsOf(e) ==
  {[id |-> x, from |-> relations[x].from, to |-> relations[x].to] :
     x \in {y \in RelIds : HasRelation(y) /\ e \in {relations[y].from, relations[y].to}}}

\* A call of _build_tree_node: list_relations at its start.
List ==
  /\ pc = "list"
  /\ \/ /\ stack' = Append(stack, [entry |-> at, via |-> via, todo |-> RowsOf(at)])
        /\ expanded' = expanded \union {at}
        /\ pc' = "next"
        /\ UNCHANGED <<at, via, cache, shown>>
     \/ Len(stack) >= Room /\ Fail   \* RecursionError: 500

Neighbor(row, e) == IF row.from = e THEN row.to ELSE row.from

\* The relation back to the parent, and any other to it, is passed over.
LeadsBack(row) == Neighbor(row, Top.entry) = EntryUnder(Below)

\* The loop over the relations of the innermost call.
NextRelation(row) ==
  /\ pc = "next"
  /\ row \in Top.todo
  /\ stack' = [stack EXCEPT ![Len(stack)].todo = @ \ {row}]
  /\ IF LeadsBack(row) THEN UNCHANGED <<pc, at, via>>
     ELSE pc' = "look" /\ at' = Neighbor(row, Top.entry) /\ via' = row.id
  /\ UNCHANGED <<expanded, cache, shown>>

EndOfLoop ==
  /\ pc = "next"
  /\ Top.todo = {}
  /\ pc' = "node" /\ at' = Top.entry /\ via' = Top.via
  /\ UNCHANGED <<stack, expanded, cache, shown>>

\* _get_schema_summary: one query per schema and request. A schema is never gone
\* while it has entries, so its entries tell whether it is there.
SchemaThere(s) == \E e \in EntryIds : SchemaOf[e] = s /\ HasEntry(e)
Summarized == SchemaOf[at] \in cache \/ SchemaThere(SchemaOf[at])

\* Mutant: the summary is stored under the entry's id.
CacheKeyOfEntry == at

CacheKey == SchemaOf[at]

\* _reference_node.
Refer ==
  /\ pc = "refer"
  /\ \/ /\ Summarized
        /\ cache' = cache \union {CacheKey}
        /\ shown' = shown \union {[parent |-> Top.entry, via |-> via, entry |-> at, kind |-> Reason(at)]}
        /\ pc' = "next"
        /\ UNCHANGED <<at, via, stack, expanded>>
     \/ ~Summarized /\ Fail

\* The end of a call: its node goes to the children of the call below.
Return ==
  /\ pc = "node"
  /\ \/ /\ Summarized
        /\ cache' = cache \union {CacheKey}
        /\ shown' = shown \union {[parent |-> EntryUnder(Below), via |-> via, entry |-> at, kind |-> "node"]}
        /\ stack' = Below
        /\ pc' = (IF Below = <<>> THEN "done" ELSE "next")
        /\ UNCHANGED <<at, via, expanded>>
     \/ ~Summarized /\ Fail

Walk ==
  /\ \/ Look \/ Grants \/ ReadRoot \/ List \/ EndOfLoop \/ Refer \/ Return
     \/ pc = "next" /\ \E row \in Top.todo : NextRelation(row)
  /\ UNCHANGED <<relations, level, granted, writes, since>>

-----------------------------------------------------------------------------
(* The others. *)

Answered == pc \in {"done", "failed", "refused"}

Write ==
  /\ ~Answered /\ pc # "next"   \* the loop has no query: a write comes before it or after
  /\ writes < MaxWrites
  /\ writes' = writes + 1
  /\ since' = [kept |-> {x \in since.kept : relations'[x] = relations[x]},
               open |-> {e \in since.open : Open(e)'},
               granted |-> {e \in since.granted : Granted(e)'},
               private |-> {e \in since.private : level'[e] = "private"},
               barred |-> {e \in since.barred : ~Open(e)' /\ e \notin granted'},
               entries |-> {e \in since.entries : HasEntry(e)'}]
  /\ UNCHANGED walker

CreateRelation(x, f, t) ==
  /\ relations[x] = Unborn
  /\ f # t /\ HasEntry(f) /\ HasEntry(t)
  /\ relations' = [relations EXCEPT ![x] = [from |-> f, to |-> t]]
  /\ UNCHANGED <<level, granted>>
  /\ Write

MoveRelation(x, t) ==
  /\ HasRelation(x)
  /\ t \notin {relations[x].from, relations[x].to} /\ HasEntry(t)
  /\ relations' = [relations EXCEPT ![x].to = t]
  /\ UNCHANGED <<level, granted>>
  /\ Write

DeleteRelation(x) ==
  /\ HasRelation(x)
  /\ relations' = [relations EXCEPT ![x] = Gone]
  /\ UNCHANGED <<level, granted>>
  /\ Write

SetLevel(e, l) ==
  /\ HasEntry(e) /\ level[e] # l
  /\ level' = [level EXCEPT ![e] = l]
  /\ UNCHANGED <<relations, granted>>
  /\ Write

Grant(e) ==
  /\ HasEntry(e) /\ e \notin granted
  /\ granted' = granted \union {e}
  /\ UNCHANGED <<relations, level>>
  /\ Write

Revoke(e) ==
  /\ e \in granted
  /\ granted' = granted \ {e}
  /\ UNCHANGED <<relations, level>>
  /\ Write

DeleteSchema(s) ==
  LET gone == {e \in EntryIds : SchemaOf[e] = s} IN
  /\ SchemaThere(s)
  /\ level' = [e \in EntryIds |-> IF e \in gone THEN Gone ELSE level[e]]
  /\ granted' = granted \ gone
  /\ relations' = [x \in RelIds |->
       IF HasRelation(x) /\ {relations[x].from, relations[x].to} \intersect gone # {}
       THEN Gone ELSE relations[x]]
  /\ Write

Others ==
  \/ \E x \in RelIds :
       \/ \E f, t \in EntryIds : CreateRelation(x, f, t)
       \/ \E t \in EntryIds : MoveRelation(x, t)
       \/ DeleteRelation(x)
  \/ \E e \in EntryIds :
       \/ \E l \in Levels : SetLevel(e, l)
       \/ Grant(e) \/ Revoke(e)
  \/ \E s \in SchemaIds : DeleteSchema(s)

\* The answer is given; the request is over.
Over == Answered /\ UNCHANGED vars

Next == Walk \/ Others \/ Over

Spec == Init /\ [][Next]_vars

-----------------------------------------------------------------------------
(* Properties *)

TypeOK ==
  /\ relations \in [RelIds -> Relation \union {Unborn, Gone}]
  /\ level \in [EntryIds -> Levels \union {Gone}]
  /\ granted \subseteq EntryIds
  /\ writes \in 0 .. MaxWrites
  /\ pc \in {"look", "grants", "root", "list", "next", "refer", "node", "done", "failed", "refused"}
  /\ at \in EntryIds /\ via \in RelIds \union {None}
  /\ stack \in Seq(Frame)
  /\ expanded \subseteq EntryIds /\ cache \subseteq SchemaIds /\ shown \subseteq Node

Expands(e) == {n \in shown : n.entry = e /\ n.kind = "node"}

\* The answer is a tree in which every entry is expanded once, and every other
\* occurrence refers to it: an entry a branch refers to, or hangs a child on, is
\* expanded in the same answer - whatever was written while it was put together.
AnswerIsATree ==
  /\ \A n, m \in shown : (n.kind = "node" /\ m.kind = "node" /\ n.entry = m.entry) => n = m
  /\ pc = "done" => \A n \in shown : /\ Expands(n.entry) # {}
                                     /\ n.parent = None => n.entry = Root
                                     /\ n.parent # None => Expands(n.parent) # {}

\* Nothing that was there all the time is missing: from the root, along relations
\* nobody touched and over entries that were open, or granted to the reader, all the
\* time, every entry is expanded and every relation shown. (To be readable all the
\* time, now open and now granted, is not enough: the check reads the row before the
\* grants, and what opens in between is restricted to it, what is revoked after that
\* not granted.)
NothingMissing ==
  pc = "done" => \A x \in since.kept :
    LET ends == {relations[x].from, relations[x].to} IN
    (/\ ends \subseteq since.open \union since.granted
     /\ \E e \in ends : Expands(e) # {})
      => /\ \A e \in ends : Expands(e) # {}
         /\ \E n \in shown : n.via = x /\ {n.parent, n.entry} = ends

\* No entry is in the answer that was private all the time, nor one that all the
\* time was not open and had no grant for the reader. (One that never was readable may
\* be: restricted when its row is read, granted after it became private.)
NothingHiddenShown ==
  \A n \in shown : n.entry \notin since.private \union since.barred

\* The request fails only if an entry vanished while it ran, or if the calls that
\* filled Python's stack are of that many different entries: no graph, however
\* cyclic, makes the walk call itself without end.
FailsOnlyByDeletion ==
  pc = "failed" =>
    \/ since.entries # EntryIds
    \/ Len(stack) >= Room /\ Cardinality(Ancestors \union {at}) > Len(stack)
=============================================================================
