-------------------------- MODULE RelationTreeProofs --------------------------
(***************************************************************************)
(* Proofs about RelationTree for any graph, any room on the stack and any  *)
(* number of writes while the tree is put together.                        *)
(***************************************************************************)
EXTENDS RelationTree, FiniteSetTheorems, SequenceTheorems, TLAPS

EntriesOf(s) == {s[i].entry : i \in DOMAIN s}
AllDifferent(s) == \A i, j \in DOMAIN s : s[i].entry = s[j].entry => i = j

\* The entries that have a node of their own.
NodeEntries == {n.entry : n \in {m \in shown : m.kind = "node"}}

\* The open calls are about different entries, the first about the root; and what
\* the locals are at each query.
StackInv ==
  /\ AllDifferent(stack)
  /\ stack # <<>> => stack[1].entry = Root
  /\ pc = "done" => stack = <<>>
  /\ pc \in {"next", "refer", "node"} => stack # <<>>
  /\ pc \in {"look", "grants", "root", "list"} =>
       /\ via = None <=> stack = <<>>
       /\ via = None => at = Root /\ expanded = {}
  /\ pc = "root" => via = None
  /\ pc = "refer" => at \in expanded
  /\ pc = "list" => at \notin expanded
  /\ pc = "node" => at = Top.entry

\* An entry in expanded_entry_ids is that of an open call or has its node, not both.
NodesInv ==
  /\ expanded = Ancestors \union NodeEntries
  /\ Ancestors \intersect NodeEntries = {}
  /\ \A n, m \in shown : (n.kind = "node" /\ m.kind = "node" /\ n.entry = m.entry) => n = m
  /\ \A n \in shown : /\ n.entry \in expanded
                      /\ n.parent = None => n.entry = Root
                      /\ n.parent # None => n.parent \in expanded

\* What since says holds still.
SinceInv ==
  /\ \A e \in since.private : level[e] = "private"
  /\ \A e \in since.barred : ~Open(e) /\ e \notin granted
  /\ since.entries \subseteq {e \in EntryIds : HasEntry(e)}

\* Only entries that passed check_access are listed, referred to or expanded.
Passed == expanded \union (IF pc \in {"root", "list", "refer"} THEN {at} ELSE {})

AccessInv ==
  /\ pc = "grants" => at \notin since.private
  /\ Passed \intersect (since.private \union since.barred) = {}

TreeInv == TypeOK /\ StackInv /\ NodesInv /\ SinceInv /\ AccessInv

-----------------------------------------------------------------------------
(* The stack. *)

LEMMA FrameEntry == \A f \in Frame : f.entry \in EntryIds /\ f.via \in RelIds \union {None}
BY DEF Frame

LEMMA Push ==
  ASSUME NEW s \in Seq(Frame), NEW f \in Frame
  PROVE  LET t == Append(s, f) IN
         /\ t \in Seq(Frame) /\ t # <<>>
         /\ t[1] = IF s = <<>> THEN f ELSE s[1]
         /\ EntriesOf(t) = EntriesOf(s) \union {f.entry}
         /\ AllDifferent(s) /\ f.entry \notin EntriesOf(s) => AllDifferent(t)
<1> DEFINE t == Append(s, f)
<1>1. /\ t \in Seq(Frame) /\ Len(t) = Len(s) + 1 /\ Len(s) \in Nat
      /\ DOMAIN t = 1 .. Len(s) + 1 /\ DOMAIN s = 1 .. Len(s)
      /\ t[Len(s) + 1] = f /\ \A i \in 1 .. Len(s) : t[i] = s[i]
      /\ s = <<>> <=> Len(s) = 0
  BY EmptySeq
<1>2. t # <<>> /\ t[1] = IF s = <<>> THEN f ELSE s[1]
  <2>1. t # <<>>
    BY <1>1, EmptySeq
  <2>2. CASE s = <<>>
    BY <1>1, <2>2
  <2>3. CASE s # <<>>
    BY <1>1, <2>3
  <2> QED
    BY <2>1, <2>2, <2>3
<1>3. EntriesOf(t) = EntriesOf(s) \union {f.entry}
  <2>1. \A i \in DOMAIN t : i = Len(s) + 1 \/ i \in 1 .. Len(s)
    BY <1>1
  <2>2. Len(s) + 1 \in DOMAIN t /\ 1 .. Len(s) \subseteq DOMAIN t
    BY <1>1
  <2> QED
    BY <1>1, <2>1, <2>2 DEF EntriesOf
<1>4. ASSUME AllDifferent(s), f.entry \notin EntriesOf(s)
      PROVE  AllDifferent(t)
  <2>1. \A i \in 1 .. Len(s) : t[i].entry \in EntriesOf(s) /\ t[i].entry = s[i].entry
    BY <1>1 DEF EntriesOf
  <2>2. \A i \in DOMAIN t : i = Len(s) + 1 \/ i \in 1 .. Len(s)
    BY <1>1
  <2> QED
    BY <1>1, <1>4, <2>1, <2>2 DEF AllDifferent
<1> QED
  BY <1>1, <1>2, <1>3, <1>4

LEMMA Pop ==
  ASSUME NEW s \in Seq(Frame), s # <<>>, AllDifferent(s)
  PROVE  LET b == SubSeq(s, 1, Len(s) - 1) IN
         /\ b \in Seq(Frame) /\ AllDifferent(b)
         /\ EntriesOf(s) = EntriesOf(b) \union {s[Len(s)].entry}
         /\ s[Len(s)].entry \notin EntriesOf(b)
         /\ s[Len(s)] \in Frame
         /\ b # <<>> => b[1] = s[1] /\ b[Len(b)] \in Frame /\ b[Len(b)].entry \in EntriesOf(b)
         /\ b = <<>> => s[1] = s[Len(s)]
<1> DEFINE n == Len(s)  b == SubSeq(s, 1, n - 1)
<1>1. n \in Nat /\ n > 0 /\ DOMAIN s = 1 .. n /\ \A i \in 1 .. n : s[i] \in Frame
  OBVIOUS
<1>2. /\ b \in Seq(Frame) /\ Len(b) = n - 1
      /\ \A i \in 1 .. (n - 1) : b[i] = s[i]
  BY <1>1, SubSeqProperties
<1> HIDE DEF b
<1>3. DOMAIN b = 1 .. (n - 1) /\ (b = <<>> <=> n = 1)
  BY <1>1, <1>2, EmptySeq
<1>4. /\ \A i \in DOMAIN s : i = n \/ i \in DOMAIN b
      /\ n \in DOMAIN s /\ n \notin DOMAIN b /\ DOMAIN b \subseteq DOMAIN s
  BY <1>1, <1>3
<1>5. EntriesOf(s) = EntriesOf(b) \union {s[n].entry}
  BY <1>2, <1>3, <1>4 DEF EntriesOf
<1>6. s[n].entry \notin EntriesOf(b) /\ AllDifferent(b)
  BY <1>2, <1>3, <1>4 DEF EntriesOf, AllDifferent
<1>7. b # <<>> => b[1] = s[1] /\ b[Len(b)] \in Frame /\ b[Len(b)].entry \in EntriesOf(b)
  <2> SUFFICES ASSUME b # <<>> PROVE b[1] = s[1] /\ b[Len(b)] \in Frame /\ b[Len(b)].entry \in EntriesOf(b)
    OBVIOUS
  <2>1. 1 \in 1 .. (n - 1) /\ Len(b) \in DOMAIN b
    BY <1>1, <1>2, <1>3
  <2> QED
    BY <1>1, <1>2, <1>3, <2>1 DEF EntriesOf
<1>8. b = <<>> => s[1] = s[n]
  BY <1>3
<1> QED
  BY <1>1, <1>2, <1>5, <1>6, <1>7, <1>8 DEF b

LEMMA TodoStep ==
  ASSUME NEW s \in Seq(Frame), s # <<>>, NEW row
  PROVE  LET t == [s EXCEPT ![Len(s)].todo = @ \ {row}] IN
         /\ t \in Seq(Frame) /\ t # <<>> /\ Len(t) = Len(s)
         /\ EntriesOf(t) = EntriesOf(s)
         /\ AllDifferent(s) => AllDifferent(t)
         /\ \A i \in DOMAIN s : t[i].entry = s[i].entry /\ t[i].via = s[i].via
<1> DEFINE n == Len(s)  f == [s[n] EXCEPT !.todo = @ \ {row}]  t == [s EXCEPT ![n] = f]
<1>1. n \in Nat /\ n \in 1 .. n /\ DOMAIN s = 1 .. n /\ \A i \in 1 .. n : s[i] \in Frame
  OBVIOUS
<1>2. f \in Frame /\ f.entry = s[n].entry /\ f.via = s[n].via
  BY <1>1 DEF Frame
<1>3. t \in Seq(Frame) /\ DOMAIN t = DOMAIN s /\ Len(t) = n /\ t # <<>>
  BY <1>1, <1>2
<1>4. \A i \in DOMAIN s : t[i].entry = s[i].entry /\ t[i].via = s[i].via
  BY <1>1, <1>2
<1>5. EntriesOf(t) = EntriesOf(s) /\ (AllDifferent(s) => AllDifferent(t))
  BY <1>3, <1>4 DEF EntriesOf, AllDifferent
<1> QED
  BY <1>3, <1>4, <1>5

-----------------------------------------------------------------------------
(* The writes of others. *)

LEMMA WriteStep ==
  ASSUME TreeInv, Write, relations' \in [RelIds -> Relation \union {Unborn, Gone}],
         level' \in [EntryIds -> Levels \union {Gone}], granted' \subseteq EntryIds
  PROVE  TreeInv'
<1>1. /\ UNCHANGED walker
      /\ writes' \in 0 .. MaxWrites
      /\ since'.private = {e \in since.private : level'[e] = "private"}
      /\ since'.barred = {e \in since.barred : ~Open(e)' /\ e \notin granted'}
      /\ since'.entries = {e \in since.entries : HasEntry(e)'}
  BY TreeAssumption DEF Write, TreeInv, TypeOK
<1>2. /\ since'.private \subseteq since.private /\ since'.barred \subseteq since.barred
      /\ since'.entries \subseteq since.entries
  BY <1>1
<1>3. TypeOK'
  BY <1>1 DEF TreeInv, TypeOK, walker
<1>4. StackInv'
  BY <1>1 DEF TreeInv, StackInv, walker, Top
<1>5. NodesInv'
  <2>1. Ancestors' = Ancestors /\ NodeEntries' = NodeEntries /\ shown' = shown /\ expanded' = expanded
    BY <1>1 DEF walker, Ancestors, NodeEntries
  <2> QED
    BY <2>1 DEF TreeInv, NodesInv
<1>6. SinceInv'
  BY <1>1, <1>2 DEF TreeInv, SinceInv
<1>7. AccessInv'
  BY <1>1, <1>2 DEF TreeInv, AccessInv, Passed, walker
<1> QED
  BY <1>3, <1>4, <1>5, <1>6, <1>7 DEF TreeInv

LEMMA OthersStep == TreeInv /\ Others => TreeInv'
<1> SUFFICES ASSUME TreeInv, Others PROVE TreeInv'
  OBVIOUS
<1>1. TypeOK
  BY DEF TreeInv
<1>2. ASSUME NEW x \in RelIds, NEW f \in EntryIds, NEW t \in EntryIds, CreateRelation(x, f, t)
      PROVE  TreeInv'
  BY <1>1, <1>2, WriteStep DEF CreateRelation, TypeOK, Relation
<1>3. ASSUME NEW x \in RelIds, NEW t \in EntryIds, MoveRelation(x, t)
      PROVE  TreeInv'
  <2>1. relations[x] \in Relation
    BY <1>1, <1>3 DEF MoveRelation, HasRelation, TypeOK
  <2>2. [relations[x] EXCEPT !.to = t] \in Relation
    BY <2>1 DEF Relation
  <2>3. relations' = [relations EXCEPT ![x] = [relations[x] EXCEPT !.to = t]]
    BY <1>3 DEF MoveRelation
  <2> QED
    BY <1>1, <1>3, <2>2, <2>3, WriteStep DEF MoveRelation, TypeOK
<1>4. ASSUME NEW x \in RelIds, DeleteRelation(x)
      PROVE  TreeInv'
  BY <1>1, <1>4, WriteStep DEF DeleteRelation, TypeOK
<1>5. ASSUME NEW e \in EntryIds, NEW l \in Levels, SetLevel(e, l)
      PROVE  TreeInv'
  BY <1>1, <1>5, WriteStep DEF SetLevel, TypeOK
<1>6. ASSUME NEW e \in EntryIds, Grant(e) \/ Revoke(e)
      PROVE  TreeInv'
  BY <1>1, <1>6, WriteStep DEF Grant, Revoke, TypeOK
<1>7. ASSUME NEW s \in SchemaIds, DeleteSchema(s)
      PROVE  TreeInv'
  BY <1>1, <1>7, WriteStep DEF DeleteSchema, TypeOK
<1> QED
  BY <1>2, <1>3, <1>4, <1>5, <1>6, <1>7 DEF Others

-----------------------------------------------------------------------------
(* The walk: queries that only decide what comes next. *)

Pcs == {"look", "grants", "root", "list", "next", "refer", "node", "done", "failed", "refused"}
Tables == <<relations, level, granted, writes, since>>
Locals == <<at, via, stack, expanded, cache, shown>>

LEMMA PcStep ==
  ASSUME TreeInv, UNCHANGED Tables, UNCHANGED Locals, pc' \in Pcs
  PROVE  TypeOK' /\ NodesInv' /\ SinceInv'
<1>1. TypeOK'
  BY DEF TreeInv, TypeOK, Tables, Locals, Pcs
<1>2. NodesInv'
  BY DEF TreeInv, NodesInv, Locals, Ancestors, NodeEntries
<1>3. SinceInv'
  BY DEF TreeInv, SinceInv, Tables, Open, HasEntry
<1> QED
  BY <1>1, <1>2, <1>3

\* The entry may be read: nothing that hides it has held all the time.
LEMMA EnterStep ==
  ASSUME TreeInv, UNCHANGED Tables, Enter, pc \in {"look", "grants"},
         at \notin since.private \union since.barred
  PROVE  TreeInv'
<1>1. /\ UNCHANGED Locals
      /\ pc' = IF via = None THEN "root" ELSE IF Reason(at) = "none" THEN "list" ELSE "refer"
  BY DEF Enter, Locals
<1>2. Ancestors \subseteq expanded
  BY DEF TreeInv, NodesInv
<1>3. (Reason(at) = "none" => at \notin expanded) /\ (Reason(at) # "none" => at \in expanded)
  BY <1>2 DEF Reason
<1>4. StackInv'
  BY <1>1, <1>3 DEF TreeInv, StackInv, Locals
<1>5. AccessInv'
  BY <1>1 DEF TreeInv, AccessInv, Passed, Locals, Tables
<1> QED
  BY <1>1, <1>4, <1>5, PcStep DEF TreeInv, Pcs

LEMMA SkipStep ==
  ASSUME TreeInv, UNCHANGED Tables, Skip, pc \in {"look", "grants"}
  PROVE  TreeInv'
<1>1. UNCHANGED Locals /\ pc' = IF via = None THEN "refused" ELSE "next"
  BY DEF Skip, Locals
<1>2. StackInv'
  BY <1>1 DEF TreeInv, StackInv, Locals
<1>3. AccessInv'
  BY <1>1 DEF TreeInv, AccessInv, Passed, Locals, Tables
<1> QED
  BY <1>1, <1>2, <1>3, PcStep DEF TreeInv, Pcs

LEMMA FailStep ==
  ASSUME TreeInv, UNCHANGED Tables, Fail
  PROVE  TreeInv'
<1>1. UNCHANGED Locals /\ pc' = "failed"
  BY DEF Fail, Locals
<1>2. StackInv'
  BY <1>1 DEF TreeInv, StackInv, Locals
<1>3. AccessInv'
  BY <1>1 DEF TreeInv, AccessInv, Passed, Locals, Tables
<1> QED
  BY <1>1, <1>2, <1>3, PcStep DEF TreeInv, Pcs

LEMMA LookStep ==
  ASSUME TreeInv, UNCHANGED Tables, Look \/ Grants \/ ReadRoot
  PROVE  TreeInv'
<1>1. at \in EntryIds /\ level[at] \in Levels \union {Gone} /\ Gone \notin Levels
  BY TreeAssumption DEF TreeInv, TypeOK
<1>2. CASE Look
  <2>1. CASE level[at] = Gone
    BY <1>1, <1>2, <2>1, FailStep DEF Look, Levels
  <2>2. CASE level[at] = "open"
    <3>1. at \notin since.private \union since.barred
      BY <2>2 DEF TreeInv, SinceInv, Open
    <3> QED
      BY <1>1, <1>2, <2>2, <3>1, EnterStep DEF Look, Levels
  <2>3. CASE level[at] = "private"
    BY <1>1, <1>2, <2>3, SkipStep DEF Look, Levels
  <2>4. CASE level[at] = "restricted"
    <3>1. pc' = "grants" /\ UNCHANGED Locals /\ pc = "look"
      BY <1>1, <1>2, <2>4 DEF Look, Levels, Locals
    <3>2. at \notin since.private
      BY <2>4 DEF TreeInv, SinceInv
    <3>3. StackInv' /\ AccessInv'
      BY <3>1, <3>2 DEF TreeInv, StackInv, AccessInv, Passed, Locals, Tables
    <3> QED
      BY <3>1, <3>3, PcStep DEF TreeInv, Pcs
  <2> QED
    BY <1>1, <2>1, <2>2, <2>3, <2>4 DEF Levels
<1>3. CASE Grants
  <2>1. at \in granted => at \notin since.private \union since.barred
    BY <1>3 DEF Grants, TreeInv, SinceInv, AccessInv
  <2> QED
    BY <1>3, <2>1, EnterStep, SkipStep DEF Grants
<1>4. CASE ReadRoot
  <2>1. CASE HasEntry(at)
    <3>1. pc' = "list" /\ UNCHANGED Locals /\ pc = "root"
      BY <1>4, <2>1 DEF ReadRoot, Locals
    <3>2. StackInv' /\ AccessInv'
      BY <3>1 DEF TreeInv, StackInv, AccessInv, Passed, Locals, Tables
    <3> QED
      BY <3>1, <3>2, PcStep DEF TreeInv, Pcs
  <2>2. CASE ~HasEntry(at)
    BY <1>4, <2>2, FailStep DEF ReadRoot
  <2> QED
    BY <2>1, <2>2
<1> QED
  BY <1>2, <1>3, <1>4

-----------------------------------------------------------------------------
(* The walk: calls, the loop over relations, and nodes. *)

\* Ancestors are the entries of the stack, and so is Top its last frame.
LEMMA AncestorsAre == Ancestors = EntriesOf(stack)
BY DEF Ancestors, EntriesOf

LEMMA TopIs ==
  ASSUME TreeInv, stack # <<>>
  PROVE  Top \in Frame /\ Top.entry \in Ancestors /\ Top.entry # None
<1>1. stack \in Seq(Frame) /\ AllDifferent(stack)
  BY DEF TreeInv, TypeOK, StackInv
<1>2. Top \in Frame /\ Top.entry \in Ancestors
  BY <1>1, Pop, AncestorsAre DEF Top
<1> QED
  BY <1>2, FrameEntry, TreeAssumption

LEMMA ListStep ==
  ASSUME TreeInv, UNCHANGED Tables, List
  PROVE  TreeInv'
<1>1. SUFFICES ASSUME ~Fail PROVE TreeInv'
  BY FailStep
<1> DEFINE f == [entry |-> at, via |-> via, todo |-> RowsOf(at)]
<1>2. /\ pc = "list" /\ pc' = "next" /\ stack' = Append(stack, f)
      /\ expanded' = expanded \union {at} /\ UNCHANGED <<at, via, cache, shown>>
  BY <1>1 DEF List
<1>3. RowsOf(at) \subseteq [id : RelIds, from : EntryIds, to : EntryIds]
  BY DEF TreeInv, TypeOK, RowsOf, HasRelation, Relation
<1>4. f \in Frame /\ f.entry = at /\ stack \in Seq(Frame) /\ AllDifferent(stack)
  BY <1>3 DEF Frame, TreeInv, TypeOK, StackInv
<1>5. at \notin expanded /\ Ancestors \subseteq expanded /\ NodeEntries \subseteq expanded
  BY <1>2 DEF TreeInv, StackInv, NodesInv
<1>6. /\ stack' \in Seq(Frame) /\ stack' # <<>> /\ AllDifferent(stack')
      /\ stack'[1] = IF stack = <<>> THEN f ELSE stack[1]
      /\ Ancestors' = Ancestors \union {at}
  <2> HIDE DEF f
  <2> QED
    BY <1>2, <1>4, <1>5, Push, AncestorsAre DEF Ancestors, EntriesOf
<1>7. stack'[1].entry = Root
  BY <1>2, <1>4, <1>6 DEF TreeInv, StackInv
<1>8. TypeOK'
  BY <1>2, <1>6 DEF TreeInv, TypeOK, Tables
<1>9. StackInv'
  BY <1>2, <1>6, <1>7 DEF StackInv
<1>10. NodesInv'
  <2>1. NodeEntries' = NodeEntries
    BY <1>2 DEF NodeEntries
  <2> QED
    BY <1>2, <1>5, <1>6, <2>1 DEF TreeInv, NodesInv
<1>11. SinceInv' /\ AccessInv'
  BY <1>2 DEF TreeInv, SinceInv, AccessInv, Passed, Tables, Open, HasEntry
<1> QED
  BY <1>8, <1>9, <1>10, <1>11 DEF TreeInv

LEMMA LoopStep ==
  ASSUME TreeInv, UNCHANGED Tables, NEW row, NextRelation(row)
  PROVE  TreeInv'
<1>1. /\ pc = "next" /\ row \in Top.todo /\ UNCHANGED <<expanded, cache, shown>>
      /\ stack' = [stack EXCEPT ![Len(stack)].todo = @ \ {row}]
      /\ \/ UNCHANGED <<pc, at, via>>
         \/ pc' = "look" /\ at' = Neighbor(row, Top.entry) /\ via' = row.id
  BY DEF NextRelation
<1>2. stack \in Seq(Frame) /\ stack # <<>> /\ AllDifferent(stack)
  BY <1>1 DEF TreeInv, TypeOK, StackInv
<1>3. row.id \in RelIds /\ row.id # None /\ Neighbor(row, Top.entry) \in EntryIds
  BY <1>1, <1>2, TopIs, TreeAssumption DEF Frame, Neighbor
<1>4. /\ stack' \in Seq(Frame) /\ stack' # <<>> /\ AllDifferent(stack')
      /\ Ancestors' = Ancestors /\ 1 \in DOMAIN stack /\ stack'[1].entry = stack[1].entry
  <2>1. 1 \in DOMAIN stack
    BY <1>2, EmptySeq, LenProperties
  <2>2. /\ stack' \in Seq(Frame) /\ stack' # <<>> /\ AllDifferent(stack')
        /\ EntriesOf(stack') = EntriesOf(stack)
        /\ \A i \in DOMAIN stack : stack'[i].entry = stack[i].entry
    BY <1>1, <1>2, TodoStep
  <2>3. Ancestors' = EntriesOf(stack')
    BY DEF Ancestors, EntriesOf
  <2> QED
    BY <2>1, <2>2, <2>3, AncestorsAre
<1>5. TypeOK'
  BY <1>1, <1>3, <1>4 DEF TreeInv, TypeOK, Tables
<1>6. StackInv'
  BY <1>1, <1>2, <1>3, <1>4 DEF TreeInv, StackInv
<1>7. NodesInv'
  <2>1. NodeEntries' = NodeEntries
    BY <1>1 DEF NodeEntries
  <2> QED
    BY <1>1, <1>4, <2>1 DEF TreeInv, NodesInv
<1>8. SinceInv' /\ AccessInv'
  BY <1>1 DEF TreeInv, SinceInv, AccessInv, Passed, Tables, Open, HasEntry
<1> QED
  BY <1>5, <1>6, <1>7, <1>8 DEF TreeInv

LEMMA EndStep ==
  ASSUME TreeInv, UNCHANGED Tables, EndOfLoop
  PROVE  TreeInv'
<1>1. /\ pc = "next" /\ pc' = "node" /\ at' = Top.entry /\ via' = Top.via
      /\ UNCHANGED <<stack, expanded, cache, shown>>
  BY DEF EndOfLoop
<1>2. Top.entry \in EntryIds /\ Top.via \in RelIds \union {None} /\ Top' = Top
  BY <1>1, TopIs, FrameEntry DEF TreeInv, StackInv, Top
<1>3. TypeOK'
  BY <1>1, <1>2 DEF TreeInv, TypeOK, Tables
<1>4. StackInv'
  BY <1>1, <1>2 DEF TreeInv, StackInv
<1>5. NodesInv'
  <2>1. NodeEntries' = NodeEntries /\ Ancestors' = Ancestors
    BY <1>1 DEF NodeEntries, Ancestors
  <2> QED
    BY <1>1, <2>1 DEF TreeInv, NodesInv
<1>6. SinceInv' /\ AccessInv'
  BY <1>1 DEF TreeInv, SinceInv, AccessInv, Passed, Tables, Open, HasEntry
<1> QED
  BY <1>3, <1>4, <1>5, <1>6 DEF TreeInv

\* A schema that has no summary has no entries left.
LEMMA SummaryMissing ==
  ASSUME TreeInv, ~Summarized
  PROVE  ~HasEntry(at)
BY DEF TreeInv, TypeOK, Summarized, SchemaThere

LEMMA CacheType ==
  ASSUME TreeInv, cache' = cache \union {CacheKey}
  PROVE  cache' \subseteq SchemaIds
BY TreeAssumption DEF TreeInv, TypeOK, CacheKey

LEMMA ReferStep ==
  ASSUME TreeInv, UNCHANGED Tables, Refer
  PROVE  TreeInv'
<1>1. SUFFICES ASSUME ~Fail PROVE TreeInv'
  BY FailStep
<1> DEFINE n0 == [parent |-> Top.entry, via |-> via, entry |-> at, kind |-> Reason(at)]
<1>2. /\ pc = "refer" /\ pc' = "next" /\ UNCHANGED <<at, via, stack, expanded>>
      /\ cache' = cache \union {CacheKey} /\ shown' = shown \union {n0}
  BY <1>1 DEF Refer
<1>3. /\ at \in expanded /\ stack # <<>> /\ at \in EntryIds /\ via \in RelIds \union {None}
      /\ Top.entry \in Ancestors /\ Top.entry \in EntryIds /\ Top.entry # None
      /\ Ancestors \subseteq expanded
  BY <1>2, TopIs, FrameEntry DEF TreeInv, TypeOK, StackInv, NodesInv
<1>4. Reason(at) \in {"cycle", "duplicate"}
  BY <1>3 DEF Reason
<1>5. n0 \in Node /\ n0.kind # "node" /\ n0.entry \in expanded /\ n0.parent \in expanded /\ n0.parent # None
  BY <1>3, <1>4 DEF Node
<1> HIDE DEF n0
<1>6. TypeOK'
  BY <1>2, <1>5, CacheType DEF TreeInv, TypeOK, Tables
<1>7. StackInv'
  BY <1>2, <1>3 DEF TreeInv, StackInv
<1>8. NodesInv'
  <2>1. NodeEntries' = NodeEntries /\ Ancestors' = Ancestors
    BY <1>2, <1>5 DEF NodeEntries, Ancestors
  <2> QED
    BY <1>2, <1>5, <2>1 DEF TreeInv, NodesInv
<1>9. SinceInv' /\ AccessInv'
  BY <1>2 DEF TreeInv, SinceInv, AccessInv, Passed, Tables, Open, HasEntry
<1> QED
  BY <1>6, <1>7, <1>8, <1>9 DEF TreeInv

LEMMA ReturnStep ==
  ASSUME TreeInv, UNCHANGED Tables, Return
  PROVE  TreeInv'
<1>1. SUFFICES ASSUME ~Fail PROVE TreeInv'
  BY FailStep
<1> DEFINE n0 == [parent |-> EntryUnder(Below), via |-> via, entry |-> at, kind |-> "node"]
<1>2. /\ pc = "node" /\ pc' = IF Below = <<>> THEN "done" ELSE "next"
      /\ UNCHANGED <<at, via, expanded>> /\ stack' = Below
      /\ cache' = cache \union {CacheKey} /\ shown' = shown \union {n0}
  BY <1>1 DEF Return
<1>3. /\ stack \in Seq(Frame) /\ stack # <<>> /\ AllDifferent(stack) /\ at = Top.entry
      /\ stack[1].entry = Root /\ at \in EntryIds /\ via \in RelIds \union {None}
  BY <1>2 DEF TreeInv, TypeOK, StackInv
<1>4. /\ Below \in Seq(Frame) /\ AllDifferent(Below)
      /\ Ancestors = EntriesOf(Below) \union {at} /\ at \notin EntriesOf(Below)
      /\ Below # <<>> => /\ Below[1].entry = Root
                         /\ EntryUnder(Below) \in EntriesOf(Below) /\ EntryUnder(Below) \in EntryIds
      /\ Below = <<>> => at = Root /\ EntryUnder(Below) = None
  <2>1. /\ Below \in Seq(Frame) /\ AllDifferent(Below)
        /\ EntriesOf(stack) = EntriesOf(Below) \union {at} /\ at \notin EntriesOf(Below)
        /\ Below # <<>> => /\ Below[1] = stack[1] /\ Below[Len(Below)] \in Frame
                           /\ Below[Len(Below)].entry \in EntriesOf(Below)
        /\ Below = <<>> => stack[1] = Top
    BY <1>3, Pop DEF Below, Top
  <2> QED
    BY <1>3, <2>1, AncestorsAre, FrameEntry DEF EntryUnder
<1>5. Ancestors' = EntriesOf(Below)
  BY <1>2 DEF Ancestors, EntriesOf
<1>6. /\ n0 \in Node /\ n0.kind = "node" /\ n0.entry = at
      /\ n0.parent = None => at = Root
      /\ n0.parent # None => n0.parent \in Ancestors
  BY <1>3, <1>4, TreeAssumption DEF Node
<1> HIDE DEF n0
<1>7. TypeOK'
  BY <1>2, <1>4, <1>6, CacheType DEF TreeInv, TypeOK, Tables
<1>8. StackInv'
  BY <1>2, <1>4 DEF TreeInv, StackInv
<1>9. NodesInv'
  <2>1. NodeEntries' = NodeEntries \union {at}
    BY <1>2, <1>6 DEF NodeEntries
  <2>2. \A n \in shown : n.kind = "node" => n.entry # at
    BY <1>4 DEF TreeInv, NodesInv, NodeEntries
  <2> QED
    BY <1>2, <1>4, <1>5, <1>6, <2>1, <2>2 DEF TreeInv, NodesInv
<1>10. SinceInv' /\ AccessInv'
  BY <1>2 DEF TreeInv, SinceInv, AccessInv, Passed, Tables, Open, HasEntry
<1> QED
  BY <1>7, <1>8, <1>9, <1>10 DEF TreeInv

-----------------------------------------------------------------------------

LEMMA TreeInit == Init => TreeInv
<1> SUFFICES ASSUME Init PROVE TreeInv
  OBVIOUS
<1>1. /\ stack = <<>> /\ expanded = {} /\ shown = {} /\ cache = {}
      /\ pc = "look" /\ at = Root /\ via = None
  BY DEF Init
<1>2. DOMAIN stack = {} /\ stack \in Seq(Frame)
  BY <1>1, EmptySeq
<1>3. TypeOK
  BY <1>1, <1>2, TreeAssumption DEF Init, TypeOK, Levels
<1>4. StackInv
  BY <1>1, <1>2 DEF StackInv, AllDifferent
<1>5. NodesInv
  BY <1>1, <1>2 DEF NodesInv, Ancestors, NodeEntries
<1>6. SinceInv /\ AccessInv
  BY <1>1 DEF Init, Unchanged, SinceInv, AccessInv, Passed
<1> QED
  BY <1>3, <1>4, <1>5, <1>6 DEF TreeInv

LEMMA WalkStep == TreeInv /\ Walk => TreeInv'
<1> SUFFICES ASSUME TreeInv, Walk PROVE TreeInv'
  OBVIOUS
<1>1. UNCHANGED Tables
  BY DEF Walk, Tables
<1> QED
  BY <1>1, LookStep, ListStep, LoopStep, EndStep, ReferStep, ReturnStep DEF Walk

LEMMA TreeStep == TreeInv /\ [Next]_vars => TreeInv'
<1> SUFFICES ASSUME TreeInv, [Next]_vars PROVE TreeInv'
  OBVIOUS
<1>1. CASE UNCHANGED vars
  <2>1. UNCHANGED Tables /\ UNCHANGED Locals /\ pc' = pc /\ pc \in Pcs
    BY <1>1 DEF vars, walker, Tables, Locals, TreeInv, TypeOK, Pcs
  <2>2. StackInv' /\ AccessInv'
    BY <2>1 DEF TreeInv, StackInv, AccessInv, Passed, Locals, Tables, Top
  <2> QED
    BY <2>1, <2>2, PcStep DEF TreeInv
<1> QED
  BY <1>1, WalkStep, OthersStep DEF Next, Over

LEMMA TreeHolds == Spec => []TreeInv
BY TreeInit, TreeStep, PTL DEF Spec

\* The walk and the tables stay what the code takes them for, whatever is written
\* between two queries.
THEOREM TypeCorrect == Spec => []TypeOK
BY TreeHolds, PTL DEF TreeInv

\* For any graph and any writes, the answer is a tree that expands every entry in it
\* once: expanded_entry_ids is shared by all branches, and what a branch refers to is
\* expanded by the time the answer is given.
THEOREM AlwaysATree == Spec => []AnswerIsATree
<1>1. TreeInv => AnswerIsATree
  <2> SUFFICES ASSUME TreeInv PROVE AnswerIsATree
    OBVIOUS
  <2>1. \A n, m \in shown : (n.kind = "node" /\ m.kind = "node" /\ n.entry = m.entry) => n = m
    BY DEF TreeInv, NodesInv
  <2>2. ASSUME pc = "done", NEW n \in shown
        PROVE  /\ Expands(n.entry) # {}
               /\ n.parent = None => n.entry = Root
               /\ n.parent # None => Expands(n.parent) # {}
    <3>1. Ancestors = {}
      BY <2>2 DEF TreeInv, StackInv, Ancestors
    <3>2. \A e \in expanded : Expands(e) # {}
      BY <3>1 DEF TreeInv, NodesInv, NodeEntries, Expands
    <3> QED
      BY <2>2, <3>2 DEF TreeInv, NodesInv
  <2> QED
    BY <2>1, <2>2 DEF AnswerIsATree
<1> QED
  BY <1>1, TreeHolds, PTL

\* Whatever is hidden from the reader all the time, for one reason, is not shown.
THEOREM HiddenStaysHidden == Spec => []NothingHiddenShown
<1>1. TreeInv => NothingHiddenShown
  BY DEF TreeInv, NodesInv, AccessInv, Passed, NothingHiddenShown
<1> QED
  BY <1>1, TreeHolds, PTL

-----------------------------------------------------------------------------
(* Failure. *)

\* Different entries are as many as the frames they are in.
LEMMA DifferentCount ==
  ASSUME NEW s \in Seq(Frame), AllDifferent(s)
  PROVE  IsFiniteSet(EntriesOf(s)) /\ Cardinality(EntriesOf(s)) = Len(s)
<1> DEFINE n == Len(s)  f == [i \in 1 .. n |-> s[i].entry]
<1>1. n \in Nat /\ DOMAIN s = 1 .. n
  BY LenProperties
<1>2. f \in Bijection(1 .. n, EntriesOf(s))
  BY <1>1 DEF AllDifferent, EntriesOf, Bijection, Injection, Surjection, IsInjective
<1>3. ExistsBijection(1 .. n, EntriesOf(s))
  BY <1>2 DEF ExistsBijection
<1> QED
  BY <1>1, <1>3, FS_CountingElements, FS_Bijection, FS_Interval

FailInv == TreeInv /\ FailsOnlyByDeletion

LEMMA WalkFails == TreeInv /\ Walk => FailsOnlyByDeletion'
<1> SUFFICES ASSUME TreeInv, Walk, pc' = "failed"
             PROVE  \/ since'.entries # EntryIds
                    \/ Len(stack') >= Room /\ Cardinality(Ancestors' \union {at'}) > Len(stack')
  BY DEF FailsOnlyByDeletion
<1>1. UNCHANGED Tables /\ at \in EntryIds
  BY DEF Walk, Tables, TreeInv, TypeOK
<1>2. ~HasEntry(at) => since'.entries # EntryIds
  BY <1>1 DEF TreeInv, SinceInv, Tables
<1>3. CASE Look \/ Grants \/ ReadRoot
  BY <1>2, <1>3 DEF Look, Grants, ReadRoot, Enter, Skip, HasEntry
<1>4. CASE List
  <2>1. pc = "list" /\ Len(stack) >= Room /\ UNCHANGED <<at, stack>>
    BY <1>4 DEF List, Fail
  <2>2. stack \in Seq(Frame) /\ AllDifferent(stack) /\ at \notin Ancestors
    BY <2>1 DEF TreeInv, TypeOK, StackInv, NodesInv
  <2>3. IsFiniteSet(Ancestors) /\ Cardinality(Ancestors) = Len(stack) /\ Len(stack) \in Nat
    BY <2>2, DifferentCount, AncestorsAre, LenProperties
  <2>4. Cardinality(Ancestors \union {at}) > Len(stack)
    <3>1. Cardinality(Ancestors \union {at}) = Cardinality(Ancestors) + 1
      BY <2>2, <2>3, FS_AddElement
    <3> QED
      BY <2>3, <3>1
  <2> QED
    BY <2>1, <2>4 DEF Ancestors
<1>5. CASE EndOfLoop \/ Refer \/ Return
  BY <1>2, <1>5, SummaryMissing DEF EndOfLoop, Refer, Return
<1>6. CASE pc = "next" /\ \E row \in Top.todo : NextRelation(row)
  BY <1>6 DEF NextRelation
<1> QED
  BY <1>3, <1>4, <1>5, <1>6 DEF Walk

\* The walk ends for want of an entry, or on a path of as many different entries as
\* Python's stack has room for calls: cycles alone never exhaust it.
THEOREM FailureIsDeletion == Spec => []FailsOnlyByDeletion
<1>1. Init => FailInv
  BY TreeInit DEF FailInv, FailsOnlyByDeletion, Init
<1>2. FailInv /\ [Next]_vars => FailInv'
  <2> SUFFICES ASSUME FailInv, [Next]_vars PROVE FailInv'
    OBVIOUS
  <2>1. CASE Walk
    BY <2>1, WalkFails, TreeStep DEF FailInv
  <2>2. CASE Others
    <3>1. pc # "failed" /\ pc' = pc
      BY <2>2 DEF Others, CreateRelation, MoveRelation, DeleteRelation, SetLevel, Grant, Revoke,
        DeleteSchema, Write, Answered, walker
    <3> QED
      BY <3>1, TreeStep DEF FailInv, FailsOnlyByDeletion
  <2>3. CASE UNCHANGED vars
    <3>1. FailsOnlyByDeletion'
      BY <2>3 DEF FailInv, FailsOnlyByDeletion, vars, walker, Ancestors
    <3> QED
      BY <3>1, TreeStep DEF FailInv
  <2> QED
    BY <2>1, <2>2, <2>3 DEF Next, Over
<1> QED
  BY <1>1, <1>2, PTL DEF Spec, FailInv

-----------------------------------------------------------------------------
(* Completeness: a relation nobody touched is accounted for as soon as one of  *)
(* its ends is expanded.                                                       *)

RowOf(x) == [id |-> x, from |-> relations[x].from, to |-> relations[x].to]
Ends(x) == {relations[x].from, relations[x].to}
EntryBefore(s, i) == IF i = 1 THEN None ELSE s[i - 1].entry

\* The loop of an open call will come to it, and not pass it over.
ToVisit(x) ==
  \E i \in DOMAIN stack :
    /\ RowOf(x) \in stack[i].todo
    /\ stack[i].entry \in Ends(x)
    /\ Neighbor(RowOf(x), stack[i].entry) # EntryBefore(stack, i)

\* The innermost loop has come to it.
Visiting(x) ==
  /\ pc \in {"look", "grants", "list", "refer"} /\ via = x
  /\ stack # <<>> /\ {Top.entry, at} = Ends(x)

\* It has led from one open call to the next.
Entered(x) ==
  \E i \in DOMAIN stack :
    i > 1 /\ stack[i].via = x /\ {stack[i - 1].entry, stack[i].entry} = Ends(x)

Shown(x) == \E n \in shown : n.via = x /\ {n.parent, n.entry} = Ends(x)

Steady(x) == x \in since.kept /\ Ends(x) \subseteq since.open \union since.granted

Covered(x) == ToVisit(x) \/ Visiting(x) \/ Entered(x) \/ Shown(x)

CoverInv ==
  pc # "failed" => \A x \in since.kept : (Steady(x) /\ Ends(x) \intersect expanded # {}) => Covered(x)

\* What since says of relations and readable entries holds still, and more of the locals.
MoreInv ==
  /\ \A x \in since.kept : x \in RelIds /\ HasRelation(x)
  /\ \A e \in since.open : Open(e)
  /\ \A e \in since.granted : Granted(e)
  /\ pc = "grants" => at \notin since.open
  /\ pc = "node" => Top.todo = {} /\ via = Top.via

FullInv == TreeInv /\ MoreInv /\ CoverInv

LEMMA PushAt ==
  ASSUME NEW s \in Seq(Frame), NEW f \in Frame, NEW t, t = Append(s, f)
  PROVE  /\ \A i \in DOMAIN s : i \in DOMAIN t /\ t[i] = s[i] /\ EntryBefore(t, i) = EntryBefore(s, i)
         /\ \A i \in DOMAIN s : i > 1 => t[i - 1] = s[i - 1]
         /\ Len(s) + 1 \in DOMAIN t /\ t[Len(s) + 1] = f
         /\ EntryBefore(t, Len(s) + 1) = IF s = <<>> THEN None ELSE s[Len(s)].entry
         /\ s # <<>> => Len(s) + 1 > 1 /\ t[Len(s) + 1 - 1] = s[Len(s)]
<1>1. /\ Len(s) \in Nat /\ DOMAIN s = 1 .. Len(s) /\ DOMAIN t = 1 .. Len(s) + 1
      /\ t[Len(s) + 1] = f /\ \A i \in 1 .. Len(s) : t[i] = s[i]
      /\ s = <<>> <=> Len(s) = 0
  BY EmptySeq
<1>2. \A i \in DOMAIN s : i \in DOMAIN t /\ t[i] = s[i] /\ (i > 1 => t[i - 1] = s[i - 1])
  BY <1>1
<1>3. \A i \in DOMAIN s : i = 1 \/ i > 1
  BY <1>1
<1>4. \A i \in DOMAIN s : EntryBefore(t, i) = EntryBefore(s, i)
  BY <1>2, <1>3 DEF EntryBefore
<1>5. CASE s = <<>>
  BY <1>1, <1>2, <1>4, <1>5 DEF EntryBefore
<1>6. CASE s # <<>>
  <2>1. Len(s) + 1 > 1 /\ Len(s) + 1 # 1 /\ Len(s) + 1 - 1 = Len(s) /\ Len(s) \in 1 .. Len(s)
    BY <1>1, <1>6
  <2> QED
    BY <1>1, <1>2, <1>4, <1>6, <2>1 DEF EntryBefore
<1> QED
  BY <1>5, <1>6

LEMMA Length ==
  ASSUME NEW b \in Seq(Frame), NEW m \in Nat, Len(b) = m
  PROVE  DOMAIN b = 1 .. m /\ (b = <<>> <=> m = 0)
BY EmptySeq

LEMMA PopAt ==
  ASSUME NEW s \in Seq(Frame), s # <<>>, NEW b, b = SubSeq(s, 1, Len(s) - 1)
  PROVE  /\ \A i \in DOMAIN s : i = Len(s) \/ i \in DOMAIN b
         /\ \A i \in DOMAIN b : i \in DOMAIN s /\ b[i] = s[i] /\ EntryBefore(b, i) = EntryBefore(s, i)
         /\ \A i \in DOMAIN b : i > 1 => b[i - 1] = s[i - 1]
         /\ Len(s) \in DOMAIN s
         /\ EntryUnder(b) = EntryBefore(s, Len(s))
         /\ Len(s) > 1 => EntryUnder(b) = s[Len(s) - 1].entry
<1> DEFINE n == Len(s)
<1>1. n \in Nat /\ n > 0 /\ DOMAIN s = 1 .. n
  OBVIOUS
<1>2. /\ b \in Seq(Frame) /\ Len(b) = n - 1
      /\ \A i \in 1 .. (n - 1) : b[i] = s[i]
  BY <1>1, SubSeqProperties
<1>3. DOMAIN b = 1 .. (n - 1) /\ (b = <<>> <=> n = 1)
  <2>1. n - 1 \in Nat
    BY <1>1
  <2>2. DOMAIN b = 1 .. (n - 1) /\ (b = <<>> <=> n - 1 = 0)
    BY <1>2, <2>1, Length
  <2> QED
    BY <1>1, <2>2
<1>4. /\ \A i \in DOMAIN s : i = n \/ i \in DOMAIN b
      /\ \A i \in DOMAIN b : i \in DOMAIN s /\ b[i] = s[i] /\ (i > 1 => b[i - 1] = s[i - 1])
      /\ n \in DOMAIN s
  BY <1>1, <1>2, <1>3
<1>5. \A i \in DOMAIN b : i = 1 \/ i > 1
  BY <1>3
<1>6. \A i \in DOMAIN b : EntryBefore(b, i) = EntryBefore(s, i)
  BY <1>4, <1>5 DEF EntryBefore
<1>7. CASE n = 1
  BY <1>3, <1>4, <1>6, <1>7 DEF EntryUnder, EntryBefore
<1>8. CASE n # 1
  <2>1. b # <<>> /\ b[n - 1] = s[n - 1] /\ Len(b) = n - 1
    BY <1>1, <1>2, <1>3, <1>8
  <2> QED
    BY <1>4, <1>6, <1>8, <2>1 DEF EntryUnder, EntryBefore
<1> QED
  BY <1>7, <1>8

LEMMA TodoAt ==
  ASSUME NEW s \in Seq(Frame), s # <<>>, NEW row
  PROVE  LET t == [s EXCEPT ![Len(s)].todo = @ \ {row}] IN
         /\ DOMAIN t = DOMAIN s /\ Len(t) = Len(s) /\ Len(s) \in DOMAIN s
         /\ \A i \in DOMAIN s :
              /\ t[i].entry = s[i].entry /\ t[i].via = s[i].via
              /\ EntryBefore(t, i) = EntryBefore(s, i)
              /\ i > 1 => t[i - 1].entry = s[i - 1].entry
              /\ t[i].todo = IF i = Len(s) THEN s[i].todo \ {row} ELSE s[i].todo
<1> DEFINE n == Len(s)  f == [s[n] EXCEPT !.todo = @ \ {row}]
           t == [s EXCEPT ![Len(s)].todo = @ \ {row}]
<1>1. n \in Nat /\ n \in 1 .. n /\ DOMAIN s = 1 .. n /\ \A i \in 1 .. n : s[i] \in Frame
  OBVIOUS
<1>2. f \in Frame /\ f.entry = s[n].entry /\ f.via = s[n].via /\ f.todo = s[n].todo \ {row}
  BY <1>1 DEF Frame
<1>3. t = [s EXCEPT ![n] = f]
  OBVIOUS
<1> HIDE DEF f, t
<1>4. DOMAIN t = DOMAIN s /\ Len(t) = n
  BY <1>1, <1>2, <1>3
<1>5. \A i \in DOMAIN s : t[i] = IF i = n THEN f ELSE s[i]
  BY <1>1, <1>3
<1>6. \A i \in DOMAIN s :
        /\ t[i].entry = s[i].entry /\ t[i].via = s[i].via
        /\ t[i].todo = IF i = n THEN s[i].todo \ {row} ELSE s[i].todo
  BY <1>2, <1>5
<1>7. \A i \in DOMAIN s : i = 1 \/ (i > 1 /\ i - 1 \in DOMAIN s)
  BY <1>1
<1>8. \A i \in DOMAIN s : /\ EntryBefore(t, i) = EntryBefore(s, i)
                          /\ i > 1 => t[i - 1].entry = s[i - 1].entry
  <2> SUFFICES ASSUME NEW i \in DOMAIN s
               PROVE  EntryBefore(t, i) = EntryBefore(s, i) /\ (i > 1 => t[i - 1].entry = s[i - 1].entry)
    OBVIOUS
  <2>1. CASE i = 1
    BY <2>1 DEF EntryBefore
  <2>2. CASE i > 1 /\ i - 1 \in DOMAIN s
    <3>1. t[i - 1].entry = s[i - 1].entry
      BY <1>6, <2>2
    <3> QED
      BY <1>1, <2>2, <3>1 DEF EntryBefore
  <2> QED
    BY <1>7, <2>1, <2>2
<1> QED
  BY <1>1, <1>4, <1>6, <1>8 DEF t

\* What the tables decide stays as it is while nobody writes.
LEMMA TableTerms ==
  ASSUME UNCHANGED Tables
  PROVE  /\ \A x : RowOf(x)' = RowOf(x) /\ Ends(x)' = Ends(x) /\ (Steady(x)' <=> Steady(x))
         /\ \A x \in since.kept : x \in RelIds /\ HasRelation(x) => x \in RelIds /\ HasRelation(x)'
         /\ (\A e \in since.open : Open(e)) => \A e \in since'.open : Open(e)'
         /\ (\A e \in since.granted : Granted(e)) => \A e \in since'.granted : Granted(e)'
         /\ since'.kept = since.kept /\ since'.open = since.open
BY DEF Tables, RowOf, Ends, Steady, HasRelation, Open, Granted

\* A kept relation joins two entries, and its other end is one of them.
LEMMA EndsOf ==
  ASSUME TreeInv, MoreInv, NEW x \in since.kept
  PROVE  /\ x \in RelIds /\ x # None /\ relations[x] \in Relation
         /\ RowOf(x).id = x
         /\ \A e \in Ends(x) : {e, Neighbor(RowOf(x), e)} = Ends(x) /\ e \in EntryIds
         /\ \A e \in Ends(x) : RowOf(x) \in RowsOf(e)
<1>1. x \in RelIds /\ x # None /\ HasRelation(x) /\ relations[x] \in Relation
  BY TreeAssumption DEF MoreInv, TreeInv, TypeOK, HasRelation
<1>2. relations[x].from \in EntryIds /\ relations[x].to \in EntryIds
  BY <1>1 DEF Relation
<1> QED
  BY <1>1, <1>2 DEF RowOf, Ends, Neighbor, RowsOf

\* A query that only decides what comes next passes over no steady entry.
LEMMA CoverLook ==
  ASSUME TreeInv, MoreInv, CoverInv, UNCHANGED Tables, Look \/ Grants \/ ReadRoot, pc' # "failed"
  PROVE  MoreInv' /\ CoverInv'
<1>1. pc \in {"look", "grants", "root"} /\ UNCHANGED Locals
  BY DEF Look, Grants, ReadRoot, Enter, Skip, Fail, Locals
<1>2. at \in EntryIds /\ level[at] \in Levels \union {Gone} /\ Gone \notin Levels
  BY TreeAssumption DEF TreeInv, TypeOK
<1>3. pc' = "grants" => at \notin since.open /\ level[at] = "restricted"
  BY <1>2 DEF Look, Grants, ReadRoot, Enter, Skip, Fail, MoreInv, Open, Levels
<1>4. at \in since.open \union since.granted => pc' \in {"grants", "root", "list", "refer"}
  <2>1. CASE Look
    BY <1>2, <2>1 DEF Look, Enter, Skip, Fail, MoreInv, Open, Granted, Levels
  <2>2. CASE Grants
    BY <2>2 DEF Grants, Enter, MoreInv, Granted
  <2>3. CASE ReadRoot
    BY <2>3 DEF ReadRoot, Fail
  <2> QED
    BY <2>1, <2>2, <2>3
<1>5. pc' \in {"grants", "root", "list", "refer", "next", "refused"}
  BY <1>2 DEF Look, Grants, ReadRoot, Enter, Skip, Fail, Levels
<1>6. pc' = "root" => via = None
  BY DEF Look, Grants, ReadRoot, Enter, Skip, Fail
<1>7. MoreInv'
  BY <1>1, <1>3, <1>5, TableTerms DEF MoreInv, Locals
<1>8. CoverInv'
  <2> SUFFICES ASSUME NEW x \in since.kept, Steady(x), Ends(x) \intersect expanded # {}
               PROVE  Covered(x)'
    BY <1>1, TableTerms DEF CoverInv, Locals
  <2>1. Covered(x)
    BY <1>1 DEF CoverInv
  <2>2. CASE Visiting(x)
    <3>1. at \in Ends(x) /\ via = x
      BY <2>2 DEF Visiting
    <3>2. pc' \in {"grants", "list", "refer"}
      BY <1>4, <1>6, <3>1, EndsOf DEF Steady
    <3>3. Visiting(x)'
      BY <1>1, <2>2, <3>2, TableTerms DEF Visiting, Locals, Top
    <3> QED
      BY <3>3 DEF Covered
  <2>3. CASE ToVisit(x) \/ Entered(x) \/ Shown(x)
    <3>1. (ToVisit(x) => ToVisit(x)') /\ (Entered(x) => Entered(x)') /\ (Shown(x) => Shown(x)')
      BY <1>1, TableTerms DEF ToVisit, Entered, Shown, EntryBefore, Locals
    <3> QED
      BY <2>3, <3>1 DEF Covered
  <2> QED
    BY <2>1, <2>2, <2>3 DEF Covered
<1> QED
  BY <1>7, <1>8

\* A call lists the relations of its entry: those that do not lead back are still to
\* visit, and those that do were covered from the entry below.
LEMMA CoverList ==
  ASSUME TreeInv, MoreInv, CoverInv, UNCHANGED Tables, List, pc' # "failed"
  PROVE  MoreInv' /\ CoverInv'
<1> DEFINE f == [entry |-> at, via |-> via, todo |-> RowsOf(at)]
<1>1. /\ pc = "list" /\ pc' = "next" /\ stack' = Append(stack, f)
      /\ expanded' = expanded \union {at} /\ UNCHANGED <<at, via, cache, shown>>
  BY DEF List, Fail
<1>2. RowsOf(at) \subseteq [id : RelIds, from : EntryIds, to : EntryIds]
  BY DEF TreeInv, TypeOK, RowsOf, HasRelation, Relation
<1>3. f \in Frame /\ f.entry = at /\ f.via = via /\ f.todo = RowsOf(at) /\ stack \in Seq(Frame)
  BY <1>2 DEF Frame, TreeInv, TypeOK
<1> HIDE DEF f
<1>4. /\ \A i \in DOMAIN stack : /\ i \in DOMAIN stack' /\ stack'[i] = stack[i]
                                 /\ EntryBefore(stack', i) = EntryBefore(stack, i)
      /\ \A i \in DOMAIN stack : i > 1 => stack'[i - 1] = stack[i - 1]
      /\ Len(stack) + 1 \in DOMAIN stack' /\ stack'[Len(stack) + 1] = f
      /\ EntryBefore(stack', Len(stack) + 1) = IF stack = <<>> THEN None ELSE Top.entry
      /\ stack # <<>> => Len(stack) + 1 > 1 /\ stack'[Len(stack) + 1 - 1] = Top
  <2>1. stack' = Append(stack, f)
    BY <1>1
  <2> QED
    BY <1>3, <2>1, PushAt DEF Top, EntryBefore
<1>5. MoreInv'
  BY <1>1, TableTerms DEF MoreInv
<1>6. CoverInv'
  <2> SUFFICES ASSUME NEW x \in since.kept, Steady(x), Ends(x) \intersect expanded' # {}
               PROVE  Covered(x)'
    BY TableTerms DEF CoverInv
  <2>1. CASE Ends(x) \intersect expanded # {}
    <3>1. Covered(x)
      BY <1>1, <2>1 DEF CoverInv
    <3>2. Visiting(x) => Entered(x)'
      BY <1>3, <1>4, TableTerms DEF Visiting, Entered
    <3>3. (ToVisit(x) => ToVisit(x)') /\ (Entered(x) => Entered(x)') /\ (Shown(x) => Shown(x)')
      BY <1>1, <1>4, TableTerms DEF ToVisit, Entered, Shown
    <3> QED
      BY <3>1, <3>2, <3>3 DEF Covered
  <2>2. CASE Ends(x) \intersect expanded = {}
    <3>1. at \in Ends(x)
      BY <1>1, <2>2
    <3>2. RowOf(x) \in f.todo /\ Neighbor(RowOf(x), at) \in Ends(x) /\ Neighbor(RowOf(x), at) \in EntryIds
      BY <1>3, <3>1, EndsOf
    <3>3. Neighbor(RowOf(x), at) # EntryBefore(stack', Len(stack) + 1)
      <4>1. CASE stack = <<>>
        BY <1>4, <3>2, <4>1, TreeAssumption
      <4>2. CASE stack # <<>>
        BY <1>4, <2>2, <3>2, <4>2, TopIs DEF TreeInv, NodesInv
      <4> QED
        BY <4>1, <4>2
    <3>4. ToVisit(x)'
      BY <1>3, <1>4, <3>1, <3>2, <3>3, TableTerms DEF ToVisit
    <3> QED
      BY <3>4 DEF Covered
  <2> QED
    BY <2>1, <2>2
<1> QED
  BY <1>5, <1>6

\* The loop comes to one of the relations that are left.
LEMMA CoverLoop ==
  ASSUME TreeInv, MoreInv, CoverInv, UNCHANGED Tables, NEW row, NextRelation(row)
  PROVE  MoreInv' /\ CoverInv'
<1>1. /\ pc = "next" /\ UNCHANGED <<expanded, cache, shown>>
      /\ stack' = [stack EXCEPT ![Len(stack)].todo = @ \ {row}]
      /\ LeadsBack(row) => UNCHANGED <<pc, at, via>>
      /\ ~LeadsBack(row) => pc' = "look" /\ at' = Neighbor(row, Top.entry) /\ via' = row.id
  BY DEF NextRelation
<1>2. stack \in Seq(Frame) /\ stack # <<>>
  BY <1>1 DEF TreeInv, TypeOK, StackInv
<1>3. /\ DOMAIN stack' = DOMAIN stack /\ Len(stack') = Len(stack) /\ Len(stack) \in DOMAIN stack
      /\ \A i \in DOMAIN stack :
           /\ stack'[i].entry = stack[i].entry /\ stack'[i].via = stack[i].via
           /\ EntryBefore(stack', i) = EntryBefore(stack, i)
           /\ i > 1 => stack'[i - 1].entry = stack[i - 1].entry
           /\ stack'[i].todo = IF i = Len(stack) THEN stack[i].todo \ {row} ELSE stack[i].todo
  <2>1. stack' = [stack EXCEPT ![Len(stack)].todo = @ \ {row}]
    BY <1>1
  <2>2. /\ DOMAIN stack' = DOMAIN stack /\ Len(stack') = Len(stack) /\ Len(stack) \in DOMAIN stack
        /\ \A i \in DOMAIN stack :
             /\ stack'[i].entry = stack[i].entry /\ stack'[i].via = stack[i].via
             /\ i > 1 => stack'[i - 1].entry = stack[i - 1].entry
             /\ stack'[i].todo = IF i = Len(stack) THEN stack[i].todo \ {row} ELSE stack[i].todo
    BY <1>2, <2>1, TodoAt
  <2>3. \A i \in DOMAIN stack : i = 1 \/ i > 1
    BY <1>2
  <2> QED
    BY <2>2, <2>3 DEF EntryBefore
<1>4. EntryUnder(Below) = EntryBefore(stack, Len(stack))
  BY <1>2, PopAt DEF Below
<1>5. MoreInv'
  <2>1. pc' \in {"next", "look"}
    BY <1>1
  <2> QED
    BY <2>1, TableTerms DEF MoreInv
<1>6. CoverInv'
  <2> SUFFICES ASSUME NEW x \in since.kept, Steady(x), Ends(x) \intersect expanded # {}
               PROVE  Covered(x)'
    BY <1>1, TableTerms DEF CoverInv
  <2>1. Covered(x) /\ ~Visiting(x)
    BY <1>1 DEF CoverInv, Visiting
  <2>2. CASE Entered(x) \/ Shown(x)
    <3>1. (Entered(x) => Entered(x)') /\ (Shown(x) => Shown(x)')
      BY <1>1, <1>3, TableTerms DEF Entered, Shown
    <3> QED
      BY <2>2, <3>1 DEF Covered
  <2>3. CASE ToVisit(x)
    <3>1. PICK i \in DOMAIN stack :
            /\ RowOf(x) \in stack[i].todo /\ stack[i].entry \in Ends(x)
            /\ Neighbor(RowOf(x), stack[i].entry) # EntryBefore(stack, i)
      BY <2>3 DEF ToVisit
    <3>2. CASE RowOf(x) \in stack'[i].todo
      <4>1. ToVisit(x)'
        BY <1>3, <3>1, <3>2, TableTerms DEF ToVisit
      <4> QED
        BY <4>1 DEF Covered
    <3>3. CASE RowOf(x) \notin stack'[i].todo
      <4>1. i = Len(stack) /\ row = RowOf(x)
        BY <1>3, <3>1, <3>3
      <4>2. ~LeadsBack(row) /\ Top.entry \in Ends(x)
        BY <1>4, <3>1, <4>1 DEF LeadsBack, Top
      <4>3. pc' = "look" /\ via' = x /\ {Top.entry, at'} = Ends(x)
        BY <1>1, <4>1, <4>2, EndsOf
      <4>4. stack' # <<>> /\ Top'.entry = Top.entry
        BY <1>1, <1>2, <1>3, TodoStep DEF Top
      <4>5. Visiting(x)'
        BY <4>3, <4>4, TableTerms DEF Visiting
      <4> QED
        BY <4>5 DEF Covered
    <3> QED
      BY <3>2, <3>3
  <2> QED
    BY <2>1, <2>2, <2>3 DEF Covered
<1> QED
  BY <1>5, <1>6

LEMMA CoverEnd ==
  ASSUME TreeInv, MoreInv, CoverInv, UNCHANGED Tables, EndOfLoop
  PROVE  MoreInv' /\ CoverInv'
<1>1. /\ pc = "next" /\ pc' = "node" /\ Top.todo = {} /\ via' = Top.via
      /\ UNCHANGED <<stack, expanded, cache, shown>>
  BY DEF EndOfLoop
<1>2. MoreInv'
  <2>1. Top' = Top
    BY <1>1 DEF Top
  <2> QED
    BY <1>1, <2>1, TableTerms DEF MoreInv
<1>3. CoverInv'
  <2> SUFFICES ASSUME NEW x \in since.kept, Steady(x), Ends(x) \intersect expanded # {}
               PROVE  Covered(x)'
    BY <1>1, TableTerms DEF CoverInv
  <2>1. Covered(x) /\ ~Visiting(x)
    BY <1>1 DEF CoverInv, Visiting
  <2>2. (ToVisit(x) => ToVisit(x)') /\ (Entered(x) => Entered(x)') /\ (Shown(x) => Shown(x)')
    BY <1>1, TableTerms DEF ToVisit, Entered, Shown, EntryBefore
  <2> QED
    BY <2>1, <2>2 DEF Covered
<1> QED
  BY <1>2, <1>3

\* A reference shows the relation it came by.
LEMMA CoverRefer ==
  ASSUME TreeInv, MoreInv, CoverInv, UNCHANGED Tables, Refer, pc' # "failed"
  PROVE  MoreInv' /\ CoverInv'
<1> DEFINE n0 == [parent |-> Top.entry, via |-> via, entry |-> at, kind |-> Reason(at)]
<1>1. /\ pc = "refer" /\ pc' = "next" /\ UNCHANGED <<at, via, stack, expanded>>
      /\ shown' = shown \union {n0}
  BY DEF Refer, Fail
<1>2. n0.via = via /\ n0.parent = Top.entry /\ n0.entry = at
  OBVIOUS
<1> HIDE DEF n0
<1>3. MoreInv'
  BY <1>1, TableTerms DEF MoreInv
<1>4. CoverInv'
  <2> SUFFICES ASSUME NEW x \in since.kept, Steady(x), Ends(x) \intersect expanded # {}
               PROVE  Covered(x)'
    BY <1>1, TableTerms DEF CoverInv
  <2>1. Covered(x)
    BY <1>1 DEF CoverInv
  <2>2. Visiting(x) => Shown(x)'
    BY <1>1, <1>2, TableTerms DEF Visiting, Shown
  <2>3. (ToVisit(x) => ToVisit(x)') /\ (Entered(x) => Entered(x)') /\ (Shown(x) => Shown(x)')
    BY <1>1, TableTerms DEF ToVisit, Entered, Shown, EntryBefore
  <2> QED
    BY <2>1, <2>2, <2>3 DEF Covered
<1> QED
  BY <1>3, <1>4

\* The end of a call shows the relation that led to it; its loop has none left.
LEMMA CoverReturn ==
  ASSUME TreeInv, MoreInv, CoverInv, UNCHANGED Tables, Return, pc' # "failed"
  PROVE  MoreInv' /\ CoverInv'
<1> DEFINE n0 == [parent |-> EntryUnder(Below), via |-> via, entry |-> at, kind |-> "node"]
<1>1. /\ pc = "node" /\ pc' \in {"done", "next"} /\ UNCHANGED <<at, via, expanded>>
      /\ stack' = Below /\ shown' = shown \union {n0}
  BY DEF Return, Fail
<1>2. n0.via = via /\ n0.parent = EntryUnder(Below) /\ n0.entry = at
  OBVIOUS
<1> HIDE DEF n0
<1>3. stack \in Seq(Frame) /\ stack # <<>> /\ at = Top.entry /\ via = Top.via /\ Top.todo = {}
  BY <1>1 DEF TreeInv, TypeOK, StackInv, MoreInv
<1>4. /\ \A i \in DOMAIN stack : i = Len(stack) \/ i \in DOMAIN Below
      /\ \A i \in DOMAIN Below : /\ i \in DOMAIN stack /\ Below[i] = stack[i]
                                 /\ EntryBefore(Below, i) = EntryBefore(stack, i)
      /\ \A i \in DOMAIN Below : i > 1 => Below[i - 1] = stack[i - 1]
      /\ Len(stack) > 1 => EntryUnder(Below) = stack[Len(stack) - 1].entry
  <2>1. Len(stack) > 1 => EntryUnder(Below) = stack[Len(stack) - 1].entry
    BY <1>3, PopAt DEF Below
  <2> QED
    BY <1>3, <2>1, PopAt DEF Below, EntryBefore
<1>5. MoreInv'
  BY <1>1, TableTerms DEF MoreInv
<1>6. CoverInv'
  <2> SUFFICES ASSUME NEW x \in since.kept, Steady(x), Ends(x) \intersect expanded # {}
               PROVE  Covered(x)'
    BY <1>1, TableTerms DEF CoverInv
  <2>1. Covered(x) /\ ~Visiting(x)
    BY <1>1 DEF CoverInv, Visiting
  <2>2. ToVisit(x) => ToVisit(x)'
    <3>1. \A i \in DOMAIN stack : stack[i].todo # {} => i \in DOMAIN Below
      BY <1>3, <1>4 DEF Top
    <3>2. \A i \in DOMAIN Below : stack'[i] = stack[i] /\ EntryBefore(stack', i) = EntryBefore(stack, i)
      BY <1>1, <1>4 DEF EntryBefore
    <3> QED
      BY <1>1, <3>1, <3>2, TableTerms DEF ToVisit
  <2>3. Shown(x) => Shown(x)'
    BY <1>1, TableTerms DEF Shown
  <2>4. Entered(x) => Entered(x)' \/ Shown(x)'
    <3> SUFFICES ASSUME NEW i \in DOMAIN stack, i > 1, stack[i].via = x,
                        {stack[i - 1].entry, stack[i].entry} = Ends(x)
                 PROVE  Entered(x)' \/ Shown(x)'
      BY DEF Entered
    <3>1. CASE i \in DOMAIN Below
      BY <1>1, <1>4, <3>1, TableTerms DEF Entered
    <3>2. CASE i = Len(stack)
      BY <1>1, <1>2, <1>3, <1>4, <3>2, TableTerms DEF Shown, Top
    <3> QED
      BY <1>4, <3>1, <3>2
  <2> QED
    BY <2>1, <2>2, <2>3, <2>4 DEF Covered
<1> QED
  BY <1>5, <1>6

\* Others touch neither the walk nor what since still says is kept.
LEMMA CoverWrite ==
  ASSUME TreeInv, MoreInv, CoverInv, Write
  PROVE  MoreInv' /\ CoverInv'
<1>1. /\ UNCHANGED walker /\ pc # "failed"
      /\ since'.kept = {x \in since.kept : relations'[x] = relations[x]}
      /\ since'.open = {e \in since.open : Open(e)'}
      /\ since'.granted = {e \in since.granted : Granted(e)'}
  BY DEF Write, Answered
<1>2. \A x \in since'.kept : x \in since.kept /\ relations'[x] = relations[x]
  BY <1>1
<1>3. MoreInv'
  BY <1>1, <1>2 DEF MoreInv, HasRelation, walker, Top
<1>4. CoverInv'
  <2> SUFFICES ASSUME NEW x \in since'.kept, Steady(x)', Ends(x)' \intersect expanded' # {}
               PROVE  Covered(x)'
    BY DEF CoverInv
  <2>1. RowOf(x)' = RowOf(x) /\ Ends(x)' = Ends(x) /\ x \in since.kept
    BY <1>2 DEF RowOf, Ends
  <2>2. Steady(x) /\ Ends(x) \intersect expanded # {}
    BY <1>1, <2>1 DEF Steady, walker
  <2>3. Covered(x)
    BY <1>1, <2>1, <2>2 DEF CoverInv
  <2>4. (ToVisit(x) => ToVisit(x)') /\ (Visiting(x) => Visiting(x)')
    BY <1>1, <2>1 DEF ToVisit, Visiting, EntryBefore, Top, walker
  <2>5. (Entered(x) => Entered(x)') /\ (Shown(x) => Shown(x)')
    BY <1>1, <2>1 DEF Entered, Shown, walker
  <2> QED
    BY <2>3, <2>4, <2>5 DEF Covered
<1> QED
  BY <1>3, <1>4

LEMMA FullInit == Init => FullInv
<1> SUFFICES ASSUME Init PROVE FullInv
  OBVIOUS
<1>1. MoreInv
  BY DEF Init, Unchanged, MoreInv
<1>2. CoverInv
  BY DEF Init, CoverInv
<1> QED
  BY <1>1, <1>2, TreeInit DEF FullInv

LEMMA FullWalk ==
  ASSUME FullInv, Walk
  PROVE  MoreInv' /\ CoverInv'
<1>1. UNCHANGED Tables /\ TreeInv /\ MoreInv /\ CoverInv
  BY DEF Walk, Tables, FullInv
<1>2. CASE pc' = "failed"
  BY <1>1, <1>2, TableTerms DEF MoreInv, CoverInv
<1>3. CASE pc' # "failed"
  BY <1>1, <1>3, CoverLook, CoverList, CoverLoop, CoverEnd, CoverRefer, CoverReturn DEF Walk
<1> QED
  BY <1>2, <1>3

LEMMA FullStep == FullInv /\ [Next]_vars => FullInv'
<1> SUFFICES ASSUME FullInv, [Next]_vars PROVE FullInv'
  OBVIOUS
<1>1. MoreInv' /\ CoverInv'
  <2>1. CASE Walk
    BY <2>1, FullWalk
  <2>2. CASE Others
    <3>1. Write
      BY <2>2 DEF Others, CreateRelation, MoveRelation, DeleteRelation, SetLevel, Grant, Revoke, DeleteSchema
    <3> QED
      BY <3>1, CoverWrite DEF FullInv
  <2>3. CASE UNCHANGED vars
    <3>1. UNCHANGED Tables /\ UNCHANGED Locals /\ pc' = pc
      BY <2>3 DEF vars, walker, Tables, Locals
    <3>2. MoreInv'
      BY <3>1, TableTerms DEF FullInv, MoreInv, Locals, Top
    <3>3. \A x : /\ (ToVisit(x) => ToVisit(x)') /\ (Visiting(x) => Visiting(x)')
                 /\ (Entered(x) => Entered(x)') /\ (Shown(x) => Shown(x)')
      BY <3>1, TableTerms DEF ToVisit, Visiting, Entered, Shown, EntryBefore, Top, Locals
    <3>4. CoverInv'
      BY <3>1, <3>3, TableTerms DEF FullInv, CoverInv, Covered, Locals
    <3> QED
      BY <3>2, <3>4
  <2> QED
    BY <2>1, <2>2, <2>3 DEF Next, Over
<1> QED
  BY <1>1, TreeStep DEF FullInv

\* For any graph, any room on the stack and any number of writes: what was linked and
\* readable all the time is in the answer, in one piece, whatever else was moved,
\* removed, hidden or opened while the walk was under way.
THEOREM NothingSteadyIsMissing == Spec => []NothingMissing
<1>1. FullInv => NothingMissing
  <2> SUFFICES ASSUME FullInv, pc = "done", NEW x \in since.kept,
                      Ends(x) \subseteq since.open \union since.granted,
                      \E e \in Ends(x) : Expands(e) # {}
               PROVE  /\ \A e \in Ends(x) : Expands(e) # {}
                      /\ \E n \in shown : n.via = x /\ {n.parent, n.entry} = Ends(x)
    BY DEF NothingMissing, Ends
  <2>1. TreeInv /\ MoreInv /\ CoverInv /\ stack = <<>> /\ DOMAIN stack = {}
    BY DEF FullInv, TreeInv, StackInv
  <2>2. \A e : Expands(e) # {} <=> e \in expanded
    BY <2>1 DEF TreeInv, NodesInv, Ancestors, NodeEntries, Expands
  <2>3. Covered(x)
    BY <2>1, <2>2 DEF CoverInv, Steady
  <2>4. Shown(x)
    BY <2>1, <2>3 DEF Covered, ToVisit, Visiting, Entered
  <2>5. PICK n \in shown : n.via = x /\ {n.parent, n.entry} = Ends(x)
    BY <2>4 DEF Shown
  <2>6. n.parent \in expanded /\ n.entry \in expanded
    <3>1. n.parent # None
      BY <2>1, <2>5, EndsOf, TreeAssumption
    <3> QED
      BY <2>1, <3>1 DEF TreeInv, NodesInv
  <2> QED
    BY <2>2, <2>5, <2>6
<1>2. Spec => []FullInv
  BY FullInit, FullStep, PTL DEF Spec
<1> QED
  BY <1>1, <1>2, PTL
=============================================================================
