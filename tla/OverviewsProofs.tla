--------------------------- MODULE OverviewsProofs ---------------------------
(***************************************************************************)
(* Proofs about Overviews, the lists of entries, their totals and the      *)
(* pages of history, for any number of entries, schemas and rows, any      *)
(* start, any limits and any number of writes.                             *)
(***************************************************************************)
EXTENDS Overviews, FiniteSetTheorems, TLAPS

TablesInv ==
  /\ schemas \in [SchemaIds -> {"active", "inactive", Unborn, Gone}]
  /\ entries \in [EntryIds -> Entry \union {Unborn, Gone}]
  /\ op \in {"entries", "history"} /\ writes \in 0 .. MaxWrites[op]
  /\ \A e \in EntryIds : There(e) => HasSchema(SchemaOf[e])

\* What since says holds still; who never had access has no grant either.
SinceInv ==
  /\ {"open", "granted", "private", "barred"} \subseteq DOMAIN since
  /\ \A e \in since.open : e \in EntryIds /\ Open(e)
  /\ \A e \in since.granted : e \in EntryIds /\ There(e) /\ ~Private(e) /\ e \in granted
  /\ \A e \in since.private : ~There(e) \/ Private(e)
  /\ \A e \in since.barred : ~Open(e) /\ e \notin granted

\* The schemas were read before the entries, the entries before the grants.
ListingInv ==
  /\ op = "entries" => pc \in {"schemas", "entries", "check"}
  /\ op = "history" => pc \in {"count", "page", "done"}
  /\ pc \in {"entries", "check"} => \A e \in Steady : SchemaOf[e] \in known
  /\ pc = "check" => since.open \subseteq visible /\ since.granted \subseteq visible \union todo
  /\ pc # "check" => visible = {} /\ todo = {}
  /\ visible \subseteq EntryIds /\ todo \subseteq EntryIds
  /\ todo \intersect since.private = {}
  /\ visible \intersect (since.private \union since.barred) = {}

ListInv == TablesInv /\ SinceInv /\ ListingInv

LEMMA ListInit == Init => ListInv
<1> SUFFICES ASSUME Init PROVE ListInv
  OBVIOUS
<1>1. PICK start \in Start : op = start.op /\ schemas = start.schemas /\ entries = start.entries
  BY DEF Init
<1>2. /\ op \in {"entries", "history"}
      /\ schemas \in [SchemaIds -> {"active", "inactive", Unborn}]
      /\ entries \in [EntryIds -> {Unborn} \union [level : Levels, created : {0, 1}, updated : {None, 0, 1}]]
      /\ \A e \in EntryIds : entries[e] # Unborn => schemas[SchemaOf[e]] # Unborn
  BY <1>1, OverviewsAssumption
<1>3. {0, 1} \subseteq Times /\ writes \in 0 .. MaxWrites[op]
  BY <1>2, OverviewsAssumption DEF Times, Init
<1>4. [level : Levels, created : {0, 1}, updated : {None, 0, 1}] \subseteq Entry
  BY <1>3 DEF Entry
<1>5. TablesInv
  <2>1. \A e \in EntryIds : There(e) => HasSchema(SchemaOf[e])
    BY <1>2, OverviewsAssumption DEF There, HasSchema
  <2> QED
    BY <1>2, <1>3, <1>4, <2>1 DEF TablesInv
<1>6. SinceInv
  BY DEF Init, SinceInv, Open, Private, There
<1>7. ListingInv
  BY <1>2 DEF Init, ListingInv
<1> QED
  BY <1>5, <1>6, <1>7 DEF ListInv

-----------------------------------------------------------------------------
(* The reader. *)

LEMMA ReadStep == ListInv /\ Read => ListInv'
<1> SUFFICES ASSUME ListInv, Read PROVE ListInv'
  OBVIOUS
<1>1. UNCHANGED <<schemas, entries, granted, writes, op>>
  BY DEF Read, tables
<1>2. TablesInv'
  BY <1>1 DEF ListInv, TablesInv, There, HasSchema
<1>3. ASSUME DOMAIN since' = DOMAIN since, UNCHANGED <<since.open, since.granted, since.private, since.barred>>
      PROVE  SinceInv'
  BY <1>1, <1>3 DEF ListInv, SinceInv, Open, Private, There
<1>4. \A e \in Steady : e \in EntryIds /\ There(e) /\ SchemaOf[e] \in SchemaIds /\ HasSchema(SchemaOf[e])
  BY OverviewsAssumption DEF Steady, ListInv, SinceInv, TablesInv, Open
<1>5. CASE ListSchemas
  <2>1. ListingInv'
    BY <1>1, <1>4, <1>5 DEF ListSchemas, ListInv, ListingInv, TablesInv, Steady, InSchemaMap, paging
  <2> QED
    BY <1>2, <1>3, <1>5, <2>1 DEF ListSchemas, ListInv
<1>6. CASE ListEntries
  <2>1. /\ pc = "entries" /\ pc' = "check" /\ UNCHANGED <<known, since>>
        /\ visible' = {e \in EntryIds : Open(e)}
        /\ todo' = {e \in EntryIds : There(e) /\ entries[e].level = "restricted"}
    BY <1>6 DEF ListEntries
  <2>2. \A e \in EntryIds : There(e) /\ ~Private(e) => e \in visible' \union todo'
    BY <2>1 DEF ListInv, TablesInv, There, Open, Private, Entry, Levels
  <2>3. todo' \intersect since.private = {}
    BY <2>1 DEF ListInv, SinceInv, Private
  <2>4. visible' \intersect (since.private \union since.barred) = {}
    BY <2>1 DEF ListInv, SinceInv, Private, Open
  <2>5. since.open \subseteq visible' /\ since.granted \subseteq visible' \union todo'
    BY <2>1, <2>2 DEF ListInv, SinceInv
  <2>6. ListingInv'
    BY <1>1, <2>1, <2>3, <2>4, <2>5 DEF ListInv, ListingInv, Steady, TablesInv
  <2> QED
    BY <1>2, <1>3, <2>1, <2>6 DEF ListInv
<1>7. ASSUME NEW e \in todo, CheckAccess(e) PROVE ListInv'
  <2>1. /\ pc = "check" /\ UNCHANGED <<pc, known, since>> /\ todo' = todo \ {e}
        /\ visible' = IF e \in granted THEN visible \union {e} ELSE visible
    BY <1>7 DEF CheckAccess, MayRead
  <2>2. e \in EntryIds /\ e \notin since.private /\ (e \in since.granted => e \in granted)
    BY DEF ListInv, ListingInv, SinceInv
  <2>3. e \in granted => e \notin since.barred
    BY DEF ListInv, SinceInv
  <2>4. ListingInv'
    BY <1>1, <2>1, <2>2, <2>3 DEF ListInv, ListingInv, Steady
  <2> QED
    BY <1>2, <1>3, <2>1, <2>4 DEF ListInv
<1>8. CASE Count \/ ReadPage
  <2>1. /\ pc \in {"count", "page"} /\ pc' \in {"count", "page", "done"} /\ UNCHANGED <<known, todo, visible>>
        /\ since' = since \/ since' = [since EXCEPT !.slipped = 0]
    BY <1>8 DEF Count, ReadPage, listing
  <2>2. /\ DOMAIN since' = DOMAIN since
        /\ UNCHANGED <<since.open, since.granted, since.private, since.barred>>
    BY <2>1 DEF ListInv, SinceInv
  <2>3. ListingInv'
    BY <1>1, <2>1, <2>2 DEF ListInv, ListingInv
  <2> QED
    BY <1>2, <1>3, <2>2, <2>3 DEF ListInv
<1> QED
  BY <1>5, <1>6, <1>7, <1>8 DEF Read

-----------------------------------------------------------------------------
(* The others. *)

LEMMA WriteStep ==
  ASSUME ListInv, Write, TablesInv', \A e \in granted' : e \notin granted => There(e)'
  PROVE  ListInv'
<1>1. /\ UNCHANGED <<op, pc, known, todo, visible>>
      /\ {"open", "granted", "private", "barred"} \subseteq DOMAIN since'
      /\ since'.open = {e \in since.open : Open(e)'}
      /\ since'.granted = {e \in since.granted : There(e)' /\ ~Private(e)' /\ e \in granted'}
      /\ since'.private = {e \in since.private : ~There(e)' \/ Private(e)'}
      /\ since'.barred = {e \in since.barred : ~Open(e)' /\ (~There(e)' \/ e \notin granted')}
  BY DEF Write, listing
<1>2. SinceInv'
  <2>1. \A e \in since'.barred : ~Open(e)' /\ e \notin granted'
    BY <1>1 DEF ListInv, SinceInv
  <2> QED
    BY <1>1, <2>1 DEF ListInv, SinceInv
<1>3. ListingInv'
  BY <1>1 DEF ListInv, ListingInv, Steady
<1> QED
  BY <1>2, <1>3 DEF ListInv

LEMMA OthersStep == ListInv /\ Others => ListInv'
<1> SUFFICES ASSUME ListInv, Others PROVE ListInv'
  OBVIOUS
<1>1. TablesInv
  BY DEF ListInv
<1>2. ASSUME Write
      PROVE  /\ op' = op /\ writes' \in 0 .. MaxWrites[op] /\ Now \in Times
  <2>1. /\ op' = op /\ writes < MaxWrites[op] /\ writes' = writes + 1
    BY <1>2 DEF Write
  <2>2. MaxWrites["entries"] \in Nat /\ MaxWrites["history"] \in Nat /\ writes \in Nat
        /\ MaxWrites[op] \in {MaxWrites["entries"], MaxWrites["history"]}
    BY <1>1, OverviewsAssumption DEF TablesInv
  <2> QED
    BY <2>1, <2>2 DEF Now, Times
<1>3. ASSUME NEW s \in SchemaIds, CreateSchema(s) PROVE ListInv'
  <2>1. TablesInv'
    BY <1>1, <1>2, <1>3 DEF CreateSchema, TablesInv, There, HasSchema
  <2> QED
    BY <1>3, <2>1, WriteStep DEF CreateSchema
<1>4. ASSUME NEW s \in SchemaIds, DeleteSchema(s) PROVE ListInv'
  <2>1. /\ Write /\ schemas' = [schemas EXCEPT ![s] = Gone] /\ granted' \subseteq granted
        /\ entries' = [e \in EntryIds |-> IF SchemaOf[e] = s /\ There(e) THEN Gone ELSE entries[e]]
    BY <1>4 DEF DeleteSchema
  <2>2. TablesInv'
    BY <1>1, <1>2, <2>1 DEF TablesInv, There, HasSchema
  <2> QED
    BY <2>1, <2>2, WriteStep
<1>5. ASSUME NEW e \in EntryIds, NEW l \in Levels, CreateEntry(e, l) PROVE ListInv'
  <2>1. /\ Write /\ UNCHANGED <<schemas, granted>> /\ HasSchema(SchemaOf[e])
        /\ entries' = [entries EXCEPT ![e] = [level |-> l, created |-> Now, updated |-> None]]
    BY <1>5 DEF CreateEntry
  <2>2. [level |-> l, created |-> Now, updated |-> None] \in Entry
    BY <1>2, <2>1 DEF Entry
  <2>3. TablesInv'
    BY <1>1, <1>2, <2>1, <2>2 DEF TablesInv, There, HasSchema
  <2> QED
    BY <2>1, <2>3, WriteStep
<1>6. ASSUME NEW e \in EntryIds, NEW l \in Levels, UpdateEntry(e, l) PROVE ListInv'
  <2>1. /\ Write /\ UNCHANGED <<schemas, granted>> /\ There(e) /\ entries[e] \in Entry
        /\ entries' = [entries EXCEPT ![e] = [entries[e] EXCEPT !.level = l, !.updated = Now]]
    BY <1>1, <1>6 DEF UpdateEntry, There, TablesInv
  <2>2. [entries[e] EXCEPT !.level = l, !.updated = Now] \in Entry
    BY <1>2, <2>1 DEF Entry
  <2>3. TablesInv'
    BY <1>1, <1>2, <2>1, <2>2 DEF TablesInv, There, HasSchema
  <2> QED
    BY <2>1, <2>3, WriteStep
<1>7. ASSUME NEW e \in EntryIds, DeleteEntry(e) PROVE ListInv'
  <2>1. /\ Write /\ UNCHANGED <<schemas, granted>> /\ entries' = [entries EXCEPT ![e] = Gone]
    BY <1>7 DEF DeleteEntry
  <2>2. TablesInv'
    BY <1>1, <1>2, <2>1 DEF TablesInv, There, HasSchema
  <2> QED
    BY <2>1, <2>2, WriteStep
<1>8. ASSUME NEW e \in EntryIds, ChangeGrant(e) PROVE ListInv'
  <2>1. /\ Write /\ UNCHANGED <<schemas, entries>> /\ There(e) /\ granted' \subseteq granted \union {e}
    BY <1>8 DEF ChangeGrant
  <2>2. TablesInv' /\ There(e)'
    BY <1>1, <1>2, <2>1 DEF TablesInv, There, HasSchema
  <2> QED
    BY <2>1, <2>2, WriteStep
<1>9. ASSUME NEW e \in EntryIds, NEW i, AddHistory(e, i) PROVE ListInv'
  <2>1. Write /\ UNCHANGED <<schemas, entries, granted>>
    BY <1>9 DEF AddHistory
  <2>2. TablesInv'
    BY <1>1, <1>2, <2>1 DEF TablesInv, There, HasSchema
  <2> QED
    BY <2>1, <2>2, WriteStep
<1> QED
  BY <1>3, <1>4, <1>5, <1>6, <1>7, <1>8, <1>9 DEF Others

LEMMA ListStep == ListInv /\ [Next]_vars => ListInv'
<1>1. ListInv /\ UNCHANGED vars => ListInv'
  BY DEF vars, tables, listing, ListInv, TablesInv, SinceInv, ListingInv, Steady, There, HasSchema,
         Open, Private
<1> QED
  BY <1>1, ReadStep, OthersStep DEF Next, Over

LEMMA ListHolds == Spec => []ListInv
BY ListInit, ListStep, PTL DEF Spec

\* For any number of entries and writes, dashboard and lookup have nothing that was
\* hidden from the reader all the time.
THEOREM HiddenIsNotCounted == Spec => []NothingHiddenCounted
<1>1. ListInv => NothingHiddenCounted
  BY DEF ListInv, ListingInv, NothingHiddenCounted
<1> QED
  BY <1>1, ListHolds, PTL

\* For any finite number of entries, the dashboard counts each that was readable all
\* the time, in the total and under its schema.
THEOREM SteadyIsCounted == IsFiniteSet(EntryIds) => (Spec => []EverySteadyEntryCounted)
<1> SUFFICES ASSUME IsFiniteSet(EntryIds) PROVE Spec => []EverySteadyEntryCounted
  OBVIOUS
<1>1. ListInv => EverySteadyEntryCounted
  <2> SUFFICES ASSUME ListInv, op = "entries", Answered
               PROVE  /\ TotalEntries >= Cardinality(Steady)
                      /\ \A s \in SchemaIds :
                           TotalOfSchema(s) >= Cardinality({e \in Steady : SchemaOf[e] = s})
    BY DEF EverySteadyEntryCounted
  <2>1. pc = "check" /\ todo = {}
    BY DEF ListInv, ListingInv, Answered
  <2>2. Steady \subseteq visible /\ visible \subseteq EntryIds /\ \A e \in Steady : SchemaOf[e] \in known
    BY <2>1 DEF ListInv, ListingInv, Steady
  <2>3. IsFiniteSet(visible)
    BY <2>2, FS_Subset
  <2>4. TotalEntries >= Cardinality(Steady)
    <3>1. Cardinality(Steady) <= Cardinality(visible)
      BY <2>2, <2>3, FS_Subset
    <3>2. Cardinality(Steady) \in Nat /\ Cardinality(visible) \in Nat
      BY <2>2, <2>3, FS_Subset, FS_CardinalityType
    <3> QED
      BY <3>1, <3>2 DEF TotalEntries
  <2>5. ASSUME NEW s \in SchemaIds
        PROVE  TotalOfSchema(s) >= Cardinality({e \in Steady : SchemaOf[e] = s})
    <3> DEFINE S == {e \in Steady : SchemaOf[e] = s}
    <3>1. CASE S = {}
      <4>1. Cardinality(S) = 0
        BY <3>1, FS_EmptySet
      <4>2. Cardinality(EntriesOfSchema(s)) \in Nat
        <5>1. IsFiniteSet(EntriesOfSchema(s))
          BY <2>3, FS_Subset DEF EntriesOfSchema
        <5> QED
          BY <5>1, FS_CardinalityType
      <4> QED
        BY <4>1, <4>2 DEF TotalOfSchema
    <3>2. CASE S # {}
      <4>1. s \in known /\ S \subseteq EntriesOfSchema(s) /\ EntriesOfSchema(s) \subseteq visible
        BY <2>2, <3>2 DEF EntriesOfSchema
      <4>2. IsFiniteSet(EntriesOfSchema(s))
        BY <2>3, <4>1, FS_Subset
      <4>3. /\ Cardinality(S) <= Cardinality(EntriesOfSchema(s))
            /\ Cardinality(S) \in Nat /\ Cardinality(EntriesOfSchema(s)) \in Nat
        BY <4>1, <4>2, FS_Subset, FS_CardinalityType
      <4> QED
        BY <4>1, <4>3 DEF TotalOfSchema
    <3> QED
      BY <3>1, <3>2
  <2> QED
    BY <2>4, <2>5
<1> QED
  BY <1>1, ListHolds, PTL

-----------------------------------------------------------------------------
(* Types. *)

\* History is finite, and each of its rows has an id of its own.
HistoryInv ==
  /\ IsFiniteSet(log)
  /\ \A h \in log : h.id <= MaxLog + writes
  /\ \A g, h \in log : g.id = h.id => g = h

TypeInv == ListInv /\ TypeOK /\ HistoryInv

LEMMA FiniteSubset ==
  ASSUME NEW T, IsFiniteSet(T), NEW S \in SUBSET T
  PROVE  /\ IsFiniteSet(S)
         /\ Cardinality(S) \in Nat /\ Cardinality(T) \in Nat
         /\ Cardinality(S) <= Cardinality(T)
BY FS_Subset, FS_CardinalityType

LEMMA DisjointUnion ==
  ASSUME NEW S, IsFiniteSet(S), NEW T, IsFiniteSet(T), S \intersect T = {}
  PROVE  /\ IsFiniteSet(S \union T)
         /\ Cardinality(S \union T) = Cardinality(S) + Cardinality(T)
<1>1. Cardinality(S \intersect T) = 0
  BY FS_EmptySet
<1>2. Cardinality(S) \in Nat /\ Cardinality(T) \in Nat
  BY FS_CardinalityType
<1>3. Cardinality(S \union T) = Cardinality(S) + Cardinality(T) - Cardinality(S \intersect T)
  BY FS_Union
<1> QED
  BY <1>1, <1>2, <1>3, FS_Union

LEMMA UnionAtMost ==
  ASSUME NEW S, IsFiniteSet(S), NEW T, IsFiniteSet(T)
  PROVE  /\ IsFiniteSet(S \union T) /\ Cardinality(S \union T) \in Nat
         /\ Cardinality(S \union T) <= Cardinality(S) + Cardinality(T)
<1>1. /\ IsFiniteSet(S \union T)
      /\ Cardinality(S \union T) = Cardinality(S) + Cardinality(T) - Cardinality(S \intersect T)
  BY FS_Union
<1>2. /\ Cardinality(S) \in Nat /\ Cardinality(T) \in Nat
      /\ Cardinality(S \union T) \in Nat /\ Cardinality(S \intersect T) \in Nat
  BY <1>1, FS_CardinalityType, FS_Intersection
<1> QED
  BY <1>1, <1>2

LEMMA HistoryInit == Init => HistoryInv
<1> SUFFICES ASSUME Init PROVE HistoryInv
  OBVIOUS
<1>1. CASE log = {}
  BY <1>1, FS_EmptySet DEF HistoryInv
<1>2. ASSUME NEW about \in [1 .. MaxLog -> EntryIds],
             log = {[id |-> i, at |-> 2 * i, entry |-> about[i]] : i \in 1 .. MaxLog}
      PROVE  HistoryInv
  <2> DEFINE row == [i \in 1 .. MaxLog |-> [id |-> i, at |-> 2 * i, entry |-> about[i]]]
  <2>1. row \in Surjection(1 .. MaxLog, log)
    BY <1>2 DEF Surjection
  <2>2. IsFiniteSet(1 .. MaxLog)
    BY FS_Interval, OverviewsAssumption
  <2>3. IsFiniteSet(log)
    BY <2>1, <2>2, FS_Surjection
  <2>4. \A h \in log : \E i \in 1 .. MaxLog : h = [id |-> i, at |-> 2 * i, entry |-> about[i]]
    BY <1>2
  <2>5. \A h \in log : h.id \in 1 .. MaxLog /\ h = [id |-> h.id, at |-> 2 * h.id, entry |-> about[h.id]]
    BY <2>4
  <2>6. \A g, h \in log : g.id = h.id => g = h
    BY <2>5
  <2>7. writes = 0 /\ MaxLog \in Nat
    BY OverviewsAssumption DEF Init
  <2> QED
    BY <2>3, <2>5, <2>6, <2>7 DEF HistoryInv
<1> QED
  BY <1>1, <1>2 DEF Init

LEMMA TypeInit == Init => TypeInv
<1> SUFFICES ASSUME Init PROVE TypeOK
  BY ListInit, HistoryInit DEF TypeInv
<1>1. TablesInv
  BY ListInit DEF ListInv
<1>2. MaxWrites[op] \in Nat /\ MaxLog \in Nat
  BY <1>1, OverviewsAssumption DEF TablesInv
<1>3. log \subseteq [id : 1 .. MaxLog + MaxWrites[op], at : Nat, entry : EntryIds]
  BY <1>2 DEF Init
<1> QED
  BY <1>1, <1>3 DEF Init, TypeOK, TablesInv

LEMMA ReadType == TypeInv /\ Read => TypeOK' /\ HistoryInv'
<1> SUFFICES ASSUME TypeInv, Read PROVE TypeOK' /\ HistoryInv'
  OBVIOUS
<1>1. UNCHANGED <<schemas, entries, granted, log, writes, op>> /\ HistoryInv'
  BY DEF Read, tables, TypeInv, HistoryInv
<1>2. CASE ListSchemas
  BY <1>1, <1>2 DEF ListSchemas, paging, TypeInv, TypeOK
<1>3. CASE ListEntries
  <2>1. rows' \in [EntryIds -> Entry \union {Gone}]
    BY <1>3 DEF ListEntries, There, TypeInv, TypeOK
  <2>2. /\ todo' \subseteq {e \in EntryIds : rows'[e] # Gone}
        /\ visible' \subseteq {e \in EntryIds : rows'[e] # Gone} \ todo'
    BY <1>3 DEF ListEntries, There, Open
  <2> QED
    BY <1>1, <1>3, <2>1, <2>2 DEF ListEntries, paging, TypeInv, TypeOK
<1>4. ASSUME NEW e \in todo, CheckAccess(e) PROVE TypeOK'
  BY <1>1, <1>4 DEF CheckAccess, paging, TypeInv, TypeOK
<1>5. CASE Count
  <2>1. HistoryListed \in SUBSET log /\ IsFiniteSet(log)
    BY DEF HistoryListed, TypeInv, HistoryInv
  <2>2. total' \in Nat
    BY <1>5, <2>1, FiniteSubset DEF Count
  <2> QED
    BY <1>1, <1>5, <2>2 DEF Count, listing, TypeInv, TypeOK
<1>6. CASE ReadPage
  <2>1. \A h \in PageFrom(offset) : h.id \in 1 .. MaxLog + MaxWrites[op]
    BY DEF PageFrom, Page, HistoryListed, TypeInv, TypeOK
  <2>2. seen' \subseteq 1 .. MaxLog + MaxWrites[op]
    BY <1>6, <2>1 DEF ReadPage, TypeInv, TypeOK
  <2>3. offset' \in Nat /\ pc' \in {"count", "done"}
    BY <1>6, OverviewsAssumption DEF ReadPage, TypeInv, TypeOK
  <2> QED
    BY <1>1, <1>6, <2>2, <2>3 DEF ReadPage, listing, TypeInv, TypeOK
<1> QED
  BY <1>1, <1>2, <1>3, <1>4, <1>5, <1>6 DEF Read

\* The others take rows of history away, or add one that has a new id.
LEMMA OthersHistory ==
  ASSUME TypeInv, Others
  PROVE  /\ writes < MaxWrites[op] /\ Write /\ granted' \subseteq EntryIds
         /\ \/ log' \subseteq log
            \/ \E t \in Nat, e \in EntryIds :
                 log' = log \union {[id |-> MaxLog + writes + 1, at |-> t, entry |-> e]}
<1>1. ASSUME NEW s \in SchemaIds, CreateSchema(s) \/ DeleteSchema(s)
      PROVE  Write /\ granted' \subseteq EntryIds /\ log' \subseteq log
  BY <1>1 DEF CreateSchema, DeleteSchema, TypeInv, TypeOK
<1>2. ASSUME NEW e \in EntryIds, NEW l \in Levels,
             CreateEntry(e, l) \/ UpdateEntry(e, l) \/ DeleteEntry(e) \/ ChangeGrant(e)
      PROVE  Write /\ granted' \subseteq EntryIds /\ log' \subseteq log
  BY <1>2 DEF CreateEntry, UpdateEntry, DeleteEntry, ChangeGrant, TypeInv, TypeOK
<1>3. ASSUME NEW e \in EntryIds, NEW t \in Nat, AddHistory(e, t)
      PROVE  /\ Write /\ granted' \subseteq EntryIds
             /\ log' = log \union {[id |-> MaxLog + writes + 1, at |-> t, entry |-> e]}
  BY <1>3 DEF AddHistory, TypeInv, TypeOK
<1>4. "own" \in Levels /\ 1 .. 2 * MaxLog \subseteq Nat
  BY OverviewsAssumption DEF Levels
<1>5. Write => writes < MaxWrites[op]
  BY DEF Write
<1> QED
  BY <1>1, <1>2, <1>3, <1>4, <1>5 DEF Others

LEMMA OthersType == TypeInv /\ Others => TypeOK' /\ HistoryInv'
<1> SUFFICES ASSUME TypeInv, Others PROVE TypeOK' /\ HistoryInv'
  OBVIOUS
<1>1. /\ op' = op /\ writes' = writes + 1 /\ writes < MaxWrites[op] /\ writes \in Nat
      /\ MaxWrites[op] \in Nat /\ MaxLog \in Nat /\ granted' \subseteq EntryIds
      /\ UNCHANGED <<pc, listing, paging>>
  BY OthersHistory, OverviewsAssumption DEF Write, TypeInv, TypeOK
<1>2. TablesInv'
  BY OthersStep DEF TypeInv, ListInv
<1>3. HistoryInv' /\ log' \subseteq [id : 1 .. MaxLog + MaxWrites[op], at : Nat, entry : EntryIds]
  <2>1. CASE log' \subseteq log
    <3>1. IsFiniteSet(log')
      BY <2>1, FiniteSubset DEF TypeInv, HistoryInv
    <3>2. \A h \in log : h.id \in Nat /\ h.id <= MaxLog + writes
      BY DEF TypeInv, TypeOK, HistoryInv
    <3> QED
      BY <1>1, <2>1, <3>1, <3>2 DEF TypeInv, TypeOK, HistoryInv
  <2>2. ASSUME NEW t \in Nat, NEW e \in EntryIds,
               log' = log \union {[id |-> MaxLog + writes + 1, at |-> t, entry |-> e]}
        PROVE  HistoryInv' /\ log' \subseteq [id : 1 .. MaxLog + MaxWrites[op], at : Nat, entry : EntryIds]
    <3> DEFINE row == [id |-> MaxLog + writes + 1, at |-> t, entry |-> e]
    <3>1. IsFiniteSet(log')
      BY <2>2, FS_AddElement DEF TypeInv, HistoryInv
    <3>2. row \in [id : 1 .. MaxLog + MaxWrites[op], at : Nat, entry : EntryIds]
      BY <1>1
    <3>3. \A h \in log : h.id \in Nat /\ h.id < row.id
      BY <1>1 DEF TypeInv, TypeOK, HistoryInv
    <3> QED
      BY <1>1, <2>2, <3>1, <3>2, <3>3 DEF TypeInv, TypeOK, HistoryInv
  <2> QED
    BY <2>1, <2>2, OthersHistory
<1> QED
  BY <1>1, <1>2, <1>3 DEF TypeInv, TypeOK, TablesInv, listing, paging

LEMMA TypeStep == TypeInv /\ [Next]_vars => TypeInv'
<1>1. TypeInv /\ UNCHANGED vars => TypeOK' /\ HistoryInv'
  BY DEF vars, tables, listing, paging, TypeInv, TypeOK, HistoryInv
<1> QED
  BY <1>1, ReadType, OthersType, ListStep DEF Next, Over, TypeInv

LEMMA TypeHolds == Spec => []TypeInv
BY TypeInit, TypeStep, PTL DEF Spec

\* For any number of entries, schemas and writes, every variable keeps its type; so
\* an entry's grants are looked up only if the entry was read, and never twice.
THEOREM TypeCorrect == Spec => []TypeOK
BY TypeHolds, PTL DEF TypeInv

-----------------------------------------------------------------------------
(* The latest entries. *)

\* A row is not updated before it is created.
InOrder(row) == row.updated # None => row.created <= row.updated

TimesInv ==
  /\ \A e \in EntryIds : There(e) => entries[e].created <= writes + 1 /\ InOrder(entries[e])
  /\ \A e \in EntryIds : rows[e] # Gone => InOrder(rows[e])

LEMMA TimesInit == Init => TimesInv
<1> SUFFICES ASSUME Init PROVE TimesInv
  OBVIOUS
<1>1. PICK start \in Start : op = start.op /\ schemas = start.schemas /\ entries = start.entries
  BY DEF Init
<1>2. \A e \in EntryIds : There(e) => entries[e].created \in {0, 1} /\ InOrder(entries[e])
  BY <1>1, OverviewsAssumption DEF There, InOrder
<1> QED
  BY <1>2 DEF Init, TimesInv

LEMMA TimesStep == TypeInv /\ TimesInv /\ [Next]_vars => TimesInv'
<1> SUFFICES ASSUME TypeInv, TimesInv, [Next]_vars PROVE TimesInv'
  OBVIOUS
<1>1. /\ writes \in Nat /\ Times \subseteq Nat /\ None \notin Times
      /\ entries \in [EntryIds -> Entry \union {Unborn, Gone}]
  BY OverviewsAssumption DEF TypeInv, TypeOK, Times
<1>2. \A e \in EntryIds : There(e) => entries[e].created \in Nat
  BY <1>1 DEF There, Entry
<1>3. CASE UNCHANGED vars
  BY <1>3 DEF vars, tables, listing, TimesInv, There
<1>4. CASE Read
  <2>1. UNCHANGED <<entries, writes>>
    BY <1>4 DEF Read, tables
  <2>2. rows' = rows \/ rows' = [e \in EntryIds |-> IF There(e) THEN entries[e] ELSE Gone]
    BY <1>4 DEF Read, ListSchemas, ListEntries, CheckAccess, Count, ReadPage, listing
  <2> QED
    BY <2>1, <2>2 DEF TimesInv, There
<1>5. CASE Others
  <2>1. rows' = rows /\ writes' = writes + 1
    BY <1>5, OthersHistory DEF Write, listing
  <2>2. ASSUME NEW f \in EntryIds, There(f)', entries'[f] # entries[f]
        PROVE  entries'[f].created <= writes + 2 /\ InOrder(entries'[f])
    <3>1. ASSUME NEW s \in SchemaIds, CreateSchema(s) \/ DeleteSchema(s)
          PROVE  FALSE
      BY <2>2, <3>1 DEF CreateSchema, DeleteSchema, There
    <3>2. ASSUME NEW e \in EntryIds, NEW l \in Levels, CreateEntry(e, l)
          PROVE  entries'[f] = [level |-> l, created |-> Now, updated |-> None]
      BY <1>1, <2>2, <3>2 DEF CreateEntry
    <3>3. ASSUME NEW e \in EntryIds, NEW l \in Levels, UpdateEntry(e, l)
          PROVE  There(f) /\ entries'[f] = [entries[f] EXCEPT !.level = l, !.updated = Now]
      BY <1>1, <2>2, <3>3 DEF UpdateEntry
    <3>4. ASSUME NEW e \in EntryIds, DeleteEntry(e) \/ ChangeGrant(e) \/ \E t \in 1 .. 2 * MaxLog : AddHistory(e, t)
          PROVE  FALSE
      BY <1>1, <2>2, <3>4 DEF DeleteEntry, ChangeGrant, AddHistory, There
    <3>5. ASSUME NEW l \in Levels, There(f), entries'[f] = [entries[f] EXCEPT !.level = l, !.updated = Now]
          PROVE  /\ entries'[f].created = entries[f].created
                 /\ entries'[f].updated = writes + 2
      BY <1>1, <3>5 DEF Now, There, Entry
    <3>6. There(f) => entries[f].created \in Nat /\ entries[f].created <= writes + 1
      BY <1>2 DEF TimesInv
    <3>7. ASSUME NEW l \in Levels, entries'[f] = [level |-> l, created |-> Now, updated |-> None]
          PROVE  entries'[f].created <= writes + 2 /\ InOrder(entries'[f])
      BY <1>1, <3>7 DEF Now, InOrder
    <3>8. ASSUME NEW l \in Levels, There(f), entries'[f] = [entries[f] EXCEPT !.level = l, !.updated = Now]
          PROVE  entries'[f].created <= writes + 2 /\ InOrder(entries'[f])
      <4>1. /\ entries'[f].created = entries[f].created /\ entries'[f].updated = writes + 2
            /\ entries[f].created \in Nat /\ entries[f].created <= writes + 1
        BY <3>5, <3>6, <3>8
      <4> QED
        BY <1>1, <4>1 DEF InOrder
    <3> QED
      BY <1>5, <3>1, <3>2, <3>3, <3>4, <3>7, <3>8 DEF Others
  <2>3. ASSUME NEW f \in EntryIds, There(f)'
        PROVE  entries'[f].created <= writes' + 1 /\ InOrder(entries'[f])
    <3>1. CASE entries'[f] = entries[f]
      <4>1. There(f)
        BY <2>3, <3>1 DEF There
      <4> QED
        BY <1>1, <1>2, <2>1, <3>1, <4>1 DEF TimesInv
    <3>2. CASE entries'[f] # entries[f]
      BY <1>1, <2>1, <2>2, <2>3, <3>2
    <3> QED
      BY <3>1, <3>2
  <2> QED
    BY <2>1, <2>3 DEF TimesInv, InOrder
<1> QED
  BY <1>3, <1>4, <1>5 DEF Next, Over

\* What comes before e by a key, ids breaking ties.
Before(key, e) == {f \in visible : key[f] > key[e] \/ (key[f] = key[e] /\ f > e)}

\* What is not among the first n has n others before it, and the first n are some of
\* them.
LEMMA NotInTop ==
  ASSUME NEW n \in Nat, NEW key \in [visible -> Nat], visible \subseteq Nat, IsFiniteSet(visible),
         NEW e \in visible, SchemaOf[e] \in known, e \notin Top(n, key)
  PROVE  Cardinality(Before(key, e)) >= n /\ Top(n, key) \subseteq Before(key, e)
<1>1. \A f \in visible : Before(key, f) \in SUBSET visible /\ Cardinality(Before(key, f)) \in Nat
  <2>1. \A f \in visible : Before(key, f) \in SUBSET visible
    BY DEF Before
  <2> QED
    BY <2>1, FiniteSubset
<1>2. Cardinality(Before(key, e)) >= n
  <2>1. ~(Cardinality(Before(key, e)) < n)
    BY DEF Top, Before
  <2> QED
    BY <1>1, <2>1
<1>3. ASSUME NEW f \in Top(n, key), f \notin Before(key, e) PROVE FALSE
  <2>1. f \in visible /\ Cardinality(Before(key, f)) < n
    BY <1>3 DEF Top, Before
  <2>2. f = e \/ key[e] > key[f] \/ (key[e] = key[f] /\ e > f)
    <3>1. key[e] \in Nat /\ key[f] \in Nat /\ e \in Nat /\ f \in Nat
      BY <2>1
    <3> QED
      BY <1>3, <2>1, <3>1 DEF Before
  <2>3. Before(key, e) \subseteq Before(key, f)
    <3> SUFFICES ASSUME NEW g \in Before(key, e) PROVE g \in Before(key, f)
      OBVIOUS
    <3>1. /\ key[e] \in Nat /\ key[f] \in Nat /\ key[g] \in Nat
          /\ e \in Nat /\ f \in Nat /\ g \in Nat /\ g \in visible
      BY <2>1 DEF Before
    <3> QED
      BY <2>2, <3>1 DEF Before
  <2>4. IsFiniteSet(Before(key, f))
    BY <1>1, <2>1, FiniteSubset
  <2>5. Cardinality(Before(key, e)) <= Cardinality(Before(key, f))
    BY <2>3, <2>4, FiniteSubset
  <2> QED
    BY <1>1, <1>2, <2>1, <2>5
<1> QED
  BY <1>2, <1>3

\* So a list of the first n by a key leaves e out only in favour of what the key puts
\* before it.
LEMMA TopYields ==
  ASSUME NEW n \in Nat, NEW key \in [visible -> Nat], visible \subseteq Nat, IsFiniteSet(visible),
         NEW e \in visible, SchemaOf[e] \in known,
         NEW ahead \in SUBSET visible, Before(key, e) \subseteq ahead
  PROVE  YieldsOnlyTo(Top(n, key), n, e, ahead)
<1> SUFFICES ASSUME e \notin Top(n, key)
             PROVE  Top(n, key) \subseteq ahead /\ Cardinality(ahead) >= n
  BY DEF YieldsOnlyTo
<1>1. Cardinality(Before(key, e)) >= n /\ Top(n, key) \subseteq Before(key, e)
  BY NotInTop
<1>2. IsFiniteSet(ahead)
  BY FiniteSubset
<1>3. /\ Cardinality(Before(key, e)) \in Nat /\ Cardinality(ahead) \in Nat
      /\ Cardinality(Before(key, e)) <= Cardinality(ahead)
  BY <1>2, FiniteSubset
<1> QED
  BY <1>1, <1>3

\* For any finite number of entries, what was visible and untouched all the time is
\* missing from a list only if the list is full, and full of what may stand ahead of it
\* by the order of that list: entries created no earlier, not behind it, or looked up
\* before it.
THEOREM LatestAreLatest == IsFiniteSet(EntryIds) => (Spec => []LatestAreTheLatest)
<1> SUFFICES ASSUME IsFiniteSet(EntryIds) PROVE Spec => []LatestAreTheLatest
  OBVIOUS
<1>1. TypeInv /\ TimesInv => LatestAreTheLatest
  <2> SUFFICES ASSUME TypeInv, TimesInv, op = "entries", Answered, NEW e \in Steady
               PROVE  LET others == visible \ {e} IN
                      /\ YieldsOnlyTo(LatestCreated, Latest, e,
                                      {f \in others : rows[f].created >= rows[e].created})
                      /\ YieldsOnlyTo(LatestUpdated, Latest, e, {f \in others : NotBehind(f, e)})
                      /\ YieldsOnlyTo(Lookup, Limit, e, {f \in others : LookedUpBefore(f, e)})
    BY DEF LatestAreTheLatest
  <2>1. pc = "check" /\ todo = {}
    BY DEF TypeInv, ListInv, ListingInv, Answered
  <2>2. e \in visible /\ SchemaOf[e] \in known
    BY <2>1 DEF TypeInv, ListInv, ListingInv, Steady
  <2>3. IsFiniteSet(visible) /\ visible \subseteq {f \in EntryIds : rows[f] # Gone}
    BY FS_Subset DEF TypeInv, TypeOK
  <2>4. \A f \in visible :
          f \in Nat /\ rows[f].created \in Times /\ rows[f].updated \in Times \union {None}
    BY <2>3, OverviewsAssumption DEF TypeInv, TypeOK, Entry
  <2>5. Times \subseteq Nat /\ None \notin Times /\ Latest \in Nat /\ Limit \in Nat
    BY OverviewsAssumption DEF Times
  <2>6. \A f \in visible : /\ f \in Nat /\ rows[f].created \in Nat
                           /\ rows[f].updated # None => rows[f].updated \in Nat
    BY <2>4, <2>5
  <2>7. Created \in [visible -> Nat] /\ UpdatedOrCreated \in [visible -> Nat] /\ NullsLast \in [visible -> Nat]
    <3>1. \A f \in visible : rows[f].updated # None => rows[f].updated + 1 \in Nat
      BY <2>6
    <3> QED
      BY <2>6, <3>1 DEF Created, UpdatedOrCreated, NullsLast
  <2> DEFINE others == visible \ {e}
             createdNoEarlier == {f \in others : rows[f].created >= rows[e].created}
             notBehind == {f \in others : NotBehind(f, e)}
             lookedUpBefore == {f \in others : LookedUpBefore(f, e)}
  <2>8. ASSUME NEW key \in [visible -> Nat], NEW f \in Before(key, e)
        PROVE  f \in others /\ key[f] \in Nat /\ key[e] \in Nat /\ key[f] >= key[e]
    BY <2>2, <2>6 DEF Before
  <2>9. Before(Created, e) \subseteq createdNoEarlier
    <3> SUFFICES ASSUME NEW f \in Before(Created, e) PROVE f \in createdNoEarlier
      OBVIOUS
    <3>1. f \in others /\ Created[f] >= Created[e]
      BY <2>7, <2>8
    <3> QED
      BY <2>2, <3>1 DEF Created
  <2>10. Before(UpdatedOrCreated, e) \subseteq notBehind
    <3> SUFFICES ASSUME NEW f \in Before(UpdatedOrCreated, e) PROVE NotBehind(f, e) /\ f \in others
      OBVIOUS
    <3>1. f \in others /\ UpdatedOrCreated[f] >= UpdatedOrCreated[e]
      BY <2>7, <2>8
    <3>2. UpdatedOrCreated[f] \in Stamps(rows[f])
      BY <2>4, <2>5, <3>1 DEF UpdatedOrCreated, Stamps
    <3>3. \A u \in Stamps(rows[e]) : UpdatedOrCreated[e] >= u
      <4>1. InOrder(rows[e])
        BY <2>2, <2>3 DEF TimesInv
      <4>2. CASE rows[e].updated = None
        <5>1. UpdatedOrCreated[e] = rows[e].created /\ Stamps(rows[e]) \subseteq {rows[e].created}
          BY <2>2, <4>2 DEF UpdatedOrCreated, Stamps
        <5> QED
          BY <2>2, <2>6, <5>1
      <4>3. CASE rows[e].updated # None
        <5>1. UpdatedOrCreated[e] = rows[e].updated /\ Stamps(rows[e]) \subseteq {rows[e].created, rows[e].updated}
          BY <2>2, <4>3 DEF UpdatedOrCreated, Stamps
        <5>2. rows[e].created <= rows[e].updated /\ rows[e].created \in Nat /\ rows[e].updated \in Nat
          BY <2>2, <2>6, <4>1, <4>3 DEF InOrder
        <5> QED
          BY <5>1, <5>2
      <4> QED
        BY <4>2, <4>3
    <3>4. \A u \in Stamps(rows[e]) : u \in Nat
      BY <2>2, <2>6 DEF Stamps
    <3>5. \A u \in Stamps(rows[e]) : UpdatedOrCreated[f] >= u
      BY <2>2, <2>7, <3>1, <3>3, <3>4
    <3> QED
      BY <3>1, <3>2, <3>5 DEF NotBehind
  <2>11. Before(NullsLast, e) \subseteq lookedUpBefore
    <3> SUFFICES ASSUME NEW f \in Before(NullsLast, e) PROVE LookedUpBefore(f, e) /\ f \in others
      OBVIOUS
    <3>1. f \in others /\ (NullsLast[f] > NullsLast[e] \/ f > e) /\ NullsLast[f] >= NullsLast[e]
      BY <2>2, <2>6, <2>7, <2>8 DEF Before
    <3>2. CASE rows[e].updated = None /\ rows[f].updated = None
      <4>1. NullsLast[f] = 0 /\ NullsLast[e] = 0
        BY <2>2, <3>1, <3>2 DEF NullsLast
      <4> QED
        BY <3>1, <3>2, <4>1 DEF LookedUpBefore
    <3>3. CASE rows[e].updated = None /\ rows[f].updated # None
      BY <3>1, <3>3 DEF LookedUpBefore
    <3>4. CASE rows[e].updated # None
      <4>1. NullsLast[e] = rows[e].updated + 1 /\ rows[e].updated \in Nat
        BY <2>2, <2>6, <3>4 DEF NullsLast
      <4>2. rows[f].updated # None
        <5> SUFFICES ASSUME rows[f].updated = None PROVE FALSE
          OBVIOUS
        <5>1. NullsLast[f] = 0
          BY <3>1 DEF NullsLast
        <5> QED
          BY <3>1, <4>1, <5>1
      <4>3. NullsLast[f] = rows[f].updated + 1 /\ rows[f].updated \in Nat
        BY <2>6, <3>1, <4>2 DEF NullsLast
      <4> QED
        BY <3>1, <3>4, <4>1, <4>2, <4>3 DEF LookedUpBefore
    <3> QED
      BY <3>2, <3>3, <3>4
  <2>12. visible \subseteq Nat /\ createdNoEarlier \in SUBSET visible
         /\ notBehind \in SUBSET visible /\ lookedUpBefore \in SUBSET visible
    BY <2>6
  <2>13. YieldsOnlyTo(LatestCreated, Latest, e, createdNoEarlier)
    BY <2>2, <2>3, <2>5, <2>7, <2>9, <2>12, TopYields DEF LatestCreated
  <2>14. YieldsOnlyTo(LatestUpdated, Latest, e, notBehind)
    BY <2>2, <2>3, <2>5, <2>7, <2>10, <2>12, TopYields DEF LatestUpdated
  <2>15. YieldsOnlyTo(Lookup, Limit, e, lookedUpBefore)
    BY <2>2, <2>3, <2>5, <2>7, <2>11, <2>12, TopYields DEF Lookup
  <2> QED
    BY <2>13, <2>14, <2>15
<1> QED
  BY <1>1, TypeHolds, TimesInit, TimesStep, PTL DEF Spec

-----------------------------------------------------------------------------
(* The totals per schema. *)

\* A schema that was there at the start and still is, is in the schema map; so is
\* the schema of every row read, unless it came meanwhile.
SchemaMapInv ==
  /\ "schemas" \in DOMAIN since
  /\ \A s \in since.schemas : schemas[s] # Unborn
  /\ pc = "entries" => \A s \in since.schemas : HasSchema(s) => s \in known
  /\ pc = "check" =>
       \A e \in EntryIds : (rows[e] # Gone /\ SchemaOf[e] \in since.schemas) => SchemaOf[e] \in known
  /\ since.schemas \subseteq SchemaIds

LEMMA SchemaMapInit == Init => SchemaMapInv
<1> SUFFICES ASSUME Init PROVE SchemaMapInv
  OBVIOUS
<1>1. /\ "schemas" \in DOMAIN since /\ since.schemas = {s \in SchemaIds : HasSchema(s)}
      /\ pc \notin {"entries", "check"}
  BY DEF Init
<1>2. \A s \in SchemaIds : HasSchema(s) => schemas[s] # Unborn
  BY OverviewsAssumption DEF HasSchema
<1> QED
  BY <1>1, <1>2 DEF SchemaMapInv

LEMMA SchemaMapStep == TypeInv /\ SchemaMapInv /\ [Next]_vars => SchemaMapInv'
<1> SUFFICES ASSUME TypeInv, SchemaMapInv, [Next]_vars PROVE SchemaMapInv'
  OBVIOUS
<1>1. CASE UNCHANGED vars
  BY <1>1 DEF vars, tables, listing, SchemaMapInv, HasSchema
<1>2. CASE Read
  <2>1. UNCHANGED <<schemas, entries, op>>
    BY <1>2 DEF Read, tables
  <2>2. CASE ListSchemas
    BY <2>1, <2>2 DEF ListSchemas, SchemaMapInv, HasSchema, InSchemaMap
  <2>3. CASE ListEntries
    <3>1. /\ pc = "entries" /\ pc' = "check" /\ UNCHANGED <<known, since>>
          /\ rows' = [e \in EntryIds |-> IF There(e) THEN entries[e] ELSE Gone]
      BY <2>3 DEF ListEntries
    <3>2. \A e \in EntryIds : There(e) => HasSchema(SchemaOf[e])
      BY DEF TypeInv, ListInv, TablesInv
    <3> QED
      BY <2>1, <3>1, <3>2 DEF SchemaMapInv, HasSchema
  <2>4. ASSUME NEW e \in todo, CheckAccess(e) PROVE SchemaMapInv'
    BY <2>1, <2>4 DEF CheckAccess, SchemaMapInv, HasSchema
  <2>5. CASE Count \/ ReadPage
    <3>1. /\ pc' \notin {"entries", "check"} /\ (since' = since \/ since' = [since EXCEPT !.slipped = 0])
      BY <2>5 DEF Count, ReadPage
    <3>2. "schemas" \in DOMAIN since' /\ since'.schemas = since.schemas
      BY <3>1 DEF SchemaMapInv
    <3> QED
      BY <2>1, <3>1, <3>2 DEF SchemaMapInv
  <2> QED
    BY <1>2, <2>2, <2>3, <2>4, <2>5 DEF Read
<1>3. CASE Others
  <2>1. /\ "schemas" \in DOMAIN since' /\ since'.schemas = since.schemas
        /\ UNCHANGED <<pc, known, rows>>
    BY <1>3, OthersHistory DEF Write, listing
  <2>2. \A s \in SchemaIds : schemas[s] # Unborn => schemas'[s] # Unborn
    BY <1>3, OverviewsAssumption DEF Others, CreateSchema, DeleteSchema, CreateEntry, UpdateEntry,
       DeleteEntry, ChangeGrant, AddHistory, TypeInv, TypeOK
  <2>3. \A s \in SchemaIds : schemas[s] # Unborn => (HasSchema(s)' => HasSchema(s))
    BY <1>3, OverviewsAssumption DEF Others, CreateSchema, DeleteSchema, CreateEntry, UpdateEntry,
       DeleteEntry, ChangeGrant, AddHistory, TypeInv, TypeOK, HasSchema
  <2> QED
    BY <2>1, <2>2, <2>3 DEF SchemaMapInv
<1> QED
  BY <1>1, <1>2, <1>3 DEF Next, Over

\* Induction over the subsets of a finite set: if a set of them is not empty, one of
\* them is minimal.
LEMMA MinimalSubset ==
  ASSUME NEW S, IsFiniteSet(S), NEW T \in SUBSET SUBSET S, T # {}
  PROVE  \E m \in T : \A n \in T : n \subseteq m => n = m
<1>1. IsWellFoundedOn(StrictSubsetOrdering(S), SUBSET S)
  BY FS_FiniteSubsetsOfFinite, FS_StrictSubsetOrderingWellFounded
<1>2. PICK x \in T : \A y \in T : ~(<<y, x>> \in StrictSubsetOrdering(S))
  BY <1>1, WFMin
<1> QED
  BY <1>2 DEF StrictSubsetOrdering

\* The recursion that MapThenSumSet stands for.
SumsUp(g, S) ==
  g = [s \in SUBSET S |->
         IF s = {} THEN 0
         ELSE TotalOfSchema(CHOOSE x \in s : TRUE) + g[s \ {CHOOSE x \in s : TRUE}]]

LEMMA SumIsRecursive ==
  ASSUME NEW S
  PROVE  MapThenSumSet(TotalOfSchema, S) = (CHOOSE g : SumsUp(g, S))[S]
BY Zenon DEF MapThenSumSet, MapThenFoldSet, SumsUp

\* The visible entries of those of the schemas that the schema map has.
VisibleOf(s) == {e \in visible : SchemaOf[e] \in s \intersect known}

LEMMA VisibleOfSplit ==
  ASSUME NEW s, NEW x \in s, IsFiniteSet(visible)
  PROVE  Cardinality(VisibleOf(s)) = TotalOfSchema(x) + Cardinality(VisibleOf(s \ {x}))
<1> DEFINE own == VisibleOf({x})
           rest == VisibleOf(s \ {x})
<1>1. own \in SUBSET visible /\ rest \in SUBSET visible
  BY DEF VisibleOf
<1>2. IsFiniteSet(own) /\ IsFiniteSet(rest) /\ Cardinality(own) \in Nat /\ Cardinality(rest) \in Nat
  BY <1>1, FiniteSubset
<1>3. VisibleOf(s) = own \union rest /\ own \intersect rest = {}
  BY DEF VisibleOf
<1>4. Cardinality(VisibleOf(s)) = Cardinality(own) + Cardinality(rest)
  <2> HIDE DEF own, rest
  <2> QED
    BY <1>2, <1>3, DisjointUnion
<1>5. Cardinality(own) = TotalOfSchema(x)
  <2>1. CASE x \in known
    <3>1. own = EntriesOfSchema(x)
      BY <2>1 DEF VisibleOf, EntriesOfSchema
    <3> QED
      BY <2>1, <3>1 DEF TotalOfSchema
  <2>2. CASE x \notin known
    <3>1. own = {}
      BY <2>2 DEF VisibleOf
    <3> QED
      BY <2>2, <3>1, FS_EmptySet DEF TotalOfSchema
  <2> QED
    BY <2>1, <2>2
<1> QED
  BY <1>4, <1>5

\* The sum of the totals per schema is the number of visible entries whose schema the
\* schema map has.
LEMMA SumOfTotals ==
  ASSUME NEW S, IsFiniteSet(S), IsFiniteSet(visible)
  PROVE  MapThenSumSet(TotalOfSchema, S) = Cardinality(VisibleOf(S))
<1> DEFINE pick(s) == CHOOSE x \in s : TRUE
           g == CHOOSE g : SumsUp(g, S)
<1>1. \A s : s # {} => pick(s) \in s
  OBVIOUS
<1>2. Cardinality(VisibleOf({})) = 0
  <2>1. VisibleOf({}) = {}
    BY DEF VisibleOf
  <2> QED
    BY <2>1, FS_EmptySet
<1> HIDE DEF pick
<1>3. SumsUp(g, S)
  <2> DEFINE h == [s \in SUBSET S |-> Cardinality(VisibleOf(s))]
  <2>1. \A s \in SUBSET S : h[s] = IF s = {} THEN 0 ELSE TotalOfSchema(pick(s)) + h[s \ {pick(s)}]
    <3>1. ASSUME NEW s \in SUBSET S, s # {}
          PROVE  h[s] = TotalOfSchema(pick(s)) + h[s \ {pick(s)}]
      <4>1. pick(s) \in s /\ s \ {pick(s)} \in SUBSET S
        BY <1>1, <3>1
      <4>2. Cardinality(VisibleOf(s)) = TotalOfSchema(pick(s)) + Cardinality(VisibleOf(s \ {pick(s)}))
        BY <4>1, VisibleOfSplit
      <4> QED
        BY <4>1, <4>2
    <3> QED
      BY <1>2, <3>1
  <2>2. h = [s \in SUBSET S |-> h[s]]
    OBVIOUS
  <2> HIDE DEF h
  <2>3. h = [s \in SUBSET S |-> IF s = {} THEN 0 ELSE TotalOfSchema(pick(s)) + h[s \ {pick(s)}]]
    BY <2>1, <2>2
  <2>4. SumsUp(h, S)
    BY <2>3 DEF SumsUp, pick
  <2> QED
    BY <2>4
<1> HIDE DEF g
<1>4. \A s \in SUBSET S : g[s] = IF s = {} THEN 0 ELSE TotalOfSchema(pick(s)) + g[s \ {pick(s)}]
  BY <1>3, Zenon DEF SumsUp, pick
<1>5. g[S] = Cardinality(VisibleOf(S))
  <2> DEFINE wrong == {s \in SUBSET S : g[s] # Cardinality(VisibleOf(s))}
  <2>1. SUFFICES ASSUME wrong # {} PROVE FALSE
    OBVIOUS
  <2>2. PICK m \in wrong : \A n \in wrong : n \subseteq m => n = m
    <3>1. wrong \in SUBSET SUBSET S
      OBVIOUS
    <3> HIDE DEF wrong
    <3> QED
      BY <2>1, <3>1, MinimalSubset
  <2>3. m # {}
    BY <1>2, <1>4, <2>2
  <2>4. pick(m) \in m /\ m \ {pick(m)} \in SUBSET S /\ m \ {pick(m)} \notin wrong
    BY <1>1, <2>2, <2>3
  <2>5. Cardinality(VisibleOf(m)) = TotalOfSchema(pick(m)) + Cardinality(VisibleOf(m \ {pick(m)}))
    BY <2>4, VisibleOfSplit
  <2> QED
    BY <1>4, <2>2, <2>3, <2>4, <2>5
<1> QED
  BY <1>5, SumIsRecursive DEF g

\* For any finite numbers of entries and schemas, the totals per schema add up to the
\* dashboard's total, but for entries of schemas that came while it was put together.
THEOREM TotalsAddUp ==
  (IsFiniteSet(EntryIds) /\ IsFiniteSet(SchemaIds)) => (Spec => []TotalsAgree)
<1> SUFFICES ASSUME IsFiniteSet(EntryIds), IsFiniteSet(SchemaIds) PROVE Spec => []TotalsAgree
  OBVIOUS
<1>1. TypeInv /\ SchemaMapInv => TotalsAgree
  <2> DEFINE newcomers == {e \in EntryIds : rows[e] # Gone /\ SchemaOf[e] \notin since.schemas}
             shown == VisibleOf(SchemaIds)
  <2>1. TypeInv => IsFiniteSet(visible)
    BY FS_Subset DEF TypeInv, ListInv, ListingInv
  <2> SUFFICES ASSUME TypeInv, SchemaMapInv, op = "entries", Answered
               PROVE  /\ Cardinality(shown) <= Cardinality(visible)
                      /\ Cardinality(visible) <= Cardinality(shown) + Cardinality(newcomers)
    BY <2>1, SumOfTotals DEF TotalsAgree, TotalEntries
  <2>2. pc = "check"
    BY DEF TypeInv, ListInv, ListingInv, Answered
  <2>3. visible \subseteq shown \union newcomers /\ shown \subseteq visible /\ newcomers \subseteq EntryIds
    BY <2>2, OverviewsAssumption DEF SchemaMapInv, VisibleOf, TypeInv, TypeOK
  <2>4. IsFiniteSet(visible) /\ IsFiniteSet(newcomers)
    BY <2>3, FS_Subset DEF TypeInv, TypeOK
  <2> HIDE DEF shown, newcomers
  <2>5. IsFiniteSet(shown) /\ Cardinality(shown) \in Nat /\ Cardinality(shown) <= Cardinality(visible)
    BY <2>3, <2>4, FiniteSubset
  <2>6. /\ IsFiniteSet(shown \union newcomers)
        /\ Cardinality(shown \union newcomers) =
             Cardinality(shown) + Cardinality(newcomers) - Cardinality(shown \intersect newcomers)
        /\ Cardinality(shown \intersect newcomers) \in Nat /\ Cardinality(newcomers) \in Nat
    BY <2>4, <2>5, FS_Union, FS_Intersection, FS_CardinalityType
  <2>7. /\ Cardinality(visible) <= Cardinality(shown \union newcomers)
        /\ Cardinality(visible) \in Nat /\ Cardinality(shown \union newcomers) \in Nat
    BY <2>3, <2>6, FiniteSubset
  <2> QED
    BY <2>5, <2>6, <2>7
<1> QED
  BY <1>1, TypeHolds, SchemaMapInit, SchemaMapStep, PTL DEF Spec

-----------------------------------------------------------------------------
(* How rows of history are ranked. *)

Ranked(rs) ==
  /\ IsFiniteSet(rs)
  /\ \A h \in rs : h.id \in Nat /\ h.at \in Nat
  /\ \A g, h \in rs : g.id = h.id => g = h

\* ORDER BY is a strict total order: the id decides between equal times.
LEMMA LaterIsTotal ==
  ASSUME NEW rs, Ranked(rs), NEW g \in rs, NEW h \in rs
  PROVE  /\ ~Later(h, h)
         /\ g # h => Later(g, h) \/ Later(h, g)
         /\ Later(g, h) => ~Later(h, g)
         /\ \A k \in rs : Later(k, g) /\ Later(g, h) => Later(k, h)
<1>1. /\ g.id \in Nat /\ g.at \in Nat /\ h.id \in Nat /\ h.at \in Nat
      /\ \A k \in rs : k.id \in Nat /\ k.at \in Nat
      /\ g # h => g.id # h.id
  BY DEF Ranked
<1> QED
  BY <1>1 DEF Later

LEMMA RankType ==
  ASSUME NEW rs, Ranked(rs), NEW h
  PROVE  /\ Rank(rs, h) \in Nat
         /\ IsFiniteSet({g \in rs : Later(g, h)})
<1>1. {g \in rs : Later(g, h)} \in SUBSET rs
  OBVIOUS
<1> QED
  BY <1>1, FiniteSubset DEF Rank, Ranked

LEMMA RankGrows ==
  ASSUME NEW rs, Ranked(rs), NEW g \in rs, NEW h \in rs, Later(g, h)
  PROVE  Rank(rs, g) < Rank(rs, h)
<1> DEFINE A == {k \in rs : Later(k, g)}
           B == {k \in rs : Later(k, h)}
<1>1. A \in SUBSET (B \ {g}) /\ g \in B
  BY LaterIsTotal
<1>2. IsFiniteSet(B) /\ Cardinality(B) \in Nat
  BY RankType DEF Rank
<1> HIDE DEF A, B
<1>3. IsFiniteSet(B \ {g}) /\ Cardinality(B \ {g}) = Cardinality(B) - 1
  BY <1>1, <1>2, FS_RemoveElement
<1>4. Cardinality(A) \in Nat /\ Cardinality(A) <= Cardinality(B \ {g})
  BY <1>1, <1>3, FiniteSubset
<1>5. Cardinality(A) < Cardinality(B)
  BY <1>2, <1>3, <1>4
<1> QED
  BY <1>5 DEF A, B, Rank

\* So the rank decides the order, and no two rows have the same.
LEMMA RankDecides ==
  ASSUME NEW rs, Ranked(rs), NEW g \in rs, NEW h \in rs
  PROVE  /\ Rank(rs, g) < Rank(rs, h) => Later(g, h)
         /\ Rank(rs, g) = Rank(rs, h) => g = h
<1>1. Rank(rs, g) \in Nat /\ Rank(rs, h) \in Nat
  BY RankType
<1>2. g # h => Later(g, h) \/ Later(h, g)
  BY LaterIsTotal
<1>3. /\ Later(g, h) => Rank(rs, g) < Rank(rs, h)
      /\ Later(h, g) => Rank(rs, h) < Rank(rs, g)
  BY RankGrows
<1> QED
  BY <1>1, <1>2, <1>3

\* Induction over the naturals: a set of them that is not empty has a least element.
LEMMA LeastNatural ==
  ASSUME NEW T \in SUBSET Nat, T # {}
  PROVE  \E m \in T : \A n \in T : m <= n
<1>1. PICK x \in T : \A y \in T : ~(<<y, x>> \in OpToRel(<, Nat))
  BY WFMin, NatLessThanWellFounded
<1>2. \A y \in T : ~(y < x)
  BY <1>1 DEF OpToRel
<1> QED
  BY <1>2

\* The first n rows.
First(rs, n) == {h \in rs : Rank(rs, h) < n}

LEMMA FirstFinite ==
  ASSUME NEW rs, Ranked(rs), NEW n
  PROVE  IsFiniteSet(First(rs, n)) /\ Cardinality(First(rs, n)) \in Nat
<1>1. First(rs, n) \in SUBSET rs
  BY DEF First
<1> QED
  BY <1>1, FiniteSubset DEF Ranked

LEMMA FirstAtMost ==
  ASSUME NEW rs, Ranked(rs), NEW n \in Nat
  PROVE  Cardinality(First(rs, n)) <= n
<1> DEFINE many == {i \in Nat : ~(Cardinality(First(rs, i)) <= i)}
<1> SUFFICES ASSUME n \in many PROVE FALSE
  OBVIOUS
<1>1. PICK m \in many : \A i \in many : m <= i
  <2>1. many \in SUBSET Nat /\ many # {}
    OBVIOUS
  <2> HIDE DEF many
  <2> QED
    BY <2>1, LeastNatural
<1>2. \A g \in rs : Rank(rs, g) \in Nat
  BY RankType
<1>3. m # 0
  <2>1. First(rs, 0) = {}
    BY <1>2 DEF First
  <2> QED
    BY <1>1, <2>1, FS_EmptySet
<1>4. m - 1 \in Nat /\ m - 1 \notin many
  BY <1>1, <1>3
<1>5. Cardinality(First(rs, m - 1)) <= m - 1
  BY <1>4
<1>6. IsFiniteSet(First(rs, m - 1)) /\ Cardinality(First(rs, m - 1)) \in Nat
      /\ Cardinality(First(rs, m)) \in Nat
  BY FirstFinite
<1>7. CASE \E h \in rs : Rank(rs, h) = m - 1
  <2>1. PICK h \in rs : Rank(rs, h) = m - 1
    BY <1>7
  <2>2. First(rs, m) \subseteq First(rs, m - 1) \union {h}
    <3>1. ASSUME NEW g \in rs, Rank(rs, g) < m, ~(Rank(rs, g) < m - 1)
          PROVE  g = h
      BY <1>2, <1>4, <2>1, <3>1, RankDecides
    <3> QED
      BY <3>1 DEF First
  <2>3. /\ IsFiniteSet(First(rs, m - 1) \union {h})
        /\ Cardinality(First(rs, m - 1) \union {h}) <= Cardinality(First(rs, m - 1)) + 1
        /\ Cardinality(First(rs, m - 1) \union {h}) \in Nat
    <3>1. /\ IsFiniteSet(First(rs, m - 1) \union {h})
          /\ \/ Cardinality(First(rs, m - 1) \union {h}) = Cardinality(First(rs, m - 1))
             \/ Cardinality(First(rs, m - 1) \union {h}) = Cardinality(First(rs, m - 1)) + 1
      BY <1>6, FS_AddElement
    <3> QED
      BY <1>6, <3>1
  <2>4. Cardinality(First(rs, m)) <= Cardinality(First(rs, m - 1) \union {h})
    BY <2>2, <2>3, FiniteSubset
  <2> QED
    BY <1>1, <1>5, <1>6, <2>3, <2>4
<1>8. CASE ~\E h \in rs : Rank(rs, h) = m - 1
  <2>1. First(rs, m) = First(rs, m - 1)
    BY <1>2, <1>4, <1>8 DEF First
  <2> QED
    BY <1>1, <1>5, <1>6, <2>1
<1> QED
  BY <1>7, <1>8

\* If there is a row beyond the first n, there are n of them.
LEMMA FirstFull ==
  ASSUME NEW rs, Ranked(rs), NEW n \in Nat, NEW h \in rs, Rank(rs, h) >= n
  PROVE  Cardinality(First(rs, n)) >= n
<1> DEFINE ranks == {Rank(rs, g) : g \in {k \in rs : Rank(rs, k) >= n}}
<1>1. PICK m \in ranks : \A i \in ranks : m <= i
  <2>1. ranks \in SUBSET Nat /\ ranks # {}
    BY RankType
  <2> HIDE DEF ranks
  <2> QED
    BY <2>1, LeastNatural
<1>2. PICK x \in rs : Rank(rs, x) = m /\ m >= n
  BY <1>1
<1>3. \A g \in rs : Later(g, x) => Rank(rs, g) < n
  <2>1. ASSUME NEW g \in rs, Later(g, x), ~(Rank(rs, g) < n)
        PROVE  FALSE
    <3>1. Rank(rs, g) \in Nat /\ Rank(rs, x) \in Nat /\ Rank(rs, g) < Rank(rs, x)
      BY <2>1, RankType, RankGrows
    <3>2. Rank(rs, g) \in ranks
      BY <2>1, <3>1
    <3> QED
      BY <1>1, <1>2, <3>1, <3>2
  <2> QED
    BY <2>1
<1>4. {g \in rs : Later(g, x)} \in SUBSET First(rs, n)
  BY <1>3 DEF First
<1>5. IsFiniteSet(First(rs, n)) /\ Cardinality(First(rs, n)) \in Nat
  BY FirstFinite
<1>6. Rank(rs, x) <= Cardinality(First(rs, n)) /\ Rank(rs, x) \in Nat
  BY <1>4, <1>5, RankType, FiniteSubset DEF Rank
<1> QED
  BY <1>2, <1>5, <1>6

\* From one listing to the next, the rows that move up among the first n are no more
\* than the rows that leave.
Moved(old, new, n) == {h \in old \intersect new : Rank(old, h) >= n /\ Rank(new, h) < n}

LEMMA MovedUp ==
  ASSUME NEW old, NEW new, Ranked(old), Ranked(new), NEW n \in Nat
  PROVE  /\ IsFiniteSet(Moved(old, new, n)) /\ Cardinality(Moved(old, new, n)) \in Nat
         /\ Cardinality(Moved(old, new, n)) <= Cardinality(old \ new)
<1> DEFINE moved == {h \in old \intersect new : Rank(old, h) >= n /\ Rank(new, h) < n}
           B == First(old, n)
           stay == B \intersect new
           leave == B \ new
<1>1. moved \in SUBSET old /\ old \ new \in SUBSET old /\ leave \in SUBSET (old \ new)
  BY DEF First
<1>2. /\ IsFiniteSet(moved) /\ IsFiniteSet(old \ new) /\ IsFiniteSet(B)
      /\ Cardinality(moved) \in Nat /\ Cardinality(old \ new) \in Nat /\ Cardinality(B) \in Nat
  BY <1>1, FiniteSubset, FirstFinite DEF Ranked
<1>3. CASE moved = {}
  <2>1. Cardinality(moved) = 0
    BY <1>3, FS_EmptySet
  <2> QED
    BY <1>2, <2>1 DEF Moved
<1>4. CASE moved # {}
  <2>1. PICK h \in moved : TRUE
    BY <1>4
  <2>2. Cardinality(B) >= n
    BY <2>1, FirstFull
  <2>3. moved \union stay \in SUBSET First(new, n)
    <3>1. ASSUME NEW g \in stay PROVE Rank(new, g) < n
      <4>1. /\ g \in old /\ g \in new /\ Rank(old, g) < n /\ Rank(old, g) \in Nat
            /\ h \in old /\ h \in new /\ Rank(old, h) >= n /\ Rank(old, h) \in Nat
            /\ Rank(new, h) < n
        BY <2>1, RankType DEF First
      <4>2. Later(g, h)
        BY <4>1, RankDecides
      <4>3. Rank(new, g) < Rank(new, h) /\ Rank(new, g) \in Nat /\ Rank(new, h) \in Nat
        BY <4>1, <4>2, RankGrows, RankType
      <4> QED
        BY <4>1, <4>3
    <3> QED
      BY <3>1 DEF First
  <2>4. moved \intersect stay = {} /\ B = stay \union leave /\ stay \intersect leave = {}
    <3>1. ASSUME NEW g \in B, Rank(old, g) >= n PROVE FALSE
      <4>1. Rank(old, g) \in Nat /\ Rank(old, g) < n
        BY RankType DEF First
      <4> QED
        BY <3>1, <4>1
    <3> QED
      BY <3>1
  <2>5. /\ IsFiniteSet(stay) /\ Cardinality(stay) \in Nat
        /\ IsFiniteSet(leave) /\ Cardinality(leave) \in Nat
        /\ Cardinality(leave) <= Cardinality(old \ new)
    <3>1. stay \in SUBSET B
      OBVIOUS
    <3> HIDE DEF B, stay, leave
    <3> QED
      BY <1>1, <1>2, <3>1, FiniteSubset
  <2>6. Cardinality(First(new, n)) <= n /\ IsFiniteSet(First(new, n)) /\ Cardinality(First(new, n)) \in Nat
    BY FirstAtMost, FirstFinite
  <2> HIDE DEF moved, B, stay, leave
  <2>7. Cardinality(moved \union stay) = Cardinality(moved) + Cardinality(stay)
    BY <1>2, <2>4, <2>5, DisjointUnion
  <2>8. Cardinality(B) = Cardinality(stay) + Cardinality(leave)
    BY <2>4, <2>5, DisjointUnion
  <2>9. Cardinality(moved \union stay) <= Cardinality(First(new, n))
    BY <2>3, <2>6, FiniteSubset
  <2>10. Cardinality(moved) <= Cardinality(old \ new)
    BY <1>2, <2>2, <2>5, <2>6, <2>7, <2>8, <2>9
  <2> QED
    BY <1>2, <2>10 DEF moved, Moved
<1> QED
  BY <1>3, <1>4

\* As many ids as rows.
LEMMA IdsOfRows ==
  ASSUME NEW rs, Ranked(rs), NEW S \in SUBSET rs
  PROVE  /\ IsFiniteSet(S) /\ IsFiniteSet({h.id : h \in S})
         /\ Cardinality({h.id : h \in S}) = Cardinality(S) /\ Cardinality(S) \in Nat
<1> DEFINE T == {h.id : h \in S}
           f == [h \in S |-> h.id]
<1>1. IsFiniteSet(S) /\ Cardinality(S) \in Nat
  BY FiniteSubset DEF Ranked
<1>2. f \in Surjection(S, T)
  BY DEF Surjection
<1>3. f \in Injection(S, T)
  BY DEF Injection, IsInjective, Ranked
<1> HIDE DEF f, T
<1>4. IsFiniteSet(T) /\ Cardinality(T) = Cardinality(S)
  BY <1>1, <1>2, <1>3, FS_Surjection
<1> QED
  BY <1>1, <1>4 DEF T

-----------------------------------------------------------------------------
(* The pages of history. *)

\* What the client has gone past without seeing: rows listed all the time that stand
\* before the next page.
Missed == {h \in First(HistoryListed, offset) : h.id \in since.rows \ seen}

\* It has missed at most a row for each that left, and the listing is longer than the
\* last total at most by the rows that came since.
PagingInv ==
  /\ {"rows", "departed", "slipped"} \subseteq DOMAIN since
  /\ since.rows \subseteq ListedIds
  /\ since.departed \in Nat /\ since.slipped \in Nat
  /\ Cardinality(Missed) <= since.departed
  /\ pc = "page" => Cardinality(HistoryListed) <= total + since.slipped
  /\ PagesMissLittle

LEMMA ListedRanked ==
  /\ TypeInv => Ranked(HistoryListed)
  /\ TypeInv' => Ranked(HistoryListed')
<1>1. TypeInv => Ranked(HistoryListed)
  <2> SUFFICES ASSUME TypeInv PROVE Ranked(HistoryListed)
    OBVIOUS
  <2>1. HistoryListed \in SUBSET log /\ MaxLog + MaxWrites[op] \in Nat
    BY OverviewsAssumption DEF HistoryListed, TypeInv, TypeOK
  <2>2. IsFiniteSet(HistoryListed)
    BY <2>1, FiniteSubset DEF TypeInv, HistoryInv
  <2> QED
    BY <2>1, <2>2 DEF Ranked, TypeInv, TypeOK, HistoryInv
<1>2. TypeInv' => Ranked(HistoryListed')
  <2> SUFFICES ASSUME TypeInv' PROVE Ranked(HistoryListed')
    OBVIOUS
  <2>1. HistoryListed' \in SUBSET log' /\ MaxLog + MaxWrites[op'] \in Nat
    BY OverviewsAssumption DEF HistoryListed, TypeInv, TypeOK
  <2>2. IsFiniteSet(HistoryListed')
    BY <2>1, FiniteSubset DEF TypeInv, HistoryInv
  <2> QED
    BY <2>1, <2>2 DEF Ranked, TypeInv, TypeOK, HistoryInv
<1> QED
  BY <1>1, <1>2

LEMMA PagingInit == Init => PagingInv
<1> SUFFICES ASSUME Init PROVE PagingInv
  OBVIOUS
<1>1. Ranked(HistoryListed)
  BY TypeInit, ListedRanked
<1>2. \A h \in HistoryListed : Rank(HistoryListed, h) \in Nat
  BY <1>1, RankType
<1>3. Missed = {}
  BY <1>2 DEF Missed, First, Init
<1>4. Cardinality(Missed) = 0
  BY <1>3, FS_EmptySet
<1> QED
  BY <1>4 DEF Init, PagingInv, PagesMissLittle

\* What lies behind the page just read was seen or is among the missed; what lies
\* beyond it is no more than has come since the total.
LEMMA ReadPagePaging == TypeInv /\ PagingInv /\ ReadPage /\ UNCHANGED tables => PagingInv'
<1> SUFFICES ASSUME TypeInv, PagingInv, ReadPage, UNCHANGED tables PROVE PagingInv'
  OBVIOUS
<1> DEFINE L == HistoryListed
           items == PageFrom(offset)
           next == offset + Limit
<1>1. L' = L /\ UNCHANGED <<since, total>> /\ ListedIds' = ListedIds
  BY DEF ReadPage, tables, HistoryListed, ListedIds, MaySeeHistory, There
<1>2. Ranked(L) /\ Limit \in Nat \ {0} /\ offset \in Nat /\ total \in Nat /\ next \in Nat
  BY ListedRanked, OverviewsAssumption DEF TypeInv, TypeOK
<1>3. \A h \in L : Rank(L, h) \in Nat
  BY <1>2, RankType
<1>4. \A h \in L : h \in items <=> (Rank(L, h) >= offset /\ Rank(L, h) < next)
  BY <1>2, <1>3 DEF PageFrom, Page
<1>5. seen' = seen \union {h.id : h \in items} /\ items \in SUBSET L /\ pc = "page"
  BY DEF ReadPage, PageFrom, Page
<1>6. IsFiniteSet(Missed) /\ Cardinality(Missed) \in Nat
  <2>1. Missed \in SUBSET First(L, offset)
    BY DEF Missed
  <2> QED
    BY <1>2, <2>1, FirstFinite, FiniteSubset
<1> HIDE DEF L, items, next
<1>7. ASSUME NEW h \in L, h.id \in since.rows \ seen', Rank(L, h) < next
      PROVE  h \in Missed
  <2>1. h \notin items /\ h.id \in since.rows \ seen
    BY <1>5, <1>7
  <2>2. Rank(L, h) < offset
    BY <1>2, <1>3, <1>4, <1>7, <2>1
  <2> QED
    BY <2>1, <2>2 DEF Missed, First, L
<1>8. Missed' \in SUBSET Missed
  <2>1. offset' = next \/ offset' = offset
    BY DEF ReadPage, next
  <2>2. offset <= next
    BY <1>2 DEF next
  <2>3. \A h \in Missed' : h \in L /\ h.id \in since.rows \ seen' /\ Rank(L, h) < offset'
    BY <1>1 DEF Missed, First, L
  <2> QED
    BY <1>2, <1>3, <1>7, <2>1, <2>2, <2>3
<1>9. Cardinality(Missed') <= since.departed
  BY <1>6, <1>8, FiniteSubset DEF PagingInv
<1>10. PagesMissLittle'
  <2> SUFFICES ASSUME pc' = "done"
               PROVE  Cardinality(since.rows \ seen') <= since.departed + since.slipped
    BY <1>1 DEF PagesMissLittle
  <2> DEFINE unseen == {h \in L : h.id \in since.rows \ seen'}
             beyond == {h \in L : Rank(L, h) >= next}
  <2>1. since.rows \ seen' = {h.id : h \in unseen} /\ unseen \in SUBSET L /\ beyond \in SUBSET L
    BY DEF PagingInv, ListedIds, L
  <2>2. unseen \subseteq Missed \union beyond
    BY <1>2, <1>3, <1>7
  <2> HIDE DEF unseen
  <2>3. Cardinality(since.rows \ seen') = Cardinality(unseen)
    BY <1>2, <2>1, IdsOfRows
  <2>4. IsFiniteSet(beyond) /\ Cardinality(beyond) \in Nat
    BY <1>2, <2>1, IdsOfRows
  <2>5. Cardinality(beyond) <= since.slipped
    <3>1. CASE beyond = {}
      BY <3>1, FS_EmptySet DEF PagingInv
    <3>2. CASE beyond # {}
      <4>1. Cardinality(First(L, next)) >= next
        <5>1. PICK h \in L : Rank(L, h) >= next
          BY <3>2
        <5> QED
          BY <1>2, <5>1, FirstFull
      <4>2. /\ IsFiniteSet(First(L, next)) /\ Cardinality(First(L, next)) \in Nat
            /\ IsFiniteSet(First(L, offset)) /\ Cardinality(First(L, offset)) \in Nat
            /\ Cardinality(First(L, offset)) <= offset
        BY <1>2, FirstFinite, FirstAtMost
      <4>3. IsFiniteSet(items) /\ Cardinality(items) \in Nat
        BY <1>2, <1>5, IdsOfRows
      <4>4. /\ First(L, next) = First(L, offset) \union items
            /\ First(L, offset) \intersect items = {}
        BY <1>2, <1>3, <1>4, <1>5 DEF First, next
      <4>5. Cardinality(First(L, next)) = Cardinality(First(L, offset)) + Cardinality(items)
        BY <4>2, <4>3, <4>4, DisjointUnion
      <4>6. ~(Cardinality(items) < Limit)
        BY <1>2, <4>1, <4>2, <4>3, <4>5 DEF next
      <4>7. next >= total
        BY <4>6 DEF ReadPage, items, next
      <4>8. L = First(L, next) \union beyond /\ First(L, next) \intersect beyond = {}
        BY <1>2, <1>3 DEF First
      <4>9. Cardinality(L) = Cardinality(First(L, next)) + Cardinality(beyond)
        BY <2>4, <4>2, <4>8, DisjointUnion
      <4>10. Cardinality(L) <= total + since.slipped /\ since.slipped \in Nat
        BY <1>5 DEF PagingInv, L
      <4> QED
        BY <1>2, <2>4, <4>1, <4>2, <4>7, <4>9, <4>10
    <3> QED
      BY <3>1, <3>2
  <2> HIDE DEF beyond
  <2>6. /\ IsFiniteSet(Missed \union beyond) /\ Cardinality(Missed \union beyond) \in Nat
        /\ Cardinality(Missed \union beyond) <= Cardinality(Missed) + Cardinality(beyond)
    BY <1>6, <2>4, UnionAtMost
  <2>7. Cardinality(unseen) <= Cardinality(Missed \union beyond) /\ Cardinality(unseen) \in Nat
    BY <2>2, <2>6, FiniteSubset
  <2>8. Cardinality(Missed) <= since.departed /\ since.departed \in Nat /\ since.slipped \in Nat
    BY DEF PagingInv
  <2> QED
    BY <1>6, <2>3, <2>4, <2>5, <2>6, <2>7, <2>8
<1> QED
  BY <1>1, <1>5, <1>9, <1>10 DEF PagingInv, ReadPage

\* The other queries leave what the client has missed alone.
LEMMA ReadPaging == TypeInv /\ PagingInv /\ Read => PagingInv'
<1> SUFFICES ASSUME TypeInv, PagingInv, Read PROVE PagingInv'
  OBVIOUS
<1>1. UNCHANGED tables
  BY DEF Read
<1>2. CASE ReadPage
  BY <1>1, <1>2, ReadPagePaging
<1>3. CASE ListSchemas \/ ListEntries \/ \E e \in todo : CheckAccess(e)
  <2>1. UNCHANGED <<paging, since>> /\ pc' \in {"entries", "check"}
    BY <1>3 DEF ListSchemas, ListEntries, CheckAccess
  <2> QED
    BY <1>1, <2>1 DEF tables, paging, PagingInv, PagesMissLittle, Missed, First, Rank, HistoryListed, ListedIds,
                      MaySeeHistory, There
<1>4. CASE Count
  <2>1. /\ UNCHANGED <<offset, seen>> /\ pc' = "page" /\ total' = Cardinality(HistoryListed)
        /\ since' = [since EXCEPT !.slipped = 0] /\ UNCHANGED <<log, entries, granted>>
    BY <1>1, <1>4 DEF Count, tables
  <2>2. /\ since'.rows = since.rows /\ since'.departed = since.departed /\ since'.slipped = 0
        /\ DOMAIN since' = DOMAIN since
    BY <2>1 DEF PagingInv
  <2>3. UNCHANGED <<HistoryListed, ListedIds>>
    BY <2>1 DEF HistoryListed, ListedIds, MaySeeHistory, There
  <2>4. Missed' = Missed
    BY <2>1, <2>2, <2>3 DEF Missed, First
  <2>5. Cardinality(HistoryListed) \in Nat
    BY ListedRanked, FS_CardinalityType DEF Ranked
  <2> QED
    BY <2>1, <2>2, <2>3, <2>4, <2>5 DEF PagingInv, PagesMissLittle
<1> QED
  BY <1>2, <1>3, <1>4 DEF Read

\* A row keeps its id, and no other row gets it.
LEMMA SameRow ==
  ASSUME TypeInv, Others, NEW g \in log, NEW h \in log', g.id = h.id
  PROVE  g = h
<1>1. g.id \in Nat /\ g.id <= MaxLog + writes /\ MaxLog \in Nat /\ writes \in Nat
  BY OverviewsAssumption DEF TypeInv, TypeOK, HistoryInv
<1>2. h \in log \/ h.id = MaxLog + writes + 1
  BY OthersHistory
<1>3. h.id # MaxLog + writes + 1
  BY <1>1
<1> QED
  BY <1>2, <1>3 DEF TypeInv, HistoryInv

LEMMA OthersPaging == TypeInv /\ PagingInv /\ Others => PagingInv'
<1> SUFFICES ASSUME TypeInv, PagingInv, Others PROVE PagingInv'
  OBVIOUS
<1> DEFINE old == HistoryListed
           new == HistoryListed'
           moved == Moved(old, new, offset)
<1>1. /\ UNCHANGED <<pc, offset, total, seen>>
      /\ DOMAIN since' = {"schemas", "same", "open", "granted", "private", "barred", "rows", "departed", "slipped"}
      /\ since'.rows = since.rows \intersect ListedIds'
      /\ since'.departed = since.departed + Cardinality(ListedIds \ ListedIds')
      /\ since'.slipped = since.slipped + Cardinality(ListedIds' \ ListedIds)
  BY OthersHistory DEF Write, paging
<1>2. TypeInv'
  BY TypeStep DEF Next
<1>3. Ranked(old) /\ Ranked(new) /\ offset \in Nat /\ total \in Nat
  BY <1>2, ListedRanked DEF TypeInv, TypeOK
<1>4. ~Answered
  BY OthersHistory DEF Write
<1>5. old \subseteq log /\ new \subseteq log'
  BY DEF HistoryListed
<1>6. ListedIds = {h.id : h \in old} /\ ListedIds' = {h.id : h \in new}
  BY DEF ListedIds
<1> HIDE DEF old, new
<1>7. \A g \in old, h \in new : g.id = h.id => g = h
  BY <1>5, SameRow
<1>8. /\ ListedIds \ ListedIds' = {h.id : h \in old \ new}
      /\ ListedIds' \ ListedIds = {h.id : h \in new \ old}
  BY <1>6, <1>7
<1>9. /\ Cardinality(ListedIds \ ListedIds') = Cardinality(old \ new)
      /\ IsFiniteSet(old \ new) /\ Cardinality(old \ new) \in Nat
  BY <1>3, <1>8, IdsOfRows
<1>10. /\ Cardinality(ListedIds' \ ListedIds) = Cardinality(new \ old)
       /\ IsFiniteSet(new \ old) /\ Cardinality(new \ old) \in Nat
  BY <1>3, <1>8, IdsOfRows
<1>11. /\ since'.departed \in Nat /\ since'.slipped \in Nat
       /\ since'.departed = since.departed + Cardinality(old \ new)
       /\ since'.slipped = since.slipped + Cardinality(new \ old)
       /\ since.departed \in Nat /\ since.slipped \in Nat
  BY <1>1, <1>9, <1>10 DEF PagingInv
<1>12. Cardinality(Missed') <= since'.departed
  <2>1. Missed = {h \in First(old, offset) : h.id \in since.rows \ seen}
    BY DEF Missed, old
  <2>2. Missed' = {h \in First(new, offset) : h.id \in since'.rows \ seen}
    BY <1>1 DEF Missed, First, Rank, Later, new
  <2>3. \A h \in Missed' : h \in old \intersect new /\ h.id \in since.rows \ seen /\ Rank(new, h) < offset
    <3>1. ASSUME NEW h \in Missed' PROVE h \in old
      <4>1. h \in new /\ h.id \in since.rows
        BY <1>1, <2>2 DEF First
      <4>2. PICK g \in old : g.id = h.id
        BY <1>6, <4>1 DEF PagingInv
      <4> QED
        BY <1>7, <4>1, <4>2
    <3> QED
      BY <1>1, <2>2, <3>1 DEF First
  <2>4. \A h \in Missed' : h \in Missed \union moved
    <3>1. ASSUME NEW h \in Missed', h \notin Missed PROVE h \in moved
      <4>1. h \in old \intersect new /\ Rank(new, h) < offset /\ ~(Rank(old, h) < offset)
        BY <2>1, <2>3, <3>1 DEF First
      <4>2. Rank(old, h) \in Nat
        BY <1>3, RankType
      <4> QED
        BY <1>3, <4>1, <4>2 DEF Moved
    <3> QED
      BY <3>1
  <2> HIDE DEF moved
  <2>5. /\ IsFiniteSet(moved) /\ Cardinality(moved) \in Nat /\ Cardinality(moved) <= Cardinality(old \ new)
    BY <1>3, MovedUp DEF moved
  <2>6. IsFiniteSet(Missed) /\ Cardinality(Missed) \in Nat /\ Cardinality(Missed) <= since.departed
    <3>1. Missed \in SUBSET old
      BY <2>1 DEF First
    <3> QED
      BY <1>3, <3>1, IdsOfRows DEF PagingInv
  <2>7. /\ IsFiniteSet(Missed \union moved) /\ Cardinality(Missed \union moved) \in Nat
        /\ Cardinality(Missed \union moved) <= Cardinality(Missed) + Cardinality(moved)
    BY <2>5, <2>6, UnionAtMost
  <2>8. Cardinality(Missed') \in Nat /\ Cardinality(Missed') <= Cardinality(Missed \union moved)
    BY <2>4, <2>7, FiniteSubset
  <2> QED
    BY <1>9, <1>11, <2>5, <2>6, <2>7, <2>8
<1>13. pc' = "page" => Cardinality(new) <= total + since'.slipped
  <2>1. /\ IsFiniteSet(old) /\ Cardinality(old) \in Nat /\ IsFiniteSet(new) /\ Cardinality(new) \in Nat
    BY <1>3, FS_CardinalityType DEF Ranked
  <2>2. IsFiniteSet(old \union (new \ old)) /\ Cardinality(old \union (new \ old)) = Cardinality(old) + Cardinality(new \ old)
    BY <1>10, <2>1, DisjointUnion
  <2>3. Cardinality(new) <= Cardinality(old \union (new \ old))
    BY <2>2, FiniteSubset
  <2>4. pc = "page" => Cardinality(old) <= total + since.slipped
    BY DEF PagingInv, old
  <2> QED
    BY <1>1, <1>3, <1>10, <1>11, <2>1, <2>2, <2>3, <2>4
<1>14. pc' # "done"
  BY <1>1, <1>4 DEF Answered
<1>15. since'.rows \subseteq ListedIds'
  BY <1>1
<1> QED
  BY <1>1, <1>11, <1>12, <1>13, <1>14, <1>15 DEF PagingInv, PagesMissLittle, new

LEMMA PagingStep == TypeInv /\ PagingInv /\ [Next]_vars => PagingInv'
<1>1. PagingInv /\ UNCHANGED vars => PagingInv'
  BY DEF vars, tables, paging, PagingInv, PagesMissLittle, Missed, First, Rank, HistoryListed, ListedIds,
         MaySeeHistory, There
<1> QED
  BY <1>1, ReadPaging, OthersPaging DEF Next, Over

\* For any length of the history and of its pages, and any number of writes while a
\* client goes through them: of the rows listed all the time it misses at most one for
\* each row that left the listing or came into it after the last total.
THEOREM PagesLoseLittle == Spec => []PagesMissLittle
<1>1. PagingInv => PagesMissLittle
  BY DEF PagingInv
<1> QED
  BY <1>1, TypeHolds, PagingInit, PagingStep, PTL DEF Spec
=============================================================================
