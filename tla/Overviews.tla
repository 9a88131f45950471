------------------------------ MODULE Overviews ------------------------------
(***************************************************************************)
(* The answers that are put together from whole tables: GET /dashboard,    *)
(* GET /entries/lookup and GET /history, for one signed-in reader who is   *)
(* not a head admin, while others write.  Every statement has a snapshot   *)
(* of its own: the schemas are read before the entries, the entries before *)
(* their grants, the count before the page, a page before the next one.    *)
(***************************************************************************)
EXTENDS Naturals, FiniteSets, FiniteSetsExt

CONSTANTS
  EntryIds,      \* positive integers: ids break ties
  SchemaIds,
  SchemaOf,      \* [EntryIds -> SchemaIds]
  Latest,        \* 5 in the code: how many latest entries the dashboard shows
  Limit,         \* limit of the lookup, and of a page of history
  Start,         \* bound: the requests, and the schemas and entries there may be when they come
  MaxLog,        \* bound: rows of history when the request comes
  MaxWrites,     \* bound: transactions of others during a request of each kind
  None,
  Unborn, Gone   \* an id not handed out yet; one whose row was deleted, or bears a
                 \* deleted_at (which no list shows, and nothing takes back)

Levels == {"own", "open", "restricted", "private"}

\* NOW(): 0 or 1 before the request, then the number of the write above 1.
Times == 0 .. 1 + MaxWrites["entries"] + MaxWrites["history"]

\* own: of the reader, whatever its visibility_level; open: public or internal.
Entry == [level : Levels, created : Times, updated : Times \union {None}]

VARIABLES
  schemas,   \* [SchemaIds -> {"active", "inactive"} or Unborn or Gone]
  entries,   \* [EntryIds -> Entry or Unborn or Gone]
  granted,   \* entries with a view_history grant, or manage, of the reader's
  log,       \* set of [id, at, entry]: entry_history; at is changed_at
  writes,    \* number of transactions of others so far
  op,        \* what is asked for: "entries" by dashboard and lookup, which make the
             \* same queries, or "history"
  pc,        \* the query that comes next
  known,     \* schema_map
  rows,      \* what list_entries returned, [EntryIds -> Entry or Gone]
  todo,      \* entries whose grants check_access has still to read
  visible,   \* visible_entries
  offset, total, seen,  \* the page asked for, its total, the ids of all pages so far
  since      \* auxiliary: what has not changed since the request came, and counts

tables == <<schemas, entries, granted, log>>
listing == <<known, rows, todo, visible>>
paging == <<offset, total, seen>>
vars == <<tables, writes, op, pc, listing, paging, since>>

ASSUME OverviewsAssumption ==
  /\ EntryIds \subseteq Nat /\ SchemaOf \in [EntryIds -> SchemaIds]
  /\ Latest \in Nat \ {0} /\ Limit \in Nat \ {0} /\ MaxLog \in Nat
  /\ MaxWrites \in [{"entries", "history"} -> Nat]
  /\ None \notin Times /\ Unborn # Gone
  /\ {Unborn, Gone} \intersect (Entry \union {"active", "inactive"}) = {}
  /\ \A start \in Start :
       /\ start.op \in {"entries", "history"}
       /\ start.schemas \in [SchemaIds -> {"active", "inactive", Unborn}]
       /\ start.entries \in [EntryIds -> {Unborn} \union [level : Levels, created : {0, 1}, updated : {None, 0, 1}]]
       /\ \A e \in EntryIds : start.entries[e] # Unborn =>
            /\ start.schemas[SchemaOf[e]] # Unborn
            \* a PATCH has read the row that it updates
            /\ start.entries[e].updated # None => start.entries[e].created <= start.entries[e].updated

There(e) == entries[e] \notin {Unborn, Gone}
HasSchema(s) == schemas[s] \in {"active", "inactive"}

\* Mutant: every level but private is visible without a grant.
NotPrivate(e) == There(e) /\ entries[e].level # "private"

Open(e) == There(e) /\ entries[e].level \in {"own", "open"}
Private(e) == There(e) /\ entries[e].level = "private"

-----------------------------------------------------------------------------
(* The lists of entries: dashboard and lookup. *)

\* Mutant: the inactive schemas are left out.
ActiveOnly(s) == schemas[s] = "active"

\* list_schemas(include_inactive=True).
InSchemaMap(s) == HasSchema(s)

ListSchemas ==
  /\ pc = "schemas"
  /\ known' = {s \in SchemaIds : InSchemaMap(s)}
  /\ pc' = "entries"
  /\ UNCHANGED <<rows, todo, visible, paging, since>>

\* list_entries; check_access asks the database only about grants, and only for rows
\* that the row alone does not decide.
ListEntries ==
  /\ pc = "entries"
  /\ rows' = [e \in EntryIds |-> IF There(e) THEN entries[e] ELSE Gone]
  /\ visible' = {e \in EntryIds : Open(e)}
  /\ todo' = {e \in EntryIds : There(e) /\ entries[e].level = "restricted"}
  /\ pc' = "check"
  /\ UNCHANGED <<known, paging, since>>

\* Mutant: a restricted entry counts as visible.
NoGrantNeeded(e) == TRUE

MayRead(e) == e \in granted

\* list_permissions of one row. (The order of the rows plays no part.)
CheckAccess(e) ==
  /\ pc = "check" /\ e \in todo
  /\ todo' = todo \ {e}
  /\ visible' = IF MayRead(e) THEN visible \union {e} ELSE visible
  /\ UNCHANGED <<pc, known, rows, paging, since>>

Answered == pc = "done" \/ (pc = "check" /\ todo = {})

\* The answer: total_entries, totals_per_schema, latest_created, latest_updated, and
\* the lookup's list. The lists are cut before entries of unknown schemas are dropped.
TotalEntries == Cardinality(visible)

\* Mutant: every row that was read is counted.
RowsOfSchema(s) == {e \in EntryIds : rows[e] # Gone /\ SchemaOf[e] = s}

EntriesOfSchema(s) == {e \in visible : SchemaOf[e] = s}
TotalOfSchema(s) == IF s \in known THEN Cardinality(EntriesOfSchema(s)) ELSE 0

\* The first n of visible_entries by a key, larger first, ids breaking ties.
Top(n, key) ==
  {e \in visible :
     /\ SchemaOf[e] \in known
     /\ Cardinality({f \in visible : key[f] > key[e] \/ (key[f] = key[e] /\ f > e)}) < n}

\* Mutant: without the fallback on created_at.
UpdatedOrLast == [e \in visible |-> IF rows[e].updated = None THEN 0 ELSE rows[e].updated + 1]

\* Mutant: sorted without reverse, the oldest first.
OldestFirst == [e \in visible |-> 0 - rows[e].created]

Created == [e \in visible |-> rows[e].created]
UpdatedOrCreated ==
  [e \in visible |-> IF rows[e].updated = None THEN rows[e].created ELSE rows[e].updated]

\* ORDER BY updated_at DESC NULLS LAST, id DESC.
NullsLast == [e \in visible |-> IF rows[e].updated = None THEN 0 ELSE rows[e].updated + 1]

LatestCreated == Top(Latest, Created)
LatestUpdated == Top(Latest, UpdatedOrCreated)
Lookup == Top(Limit, NullsLast)

-----------------------------------------------------------------------------
(* The pages of history: a client reads them one after the other until one is *)
(* short, or until total says that there is no more.                          *)

\* The WHERE clause of list_global_history: of the entry's grants those alone count
\* that let the reader see its history.
MaySeeHistory(e) ==
  /\ There(e)
  /\ entries[e].level = "own" \/ (entries[e].level # "private" /\ e \in granted)

HistoryListed == {h \in log : MaySeeHistory(h.entry)}

Count ==
  /\ pc = "count"
  /\ total' = Cardinality(HistoryListed)
  /\ pc' = "page"
  /\ since' = [since EXCEPT !.slipped = 0]
  /\ UNCHANGED <<listing, offset, seen>>

\* ORDER BY changed_at DESC, id DESC: how many rows come before h.
Later(g, h) == g.at > h.at \/ (g.at = h.at /\ g.id > h.id)
Rank(rs, h) == Cardinality({g \in rs : Later(g, h)})

Page(rs, n) == {h \in rs : Rank(rs, h) \in n .. n + Limit - 1}

\* Mutant: LIMIT and OFFSET come before the WHERE clause.
PageThenFilter(n) == {h \in Page(log, n) : MaySeeHistory(h.entry)}

PageFrom(n) == Page(HistoryListed, n)

ReadPage ==
  /\ pc = "page"
  /\ LET items == PageFrom(offset) IN
     /\ seen' = seen \union {h.id : h \in items}
     /\ \/ /\ Cardinality(items) = Limit /\ offset + Limit < total
           /\ pc' = "count" /\ offset' = offset + Limit
        \/ /\ Cardinality(items) < Limit \/ offset + Limit >= total
           /\ pc' = "done" /\ UNCHANGED offset
  /\ UNCHANGED <<total, listing, since>>

Read ==
  /\ \/ ListSchemas \/ ListEntries \/ (\E e \in todo : CheckAccess(e))
     \/ Count \/ ReadPage
  /\ UNCHANGED <<tables, writes, op>>

-----------------------------------------------------------------------------
(* The others: each a transaction of its own. *)

ListedIds == {h.id : h \in HistoryListed}

Write ==
  /\ ~Answered /\ writes < MaxWrites[op]
  /\ writes' = writes + 1
  /\ since' = [schemas |-> since.schemas,
               same |-> {e \in since.same : entries'[e] = entries[e]},
               open |-> {e \in since.open : Open(e)'},
               granted |-> {e \in since.granted : There(e)' /\ ~Private(e)' /\ e \in granted'},
               private |-> {e \in since.private : ~There(e)' \/ Private(e)'},
               barred |-> {e \in since.barred : ~Open(e)' /\ (~There(e)' \/ e \notin granted')},
               rows |-> since.rows \intersect ListedIds',
               departed |-> since.departed + Cardinality(ListedIds \ ListedIds'),
               slipped |-> since.slipped + Cardinality(ListedIds' \ ListedIds)]
  /\ UNCHANGED <<op, pc, listing, paging>>

Now == writes + 2

CreateSchema(s) ==
  /\ schemas[s] = Unborn
  /\ op = "entries"   \* bound: new schemas and entries show up in history as its rows do
  /\ schemas' = [schemas EXCEPT ![s] = "active"]
  /\ UNCHANGED <<entries, granted, log>>
  /\ Write

DeleteSchema(s) ==
  LET gone == {e \in EntryIds : SchemaOf[e] = s /\ There(e)} IN
  /\ HasSchema(s)
  /\ schemas' = [schemas EXCEPT ![s] = Gone]
  /\ entries' = [e \in EntryIds |-> IF e \in gone THEN Gone ELSE entries[e]]
  /\ granted' = granted \ gone
  /\ log' = {h \in log : h.entry \notin gone}   \* ON DELETE CASCADE
  /\ Write

CreateEntry(e, l) ==
  /\ entries[e] = Unborn /\ HasSchema(SchemaOf[e])
  /\ op = "entries"
  /\ entries' = [entries EXCEPT ![e] = [level |-> l, created |-> Now, updated |-> None]]
  /\ UNCHANGED <<schemas, granted, log>>
  /\ Write

\* PATCH: the trigger sets updated_at.
UpdateEntry(e, l) ==
  /\ There(e)
  /\ entries' = [entries EXCEPT ![e].level = l, ![e].updated = Now]
  /\ UNCHANGED <<schemas, granted, log>>
  /\ Write

\* A soft DELETE.
DeleteEntry(e) ==
  /\ There(e)
  /\ entries' = [entries EXCEPT ![e] = Gone]
  /\ UNCHANGED <<schemas, granted, log>>
  /\ Write

ChangeGrant(e) ==
  /\ There(e)
  /\ granted' = IF e \in granted THEN granted \ {e} ELSE granted \union {e}
  /\ UNCHANGED <<schemas, entries, log>>
  /\ Write

\* add_history: NOW() is when the transaction began, so the row need not come first.
AddHistory(e, t) ==
  /\ op = "history"   \* bound: no other request looks at it
  /\ There(e)
  /\ log' = log \union {[id |-> MaxLog + writes + 1, at |-> t, entry |-> e]}
  /\ UNCHANGED <<schemas, entries, granted>>
  /\ Write

Others ==
  \/ \E s \in SchemaIds : CreateSchema(s) \/ DeleteSchema(s)
  \/ \E e \in EntryIds :
       \/ \E l \in Levels : CreateEntry(e, l) \/ UpdateEntry(e, l)
       \/ DeleteEntry(e) \/ ChangeGrant(e)
       \/ \E t \in 1 .. 2 * MaxLog : AddHistory(e, t)   \* bound: rows written close together

\* The answer is given; the request is over.
Over == Answered /\ UNCHANGED vars

Next == Read \/ Others \/ Over

\* Before the request. (Bound: MaxLog rows of history, if any, ids as they came.)
Init ==
  /\ \E start \in Start : op = start.op /\ schemas = start.schemas /\ entries = start.entries
  /\ granted \in SUBSET {e \in EntryIds : There(e)}
  /\ IF op = "history"
     THEN \E about \in [1 .. MaxLog -> {e \in EntryIds : There(e)}] :
            log = {[id |-> i, at |-> 2 * i, entry |-> about[i]] : i \in 1 .. MaxLog}
     ELSE log = {}
  /\ writes = 0
  /\ pc = (IF op = "history" THEN "count" ELSE "schemas")
  /\ known = {} /\ rows = [e \in EntryIds |-> Gone] /\ todo = {} /\ visible = {}
  /\ offset = 0 /\ total = 0 /\ seen = {}
  /\ since = [schemas |-> {s \in SchemaIds : HasSchema(s)},
              same |-> {e \in EntryIds : There(e)},
              open |-> {e \in EntryIds : Open(e)},
              granted |-> {e \in granted : ~Private(e)},
              private |-> {e \in EntryIds : ~There(e) \/ Private(e)},
              barred |-> {e \in EntryIds : ~Open(e) /\ e \notin granted},
              rows |-> ListedIds,
              departed |-> 0, slipped |-> 0]

Spec == Init /\ [][Next]_vars

-----------------------------------------------------------------------------
(* Properties *)

TypeOK ==
  /\ schemas \in [SchemaIds -> {"active", "inactive", Unborn, Gone}]
  /\ entries \in [EntryIds -> Entry \union {Unborn, Gone}]
  /\ granted \subseteq EntryIds
  /\ log \subseteq [id : 1 .. MaxLog + MaxWrites[op], at : Nat, entry : EntryIds]
  /\ writes \in 0 .. MaxWrites[op] /\ op \in {"entries", "history"}
  /\ pc \in {"schemas", "entries", "check", "count", "page", "done"}
  /\ known \subseteq SchemaIds
  /\ rows \in [EntryIds -> Entry \union {Gone}]
  /\ todo \subseteq {e \in EntryIds : rows[e] # Gone}
  /\ visible \subseteq {e \in EntryIds : rows[e] # Gone} \ todo
  /\ offset \in Nat /\ total \in Nat /\ seen \subseteq 1 .. MaxLog + MaxWrites[op]

\* Entries the reader could see all the time, for one reason.
Steady == since.open \union since.granted

\* What was open, or granted to the reader, all the time is in the dashboard's total
\* and in the total of its schema - also in that of an inactive schema.
EverySteadyEntryCounted ==
  (op = "entries" /\ Answered) =>
    /\ TotalEntries >= Cardinality(Steady)
    /\ \A s \in SchemaIds :
         TotalOfSchema(s) >= Cardinality({e \in Steady : SchemaOf[e] = s})

\* No entry is counted or listed that all the time was absent or private, or all the
\* time was absent or neither open nor granted.
NothingHiddenCounted ==
  visible \intersect (since.private \union since.barred) = {}

\* The dashboard's total and the totals per schema differ only by entries of schemas
\* that were created while the request ran.
TotalsAgree ==
  (op = "entries" /\ Answered) =>
    LET Sum == MapThenSumSet(TotalOfSchema, SchemaIds)
        newcomers == {e \in EntryIds : rows[e] # Gone /\ SchemaOf[e] \notin since.schemas}
    IN  Sum <= TotalEntries /\ TotalEntries <= Sum + Cardinality(newcomers)

\* The times of a row; f is not behind e if one of its times is not before any of e's.
Stamps(row) == {row.created, row.updated} \ {None}
NotBehind(f, e) == \E t \in Stamps(rows[f]) : \A u \in Stamps(rows[e]) : t >= u

\* Who was never updated comes last in the lookup, the newest id first.
LookedUpBefore(f, e) ==
  \/ rows[e].updated = None /\ (rows[f].updated # None \/ f > e)
  \/ rows[e].updated # None /\ rows[f].updated # None /\ rows[f].updated >= rows[e].updated

\* A list of n leaves e out only in favour of those who may stand ahead of it: there
\* are n of them, and nobody else is in the list.
YieldsOnlyTo(list, n, e, ahead) ==
  e \notin list => list \subseteq ahead /\ Cardinality(ahead) >= n

\* An entry that was visible and untouched all the time is left out of a list only for
\* want of room: of the latest created in favour of entries created no earlier, of the
\* latest updated in favour of entries that are not behind it, of the lookup in favour
\* of what its order puts before it. Each list has such entries and no others then.
\* Entries of schemas created meanwhile take up room without being shown.
LatestAreTheLatest ==
  (op = "entries" /\ Answered) => \A e \in Steady \intersect since.same :
    LET others == visible \ {e} IN
    /\ YieldsOnlyTo(LatestCreated, Latest, e, {f \in others : rows[f].created >= rows[e].created})
    /\ YieldsOnlyTo(LatestUpdated, Latest, e, {f \in others : NotBehind(f, e)})
    /\ YieldsOnlyTo(Lookup, Limit, e, {f \in others : LookedUpBefore(f, e)})

\* Reading history page by page, the client misses a row that was listed all the time
\* only for a row that left the listing meanwhile, or that came into it between the
\* last total and its page: at most one row for each.
PagesMissLittle ==
  pc = "done" => Cardinality(since.rows \ seen) <= since.departed + since.slipped
=============================================================================
