# Verification of db_api

TLA+ specifications of the metadata-driven backend in `src/`: a FastAPI server
over PostgreSQL that lets administrators define schemas and fields at run time
and lets users store entries that follow them. The modules here model what the
server's requests do to the database, TLC checks them on small instances, and
TLAPS proves the most important results for instances of any size.

Line numbers refer to `src/api/app/` unless another path is given.

## 1. The system

### 1.1 How a request runs

Every endpoint is a plain `def`, so FastAPI runs it in a thread of its pool and
requests overlap. Nothing is kept in memory between requests: all state is in
PostgreSQL. Every call of a repository method opens its own connection
(`db.py:8-18`) and is one transaction at READ COMMITTED, the default of
PostgreSQL; the services of `users.py` run several statements in one
transaction. There is no explicit lock, no retry and no `SELECT ... FOR UPDATE`
in the program. What a handler has read is therefore a snapshot that may be out
of date when it writes, and a handler that dies between two repository calls
leaves the first one committed.

### 1.2 Components

| Component | State | Operations | Module |
|---|---|---|---|
| Entries (`services/entries.py`, `EntryRepository`) | table `entries`: schema, title, status, visibility, owner, `data_json`, `deleted_at` | POST, PATCH (with soft delete), reads | `Entries` |
| Entry history (`services/entry_history.py`, `HistoryRepository`) | table `entry_history`: old and new data and visibility of each change | append after each write, list per entry, global list | `Entries`, `AuditedStore`; who is listed in the global list: `Access`; its pages: `Overviews` |
| Schemas and fields (`services/metadata_schema.py`) | tables `schemas`, `fields` | create, update, delete of both; a schema is deleted with its entries | `Entries` |
| Payload validation (`validation/entries.py`) | none | accept, normalise, apply defaults | `Validation` |
| Uniqueness (`repositories/metadata.py:607-623`) | none, queries `entries` | one query per unique field | `Validation`, `Entries` |
| User accounts (`services/users.py`) | table `users`: name, role, active, password hash, preferences | create, update, status, self service, delete, default admin at startup | `Accounts` |
| Authentication (`security.py`, `routers/auth.py`) | none: signed tokens with id, role and expiry | login, token check, role check | `Accounts` (the check against `users`) |
| Access control (`permissions/access_control.py`) | none, reads `entry_permissions` | effective permissions of a user on an entry | `Access` |
| Entry grants (`services/permissions.py`) | table `entry_permissions` | create, update, delete | `Access` |
| Relations and relation tree (`services/relations.py`) | table `entry_relations` | create, update, delete, tree by depth-first search | `Links`; the tree: `RelationTree` |
| Attachment links (`services/attachments.py`) | table `attachments`, UNIQUE (entry, checksum) | create, update, delete | `Links` |
| Dashboard and lookup (`services/dashboard.py`, `list_entry_lookup` in `services/entries.py`) | none | totals and latest entries a user may read | `Overviews` |
| Request and response models (`schemas.py`, `core/enums.py`) | none | shapes of JSON documents | sets the requests are drawn from, nodes of the tree |
| Database schema (`src/db/init.sql`) | the tables | keys, foreign keys, CHECKs, triggers | guards of the actions |
| Examples, seed data, scripts | none | not part of the server | not modelled |

### 1.3 Interaction

Routers authenticate the caller (`security.py:87-122`), check the global role,
and call a service. `EntryService` calls, in this order: schema and field
repositories, the validator, the uniqueness query, the entry repository, and the
history service. `MetadataSchemaService` writes `schemas` and `fields` and, when
it deletes a schema, `entries`; history, relations, attachments and grants of
these entries go with them by ON DELETE CASCADE. `users` is referred to by
`owner_id`, `created_by` and `changed_by` with ON DELETE SET NULL. Entries are
therefore shared by all components, and `schemas` and `entries` are where
requests of different kinds meet.

### 1.4 Hard behaviours, and what is correct

* *Overlapping writes of one entry.* PATCH merges the document sent into the one
  it read earlier. Columns not named must survive, a soft-deleted entry must
  stay deleted, and the audit trail must not tell of contents that never were.
* *Deleting a schema while entries of it are created.* No entry may survive its
  schema, and no half of the deletion may.
* *Failure between two transactions.* The entry and its history row are two.
* *Uniqueness without a constraint.* Checked by a query before the write.
* *The administrators' hierarchy.* Roles are read, then relied upon; the last
  head admin must not go, only head admins appoint administrators, and only they
  manage head admins.
* *Rights checked, then used.* A request reads the caller, the entry and the
  grants in transactions of their own and writes in a later one; an id checked
  earlier is written later. No mixture of old and new may give anybody a right
  nobody gave them, and the two programs that decide who sees a history, one in
  Python and one in SQL, must agree on
  every entry that is not soft-deleted (on the others they need not, and do not).
* *Links without their entries.* The handlers look at entries and rows, and write
  in a later transaction by an id alone, while whole entries go. No link may
  dangle, none may be changed through an entry it does not belong to, and an
  entry must not get one URL twice unnoticed.
* *A tree read query by query.* The relation tree is put together by one query
  after the other, over a graph that others change and whose cycles clients make.
  It must end, expand each entry once, leave out nothing that was there and
  readable all the time, and show nothing that was hidden all the time.
* *Totals and pages.* Dashboard, lookup and history read schemas, entries, grants,
  a count and each page in statements of their own.
* *Restart.* Every start creates a head admin if there is none.
* *Progress.* A request that waits for a row lock must be answered.

`PROJECT.json` lists each at the line where it bites ("hazards").

## 2. The modules

```
Validation <- Entries <- MCEntries                   Accounts <- MCAccounts
AuditedStore <. Entries                              Accounts <- AccountsProofs
              Entries <- EntriesProofs
              EntriesProofs <- EntriesSerialProofs   Access <- MCAccess
              EntriesProofs <- EntriesRefinement     Access <- AccessProofs
Links <- MCLinks             Links <- LinksProofs
RelationTree <- MCRelationTree    RelationTree <- RelationTreeProofs
Overviews <- MCOverviews     Overviews <- OverviewsProofs

A <- B: B EXTENDS A        A <. B: B takes A by INSTANCE, as what it implements
```

### 2.1 Validation

Documents are functions from the field keys to a value, `Null` (JSON null) or
`Absent`. `Accepts`, `Normalize` and `Merge` are the control of
`validate_entry_payload` and of the merge in `update_entry`; what each of the
validators of the data types does to a value is the constant table `Clean`. A
default is returned as it is, unvalidated, as in the code. `SameText` compares
the rendering of the stored value by PostgreSQL (`TextOf`) with that of the new
value by Python (`StrOf`); they are two tables because they differ.

### 2.2 Entries

One transaction is one action; a handler is a record in `req` with the locals it
still uses, and `pc` names what it does next.

| Action | Code |
|---|---|
| `CreateSchema`, `AddField`, `UpdateField`, `DeleteField` | one repository call each; the `get_schema` before it has no other effect than a 404 |
| `BeginDelete`, `DropSchema` | the two DELETE statements of `delete_schema`; the first locks rows, the second commits or fails on ON DELETE RESTRICT |
| `PostEntry`, `CreateFields`, `CheckUnique`, `InsertEntry`, `InsertHistory` | `create_entry` |
| `PatchEntry`, `UpdateFields`, `CheckUnique`, `UpdateRow`, `InsertHistory` | `update_entry` |
| `Abort` | the request dies; open work is rolled back, committed work stays |
| `Quiet` | no request is running |

`log` is an auxiliary variable: the committed versions of each entry. The audit
trail is judged by it, and no guard reads it except the bound of `PatchEntry`.
A body's key is `None` when the client left it out or sent null, which the code
treats alike in a PATCH. `touch` stands for title, status, owner and
`archived_at`, which no property speaks of. A PATCH of fields writes any row of
`FieldRows`: since a PATCH may name any of the columns, the row may become any
row. The permission checks of a PATCH can only end the request before it has
done anything; to leave them out lets more requests through, so that whatever
holds here holds with them.

The PATCH of a field with an explicit null for a NOT NULL column, the reference
to an actor deleted in the meantime, and similar database errors answer 500
without a write; they are `Abort`.

### 2.3 Accounts

Here the statements of one transaction are steps, because at READ COMMITTED each
of them sees what is committed when it starts.

| Action | Code |
|---|---|
| `Boot`, `Crash` | `ensure_default_admin` in the startup event; the end of the process |
| `UpdateUser`, `UpdateMe`, `DeleteUser`, `CreateUser` (by `Begin`) | the routers with `get_current_user` and `require_role`: the actor is active, and its role is remembered |
| `Load` | SELECT of the target, and the checks of actor against target |
| `Check` | `_assert_remaining_admin`, `_assert_remaining_head_admin` |
| `Write` | UPDATE or DELETE, and COMMIT |
| `InsertUser` | INSERT, and COMMIT |

A token names the role its owner had at login and is refused when the role has
changed (`security.py:97`), so the role a request works with is the owner's role
when the request begins: this is what `Begin` takes. In `Boot`, an inactive head
admin counts, as in the query of `users.py:271`; with an environment without
DEFAULT_ADMIN_USERNAME nothing is created, and the properties about head admins
are about a server that has it.

### 2.4 Access

The tables are cut to what rights depend on: the role of an account, the owner
and visibility of an entry, the grants. Writes of other components (`AddEntry`,
`RemoveEntries`, `ChangeRole`, `RemoveUser`) are one step each and keep only
their global role checks; the hierarchy that limits role changes is the subject
of `Accounts`, and to leave it out allows more. A grant names its subject by two
columns that a PATCH may change one by one, as text: it stays when the account
it names is deleted.

| Definition or action | Code |
|---|---|
| `Effective`, `HasAll`, `Visible`, `Collected`, `Matches`, `Implies` | `permissions/access_control.py` |
| `ListsHistory` | the WHERE clause of `list_global_history`, with `deleted_at` and without the filters of the request |
| `Begin` | `get_current_user`, `require_role` |
| `ReadEntry`, `CheckAccess` | `get_entry`, and one `require_access`, each with its own query of the grants |
| `CheckAgain` | the second `require_access` of the permission routers, for the same row |
| `ReadGrant` | `get_entry` and `get_permission` in `PermissionService`, and the comparison of the entry ids |
| `CreateGrant`, `UpdateGrant`, `DeleteGrant`, `WriteEntry` | the write, and the answers 404, 409 and 500 |

`_permissions_for_update` returns a list and the code stops at the first right
that is missing; `CheckAccess` takes them in any order, which ends in the same
write or the same 403. `deleted` of a row is its `deleted_at`: `get_entry` does not
look at it, so the handlers go on with a soft-deleted entry (`Live` has it), and a
PATCH can set it, with the right to manage, and not take it back. `had` is an auxiliary variable: the rights the caller of
a running request has had since it began, in any state in between. An inactive
account is one that sends no requests. A body that sets a column of a grant to
null is a 500 that changes nothing and is left out.

### 2.5 AuditedStore, and Entries as its implementation

`AuditedStore` is what the entries component promises to those who do not know
its requests, transactions, fields and schemas: an entry has one version after
the other (`Commit`), every version gets one truthful record some time later
(`Record`) or, if `Lossy`, none (`Lose`), and entries vanish with their trail
(`Erase`). A record may name as its old version any earlier one: overlapping
PATCHes record what they read, which is not always what they overwrote.

`Entries` maps to it by

    Promise == INSTANCE AuditedStore WITH Versions <- Version, Lossy <- Failures,
                 content <- the rows, versions <- log, trail <- history, due <- Pending

where `Pending(e)` are the versions that running handlers still have to record.
`InsertEntry` and `UpdateRow` are `Commit`, `InsertHistory` is `Record`, or
`Lose` when it fails, `Abort` between the two is `Lose`, `DropSchema` is `Erase`,
and everything else is invisible. `PromiseKept` is the statement.

### 2.6 Links

Relations and attachments are two tables of rows that hang on entries, with the
same kind of handler; `live` is the set of entries that are there, and
`DeleteEntries` takes any of them with what hangs on them, as the deletion of a
schema does. Rights are left out: a 403 only ends a request.

| Action | Code |
|---|---|
| `PostRelation`, `PatchRelation`, `DeleteRelationRequest`, and the same for attachments | the routers' `get_entry`; the body |
| `GetEntry`, `GetTarget` | `get_entry` of the path's entry and of `to_entry_id` |
| `GetRelation`, `GetAttachment` | the row, and the comparison of its entries with the path |
| `InsertRelation`, `UpdateRelation`, `DeleteRelation` | one statement by id, with the foreign keys and the CHECK |
| `InsertAttachment`, `UpdateAttachment`, `DeleteAttachment` | one statement by id, with the foreign key, UNIQUE (entry, checksum) and the default checksum |
| `DeleteEntries` | ON DELETE CASCADE of both tables |

`Checksum` is the rule of `attachments.py`: a checksum not sent is the URL. A
PATCH of neither keeps it. URLs and clients' checksums are different sets: a
client that sends an URL as a checksum has told the two rows apart itself.

### 2.7 RelationTree

One reader's `GET /entries/{id}/relation-tree`, one query per action; between
any two of them others may write. The calls of `_build_tree_node` that are open
are the frames of `stack`, each with the rows its loop has not come to.

| Action | Code |
|---|---|
| `Look`, `Grants` | `get_entry`, and `check_access`: the row decides, or the grants, read next |
| `ReadRoot` | the second `get_entry` of the root |
| `List` | start of a call: `list_relations`; or a RecursionError |
| `NextRelation`, `EndOfLoop` | the loop, with the way back to the parent passed over |
| `Refer` | `_reference_node`: "cycle" or "duplicate" |
| `Return` | the node of a call, appended to the children of the one below |
| `CreateRelation`, `MoveRelation`, `DeleteRelation`, `SetLevel`, `Grant`, `Revoke`, `DeleteSchema` | the transactions of others |

What a reader may see is cut to what this reader can tell: an entry is `open` to
it (public, internal or its own), `restricted` (the grants decide) or `private`.
The order of a frame's rows (`sort_order`) may be any. `Room` is how many calls
Python's stack has room for in any case; beyond that a call may fail. The loop
itself asks nothing of the database, so a write at `next` would be one before or
after it, and is left out. `since` is auxiliary: what has not changed since the
request came.

### 2.8 Overviews

Dashboard, lookup and the pages of the global history, for one reader who is not
a head admin.

| Action | Code |
|---|---|
| `ListSchemas`, `ListEntries`, `CheckAccess` | `get_dashboard` and `list_entry_lookup`: the three reads they both make |
| `TotalEntries`, `TotalOfSchema`, `LatestCreated`, `LatestUpdated`, `Lookup` | the answers put together from them |
| `CreateSchema` ... `AddHistory` | the transactions of others |

`Gone` stands for a deleted row and for one with `deleted_at`. The time of a row
is 0 or 1 if it was there before the request and the number of the write after;
no row has been updated before it was created, as a PATCH begins to write after
it has read. The history is a set of rows, and the order of a page is that of the
ORDER BY: `Rank` counts the rows that come before one, by `changed_at` and then by
id, and `Page` takes the ranks that LIMIT and OFFSET ask for. `AddHistory` may
put its row anywhere, before, between or level with the others: `changed_at` is the
beginning of its transaction, and others commit in between.

## 3. The runs

The MC modules give the constants values for TLC.

| Run | Requests | Shows |
|---|---|---|
| `entries_concurrent` | 2, may fail | `ReferentialIntegrity`, `HistoryTruthful`, `OnlyNamedColumnsChange`, `SchemaDeleteIsAtomic` in all interleavings |
| `entries_serial` | 1 | `TypeOK`, `HistoryComplete` (the history is the chain of all versions), `WriteKeepsUnique`, `PatchKeepsOtherFields` for fields with defaults, required, nullable, inactive, unique - one of them a unique boolean - and all bodies |
| `entries_live` | 2 | `RequestsFinish`; `EveryWriteRecordedOnce`: no write without its history row, none with two; `PromiseKept`: `Entries` implements `AuditedStore` |
| `accounts_serial` | 1 | `TypeOK`, `HeadAdminRemains`, `OnlyHeadsManageHeads` with every body, crashes and restarts |
| `accounts_concurrent` | 2 | `NamesUnique`, `AdminRolesComeFromHeads`, `WritesOnlyWhatWasAsked` |
| `access_serial` | 1 | `TypeOK`, `HistoryRulesAgree`, `WritersAreEntitled`: the decision against two other formulations of it, with role changes, soft and real deletions between requests |
| `access_concurrent` | 2 | `WritersWereEntitled`: rights given, revoked and lost while a request runs; `GrantsIntact`, `OnlyGrantsOfTheEntry`: two entries whose grants are administered while they are deleted |
| `links` | 2 | `TypeOK`, `LinksIntact`, `LinkedOnce`, `RelationsChangeAsAsked`, `AttachmentsStayWithTheirEntry`: handlers that write by ids looked up earlier, under deletions |
| `tree` | 1 reader | `TypeOK`, `AnswerIsATree`, `NothingMissing`, `NothingHiddenShown`, `FailsOnlyByDeletion`: every graph of three relations, every level and grant, two writes anywhere |
| `overviews` | 1 reader | `TypeOK`, `EverySteadyEntryCounted`, `NothingHiddenCounted`, `TotalsAgree`, `LatestAreTheLatest` with two writes anywhere; `PagesMissLittle` with three |

Runs that show a disagreement between the code and what it or its documentation
says:

| Run | Shows |
|---|---|
| `accounts_last_head` | two requests remove the two head admins, each counting the other's |
| `access_private` | a grant on a private entry gives nothing, where the documentation and a test say it opens the entry |

Which properties need requests one at a time, and which hold in any
interleaving, is part of the result. More disagreements, each found with the same
models but without a run of its own:

* The history of a soft-deleted entry is listed for nobody by `GET /history`
  (`metadata.py:372`), and still shown by `GET /entries/{id}/history`
  (`services/entries.py:196`) to its owner, to head admins and to whom it is granted.
  `HistoryRulesAgree` states this difference, and that there is no other.
* A grant of `view_history` on a private entry does not bring its history into
  `GET /history` either: the query repeats the rule (`metadata.py:393`), and
  `HistoryRulesAgree` holds. `tests/test_global_history_endpoint.py:75-85` gives such
  a grant, and expects at 160 and 166 that the history is listed.
* Two overlapping creations store the same value under a unique field:
  `WriteKeepsUnique` holds one request at a time, and TLC violates it with two
  (`entries.py:110` reads, the INSERT comes later, and no constraint stands behind it).
* A unique boolean field is never enforced: `metadata.py:614` compares the text
  of the JSON, "true", with Python's "True". `WriteKeepsUnique` speaks of values
  whose two texts agree, and of those alone; `entries_serial` has such a field, and
  without this condition TLC stores the same boolean twice.
* A mere admin's request that began when its target was no head admin changes it
  after it became one: `OnlyHeadsManageHeads` holds one request at a time, and TLC
  violates it with two.
* `HistoryComplete` fails as soon as `Failures` is TRUE: the entry is committed
  (`services/entries.py:166`) before `add_history` runs.
* `docs/metadata_backend.md:84` lets admin roles bypass the checks, where `HasAll`
  (`access_control.py:49`) lets only head admins.
* `check_access` reads the row, then the grants. So an entry that its reader
  could see at every moment - restricted and granted, then made public, then the
  grant revoked - may be passed over with everything behind it; and one it could
  see at no moment - restricted when its row is read, then private, then granted -
  may be shown. `NothingMissing` and `NothingHiddenShown` say exactly what
  remains: what was readable, or hidden, all the time for one reason.
* `total` and `items` of a page are two statements (`metadata.py:468-471`). A
  client that stops at `total` misses rows that slipped in between them, old rows
  not new ones: `PagesMissLittle` counts both this and the shift of pages by rows
  that left.
* The lookup orders by `updated_at DESC NULLS LAST`: a new entry that nobody has
  updated comes after all that somebody has, where the dashboard falls back to
  `created_at`.

Bounds. Ids are never reused, so an id set of n means n creations; `IdsLeft`
and the guard of `Crash` keep an id for every creation under way. `MaxVersions`
bounds the PATCHes of an entry, not the states of one. Two requests are the
smallest number that races, and every race found needs exactly two: each
statement touches one row, or the rows of one schema, so a third request can
only repeat what a second one does. `entries_concurrent` has two entries of one
schema so that a deletion meets entries before, during and after it; with
`MaxVersions = 2` the histories of `entries_serial` have two rows, one of each
kind (`HistoryTruthful` is proved for any number). Every run has one schema: a
second one only multiplies the states, as no transaction touches two, and the
theorems hold for any number of them. Three values (two texts and a boolean)
suffice to tell equal from different and text from boolean. Two keys let a PATCH
name one field and not the other. Four accounts let a head admin, a second one,
an admin and a reader coexist. Symmetry is over interchangeable ids, keys and
requests, and is not used in `entries_live`, which checks liveness and the
refinement.

In `Access` one entry is enough where the property speaks of one entry, two where
a grant of another one could be touched; two grants are the smallest number that
can be equal, and let one be revoked while the other is used. `Posts`, `Offers`
and `Patches` are the bodies clients send: patches that ask
for each right of `_permissions_for_update`, alone or together, or name nothing,
grants to a role and to accounts, and bodies that name one column of a grant.
Rights that no modelled write asks for are in no grant.

In `links` three entries let a relation be moved from one end to another while
the third is the path; two rows of a table are the smallest number that can clash.
`Together = FALSE` keeps relations and attachments apart in TLC's runs, since no
step touches both but `DeleteEntries`; the theorems hold without it. `IdsLeft`
keeps an id for every creation under way. In `tree` three entries and three
relations have double relations, triangles, and paths as long as there are
entries; `Room = 2` makes the stack overflow possible on the longest of them, and
`MaxWrites = 2` is what it takes to open an entry and revoke its grant, or to hide
and grant it. In `overviews` one page holds one row and one list one entry
(`Limit`, `Latest`), so that two entries compete and two rows make two pages;
`Start` has an inactive schema and one that is created meanwhile, entries of every
level, with and without an update, and two of the same age of which the one with
the smaller id was updated, so that the orders of the three lists differ; `MaxLog` rows of history are there when the
request comes, with a stamp free before and after each, and three writes can shift,
insert and remove.

Fairness. `FairSpec` has strong fairness of each request's handler: a thread of
the pool is scheduled, and a transaction that waits for a row lock is queued by
PostgreSQL and granted it. No fairness is assumed of clients or
administrators: nobody has to send a request. `entries_live` has no failures,
because a request that dies is answered by its death.

## 4. The proofs

All theorems are about `Spec` with arbitrary constants that satisfy the named
ASSUMEs: any number of requests, ids, keys, values, and any table `Clean`, any sets of
bodies.

`EntriesProofs`: `TypeCorrect`, `ReferencesHold`, `HistoryNeverLies`,
`SchemaDeleteAtomic`, `OnlyNamedColumns`. They rest on one inductive invariant,

    IInv == TypeInv /\ ReferentialIntegrity /\ LockInv /\ LogInv
              /\ SnapshotInv /\ HistoryTruthful

`LockInv` says that an open deletion's locked rows are live entries of its schema
and locked by it alone: without it `DropSchema` could take rows of another
deletion. `LogInv` says that the last version in `log` is the content of the row,
and `SnapshotInv` that what a running handler read, or wrote and has not recorded,
is in `log` at the place it claims: this is what makes the history row it will
add truthful, although other requests write in between. There is one lemma for
each group of actions that leaves the same conjuncts alone, and one step for each
action and conjunct that it can disturb.

`AccountsProofs`: `TypeCorrect`, `NamesStayUnique`, `WritesAreAsked`,
`AdminsAreAppointed` for any number of requests, from an invariant that says
what the locals of a handler are at each `pc`. `HeadAdminStays` and
`HeadsManageHeads` hold when requests come one at a time (`OneAtATime`, the
hypothesis of both theorems; `accounts_last_head` shows that the first needs it).
Their invariant adds that the snapshot of the only running request is what the table
holds, and that the counts it has passed are still true.

`AccessProofs`: `TypeCorrect`, `GrantsStayIntact`, `OnlyThisEntrysGrants`,
`RulesAgree`, `WritersEntitled`, all for any number of requests. The invariant
`Inv` adds to the types what a handler holds at each `pc`, that the table of
grants is intact, and that a grant about to be written by its id is gone or
still belongs to the entry of the path (`Targets`): grants never change their
entry and ids are never handed out again, so what was checked in an earlier
transaction still holds. `WritersEntitled` has an invariant of its own for each
request, `Earned`: the checks passed so far are covered by `had`, and if the row
the request read makes its caller the owner or the caller is head admin, `had`
has everything. `RulesAgree` is a fact of every single state and rests on the
lemma `HistoryRules`, which compares the two formulations for any row, soft-deleted
or not, caller and set of grants. `WritersEntitledNow` is the stronger result for requests one at
a time (`OneAtATime`): the rights are there at the moment of the write, not only at
some moment before. Its invariant, `Allowed`, says that the row the request read is
the row that is there, and that the checks passed would pass now.

`EntriesSerialProofs` has what holds when requests come one at a time:
`HistoryIsComplete`, if none of them dies, and `UniqueStaysUnique` and
`PatchKeepsOthers`, also if they do. All rest on one invariant, `SerialInv`, on top
of `IInv`: the row a PATCH read is the row that is there (`SnapshotIsNow`); the
draft differs from it only in keys the body names, as the validator fills in
defaults for a POST alone (`DraftMerges`); of the draft's unique keys all but those
still to be checked are free (`DraftIsFree`); and the trail is as long as the past, or lacks
the one version whose record is under way (`TrailInOrder`, `RecordIsNext`). The
three properties need that no request is overtaken: of each, TLC finds a
counterexample with two overlapping ones.

`EntriesRefinement`: `KeepsPromise`, that `Spec => PromiseKept`, and
`EveryWriteRecorded`, that without failures every version is recorded once or
about to be. Every step is one of four kinds - silent, committing, recording,
erasing - or gives a record up (`KindOfStep`), and each kind maps to an action of
`AuditedStore` or to a stutter. Beyond `IInv` this needs only `Distinct`: no two
handlers owe the record of the same version of an entry, since a version's number
is its place in `log`. `EveryWriteRecorded` counts: what is in the history, plus
what is owed, is what is in `log`.

`LinksProofs`: `TypeCorrect`, `LinksStayIntact`, `NoUrlTwice`,
`RelationsOnlyAsAsked`, `AttachmentsStay`. The invariant adds what a handler
still knows of a row it has seen (`SeenInv`): ids are never handed out again, a
relation never changes its start, nor an attachment its entry, so the row is gone
or still belongs where it was found; and that a checksum no client gave is the
URL (`SumInv`), which is what turns UNIQUE (entry, checksum) into a rule on URLs.

`RelationTreeProofs`: all five properties of the tree, for any graph, any room on
the stack and any number of writes: `TypeCorrect`, `AlwaysATree`,
`HiddenStaysHidden`, `FailureIsDeletion`, `NothingSteadyIsMissing`. `TreeInv` says
that the open calls are about different entries, that `expanded` is the disjoint
union of their entries and of those that have a node (so at the end every entry
in it has one), and that nothing hidden all the time gets past `Grants`. The
calls on the stack being about different entries also gives the bound on the
stack. `NothingSteadyIsMissing` is the completeness of the search under change:
`CoverInv` says that a relation nobody has touched, between entries readable all
the time, is shown, or being visited, or led from one open call to the next, or
is still to be visited by a loop that will not pass it over, as soon as one of
its ends is expanded. The delicate case is the way back to the parent, which is
passed over: the parent was expanded before and covers the relation already.

`OverviewsProofs`: all six properties of the overviews, for any number of entries,
schemas, rows of history and writes, any page size, and any start. `TypeCorrect`;
`HiddenIsNotCounted` and `SteadyIsCounted`, whose invariant follows the order of the
reads: schemas before entries, so a schema missing from `known` has no steady entry;
entries before grants, so a steady entry is visible or still to be checked.
`LatestAreLatest` rests on a lemma about lists that are cut (`TopYields`): who is left
out has n others before it, and nobody is in the list who is not one of them. What
stands before an entry is then compared with what each order promises. For the
latest updated that needs that no row was updated before it was created
(`TimesInv`): then the stamp a row is ordered by is the latest it has.
`TotalsAddUp` needs that a schema there when the request came is in the map, or has
no row that was read (`SchemaMapInv`). `PagesLoseLittle` has the invariant that of
the rows listed all the time, those before the page's offset that the client has not
seen (`Missed`) are at most as many as have left; the lemma it rests on, `MovedUp`,
says that from one state of the listing to the next, at most as many rows move from
behind an offset to before it as have left the listing. Theorems that count entries
or schemas assume that there are finitely many, which Cardinality needs to mean
anything.

The sum over the schemas and the ranks of rows are about data of any size. The
induction theorems of the library take an operator as a parameter and cannot be used;
instead these proofs take a smallest counterexample, which exists by the theorem on
well-founded orders (`WFMin`): `LeastNatural` for the numbers of rows that have a
rank below n, `MinimalSubset` for the sets of schemas that are summed up.

Only model-checked: `RequestsFinish`, a liveness property under fairness, which is
out of the prover's reach. Every other property of a passing run is a theorem.

## 5. Not modelled, and the plan

Next: the safety part of `RequestsFinish`, which the provers can reach: that
every step of a running handler brings it closer to its answer, by a measure that no
other request raises, and that a handler waits for nobody but an open deletion,
which itself waits for nobody.

Not modelled, although it could be: PATCH of a schema (no entry operation reads
what it writes); the access maps of a list of entries (the same set of rights as a
table); `/entries/{id}/bundle`, which is a sequence of the reads modelled here.

Left out for good: passwords, the login and token signing (cryptography), the
wording of answers, searches by text and filters (one more conjunct each of a
WHERE clause), time stamps other than as an order, the fourteen data type
validators one by one (they are the table `Clean`), container scripts, seed data,
the example script.
