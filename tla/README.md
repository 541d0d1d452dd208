# Verification of the DuckDB Glue extension

The extension lets DuckDB attach an AWS Glue Data Catalog and read, write, create and
alter the Hive tables it describes (`src/src/`; the paths below are relative to it).
Glue has no transactions, and any client may change a database, a table or a partition at
any time; DuckDB has many connections and threads, and its catalog entries are plain
pointers.  What is hard in this code is therefore what happens *between* its steps, and
that is what the modules here are about.

- [Inventory](#inventory): the parts, their state, how they interact, what makes them right
- [Modules](#modules): what is modelled, and how it corresponds to the code
- [Runs](#runs): what TLC checks, the bounds, the fairness
- [Proofs](#proofs): what is proved, from what, along which argument
- [Where the code and its documentation disagree](#where-the-code-and-its-documentation-disagree)
- [Not modelled](#not-modelled) and [Plan](#plan)

`PROJECT.json` maps every definition to the lines it stands for, and lists the hazards, each
with the properties that would notice it.

## Inventory

| Part | Code | State it keeps | Operations |
|---|---|---|---|
| Transaction manager | `catalog/glue_transaction_manager.*` | running transactions and the order they started in; entries retired but not destroyed | start, commit, rollback; `RetireEntry`, `FreeRetiredEntries`, all under `transaction_lock` |
| Schema set, table sets | `catalog/glue_schema_set.*`, `glue_table_set.*` | entries by name, `is_loaded`, the counters of the bulk load; one `entry_lock` each; shared by all connections | `GetEntry`, `Scan`, `CreateEntry`, `RemoveEntry` |
| Metadata cache | `catalog/glue_transaction.*` | table definitions and partition lists of a transaction, or of a connection | `GetTable`, `GetPartitions`, `Invalidate`, `GetCache`, `EraseCache`, `ClearAll` |
| Glue transaction | `catalog/glue_transaction.*` | its cache; the tables to drop on rollback | `AddCreatedTable`, `Rollback` |
| Catalog, schemas | `catalog/glue_catalog.*`, `glue_schema_entry.*` | schema set; cached catalog id | lookup, CREATE, ALTER and DROP of schemas and tables |
| INSERT | `planning/glue_hive_insert.*` | the plan: partition locations, custom directories | plan, `CreatePartitionPath`, `Finalize` (register, check, undo) |
| CREATE TABLE AS | `execution/hive_copy.*` | the global sink state | `ClearLocation`, create and record the table, the query |
| Partition functions | `functions/glue_partition_functions.*`, `glue_repair_table.*` | none | add, drop, rename, move partitions; repair |
| Glue API | `api/*` | one cached client per catalog | requests in batches, with pages and retries |
| Query cache | `planning/hive_query_cache.*` | listings and partitions of a query; kept under `glue_cache_listings` | listing and partition lookup, `Clear` |
| Hive scan | `planning/hive_multi_file_reader.*`, `functions/hive_scan_function.*`, `planning/stats/*` | file list of a scan | pruning by filters, column mapping, statistics |
| The rest | `core/*`, `grammar/*`, views, options | none | conversions |

**Interaction.**  A statement starts a Glue transaction, which takes its cache.  Binding looks
up a schema in the schema set and a table in the schema's table set; the table set asks the
metadata cache what the table looks like *for this transaction* and the cache asks Glue.  When
the set's entry is not of that definition, a new entry replaces it and the old one goes to the
transaction manager, because other transactions may have a pointer to it.  A scan or an INSERT
then lists partitions through the cache.  A write goes to Glue, then clears the cache
of the transaction and all caches of its connection, then replaces the entry.  A rollback drops
the tables the transaction created and clears the connection's caches.

**Locks.**  `transaction_lock` is innermost.  `entry_lock` is released while a single lookup
asks the cache, and is *held* while a bulk load or a scan does, over the cache's slot locks; a slot
lock (`load_lock`) is held across a request to Glue.

**What is hard, and what makes each part right.**

- Entries: several connections replace, drop and read entries; nothing a transaction
  can reach is destroyed, everything else is in the end.
- Caches: threads resolve one key at a time, caches outlive transactions and attachments;
  nobody is answered from before an event that has to be visible to him, nothing is
  fetched twice.
- Table lookup: the entry set is shared but every transaction has its own view; a
  lookup returns an entry of its own view; bulk requests pay.
- INSERT: other clients change partitions between plan and registration, requests are
  retried, several writers undo themselves; rows are read once, as what was inserted.
- CREATE TABLE AS: every step fails or the process ends, others use the same name or
  location; what is deleted and dropped is the statement's own.
- ALTER, CREATE and DROP: a statement decides by what it found earlier, of a cache or a shared
  set; what it changes is what it decided about, no other change is undone, and the set of schemas
  says what Glue has.
- Partition changes: checks, batches, retries and lost answers; a statement that ends well has
  done its actions in order, one that was refused has done nothing.
- Scans: pruning takes filters out of the plan, listings are shared, kept and continued, files
  belong to the deepest of nested locations; the answer is the same whichever way was taken.

## Modules

| Module | Models | Checked by | Proofs |
|---|---|---|---|
| `EntryLifetime` | transaction manager, both entry sets: who may destroy what | `entry_lifetime` | `EntryLifetimeProofs` |
| `SafeReclamation` | abstract: objects are built, given out, and reclaimed when nobody holds them | as a property of `EntryLifetime` | refinement theorem |
| `MetadataCache` | the cache of definitions, its scopes, ATTACH and DETACH | `cache` | `MetadataCacheProofs` |
| `TableLookup` (extends `MetadataCache`) | lookup through the shared set, bulk load, scan, CREATE/ALTER/DROP of one table | `lookup`, `lookup_liveness` | `TableLookupProofs` (extends `MetadataCacheProofs`) |
| `HiveInsert` | INSERT: plan, files, registration, undo | `insert`, `insert_columns` | `HiveInsertProofs` |
| `CreateTableAs` | CREATE TABLE AS and the rollback | `create_table_as`, `create_table_as_other_table` | `CreateTableAsProofs` |
| `AlterPartitions` | ALTER TABLE ... PARTITION, the functions that change one partition, repair | `alter_partitions`, `alter_partitions_rename` | `AlterPartitionsProofs` |
| `TableDDL` | CREATE, ALTER and DROP of tables, views and schemas; schema lookups | `table_ddl` | `TableDDLProofs` |
| `HiveScan` | scans of a table: pruning, listing, sampling, reading, copies; the query and listing caches | `hive_scan` | `HiveScanProofs` |

The modules named `MC...` give the constants their values for TLC, bound what happens (`SmallSpec`)
and define the symmetries.  An operator whose name starts with `Slip` is a variant of the operator
after it with a plausible mistake; no specification uses one, and putting it in the
place of the right one breaks the property `PROJECT.json` lists it with.

### EntryLifetime

State: `transactions`, `transaction_sequence`, `next_sequence` and `retired_entries` are the
manager's members; `entries[s][n]`, `loaded` and `entry_lock[s]` are those of the sets.
`Root` is the schema set, and a schema object stands for the table set it owns, so that destroying
a schema destroys its tables (`Destroyed`).  `bound[c]` is what the C++ code has no
record of: the entry pointers a connection's transaction has been given.  `owner[o]` is the
schema a table entry refers to.

Grain: what runs under `transaction_lock` is one step.  A set operation takes `entry_lock`, then
retires, erases or emplaces name by name (`RetireEntry` leaves a null `unique_ptr` in the map until
the erase), then leaves the lock.  `call[c]` says how far it is.  A first `Scan` replaces several
entries under one lock.  What Glue answers is nondeterministic here: any operation may find
its entry current, outdated, gone or not convertible.

### MetadataCache

`definition[r][k]` is what Glue catalog `r` holds of key `k`, as a version number that each change
raises, and whether it exists.  A cache is a number
(`GlueTransactionCache::Id`); `tables[i][k]` is the slot (`CacheEntry`) of a key, and `value`
and `load_lock` are the slot's.  Slots are shared pointers: `Settle` empties what no live cache
and no thread refers to, so a slot that was cleared out of its map while a thread loads
it is still there for that thread.  A lookup is `Reference` (map lock), `Hit` or `Load` (slot
lock, then the request), `Store` or `LoadFails`, `Return`.  A write is `Write`
(Glue) and `Invalidate`, with lookups of other threads in between.

`floor`, `cleared` and `fetched` are history: the oldest version a lookup may be answered
with, per transaction and per connection, and the requests spent in a transaction.

### TableLookup

Adds the set of one database to the cache: `entries[k]` is the definition the entry was built
from.  `GetEntry` is `Enter`, `BulkLoad` or `BulkFails` under `entry_lock`; `Ask`
to `AskStore` or `AskFails` without it; `Finish` under it again.  The bulk load fills the cache
with a page (`WarmFind`, `WarmResolve`), as does a first `Scan`.  CREATE, ALTER and DROP are
`WriteTable`, `WriteReturns` (the cache is cleared), `Refetch`, then `CreateEntry` or
`RemoveEntry`.  `IsSameVersion` compares the two definitions (`SameVersion`).

### HiveInsert

A row is its partition value; `Values` are the strings Glue holds, `ReadAs` maps a string to the value
it is read as (`'1'` and `'01'` to 1), `Canonical` the other way round, and `Own[r]` is the
`<key>=<value>` directory.  `Path` is `CreatePartitionPath`; it returns `Null`
where the code raises an error.  `Plan` computes the three maps the plan carries.  The order of
partitions in Glue's list matters where two of them could claim a row or a directory:
`FirstOf` picks either.  `Send` is one partition of a batch, with all that can
happen to it: created, exists, an error that may pass after it took effect or
before, in which case it is sent again, `MaxAttempts` times.  Others register, move and drop
partitions at any time (`Place`, `DropPartition`).

### CreateTableAs

`ClearLocation` is `List`, `CheckUse`, `Remove`; then `Lookup`, `Create`, `Fetch`
(recorded for the rollback only here), `Query`, `Finalize` and, when anything
fails, `Rollback`, which deletes by name.  `Crash` may happen anywhere; nothing is recovered
afterwards because nothing is persisted.  `gone` and `since` are history: tables
dropped by somebody else, and who wrote to the location since the statement looked at it.

### AlterPartitions

`s` is the one statement: an ALTER TABLE with its list of actions (`kind = "alter"`), a function that
makes one change (`"call"`), or a repair.  Its fields are the locals of `GlueAlterTableApply` and
`GlueRepairTableApply`: `known` and `taken` what it found, `checked[i]` the partition its check fetched
for action `i`, `adds` and `drops` what is not sent yet, `batch` the positions still to be sent again,
`attempt` the tries.  An ALTER TABLE is `Bind`, `BatchGet` (keys left unprocessed are asked for again;
only rounds without progress count), `Check` per action, then `ApplyAdd`, `ApplyDrop`, `ApplyRename`,
`ApplySet`, `ApplyTable` in order, with `BatchCreate` and `BatchDelete` whenever an action of another
kind follows or the list ends.  A request may take effect and its answer be lost (`Update`, `Change`).
`Others` changes partitions or the definition in between; `touched` and `before` are history.

### TableDDL

One name of a table or view, and its database.  `table` and `database` are Glue's; `objects` are the
schema entries ever made, of which at most one is in the set; `cached[c]` is what the connection's
`GlueTransactionCache` has, which a connection scope keeps across statements.  `s[c].step` is where the
statement of connection `c` is, between any two of its requests.  A table lookup that does not have the
schema is `TryLookupTableBeforeSchema`, `LookupPrivate`, then `AddEntryIfAbsent` or `Confirm`; the others
go by `GetSchema` and `LookupEntry`.  Then each statement has its own steps, named for the function
they are in.  A definition is the set of clients whose edits it holds (`edits`), so that "an edit was
undone" can be said; `version` is the VersionId Glue compares, `second` its CreateTime, and `mixed` marks a
definition that was written over an object it was not read from.

### HiveScan

A location is a directory of a small tree (`Above`), its spellings made one by `ComparableLocation`; a
data file stands for its rows.  `Rank` is the order of keys in a listing.  A listing
(`query.listings`, `connListings`) is what was fetched of it, page by page: `NextPage` asks the store as it is
*then*, so a listing may mix two states of it, as S3's do.  `infos[s]` is the `HiveScanInfo` (its partitions, and
which partition each listed file belongs to), `lists[s]` the `HiveMultiFileList`, and scans that are copies share
the info.  A scan is `BindHiveScan`; any number of `ComplexFilterPushdown`, `HiveScanCardinality`,
`HivePartitionStatistics`, `CopyList` and `RestoreScan` while planning; `DynamicFilterPushdown` when it starts;
then a job per `ExpandNextPath` (`ListRoot`, or `ListPartitionTask` in any order and `ListPartitions`), and
`FinalizeBind` for each file.  `LoadPartitions` comes when something first needs them.  A filter is an answer per
partition value: true, false or NULL, or an error.  `always` and `ever` are history: what was
stored all along, or at some time, since the listings were last emptied.  What the cache of the transaction answers
is `MetadataCache`; here the partitions of a query are those registered when it asks.

## Runs

All runs use two workers and finish in about two minutes or less.  `CHECK_DEADLOCK FALSE` is set
in every configuration because the bounds (transactions started, caches created, changes made,
runs of a statement) stop every behaviour sooner or later; that nobody waits forever is
`SetCallEnds`, where it can happen.

| Run | Instance | Question |
|---|---|---|
| `entry_lifetime` | 3 connections, 2 names, 1 schema, 2 tables, 3 transactions | Can a pointer dangle, an object be destroyed twice, be kept without need, or a null slot be seen? |
| `cache` | 1 connection, 2 threads, 1 key, 2 aliases, 2 catalogs, 2 attachments, 2 caches | Is a lookup ever answered from before something that has to be visible? |
| `lookup` | 2 connections, 1 table, 3 caches, 1 change, 2 round trips, both scopes | Does a transaction get an entry of another one's view, or an old one? Does a failing bulk load cost more than it can save? |
| `lookup_liveness` | 1 connection, 2 threads, 1 table | Does every operation on the set end? |
| `insert` | 2 INSERTs, 2 values in 3 spellings, 4 directories, 2 runs, 1 change | Are the rows there, read once, and as what was inserted? |
| `insert_columns` | 1 INSERT, partitions with other columns | (a violation, see below) |
| `create_table_as` | 2 statements, 2 names, 2 locations, 1 table of another client | Is what is deleted and dropped the statement's own? |
| `create_table_as_other_table` | 1 statement | (a violation, see below) |
| `alter_partitions` | 3 partitions, 3 locations, every list of 1 or 2 actions, of 3 adds and drops, and those that replace a partition and rename it; batches of 2, 2 attempts, 1 change | Does a statement do what it says, all of it or nothing of it, and end? |
| `alter_partitions_rename` | the same | (a violation, see below) |
| `table_ddl` | 2 statements of 11 kinds, one connection of each cache scope, 2 changes by others (1 with schema statements) | Is another kind of object ever lost, an edit undone, a schema entry of a table destroyed, or the set out of date? |
| `hive_scan` | 10 layouts of 3 partitions in 7 directories with 10 objects, 7 settings, 3 filters, 2 scans or 2 statements | Does every scan read the rows of the table that satisfy its filters, and is planning told what holds? |

**Why the bounds are enough to be interesting.**

- `entry_lifetime`: three transactions are needed for one that holds an entry, one that retires
  it and one that starts between; two tables for a replacement and its original; two names for a scan that
  replaces several under one lock and for entries that swap owners.  One schema object is enough to drop a
  schema under its tables.  Its replacement by a second one is covered by the proofs, which
  hold for any number.
- `cache` covers three small worlds in one run (`Reattached`, `TwoAliases`, `Concurrent`
  in `MCMetadataCache`), which meet where only one thread has looked up through a single
  attachment.  Two attachments are the fewest that confuse an alias; two versions in `Concurrent`
  are the fewest that let a write overtake a load that overtook a write.
- `lookup`: three caches let a transaction end and start again while another runs.  Two
  round trips are the fewest after which a failed bulk load can be tried again.  `FirstPage`
  holds the table, which may not exist (an empty page).
- `insert` covers two worlds: one INSERT of two values with three spellings, and two INSERTs of one value,
  each run again after a rollback.  Every INSERT is a source of changes for the other one, besides the
  bound on those of other clients.
- `create_table_as`: two statements on the same or different names and locations contain
  the races between them; a third adds a location that was cleared twice.

- `alter_partitions`: two actions are enough for one to disturb the check of the other, and three for a
  partition to go, another one to come in its place and that one to be renamed (`Replaced`); three
  adds or drops fill more than one batch; two attempts let a request be sent again and fail for
  good.  A change by another client comes with statements of one action, since with more
  the statement already races itself.
- `table_ddl`: every pair of statements is in it.  Two changes by others drop and create
  the table again, which is what a VersionId cannot see.
- `hive_scan` covers three small worlds, told apart by the case (`MCHiveScan`): one scan of each layout (nested,
  side by side, shared, shared inside another, shared around another, with an empty or hidden path segment, at the root, stored differently,
  with NULL and unreadable values) in each way of listing; two scans, bound or copied, of five layouts, one (`Apart`) with partitions of one file and of two, so that another
  partition's files are noticed in an estimate; and one scan per
  statement while the store changes, with listings kept in each scope.  Pages hold two keys, so that a listing ends inside a
  partition; `KeysPerPage` is the same two, so that the choice between the root and the partitions goes either way.
  Statistics and join filters only vary in the first world, and in the second files are read once both
  lists are complete, because reading changes neither.

Symmetry is used over connections, names, objects, INSERTs, statements and locations where
a module treats them alike; never in the run with a liveness property.

**Fairness** (`LookupFairSpec`).  Weak for steps nobody can disable (a request to Glue is answered or
fails, since the HTTP client has a timeout; a thread runs on), strong for those that
need a mutex others take and release again and again (`Hit`, `Load`, `Finish`,
`CreateEntry`, `RemoveEntry`).  None for starting anything, nor for Glue to answer well.
`TableLookup` has a liveness property because there a lock is held over
another lock and over a request; `AlterPartitions` has one (`StatementEnds`, weak fairness of the
statement's steps: its requests are answered or fail) because its loops are bounded by attempts that start
over whenever something was achieved.

**What each property says** stands before it in its module.  The ones that took thought:
`SchemaOutlivesTables` (an entry refers to a schema retired on its own), `NoRetiredLeak` (the converse of
safety: memory is not kept), `Fresh` (five events, one bound), `RepeatableLookup` (a shared set, private
views), `RowsReadable` and `OneReader` (any interleaving with other clients), `RowsStay` and
`NothingLeft`.  Their exceptions are stated in them: `RowsReadable` excuses a partition
moved since the plan, `OwnRowsOnly` files written since the location was looked at, `NothingLeft` a lost
answer, a failed fetch and a failed drop.  In those cases the code cannot or does not do better.
Of a query that fails `docs/README.md` says the opposite of `NothingLeft`, see the disagreements.

What the exceptions of the later modules say about the code, all found by the runs before they were made:

- `FailsAsAWhole`: `docs/README.md` says of ALTER TABLE that every action is checked against Glue before any is
  applied.  Two actions about one partition (an add and a rename to the same values) pass their checks one by
  one and fail when applied, with the first one done; so does a new location with IF EXISTS, which
  no check looks at.
- `EditsStay`: a table dropped and created again starts at the same VersionId, so an ALTER that read the old
  one overwrites the new one, even a view (`mixed`).  UpdateDatabase has no VersionId at all: of two
  overlapping ALTER SCHEMA one may be lost.
- `KindKept`: DROP and CREATE OR REPLACE VIEW go by name.  Under a connection scope the kind is checked on a cached
  entry, and the definition written back is the current one (`glue_schema_entry.cpp:660`), so a table, or another
  engine's view, that has taken the name is replaced; `known` leaves out what the statement never asked Glue about.
- `SchemaInfoFresh`: a lookup that adds its private schema entry after a DROP SCHEMA leaves an entry that knows only the
  name; a lost answer of UpdateDatabase or DeleteDatabase leaves the old one.
- `Answer`: a partition registered in a directory named `_*` below the root is read when it is listed by itself and
  left out when the root is listed (`PlanListings` and `IsDataFile` with the root as prefix), so its rows depend on how many
  partitions the query reads (`HiddenLocation`).  A copy of the plan restored after pruning knows fewer locations and gives files of a
  pruned nested partition to the enclosing one (`Blurred`), though a comment of `BuildPartitionLocations` says attribution does not
  depend on filters.
- `SharedRefused`: such a copy takes the files of a nested partition it does not know for those of the enclosing
  location, and refuses a shared location that has no other files.
- `OneFormat`: such a copy carries values and locations only, so neither the storage nor the column types of its
  partitions are checked (`whole`).
- `EstimateHolds` is about partitions no other is nested in (`Alone`): a page that ends inside a nested partition makes the sample count
  the enclosing one short.  And it is
  about scans that number the partitions as Glue returned them, as does the scan that took the sample (`GlueNumbers`): a copy
  restored after pruning numbers those left anew, but shares the sample of the table, in which files are counted by number.  Such a copy,
  and a scan that uses a sample such a copy took, are exempt from all but the statistics; that their estimates may be wrong is the last of the disagreements
  [below](#where-the-code-and-its-documentation-disagree).  Only estimates depend on either.

## Proofs

`EntryLifetimeProofs` proves, for any connections, names, objects and bound on transactions:

| Theorem | States |
|---|---|
| `TypeCorrectness` | `Spec => []TypeOK` |
| `UseAfterFreeFreedom` | `Spec => []NoUseAfterFree` |
| `SchemaSurvival` | `Spec => []SchemaOutlivesTables` |
| `Ownership` | `Spec => []SingleOwner` |
| `NullSlots` | `Spec => []NullSlotHidden` |
| `NoLeak` | `Spec => []NoRetiredLeak` |
| `Refinement` | `Spec => ImplementsReclamation`, that is, `SafeReclamation!Spec` under the refinement mapping |

Assumptions: `ObjectsDistinct` (schemas, tables and the special values differ) and
`MaxSequenceNat`.  The bound only disables `StartTransaction`, and any natural number is
allowed.

The argument.  `NoUseAfterFree` is not inductive: that what a transaction holds is not
destroyed *now* does not say that it will not be destroyed *next*.  The invariant `IInv` says why: everything a transaction
holds is still in its set, or was retired after the transaction started (`HeldInv`), and the holder
also holds the schema of that set, since a table set is reached only through a schema entry
that was looked up before.  `FreeRetiredEntries` destroys what every running
transaction is younger than, which is then none of it; the tables destroyed along with a schema
were in its set, so whoever holds one holds the schema, which he cannot.  To keep
`HeldInv` through a replacement one needs that an object is in its set once and
retired once (`LinkedInv`, `RetiredInv`), that only the lock's holder is between the hand-over and
the erase (`CallInv`, `NullSlotHidden`), and that a destroyed set is reached by nobody
(`FreedInv`).  One lemma per action keeps `IInv`; `NextIInv` combines them; the
theorems are consequences.  The refinement shows that an end of a transaction is a `Release`
and every other step a `Give` or a stutter.

`CreateTableAsProofs` proves, for any statements, names, locations and other clients:

| Theorem | States |
|---|---|
| `TypeCorrectness` | `Spec => []TypeOK` |
| `FailureLeavesNothing` | `Spec => []NothingLeft` |
| `SuccessReadsOwnRows` | `Spec => []OwnRowsOnly` |
| `SuccessKeepsRows` | `Spec => []RowsStay` |
| `RollbackIsOwn` | `Spec => RollbackDropsOwn` |

Assumptions: `WritersDistinct` (a statement is no other client, and nobody is the writer of the old
files) and `NullIsNoTable`.

The argument.  `RowsStay` is not inductive: a statement that is about to remove the files it listed could
have listed those of a table.  It has not (`RemoveInv`): a statement writes files only after it has created
its table (`FileInv`), so if a listed file is a statement's, that one's table existed before the
listing; it had the same location (`TableInv`), so `ThrowIfLocationInUse` found it there, or it was dropped
before and will not come back.  That is why the check stands between the listing and the removal and not
before the listing.  `OwnRowsOnly` follows from `CleanInv`: once the location was
found or made empty, everything there is the statement's own or was written since.  For the
rollback, `RecordInv` says that a recorded table is at its name unless somebody dropped it, and `TableInv` that
a statement's table is nowhere else, so what goes from that name is the
statement's table or the statement is in `gone`.  One lemma per action keeps `IInv`; steps that change
only the statement itself share `QuietIInv`, and those that change files `FilesIInv`.

`TableDDLProofs` proves, for any connections, cache scopes and number of changes by others:

| Theorem | States |
|---|---|
| `TypeCorrectness` | `Spec => []DdlTypeOK` |
| `EntryOutlivesUse` | `Spec => []SchemaOfEntry` |
| `SetIsFresh` | `Spec => []SchemaInfoFresh` |
| `DropsItsKind` | `Spec => []KindKept` |
| `ChangesStay` | `Spec => EditsStay` |

Assumptions: `ChangesType` (the bound is a natural number) and `UnreadIsNoDefinition` (a cache that was not asked is
told apart from one that has a definition).

The argument.  `IInv` has five layers, each inductive with those before it.  `TypeInv` says "one entry in the set"
without a cardinality.  `ObjInv`: a schema entry that is not in the set yet belongs to one statement, and
one that a statement goes on with is or was in the set; from it `SchemaOfEntry` follows at once.
`InfoInv`: an entry that is not in the set knows nothing of the database, so adding it
late cannot make the set wrong, and what an ALTER SCHEMA has read is what Glue has unless `unseen` says that it
overlapped with a change.  `VersionInv` is what `EditsStay` lacks: *every* definition of the table that is around, in a cache, as a
found entry or about to be written, is an earlier version of the one Glue has, and with an equal
version the same one, as long as the table is the same object and was not written over (`mixed`); so the VersionId of UpdateTable is
enough.  `KindInv` says the same of a deletion: if the table that is there now was there when the
statement asked Glue (`at`), the entry whose kind it checked is of that table, whose kind does not change without
`mixed`.  The connection's cache takes part in it: the request that answers the statement fills it, so
what it has is that answer or nothing.  One lemma per action, or per group of actions that change the same things, keeps `IInv`.

`MetadataCacheProofs` proves, for any threads, connections, keys, aliases, catalogs, caches and versions:

| Theorem | States |
|---|---|
| `Invariance` | `Spec => []IInv` |
| `TypeCorrectness` | `Spec => []TypeOK` |
| `Freshness` | `Spec => []Fresh` |
| `SingleFetch` | `Spec => []FetchedOnce` |

Assumptions: `ThreadsOfConnections` (every thread works for one connection), `Bounds` (natural numbers),
`NullDistinct` and `UnlockedIsNoThread` (the special values are nothing else).  `EnoughSlots` is not used: a lookup
that needs a new slot finds one or does not happen.

The argument.  `Fresh` is about a request that was answered; whether it will be is decided when the slot is found
or made, so what has to be invariant is about slots.  `ValueInv`: what a slot has, *or what a thread is about to put
there*, is new enough for everybody who has the slot in hand and for everybody who can still find it in a map.  A write raises
what the connection has to see, and between it and `Invalidate` the old value is still in the map; that is why `cleared` and
`floor` are raised by `Invalidate`, at the moment the slot leaves the map, and why a thread that loads into the old slot harms nobody:
whoever has it in hand asked before (`SlotInv`: a slot is for one key of one cache, also when it is in no map any more).
`OwnerInv` says that a cache number is used by one connection for one attached catalog, which is what
the `attach_oid` that `GetCache` compares is for.  For `FetchedOnce`, `LoadInv` says that one thread loads a slot, only while it is
empty, and that a thread since whose lookup the connection has not written has the slot that is in the map; so the second request could only
follow a slot that is empty although its transaction has fetched, and there is none.

`TableLookupProofs` proves, for any threads, connections, tables, pages and number of round trips:

| Theorem | States |
|---|---|
| `LookupInvariance` | `LookupSpec => []LInv` |
| `LookupTypeCorrectness` | `LookupSpec => []LookupTypeOK` |
| `CacheOfLookups` | `LookupSpec => [](Fresh /\ FetchedOnce)` |
| `LookupFreshness` | `LookupSpec => []FreshLookup` |
| `LookupRepeatable` | `LookupSpec => []RepeatableLookup` |
| `LookupCost` | `LookupSpec => []BulkCost` |

Assumptions: those of `MetadataCache`, `FirstPageKeys` and `MaxRoundTripsNat`, and `CatalogAttached` (there is an ATTACH to look
up through).

The argument.  `LookupSpec` does not imply the cache's `Spec`, because a page of a bulk load fills slots without a lookup's
request; so `IInv` of the cache is proved again for the steps of `LookupNext`, with the lemmas of `MetadataCacheProofs` wherever the
step is one of the cache's.  A page fits (`PageInv`) for as long as it takes to put it there, because what the connection has to see
rises only when one of its threads writes, and a thread that writes is alone on its connection
(`ExclusiveInv`: a statement that writes runs on one thread).  `RepeatableLookup` follows from `GivenInv`: what a transaction has been given is what
its own cache *has*, so the shared set, which other connections replace all the time, plays no part in it; `FreshLookup` follows from the same and
`ValueInv`.

`HiveInsertProofs` proves, for any INSERTs, partitions, spellings and directories:

| Theorem | States |
|---|---|
| `Invariance` | `Spec => []IInv` |
| `TypeCorrectness` | `Spec => []TypeOK` |
| `ReadableRows` | `Spec => []RowsReadable` |
| `RowsWrittenOnce` | `Spec => []RowsOnce` |
| `OneReading` | `Spec => []OneReader`, if `~ColumnsMayDiffer` |

Assumptions: `ReadAsType`, `CanonicalType` and `OwnType` (a string is read as one value, the canonical one as its own, and two values
have two directories), `UnwritableType`, `OwnIsWritable` (a statement can write to its own directories), `ColumnsType`, `MaxAttemptsType`, `InsertBounds`,
and `NullDistinct`.  The hypothesis of `OneReading` is needed: with partitions of other columns `OneReader` is false, which is the first of the disagreements below.

The argument.  That rows are readable once the statement is done does not say how they got there.  `SettledInv` does: in every step of
the registration the directory of a row is that of a partition of its value, or it is still pending, to be sent again, or among the
ones that exist and are to be looked up.  What counts as "exists" was there before or came from a lost answer, so it is compared with the plan (`PlanInv`) or with
Glue; what others did to it since is in `moved` and `placed` (`MovedInv`, `PlacedInv`), so that the excuse in `RowsReadable` is exactly theirs.
`OneReader` needs the converse: a partition at a directory of the statement that nobody else put there was in its plan or is its own.  All parts are about
one statement, and the steps of another one are seen as those of any other client (`PlanFrame`).

The arms of the CASE in `Send` have to be disjoint for this: TLC takes the first arm that is true, while the semantics a proof goes by allows any.

`AlterPartitionsProofs` proves, for any partitions, directories, lists of actions, batch sizes, attempts and changes by others:

| Theorem | States |
|---|---|
| `Invariance` | `Spec => []IInv` |
| `TypeCorrectness` | `Spec => []TypeOK` |
| `WholeOrNothing` | `Spec => []FailsAsAWhole` |
| `RepairCompleteness` | `Spec => []RepairIsComplete` |
| `ChangesStay` | `Spec => TableChangesStay` |
| `OrderHolds` | `Spec => []DoneInOrder` |

Assumptions: `ReadDirType`, `BatchSizes` (batches and attempts are at least one), `ChangesType`, `NullDistinct`, `FiniteStore` (a repair finds finitely many
directories), and `TodoType` with `Parsed` (the actions have the arguments that binding gives them).

The argument.  `FailsAsAWhole` is about the end of a statement; why nothing has failed *yet* is in `CheckedInv` (an action whose check passed found its
partitions as it needs them), `KnownInv` (for a batch looked up together: those that exist, and only those) and `AheadInv` (the partitions of the actions still ahead
are what they were, because the actions are about different ones and what is queued is of actions already reached, `QueueInv`).  A call instead makes
its check and its request in turn (`CallInv`).  For a repair, `FoundInv` says that every directory has its partition, or is at a registered location, or is still in `adds`;
a batch of which some positions are to be sent again has registered the rest.  `AddsInv` keeps two partitions from one location: a directory is registered as what it reads
as, and not if its location was taken.  `TableChangesStay` is an action property and follows from `VersionInv`: the definition SET LOCATION sends, if it has Glue's version,
has every change Glue has.

`OrderHolds` compares the partitions with a fold over the list of actions.  `StepsOfOrder` turns the fold into states `d[0] .. d[Len(todo)]` that follow one from
another (by a least counterexample, since an induction theorem takes an operator), and a second invariant, `OrderInv`, says where a statement is among them: what
is registered, once the queues are sent, is `d[at - 1]` (`LeadsTo`, where of several adds of one partition the first counts, and none if
it exists).  `SentInv` is what the retries of a batch need: a position that is not sent again has its effect, or that of an earlier position that is.  A rename
that goes through sends what is there (`RenameUnmoved`), because what is there when the statement is bound stays until an action takes it away
or puts another one there (`StepsStay`), and nobody else can put one there: the target of an earlier rename did not exist when it was checked.

`HiveScanProofs` proves, for any table, tree of directories, files, filters, pages, settings and number of scans:

| Theorem | States |
|---|---|
| `Invariance` | `Spec => []IInv` |
| `TypeCorrectness` | `Spec => []ScanTypeOK` |
| `AnswerHolds` | `Spec => []Answer` |
| `SharedLocationsRefused` | `Spec => []SharedRefused` |
| `OneFormatHolds` | `Spec => []OneFormat` |
| `EstimateInvariance` | `Spec => [](IInv /\ EInv)` |
| `EstimateCorrect` | `Spec => []EstimateHolds` |

Assumptions: `TreeAssumption` and `DirsDistinct` (a directory's ancestors are a chain and tell it apart; files, directories and partitions are
finitely many), `FilterAssumption`, `CasesAssumption`, `PagesAssumption` (a page holds at least one key) and `NoneDistinct`.
The last two also use `OrderAssumption` (the keys below a directory follow one another) and `SampleDistinct` ("no sample yet" is no sample); the
others do not, so the answer is right wherever a listing ends.

The argument.  `Answer` is about scans that ended, and says of each file what a dozen steps decided: which filters went where, who
listed, what the listing had, whose the file is.  `IInv` says of each step what it has decided so far.  `PruneInv`: a partition left out fails a filter the query has
(for every row, since a filter that raises an error prunes nothing), and a filter taken out of the plan holds of every partition that is
left, also after the ones left become fewer; a join filter that arrives later stays with the join.  `Faithful`: a listing, wherever it was continued and whoever
made it, has every file stored all along up to the key it got to.  `InfoInv` and `FilesInv`: what the scan was given is attributed to
the deepest registered location, found in the table's tree, below the root or below one partition, which gives the same as long as the file
is a data file from there (`OwnerWithin`).  `Gathered`: a job that is done has put every such file of its partitions into the list, unless it
listed the root and the partition is in a hidden directory; when the location is shared it has been refused instead.  `JobsInv` says so of all
jobs before `next`, and `PlanFacts` that the jobs of a plan are, together, the partitions to read; so at the end nothing is missing.  The plan of a scan that
has begun stays the plan, because partitions are loaded before and pruning starts over with the first job (`PlanNext`).
`ErrorInv` carries the file behind a refusal, and `SampleInv` the format of the file that was measured.

The listing jobs and the ownership of files rest on facts that need induction (a finite chain has a deepest member; the files of a sample are counted partition by partition).  The
library's induction theorems cannot be instantiated here, so these are proved from a minimal counterexample: `WFMin` for the strict
subsets of a finite set takes a set of sets instead of an operator (`MinimalSet`, `FirstExists`).

`EstimateCorrect` is about what planning was told, of scans that number the partitions alike (`GlueNumbers`), and rests on a second invariant.  A sample is taken of a listing that ends somewhere, and the scans that come after continue the listing and list again; so `EstimateHolds`
must survive what they find.  `SampleRootPartitions` leaves out the partition the last page may have cut (`PartlySeen`), and `KeptWhole` shows that this is
enough: between two files of a partition that no other lies in there is no file of another partition (`Between`, from the order of keys), so if one
of its files was kept and another is still to come, the partition would be the one that is cut.  `TableInv` says it of the state: the sizes of a partition have
each of its files that has stayed in the store (`SizesInv`), and what the kept root listing has or may yet bring is among them (`RootSeen`, with
`MayHold` for keys after the place the listing got to; `OrderedInv` says that it has none of those already).  `EstimateInv` connects an estimate to the sample.
For the last conjunct of the property the files read and the files counted are the same set (`FilesAreSizes`).  `Gathered` gives that but for
hidden directories, where a listing of the root and a listing of the partition differ: `OwnInv` says what the jobs of single partitions
found there, and `SizesInv` that a sample of one partition was taken only when even that partition alone is not listed by the root
(`ByRoot`, which grows with the partitions read, `ByRootGrows`), so sample and scan listed it the same way.  `FilesAtFacts` and `SumOfSizes` then turn the
sum over partitions into the number of files, since no two partitions have one number (`NumberInjective`) or a file in common.
TLC checked `EInv` over the states of `hive_scan` before it was proved.

Only model-checked:

- what does not hold: `OneReader` where partitions may have other columns, and the properties of the other runs that find a
  violation (`OnlyOwnTables`, `RenameKeepsLocation`);
- liveness (`SetCallEnds`, `StatementEnds`), which is out of the prover's reach.

## Where the code and its documentation disagree

1. `insert_columns`: `docs/README.md` says that inserting rows whose directory is the location of
   another partition fails.  Partitions with other column types are left out of the directories
   checked (`planning/glue_hive_insert.cpp:322`), so rows are written there and the directory is
   registered a second time: they are read as both partitions'.
2. `alter_partitions_rename`: `docs/README.md` says that a rename keeps the location.  In one ALTER TABLE that
   sets the location of a partition and then renames it, the rename sends the definition its check
   fetched before (`functions/glue_partition_functions.cpp:933`), and the partition ends at the old location.
   So it does when the statement drops the partition (or renames it) and adds one at another location in its place before the rename.
   `DoneInOrder` excepts these lists (`RenamesMoved`).
3. `create_table_as_other_table`: a comment (`execution/hive_copy.cpp:108`) says that a rollback only
   drops a table the statement created.  It drops by name, so when another client has
   dropped that table and created one of the same name, it drops this one.

The other two have no run that expects a violation; they are shown by what the runs that pass say.

4. `create_table_as`: `docs/README.md:210` says of CREATE TABLE AS "if the query fails the (empty) table
   stays", and `docs/README.md:261` of DDL that "nothing is rolled back on failure".  `GlueTransaction::Rollback`
   (`catalog/glue_transaction.cpp:38`) drops the table, and the test of the feature describes that
   (`create_table_as_created_at_execution.test:2`, "rolls back and the cleanup drops it").  `NothingLeft`, which is checked and
   proved, follows the code and the test: it is the opposite of what the document says, on the very case the document is about.
5. `hive_scan`: a comment (`planning/stats/hive_stats.cpp:321`) says that the estimate counts "the files and bytes the scan
   reads: those of its partitions the listing saw".  `SampleTable` (`planning/stats/hive_stats.cpp:286`) keeps one sample per table name, with the files counted under the
   index of their partition; a copy of the plan restored after pruning (`HiveScanDeserialize`) keeps the name and numbers the partitions it has
   from 0.  `EstimateHolds` therefore exempts such copies and samples (`GlueNumbers`), and needs to: with `GlueNumbers` true of
   every scan TLC refutes it in the layout `Apart`.  A scan is pruned to the second of three partitions, which has two files, measures the
   table and is copied; the copy, which reads the same partition, looks it up under 0 and is told of one file, the first partition's.
   The rows are right (`Answer`); the plan may be a poor one.

## Not modelled

DuckDB itself, the AWS services and the object store appear as what they may do to the code: answer, fail, lose an answer,
change.  Parsing and formatting (DDL text, SerDe parameters, ARNs, dates), the copy options of file
formats, the casts of text fields, SQL export (`HiveScanToSQL`), view text, grammar rewriting, the widening of types, logging
and the HTTP transport have no state of their own.  The row data of files is abstracted to "who wrote it where".
`components` in `PROJECT.json` has a line for each.

In the modelled parts: IF NOT EXISTS in CREATE TABLE AS (the statement fails either way once
it executes), more than one batch of `BatchGetPartition`, definitions that cannot be turned into an entry in `TableLookup` (they
are in `EntryLifetime`), partitions with another number of values than the table has keys, locations spelled
differently in the repair (raw strings are compared there, `functions/glue_repair_table.cpp:164`), a table whose columns change while
its files stay, and the arguments of `hive_scan()`.

Smaller simplifications, on which no result depends.  `HiveScan`: an unreadable column type fails every open, also when the column is not
selected; a measurement that throws (the `catch` in `MeasureTable`) gives no estimate in the code and does not happen here; `SampleDirectories`
may take any partition of the first batch, the code takes the first; pages of the root are estimated by comparable locations instead of raw
strings.  `TableDDL`: Glue always returns a VersionId, and GetDatabase and UpdateDatabase of an ALTER SCHEMA are one
step (its properties exempt those that overlap).  `TableLookup`: a write succeeds (failing ones are in `MetadataCache`), and a refused
`GetTables` is not an empty list.  `AlterPartitions`: an entry of a batch that Glue refuses for good has no effect.

## Plan

Done: `AlterPartitions`, `TableDDL` (the plan's `TableUpdate` and `SchemaDDL`), `HiveScan` (its `QueryCache` and `PartitionPruning`).

Left, in this order:

1. The composition of `MetadataCache` with `HiveScan`: partition lists and listings have the same scope but are emptied
   by different hooks.
2. The cached Glue client, keyed by credentials and settings.
