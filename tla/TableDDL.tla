------------------------------ MODULE TableDDL ------------------------------
(***************************************************************************)
(* Statements about one Glue table or view and about its database: the     *)
(* catalog functions of GlueCatalog and GlueSchemaEntry.                   *)
(*                                                                         *)
(* Glue has no transactions, so every statement is a sequence of requests; *)
(* those of another connection and of other clients come in between.  What *)
(* a statement knows of the table is its connection's cached definition    *)
(* (MetadataCache), what it knows of the database is an entry in the set   *)
(* of schemas, which all connections share.                                *)
(*                                                                         *)
(* The entries of the table set are TableLookup's: a lookup is one step    *)
(* here.  The schema set's lock is held while Glue is asked for a          *)
(* database, so that is one step too.  A definition is its edits: who      *)
(* changed it.  Columns, SQL and properties are left out, and with them    *)
(* what a statement refuses for their sake, which is a choice.             *)
(***************************************************************************)
EXTENDS Integers, Sequences, FiniteSets

CONSTANTS
  Conn,          \* connections; each runs one statement
  ConnScoped,    \* those with glue_metadata_cache_scope = 'connection'
  Null,
  Unread,        \* the table is not in the connection's cache
  Other,         \* the other clients of Glue
  MaxChanges     \* bound: changes by other clients

ASSUME ConnScopedType == ConnScoped \subseteq Conn
ASSUME OtherClient    == Other \notin Conn
ASSUME ChangesType    == MaxChanges \in Nat

VARIABLES
  database,      \* Glue: the database
  table,         \* Glue: what it has under the table's name
  made,          \* Glue: the last object created, and when
  objects,       \* the schema entries created so far
  is_loaded,     \* the schema set was filled by a listing
  cached,        \* what the connection's cache has of the table
  s,             \* the statements
  lost,          \* what statements deleted or overwrote
  unseen,        \* the database changed in a way the schema set need not show
  changes        \* how often other clients changed something

glue      == <<database, table, made>>
schemas   == <<objects, is_loaded>>
histories == <<lost, unseen, changes>>
vars == <<glue, schemas, cached, s, histories>>

Client   == Conn \cup {Other}
Kind     == {"table", "duckdb view", "view"}     \* "view": written by another engine
Database == [id : Nat, edits : SUBSET Client]

\* id: which of the objects created under the name; second: Glue's CreateTime, in whole
\* seconds; mixed: it was overwritten with the definition of an earlier one, or with a view.
Definition ==
  [kind : Kind, id : Nat, second : Nat, version : Nat, edits : SUBSET Client, mixed : BOOLEAN]

ASSUME UnreadIsNoDefinition == Unread \notin Definition

\* private: only the statement that created it has it; gone: it was destroyed.
Entry == [state : {"private", "set", "retired", "gone"}, info : Database \cup {Null}]

AboutView == {"create view", "drop view"}
Do == AboutView \cup {"query", "list", "create table", "alter", "drop table", "columns",
                      "create schema", "drop schema", "alter schema"}

Step ==
  {"start", "private", "add", "confirm", "schema", "entry", "found", "info", "create", "raced",
   "write", "update", "stored", "delete", "create database", "read", "update database",
   "fetch", "install", "check empty", "delete database", "remove", "end"}

\* force: OR REPLACE, CASCADE; obj: its schema entry; entry: the table entry it found, and
\* at, the last object created before Glue was asked for it; bound: the definition it sends
\* back; info: the database as it read it.
Statement ==
  [do : Do, force : BOOLEAN, step : Step, obj : Nat, entry : Definition \cup {Null}, at : Nat,
   bound : Definition \cup {Null}, info : Database \cup {Null}]

InSet(objs) == {i \in DOMAIN objs : objs[i].state = "set"}

\* The set has one entry for the name.
DdlTypeOK ==
  /\ database \in Database \cup {Null}
  /\ table \in Definition \cup {Null}
  /\ made \in [id : Nat, second : Nat]
  /\ objects \in Seq(Entry) /\ Cardinality(InSet(objects)) <= 1
  /\ is_loaded \in BOOLEAN
  /\ cached \in [Conn -> Definition \cup {Null, Unread}]
  /\ s \in [Conn -> Statement]
  /\ unseen \in BOOLEAN
  /\ changes \in 0 .. MaxChanges

New(kind, id, second, edits) ==
  [kind |-> kind, id |-> id, second |-> second, version |-> 0, edits |-> edits,
   mixed |-> FALSE]

Started(do, force) ==
  [do |-> do, force |-> force, step |-> "start", obj |-> 0, entry |-> Null, at |-> 0,
   bound |-> Null, info |-> Null]

\* A connection scoped cache may have the table since an earlier statement; the set may
\* have the schema, as a table lookup or as a lookup of the schema left it.
Init ==
  /\ database \in {Null, [id |-> 1, edits |-> {Other}]}
  /\ table \in {Null} \cup {New(k, 1, 0, {}) : k \in IF database = Null THEN {} ELSE Kind}
  /\ made = [id |-> 1, second |-> 0]
  /\ objects \in {<<>>} \cup {<<[state |-> "set", info |-> i]>> :
                                i \in IF database = Null THEN {} ELSE {Null, database}}
  /\ is_loaded = FALSE
  /\ cached \in [Conn -> {Unread, table}]
  /\ \A c \in Conn : cached[c] # Unread => (c \in ConnScoped /\ table # Null)
  /\ s \in [Conn -> {Started(do, force) : do \in Do, force \in BOOLEAN}]
  /\ lost = {} /\ unseen = FALSE /\ changes = 0

At(c, step)  == s[c].step = step
To(c, step)  == s' = [s EXCEPT ![c].step = step]
End(c)       == To(c, "end")
Invalidate(c) == cached' = [cached EXCEPT ![c] = Unread]     \* InvalidateOnExit

-----------------------------------------------------------------------------
(* The set of schemas (GlueSchemaSet) *)

Unloaded == [state |-> "set", info |-> Null]
Loaded(info) == [state |-> "set", info |-> info]

\* The entry in the set, 0 if there is none.
GetCachedEntry(objs) == IF InSet(objs) = {} THEN 0 ELSE CHOOSE i \in InSet(objs) : TRUE

\* What GetEntry leaves in the set: Glue is asked for a database it does not have.
GetEntry ==
  IF InSet(objects) # {} \/ database = Null THEN objects ELSE Append(objects, Loaded(database))

RetireEntry(objs) ==
  [i \in DOMAIN objs |-> IF objs[i].state = "set" THEN [objs[i] EXCEPT !.state = "retired"]
                                                  ELSE objs[i]]

SlipKeepEntry(info) == IF InSet(objects) # {} THEN objects ELSE Append(objects, Loaded(info))
CreateEntry(info)   == Append(RetireEntry(objects), Loaded(info))

\* A listing: LoadEntries adds the database, or what is not known of it (SetSchemaInfo).
Scan(c) ==
  /\ At(c, "start") /\ s[c].do = "list"
  /\ objects' = IF is_loaded THEN objects
                ELSE [i \in DOMAIN GetEntry |->
                        IF GetEntry[i] = Unloaded THEN Loaded(database) ELSE GetEntry[i]]
  /\ is_loaded' = TRUE
  /\ End(c)
  /\ UNCHANGED <<glue, cached, histories>>

-----------------------------------------------------------------------------
(* Finding the table: TryLookupEntryInternal *)

\* What the connection finds of the table (GlueTableSet::GetEntry).
LookUp(c) == IF cached[c] = Unread THEN table ELSE cached[c]

\* A table lookup asks Glue for the table first, if the set does not have the schema: with
\* an entry of its own that only knows the name.
TryLookupTableBeforeSchema(c) ==
  /\ At(c, "start") /\ s[c].do \in {"query", "alter", "drop table"}
  /\ IF InSet(objects) # {}
     THEN To(c, "schema") /\ UNCHANGED objects
     ELSE /\ objects' = Append(objects, [Unloaded EXCEPT !.state = "private"])
          /\ s' = [s EXCEPT ![c].step = "private", ![c].obj = Len(objects) + 1]
  /\ UNCHANGED <<glue, is_loaded, cached, histories>>

\* Everything else asks the set for the schema first; the functions ask for neither.
LookupSchema(c) ==
  /\ At(c, "start") /\ s[c].do \notin {"query", "alter", "drop table", "list", "columns"}
  /\ To(c, "schema")
  /\ UNCHANGED <<glue, schemas, cached, histories>>

FindTable(c, step) ==
  /\ cached' = [cached EXCEPT ![c] = LookUp(c)]
  /\ s' = [s EXCEPT ![c].step = step, ![c].entry = LookUp(c),
                    ![c].at = IF cached[c] = Unread THEN made.id ELSE @]
  /\ UNCHANGED <<glue, schemas, histories>>

\* The table, in the schema entry that nobody else has yet.
LookupPrivate(c) ==
  At(c, "private") /\ FindTable(c, IF LookUp(c) = Null THEN "confirm" ELSE "add")

\* The table is missing; whether its schema is decides about the error.
Confirm(c) ==
  /\ At(c, "confirm")
  /\ objects' = [GetEntry EXCEPT ![s[c].obj].state = "gone"]
  /\ End(c)
  /\ UNCHANGED <<glue, is_loaded, cached, histories>>

SlipAbsent == TRUE
Absent     == InSet(objects) = {}

SlipKeepTable(c) == To(c, "found")
LookUpAgain(c)   == s' = [s EXCEPT ![c].step = "schema", ![c].entry = Null]

\* Another lookup may have added the schema meanwhile: that entry is kept, this one is
\* destroyed, and the table is looked up in the other one.
AddEntryIfAbsent(c) ==
  /\ At(c, "add")
  /\ IF Absent THEN objects' = [objects EXCEPT ![s[c].obj].state = "set"] /\ To(c, "found")
               ELSE objects' = [objects EXCEPT ![s[c].obj].state = "gone"] /\ LookUpAgain(c)
  /\ UNCHANGED <<glue, is_loaded, cached, histories>>

\* Where a statement goes on with the schema. CREATE SCHEMA stops (OnExistingSchema).
WithSchema(do, force) ==
  CASE do = "create schema" -> "end"
    [] do = "drop schema"   -> IF force THEN "delete database" ELSE "check empty"
    [] do = "alter schema"  -> "read"
    [] OTHER -> "entry"

GetSchema(c) ==
  /\ At(c, "schema")
  /\ objects' = GetEntry
  /\ LET obj == GetCachedEntry(GetEntry)
     IN s' = [s EXCEPT ![c].obj = obj,
                       ![c].step = IF obj # 0 THEN WithSchema(s[c].do, s[c].force)
                                   ELSE IF s[c].do = "create schema" THEN "create database"
                                   ELSE "end"]
  /\ UNCHANGED <<glue, is_loaded, cached, histories>>

LookupEntry(c) == At(c, "entry") /\ FindTable(c, "found")

-----------------------------------------------------------------------------
(* CREATE TABLE, CREATE VIEW, ALTER TABLE, DROP *)

SlipAnyKind(do, kind)    == TRUE
CheckEntryType(do, kind) == (kind = "table") = (do \notin AboutView)

\* OR REPLACE replaces, and DROP VIEW drops, what DuckDB wrote.
ReplacesExistingView(c, kind) == s[c].force /\ kind = "duckdb view"

Finds(c, do)  == At(c, "found") /\ s[c].do = do
FoundKind(c)  == s[c].entry # Null /\ CheckEntryType(s[c].do, s[c].entry.kind)
GoesTo(steps, c) ==
  /\ \E step \in steps : To(c, step)
  /\ UNCHANGED <<glue, schemas, cached, histories>>

\* A table that exists is an error, or for IF NOT EXISTS nothing to do (OnExistingTable).
CreateTableInternal(c) ==
  Finds(c, "create table") /\ GoesTo({"end"} \cup (IF s[c].entry = Null THEN {"info"} ELSE {}), c)

\* The SQL is rendered and bound, and may be refused. Of IF NOT EXISTS and a plain CREATE
\* VIEW nothing is written about a view that exists.
CreateView(c) ==
  /\ Finds(c, "create view")
  /\ GoesTo({"end"} \cup (IF s[c].entry = Null THEN {"create"}
                          ELSE IF FoundKind(c) /\ ReplacesExistingView(c, s[c].entry.kind)
                          THEN {"write"} ELSE {}), c)

Alter(c) == Finds(c, "alter") /\ GoesTo(IF FoundKind(c) THEN {"write"} ELSE {"end"}, c)

\* DropEntry before its request; a view of another engine is not dropped.
DropEntry(c) ==
  /\ \E do \in {"drop table", "drop view"} : Finds(c, do)
  /\ GoesTo(IF FoundKind(c) /\ s[c].entry.kind # "view" THEN {"delete"} ELSE {"end"}, c)

\* A query has bound the table and uses it until it ends.
EndQuery(c) ==
  /\ At(c, "found") /\ s[c].do = "query"
  /\ End(c)
  /\ UNCHANGED <<glue, schemas, cached, histories>>

\* BuildTableInfo: without a location of its own the table goes below the one of the
\* database (GetSchemaInfo), which the entry may have to ask for.
BuildTableInfo(c) ==
  /\ At(c, "info")
  /\ LET obj == s[c].obj
     IN \/ UNCHANGED objects /\ (To(c, "create") \/ End(c))
        \/ /\ objects[obj].info = Null /\ database # Null
           /\ objects' = [objects EXCEPT ![obj].info = database]
           /\ To(c, "create")
  /\ UNCHANGED <<glue, is_loaded, cached, histories>>

\* The object that Glue creates next; CreateTime has whole seconds.
Create(kind, edits) ==
  \E second \in {made.second, made.second + 1} :
    /\ table' = New(kind, made.id + 1, second, edits)
    /\ made' = [id |-> made.id + 1, second |-> second]

\* CreateHiveTable, GlueAPI::CreateView. The answer of a request that Glue applied may be
\* lost, here as below.
CreateTable(c) ==
  /\ At(c, "create")
  /\ Invalidate(c)
  /\ \/ /\ database # Null /\ table = Null
        /\ Create(IF s[c].do = "create view" THEN "duckdb view" ELSE "table", {})
        /\ (To(c, "stored") \/ End(c))
     \/ UNCHANGED <<table, made>> /\ (End(c) \/ (table # Null /\ To(c, "raced")))
  /\ UNCHANGED <<database, schemas, histories>>

\* Another client created the table since the lookup: take its entry.
Raced(c) ==
  /\ At(c, "raced") /\ s[c].do # "create schema"
  /\ FindTable(c, IF /\ s[c].do = "create view" /\ LookUp(c) # Null
                     /\ CheckEntryType("create view", LookUp(c).kind)
                     /\ ReplacesExistingView(c, LookUp(c).kind)
                  THEN "write" ELSE "end")

\* A definition that a cache of the connection is about is fetched again before it is
\* written back, unless it is the same. A view has another type than a table.
IsSameVersion(a, b) ==
  /\ a.version = b.version /\ a.second = b.second
  /\ (a.kind = "table") = (b.kind = "table")

Current(c) ==
  IF c \notin ConnScoped \/ (table # Null /\ IsSameVersion(s[c].entry, table))
  THEN s[c].entry ELSE table

Writes(c, def) == s' = [s EXCEPT ![c].step = "update", ![c].bound = def]

\* A column that is there already, or is not there, or is a partition key or clusters the
\* table, or whose new type the data files do not have: an error, or nothing to do.
ChecksColumns(c) == s[c].do = "alter" /\ End(c)

\* ALTER TABLE is for Hive tables.
Alterable(def) == def.kind = "table"

DefinitionForWrite(c) ==
  /\ At(c, "write")
  /\ IF Current(c) = Null \/ (s[c].do = "alter" /\ ~Alterable(Current(c)))
     THEN End(c)
     ELSE ChecksColumns(c) \/ Writes(c, Current(c))
  /\ UNCHANGED <<glue, schemas, cached, histories>>

\* The new columns are checked against the definition fetched at bind, by name or, for a
\* table read by position, one by one.
ReplaceColumnsBind(c) == End(c) \/ Writes(c, table)

\* glue_replace_columns (and SET LOCATION) fetches the table when it is bound.
ResolveGlueTable(c) ==
  /\ At(c, "start") /\ s[c].do = "columns"
  /\ IF table = Null \/ ~Alterable(table) THEN End(c) ELSE ReplaceColumnsBind(c)
  /\ UNCHANGED <<glue, schemas, cached, histories>>

SlipNoVersion(c) == table # Null                  \* the request has no VersionId
SameVersion(c)   == table # Null /\ s[c].bound.version = table.version

NewKind(c) == IF s[c].do = "create view" THEN "duckdb view" ELSE s[c].bound.kind

\* What the caller changes of the definition: columns, partition keys, description,
\* location, properties, or a view's SQL.
Edited(c) == s[c].bound.edits \cup {c}

\* What UpdateTable stores: all of the definition it is sent.
Rewritten(c) ==
  [s[c].bound EXCEPT
     !.kind = NewKind(c), !.id = table.id, !.second = table.second,
     !.version = table.version + 1, !.edits = Edited(c),
     !.mixed = table.mixed \/ s[c].bound.id # table.id \/ NewKind(c) # table.kind]

\* The statement c deletes or replaces the table; known: it was what it is when c asked.
Loses(c) ==
  lost' = lost \cup {[by |-> c, do |-> s[c].do, force |-> s[c].force, kind |-> table.kind,
                      known |-> table.id <= s[c].at /\ ~table.mixed]}

\* UpdateGlueTable, for all of its callers.
UpdateGlueTable(c) ==
  /\ At(c, "update")
  /\ Invalidate(c)
  /\ \/ /\ SameVersion(c)
        /\ table' = Rewritten(c)
        /\ IF s[c].do = "create view" THEN Loses(c) ELSE UNCHANGED lost
        /\ (To(c, "stored") \/ End(c))
     \/ UNCHANGED <<table, lost>> /\ End(c)
  /\ UNCHANGED <<database, made, schemas, unseen, changes>>

\* RefreshTable and fetch_stored; glue_replace_columns finds the schema first.
Stored(c) ==
  /\ At(c, "stored")
  /\ objects' = IF s[c].do = "columns" THEN GetEntry ELSE objects
  /\ End(c)
  /\ UNCHANGED <<glue, is_loaded, cached, histories>>

\* By name.
DeleteTable(c) ==
  /\ At(c, "delete")
  /\ Invalidate(c)
  /\ (table # Null /\ table' = Null /\ Loses(c)) \/ UNCHANGED <<table, lost>>
  /\ End(c)
  /\ UNCHANGED <<database, made, schemas, unseen, changes>>

-----------------------------------------------------------------------------
(* CREATE SCHEMA, ALTER SCHEMA, DROP SCHEMA *)

\* The database changes: an ALTER SCHEMA that has read it writes it back as it was, one
\* that has read it again puts it into the set as it was.
Overlaps(c) == \E d \in Conn \ {c} : s[d].step \in {"update database", "install"}

\* A request of c changed the database; c goes on, or ends without the answer.
DatabaseChanged(c, step) ==
  \/ To(c, step) /\ unseen' = (unseen \/ Overlaps(c))
  \/ End(c) /\ unseen' = TRUE

CreateDatabase(c) ==
  /\ At(c, "create database")
  /\ Invalidate(c)
  /\ \/ /\ database = Null
        /\ database' = [id |-> made.id + 1, edits |-> {}]
        /\ made' = [made EXCEPT !.id = @ + 1]
        /\ DatabaseChanged(c, "fetch")
     \/ /\ UNCHANGED <<database, made, unseen>>
        /\ (End(c) \/ (database # Null /\ To(c, "raced")))
  /\ UNCHANGED <<table, schemas, lost, changes>>

\* Another client created the database since the lookup: take its entry.
RacedSchema(c) ==
  /\ At(c, "raced") /\ s[c].do = "create schema"
  /\ objects' = GetEntry
  /\ End(c)
  /\ UNCHANGED <<glue, is_loaded, cached, histories>>

SlipCached(c)      == objects[s[c].obj].info     \* the cached definition, not the current one
DefinitionRead(c)  == database

\* AlterSchema changes the definition that Glue has now.
ReadDatabase(c) ==
  /\ At(c, "read")
  /\ \/ DefinitionRead(c) # Null /\ s' = [s EXCEPT ![c].step = "update database",
                                                   ![c].info = DefinitionRead(c)]
     \/ End(c)
  /\ UNCHANGED <<glue, schemas, cached, histories>>

\* UpdateDatabase has no version to compare.
UpdateDatabase(c) ==
  /\ At(c, "update database")
  /\ Invalidate(c)
  /\ \/ /\ database # Null
        /\ database' = [database EXCEPT !.edits = s[c].info.edits \cup {c}]
        /\ DatabaseChanged(c, "fetch")
     \/ UNCHANGED <<database, unseen>> /\ End(c)
  /\ UNCHANGED <<table, made, schemas, lost, changes>>

\* The database is fetched again, so that the entry has what Glue stored.
FetchDatabase(c) ==
  /\ At(c, "fetch")
  /\ \/ /\ database # Null
        /\ s' = [s EXCEPT ![c].step = "install", ![c].info = database]
        /\ UNCHANGED unseen
     \/ End(c) /\ unseen' = TRUE
  /\ UNCHANGED <<glue, schemas, cached, lost, changes>>

Install(c) ==
  /\ At(c, "install")
  /\ objects' = CreateEntry(s[c].info)
  /\ End(c)
  /\ UNCHANGED <<glue, is_loaded, cached, histories>>

\* DropSchema: without CASCADE, GetAnyTableName.
CheckEmpty(c) ==
  /\ At(c, "check empty")
  /\ \/ table = Null /\ s' = [s EXCEPT ![c].step = "delete database", ![c].at = made.id]
     \/ End(c)
  /\ UNCHANGED <<glue, schemas, cached, histories>>

\* Glue deletes the tables of the database with it.
DeleteDatabase(c) ==
  /\ At(c, "delete database")
  /\ Invalidate(c)
  /\ \/ /\ database # Null
        /\ database' = Null /\ table' = Null
        /\ IF table # Null THEN Loses(c) ELSE UNCHANGED lost
        /\ DatabaseChanged(c, "remove")
     \/ UNCHANGED <<database, table, lost, unseen>> /\ End(c)
  /\ UNCHANGED <<made, schemas, changes>>

RemoveEntry(c) ==
  /\ At(c, "remove")
  /\ objects' = RetireEntry(objects)
  /\ End(c)
  /\ UNCHANGED <<glue, is_loaded, cached, histories>>

-----------------------------------------------------------------------------
(* Other clients *)

Others ==
  /\ changes < MaxChanges
  /\ changes' = changes + 1
  /\ UNCHANGED <<schemas, cached, s, lost>>

OthersChangeTable ==
  /\ database # Null
  /\ \/ table = Null /\ \E kind \in Kind : Create(kind, {})
     \/ table # Null /\ table' = Null /\ UNCHANGED made
     \/ /\ table # Null
        /\ table' = [table EXCEPT !.version = @ + 1, !.edits = @ \cup {Other}]
        /\ UNCHANGED made
  /\ Others
  /\ UNCHANGED <<database, unseen>>

OthersChangeDatabase ==
  /\ \/ /\ database = Null
        /\ database' = [id |-> made.id + 1, edits |-> {}]
        /\ made' = [made EXCEPT !.id = @ + 1]
        /\ UNCHANGED table
     \/ database # Null /\ database' = Null /\ table' = Null /\ UNCHANGED made
     \/ /\ database # Null
        /\ database' = [database EXCEPT !.edits = @ \cup {Other}]
        /\ UNCHANGED <<table, made>>
  /\ unseen' = TRUE
  /\ Others

StatementStep(c) ==
  \/ Scan(c) \/ TryLookupTableBeforeSchema(c) \/ LookupSchema(c) \/ LookupPrivate(c)
  \/ Confirm(c) \/ AddEntryIfAbsent(c) \/ GetSchema(c) \/ LookupEntry(c)
  \/ EndQuery(c) \/ CreateTableInternal(c) \/ CreateView(c) \/ Alter(c) \/ DropEntry(c)
  \/ BuildTableInfo(c) \/ CreateTable(c) \/ Raced(c)
  \/ DefinitionForWrite(c) \/ ResolveGlueTable(c) \/ UpdateGlueTable(c) \/ Stored(c)
  \/ DeleteTable(c)
  \/ CreateDatabase(c) \/ RacedSchema(c) \/ ReadDatabase(c) \/ UpdateDatabase(c)
  \/ FetchDatabase(c) \/ Install(c) \/ CheckEmpty(c) \/ DeleteDatabase(c) \/ RemoveEntry(c)

Next ==
  \/ \E c \in Conn : StatementStep(c)
  \/ OthersChangeTable
  \/ OthersChangeDatabase

Spec == Init /\ [][Next]_vars

-----------------------------------------------------------------------------
(* Properties *)

\* No statement undoes a change of another one, or of another client, to the table it
\* changes: Glue refuses a definition that is not the current one (UpdateGlueTable sends
\* the VersionId), under both scopes of the cache. Only a table that was dropped and
\* created again may be taken for the old one, for its versions start again. A database
\* has no version, so this is only said of statements that do not overlap.
EditsStay ==
  [][/\ (table # Null /\ table' # Null /\ table'.id = table.id /\ ~table'.mixed) =>
          table.edits \subseteq table'.edits
     /\ (database # Null /\ database' # Null /\ database'.id = database.id /\ ~unseen') =>
          database.edits \subseteq database'.edits]_vars

\* What a statement of this form may delete or replace.
IsAbout(l) ==
  CASE l.do = "drop table"  -> l.kind = "table"
    [] l.do = "drop schema" -> l.force
    [] OTHER -> l.kind = "duckdb view"

\* docs/README.md: "Only views written by DuckDB can be queried, replaced or dropped", and
\* a table is not dropped as a view, nor with its database without CASCADE. That holds of
\* everything that was there when the statement asked Glue: what is created later under the
\* name may be lost, and a connection scoped cache may have been asked instead.
KindKept == \A l \in lost : l.known => IsAbout(l)

\* The entry of a table that a statement holds is never of a schema entry that is gone: the
\* one a lookup created for itself either gets into the set or its table is looked up
\* again (TryLookupTableBeforeSchema).
SchemaOfEntry ==
  \A c \in Conn :
    (s[c].entry # Null /\ ~At(c, "end")) =>
      objects[s[c].obj].state \in {"set", "retired"} \cup
                                  (IF At(c, "add") THEN {"private"} ELSE {})

\* What the set says of the database is what Glue has, in every order of the statements'
\* steps, unless the database changed behind its back: by another client, by a request
\* whose answer was lost, or while an ALTER SCHEMA was going on.
SchemaInfoFresh ==
  \A i \in InSet(objects) :
    \/ objects[i].info \in {Null, database}
    \/ unseen
    \/ \E c \in Conn : s[c].step \in {"fetch", "install", "remove"}
=============================================================================
