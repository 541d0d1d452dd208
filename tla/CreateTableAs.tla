--------------------------- MODULE CreateTableAs ---------------------------
(***************************************************************************)
(* CREATE TABLE ... AS (GlueHiveCopy) and the tables a rollback drops      *)
(* (GlueTransaction).                                                      *)
(*                                                                         *)
(* When the statement starts executing it makes sure that the location     *)
(* holds no files, creates the table, fetches it and records it with its   *)
(* transaction; then the query writes the files.  When something fails,    *)
(* the rollback drops the tables recorded, by name.  Other statements and  *)
(* other clients create and drop tables in between, and the process may    *)
(* crash.                                                                  *)
(*                                                                         *)
(* A statement runs in a transaction of its own (GlueCatalog refuses it in *)
(* an explicit one) and once.  Locations overlap when they are the same.   *)
(* IF NOT EXISTS is not told apart: the table that is there fails the      *)
(* statement either way once it executes.                                  *)
(***************************************************************************)
EXTENDS Naturals, FiniteSets

CONSTANTS
  Ctas,        \* CREATE TABLE AS statements
  Name,        \* names of tables
  Loc,         \* locations
  Elsewhere,   \* tables other clients create, one each
  Old,         \* wrote files of a table dropped long ago
  Null

ASSUME WritersDistinct == Ctas \cap Elsewhere = {} /\ Old \notin Ctas \cup Elsewhere
ASSUME NullIsNoTable   == Null \notin [id : Ctas \cup Elsewhere, loc : Loc]

VARIABLES
  table,       \* what Glue holds: table[n], or Null
  files,       \* data files: where, and who wrote them
  statement,   \* what a CREATE TABLE AS has done
  gone,        \* tables dropped by somebody else than the statement they are of
  since        \* the writers at a statement's location since it looked there

vars == <<table, files, statement, gone, since>>

Id     == Ctas \cup Elsewhere
Writer == Id \cup {Old}
Table  == [id : Id, loc : Loc]
File   == [loc : Loc, by : Writer]

Step == {"start", "listed", "remove", "lookup", "create", "created", "query", "finalize",
         "fail", "done", "rolled_back", "crashed"}

\* What failed, as far as a property tells it apart.
Reason == {"none", "before", "reply", "fetch", "query", "drop"}

TypeOK ==
  /\ table \in [Name -> Table \cup {Null}]
  /\ files \subseteq File
  /\ statement \in [Ctas -> [step : Step, name : Name, loc : Loc, overwrite : BOOLEAN,
                             listed : SUBSET File, created : BOOLEAN, why : Reason]]
  /\ gone \subseteq Id
  /\ since \in [Ctas -> SUBSET Writer]

Init ==
  /\ table = [n \in Name |-> Null]
  /\ files \in SUBSET [loc : Loc, by : {Old}]
  /\ statement \in [Ctas -> [step : {"start"}, name : Name, loc : Loc, overwrite : BOOLEAN,
                             listed : {{}}, created : {FALSE}, why : {"none"}]]
  /\ gone = {}
  /\ since = [c \in Ctas |-> {}]

FilesAt(l) == {f \in files : f.loc = l}
IsAt(e, n) == table[n] # Null /\ table[n].id = e
Holds(e)   == \E n \in Name : IsAt(e, n)
InUse(l)   == \E n \in Name : table[n] # Null /\ table[n].loc = l

\* A statement goes on, or fails for a reason; a rollback comes next.
Go(c, step)  == statement' = [statement EXCEPT ![c].step = step]
Fail(c, why) == statement' = [statement EXCEPT ![c].step = "fail", ![c].why = why]

\* Somebody writes files at l.
Wrote(w, l) == since' = [c \in Ctas |-> IF c # w /\ statement[c].loc = l
                                                 /\ statement[c].step # "start"
                                        THEN since[c] \cup {w} ELSE since[c]]

-----------------------------------------------------------------------------
(* Other clients *)

CreateElsewhere(e, n, l) ==
  /\ e \notin gone
  /\ ~Holds(e)
  /\ table[n] = Null
  /\ table' = [table EXCEPT ![n] = [id |-> e, loc |-> l]]
  /\ files' = files \cup {[loc |-> l, by |-> e]}
  /\ Wrote(e, l)
  /\ UNCHANGED <<statement, gone>>

\* DROP TABLE, here or elsewhere: the files stay.
DropTable(n) ==
  /\ table[n] # Null
  /\ gone' = gone \cup {table[n].id}
  /\ table' = [table EXCEPT ![n] = Null]
  /\ UNCHANGED <<files, statement, since>>

-----------------------------------------------------------------------------
(* GetGlobalSinkState, which all threads of the copy go through one by one *)

\* ClearLocation lists the data files of the location.
List(c) ==
  LET s == statement[c]
      found == FilesAt(s.loc)
  IN  /\ s.step = "start"
      /\ CASE found = {} -> Go(c, "lookup")
           [] found # {} /\ s.overwrite ->
                statement' = [statement EXCEPT ![c].step = "listed", ![c].listed = found]
           [] OTHER -> Fail(c, "before")
      /\ UNCHANGED <<table, files, gone, since>>

\* ThrowIfLocationInUse.
CheckUse(c) ==
  /\ statement[c].step = "listed"
  /\ IF InUse(statement[c].loc) THEN Fail(c, "before") ELSE Go(c, "remove")
  /\ UNCHANGED <<table, files, gone, since>>

SlipDirectory(c) == FilesAt(statement[c].loc)    \* whatever is there now
DataFiles(c)     == statement[c].listed

SlipCarryOn(c) == Go(c, "lookup")                \* the exception is only logged
NotCleared(c)  == Fail(c, "before")

\* RemoveFiles.
Remove(c) ==
  /\ statement[c].step = "remove"
  /\ \/ files' = files \ DataFiles(c) /\ Go(c, "lookup")
     \/ (\E some \in SUBSET DataFiles(c) : files' = files \ some) /\ NotCleared(c)
  /\ UNCHANGED <<table, gone, since>>

\* CreateTableInternal, up to CreateHiveTable.
Lookup(c) ==
  /\ statement[c].step = "lookup"
  /\ IF table[statement[c].name] # Null THEN Fail(c, "before") ELSE Go(c, "create")
  /\ UNCHANGED <<table, files, gone, since>>

SlipRecordRaced(c) ==    \* as if the table were its own
  statement' = [statement EXCEPT ![c].step = "fail", ![c].why = "before", ![c].created = TRUE]
Raced(c) == Fail(c, "before")

SlipNoLocation(c) == [id |-> c, loc |-> Null]    \* Glue picks none
NewTable(c)       == [id |-> c, loc |-> statement[c].loc]

\* CreateHiveTable: another client may have created the table since the lookup. When the
\* answer is lost, the request sent again finds the table, or the statement fails.
Create(c) ==
  LET s == statement[c]
      own == [table EXCEPT ![s.name] = NewTable(c)]
  IN  /\ s.step = "create"
      /\ IF table[s.name] # Null THEN Raced(c) /\ UNCHANGED table
         ELSE \/ table' = own /\ Go(c, "created")
              \/ table' = own /\ Fail(c, "reply")
              \/ UNCHANGED table /\ Fail(c, "before")
      /\ UNCHANGED <<files, gone, since>>

SlipRecordLater(c) == Go(c, "query")     \* the table is not recorded yet
AddCreatedTable(c) == statement' = [statement EXCEPT ![c].step = "query", ![c].created = TRUE]

\* The table is fetched, and recorded with the transaction (RegisterTableCleanup).
Fetch(c) ==
  /\ statement[c].step = "created"
  /\ \/ table[statement[c].name] # Null /\ AddCreatedTable(c)
     \/ Fail(c, "fetch")
  /\ UNCHANGED <<table, files, gone, since>>

-----------------------------------------------------------------------------
(* The query, the registration of partitions, and the end *)

Query(c) ==
  LET s == statement[c]
  IN  /\ s.step = "query"
      /\ files' = files \cup {[loc |-> s.loc, by |-> c]}
      /\ Wrote(c, s.loc)
      /\ Go(c, "finalize")
      /\ UNCHANGED <<table, gone>>

\* The copy deletes the files it has written, as far as it can.
QueryFails(c) ==
  LET s == statement[c]
  IN  /\ s.step = "query"
      /\ \/ UNCHANGED <<files, since>>
         \/ files' = files \cup {[loc |-> s.loc, by |-> c]} /\ Wrote(c, s.loc)
      /\ Fail(c, "query")
      /\ UNCHANGED <<table, gone>>

\* HiveInsert's part; it deletes the files it cannot register, if it can.
Finalize(c) ==
  /\ statement[c].step = "finalize"
  /\ \/ Go(c, "done") /\ UNCHANGED files
     \/ /\ Fail(c, "query")
        /\ files' \in {files, files \ [loc : {statement[c].loc}, by : {c}]}
  /\ UNCHANGED <<table, gone, since>>

\* GlueTransaction::Rollback: a failed drop is logged.
Rollback(c) ==
  LET s == statement[c]
  IN  /\ s.step = "fail"
      /\ \/ /\ table' = IF s.created THEN [table EXCEPT ![s.name] = Null] ELSE table
            /\ gone' = gone \cup {e \in Id \ {c} : s.created /\ IsAt(e, s.name)}
            /\ Go(c, "rolled_back")
         \/ /\ s.created /\ UNCHANGED <<table, gone>>
            /\ statement' = [statement EXCEPT ![c].step = "rolled_back", ![c].why = "drop"]
      /\ UNCHANGED <<files, since>>

\* The process ends; nothing of the statement is kept anywhere but in Glue and the store.
Crash(c) ==
  /\ statement[c].step \notin {"start", "done", "rolled_back", "crashed"}
  /\ Go(c, "crashed")
  /\ UNCHANGED <<table, files, gone, since>>

Next ==
  \/ \E e \in Elsewhere, n \in Name, l \in Loc : CreateElsewhere(e, n, l)
  \/ \E n \in Name : DropTable(n)
  \/ \E c \in Ctas : \/ List(c) \/ CheckUse(c) \/ Remove(c) \/ Lookup(c) \/ Create(c) \/ Fetch(c)
                     \/ Query(c) \/ QueryFails(c) \/ Finalize(c) \/ Rollback(c) \/ Crash(c)

Spec == Init /\ [][Next]_vars

-----------------------------------------------------------------------------
(* Properties *)

RollsBack(c) == statement[c].step = "fail" /\ statement'[c].step = "rolled_back"
Drops(n)     == table[n] # Null /\ table'[n] = Null

\* The rollback of a statement drops the table the statement created and no other, as long
\* as nobody else has dropped that one (the table is recorded after CreateTableFromInfo,
\* which returns nothing for a table of somebody else).
RollbackDropsOwn ==
  [][\A c \in Ctas, n \in Name : RollsBack(c) /\ Drops(n) =>
       table[n].id = c \/ c \in gone]_vars

\* A rollback drops its own table only, as hive_copy.cpp has it: "So a rollback only ever
\* drops a table this statement itself created".
OnlyOwnTables ==
  [][\A c \in Ctas, n \in Name : RollsBack(c) /\ Drops(n) => table[n].id = c]_vars

\* A statement that failed leaves its table behind only when the answer to the creation was
\* lost, the table could not be fetched, or the drop failed too (GlueTransaction::Rollback).
\* create_table_as_created_at_execution.test has it so ("a statement that fails after the
\* table is created rolls back and the cleanup drops it"). docs/README.md says the opposite:
\* "if the query fails the (empty) table stays", and of DDL "nothing is rolled back on
\* failure"; this is the code's behaviour and refutes it.
NothingLeft ==
  \A c \in Ctas : statement[c].step = "rolled_back"
                  /\ statement[c].why \notin {"reply", "fetch", "drop"} => ~Holds(c)

\* The table of a statement that succeeded reads its own rows and no files that were at the
\* location before (ClearLocation).
OwnRowsOnly ==
  \A c \in Ctas : statement[c].step = "done" /\ Holds(c) =>
    \A f \in FilesAt(statement[c].loc) : f.by = c \/ f.by \in since[c]

\* No WITH (overwrite = true) deletes the rows of a table a CREATE TABLE AS has filled: the
\* location is checked between the listing of the files and their removal.
RowsStay ==
  \A c \in Ctas : statement[c].step = "done" /\ Holds(c) =>
    [loc |-> statement[c].loc, by |-> c] \in files
=============================================================================
