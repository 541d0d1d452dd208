----------------------------- MODULE HiveInsert -----------------------------
(***************************************************************************)
(* INSERT into a partitioned Hive table (GlueHiveInsert).                  *)
(*                                                                         *)
(* The plan lists the table's partitions and gives every row a directory:  *)
(* the location of its partition, or the <key>=<value> directory of a new  *)
(* one.  The files are written, then the directories are registered as     *)
(* partitions.  Other clients and other INSERTs change the partitions in   *)
(* between; what cannot be registered where its files are undoes the       *)
(* INSERT by deleting its files, and the statement may be run again.       *)
(*                                                                         *)
(* A row is its partition value, for which Glue may hold several spellings *)
(* ('1' and '01').  Other clients do not register two partitions at one    *)
(* location.  One batch of BatchCreatePartition is modelled.               *)
(***************************************************************************)
EXTENDS Naturals, FiniteSets

CONSTANTS
  Insert,            \* INSERT statements, of any connections
  Row,               \* partition values, as the table's type has them
  Values,            \* partition values, as strings in Glue
  Dir,               \* directories a partition may be registered at
  ReadAs,            \* the partition value a string is read as
  Canonical,         \* the string an INSERT registers a value as
  Own,               \* the <key>=<value> directory of a value
  Unwritable,        \* directories not below the table location, or with an empty segment
  ColumnsMayDiffer,  \* a partition may declare other column types than the table
  Null,
  MaxAttempts,       \* BatchCreatePartitions' MAX_ATTEMPTS
  MaxRuns,           \* bound: how often a statement is run
  MaxChanges         \* bound: changes of partitions by other clients

ASSUME ReadAsType       == ReadAs \in [Values -> Row]
ASSUME CanonicalType    == Canonical \in [Row -> Values] /\ \A r \in Row : ReadAs[Canonical[r]] = r
ASSUME OwnType          == Own \in [Row -> Dir] /\ \A q, r \in Row : Own[q] = Own[r] => q = r
ASSUME UnwritableType   == Unwritable \subseteq Dir
ASSUME OwnIsWritable    == \A r \in Row : Own[r] \notin Unwritable
ASSUME ColumnsType      == ColumnsMayDiffer \in BOOLEAN
ASSUME MaxAttemptsType  == MaxAttempts \in Nat \ {0}
ASSUME InsertBounds     == {MaxRuns, MaxChanges} \subseteq Nat
ASSUME NullDistinct     == Null \notin Values \cup Dir \cup [dir : Dir, same : BOOLEAN]

VARIABLES
  partition,   \* what Glue holds: partition[v], or Null
  files,       \* the files of INSERTs in the table
  statement,   \* what an INSERT has done
  changes,     \* changes other clients made
  moved,       \* partitions other clients moved or dropped since an INSERT was planned
  placed       \* partitions registered or moved by somebody else since then

vars == <<partition, files, statement, changes, moved, placed>>

Partition == [dir : Dir, same : IF ColumnsMayDiffer THEN BOOLEAN ELSE {TRUE}]
Input     == [values : Values, dir : Dir]                  \* GluePartitionInput
File      == [insert : Insert, run : 1 .. MaxRuns, row : Row, dir : Dir]

\* The partition_path of every row (Null is an error), planned_locations and
\* partition_directories of the plan; the partitions to send, to send again, and the
\* already_existing ones; of these, the ones still to be looked up.
Statement ==
  [step : {"idle", "planned", "register", "locate", "undo",
           "done", "rolled_back", "dirty", "failed"},
   run : 0 .. MaxRuns, rows : SUBSET Row,
   path : [Row -> Dir \cup {Null}], planned : [Values -> Dir \cup {Null}],
   directories : [Dir -> Values \cup {Null}],
   pending : SUBSET Input, again : SUBSET Input, attempt : 0 .. MaxAttempts - 1,
   existing : SUBSET Input, unplanned : SUBSET Input]

TypeOK ==
  /\ partition \in [Values -> Partition \cup {Null}]
  /\ files \in SUBSET File
  /\ statement \in [Insert -> Statement]
  /\ changes \in 0 .. MaxChanges
  /\ moved \in [Insert -> SUBSET Values]
  /\ placed \in [Insert -> SUBSET Values]

At(v, d) == partition[v] # Null /\ partition[v].dir = d
Taken(d) == \E v \in Values : At(v, d)

Start == [step |-> "idle", run |-> 0, rows |-> {}, path |-> [r \in Row |-> Null],
          planned |-> [v \in Values |-> Null], directories |-> [d \in Dir |-> Null],
          pending |-> {}, again |-> {}, attempt |-> 0, existing |-> {}, unplanned |-> {}]

Init ==
  /\ partition \in [Values -> Partition \cup {Null}]
  /\ \A u, v \in Values, d \in Dir : At(u, d) /\ At(v, d) => u = v
  /\ files = {}
  /\ statement = [i \in Insert |-> Start]
  /\ changes = 0
  /\ moved = [i \in Insert |-> {}]
  /\ placed = [i \in Insert |-> {}]

-----------------------------------------------------------------------------
(* Other clients *)

\* glue_add_partition, glue_set_partition_location or another engine.
Place(v, d, same) ==
  /\ changes < MaxChanges
  /\ ~Taken(d)
  /\ [dir |-> d, same |-> same] \in Partition
  /\ partition' = [partition EXCEPT ![v] = [dir |-> d, same |-> same]]
  /\ changes' = changes + 1
  /\ moved' = [i \in Insert |-> IF partition[v] # Null THEN moved[i] \cup {v} ELSE moved[i]]
  /\ placed' = [i \in Insert |-> placed[i] \cup {v}]
  /\ UNCHANGED <<files, statement>>

DropPartition(v) ==
  /\ changes < MaxChanges
  /\ partition[v] # Null
  /\ partition' = [partition EXCEPT ![v] = Null]
  /\ changes' = changes + 1
  /\ moved' = [i \in Insert |-> moved[i] \cup {v}]
  /\ UNCHANGED <<files, statement, placed>>

-----------------------------------------------------------------------------
(* The plan *)

\* Partitions whose rows need a check of their own in CreatePartitionPath: not as this
\* INSERT would register them, or with other columns.
Special == {v \in Values : partition[v] # Null
                             /\ ~(/\ v = Canonical[ReadAs[v]]
                                  /\ partition[v].dir = Own[ReadAs[v]]
                                  /\ partition[v].same)}

\* Of these, the ones an INSERT writes to at their location (custom_directories).
Custom == {v \in Special : partition[v].same /\ partition[v].dir \notin Unwritable}

\* The first of some partitions in the list GetPartitions returns, where v is the first.
FirstOf(vs, v) == IF v \in vs THEN v ELSE CHOOSE u \in vs : TRUE

Mine(r)       == {v \in Special : ReadAs[v] = r}
Checked(r, v) == LET u == FirstOf(Mine(r), v)
                 IN  IF u \in Custom THEN partition[u].dir ELSE Null

\* No check of the rows that have no partition.
SlipNoDirectoryCheck(r, v) == IF Mine(r) # {} THEN Checked(r, v) ELSE Own[r]

\* The checks of a row's own partitions come first, then the check whether its own
\* directory belongs to another partition.
Path(r, v) ==
  CASE Mine(r) # {} -> Checked(r, v)
    [] Mine(r) = {} /\ \E u \in Custom : At(u, Own[r]) -> Null
    [] OTHER -> Own[r]

\* PlanInsert: GetPartitions and CreatePartitionPath.
Plan(i, rows) ==
  /\ statement[i].step \in {"idle", "rolled_back"}
  /\ statement[i].run < MaxRuns
  /\ rows # {} /\ statement[i].rows \in {{}, rows}    \* run again, it is the same
  /\ \E v \in Values :
       statement' = [statement EXCEPT ![i] =
         [step |-> "planned", run |-> statement[i].run + 1, rows |-> rows,
          path |-> [r \in Row |-> IF r \in rows THEN Path(r, v) ELSE Null],
          planned |-> [u \in Values |-> IF partition[u] = Null THEN Null ELSE partition[u].dir],
          directories |-> [d \in Dir |-> LET at == {u \in Custom : At(u, d)}
                                         IN  IF at = {} THEN Null ELSE FirstOf(at, v)],
          pending |-> {}, again |-> {}, attempt |-> 0, existing |-> {}, unplanned |-> {}]]
  /\ moved' = [moved EXCEPT ![i] = {}]
  /\ placed' = [placed EXCEPT ![i] = {}]
  /\ UNCHANGED <<partition, files, changes>>

-----------------------------------------------------------------------------
(* Execution *)

Written(i, rows) == {[insert |-> i, run |-> statement[i].run, row |-> r,
                      dir |-> statement[i].path[r]] : r \in rows}

\* The query, a row with an error for a path, or the store fails the copy, which deletes
\* the files it has written as far as it can.
CopyFails(i) ==
  /\ statement[i].step = "planned"
  /\ \E rows \in SUBSET {r \in statement[i].rows : statement[i].path[r] # Null} :
       files' = files \cup Written(i, rows)
  /\ statement' = [statement EXCEPT ![i].step = "failed"]
  /\ UNCHANGED <<partition, changes, moved, placed>>

SlipNewValues(i, r) == Canonical[r]     \* registers every directory anew

\* The values a directory is registered with.
ValuesOf(i, r) ==
  LET d == statement[i].path[r]
  IN  IF statement[i].directories[d] # Null THEN statement[i].directories[d] ELSE Canonical[r]

\* The copy ends, and Finalize collects the directories of the files.
Copy(i) ==
  /\ statement[i].step = "planned"
  /\ \A r \in statement[i].rows : statement[i].path[r] # Null
  /\ files' = files \cup Written(i, statement[i].rows)
  /\ statement' = [statement EXCEPT ![i].step = "register", ![i].pending =
       {[values |-> ValuesOf(i, r), dir |-> statement[i].path[r]] : r \in statement[i].rows}]
  /\ UNCHANGED <<partition, changes, moved, placed>>

\* BatchCreatePartition for one partition. Glue creates it, or has one of these values
\* already. The answer to a creation may be lost, so that the request sent again finds
\* the partition, or it may be an error that may pass, as it may be for any partition.
Send(i, p) ==
  /\ statement[i].step = "register"
  /\ p \in statement[i].pending
  /\ LET created == [partition EXCEPT ![p.values] = [dir |-> p.dir, same |-> TRUE]]
         exists  == partition[p.values] # Null
     IN  \E answer \in {"created", "exists", "transient"} :
           /\ answer = "created" => ~exists
           /\ partition' \in CASE exists -> {partition}
                              [] ~exists /\ answer = "transient" -> {partition, created}
                              [] OTHER -> {created}
           /\ statement' = [statement EXCEPT
                ![i].pending = @ \ {p},
                ![i].existing = IF answer = "exists" THEN @ \cup {p} ELSE @,
                ![i].again = IF answer = "transient" THEN @ \cup {p} ELSE @]
  /\ placed' = [j \in Insert |-> IF j # i /\ partition' # partition
                                 THEN placed[j] \cup {p.values} ELSE placed[j]]
  /\ UNCHANGED <<files, changes, moved>>

Answered(i) == statement[i].step = "register" /\ statement[i].pending = {}

SlipOneMore(i) == statement[i].attempt = MaxAttempts
Last(i)        == statement[i].attempt + 1 = MaxAttempts

SendAgain(i) ==
  /\ Answered(i)
  /\ statement[i].again # {}
  /\ ~Last(i)
  /\ statement' = [statement EXCEPT ![i].pending = statement[i].again, ![i].again = {},
                                     ![i].attempt = @ + 1]
  /\ UNCHANGED <<partition, files, changes, moved, placed>>

\* A request fails, a partition is refused for good, or for the last time.
RegistrationFails(i) ==
  /\ statement[i].step = "register"
  /\ statement' = [statement EXCEPT ![i].step = "undo"]
  /\ UNCHANGED <<partition, files, changes, moved, placed>>

SlipTrustGlue(i) == {}     \* a partition the plan did not see is taken as it is
Unplanned(i)     == {p \in statement[i].existing : statement[i].planned[p.values] = Null}

\* CheckExistingPartitionLocations, of the partitions the plan saw.
Registered(i) ==
  /\ Answered(i)
  /\ statement[i].again = {}
  /\ statement' = [statement EXCEPT ![i].unplanned = Unplanned(i), ![i].step =
       IF \A p \in statement[i].existing : statement[i].planned[p.values] \in {Null, p.dir}
       THEN "locate" ELSE "undo"]
  /\ UNCHANGED <<partition, files, changes, moved, placed>>

\* PartitionLocations, of one that somebody registered since.
Locate(i, p) ==
  /\ statement[i].step = "locate"
  /\ p \in statement[i].unplanned
  /\ statement' = [statement EXCEPT ![i].unplanned = @ \ {p},
                                     ![i].step = IF At(p.values, p.dir) THEN @ ELSE "undo"]
  /\ UNCHANGED <<partition, files, changes, moved, placed>>

LocateFails(i) ==
  /\ statement[i].step = "locate" /\ statement[i].unplanned # {}
  /\ statement' = [statement EXCEPT ![i].step = "undo"]
  /\ UNCHANGED <<partition, files, changes, moved, placed>>

Succeed(i) ==
  /\ statement[i].step = "locate" /\ statement[i].unplanned = {}
  /\ statement' = [statement EXCEPT ![i].step = "done"]
  /\ UNCHANGED <<partition, files, changes, moved, placed>>

\* Only the files in partitions that are new.
SlipRemoveNew(i) == {f \in files : f.insert = i /\ \A p \in statement[i].existing : p.dir # f.dir}
WrittenFiles(i)  == {f \in files : f.insert = i /\ f.run = statement[i].run}

\* RemoveFiles; the partitions stay registered.
Undo(i) ==
  /\ statement[i].step = "undo"
  /\ files' = files \ WrittenFiles(i)
  /\ statement' = [statement EXCEPT ![i].step = "rolled_back"]
  /\ UNCHANGED <<partition, changes, moved, placed>>

\* It fails: what is left is for the user to remove.
UndoFails(i) ==
  /\ statement[i].step = "undo"
  /\ \E removed \in SUBSET WrittenFiles(i) : files' = files \ removed
  /\ statement' = [statement EXCEPT ![i].step = "dirty"]
  /\ UNCHANGED <<partition, changes, moved, placed>>

-----------------------------------------------------------------------------

Others ==
  \/ \E v \in Values, d \in Dir, same \in BOOLEAN : Place(v, d, same)
  \/ \E v \in Values : DropPartition(v)

Finalize(i) ==
  \/ \E p \in statement[i].pending : Send(i, p)
  \/ SendAgain(i) \/ RegistrationFails(i) \/ Registered(i)
  \/ \E p \in statement[i].unplanned : Locate(i, p)
  \/ LocateFails(i) \/ Succeed(i) \/ Undo(i) \/ UndoFails(i)

Next ==
  \/ Others
  \/ \E i \in Insert : \/ \E rows \in SUBSET Row : Plan(i, rows)
                        \/ CopyFails(i) \/ Copy(i) \/ Finalize(i)

Spec == Init /\ [][Next]_vars

-----------------------------------------------------------------------------
(* Properties *)

\* The rows of an INSERT that succeeded are there, each in a directory its partition value
\* is read from, whatever other INSERTs and clients did meanwhile, unless another client
\* moved or dropped that partition after the INSERT was planned
\* (CheckExistingPartitionLocations, and the undo, which deletes the own files only).
RowsReadable ==
  \A i \in Insert : statement[i].step = "done" => \A r \in statement[i].rows :
    LET d == statement[i].path[r]
    IN  /\ [insert |-> i, run |-> statement[i].run, row |-> r, dir |-> d] \in files
        /\ \E v \in Values : ReadAs[v] = r /\ (At(v, d) \/ v \in moved[i])

\* An INSERT does not make its rows read back as another partition's, or twice: of two
\* partitions at a directory it wrote to, either both were there when it was planned or
\* somebody else put one there since (CreatePartitionPath refuses rows whose directory is
\* the location of another partition, and partition_directories keeps Glue's spelling).
OneReader ==
  \A i \in Insert : statement[i].step = "done" => \A r \in statement[i].rows :
    LET d == statement[i].path[r]
    IN  \A u, v \in Values \ placed[i] : At(u, d) /\ At(v, d) /\ u # v =>
          statement[i].planned[u] = d /\ statement[i].planned[v] = d

\* An INSERT that was rolled back and run again does not add its rows twice (the catch
\* of GlueHiveInsert::Finalize).
RowsOnce ==
  \A i \in Insert, r \in Row : Cardinality({f \in files : f.insert = i /\ f.row = r}) <= 1
=============================================================================
