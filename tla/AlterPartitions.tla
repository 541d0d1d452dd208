-------------------------- MODULE AlterPartitions --------------------------
(***************************************************************************)
(* Changing the partitions of a Hive table: the actions of one ALTER TABLE *)
(* (glue_alter_table), the functions that change one partition, and        *)
(* glue_repair_table.                                                      *)
(*                                                                         *)
(* Glue has no transactions.  An ALTER TABLE checks all of its actions     *)
(* first, then applies them in order, one request after the other, where   *)
(* consecutive adds and drops go out in batches.  The partitions Glue      *)
(* refuses for a reason that may pass are sent again.  Other clients       *)
(* change the table and its partitions in between.                         *)
(*                                                                         *)
(* A partition is its values, as Glue stores them, and has a location.     *)
(* What else a table's definition holds is rev: how often other clients    *)
(* changed it.  One batch of BatchGetPartition is modelled.  ADD names a   *)
(* location; the default one is that of the caller.                        *)
(***************************************************************************)
EXTENDS Integers, Sequences, FiniteSets, SequencesExt

CONSTANTS
  Part,          \* partition values
  Loc,           \* locations
  ReadDir,       \* the values a directory of the table location names, or Null
  Todo,          \* the lists of actions an ALTER TABLE may have
  Null,
  CreateSize,    \* BatchCreatePartitions' BATCH_SIZE
  DeleteSize,    \* BatchDeletePartitions' BATCH_SIZE
  MaxAttempts,   \* MAX_ATTEMPTS of all three
  MaxChanges     \* bound: changes by other clients

ASSUME ReadDirType  == ReadDir \in [Loc -> Part \cup {Null}]
ASSUME BatchSizes   == {CreateSize, DeleteSize, MaxAttempts} \subseteq Nat \ {0}
ASSUME ChangesType  == MaxChanges \in Nat
ASSUME NullDistinct == Null \notin Part \cup Loc
ASSUME FiniteStore  == IsFiniteSet(Loc)

VARIABLES
  partition,   \* Glue: partition[p] is the location of p, or Null
  table,       \* Glue: the table's definition
  dirs,        \* directories below the table location that hold data files
  s,           \* the statement
  before,      \* the partitions and the definition when the statement was bound
  touched,     \* partitions other clients changed since
  changes      \* how often other clients changed something

vars == <<partition, table, dirs, s, before, touched, changes>>

Location   == Loc \cup {Null}
Definition == [loc : Loc, rev : Nat, version : Nat]
Action     == [do : {"add", "drop", "rename", "set", "table"}, part : Part \cup {Null},
               to : Part \cup {Null}, loc : Location, ok : BOOLEAN]    \* ok: IF [NOT] EXISTS

\* What ParseAction and the arguments of the functions give an action.
Parsed(a) ==
  /\ a.do # "table" => a.part \in Part
  /\ a.do = "rename" => a.to \in Part
  /\ a.do \in {"add", "set", "table"} => a.loc \in Loc

ASSUME TodoType == Todo \subseteq Seq({a \in Action : Parsed(a)})

Kind == {"alter", "call", "repair"}
Step == {"start", "lookup", "check", "found", "list", "apply", "done", "failed"}

\* at: the action it is at; keys: still to be looked up or listed; known, taken: the
\* partitions and locations found; checked: the details fetched for an action; bound: the
\* definition; again: it was replaced since; adds, drops: not yet sent; batch: their
\* positions being sent; why it failed.
Statement ==
  [kind : Kind, todo : Seq(Action), step : Step, at : Nat, keys : SUBSET Part,
   known : SUBSET Part, taken : SUBSET Loc, checked : Seq(Location), bound : Definition,
   again : BOOLEAN, adds : Seq([part : Part, loc : Loc]), drops : Seq(Part),
   batch : SUBSET Nat, attempt : 0 .. MaxAttempts, why : {"none", "refused", "glue"}]

TypeOK ==
  /\ partition \in [Part -> Location]
  /\ table \in Definition
  /\ dirs \subseteq Loc
  /\ s \in Statement
  /\ touched \subseteq Part
  /\ changes \in 0 .. MaxChanges

Started(kind, todo) ==
  [kind |-> kind, todo |-> todo, step |-> "start", at |-> 1, keys |-> {}, known |-> {},
   taken |-> {}, checked |-> [i \in DOMAIN todo |-> Null], bound |-> table, again |-> FALSE,
   adds |-> <<>>, drops |-> <<>>, batch |-> {}, attempt |-> 0, why |-> "none"]

Init ==
  /\ partition \in [Part -> Location]
  /\ table \in [loc : Loc, rev : {0}, version : {0}]
  /\ dirs \in SUBSET Loc
  /\ \/ \E todo \in Todo : s = Started("alter", todo)
     \/ \E todo \in Todo : Len(todo) = 1 /\ s = Started("call", todo)
     \/ s = Started("repair", <<>>)
  /\ before = [partition |-> partition, table |-> table]
  /\ touched = {}
  /\ changes = 0

Ended  == s.step \in {"done", "failed"}
More   == s.at <= Len(s.todo)
Now    == s.todo[s.at]

Exists(p) == partition[p] # Null

Done        == s' = [s EXCEPT !.step = "done"]
Refused     == s' = [s EXCEPT !.step = "failed", !.why = "refused"]
FailsInGlue == s' = [s EXCEPT !.step = "failed", !.why = "glue"]
Applied     == s' = [s EXCEPT !.at = @ + 1]

AsBefore == UNCHANGED <<dirs, before, touched, changes>>
Reads    == AsBefore /\ UNCHANGED <<partition, table>>

-----------------------------------------------------------------------------
(* Bind, and the checks of an ALTER TABLE *)

\* lookups: IF [NOT] EXISTS needs no check.
Lookups(todo) ==
  {a.part : a \in {b \in ToSet(todo) : b.do \in {"add", "drop"} /\ ~b.ok}} \cup
  {a.to   : a \in {b \in ToSet(todo) : b.do = "rename"}}

\* The table is fetched, the actions are parsed.
Bind ==
  /\ s.step = "start"
  /\ CASE s.kind = "alter"  -> s' = [s EXCEPT !.step = "lookup", !.keys = Lookups(s.todo)]
       [] s.kind = "repair" -> s' = [s EXCEPT !.step = "list", !.keys = Part]
       [] OTHER -> s' = [s EXCEPT !.step = IF Now.do \in {"rename", "set"} THEN "check"
                                                                          ELSE "apply"]
  /\ Reads

SlipStartsOver(got, attempt) == (attempt + 1) % MaxAttempts     \* never given up
NextAttempt(got, attempt) == IF got # {} THEN 0 ELSE attempt + 1

\* PartitionLocations: BatchGetPartition leaves keys unprocessed.
BatchGet ==
  /\ s.step = "lookup"
  /\ \/ /\ s.keys = {}
        /\ s' = [s EXCEPT !.step = "check", !.attempt = 0]
     \/ /\ s.keys # {} /\ s.attempt < MaxAttempts
        /\ \E got \in SUBSET s.keys :
             s' = [s EXCEPT !.known = @ \cup {p \in got : Exists(p)}, !.keys = @ \ got,
                            !.attempt = NextAttempt(got, @)]
     \/ (s.keys # {} /\ s.attempt = MaxAttempts /\ FailsInGlue)
  /\ Reads

SlipAnyName(q) == TRUE                \* the target of a rename is not looked at
FreeName(q)    == q \notin s.known

\* An action that rewrites a partition fetches it.
Rewrites(a) == a.do = "rename" \/ (a.do = "set" /\ ~a.ok)

Passes(a) ==
  CASE a.do = "add"    -> a.ok \/ a.part \notin s.known
    [] a.do = "drop"   -> a.ok \/ a.part \in s.known
    [] a.do = "rename" -> Exists(a.part) /\ FreeName(a.to)
    [] a.do = "set"    -> a.ok \/ Exists(a.part)
    [] a.do = "table"  -> TRUE

Check ==
  /\ s.kind = "alter" /\ s.step = "check"
  /\ \/ /\ More /\ Passes(Now)
        /\ s' = [s EXCEPT !.at = @ + 1,
                          !.checked[s.at] = IF Rewrites(Now) THEN partition[Now.part] ELSE Null]
     \/ More /\ ~Passes(Now) /\ Refused
     \/ ~More /\ s' = [s EXCEPT !.step = "apply", !.at = 1]
  /\ Reads

-----------------------------------------------------------------------------
(* Batches of adds and drops *)

\* What is not sent yet goes out before an action of another kind, and at the end.
SlipNoFlush(do) == ~More
Flushes(do)     == ~(More /\ Now.do = do)

FlushAdds  == s.adds # <<>> /\ Flushes("add")
FlushDrops == s.drops # <<>> /\ Flushes("drop")

MinOf(m, n) == IF m < n THEN m ELSE n
Pending(size, queue) == IF s.batch # {} THEN s.batch ELSE 1 .. MinOf(size, Len(queue))
Rest(size, queue)    == SubSeq(queue, size + 1, Len(queue))

\* MAX_ATTEMPTS, for the single partitions of an answer.
SlipUnbounded == TRUE
MaySendAgain == s.attempt + 1 < MaxAttempts

\* The partitions an answer refuses for a reason that may pass are sent again.
Answered(bad, queue) ==
  \/ bad = {} /\ s' = [queue EXCEPT !.batch = {}, !.attempt = 0]
  \/ bad # {} /\ MaySendAgain /\ s' = [s EXCEPT !.batch = bad, !.attempt = @ + 1]
  \/ bad # {} /\ FailsInGlue

\* BatchCreatePartitions, which takes a partition that exists for one of its own. Of two
\* adds of one partition the first is the one the answer is matched to.
BatchCreate ==
  /\ s.step = "apply" /\ FlushAdds
  /\ LET pending  == Pending(CreateSize, s.adds)
         first(p) == CHOOSE i \in pending : /\ s.adds[i].part = p
                                            /\ \A j \in pending : s.adds[j].part = p => i <= j
         sent     == {first(s.adds[i].part) : i \in pending}
     IN \E bad \in SUBSET sent :
          /\ partition' = [p \in Part |->
               IF ~Exists(p) /\ \E i \in sent \ bad : s.adds[i].part = p
               THEN s.adds[first(p)].loc ELSE partition[p]]
          /\ Answered(bad, [s EXCEPT !.adds = Rest(CreateSize, @)])
  /\ AsBefore /\ UNCHANGED table

\* BatchDeletePartitions, which skips a partition that does not exist.
BatchDelete ==
  /\ s.step = "apply" /\ FlushDrops /\ ~FlushAdds
  /\ \E bad \in SUBSET Pending(DeleteSize, s.drops) :
       /\ partition' = [p \in Part |->
            IF \E i \in Pending(DeleteSize, s.drops) \ bad : s.drops[i] = p
            THEN Null ELSE partition[p]]
       /\ Answered(bad, [s EXCEPT !.drops = Rest(DeleteSize, @)])
  /\ AsBefore /\ UNCHANGED table

-----------------------------------------------------------------------------
(* GlueAlterTableApply *)

Applies(do) == s.step = "apply" /\ More /\ Now.do = do /\ ~FlushAdds /\ ~FlushDrops

ApplyAdd ==
  /\ s.kind = "alter" /\ Applies("add")
  /\ s' = [s EXCEPT !.at = @ + 1, !.adds = Append(@, [part |-> Now.part, loc |-> Now.loc])]
  /\ Reads

\* A partition named twice is deleted once.
ApplyDrop ==
  /\ s.kind = "alter" /\ Applies("drop")
  /\ s' = [s EXCEPT !.at = @ + 1,
                    !.drops = IF Now.part \in ToSet(@) THEN @ ELSE Append(@, Now.part)]
  /\ Reads

\* UpdatePartition: p gets the values q and everything of the definition sent. When the
\* answer is lost, the request sent again may find p gone.
Update(p, q, loc) ==
  LET allowed == Exists(p) /\ (q = p \/ ~Exists(q))
  IN  \/ /\ allowed
         /\ partition' = [partition EXCEPT ![p] = Null, ![q] = loc]
         /\ (Applied \/ FailsInGlue)
      \/ UNCHANGED partition /\ (FailsInGlue \/ (~allowed /\ Refused))

\* RenamePartition sends the definition that was fetched, with the new values.
ApplyRename ==
  /\ Applies("rename")
  /\ Update(Now.part, Now.to, s.checked[s.at])
  /\ AsBefore /\ UNCHANGED table

\* With IF EXISTS no check ran, so the partition is fetched now.
FetchLate ==
  /\ Applies("set") /\ s.checked[s.at] = Null
  /\ IF Exists(Now.part) THEN s' = [s EXCEPT !.checked[s.at] = partition[Now.part]] ELSE Refused
  /\ Reads

ApplySet ==
  /\ Applies("set") /\ s.checked[s.at] # Null
  /\ Update(Now.part, Now.part, Now.loc)
  /\ AsBefore /\ UNCHANGED table

\* The definition an earlier action replaced is fetched again.
Refetch ==
  /\ Applies("table") /\ s.again
  /\ s' = [s EXCEPT !.bound = table, !.again = FALSE]
  /\ Reads

SlipNoVersion == TRUE                  \* the request has no VersionId
SameVersion   == s.bound.version = table.version

\* UpdateGlueTable: Glue refuses the VersionId of another definition.
ApplyTable ==
  /\ Applies("table") /\ ~s.again
  /\ \/ /\ SameVersion
        /\ table' = [s.bound EXCEPT !.loc = Now.loc, !.version = table.version + 1]
        /\ (s' = [s EXCEPT !.at = @ + 1, !.again = TRUE] \/ FailsInGlue)
     \/ UNCHANGED table /\ (FailsInGlue \/ (~SameVersion /\ Refused))
  /\ AsBefore /\ UNCHANGED partition

\* A request that only reads fails.
ReadFails ==
  /\ \/ s.step \in {"start", "lookup", "check", "found", "list"}
     \/ Applies("set") /\ s.checked[s.at] = Null
     \/ Applies("table") /\ s.again
  /\ FailsInGlue
  /\ Reads

Finish ==
  /\ s.step = "apply" /\ ~More /\ s.adds = <<>> /\ s.drops = <<>>
  /\ Done
  /\ Reads

-----------------------------------------------------------------------------
(* The functions that change one partition *)

\* Glue applied the change, or found nothing to do, or failed. When the answer is lost, the
\* request sent again finds nothing to do: an error, unless the caller takes that too.
Change(parts, needed) ==
  \/ /\ needed
     /\ partition' = parts
     /\ (Done \/ (~Now.ok /\ FailsInGlue))
  \/ UNCHANGED partition /\ FailsInGlue
  \/ UNCHANGED partition /\ ~needed /\ (IF Now.ok THEN Done ELSE Refused)

CreatePartition(p, loc) == Change([partition EXCEPT ![p] = loc], ~Exists(p))
DeletePartition(p)      == Change([partition EXCEPT ![p] = Null], Exists(p))

CallAdd ==
  /\ s.kind = "call" /\ Applies("add")
  /\ CreatePartition(Now.part, Now.loc)
  /\ AsBefore /\ UNCHANGED table

CallDrop ==
  /\ s.kind = "call" /\ Applies("drop")
  /\ DeletePartition(Now.part)
  /\ AsBefore /\ UNCHANGED table

\* FetchPartition, of a rename and of a new location.
CallFetch ==
  /\ s.kind = "call" /\ s.step = "check"
  /\ IF Exists(Now.part)
     THEN s' = [s EXCEPT !.step = IF Now.do = "rename" THEN "found" ELSE "apply",
                         !.checked[1] = partition[Now.part]]
     ELSE Refused
  /\ Reads

\* ThrowIfPartitionExists.
CallFree ==
  /\ s.kind = "call" /\ s.step = "found"
  /\ IF Exists(Now.to) THEN Refused ELSE s' = [s EXCEPT !.step = "apply"]
  /\ Reads

-----------------------------------------------------------------------------
(* GlueRepairTableApply *)

\* GetPartitions: page by page, in several segments at the same time.
List ==
  /\ s.step = "list" /\ s.keys # {}
  /\ \E page \in SUBSET s.keys \ {{}} :
       LET found == {p \in page : Exists(p)}
       IN s' = [s EXCEPT !.keys = @ \ page, !.known = @ \cup found,
                         !.taken = @ \cup {partition[p] : p \in found}]
  /\ Reads

\* A directory whose values are registered, or that is the location of a partition, is
\* left alone.
SlipValuesOnly(l) == ReadDir[l] \notin (s.known \cup {Null})
Unregistered(l)   == ReadDir[l] \notin (s.known \cup {Null}) /\ l \notin s.taken

\* The files are listed in any order; the first directory found for the values wins.
Discover ==
  /\ s.step = "list" /\ s.keys = {}
  /\ LET new == {l \in dirs : Unregistered(l)}
     IN \E chosen \in SUBSET new :
          /\ \A l \in new : \E m \in chosen : ReadDir[m] = ReadDir[l]
          /\ \A l, m \in chosen : ReadDir[m] = ReadDir[l] => l = m
          /\ s' = [s EXCEPT !.step = "apply",
                            !.adds = SetToSeq({[part |-> ReadDir[l], loc |-> l] : l \in chosen})]
  /\ Reads

-----------------------------------------------------------------------------
(* Other clients *)

Others(p) ==
  /\ s.step # "start" /\ ~Ended
  /\ changes < MaxChanges
  /\ changes' = changes + 1
  /\ touched' = touched \cup ({p} \ {Null})
  /\ UNCHANGED <<dirs, s, before>>

\* Another client registers, moves or drops a partition.
ChangePartition(p, loc) ==
  /\ loc # partition[p]
  /\ partition' = [partition EXCEPT ![p] = loc]
  /\ Others(p)
  /\ UNCHANGED table

\* It changes the definition of the table.
ChangeTable ==
  /\ table' = [table EXCEPT !.rev = @ + 1, !.version = @ + 1]
  /\ Others(Null)
  /\ UNCHANGED partition

StatementStep ==
  \/ Bind \/ BatchGet \/ Check
  \/ BatchCreate \/ BatchDelete
  \/ ApplyAdd \/ ApplyDrop \/ ApplyRename \/ FetchLate \/ ApplySet \/ Refetch \/ ApplyTable
  \/ Finish \/ ReadFails
  \/ CallAdd \/ CallDrop \/ CallFetch \/ CallFree
  \/ List \/ Discover

Next ==
  \/ StatementStep
  \/ \E p \in Part, loc \in Location : ChangePartition(p, loc)
  \/ ChangeTable

\* A statement runs on: its requests are answered.
Spec == Init /\ [][Next]_vars /\ WF_vars(StatementStep)

-----------------------------------------------------------------------------
(* Properties *)

\* What an action does to the partitions, if it can be applied.
Effect(a, parts) ==
  CASE a.do = "add" /\ parts[a.part] = Null -> [parts EXCEPT ![a.part] = a.loc]
    [] a.do = "drop" -> [parts EXCEPT ![a.part] = Null]
    [] a.do = "set" /\ parts[a.part] # Null -> [parts EXCEPT ![a.part] = a.loc]
    [] a.do = "rename" /\ parts[a.part] # Null /\ parts[a.to] = Null ->
         [parts EXCEPT ![a.part] = Null, ![a.to] = parts[a.part]]
    [] OTHER -> parts

InOrder(todo, parts) == FoldLeft(LAMBDA done, a : Effect(a, done), parts, todo)

\* Nobody else changed anything since the statement was bound.
Alone == touched = {} /\ table.rev = before.table.rev

\* A rename sends what the check fetched, before an earlier action moved the partition, or
\* another one was added in its place.
RenamesMoved ==
  \E i, j \in DOMAIN s.todo :
    /\ i < j /\ s.todo[j].do = "rename" /\ s.todo[i].part = s.todo[j].part
    /\ \/ s.todo[i].do = "set"
       \/ /\ s.todo[i].do = "add"
          /\ \E h \in 1 .. i - 1 : /\ s.todo[h].do \in {"drop", "rename"}
                                  /\ s.todo[h].part = s.todo[i].part

\* A statement that succeeds has done its actions one after the other, whatever the batches
\* and however often Glue refused (GlueAlterTableApply), with one exception.
DoneInOrder ==
  (s.kind # "repair" /\ s.step = "done" /\ Alone /\ ~RenamesMoved) =>
    partition = InOrder(s.todo, before.partition)

\* Renaming a partition keeps its location: docs/README.md of glue_rename_partition,
\* "changes the values, keeps the location", also after SET LOCATION in the same statement.
RenameKeepsLocation ==
  (s.kind # "repair" /\ s.step = "done" /\ Alone) =>
    partition = InOrder(s.todo, before.partition)

Names(a) == {a.part, a.to} \ {Null}

\* A statement that Glue does not fail and that nobody gets in the way of is applied as a
\* whole or not at all, as long as its actions are about different partitions: the checks
\* find everything that can fail. They leave out a new location with IF EXISTS.
FailsAsAWhole ==
  (/\ s.step = "failed" /\ s.why = "refused" /\ Alone
   /\ \A a \in ToSet(s.todo) : ~(a.do = "set" /\ a.ok)
   /\ \A i, j \in DOMAIN s.todo : i # j => Names(s.todo[i]) \cap Names(s.todo[j]) = {})
  => (partition = before.partition /\ table = before.table)

\* A repair registers every directory of the table, unless its values or its location are
\* registered, and none twice.
RepairIsComplete ==
  (s.kind = "repair" /\ s.step = "done") =>
    /\ \A l \in dirs : (ReadDir[l] # Null /\ touched = {}) =>
         (Exists(ReadDir[l]) \/ \E p \in Part : partition[p] = l)
    /\ \A p, q \in Part \ touched : (p # q /\ Exists(p) /\ partition[p] = partition[q]) =>
         before.partition[p] = before.partition[q]

\* No change another client made to the definition is undone by SET LOCATION, which sends
\* the whole of the definition it read (UpdateGlueTable and its VersionId).
TableChangesStay == [][table'.rev >= table.rev]_vars

\* Every statement ends: the retries are bounded, and BatchGetPartition is repeated only as
\* long as it gets on.
StatementEnds == <>Ended
=============================================================================
