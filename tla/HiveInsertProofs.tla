-------------------------- MODULE HiveInsertProofs --------------------------
(***************************************************************************)
(* The properties of HiveInsert for any number of INSERTs, partitions,     *)
(* spellings and directories.                                              *)
(*                                                                         *)
(* A statement is right because of what its plan saw (PlanInv), what others *)
(* have done to that since (MovedInv, PlacedInv), and because every        *)
(* directory it wrote to is registered or still to be (SettledInv).        *)
(***************************************************************************)
EXTENDS HiveInsert, FiniteSetTheorems, TLAPS

\* What INSERT i registers for the rows of value r.
InputOf(i, r) == [values |-> ValuesOf(i, r), dir |-> statement[i].path[r]]

\* From its plan on, a statement is in one of its runs.
RunInv(i) == statement[i].step # "idle" => statement[i].run # 0

\* There are files of the last run only, where its plan put the rows, and none once it is
\* rolled back.
FilesInv(i) ==
  \A f \in files : f.insert = i =>
    /\ f.run = statement[i].run
    /\ f.dir = statement[i].path[f.row]
    /\ statement[i].step \notin {"idle", "planned", "rolled_back"}

\* All rows are in files, and what is to be registered are their directories.
InputInv(i) ==
  /\ statement[i].step \in {"register", "locate", "done"} =>
       Written(i, statement[i].rows) \subseteq files
  /\ \A p \in statement[i].pending \cup statement[i].again :
       \E r \in statement[i].rows : p = InputOf(i, r)

\* A row goes to a partition of its value, or to its own directory, which then is no
\* other partition's as far as partitions have the columns of the table.
PlanInv(i) ==
  \A r \in statement[i].rows :
    LET d == statement[i].path[r]
        v == statement[i].directories[d]
    IN  d # Null =>
          \/ /\ v # Null /\ statement[i].planned[v] = d
             /\ \E w \in Values : ReadAs[w] = r /\ statement[i].planned[w] = d
          \/ /\ v = Null /\ d = Own[r]
             /\ statement[i].planned[Canonical[r]] \in {Null, d}
             /\ \A u \in Values :
                  statement[i].planned[u] = d => ColumnsMayDiffer \/ u = Canonical[r]

\* A partition is where the plan saw it unless it was moved or dropped.
MovedInv(i) ==
  \A v \in Values : statement[i].planned[v] # Null =>
    At(v, statement[i].planned[v]) \/ v \in moved[i]

\* A partition nobody else put there is one the plan saw, or one of the INSERT's own.
PlacedInv(i) ==
  \A v \in Values \ placed[i], d \in Dir : At(v, d) /\ statement[i].step # "idle" =>
    \/ statement[i].planned[v] = d
    \/ \E r \in statement[i].rows : statement[i].path[r] = d /\ v = ValuesOf(i, r)

\* The rows of value r are in a directory they are read from, as far as others let it be.
Settled(i, r) ==
  \E v \in Values : ReadAs[v] = r /\ (At(v, statement[i].path[r]) \/ v \in moved[i])

\* The rows are settled, or their directory is still to be registered or looked up.
SettledInv(i) ==
  \A r \in statement[i].rows :
    /\ statement[i].step \in {"register", "locate", "done"} => statement[i].path[r] # Null
    /\ statement[i].step = "register" =>
         \/ Settled(i, r)
         \/ InputOf(i, r) \in statement[i].pending \cup statement[i].again \cup statement[i].existing
    /\ statement[i].step = "locate" => Settled(i, r) \/ InputOf(i, r) \in statement[i].unplanned
    /\ statement[i].step = "done" => Settled(i, r)

StatementInv(i) ==
  /\ RunInv(i) /\ FilesInv(i) /\ InputInv(i) /\ PlanInv(i)
  /\ MovedInv(i) /\ PlacedInv(i) /\ SettledInv(i)

IInv == TypeOK /\ \A i \in Insert : StatementInv(i)

-----------------------------------------------------------------------------
(* Types *)

USE ReadAsType, CanonicalType, OwnType, UnwritableType, OwnIsWritable, ColumnsType,
    MaxAttemptsType, InsertBounds, NullDistinct

\* What a statement knows.
LEMMA StatementFacts ==
  ASSUME TypeOK, NEW i \in Insert
  PROVE  /\ statement[i] \in Statement
         /\ statement[i].step \in {"idle", "planned", "register", "locate", "undo",
                                   "done", "rolled_back", "dirty", "failed"}
         /\ statement[i].run \in 0 .. MaxRuns /\ statement[i].rows \in SUBSET Row
         /\ statement[i].path \in [Row -> Dir \cup {Null}]
         /\ statement[i].planned \in [Values -> Dir \cup {Null}]
         /\ statement[i].directories \in [Dir -> Values \cup {Null}]
         /\ statement[i].pending \in SUBSET Input /\ statement[i].again \in SUBSET Input
         /\ statement[i].existing \in SUBSET Input /\ statement[i].unplanned \in SUBSET Input
         /\ statement[i].attempt \in 0 .. MaxAttempts - 1
BY DEF TypeOK, Statement

\* A partition that is there has a directory.
LEMMA PartitionFacts ==
  ASSUME TypeOK, NEW v \in Values
  PROVE  /\ partition[v] # Null => partition[v].dir \in Dir /\ At(v, partition[v].dir)
         /\ \A d : At(v, d) => d \in Dir /\ d # Null /\ partition[v] # Null
<1>1. partition[v] \in Partition \cup {Null}
  BY DEF TypeOK
<1>2. partition[v] # Null => partition[v].dir \in Dir
  BY <1>1 DEF Partition
<1>3. QED
  BY <1>2 DEF At

LEMMA ValuesOfType ==
  ASSUME TypeOK, NEW i \in Insert, NEW r \in Row, statement[i].path[r] # Null
  PROVE  /\ statement[i].path[r] \in Dir /\ ValuesOf(i, r) \in Values
         /\ InputOf(i, r) \in Input
<1>1. statement[i].path[r] \in Dir
  BY StatementFacts
<1>2. ValuesOf(i, r) \in Values
  BY <1>1, StatementFacts DEF ValuesOf
<1>3. QED
  BY <1>1, <1>2 DEF InputOf, Input

-----------------------------------------------------------------------------
(* What a step leaves of what it does not change *)

\* The plan of INSERT i stays.
SamePlan(i) ==
  /\ statement'[i].run = statement[i].run /\ statement'[i].rows = statement[i].rows
  /\ statement'[i].path = statement[i].path /\ statement'[i].planned = statement[i].planned
  /\ statement'[i].directories = statement[i].directories
  /\ statement'[i].step # "idle" => statement[i].step # "idle"

\* What INSERT i is to know of the partitions others change is kept in moved and placed.
Noted(i) ==
  /\ moved[i] \subseteq moved'[i] /\ placed[i] \subseteq placed'[i]
  /\ \A v \in Values, d \in Dir : At(v, d) => At(v, d)' \/ v \in moved'[i]
  /\ \A v \in Values, d \in Dir : At(v, d)' =>
       \/ At(v, d) \/ v \in placed'[i]
       \/ \E r \in statement[i].rows : statement[i].path[r] = d /\ v = ValuesOf(i, r)

LEMMA PlanFrame ==
  ASSUME TypeOK, TypeOK', NEW i \in Insert, StatementInv(i), SamePlan(i), Noted(i)
  PROVE  /\ RunInv(i)' /\ PlanInv(i)' /\ MovedInv(i)' /\ PlacedInv(i)'
         /\ \A r \in statement[i].rows : Settled(i, r) => Settled(i, r)'
         /\ \A r : InputOf(i, r)' = InputOf(i, r) /\ ValuesOf(i, r)' = ValuesOf(i, r)
         /\ \A rows : Written(i, rows)' = Written(i, rows)
<1>1. \A r : InputOf(i, r)' = InputOf(i, r) /\ ValuesOf(i, r)' = ValuesOf(i, r)
  BY DEF SamePlan, InputOf, ValuesOf
<1>2. \A rows : Written(i, rows)' = Written(i, rows)
  BY DEF SamePlan, Written
<1>3. RunInv(i)' /\ PlanInv(i)'
  BY DEF StatementInv, RunInv, PlanInv, SamePlan
<1>4. MovedInv(i)'
  BY StatementFacts DEF StatementInv, MovedInv, SamePlan, Noted
<1>5. PlacedInv(i)'
  BY <1>1 DEF StatementInv, PlacedInv, SamePlan, Noted
<1>6. \A r \in statement[i].rows : Settled(i, r) => Settled(i, r)'
  <2> SUFFICES ASSUME NEW r \in statement[i].rows, Settled(i, r) PROVE Settled(i, r)'
    OBVIOUS
  <2>1. PICK v \in Values : ReadAs[v] = r /\ (At(v, statement[i].path[r]) \/ v \in moved[i])
    BY DEF Settled
  <2>2. At(v, statement[i].path[r]) => statement[i].path[r] \in Dir
    BY PartitionFacts
  <2>3. At(v, statement[i].path[r])' \/ v \in moved'[i]
    BY <2>1, <2>2 DEF SamePlan, Noted
  <2>4. QED
    BY <2>1, <2>3 DEF Settled
<1>7. QED
  BY <1>1, <1>2, <1>3, <1>4, <1>5, <1>6

\* Nobody but INSERT i does something, and the partitions stay.
Goes(i) ==
  /\ UNCHANGED <<partition, moved, placed>>
  /\ \A j \in Insert \ {i} : statement'[j] = statement[j]

\* The files of the other INSERTs stay.
KeepsFiles(i) == \A f : f.insert # i => (f \in files' <=> f \in files)

\* An INSERT that does nothing needs no second look.
LEMMA RestFrame ==
  ASSUME TypeOK, TypeOK', NEW i \in Insert, StatementInv(i), statement'[i] = statement[i],
         Noted(i), \A f : f.insert = i => (f \in files' <=> f \in files)
  PROVE  StatementInv(i)'
<1>1. SamePlan(i)
  BY DEF SamePlan
<1>2. /\ RunInv(i)' /\ PlanInv(i)' /\ MovedInv(i)' /\ PlacedInv(i)'
      /\ \A r \in statement[i].rows : Settled(i, r) => Settled(i, r)'
      /\ \A r : InputOf(i, r)' = InputOf(i, r) /\ ValuesOf(i, r)' = ValuesOf(i, r)
      /\ \A rows : Written(i, rows)' = Written(i, rows)
  BY <1>1, PlanFrame
<1>3. FilesInv(i)'
  BY DEF StatementInv, FilesInv
<1>4. InputInv(i)'
  <2>1. \A f \in Written(i, statement[i].rows) : f.insert = i
    BY DEF Written
  <2>2. QED
    BY <1>2, <2>1 DEF StatementInv, InputInv
<1>5. SettledInv(i)'
  BY <1>2 DEF StatementInv, SettledInv
<1>6. QED
  BY <1>2, <1>3, <1>4, <1>5 DEF StatementInv

\* When the partitions stay, only the INSERT that does something does.
LEMMA StepFrame ==
  ASSUME IInv, TypeOK', NEW i \in Insert, Goes(i), KeepsFiles(i), StatementInv(i)'
  PROVE  IInv'
<1>1. ASSUME NEW j \in Insert \ {i} PROVE StatementInv(j)'
  <2>1. Noted(j)
    BY DEF Goes, Noted, At
  <2>2. \A f : f.insert = j => (f \in files' <=> f \in files)
    BY DEF KeepsFiles
  <2>3. QED
    BY <2>1, <2>2, RestFrame DEF IInv, Goes
<1>2. QED
  BY <1>1 DEF IInv

\* So it is with a step after which the plan and the files are what they were.
LEMMA PlannedFrame ==
  ASSUME IInv, TypeOK', NEW i \in Insert, Goes(i), SamePlan(i), KeepsFiles(i),
         FilesInv(i)', InputInv(i)',
         (\A r \in statement[i].rows : Settled(i, r) => Settled(i, r)') => SettledInv(i)'
  PROVE  IInv'
<1>1. Noted(i)
  BY DEF Goes, Noted, At
<1>2. StatementInv(i)'
  BY <1>1, PlanFrame DEF IInv, StatementInv
<1>3. QED
  BY <1>2, StepFrame

LEMMA TypeFrame ==
  ASSUME TypeOK, NEW i \in Insert, NEW s \in Statement, statement' = [statement EXCEPT ![i] = s],
         UNCHANGED <<partition, changes, moved, placed>>, files' \in SUBSET File
  PROVE  TypeOK' /\ Goes(i) /\ statement'[i] = s
BY DEF TypeOK, Goes

-----------------------------------------------------------------------------
(* Registration *)

\* INSERT i goes on as s, with nothing more to send and with all rows settled or still to
\* be registered or looked up.
Continues(i, s) ==
  /\ s.step \in {"register", "locate", "undo", "done"}
  /\ s.run = statement[i].run /\ s.rows = statement[i].rows /\ s.path = statement[i].path
  /\ s.planned = statement[i].planned /\ s.directories = statement[i].directories
  /\ s.pending \cup s.again \subseteq statement[i].pending \cup statement[i].again
  /\ \A r \in statement[i].rows :
       /\ s.step = "register" =>
            Settled(i, r) \/ InputOf(i, r) \in s.pending \cup s.again \cup s.existing
       /\ s.step = "locate" => Settled(i, r) \/ InputOf(i, r) \in s.unplanned
       /\ s.step = "done" => Settled(i, r)

\* A step of the registration that leaves the partitions.
LEMMA FinalizeFrame ==
  ASSUME IInv, NEW i \in Insert, NEW s \in Statement, statement' = [statement EXCEPT ![i] = s],
         UNCHANGED <<partition, files, changes, moved, placed>>,
         statement[i].step \in {"register", "locate"},
         Continues(i, s)
  PROVE  IInv'
<1>1. TypeOK' /\ Goes(i) /\ statement'[i] = s
  BY TypeFrame DEF IInv, TypeOK
<1>2. SamePlan(i) /\ KeepsFiles(i) /\ Noted(i)
  BY <1>1 DEF Continues, SamePlan, KeepsFiles, Goes, Noted, At
<1>3. StatementInv(i)
  BY DEF IInv
<1>4. /\ \A r \in statement[i].rows : Settled(i, r) => Settled(i, r)'
      /\ \A r : InputOf(i, r)' = InputOf(i, r)
      /\ \A rows : Written(i, rows)' = Written(i, rows)
  BY <1>1, <1>2, <1>3, PlanFrame DEF IInv
<1>5. FilesInv(i)'
  BY <1>1, <1>3 DEF Continues, StatementInv, FilesInv
<1>6. InputInv(i)'
  BY <1>1, <1>3, <1>4 DEF Continues, StatementInv, InputInv
<1>7. SettledInv(i)'
  BY <1>1, <1>3, <1>4 DEF Continues, StatementInv, SettledInv
<1>8. QED
  BY <1>1, <1>2, <1>5, <1>6, <1>7, PlannedFrame

LEMMA StepsIInv ==
  ASSUME IInv, NEW i \in Insert,
         RegistrationFails(i) \/ LocateFails(i) \/ Succeed(i)
  PROVE  IInv'
<1>1. PICK x \in {"undo", "done"} :
        /\ statement' = [statement EXCEPT ![i].step = x]
        /\ statement[i].step \in {"register", "locate"}
        /\ UNCHANGED <<partition, files, changes, moved, placed>>
        /\ x = "done" => statement[i].step = "locate" /\ statement[i].unplanned = {}
  BY DEF RegistrationFails, LocateFails, Succeed
<1>2. PICK s : s = [statement[i] EXCEPT !.step = x]
  OBVIOUS
<1>3. statement' = [statement EXCEPT ![i] = s]
  BY <1>1, <1>2
<1>4. /\ s \in Statement /\ s.step = x
      /\ s.run = statement[i].run /\ s.rows = statement[i].rows /\ s.path = statement[i].path
      /\ s.planned = statement[i].planned /\ s.directories = statement[i].directories
      /\ s.pending = statement[i].pending /\ s.again = statement[i].again
  BY <1>2, StatementFacts DEF IInv, Statement
<1>5. x = "done" => \A r \in statement[i].rows : Settled(i, r)
  BY <1>1 DEF IInv, StatementInv, SettledInv
<1>6. \A r \in statement[i].rows :
        /\ s.step = "register" =>
             Settled(i, r) \/ InputOf(i, r) \in s.pending \cup s.again \cup s.existing
        /\ s.step = "locate" => Settled(i, r) \/ InputOf(i, r) \in s.unplanned
        /\ s.step = "done" => Settled(i, r)
  BY <1>4, <1>5
<1>7. Continues(i, s)
  BY <1>1, <1>3, <1>4, <1>6 DEF Continues
<1>8. QED
  BY <1>1, <1>3, <1>4, <1>7, FinalizeFrame

LEMMA SendAgainIInv ==
  ASSUME IInv, NEW i \in Insert, SendAgain(i)
  PROVE  IInv'
<1>1. PICK y, z, s : /\ y = [statement[i] EXCEPT !.pending = statement[i].again]
                     /\ z = [y EXCEPT !.again = {}]
                     /\ s = [z EXCEPT !.attempt = @ + 1]
  OBVIOUS
<1>2. /\ statement' = [statement EXCEPT ![i] = s]
      /\ statement[i].step = "register" /\ statement[i].pending = {}
      /\ UNCHANGED <<partition, files, changes, moved, placed>>
  <2>1. PICK n : n = statement[i].attempt + 1
    OBVIOUS
  <2>2. statement' = [statement EXCEPT ![i].pending = statement[i].again, ![i].again = {},
                                       ![i].attempt = n]
    BY <2>1 DEF SendAgain, IInv, TypeOK
  <2>3. z.attempt + 1 = n
    BY <1>1, <2>1, StatementFacts DEF IInv, Statement
  <2>4. s = [z EXCEPT !.attempt = n]
    BY <1>1, <2>3
  <2>5. statement' = [statement EXCEPT ![i] = s]
    BY <1>1, <2>2, <2>4 DEF IInv, TypeOK
  <2>6. QED
    BY <2>5 DEF SendAgain, Answered
<1>3. statement[i].attempt + 1 \in 0 .. MaxAttempts - 1
  <2>1. PICK a \in 0 .. MaxAttempts - 1 : a = statement[i].attempt
    BY StatementFacts DEF IInv
  <2>2. a + 1 # MaxAttempts
    BY <2>1 DEF SendAgain, Last
  <2>3. QED
    BY <2>1, <2>2
<1>4. /\ s \in Statement /\ s.step = "register"
      /\ s.run = statement[i].run /\ s.rows = statement[i].rows /\ s.path = statement[i].path
      /\ s.planned = statement[i].planned /\ s.directories = statement[i].directories
      /\ s.pending = statement[i].again /\ s.again = {} /\ s.existing = statement[i].existing
  <2>1. /\ y \in Statement /\ y.pending = statement[i].again /\ y.existing = statement[i].existing
        /\ y.step = statement[i].step /\ y.run = statement[i].run /\ y.rows = statement[i].rows
        /\ y.path = statement[i].path /\ y.planned = statement[i].planned
        /\ y.directories = statement[i].directories
        /\ y.attempt = statement[i].attempt
    BY SMTT(20), <1>1, StatementFacts DEF IInv, Statement
  <2>2. /\ z \in Statement /\ z.pending = statement[i].again /\ z.existing = statement[i].existing
        /\ z.step = statement[i].step /\ z.run = statement[i].run /\ z.rows = statement[i].rows
        /\ z.path = statement[i].path /\ z.planned = statement[i].planned
        /\ z.directories = statement[i].directories
        /\ z.attempt = statement[i].attempt /\ z.again = {}
    BY <1>1, <2>1 DEF Statement
  <2>3. s \in Statement
    BY <1>1, <1>3, <2>2 DEF Statement
  <2>4. QED
    BY <1>1, <1>2, <2>2, <2>3 DEF Statement
<1>5. \A r \in statement[i].rows :
        Settled(i, r) \/ InputOf(i, r) \in s.pending \cup s.again \cup s.existing
  BY <1>2, <1>4 DEF IInv, StatementInv, SettledInv
<1>6. Continues(i, s)
  BY <1>2, <1>4, <1>5 DEF Continues
<1>7. QED
  BY <1>2, <1>4, <1>6, FinalizeFrame

\* What a directory is registered as when its rows are in no partition the plan saw.
LEMMA NewDirectory ==
  ASSUME IInv, NEW i \in Insert, NEW r \in statement[i].rows, statement[i].path[r] # Null,
         ~Settled(i, r)
  PROVE  /\ ValuesOf(i, r) = Canonical[r] /\ statement[i].planned[Canonical[r]] = Null
         /\ Canonical[r] \in Values /\ ReadAs[Canonical[r]] = r
<1>1. r \in Row /\ Canonical[r] \in Values /\ ReadAs[Canonical[r]] = r
  BY StatementFacts DEF IInv
<1>2. \A w \in Values : ReadAs[w] = r => statement[i].planned[w] # statement[i].path[r]
  BY DEF IInv, StatementInv, MovedInv, Settled
<1>3. statement[i].directories[statement[i].path[r]] = Null
  BY <1>2 DEF IInv, StatementInv, PlanInv
<1>4. statement[i].planned[Canonical[r]] = Null
  BY <1>1, <1>2, <1>3 DEF IInv, StatementInv, PlanInv
<1>5. QED
  BY <1>1, <1>3, <1>4 DEF ValuesOf

LEMMA RegisteredIInv ==
  ASSUME IInv, NEW i \in Insert, Registered(i)
  PROVE  IInv'
<1>1. PICK x \in {"locate", "undo"} :
        statement' = [statement EXCEPT ![i].unplanned = Unplanned(i), ![i].step = x]
  BY DEF Registered
<1>2. PICK y, s : y = [statement[i] EXCEPT !.unplanned = Unplanned(i)] /\ s = [y EXCEPT !.step = x]
  OBVIOUS
<1>3. /\ statement' = [statement EXCEPT ![i] = s]
      /\ statement[i].step = "register" /\ statement[i].pending = {} /\ statement[i].again = {}
      /\ UNCHANGED <<partition, files, changes, moved, placed>>
  BY <1>1, <1>2 DEF Registered, Answered, IInv, TypeOK
<1>4. Unplanned(i) \in SUBSET Input
  BY StatementFacts DEF IInv, Unplanned
<1>5. /\ s \in Statement /\ s.step = x /\ s.unplanned = Unplanned(i)
      /\ s.run = statement[i].run /\ s.rows = statement[i].rows /\ s.path = statement[i].path
      /\ s.planned = statement[i].planned /\ s.directories = statement[i].directories
      /\ s.pending = statement[i].pending /\ s.again = statement[i].again
  <2>1. /\ y \in Statement /\ y.unplanned = Unplanned(i)
        /\ y.step = statement[i].step /\ y.run = statement[i].run /\ y.rows = statement[i].rows
        /\ y.path = statement[i].path /\ y.planned = statement[i].planned
        /\ y.directories = statement[i].directories
        /\ y.pending = statement[i].pending /\ y.again = statement[i].again
    BY <1>2, <1>4, StatementFacts DEF IInv, Statement
  <2>2. QED
    BY <1>2, <2>1 DEF Statement
<1>6. \A r \in statement[i].rows : Settled(i, r) \/ InputOf(i, r) \in s.unplanned
  <2> SUFFICES ASSUME NEW r \in statement[i].rows, ~Settled(i, r)
               PROVE  InputOf(i, r) \in Unplanned(i)
    BY <1>5
  <2>1. statement[i].path[r] # Null /\ InputOf(i, r) \in statement[i].existing
    BY <1>3 DEF IInv, StatementInv, SettledInv
  <2>2. statement[i].planned[ValuesOf(i, r)] = Null
    BY <2>1, NewDirectory
  <2>3. QED
    BY <2>1, <2>2 DEF Unplanned, InputOf
<1>7. Continues(i, s)
  BY <1>1, <1>3, <1>5, <1>6 DEF Continues
<1>8. QED
  BY <1>1, <1>3, <1>5, <1>7, FinalizeFrame

LEMMA LocateIInv ==
  ASSUME IInv, NEW i \in Insert, NEW p \in statement[i].unplanned, Locate(i, p)
  PROVE  IInv'
<1>1. PICK x \in {"locate", "undo"} :
        /\ statement' = [statement EXCEPT ![i].unplanned = @ \ {p}, ![i].step = x]
        /\ x = "locate" => At(p.values, p.dir)
  BY DEF Locate
<1>2. PICK y, s : y = [statement[i] EXCEPT !.unplanned = @ \ {p}] /\ s = [y EXCEPT !.step = x]
  OBVIOUS
<1>3. /\ statement' = [statement EXCEPT ![i] = s] /\ statement[i].step = "locate"
      /\ UNCHANGED <<partition, files, changes, moved, placed>>
  <2>1. statement[i] \in Statement /\ statement \in [Insert -> Statement]
    BY DEF IInv, TypeOK
  <2>2. PICK w : w = statement[i].unplanned \ {p}
    OBVIOUS
  <2>3. statement' = [statement EXCEPT ![i].unplanned = w, ![i].step = x]
    BY <1>1, <2>1, <2>2
  <2>4. y = [statement[i] EXCEPT !.unplanned = w]
    BY <1>2, <2>2
  <2>5. statement' = [statement EXCEPT ![i] = s]
    BY <1>2, <2>1, <2>3, <2>4
  <2>6. QED
    BY <2>5 DEF Locate
<1>4. /\ s \in Statement /\ s.step = x /\ s.unplanned = statement[i].unplanned \ {p}
      /\ s.run = statement[i].run /\ s.rows = statement[i].rows /\ s.path = statement[i].path
      /\ s.planned = statement[i].planned /\ s.directories = statement[i].directories
      /\ s.pending = statement[i].pending /\ s.again = statement[i].again
  <2>1. /\ y \in Statement /\ y.unplanned = statement[i].unplanned \ {p}
        /\ y.step = statement[i].step /\ y.run = statement[i].run /\ y.rows = statement[i].rows
        /\ y.path = statement[i].path /\ y.planned = statement[i].planned
        /\ y.directories = statement[i].directories
        /\ y.pending = statement[i].pending /\ y.again = statement[i].again
    BY <1>2, StatementFacts DEF IInv, Statement
  <2>2. QED
    BY <1>2, <2>1 DEF Statement
<1>5. x = "locate" => \A r \in statement[i].rows : Settled(i, r) \/ InputOf(i, r) \in s.unplanned
  <2> SUFFICES ASSUME x = "locate", NEW r \in statement[i].rows, ~Settled(i, r)
               PROVE  InputOf(i, r) \in s.unplanned
    OBVIOUS
  <2>1. statement[i].path[r] # Null /\ InputOf(i, r) \in statement[i].unplanned
    BY <1>3 DEF IInv, StatementInv, SettledInv
  <2>2. /\ ValuesOf(i, r) = Canonical[r] /\ Canonical[r] \in Values /\ ReadAs[Canonical[r]] = r
    BY <2>1, NewDirectory
  <2>3. ~At(ValuesOf(i, r), statement[i].path[r])
    BY <2>2 DEF Settled
  <2>4. InputOf(i, r) # p
    BY <1>1, <2>3 DEF InputOf
  <2>5. QED
    BY <1>4, <2>1, <2>4
<1>6. \A r \in statement[i].rows :
        /\ s.step = "register" =>
             Settled(i, r) \/ InputOf(i, r) \in s.pending \cup s.again \cup s.existing
        /\ s.step = "locate" => Settled(i, r) \/ InputOf(i, r) \in s.unplanned
        /\ s.step = "done" => Settled(i, r)
  BY <1>4, <1>5
<1>7. Continues(i, s)
  BY <1>1, <1>3, <1>4, <1>6 DEF Continues
<1>8. QED
  BY <1>1, <1>3, <1>4, <1>7, FinalizeFrame

-----------------------------------------------------------------------------
(* The plan *)

LEMMA FirstOfFacts ==
  ASSUME NEW vs, vs # {}, NEW v
  PROVE  FirstOf(vs, v) \in vs
BY DEF FirstOf

\* What the plan knows of the partitions it has.
LEMMA SpecialFacts ==
  ASSUME TypeOK
  PROVE  /\ Special \subseteq Values /\ Custom \subseteq Special
         /\ \A u \in Custom : At(u, partition[u].dir) /\ partition[u].dir \in Dir
         /\ \A r \in Row : Mine(r) \subseteq Special /\ \A u \in Mine(r) : ReadAs[u] = r
         /\ \A r \in Row : Mine(r) = {} /\ partition[Canonical[r]] # Null =>
              partition[Canonical[r]].dir = Own[r]
         /\ \A r \in Row, u \in Values \ Custom : At(u, Own[r]) => ColumnsMayDiffer \/ u = Canonical[r]
<1>1. Special \subseteq Values /\ Custom \subseteq Special
  BY DEF Special, Custom
<1>2. \A u \in Custom : At(u, partition[u].dir) /\ partition[u].dir \in Dir
  BY <1>1, PartitionFacts DEF Custom, Special
<1>3. \A r \in Row : Mine(r) \subseteq Special /\ \A u \in Mine(r) : ReadAs[u] = r
  BY DEF Mine
<1>4. \A r \in Row : Mine(r) = {} /\ partition[Canonical[r]] # Null =>
        partition[Canonical[r]].dir = Own[r]
  BY DEF Mine, Special
<1>5. ASSUME NEW r \in Row, NEW u \in Values \ Custom, At(u, Own[r]), ~ColumnsMayDiffer
      PROVE  u = Canonical[r]
  <2>1. partition[u] # Null /\ partition[u].dir = Own[r] /\ partition[u] \in Partition
    BY <1>5 DEF At, TypeOK
  <2>2. partition[u].same = TRUE
    BY <1>5, <2>1 DEF Partition
  <2>3. u \notin Special
    BY <1>5, <2>1, <2>2 DEF Custom
  <2>4. u = Canonical[ReadAs[u]] /\ Own[r] = Own[ReadAs[u]]
    BY <2>1, <2>3 DEF Special
  <2>5. ReadAs[u] \in Row
    OBVIOUS
  <2>6. ReadAs[u] = r
    BY <2>4, <2>5
  <2>7. QED
    BY <2>4, <2>6
<1>6. QED
  BY <1>1, <1>2, <1>3, <1>4, <1>5

\* The plan of INSERT i, where v is the first partition in Glue's list.
PlanOf(i, rows, v) ==
  [step |-> "planned", run |-> statement[i].run + 1, rows |-> rows,
   path |-> [r \in Row |-> IF r \in rows THEN Path(r, v) ELSE Null],
   planned |-> [u \in Values |-> IF partition[u] = Null THEN Null ELSE partition[u].dir],
   directories |-> [d \in Dir |-> LET at == {u \in Custom : At(u, d)}
                                   IN  IF at = {} THEN Null ELSE FirstOf(at, v)],
   pending |-> {}, again |-> {}, attempt |-> 0, existing |-> {}, unplanned |-> {}]

LEMMA PathFacts ==
  ASSUME TypeOK, NEW r \in Row, NEW v \in Values
  PROVE  /\ Path(r, v) \in Dir \cup {Null}
         /\ Path(r, v) # Null =>
              \/ \E u \in Custom : ReadAs[u] = r /\ At(u, Path(r, v))
              \/ /\ Path(r, v) = Own[r] /\ Mine(r) = {}
                 /\ ~\E u \in Custom : At(u, Own[r])
<1>1. CASE Mine(r) # {}
  <2>1. PICK u \in Mine(r) : u = FirstOf(Mine(r), v)
    BY <1>1, FirstOfFacts
  <2>2. Path(r, v) = IF u \in Custom THEN partition[u].dir ELSE Null
    BY <1>1, <2>1 DEF Path, Checked
  <2>3. QED
    BY <2>1, <2>2, SpecialFacts
<1>2. CASE Mine(r) = {} /\ \E u \in Custom : At(u, Own[r])
  BY <1>2 DEF Path
<1>3. CASE Mine(r) = {} /\ ~\E u \in Custom : At(u, Own[r])
  <2>1. Path(r, v) = Own[r]
    BY <1>3 DEF Path
  <2>2. QED
    BY <1>3, <2>1
<1>4. QED
  BY <1>1, <1>2, <1>3

LEMMA DirectoriesFacts ==
  ASSUME TypeOK, NEW d \in Dir, NEW v \in Values, NEW w,
         w = (LET at == {u \in Custom : At(u, d)} IN IF at = {} THEN Null ELSE FirstOf(at, v))
  PROVE  \/ w \in Custom /\ At(w, d)
         \/ w = Null /\ ~\E u \in Custom : At(u, d)
<1>1. CASE {u \in Custom : At(u, d)} = {}
  BY <1>1
<1>2. CASE {u \in Custom : At(u, d)} # {}
  <2>1. w = FirstOf({u \in Custom : At(u, d)}, v)
    BY <1>2
  <2>2. w \in {u \in Custom : At(u, d)}
    BY <1>2, <2>1, FirstOfFacts
  <2>3. QED
    BY <2>2
<1>3. QED
  BY <1>1, <1>2

LEMMA PlanIInv ==
  ASSUME IInv, NEW i \in Insert, NEW rows \in SUBSET Row, Plan(i, rows)
  PROVE  IInv'
<1>1. /\ statement[i].step \in {"idle", "rolled_back"}
      /\ statement[i].run < MaxRuns
      /\ moved' = [moved EXCEPT ![i] = {}] /\ placed' = [placed EXCEPT ![i] = {}]
      /\ UNCHANGED <<partition, files, changes>>
  BY DEF Plan
<1>plan. PICK v \in Values : statement' = [statement EXCEPT ![i] = PlanOf(i, rows, v)]
  BY DEF Plan, PlanOf
<1>2. PICK s : s = PlanOf(i, rows, v) /\ statement' = [statement EXCEPT ![i] = s]
  BY <1>plan
<1>3. /\ s.step = "planned" /\ s.run = statement[i].run + 1 /\ s.rows = rows
      /\ \A r \in rows : s.path[r] = Path(r, v)
      /\ \A u \in Values : s.planned[u] = IF partition[u] = Null THEN Null ELSE partition[u].dir
      /\ s.pending = {} /\ s.again = {}
  BY <1>2 DEF PlanOf
<1>4. \A d \in Dir : \/ s.directories[d] \in Custom /\ At(s.directories[d], d)
                     \/ s.directories[d] = Null /\ ~\E u \in Custom : At(u, d)
  BY <1>2, DirectoriesFacts DEF IInv, PlanOf
<1>5. TypeOK
  BY DEF IInv
<1>6. s.path \in [Row -> Dir \cup {Null}]
  BY <1>2, <1>5, PathFacts DEF PlanOf
<1>7. s.planned \in [Values -> Dir \cup {Null}]
  BY <1>2, <1>5, PartitionFacts DEF PlanOf
<1>8. s.directories \in [Dir -> Values \cup {Null}]
  <2>1. \A d \in Dir : s.directories[d] \in Values \cup {Null}
    BY <1>4, <1>5, SpecialFacts
  <2>2. s.directories = [d \in Dir |-> s.directories[d]]
    BY <1>2 DEF PlanOf
  <2>3. QED
    BY <2>1, <2>2
<1>9. s.run \in 0 .. MaxRuns /\ s.run # 0
  <2>1. PICK n \in 0 .. MaxRuns : n = statement[i].run
    BY <1>5, StatementFacts
  <2>2. QED
    BY <1>1, <1>3, <2>1
<1>10. s \in Statement
  BY <1>2, <1>6, <1>7, <1>8, <1>9 DEF PlanOf, Statement
<1>11. /\ TypeOK' /\ statement'[i] = s
       /\ \A j \in Insert \ {i} : statement'[j] = statement[j] /\ moved'[j] = moved[j]
                                  /\ placed'[j] = placed[j]
  BY <1>1, <1>2, <1>5, <1>10 DEF TypeOK
<1>12. \A u \in Values, d \in Dir : At(u, d) <=> s.planned[u] = d
  BY <1>3, <1>5, PartitionFacts DEF At
<1>13. FilesInv(i)' /\ InputInv(i)' /\ RunInv(i)' /\ SettledInv(i)'
  <2>1. \A f \in files : f.insert # i
    BY <1>1 DEF IInv, StatementInv, FilesInv
  <2>2. QED
    BY <1>1, <1>3, <1>9, <1>11, <2>1 DEF FilesInv, InputInv, RunInv, SettledInv
<1>14. PlanInv(i)'
  <2> SUFFICES ASSUME NEW r \in rows, NEW d \in Dir, d = Path(r, v)
               PROVE  \/ /\ s.directories[d] # Null /\ s.planned[s.directories[d]] = d
                         /\ \E w \in Values : ReadAs[w] = r /\ s.planned[w] = d
                      \/ /\ s.directories[d] = Null /\ d = Own[r]
                         /\ s.planned[Canonical[r]] \in {Null, d}
                         /\ \A u \in Values : s.planned[u] = d => ColumnsMayDiffer \/ u = Canonical[r]
    BY <1>3, <1>5, <1>11, PathFacts DEF PlanInv
  <2>1. CASE \E u \in Custom : ReadAs[u] = r /\ At(u, d)
    <3>1. PICK u \in Custom : ReadAs[u] = r /\ At(u, d)
      BY <2>1
    <3>2. s.directories[d] \in Custom /\ At(s.directories[d], d)
      BY <1>4, <3>1
    <3>3. Custom \subseteq Values
      BY <1>5, SpecialFacts
    <3>4. s.planned[s.directories[d]] = d /\ s.planned[u] = d /\ s.directories[d] # Null
      BY <1>12, <3>1, <3>2, <3>3
    <3>5. QED
      BY <3>1, <3>3, <3>4
  <2>2. CASE d = Own[r] /\ Mine(r) = {} /\ ~\E u \in Custom : At(u, Own[r])
    <3>1. s.directories[d] = Null
      BY <1>4, <2>2
    <3>2. s.planned[Canonical[r]] \in {Null, d}
      BY <1>3, <1>5, <2>2, SpecialFacts
    <3>3. \A u \in Values : s.planned[u] = d => ColumnsMayDiffer \/ u = Canonical[r]
      BY <1>5, <1>12, <2>2, SpecialFacts
    <3>4. QED
      BY <2>2, <3>1, <3>2, <3>3
  <2>3. QED
    BY <1>5, <2>1, <2>2, PathFacts
<1>15. MovedInv(i)'
  BY <1>1, <1>3, <1>7, <1>11, <1>12 DEF MovedInv, At
<1>16. PlacedInv(i)'
  BY <1>1, <1>11, <1>12 DEF PlacedInv, At
<1>17. ASSUME NEW j \in Insert \ {i} PROVE StatementInv(j)'
  <2>1. Noted(j)
    BY <1>1, <1>11 DEF Noted, At
  <2>2. QED
    BY <1>1, <1>11, <2>1, RestFrame DEF IInv
<1>18. QED
  BY <1>11, <1>13, <1>14, <1>15, <1>16, <1>17 DEF IInv, StatementInv

-----------------------------------------------------------------------------
(* The files *)

\* An INSERT writes where its plan says, and has no files from before.
LEMMA WrittenFacts ==
  ASSUME IInv, NEW i \in Insert, NEW rows \in SUBSET statement[i].rows,
         statement[i].step = "planned",
         \A r \in rows : statement[i].path[r] # Null,
         files' = files \cup Written(i, rows)
  PROVE  /\ files' \in SUBSET File /\ KeepsFiles(i)
         /\ \A f \in files' : f.insert = i =>
              f.run = statement[i].run /\ f.dir = statement[i].path[f.row]
<1>1. statement[i].run \in 1 .. MaxRuns
  BY StatementFacts DEF IInv, StatementInv, RunInv
<1>2. \A r \in rows : r \in Row /\ statement[i].path[r] \in Dir
  BY StatementFacts DEF IInv
<1>3. Written(i, rows) \subseteq File
  BY <1>1, <1>2 DEF Written, File
<1>4. \A f \in Written(i, rows) :
        f.insert = i /\ f.run = statement[i].run /\ f.dir = statement[i].path[f.row]
  BY DEF Written
<1>5. \A f \in files : f.insert # i
  BY DEF IInv, StatementInv, FilesInv
<1>6. QED
  BY <1>3, <1>4, <1>5 DEF KeepsFiles, IInv, TypeOK

LEMMA CopyFailsIInv ==
  ASSUME IInv, NEW i \in Insert, CopyFails(i)
  PROVE  IInv'
<1>1. /\ statement[i].step = "planned"
      /\ statement' = [statement EXCEPT ![i].step = "failed"]
      /\ UNCHANGED <<partition, changes, moved, placed>>
  BY DEF CopyFails
<1>2. PICK rows \in SUBSET {r \in statement[i].rows : statement[i].path[r] # Null} :
        files' = files \cup Written(i, rows)
  BY DEF CopyFails
<1>3. /\ files' \in SUBSET File /\ KeepsFiles(i)
      /\ \A f \in files' : f.insert = i =>
           f.run = statement[i].run /\ f.dir = statement[i].path[f.row]
  <2>1. rows \in SUBSET statement[i].rows /\ \A r \in rows : statement[i].path[r] # Null
    OBVIOUS
  <2>2. QED
    BY <1>1, <1>2, <2>1, WrittenFacts
<1>4. PICK s : s = [statement[i] EXCEPT !.step = "failed"]
  OBVIOUS
<1>5. /\ s \in Statement /\ s.step = "failed"
      /\ s.run = statement[i].run /\ s.rows = statement[i].rows /\ s.path = statement[i].path
      /\ s.planned = statement[i].planned /\ s.directories = statement[i].directories
      /\ s.pending = statement[i].pending /\ s.again = statement[i].again
  BY SMTT(20), <1>4, StatementFacts DEF IInv, Statement
<1>6. TypeOK' /\ Goes(i) /\ statement'[i] = s
  <2>1. TypeOK
    BY DEF IInv
  <2>2. statement' = [statement EXCEPT ![i] = s]
    BY <1>1, <1>4, <2>1 DEF TypeOK
  <2>3. UNCHANGED <<partition, changes, moved, placed>> /\ files' \in SUBSET File
    BY <1>1, <1>3
  <2>4. QED
    BY <1>5, <2>1, <2>2, <2>3, TypeFrame
<1>7. SamePlan(i) /\ Noted(i)
  BY <1>1, <1>5, <1>6 DEF SamePlan, Goes, Noted, At
<1>8. \A r : InputOf(i, r)' = InputOf(i, r)
  BY <1>6, <1>7, PlanFrame DEF IInv
<1>9. FilesInv(i)' /\ InputInv(i)' /\ SettledInv(i)'
  BY <1>3, <1>5, <1>6, <1>8 DEF FilesInv, InputInv, SettledInv, IInv, StatementInv
<1>10. QED
  BY <1>3, <1>6, <1>7, <1>9, PlannedFrame

LEMMA CopyIInv ==
  ASSUME IInv, NEW i \in Insert, Copy(i)
  PROVE  IInv'
<1>1. PICK inputs : inputs = {[values |-> ValuesOf(i, r), dir |-> statement[i].path[r]] :
                                r \in statement[i].rows}
  OBVIOUS
<1>2. /\ statement[i].step = "planned"
      /\ \A r \in statement[i].rows : statement[i].path[r] # Null
      /\ statement' = [statement EXCEPT ![i].step = "register", ![i].pending = inputs]
      /\ files' = files \cup Written(i, statement[i].rows)
      /\ UNCHANGED <<partition, changes, moved, placed>>
  BY <1>1 DEF Copy
<1>3. /\ files' \in SUBSET File /\ KeepsFiles(i)
      /\ \A f \in files' : f.insert = i =>
           f.run = statement[i].run /\ f.dir = statement[i].path[f.row]
  BY <1>2, WrittenFacts
<1>4. /\ inputs \in SUBSET Input /\ \A r \in statement[i].rows : InputOf(i, r) \in inputs
      /\ \A p \in inputs : \E r \in statement[i].rows : p = InputOf(i, r)
  <2>1. \A r \in statement[i].rows : InputOf(i, r) \in Input
    BY <1>2, StatementFacts, ValuesOfType DEF IInv
  <2>2. inputs = {InputOf(i, r) : r \in statement[i].rows}
    BY <1>1 DEF InputOf
  <2>3. QED
    BY <2>1, <2>2
<1>5. PICK y, s : y = [statement[i] EXCEPT !.step = "register"] /\ s = [y EXCEPT !.pending = inputs]
  OBVIOUS
<1>6. /\ s \in Statement /\ s.step = "register" /\ s.pending = inputs
      /\ s.run = statement[i].run /\ s.rows = statement[i].rows /\ s.path = statement[i].path
      /\ s.planned = statement[i].planned /\ s.directories = statement[i].directories
      /\ s.again = statement[i].again
  <2>1. /\ y \in Statement /\ y.step = "register"
        /\ y.run = statement[i].run /\ y.rows = statement[i].rows /\ y.path = statement[i].path
        /\ y.planned = statement[i].planned /\ y.directories = statement[i].directories
        /\ y.again = statement[i].again
    BY <1>5, StatementFacts DEF IInv, Statement
  <2>2. QED
    BY <1>4, <1>5, <2>1 DEF Statement
<1>7. statement' = [statement EXCEPT ![i] = s]
  BY <1>2, <1>5 DEF IInv, TypeOK
<1>8. TypeOK' /\ Goes(i) /\ statement'[i] = s
  <2>1. UNCHANGED <<partition, changes, moved, placed>>
    BY <1>2
  <2>2. QED
    BY <1>3, <1>6, <1>7, <2>1, TypeFrame DEF IInv
<1>9. SamePlan(i) /\ Noted(i)
  BY <1>2, <1>6, <1>8 DEF SamePlan, Goes, Noted, At
<1>10. /\ \A r : InputOf(i, r)' = InputOf(i, r)
       /\ \A rows : Written(i, rows)' = Written(i, rows)
  BY <1>8, <1>9, PlanFrame DEF IInv
<1>11. FilesInv(i)'
  BY <1>3, <1>6, <1>8 DEF FilesInv
<1>12. InputInv(i)'
  <2>1. Written(i, s.rows)' \subseteq files'
    BY <1>2, <1>6, <1>10
  <2>2. \A p \in s.again : \E r \in s.rows : p = InputOf(i, r)
    BY <1>6 DEF IInv, StatementInv, InputInv
  <2>3. \A p \in s.pending \cup s.again : \E r \in s.rows : p = InputOf(i, r)'
    BY <1>4, <1>6, <1>10, <2>2
  <2>4. QED
    BY <1>8, <2>1, <2>3 DEF InputInv
<1>13. SettledInv(i)'
  BY <1>2, <1>4, <1>6, <1>8, <1>10 DEF SettledInv
<1>14. QED
  BY <1>3, <1>8, <1>9, <1>11, <1>12, <1>13, PlannedFrame

LEMMA UndoIInv ==
  ASSUME IInv, NEW i \in Insert, Undo(i) \/ UndoFails(i)
  PROVE  IInv'
<1>1. PICK x \in {"rolled_back", "dirty"}, removed \in SUBSET WrittenFiles(i) :
        /\ statement' = [statement EXCEPT ![i].step = x]
        /\ statement[i].step = "undo"
        /\ files' = files \ removed
        /\ x = "rolled_back" => removed = WrittenFiles(i)
        /\ UNCHANGED <<partition, changes, moved, placed>>
  BY DEF Undo, UndoFails
<1>2. PICK s : s = [statement[i] EXCEPT !.step = x]
  OBVIOUS
<1>3. /\ s \in Statement /\ s.step = x
      /\ s.run = statement[i].run /\ s.rows = statement[i].rows /\ s.path = statement[i].path
      /\ s.planned = statement[i].planned /\ s.directories = statement[i].directories
      /\ s.pending = statement[i].pending /\ s.again = statement[i].again
  BY <1>2, StatementFacts DEF IInv, Statement
<1>4. TypeOK' /\ Goes(i) /\ statement'[i] = s
  BY <1>1, <1>2, <1>3, TypeFrame DEF IInv, TypeOK
<1>5. SamePlan(i) /\ Noted(i)
  BY <1>1, <1>3, <1>4 DEF SamePlan, Goes, Noted, At
<1>6. \A r : InputOf(i, r)' = InputOf(i, r)
  BY <1>4, <1>5, PlanFrame DEF IInv
<1>7. KeepsFiles(i)
  BY <1>1 DEF KeepsFiles, WrittenFiles
<1>8. FilesInv(i)'
  <2>1. \A f \in files : f.insert = i =>
          f \in WrittenFiles(i) /\ f.dir = statement[i].path[f.row] /\ f.run = statement[i].run
    BY DEF IInv, StatementInv, FilesInv, WrittenFiles
  <2>2. QED
    BY <1>1, <1>3, <1>4, <2>1 DEF FilesInv
<1>9. InputInv(i)' /\ SettledInv(i)'
  BY <1>3, <1>4, <1>6 DEF InputInv, SettledInv, IInv, StatementInv
<1>10. QED
  BY <1>4, <1>5, <1>7, <1>8, <1>9, PlannedFrame

-----------------------------------------------------------------------------
(* Steps that change partitions *)

LEMMA OthersIInv ==
  ASSUME IInv, Others
  PROVE  IInv'
<1>1. /\ UNCHANGED <<files, statement>> /\ TypeOK
      /\ partition \in [Values -> Partition \cup {Null}]
      /\ moved \in [Insert -> SUBSET Values] /\ placed \in [Insert -> SUBSET Values]
  BY DEF Others, Place, DropPartition, IInv, TypeOK
<1>2. ASSUME NEW v \in Values, NEW d \in Dir, NEW same \in BOOLEAN, Place(v, d, same)
      PROVE  TypeOK' /\ \A i \in Insert : Noted(i)
  <2>1. PICK n : n = [dir |-> d, same |-> same]
    OBVIOUS
  <2>2. /\ n \in Partition /\ n # Null /\ n.dir = d
        /\ partition' = [partition EXCEPT ![v] = n]
        /\ moved' = [i \in Insert |-> IF partition[v] # Null THEN moved[i] \cup {v} ELSE moved[i]]
        /\ placed' = [i \in Insert |-> placed[i] \cup {v}]
    BY <1>2, <2>1 DEF Place
  <2>3. changes' \in 0 .. MaxChanges
    BY <1>2 DEF Place, IInv, TypeOK
  <2>4. TypeOK'
    BY <1>1, <2>2, <2>3 DEF TypeOK
  <2>5. \A u \in Values \ {v} : partition'[u] = partition[u]
    BY <1>1, <2>2
  <2>6. ASSUME NEW i \in Insert PROVE Noted(i)
    <3>1. /\ moved[i] \subseteq moved'[i] /\ placed[i] \subseteq placed'[i] /\ v \in placed'[i]
          /\ partition[v] # Null => v \in moved'[i]
      BY <1>1, <2>2
    <3>2. QED
      BY <2>5, <3>1 DEF Noted, At
  <2>7. QED
    BY <2>4, <2>6
<1>3. ASSUME NEW v \in Values, DropPartition(v)
      PROVE  TypeOK' /\ \A i \in Insert : Noted(i)
  <2>1. /\ partition' = [partition EXCEPT ![v] = Null]
        /\ moved' = [i \in Insert |-> moved[i] \cup {v}] /\ placed' = placed
    BY <1>3 DEF DropPartition
  <2>2. changes' \in 0 .. MaxChanges
    BY <1>3 DEF DropPartition, IInv, TypeOK
  <2>3. TypeOK'
    BY <1>1, <2>1, <2>2 DEF TypeOK
  <2>4. \A i \in Insert : Noted(i)
    BY <1>1, <2>1 DEF Noted, At
  <2>5. QED
    BY <2>3, <2>4
<1>4. TypeOK' /\ \A i \in Insert : Noted(i)
  BY <1>2, <1>3 DEF Others
<1>5. \A i \in Insert : StatementInv(i)'
  BY <1>1, <1>4, RestFrame DEF IInv
<1>6. QED
  BY <1>4, <1>5 DEF IInv

\* What Glue does with a partition sent to it: the partition may be new.
Creates(p) ==
  /\ p \in Input /\ p.values \in Values /\ p.dir \in Dir
  /\ partition' \in [Values -> Partition \cup {Null}]
  /\ \A v \in Values, d \in Dir : At(v, d) => At(v, d)'
  /\ \A v \in Values, d \in Dir : At(v, d)' => At(v, d) \/ (v = p.values /\ d = p.dir)

\* What it answers: a partition that is not there is one to send again or to look at.
Answers(i, p) ==
  \E s \in Statement :
    /\ statement' = [statement EXCEPT ![i] = s]
    /\ s.step = "register" /\ s.run = statement[i].run /\ s.rows = statement[i].rows
    /\ s.path = statement[i].path /\ s.planned = statement[i].planned
    /\ s.directories = statement[i].directories
    /\ s.pending = statement[i].pending \ {p}
    /\ s.again \in {statement[i].again, statement[i].again \cup {p}}
    /\ s.existing \in {statement[i].existing, statement[i].existing \cup {p}}
    /\ p \in s.again \cup s.existing \/ At(p.values, p.dir)'

LEMMA SendFacts ==
  ASSUME TypeOK, NEW i \in Insert, NEW p \in statement[i].pending, Send(i, p)
  PROVE  Creates(p) /\ Answers(i, p)
<1>1. p \in Input /\ p.values \in Values /\ p.dir \in Dir
  BY StatementFacts DEF Input
<1>2. PICK n : n = [dir |-> p.dir, same |-> TRUE]
  OBVIOUS
<1>3. n \in Partition /\ n # Null /\ n.dir = p.dir
  <2>1. n \in [dir : Dir, same : BOOLEAN] /\ n.dir = p.dir
    BY <1>1, <1>2
  <2>2. TRUE \in (IF ColumnsMayDiffer THEN BOOLEAN ELSE {TRUE})
    OBVIOUS
  <2>3. n \in Partition
    BY <1>1, <1>2, <2>2 DEF Partition
  <2>4. QED
    BY <2>1, <2>3
<1>created. PICK created : created = [partition EXCEPT ![p.values] = n]
  OBVIOUS
<1>has. PICK has \in BOOLEAN : has <=> partition[p.values] # Null
  OBVIOUS
<1>4. PICK answer \in {"created", "exists", "transient"} :
        /\ answer = "created" => ~has
        /\ partition' \in CASE has -> {partition}
                           [] ~has /\ answer = "transient" -> {partition, created}
                           [] OTHER -> {created}
        /\ statement' = [statement EXCEPT
             ![i].pending = @ \ {p},
             ![i].existing = IF answer = "exists" THEN @ \cup {p} ELSE @,
             ![i].again = IF answer = "transient" THEN @ \cup {p} ELSE @]
  BY <1>2, <1>created, <1>has DEF Send
<1>5. statement[i].step = "register"
  BY DEF Send
<1>6. /\ \/ partition' = partition
         \/ (partition[p.values] = Null /\ partition' = [partition EXCEPT ![p.values] = n])
      /\ answer = "created" => partition' = [partition EXCEPT ![p.values] = n]
  <2>1. PICK outcomes : /\ partition' \in outcomes
                        /\ outcomes = CASE has -> {partition}
                                         [] ~has /\ answer = "transient" -> {partition, created}
                                         [] OTHER -> {created}
    BY <1>4, Zenon
  <2>2. CASE has
    <3>1. outcomes = {partition}
      BY <2>1, <2>2
    <3>2. answer # "created"
      BY <1>4, <2>2
    <3>3. QED
      BY <2>1, <3>1, <3>2
  <2>3. CASE ~has /\ answer = "transient"
    <3>1. outcomes = {partition, created}
      BY <2>1, <2>3
    <3>2. QED
      BY <1>created, <1>has, <2>1, <2>3, <3>1
  <2>4. CASE ~has /\ answer # "transient"
    <3>1. outcomes = {created}
      BY <2>1, <2>4
    <3>2. QED
      BY <1>created, <1>has, <2>1, <2>4, <3>1
  <2>5. QED
    BY <1>4, <2>2, <2>3, <2>4
<1>8. partition' \in [Values -> Partition \cup {Null}]
  BY <1>1, <1>3, <1>6 DEF TypeOK
<1>9. \A v \in Values : partition'[v] = partition[v]
                        \/ (v = p.values /\ partition[v] = Null /\ partition'[v] = n)
  <2>1. CASE partition' = partition
    BY <2>1
  <2>2. CASE partition[p.values] = Null /\ partition' = [partition EXCEPT ![p.values] = n]
    BY <1>1, <2>2 DEF TypeOK
  <2>3. QED
    BY <1>6, <2>1, <2>2
<1>10. /\ \A v \in Values, d \in Dir : At(v, d) => At(v, d)'
       /\ \A v \in Values, d \in Dir : At(v, d)' => At(v, d) \/ (v = p.values /\ d = p.dir)
  BY <1>3, <1>9 DEF At
<1>11. answer = "created" => At(p.values, p.dir)'
  <2>1. answer = "created" => partition'[p.values] = n
    BY <1>1, <1>6 DEF TypeOK
  <2>2. QED
    BY <1>3, <2>1 DEF At
<1>12. PICK es, as : /\ es = IF answer = "exists" THEN statement[i].existing \cup {p}
                             ELSE statement[i].existing
                     /\ as = IF answer = "transient" THEN statement[i].again \cup {p}
                             ELSE statement[i].again
  OBVIOUS
<1>13. PICK x, y, s : /\ x = [statement[i] EXCEPT !.pending = statement[i].pending \ {p}]
                      /\ y = [x EXCEPT !.existing = es]
                      /\ s = [y EXCEPT !.again = as]
  OBVIOUS
<1>14. es \in SUBSET Input /\ as \in SUBSET Input
  BY <1>1, <1>12, StatementFacts
<1>15. /\ x \in Statement /\ x.step = "register" /\ x.run = statement[i].run
       /\ x.rows = statement[i].rows /\ x.path = statement[i].path
       /\ x.planned = statement[i].planned /\ x.directories = statement[i].directories
       /\ x.pending = statement[i].pending \ {p}
       /\ x.existing = statement[i].existing /\ x.again = statement[i].again
  BY <1>5, <1>13, StatementFacts DEF Statement
<1>16. /\ y \in Statement /\ y.step = "register" /\ y.run = statement[i].run
       /\ y.rows = statement[i].rows /\ y.path = statement[i].path
       /\ y.planned = statement[i].planned /\ y.directories = statement[i].directories
       /\ y.pending = statement[i].pending \ {p} /\ y.existing = es
       /\ y.again = statement[i].again
  BY <1>13, <1>14, <1>15 DEF Statement
<1>17. /\ s \in Statement /\ s.step = "register" /\ s.run = statement[i].run
       /\ s.rows = statement[i].rows /\ s.path = statement[i].path
       /\ s.planned = statement[i].planned /\ s.directories = statement[i].directories
       /\ s.pending = statement[i].pending \ {p} /\ s.existing = es /\ s.again = as
  <2>1. /\ s.step = y.step /\ s.run = y.run /\ s.rows = y.rows /\ s.path = y.path
        /\ s.planned = y.planned /\ s.directories = y.directories
        /\ s.pending = y.pending /\ s.existing = y.existing /\ s.again = as
    BY <1>13, <1>16 DEF Statement
  <2>2. s \in Statement
    BY <1>13, <1>14, <1>16 DEF Statement
  <2>3. QED
    BY <1>16, <2>1, <2>2
<1>18. statement' = [statement EXCEPT ![i] = s]
  <2>1. statement' = [statement EXCEPT ![i].pending = statement[i].pending \ {p},
                                       ![i].existing = es, ![i].again = as]
    BY <1>4, <1>12 DEF TypeOK
  <2>2. QED
    BY <1>13, <2>1 DEF TypeOK
<1>19. p \in s.again \cup s.existing \/ At(p.values, p.dir)'
  BY <1>11, <1>12, <1>17
<1>20. as \in {statement[i].again, statement[i].again \cup {p}}
       /\ es \in {statement[i].existing, statement[i].existing \cup {p}}
  BY <1>12
<1>21. Creates(p)
  BY <1>1, <1>8, <1>10 DEF Creates
<1>22. Answers(i, p)
  BY <1>17, <1>18, <1>19, <1>20 DEF Answers
<1>23. QED
  BY <1>21, <1>22

LEMMA SendIInv ==
  ASSUME IInv, NEW i \in Insert, NEW p \in statement[i].pending, Send(i, p)
  PROVE  IInv'
<1>1. /\ UNCHANGED <<files, changes, moved>> /\ TypeOK
      /\ placed' = [j \in Insert |-> IF j # i /\ partition' # partition
                                     THEN placed[j] \cup {p.values} ELSE placed[j]]
  BY DEF Send, IInv
<1>2. Creates(p) /\ Answers(i, p)
  BY <1>1, SendFacts
<1>3. /\ p \in Input /\ p.values \in Values /\ p.dir \in Dir
      /\ partition' \in [Values -> Partition \cup {Null}]
      /\ \A v \in Values, d \in Dir : At(v, d) => At(v, d)'
      /\ \A v \in Values, d \in Dir : At(v, d)' => At(v, d) \/ (v = p.values /\ d = p.dir)
  BY <1>2 DEF Creates
<1>4. PICK s \in Statement :
        /\ statement' = [statement EXCEPT ![i] = s]
        /\ s.step = "register" /\ s.run = statement[i].run /\ s.rows = statement[i].rows
        /\ s.path = statement[i].path /\ s.planned = statement[i].planned
        /\ s.directories = statement[i].directories
        /\ s.pending = statement[i].pending \ {p}
        /\ s.again \in {statement[i].again, statement[i].again \cup {p}}
        /\ s.existing \in {statement[i].existing, statement[i].existing \cup {p}}
        /\ p \in s.again \cup s.existing \/ At(p.values, p.dir)'
  BY <1>2 DEF Answers
<1>5. /\ statement'[i] = s /\ statement[i].step = "register"
      /\ \A j \in Insert \ {i} : statement'[j] = statement[j]
  BY <1>1, <1>4 DEF TypeOK, Send
<1>6. TypeOK'
  <2>1. placed' \in [Insert -> SUBSET Values]
    BY <1>1, <1>3 DEF TypeOK
  <2>2. QED
    BY <1>1, <1>3, <1>4, <2>1 DEF TypeOK
<1>7. PICK q \in statement[i].rows : p = InputOf(i, q)
  BY DEF IInv, StatementInv, InputInv
<1>8. ASSUME NEW j \in Insert \ {i} PROVE Noted(j)
  <2>1. placed[j] \subseteq placed'[j]
    BY <1>1
  <2>2. partition' # partition => p.values \in placed'[j]
    BY <1>1
  <2>3. partition' = partition => \A v \in Values, d \in Dir : At(v, d)' => At(v, d)
    BY DEF At
  <2>4. moved'[j] = moved[j]
    BY <1>1
  <2>5. QED
    BY <1>3, <2>1, <2>2, <2>3, <2>4 DEF Noted
<1>9. Noted(i)
  <2>1. placed'[i] = placed[i] /\ moved'[i] = moved[i]
    BY <1>1 DEF TypeOK
  <2>2. p.values = ValuesOf(i, q) /\ p.dir = statement[i].path[q]
    BY <1>7 DEF InputOf
  <2>3. QED
    BY <1>3, <1>7, <2>1, <2>2 DEF Noted
<1>10. SamePlan(i)
  BY <1>4, <1>5 DEF SamePlan
<1>11. /\ RunInv(i)' /\ PlanInv(i)' /\ MovedInv(i)' /\ PlacedInv(i)'
       /\ \A r \in statement[i].rows : Settled(i, r) => Settled(i, r)'
       /\ \A r : InputOf(i, r)' = InputOf(i, r)
       /\ \A rows : Written(i, rows)' = Written(i, rows)
  BY <1>6, <1>9, <1>10, PlanFrame DEF IInv
<1>12. FilesInv(i)'
  BY <1>1, <1>4, <1>5 DEF FilesInv, IInv, StatementInv
<1>13. InputInv(i)'
  <2>1. Written(i, s.rows)' \subseteq files'
    BY <1>1, <1>4, <1>5, <1>11 DEF IInv, StatementInv, InputInv
  <2>2. \A x \in s.pending \cup s.again : x \in statement[i].pending \cup statement[i].again
    BY <1>4
  <2>3. \A x \in s.pending \cup s.again : \E r \in s.rows : x = InputOf(i, r)
    BY <1>4, <2>2 DEF IInv, StatementInv, InputInv
  <2>4. \A x \in s.pending \cup s.again : \E r \in s.rows : x = InputOf(i, r)'
    BY <1>11, <2>3
  <2>5. QED
    BY <1>5, <2>1, <2>4 DEF InputInv
<1>14. ASSUME NEW r \in statement[i].rows
       PROVE  /\ statement[i].path[r] # Null
              /\ Settled(i, r)' \/ InputOf(i, r) \in s.pending \cup s.again \cup s.existing
  <2>1. /\ statement[i].path[r] # Null
        /\ \/ Settled(i, r)
           \/ InputOf(i, r) \in statement[i].pending \cup statement[i].again \cup statement[i].existing
    BY <1>5 DEF IInv, StatementInv, SettledInv
  <2>2. CASE Settled(i, r)
    BY <1>11, <2>1, <2>2
  <2>3. CASE InputOf(i, r) \in (statement[i].pending \ {p}) \cup statement[i].again \cup statement[i].existing
    BY <1>4, <2>1, <2>3
  <2>4. CASE ~Settled(i, r) /\ InputOf(i, r) = p /\ p \in s.again \cup s.existing
    BY <2>1, <2>4
  <2>5. CASE ~Settled(i, r) /\ InputOf(i, r) = p /\ At(p.values, p.dir)'
    <3>1. ValuesOf(i, r) = Canonical[r] /\ Canonical[r] \in Values /\ ReadAs[Canonical[r]] = r
      BY <2>1, <2>5, NewDirectory
    <3>2. PICK v, d : v \in Values /\ v = p.values /\ d = p.dir
      BY <1>3
    <3>3. v = Canonical[r] /\ d = statement'[i].path[r]
      BY <1>4, <1>5, <2>5, <3>1, <3>2 DEF InputOf
    <3>4. At(v, d)'
      BY <2>5, <3>2 DEF At
    <3>5. Settled(i, r)'
      BY <3>1, <3>2, <3>3, <3>4 DEF Settled
    <3>6. QED
      BY <2>1, <3>5
  <2>6. QED
    BY <1>4, <2>1, <2>2, <2>3, <2>4, <2>5
<1>15. SettledInv(i)'
  BY <1>4, <1>5, <1>11, <1>14 DEF SettledInv
<1>16. ASSUME NEW j \in Insert \ {i} PROVE StatementInv(j)'
  <2>1. TypeOK' /\ statement'[j] = statement[j] /\ StatementInv(j) /\ Noted(j)
    BY <1>5, <1>6, <1>8 DEF IInv
  <2>2. QED
    BY <1>1, <2>1, RestFrame
<1>17. QED
  BY <1>6, <1>11, <1>12, <1>13, <1>15, <1>16 DEF IInv, StatementInv

-----------------------------------------------------------------------------
(* The theorems *)

LEMMA InitIInv == Init => IInv
<1> SUFFICES ASSUME Init PROVE IInv
  OBVIOUS
<1>1. Start \in Statement
  BY DEF Start, Statement
<1>2. TypeOK
  BY <1>1 DEF Init, TypeOK
<1>3. ASSUME NEW i \in Insert PROVE StatementInv(i)
  <2>1. /\ statement[i].step = "idle" /\ statement[i].rows = {} /\ files = {}
        /\ statement[i].pending = {} /\ statement[i].again = {}
        /\ \A v \in Values : statement[i].planned[v] = Null
    BY DEF Init, Start
  <2>2. RunInv(i) /\ FilesInv(i) /\ InputInv(i) /\ PlanInv(i)
    BY <2>1 DEF RunInv, FilesInv, InputInv, PlanInv
  <2>3. MovedInv(i) /\ PlacedInv(i) /\ SettledInv(i)
    BY <2>1 DEF MovedInv, PlacedInv, SettledInv
  <2>4. QED
    BY <2>2, <2>3 DEF StatementInv
<1>4. QED
  BY <1>2, <1>3 DEF IInv

LEMMA NextIInv == IInv /\ [Next]_vars => IInv'
<1> SUFFICES ASSUME IInv, [Next]_vars PROVE IInv'
  OBVIOUS
<1>1. ASSUME NEW i \in Insert, Finalize(i) PROVE IInv'
  <2>1. CASE \E p \in statement[i].pending : Send(i, p)
    BY <2>1, SendIInv
  <2>2. CASE SendAgain(i)
    BY <2>2, SendAgainIInv
  <2>3. CASE RegistrationFails(i) \/ LocateFails(i) \/ Succeed(i)
    BY <2>3, StepsIInv
  <2>4. CASE Registered(i)
    BY <2>4, RegisteredIInv
  <2>5. CASE \E p \in statement[i].unplanned : Locate(i, p)
    BY <2>5, LocateIInv
  <2>6. CASE Undo(i) \/ UndoFails(i)
    BY <2>6, UndoIInv
  <2>7. QED
    BY <1>1, <2>1, <2>2, <2>3, <2>4, <2>5, <2>6 DEF Finalize
<1>2. ASSUME NEW i \in Insert, NEW rows \in SUBSET Row, Plan(i, rows) PROVE IInv'
  BY <1>2, PlanIInv
<1>3. ASSUME NEW i \in Insert, CopyFails(i) PROVE IInv'
  BY <1>3, CopyFailsIInv
<1>4. ASSUME NEW i \in Insert, Copy(i) PROVE IInv'
  BY <1>4, CopyIInv
<1>5. CASE Others
  BY <1>5, OthersIInv
<1>6. CASE UNCHANGED vars
  <2>1. TypeOK' /\ files' = files /\ statement' = statement
    BY <1>6 DEF vars, IInv, TypeOK
  <2>2. ASSUME NEW i \in Insert PROVE StatementInv(i)'
    <3>1. Noted(i)
      BY <1>6 DEF vars, Noted, At
    <3>2. QED
      BY <2>1, <3>1, RestFrame DEF IInv
  <2>3. QED
    BY <2>1, <2>2 DEF IInv
<1>7. QED
  BY <1>1, <1>2, <1>3, <1>4, <1>5, <1>6 DEF Next

\* What a statement has planned, written and registered agrees with what Glue and the
\* store hold, at every step of GlueHiveInsert and of other clients.
THEOREM Invariance == Spec => []IInv
<1>1. Init => IInv
  BY InitIInv
<1>2. IInv /\ [Next]_vars => IInv'
  BY NextIInv
<1>3. QED
  BY <1>1, <1>2, PTL DEF Spec

\* The variables keep their types.
THEOREM TypeCorrectness == Spec => []TypeOK
<1>1. IInv => TypeOK
  BY DEF IInv
<1>2. QED
  BY <1>1, Invariance, PTL

\* Rows of an INSERT that succeeded are in files below a partition of their value, for any
\* number of INSERTs and clients that register, move and drop partitions meanwhile.
THEOREM ReadableRows == Spec => []RowsReadable
<1>1. IInv => RowsReadable
  <2> SUFFICES ASSUME IInv, NEW i \in Insert, statement[i].step = "done",
                      NEW r \in statement[i].rows
               PROVE  /\ [insert |-> i, run |-> statement[i].run, row |-> r,
                          dir |-> statement[i].path[r]] \in files
                      /\ \E v \in Values :
                           ReadAs[v] = r /\ (At(v, statement[i].path[r]) \/ v \in moved[i])
    BY DEF RowsReadable
  <2>1. Written(i, statement[i].rows) \subseteq files
    BY DEF IInv, StatementInv, InputInv
  <2>2. [insert |-> i, run |-> statement[i].run, row |-> r,
         dir |-> statement[i].path[r]] \in Written(i, statement[i].rows)
    BY DEF Written
  <2>3. Settled(i, r)
    BY DEF IInv, StatementInv, SettledInv
  <2>4. QED
    BY <2>1, <2>2, <2>3 DEF Settled
<1>2. QED
  BY <1>1, Invariance, PTL

\* An INSERT that was undone and run again has the files of its last run only, so that a
\* row is there once.
THEOREM RowsWrittenOnce == Spec => []RowsOnce
<1>1. IInv => RowsOnce
  <2> SUFFICES ASSUME IInv, NEW i \in Insert, NEW r \in Row
               PROVE  Cardinality({f \in files : f.insert = i /\ f.row = r}) <= 1
    BY DEF RowsOnce
  <2>1. PICK fs : fs = {f \in files : f.insert = i /\ f.row = r}
    OBVIOUS
  <2>2. ASSUME NEW f \in fs
        PROVE  f = [insert |-> i, run |-> statement[i].run, row |-> r,
                    dir |-> statement[i].path[r]]
    <3>1. f \in File /\ f.insert = i /\ f.row = r
      BY <2>1 DEF IInv, TypeOK
    <3>2. f.run = statement[i].run /\ f.dir = statement[i].path[r]
      BY <2>1, <3>1 DEF IInv, StatementInv, FilesInv
    <3>3. f = [insert |-> f.insert, run |-> f.run, row |-> f.row, dir |-> f.dir]
      BY <3>1 DEF File
    <3>4. QED
      BY <3>1, <3>2, <3>3
  <2>3. CASE fs = {}
    BY <2>1, <2>3, FS_EmptySet
  <2>4. ASSUME NEW f \in fs PROVE Cardinality(fs) = 1
    <3>1. fs = {f}
      BY <2>2
    <3>2. Cardinality({f}) = 1
      BY FS_Singleton
    <3>3. QED
      BY <3>1, <3>2
  <2>5. QED
    BY <2>1, <2>3, <2>4
<1>2. QED
  BY <1>1, Invariance, PTL

\* The partitions at a directory an INSERT wrote to, of those nobody else put there.
LEMMA Readers ==
  ASSUME IInv, ~ColumnsMayDiffer, NEW i \in Insert, statement[i].step = "done",
         NEW r \in statement[i].rows, NEW u \in Values \ placed[i], At(u, statement[i].path[r])
  PROVE  \/ statement[i].planned[u] = statement[i].path[r]
         \/ (/\ statement[i].directories[statement[i].path[r]] = Null
             /\ u = Canonical[r])
<1>1. PICK d, x : d = statement[i].path[r] /\ x = statement[i].directories[d]
  OBVIOUS
<1>2. TypeOK /\ r \in Row /\ d \in Dir /\ d # Null /\ At(u, d)
  BY <1>1, PartitionFacts, StatementFacts DEF IInv
<1>3. \A q \in statement[i].rows : statement[i].path[q] = d =>
        \/ x # Null /\ statement[i].planned[x] = d
        \/ x = Null /\ d = Own[q]
  BY <1>1, <1>2 DEF IInv, StatementInv, PlanInv
<1>4. CASE \E q \in statement[i].rows : statement[i].path[q] = d /\ u = ValuesOf(i, q)
  <2>1. PICK q \in statement[i].rows : statement[i].path[q] = d /\ u = ValuesOf(i, q)
    BY <1>4
  <2>2. CASE x # Null
    BY <1>1, <1>3, <2>1, <2>2 DEF ValuesOf
  <2>3. CASE x = Null
    <3>1. u = Canonical[q] /\ Own[q] = d
      BY <1>1, <1>3, <2>1, <2>3 DEF ValuesOf
    <3>2. Own[r] = d /\ q \in Row
      BY <1>1, <1>2, <1>3, <2>3, StatementFacts
    <3>3. q = r
      BY <1>2, <3>1, <3>2
    <3>4. QED
      BY <1>1, <2>3, <3>1, <3>3
  <2>4. QED
    BY <2>2, <2>3
<1>5. CASE statement[i].planned[u] = d
  BY <1>1, <1>5
<1>6. QED
  BY <1>2, <1>4, <1>5 DEF IInv, StatementInv, PlacedInv

\* When partitions have the columns of the table, an INSERT does not put its rows where
\* two partitions read them, unless both were there before it.
THEOREM OneReading ==
  ASSUME ~ColumnsMayDiffer
  PROVE  Spec => []OneReader
<1>1. IInv => OneReader
  <2> SUFFICES ASSUME IInv, NEW i \in Insert, statement[i].step = "done",
                      NEW r \in statement[i].rows,
                      NEW u \in Values \ placed[i], NEW v \in Values \ placed[i],
                      At(u, statement[i].path[r]), At(v, statement[i].path[r]), u # v
               PROVE  /\ statement[i].planned[u] = statement[i].path[r]
                      /\ statement[i].planned[v] = statement[i].path[r]
    BY DEF OneReader
  <2>1. PICK d, x : d = statement[i].path[r] /\ x = statement[i].directories[d]
    OBVIOUS
  <2>2. \A w \in {u, v} : statement[i].planned[w] = d \/ (x = Null /\ w = Canonical[r])
    BY <2>1, Readers
  <2>3. CASE x # Null
    BY <2>1, <2>2, <2>3
  <2>4. CASE x = Null
    <3>1. d # Null
      <4>1. u \in Values /\ TypeOK
        BY DEF IInv
      <4>2. QED
        BY <2>1, <4>1, PartitionFacts
    <3>2. \A w \in Values : statement[i].planned[w] = d => w = Canonical[r]
      <4>1. PlanInv(i)
        BY DEF IInv, StatementInv
      <4>2. QED
        BY <2>1, <2>4, <3>1, <4>1 DEF PlanInv
    <3>3. u = Canonical[r] /\ v = Canonical[r]
      BY <2>2, <3>2
    <3>4. QED
      BY <3>3
  <2>5. QED
    BY <2>3, <2>4
<1>2. QED
  BY <1>1, Invariance, PTL

=============================================================================
