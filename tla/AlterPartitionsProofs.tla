----------------------- MODULE AlterPartitionsProofs -----------------------
(***************************************************************************)
(* The properties of AlterPartitions for any partitions, directories,      *)
(* actions, batch sizes, numbers of attempts and changes by other clients. *)
(*                                                                         *)
(* A statement that nobody gets in the way of finds what its checks saw    *)
(* until it changes that itself (AloneInv, AheadInv), and a repair has     *)
(* registered, has queued, or knows of a partition at every directory      *)
(* (FoundInv).  What an ALTER TABLE has applied and what it has queued     *)
(* amounts to its actions so far, one after the other (StepsInv).          *)
(***************************************************************************)
EXTENDS AlterPartitions, FiniteSetTheorems, SequenceTheorems, TLAPS

Running == s.step \notin {"done", "failed"}
Before  == before.partition

Early   == {"start", "lookup", "check", "found", "list"}

\* What the kinds of statements look like at their steps.
ShapeInv ==
  /\ before \in [partition : [Part -> Location], table : Definition]
  /\ \A i \in DOMAIN s.todo : Parsed(s.todo[i])
  /\ DOMAIN s.checked = DOMAIN s.todo
  /\ s.at \in 1 .. Len(s.todo) + 1
  /\ s.kind = "alter" => s.step \notin {"found", "list"}
  /\ s.kind = "call" => /\ Len(s.todo) = 1 /\ s.step \notin {"lookup", "list"}
                        /\ s.adds = <<>> /\ s.drops = <<>>
                        /\ s.step \in Early => s.at = 1
                        /\ s.step \in {"check", "found"} => s.todo[1].do \in {"rename", "set"}
  /\ s.kind = "repair" => /\ s.todo = <<>> /\ s.step \notin {"lookup", "check", "found"}
                          /\ s.drops = <<>> /\ s.why # "refused"
  /\ s.step = "start" => s.known = {} /\ s.taken = {}
  /\ s.step \in {"start", "lookup"} => s.at = 1
  /\ s.step \in Early => s.adds = <<>> /\ s.drops = <<>> /\ s.batch = {}
  /\ s.step = "done" => s.adds = <<>>

\* The positions of a batch are positions of the queue that is sent.
BatchInv ==
  s.step = "apply" /\ s.batch # {} =>
    \/ FlushAdds /\ s.batch \subseteq 1 .. MinOf(CreateSize, Len(s.adds))
    \/ ~FlushAdds /\ FlushDrops /\ s.batch \subseteq 1 .. MinOf(DeleteSize, Len(s.drops))

\* A definition with the version of Glue's is Glue's as far as others change it.
VersionInv ==
  /\ before.table.rev <= table.rev
  /\ s.bound.version <= table.version
  /\ s.bound.version = table.version => s.bound.rev = table.rev
  /\ Running /\ Alone => s.again \/ s.bound.version = table.version

\* Before it applies anything, a statement changes nothing.
AloneInv ==
  s.step \in Early =>
    /\ \A p \in Part \ touched : partition[p] = Before[p]
    /\ Alone => table = before.table

\* The checks know of the partitions that were looked up whether they exist.
KnownInv ==
  s.kind = "alter" /\ s.step \in {"lookup", "check", "apply"} =>
    /\ IF s.step = "lookup" THEN s.known \cap s.keys = {} ELSE s.keys = {}
    /\ \A p \in Lookups(s.todo) \ (s.keys \cup touched) : p \in s.known <=> Before[p] # Null

\* An action that passed its check can be applied, to what the check saw.
Checked(j) ==
  LET a == s.todo[j]
  IN  /\ a.do = "rename" =>
           /\ a.part \notin touched => Before[a.part] # Null
           /\ a.to \notin s.known /\ s.checked[j] # Null
      /\ a.do = "set" /\ ~a.ok =>
           /\ a.part \notin touched => Before[a.part] # Null
           /\ s.checked[j] # Null

CheckedInv ==
  s.kind = "alter" => \A j \in DOMAIN s.todo :
    (s.step = "check" /\ j < s.at) \/ s.step = "apply" => Checked(j)

\* Actions about different partitions.
Apart == \A i, j \in DOMAIN s.todo : i # j => Names(s.todo[i]) \cap Names(s.todo[j]) = {}

\* What is queued is of an action that was applied.
QueueInv ==
  s.kind = "alter" /\ s.step = "apply" =>
    /\ \A i \in DOMAIN s.adds  : \E j \in 1 .. s.at - 1 : s.adds[i].part \in Names(s.todo[j])
    /\ \A i \in DOMAIN s.drops : \E j \in 1 .. s.at - 1 : s.drops[i] \in Names(s.todo[j])

\* The partitions of the actions ahead are what they were.
AheadInv ==
  s.step = "apply" /\ Apart =>
    \A j \in s.at .. Len(s.todo) : \A p \in Names(s.todo[j]) \ touched : partition[p] = Before[p]

\* A call that has not made its request changed nothing.
CallInv ==
  s.kind = "call" /\ s.step = "apply" /\ s.at = 1 /\ Alone =>
    partition = Before /\ table = before.table

\* A repair leaves the partitions that are there, and knows of those it has listed.
ListedInv ==
  s.kind = "repair" =>
    /\ \A p \in Part \ touched : Before[p] # Null => partition[p] = Before[p]
    /\ \A p \in Part \ touched : Before[p] # Null /\ s.step # "failed" =>
         s.step = "start" \/ p \in s.keys \/ Before[p] \in s.taken
    /\ s.step \in {"apply", "done"} => s.keys = {}
    /\ touched = {} => /\ \A p \in s.known : Exists(p)
                       /\ \A l \in s.taken : \E p \in Part : partition[p] = l

\* It registers the values of a directory at that directory, and none twice.
AddsInv ==
  s.kind = "repair" =>
    /\ \A i \in DOMAIN s.adds : /\ ReadDir[s.adds[i].loc] = s.adds[i].part /\ s.adds[i].loc \notin s.taken
    /\ \A i, j \in DOMAIN s.adds : s.adds[i].part = s.adds[j].part => i = j
    /\ \A p \in Part \ touched : Before[p] = Null /\ Exists(p) =>
         ReadDir[partition[p]] = p /\ partition[p] \notin s.taken

\* It has registered, has queued, or knows of a partition at every directory.
FoundInv ==
  s.kind = "repair" /\ s.step \in {"apply", "done"} /\ touched = {} =>
    /\ \A l \in dirs : ReadDir[l] # Null =>
         \/ Exists(ReadDir[l]) \/ \E p \in Part : partition[p] = l
         \/ \E i \in DOMAIN s.adds : s.adds[i].part = ReadDir[l]
    /\ s.step = "apply" /\ s.batch # {} =>
         \A i \in 1 .. MinOf(CreateSize, Len(s.adds)) \ s.batch : Exists(s.adds[i].part)

IInv ==
  /\ TypeOK /\ ShapeInv /\ BatchInv /\ VersionInv /\ AloneInv /\ KnownInv /\ CheckedInv
  /\ QueueInv /\ AheadInv /\ CallInv /\ ListedInv /\ AddsInv /\ FoundInv /\ FailsAsAWhole

USE ReadDirType, BatchSizes, ChangesType, NullDistinct, FiniteStore, TodoType

\* The elements of a sequence.
LEMMA SeqElements ==
  ASSUME NEW S, NEW q \in Seq(S)
  PROVE  /\ Len(q) \in Nat /\ DOMAIN q = 1 .. Len(q)
         /\ \A i \in DOMAIN q : q[i] \in S
OBVIOUS

\* The action a statement is at.
LEMMA NowFacts ==
  ASSUME TypeOK, ShapeInv, More
  PROVE  /\ s.at \in DOMAIN s.todo /\ s.at \in 1 .. Len(s.todo)
         /\ Now \in Action /\ Parsed(Now)
<1>1. s.todo \in Seq(Action) /\ s.at \in 1 .. Len(s.todo) + 1
  BY DEF TypeOK, Statement, ShapeInv
<1>2. Len(s.todo) \in Nat /\ DOMAIN s.todo = 1 .. Len(s.todo) /\ \A i \in 1 .. Len(s.todo) : s.todo[i] \in Action
  BY <1>1
<1>3. s.at \in 1 .. Len(s.todo)
  BY <1>1, <1>2 DEF More
<1>4. QED
  BY <1>2, <1>3 DEF Now, ShapeInv

LEMMA StatementFacts ==
  ASSUME TypeOK
  PROVE  /\ s \in Statement /\ s.kind \in Kind /\ s.step \in Step /\ s.at \in Nat
         /\ s.todo \in Seq(Action) /\ s.keys \in SUBSET Part /\ s.known \in SUBSET Part
         /\ s.taken \in SUBSET Loc /\ s.checked \in Seq(Location) /\ s.bound \in Definition
         /\ s.again \in BOOLEAN /\ s.adds \in Seq([part : Part, loc : Loc]) /\ s.drops \in Seq(Part)
         /\ s.batch \in SUBSET Nat /\ s.attempt \in 0 .. MaxAttempts
         /\ s.why \in {"none", "refused", "glue"}
BY DEF TypeOK, Statement

-----------------------------------------------------------------------------
(* What a step leaves of what it does not change *)

KeepsPlan   == s'.kind = s.kind /\ s'.todo = s.todo
KeepsFound  == s'.keys = s.keys /\ s'.known = s.known /\ s'.taken = s.taken
KeepsBound  == s'.bound = s.bound /\ s'.again = s.again
KeepsQueues == s'.adds = s.adds /\ s'.drops = s.drops /\ s'.batch = s.batch

\* Nobody else does something.
Own == UNCHANGED <<dirs, before, touched, changes>>

LEMMA BeforeFacts ==
  ASSUME TypeOK, ShapeInv
  PROVE  /\ Before \in [Part -> Location] /\ before.table \in Definition
         /\ partition \in [Part -> Location] /\ table \in Definition
         /\ touched = {} /\ (\A p \in Part \ touched : partition[p] = Before[p]) =>
              partition = Before
<1>1. /\ Before \in [Part -> Location] /\ before.table \in Definition
      /\ partition \in [Part -> Location] /\ table \in Definition
  BY DEF TypeOK, ShapeInv, Before
<1>2. QED
  BY <1>1

LEMMA VersionFrame ==
  ASSUME IInv, Running, KeepsBound, Own, UNCHANGED table
  PROVE  VersionInv' /\ (Alone' <=> Alone)
BY DEF IInv, VersionInv, KeepsBound, Own, Alone

\* An ALTER TABLE or a call has no part in what is said of repairs.
LEMMA RepairFrame ==
  ASSUME KeepsPlan, s.kind # "repair"
  PROVE  ListedInv' /\ AddsInv' /\ FoundInv'
BY DEF KeepsPlan, ListedInv, AddsInv, FoundInv

\* Nor has a call or a repair one in what is said of the checks of an ALTER TABLE.
LEMMA AlterFrame ==
  ASSUME KeepsPlan, s.kind # "alter"
  PROVE  KnownInv' /\ CheckedInv' /\ QueueInv'
BY DEF KeepsPlan, KnownInv, CheckedInv, QueueInv

\* A step that ends the statement.
LEMMA EndIInv ==
  ASSUME IInv, TypeOK', Own, KeepsPlan, KeepsBound, s'.step \in {"done", "failed"},
         s'.at \in 1 .. Len(s.todo) + 1, s'.checked = s.checked, s'.drops = s.drops,
         s'.adds = s.adds, s'.step = "done" => s.adds = <<>>,
         s'.why # "refused" \/ s.kind # "repair",
         before.table.rev <= table'.rev, s.bound.version <= table'.version,
         s.bound.version = table'.version => s.bound.rev = table'.rev,
         s.kind = "repair" => ListedInv' /\ AddsInv' /\ FoundInv', FailsAsAWhole'
  PROVE  IInv'
<1>1. ShapeInv'
  BY DEF IInv, ShapeInv, KeepsPlan, Own, Early
<1>2. BatchInv' /\ VersionInv' /\ AloneInv'
  BY DEF BatchInv, VersionInv, AloneInv, Own, KeepsBound, Running, Early
<1>3. KnownInv' /\ CheckedInv' /\ QueueInv' /\ AheadInv' /\ CallInv'
  BY DEF KnownInv, CheckedInv, QueueInv, AheadInv, CallInv
<1>4. ListedInv' /\ AddsInv' /\ FoundInv'
  BY RepairFrame
<1>5. QED
  BY <1>1, <1>2, <1>3, <1>4 DEF IInv

\* To refuse the statement now is to refuse it as a whole.
Refusable ==
  Alone /\ Apart /\ (\A a \in ToSet(s.todo) : ~(a.do = "set" /\ a.ok)) =>
    partition = Before /\ table = before.table

LEMMA EarlyRefusable ==
  ASSUME IInv, s.step \in Early
  PROVE  Alone => partition = Before /\ table = before.table
<1> SUFFICES ASSUME Alone PROVE partition = Before /\ table = before.table
  OBVIOUS
<1>1. touched = {} /\ table = before.table /\ \A p \in Part \ touched : partition[p] = Before[p]
  BY DEF IInv, AloneInv, Alone
<1>2. QED
  BY <1>1, BeforeFacts DEF IInv

\* A request that changes nothing fails or is refused.
LEMMA FailsIInv ==
  ASSUME IInv, Running, Reads, Refused \/ FailsInGlue,
         Refused => s.kind # "repair" /\ Refusable
  PROVE  IInv'
<1>1. PICK w \in {"refused", "glue"} :
        /\ s' = [s EXCEPT !.step = "failed", !.why = w]
        /\ w = "refused" => s.kind # "repair" /\ Refusable
  BY DEF Refused, FailsInGlue
<1>2. TypeOK
  BY DEF IInv
<1>3. /\ KeepsPlan /\ KeepsBound /\ KeepsQueues /\ KeepsFound
      /\ s'.step = "failed" /\ s'.why = w /\ s'.at = s.at /\ s'.checked = s.checked
      /\ s' \in Statement
  BY <1>1, <1>2, StatementFacts DEF Statement, Step, KeepsPlan, KeepsBound, KeepsQueues, KeepsFound
<1>4. TypeOK'
  BY <1>2, <1>3 DEF TypeOK, Reads, AsBefore
<1>5. Own /\ UNCHANGED <<partition, table>>
  BY DEF Reads, AsBefore, Own
<1>6. /\ before.table.rev <= table'.rev /\ s.bound.version <= table'.version
      /\ s.bound.version = table'.version => s.bound.rev = table'.rev
      /\ s.at \in 1 .. Len(s.todo) + 1
  BY <1>5 DEF IInv, VersionInv, ShapeInv
<1>7. ListedInv' /\ AddsInv' /\ FoundInv'
  <2>1. ListedInv'
    BY <1>3, <1>5 DEF IInv, ListedInv, Exists, Before, Own, KeepsPlan, KeepsFound, Running
  <2>2. AddsInv'
    BY <1>3, <1>5 DEF IInv, AddsInv, Exists, Before, Own, KeepsPlan, KeepsFound, KeepsQueues
  <2>3. FoundInv'
    BY <1>3 DEF FoundInv
  <2>4. QED
    BY <2>1, <2>2, <2>3
<1>8. FailsAsAWhole'
  BY <1>1, <1>3, <1>5 DEF Refusable, FailsAsAWhole, Apart, Alone, Own, KeepsPlan, Before
<1>9. QED
  BY <1>1, <1>3, <1>4, <1>5, <1>6, <1>7, <1>8, EndIInv DEF KeepsQueues

LEMMA GlueFails ==
  ASSUME TypeOK, FailsInGlue
  PROVE  ~Refused
<1>1. s'.why = "glue"
  BY StatementFacts DEF FailsInGlue, Statement
<1>2. Refused => s'.why = "refused"
  BY StatementFacts DEF Refused, Statement
<1>3. QED
  BY <1>1, <1>2

-----------------------------------------------------------------------------
(* Bind, and the checks *)

LEMMA NamesFacts ==
  ASSUME TypeOK, NEW j \in DOMAIN s.todo
  PROVE  s.todo[j] \in Action /\ Names(s.todo[j]) \subseteq Part
<1>1. s.todo[j] \in Action
  BY StatementFacts
<1>2. QED
  BY <1>1 DEF Names, Action

LEMMA LookupsFacts ==
  ASSUME TypeOK, ShapeInv
  PROVE  /\ Lookups(s.todo) \subseteq Part
         /\ \A j \in DOMAIN s.todo : s.todo[j].do = "rename" => s.todo[j].to \in Lookups(s.todo)
<1>1. \A j \in DOMAIN s.todo : s.todo[j] \in ToSet(s.todo) /\ Parsed(s.todo[j])
  BY DEF ToSet, ShapeInv
<1>2. \A a \in ToSet(s.todo) : Parsed(a)
  BY DEF ToSet, ShapeInv
<1>3. QED
  BY <1>1, <1>2 DEF Lookups, Parsed

\* A step before the statement applies anything.
LEMMA EarlyIInv ==
  ASSUME IInv, Reads, KeepsPlan, KeepsBound, KeepsQueues, s.kind # "repair", s.step \in Early,
         s'.step \in Early \cup {"apply"}, s' \in Statement, ShapeInv',
         s.kind = "alter" => KnownInv' /\ CheckedInv'
  PROVE  IInv'
<1>1. TypeOK /\ ShapeInv
  BY DEF IInv
<1>2. Own /\ UNCHANGED <<partition, table>> /\ TypeOK'
  BY <1>1 DEF Reads, AsBefore, Own, TypeOK
<1>3. VersionInv' /\ (Alone' <=> Alone)
  BY <1>2, VersionFrame DEF Early, Running
<1>4. s'.batch = {} /\ s'.adds = <<>> /\ s'.drops = <<>> /\ BatchInv'
  BY <1>1 DEF ShapeInv, KeepsQueues, BatchInv
<1>5. AloneInv'
  BY <1>2, <1>3 DEF IInv, AloneInv, Own, Before
<1>6. KnownInv' /\ CheckedInv' /\ ListedInv' /\ AddsInv' /\ FoundInv'
  BY AlterFrame, RepairFrame
<1>7. QueueInv'
  BY <1>4 DEF QueueInv
<1>8. AheadInv'
  <2>1. \A p \in Part \ touched : partition[p] = Before[p]
    BY DEF IInv, AloneInv
  <2>2. \A j \in DOMAIN s.todo : Names(s.todo[j]) \subseteq Part
    BY <1>1, NamesFacts
  <2>3. DOMAIN s.todo = 1 .. Len(s.todo) /\ s'.at \in Nat /\ s'.at >= 1 /\ Len(s.todo) \in Nat
    BY <1>1, StatementFacts DEF ShapeInv, KeepsPlan
  <2>4. ASSUME NEW j \in s'.at .. Len(s.todo), NEW p \in Names(s.todo[j]) \ touched
        PROVE  partition[p] = Before[p]
    BY <2>1, <2>2, <2>3
  <2>5. QED
    BY <1>2, <2>4 DEF AheadInv, KeepsPlan, Own, Before
<1>9. CallInv'
  BY <1>2, <1>3, EarlyRefusable DEF CallInv, Own, Before
<1>10. FailsAsAWhole'
  BY DEF FailsAsAWhole, Early
<1>11. QED
  BY <1>2, <1>3, <1>4, <1>5, <1>6, <1>7, <1>8, <1>9, <1>10 DEF IInv

\* A step of a repair.
LEMMA RepairIInv ==
  ASSUME IInv, s.kind = "repair", Running, Own, UNCHANGED table, KeepsPlan, KeepsBound,
         s'.step # "failed", TypeOK', ShapeInv', BatchInv', AloneInv',
         ListedInv', AddsInv', FoundInv'
  PROVE  IInv'
<1>1. VersionInv'
  BY VersionFrame
<1>2. KnownInv' /\ CheckedInv' /\ QueueInv'
  BY AlterFrame
<1>3. s'.kind = "repair" /\ s'.todo = <<>> /\ s'.at >= 1 /\ s'.at \in Nat /\ Len(s'.todo) = 0
  BY DEF IInv, ShapeInv, KeepsPlan
<1>4. AheadInv' /\ CallInv'
  BY <1>3 DEF AheadInv, CallInv
<1>5. FailsAsAWhole'
  BY DEF FailsAsAWhole
<1>6. QED
  BY <1>1, <1>2, <1>4, <1>5 DEF IInv

LEMMA BindIInv ==
  ASSUME IInv, Bind
  PROVE  IInv'
<1>1. TypeOK /\ ShapeInv /\ s.step = "start" /\ Reads
  BY DEF IInv, Bind
<1>2. CASE s.kind = "alter"
  <2>1. s' = [s EXCEPT !.step = "lookup", !.keys = Lookups(s.todo)]
    BY <1>2 DEF Bind
  <2>2. PICK ks \in SUBSET Part : ks = Lookups(s.todo)
    BY <1>1, LookupsFacts
  <2>3. /\ KeepsPlan /\ KeepsBound /\ KeepsQueues /\ s' \in Statement /\ s'.step = "lookup"
        /\ s'.keys = ks /\ s'.known = s.known /\ s'.taken = s.taken
        /\ s'.checked = s.checked /\ s'.at = s.at /\ s'.why = s.why
    BY <1>1, <2>1, <2>2, StatementFacts DEF Statement, Step, KeepsPlan, KeepsBound, KeepsQueues
  <2>4. ShapeInv'
    BY <1>1, <1>2, <2>3 DEF ShapeInv, Reads, AsBefore, KeepsPlan, KeepsQueues, Early
  <2>5. KnownInv' /\ CheckedInv'
    BY <1>1, <2>2, <2>3 DEF KnownInv, CheckedInv, ShapeInv, KeepsPlan
  <2>6. QED
    BY <1>1, <1>2, <2>3, <2>4, <2>5, EarlyIInv DEF Early
<1>3. CASE s.kind = "call"
  <2>1. PICK x \in {"check", "apply"} :
          s' = [s EXCEPT !.step = x] /\ (x = "check" => Now.do \in {"rename", "set"})
    BY <1>3 DEF Bind
  <2>2. /\ KeepsPlan /\ KeepsBound /\ KeepsQueues /\ s' \in Statement /\ s'.step = x
        /\ s'.checked = s.checked /\ s'.at = s.at /\ s'.why = s.why
        /\ s'.known = s.known /\ s'.taken = s.taken
    BY <1>1, <2>1, StatementFacts DEF Statement, Step, KeepsPlan, KeepsBound, KeepsQueues
  <2>3. ShapeInv'
    BY <1>1, <1>3, <2>1, <2>2 DEF ShapeInv, Now, Reads, AsBefore, KeepsPlan, KeepsQueues, Early
  <2>4. QED
    BY <1>1, <1>3, <2>2, <2>3, EarlyIInv DEF Early
<1>4. CASE s.kind = "repair"
  <2>1. s' = [s EXCEPT !.step = "list", !.keys = Part]
    BY <1>4 DEF Bind
  <2>2. /\ KeepsPlan /\ KeepsBound /\ KeepsQueues /\ s' \in Statement /\ s'.step = "list"
        /\ s'.checked = s.checked /\ s'.at = s.at /\ s'.why = s.why
        /\ s'.keys = Part /\ s'.known = s.known /\ s'.taken = s.taken
    BY <1>1, <2>1, StatementFacts DEF Statement, Step, KeepsPlan, KeepsBound, KeepsQueues
  <2>3. ShapeInv' /\ BatchInv'
    BY <1>1, <1>4, <2>2 DEF ShapeInv, BatchInv, Reads, AsBefore, KeepsPlan, KeepsQueues, Early
  <2>4. Own /\ UNCHANGED <<partition, table>> /\ TypeOK'
    BY <1>1, <2>2 DEF Reads, AsBefore, Own, TypeOK
  <2>5. AloneInv'
    BY <1>1, <2>2, <2>4 DEF IInv, AloneInv, Own, Before, Early, Alone
  <2>6. ListedInv'
    BY <1>1, <2>2, <2>4 DEF IInv, ListedInv, KeepsPlan, Own, Before, Exists, ShapeInv
  <2>7. AddsInv'
    BY <1>1, <2>2, <2>4 DEF IInv, AddsInv, KeepsPlan, KeepsQueues, Own, Before, Exists
  <2>8. FoundInv'
    BY <2>2 DEF FoundInv
  <2>9. QED
    BY <1>1, <1>4, <2>2, <2>3, <2>4, <2>5, <2>6, <2>7, <2>8, RepairIInv DEF Running
<1>5. QED
  BY <1>1, <1>2, <1>3, <1>4, StatementFacts DEF Kind

LEMMA BatchGetIInv ==
  ASSUME IInv, BatchGet
  PROVE  IInv'
<1>1. TypeOK /\ ShapeInv /\ s.step = "lookup" /\ s.kind = "alter" /\ Reads /\ Running
  BY StatementFacts DEF IInv, BatchGet, ShapeInv, Kind, Running
<1>2. CASE s.keys = {} /\ s' = [s EXCEPT !.step = "check", !.attempt = 0]
  <2>1. 0 \in 0 .. MaxAttempts
    OBVIOUS
  <2>2. /\ KeepsPlan /\ KeepsBound /\ KeepsQueues /\ KeepsFound /\ s' \in Statement
        /\ s'.step = "check" /\ s'.checked = s.checked /\ s'.at = s.at /\ s'.why = s.why
    BY <1>1, <1>2, <2>1, StatementFacts
    DEF Statement, Step, KeepsPlan, KeepsBound, KeepsQueues, KeepsFound
  <2>3. ShapeInv'
    BY <1>1, <2>2 DEF ShapeInv, Reads, AsBefore, KeepsPlan, KeepsQueues, KeepsFound, Early
  <2>4. KnownInv'
    BY <1>1, <1>2, <2>2 DEF IInv, KnownInv, KeepsPlan, KeepsFound, Reads, AsBefore, Before
  <2>5. CheckedInv'
    <3>1. s.at = 1 /\ \A j \in DOMAIN s.todo : ~(j < 1)
      BY <1>1, StatementFacts DEF ShapeInv
    <3>2. QED
      BY <2>2, <3>1 DEF CheckedInv, KeepsPlan
  <2>6. QED
    BY <1>1, <2>2, <2>3, <2>4, <2>5, EarlyIInv DEF Early
<1>3. CASE /\ s.keys # {} /\ s.attempt < MaxAttempts
           /\ \E got \in SUBSET s.keys :
                s' = [s EXCEPT !.known = @ \cup {p \in got : Exists(p)}, !.keys = @ \ got,
                               !.attempt = NextAttempt(got, @)]
  <2>1. PICK got \in SUBSET s.keys :
          s' = [s EXCEPT !.known = @ \cup {p \in got : Exists(p)}, !.keys = @ \ got,
                         !.attempt = NextAttempt(got, @)]
    BY <1>3
  <2>2. NextAttempt(got, s.attempt) \in 0 .. MaxAttempts
    BY <1>1, <1>3, StatementFacts DEF NextAttempt
  <2>3. PICK n \in 0 .. MaxAttempts, ks \in SUBSET Part, kn \in SUBSET Part :
          /\ n = NextAttempt(got, s.attempt) /\ ks = s.keys \ got
          /\ kn = s.known \cup {p \in got : Exists(p)}
    BY <1>1, <2>2, StatementFacts
  <2>4. s' = [s EXCEPT !.known = kn, !.keys = ks, !.attempt = n]
    BY <2>1, <2>3
  <2>5. /\ KeepsPlan /\ KeepsBound /\ KeepsQueues /\ s' \in Statement
        /\ s'.step = "lookup" /\ s'.checked = s.checked /\ s'.at = s.at /\ s'.why = s.why
        /\ s'.keys = ks /\ s'.known = kn /\ s'.taken = s.taken
    BY <1>1, <2>4, StatementFacts DEF Statement, Step, KeepsPlan, KeepsBound, KeepsQueues
  <2>6. ShapeInv'
    BY <1>1, <2>5 DEF ShapeInv, Reads, AsBefore, KeepsPlan, KeepsQueues, Early
  <2>7. CheckedInv'
    BY <2>5 DEF CheckedInv
  <2>8. KnownInv'
    <3>1. \A p \in got : p \notin touched => (Exists(p) <=> Before[p] # Null)
      BY <1>1, StatementFacts DEF IInv, AloneInv, Exists, Early
    <3>2. ASSUME NEW p \in Lookups(s.todo) \ (ks \cup touched)
          PROVE  p \in kn <=> Before[p] # Null
      <4>1. CASE p \in got
        <5>1. p \notin s.known
          BY <1>1, <4>1 DEF IInv, KnownInv
        <5>2. QED
          BY <2>3, <3>1, <3>2, <4>1, <5>1
      <4>2. CASE p \notin got
        <5>1. p \notin s.keys
          BY <2>3, <3>2, <4>2
        <5>2. p \in s.known <=> Before[p] # Null
          BY <1>1, <3>2, <5>1 DEF IInv, KnownInv
        <5>3. QED
          BY <2>3, <4>2, <5>2
      <4>3. QED
        BY <4>1, <4>2
    <3>3. kn \cap ks = {}
      BY <1>1, <2>3 DEF IInv, KnownInv
    <3>4. QED
      BY <1>1, <2>5, <3>2, <3>3 DEF KnownInv, KeepsPlan, Reads, AsBefore, Before
  <2>9. QED
    BY <1>1, <2>5, <2>6, <2>7, <2>8, EarlyIInv DEF Early
<1>4. CASE FailsInGlue
  BY <1>1, <1>4, FailsIInv, GlueFails
<1>5. QED
  BY <1>2, <1>3, <1>4 DEF BatchGet

\* What the check of an action finds.
LEMMA PassesFacts ==
  ASSUME IInv, s.kind = "alter", s.step = "check", More, Passes(Now), NEW c \in Location,
         c = IF Rewrites(Now) THEN partition[Now.part] ELSE Null
  PROVE  /\ Now.do = "rename" =>
              /\ Now.part \notin touched => Before[Now.part] # Null
              /\ Now.to \notin s.known /\ c # Null
         /\ Now.do = "set" /\ ~Now.ok =>
              /\ Now.part \notin touched => Before[Now.part] # Null
              /\ c # Null
<1>1. Now \in Action /\ Parsed(Now)
  BY NowFacts DEF IInv
<1>2. Now.do # "table" => Now.part \in Part
  BY <1>1 DEF Parsed
<1>3. Now.do # "table" /\ Now.part \notin touched => partition[Now.part] = Before[Now.part]
  BY <1>2 DEF IInv, AloneInv, Early
<1>4. Now.do = "rename" => Exists(Now.part) /\ Now.to \notin s.known
  BY DEF Passes, FreeName
<1>5. Now.do = "set" /\ ~Now.ok => Exists(Now.part)
  BY DEF Passes
<1>6. QED
  BY <1>3, <1>4, <1>5 DEF Exists, Rewrites

LEMMA CheckIInv ==
  ASSUME IInv, Check
  PROVE  IInv'
<1>1. TypeOK /\ ShapeInv /\ s.kind = "alter" /\ s.step = "check" /\ Reads /\ Running
  BY DEF IInv, Check, Running
<1>2. CASE /\ More /\ Passes(Now)
           /\ s' = [s EXCEPT !.at = @ + 1,
                             !.checked[s.at] = IF Rewrites(Now) THEN partition[Now.part] ELSE Null]
  <2>1. PICK c \in Location : c = IF Rewrites(Now) THEN partition[Now.part] ELSE Null
    <3>1. Now.do # "table" => Now.part \in Part
      BY <1>1, <1>2, NowFacts DEF Parsed
    <3>2. Rewrites(Now) => partition[Now.part] \in Location
      BY <1>1, <3>1, BeforeFacts DEF Rewrites
    <3>3. Null \in Location
      BY DEF Location
    <3>4. QED
      BY <3>2, <3>3
  <2>2. s.at \in DOMAIN s.todo /\ s.at \in 1 .. Len(s.todo) /\ s.at + 1 \in Nat
        /\ s.at + 1 \in 1 .. Len(s.todo) + 1
    <3>1. s.at \in DOMAIN s.todo /\ s.at \in 1 .. Len(s.todo)
      BY <1>1, <1>2, NowFacts
    <3>2. s.at \in Nat /\ Len(s.todo) \in Nat
      BY <1>1, StatementFacts, SeqElements
    <3>3. QED
      BY <3>1, <3>2
  <2>3. PICK cs : cs = [s.checked EXCEPT ![s.at] = c]
    OBVIOUS
  <2>4. /\ cs \in Seq(Location) /\ DOMAIN cs = DOMAIN s.checked /\ cs[s.at] = c
        /\ \A j \in DOMAIN s.todo : j # s.at => cs[j] = s.checked[j]
    <3>1. s.checked \in Seq(Location) /\ s.at \in 1 .. Len(s.checked)
      BY <1>1, <2>2, StatementFacts DEF ShapeInv
    <3>2. cs \in Seq(Location) /\ Len(cs) = Len(s.checked)
      BY <2>3, <3>1, ExceptSeq
    <3>3. DOMAIN cs = DOMAIN s.checked
      BY <2>3
    <3>4. QED
      BY <1>1, <2>2, <2>3, <3>2, <3>3 DEF ShapeInv
  <2>5. PICK n \in Nat : n = s.at + 1
    BY <2>2
  <2>6. s' = [s EXCEPT !.at = n, !.checked = cs]
    BY <1>2, <2>1, <2>3, <2>5
  <2>7. /\ KeepsPlan /\ KeepsBound /\ KeepsQueues /\ KeepsFound /\ s' \in Statement
        /\ s'.step = "check" /\ s'.checked = cs /\ s'.at = n /\ s'.why = s.why
    BY <1>1, <2>4, <2>6, StatementFacts
    DEF Statement, KeepsPlan, KeepsBound, KeepsQueues, KeepsFound
  <2>8. ShapeInv'
    BY <1>1, <2>2, <2>4, <2>5, <2>7
    DEF ShapeInv, Reads, AsBefore, KeepsPlan, KeepsQueues, KeepsFound, Early
  <2>9. KnownInv'
    BY <1>1, <2>7 DEF IInv, KnownInv, KeepsPlan, KeepsFound, Reads, AsBefore, Before
  <2>10. CheckedInv'
    <3>1. ASSUME NEW j \in DOMAIN s.todo, j < n PROVE Checked(j)'
      <4>1. /\ s'.todo = s.todo /\ s'.known = s.known /\ touched' = touched /\ before' = before
        BY <1>1, <2>7 DEF KeepsPlan, KeepsFound, Reads, AsBefore
      <4>2. CASE j = s.at
        <5>1. /\ Now.do = "rename" =>
                   /\ Now.part \notin touched => Before[Now.part] # Null
                   /\ Now.to \notin s.known /\ c # Null
              /\ Now.do = "set" /\ ~Now.ok =>
                   /\ Now.part \notin touched => Before[Now.part] # Null
                   /\ c # Null
          BY <1>1, <1>2, <2>1, PassesFacts
        <5>2. Now = s.todo[j] /\ cs[j] = c
          BY <2>4, <4>2 DEF Now
        <5>3. QED
          BY <2>7, <4>1, <5>1, <5>2 DEF Checked, Before
      <4>3. CASE j < s.at
        <5>1. Checked(j)
          BY <1>1, <4>3 DEF IInv, CheckedInv
        <5>2. cs[j] = s.checked[j]
          BY <2>2, <2>4, <4>3
        <5>3. QED
          BY <2>7, <4>1, <5>1, <5>2 DEF Checked, Before
      <4>4. QED
        <5>1. s.at \in Nat /\ j \in Nat
          BY <1>1, StatementFacts, SeqElements
        <5>2. j = s.at \/ j < s.at
          BY <2>5, <3>1, <5>1
        <5>3. QED
          BY <4>2, <4>3, <5>2
    <3>2. QED
      BY <2>7, <3>1 DEF CheckedInv, KeepsPlan
  <2>11. QED
    BY <1>1, <2>7, <2>8, <2>9, <2>10, EarlyIInv DEF Early
<1>3. CASE Refused
  <2>1. Refusable
    BY <1>1, EarlyRefusable DEF Refusable, Early
  <2>2. QED
    BY <1>1, <1>3, <2>1, FailsIInv
<1>4. CASE ~More /\ s' = [s EXCEPT !.step = "apply", !.at = 1]
  <2>1. /\ KeepsPlan /\ KeepsBound /\ KeepsQueues /\ KeepsFound /\ s' \in Statement
        /\ s'.step = "apply" /\ s'.checked = s.checked /\ s'.at = 1 /\ s'.why = s.why
    BY <1>1, <1>4, StatementFacts
    DEF Statement, Step, KeepsPlan, KeepsBound, KeepsQueues, KeepsFound
  <2>2. ShapeInv'
    <3>1. 1 \in 1 .. Len(s.todo) + 1
      BY <1>1, StatementFacts
    <3>2. QED
      BY <1>1, <2>1, <3>1
      DEF ShapeInv, Reads, AsBefore, KeepsPlan, KeepsQueues, KeepsFound, Early
  <2>3. KnownInv'
    BY <1>1, <2>1 DEF IInv, KnownInv, KeepsPlan, KeepsFound, Reads, AsBefore, Before
  <2>4. CheckedInv'
    <3>1. \A j \in DOMAIN s.todo : j < s.at
      BY <1>1, <1>4, StatementFacts DEF ShapeInv, More
    <3>2. \A j \in DOMAIN s.todo : Checked(j)
      BY <1>1, <3>1 DEF IInv, CheckedInv
    <3>3. QED
      BY <1>1, <2>1, <3>2 DEF CheckedInv, Checked, KeepsPlan, KeepsFound, Reads, AsBefore, Before
  <2>5. QED
    BY <1>1, <2>1, <2>2, <2>3, <2>4, EarlyIInv DEF Early
<1>5. QED
  BY <1>2, <1>3, <1>4 DEF Check

\* The checks of the functions that change one partition.
LEMMA CallChecksIInv ==
  ASSUME IInv, CallFetch \/ CallFree
  PROVE  IInv'
<1>1. TypeOK /\ ShapeInv /\ s.kind = "call" /\ s.step \in {"check", "found"} /\ Reads /\ Running
  BY DEF IInv, CallFetch, CallFree, Running
<1>2. s.at = 1 /\ Len(s.todo) = 1 /\ s.step \in Early /\ DOMAIN s.todo = {1}
  BY <1>1, StatementFacts DEF ShapeInv, Early
<1>3. CASE Refused
  <2>1. Refusable
    BY <1>2, EarlyRefusable DEF Refusable
  <2>2. QED
    BY <1>1, <1>3, <2>1, FailsIInv
<1>4. CASE CallFetch /\ Exists(Now.part)
  <2>1. PICK x \in {"found", "apply"} :
          s' = [s EXCEPT !.step = x, !.checked[1] = partition[Now.part]]
    BY <1>4 DEF CallFetch
  <2>2. 1 \in DOMAIN s.todo /\ Now = s.todo[1] /\ Now.part \in Part
    BY <1>1, <1>2 DEF ShapeInv, Now, Parsed
  <2>3. PICK c \in Location, cs \in Seq(Location) :
          /\ c = partition[Now.part] /\ cs = [s.checked EXCEPT ![1] = c]
          /\ DOMAIN cs = DOMAIN s.checked
    <3>1. partition[Now.part] \in Location
      BY <1>1, <2>2, BeforeFacts
    <3>2. s.checked \in Seq(Location) /\ 1 \in 1 .. Len(s.checked)
      BY <1>1, <1>2, StatementFacts DEF ShapeInv
    <3>3. [s.checked EXCEPT ![1] = partition[Now.part]] \in Seq(Location)
      BY <3>1, <3>2, ExceptSeq
    <3>4. QED
      BY <3>1, <3>3
  <2>4. s' = [s EXCEPT !.step = x, !.checked = cs]
    BY <2>1, <2>3
  <2>5. /\ KeepsPlan /\ KeepsBound /\ KeepsQueues /\ KeepsFound /\ s' \in Statement
        /\ s'.step = x /\ s'.checked = cs /\ s'.at = s.at /\ s'.why = s.why
    BY <1>1, <2>4, StatementFacts
    DEF Statement, Step, KeepsPlan, KeepsBound, KeepsQueues, KeepsFound
  <2>6. ShapeInv'
    BY <1>1, <2>3, <2>5 DEF ShapeInv, Reads, AsBefore, KeepsPlan, KeepsQueues, Early
  <2>7. QED
    BY <1>1, <1>2, <2>5, <2>6, EarlyIInv DEF Early
<1>5. CASE s' = [s EXCEPT !.step = "apply"]
  <2>1. /\ KeepsPlan /\ KeepsBound /\ KeepsQueues /\ KeepsFound /\ s' \in Statement
        /\ s'.step = "apply" /\ s'.checked = s.checked /\ s'.at = s.at /\ s'.why = s.why
    BY <1>1, <1>5, StatementFacts
    DEF Statement, Step, KeepsPlan, KeepsBound, KeepsQueues, KeepsFound
  <2>2. ShapeInv'
    BY <1>1, <2>1 DEF ShapeInv, Reads, AsBefore, KeepsPlan, KeepsQueues, Early
  <2>3. QED
    BY <1>1, <1>2, <2>1, <2>2, EarlyIInv
<1>6. QED
  BY <1>3, <1>4, <1>5 DEF CallFetch, CallFree

-----------------------------------------------------------------------------
(* Applying the actions: what only reads *)

\* A step of an ALTER TABLE or a call that goes on.
LEMMA ApplyIInv ==
  ASSUME IInv, s.kind # "repair", s.step = "apply", s'.step = "apply", Own, KeepsPlan, KeepsFound,
         \A j \in DOMAIN s.todo : s.checked[j] # Null => s'.checked[j] # Null,
         TypeOK', ShapeInv', BatchInv', VersionInv', QueueInv', AheadInv', CallInv'
  PROVE  IInv'
<1>1. AloneInv' /\ ListedInv' /\ AddsInv' /\ FoundInv'
  BY RepairFrame DEF AloneInv, Early
<1>2. KnownInv'
  BY DEF IInv, KnownInv, KeepsPlan, KeepsFound, Own, Before
<1>3. CheckedInv'
  <2>1. ASSUME s.kind = "alter", NEW j \in DOMAIN s.todo PROVE Checked(j)'
    <3>1. Checked(j)
      BY <2>1 DEF IInv, CheckedInv
    <3>2. QED
      BY <3>1 DEF Checked, KeepsPlan, KeepsFound, Own, Before
  <2>2. QED
    BY <2>1 DEF CheckedInv, KeepsPlan
<1>4. FailsAsAWhole'
  BY DEF FailsAsAWhole
<1>5. QED
  BY <1>1, <1>2, <1>3, <1>4 DEF IInv

\* One that leaves the partitions.
LEMMA ApplyReadsIInv ==
  ASSUME IInv, s.kind # "repair", s.step = "apply", s'.step = "apply", Reads, KeepsPlan, KeepsFound,
         \A j \in DOMAIN s.todo : s.checked[j] # Null => s'.checked[j] # Null,
         s' \in Statement, ShapeInv', BatchInv', VersionInv', QueueInv',
         s'.at \in {s.at, s.at + 1}
  PROVE  IInv'
<1>1. TypeOK /\ Own /\ UNCHANGED <<partition, table>>
  BY DEF IInv, Reads, AsBefore, Own
<1>2. TypeOK'
  BY <1>1 DEF TypeOK, Own
<1>3. s.at \in Nat /\ Len(s.todo) \in Nat /\ s'.at \in Nat /\ s'.at >= s.at
  BY <1>1, StatementFacts
<1>4. AheadInv'
  <2>1. Apart' = Apart /\ touched' = touched /\ Before' = Before
    BY <1>1 DEF Apart, KeepsPlan, Own, Before
  <2>2. \A j \in s'.at .. Len(s.todo) : j \in s.at .. Len(s.todo)
    BY <1>3
  <2>3. QED
    BY <1>1, <2>1, <2>2 DEF IInv, AheadInv, KeepsPlan
<1>5. CallInv'
  <2>1. s.at >= 1
    BY DEF IInv, ShapeInv
  <2>2. s'.at = 1 => s.at = 1
    BY <1>3, <2>1
  <2>3. QED
    BY <1>1, <2>2 DEF IInv, CallInv, KeepsPlan, Own, Before, Alone
<1>6. QED
  BY <1>1, <1>2, <1>4, <1>5, ApplyIInv

\* While an action is applied, no batch is under way.
LEMMA AppliesFacts ==
  ASSUME IInv, NEW do, Applies(do)
  PROVE  /\ TypeOK /\ ShapeInv /\ s.step = "apply" /\ Running /\ More /\ Now.do = do
         /\ s.kind # "repair" /\ s.batch = {}
         /\ s.at \in DOMAIN s.todo /\ s.at \in 1 .. Len(s.todo) /\ s.at + 1 \in Nat
         /\ s.at + 1 \in 1 .. Len(s.todo) + 1 /\ Now \in Action /\ Parsed(Now)
         /\ s.kind \in {"alter", "call"}
         /\ (s.kind = "call" \/ do # "add") => s.adds = <<>>
<1>1. TypeOK /\ ShapeInv /\ s.step = "apply" /\ Running /\ More /\ Now.do = do
  BY DEF IInv, Applies, Running
<1>2. s.at \in DOMAIN s.todo /\ s.at \in 1 .. Len(s.todo) /\ Now \in Action /\ Parsed(Now)
  BY <1>1, NowFacts
<1>3. s.at + 1 \in Nat /\ s.at + 1 \in 1 .. Len(s.todo) + 1
  BY <1>1, <1>2, StatementFacts
<1>4. s.kind # "repair"
  BY <1>1, <1>2 DEF ShapeInv
<1>5. s.batch = {}
  BY <1>1 DEF IInv, BatchInv, Applies
<1>6. (s.kind = "call" \/ do # "add") => s.adds = <<>>
  BY <1>1 DEF ShapeInv, Applies, FlushAdds, Flushes
<1>7. QED
  BY <1>1, <1>2, <1>3, <1>4, <1>5, <1>6, StatementFacts DEF Kind

\* A call that is refused is refused by its only request.
LEMMA CallRefusable ==
  ASSUME IInv, s.kind = "call", s.step = "apply", More
  PROVE  Refusable
<1>1. s.at = 1
  <2>1. s.at \in 1 .. Len(s.todo) /\ Len(s.todo) = 1
    BY NowFacts DEF IInv, ShapeInv
  <2>2. QED
    BY <2>1
<1>2. QED
  BY <1>1 DEF IInv, CallInv, Refusable

\* What is queued stays queued of an action that was applied.
LEMMA QueueFrame ==
  ASSUME IInv, KeepsPlan, s'.adds = s.adds, s'.drops = s.drops, s.step = "apply",
         s'.at \in Nat, s'.at >= s.at
  PROVE  QueueInv'
<1>1. s.at \in Nat
  BY StatementFacts DEF IInv
<1>2. \A j \in 1 .. s.at - 1 : j \in 1 .. s'.at - 1
  BY <1>1
<1>3. QED
  BY <1>2 DEF IInv, QueueInv, KeepsPlan

LEMMA AppendFacts ==
  ASSUME NEW S, NEW q \in Seq(S), NEW e \in S
  PROVE  /\ Append(q, e) \in Seq(S)
         /\ \A i \in DOMAIN Append(q, e) :
              (i \in DOMAIN q /\ Append(q, e)[i] = q[i]) \/ Append(q, e)[i] = e
<1>1. /\ Append(q, e) \in Seq(S) /\ Len(Append(q, e)) = Len(q) + 1
      /\ \A i \in 1 .. Len(q) : Append(q, e)[i] = q[i]
      /\ Append(q, e)[Len(q) + 1] = e
  BY AppendProperties
<1>2. DOMAIN Append(q, e) = 1 .. Len(q) + 1 /\ DOMAIN q = 1 .. Len(q) /\ Len(q) \in Nat
  BY <1>1
<1>3. QED
  BY <1>1, <1>2

\* An action is queued.
LEMMA QueuesIInv ==
  ASSUME IInv, s.kind = "alter", Applies("add") \/ Applies("drop"), Reads,
         NEW as \in Seq([part : Part, loc : Loc]), NEW ds \in Seq(Part),
         s' = [s EXCEPT !.at = @ + 1, !.adds = as, !.drops = ds],
         \A i \in DOMAIN as : (i \in DOMAIN s.adds /\ as[i] = s.adds[i]) \/ as[i].part = Now.part,
         \A i \in DOMAIN ds : (i \in DOMAIN s.drops /\ ds[i] = s.drops[i]) \/ ds[i] = Now.part
  PROVE  IInv'
<1>1. /\ TypeOK /\ ShapeInv /\ s.step = "apply" /\ Running /\ s.batch = {}
      /\ s.at \in DOMAIN s.todo /\ s.at \in 1 .. Len(s.todo) /\ s.at + 1 \in 1 .. Len(s.todo) + 1
      /\ s.at + 1 \in Nat /\ Now.do \in {"add", "drop"} /\ Now \in Action /\ Parsed(Now)
  BY AppliesFacts
<1>2. PICK n \in Nat : n = s.at + 1
  BY <1>1
<1>3. s' = [s EXCEPT !.at = n, !.adds = as, !.drops = ds]
  BY <1>2
<1>4. /\ KeepsPlan /\ KeepsBound /\ KeepsFound /\ s' \in Statement
      /\ s'.step = "apply" /\ s'.checked = s.checked /\ s'.at = n /\ s'.why = s.why
      /\ s'.adds = as /\ s'.drops = ds /\ s'.batch = {}
  <2>1. s \in Statement /\ s.step = "apply" /\ s.batch = {}
    BY <1>1, StatementFacts
  <2>2. /\ s'.kind = s.kind /\ s'.todo = s.todo /\ s'.bound = s.bound /\ s'.again = s.again
        /\ s'.keys = s.keys /\ s'.known = s.known /\ s'.taken = s.taken
        /\ s'.step = s.step /\ s'.checked = s.checked /\ s'.at = n /\ s'.why = s.why
        /\ s'.adds = as /\ s'.drops = ds /\ s'.batch = s.batch
    BY <1>3, <2>1 DEF Statement
  <2>3. s' \in Statement
    BY <1>3, <2>1 DEF Statement
  <2>4. QED
    BY <2>1, <2>2, <2>3 DEF KeepsPlan, KeepsBound, KeepsFound
<1>5. Own /\ UNCHANGED table
  BY DEF Reads, AsBefore, Own
<1>6. ShapeInv'
  BY <1>1, <1>2, <1>4, <1>5 DEF ShapeInv, Own, KeepsPlan, KeepsFound, Early
<1>7. BatchInv' /\ VersionInv'
  BY <1>1, <1>4, <1>5, VersionFrame DEF BatchInv
<1>8. QueueInv'
  <2>1. Now.part \in Names(s.todo[s.at])
    BY <1>1 DEF Names, Now, Parsed
  <2>2. s.at \in 1 .. n - 1 /\ \A j \in 1 .. s.at - 1 : j \in 1 .. n - 1
    <3>1. s.at \in Nat /\ s.at >= 1
      BY <1>1, StatementFacts DEF ShapeInv
    <3>2. QED
      BY <1>2, <3>1
  <2>3. \A i \in DOMAIN as : \E j \in 1 .. n - 1 : as[i].part \in Names(s.todo[j])
    BY <1>1, <2>1, <2>2 DEF IInv, QueueInv
  <2>4. \A i \in DOMAIN ds : \E j \in 1 .. n - 1 : ds[i] \in Names(s.todo[j])
    BY <1>1, <2>1, <2>2 DEF IInv, QueueInv
  <2>5. QED
    BY <1>4, <2>3, <2>4 DEF QueueInv, KeepsPlan
<1>9. QED
  BY <1>1, <1>2, <1>4, <1>6, <1>7, <1>8, ApplyReadsIInv

LEMMA ApplyQueuesIInv ==
  ASSUME IInv, ApplyAdd \/ ApplyDrop
  PROVE  IInv'
<1>1. /\ TypeOK /\ s.adds \in Seq([part : Part, loc : Loc]) /\ s.drops \in Seq(Part)
  BY StatementFacts DEF IInv
<1>2. CASE ApplyAdd
  <2>1. Now.part \in Part /\ Now.loc \in Loc
    BY <1>2, AppliesFacts DEF ApplyAdd, Parsed
  <2>2. PICK e \in [part : Part, loc : Loc] : e = [part |-> Now.part, loc |-> Now.loc]
    BY <2>1
  <2>3. PICK as \in Seq([part : Part, loc : Loc]) : as = Append(s.adds, e)
    BY <1>1, <2>2, AppendFacts
  <2>4. \A i \in DOMAIN as : (i \in DOMAIN s.adds /\ as[i] = s.adds[i]) \/ as[i].part = Now.part
    BY <1>1, <2>2, <2>3, AppendFacts
  <2>5. s' = [s EXCEPT !.at = @ + 1, !.adds = as, !.drops = s.drops]
    <3>1. s' = [s EXCEPT !.at = @ + 1, !.adds = as]
      BY <1>2, <2>2, <2>3 DEF ApplyAdd
    <3>2. QED
      BY <1>1, <3>1 DEF TypeOK, Statement
  <2>6. QED
    BY <1>1, <1>2, <2>4, <2>5, QueuesIInv DEF ApplyAdd
<1>3. CASE ApplyDrop
  <2>1. Now.part \in Part
    BY <1>3, AppliesFacts DEF ApplyDrop, Parsed
  <2>2. PICK ds \in Seq(Part) :
          ds = IF Now.part \in ToSet(s.drops) THEN s.drops ELSE Append(s.drops, Now.part)
    BY <1>1, <2>1, AppendFacts
  <2>3. \A i \in DOMAIN ds : (i \in DOMAIN s.drops /\ ds[i] = s.drops[i]) \/ ds[i] = Now.part
    BY <1>1, <2>1, <2>2, AppendFacts
  <2>4. s' = [s EXCEPT !.at = @ + 1, !.adds = s.adds, !.drops = ds]
    <3>1. s' = [s EXCEPT !.at = @ + 1, !.drops = ds]
      BY <1>3, <2>2 DEF ApplyDrop
    <3>2. QED
      BY <1>1, <3>1 DEF TypeOK, Statement
  <2>5. QED
    <3>1. s.kind = "alter" /\ Applies("drop") /\ Reads
      BY <1>3 DEF ApplyDrop
    <3>2. \A i \in DOMAIN s.adds :
            (i \in DOMAIN s.adds /\ s.adds[i] = s.adds[i]) \/ s.adds[i].part = Now.part
      OBVIOUS
    <3>3. QED
      BY <1>1, <2>3, <2>4, <3>1, <3>2, QueuesIInv
<1>4. QED
  BY <1>2, <1>3

LEMMA FetchLateIInv ==
  ASSUME IInv, FetchLate
  PROVE  IInv'
<1>1. /\ TypeOK /\ ShapeInv /\ s.step = "apply" /\ Running /\ s.batch = {} /\ More
      /\ s.at \in DOMAIN s.todo /\ s.at \in 1 .. Len(s.todo) /\ Now.do = "set"
      /\ Now \in Action /\ Now.part \in Part
      /\ s.kind \in {"alter", "call"} /\ s.checked[s.at] = Null /\ Reads
  BY AppliesFacts DEF FetchLate, Parsed
<1>2. CASE Refused
  <2>1. Refusable
    <3>1. CASE s.kind = "call"
      BY <1>1, <3>1, CallRefusable
    <3>2. CASE s.kind = "alter"
      <4>1. Now = s.todo[s.at] /\ Now \in ToSet(s.todo)
        BY <1>1 DEF Now, ToSet
      <4>2. Now.ok
        BY <1>1, <3>2, <4>1 DEF IInv, CheckedInv, Checked
      <4>3. QED
        BY <1>1, <4>1, <4>2 DEF Refusable
    <3>3. QED
      BY <1>1, <3>1, <3>2
  <2>2. QED
    BY <1>1, <1>2, <2>1, FailsIInv
<1>3. CASE Exists(Now.part) /\ s' = [s EXCEPT !.checked[s.at] = partition[Now.part]]
  <2>1. PICK c \in Location : c = partition[Now.part] /\ c # Null
    BY <1>1, <1>3, BeforeFacts DEF Exists
  <2>2. PICK cs \in Seq(Location) :
          /\ cs = [s.checked EXCEPT ![s.at] = c] /\ DOMAIN cs = DOMAIN s.checked
          /\ \A j \in DOMAIN s.todo : s.checked[j] # Null => cs[j] # Null
    <3>1. s.checked \in Seq(Location) /\ s.at \in 1 .. Len(s.checked) /\ DOMAIN s.checked = DOMAIN s.todo
      BY <1>1, StatementFacts DEF ShapeInv
    <3>2. [s.checked EXCEPT ![s.at] = c] \in Seq(Location)
      BY <3>1, ExceptSeq
    <3>3. QED
      BY <2>1, <3>1, <3>2
  <2>3. s' = [s EXCEPT !.checked = cs]
    BY <1>3, <2>1, <2>2
  <2>4. /\ KeepsPlan /\ KeepsBound /\ KeepsFound /\ KeepsQueues /\ s' \in Statement
        /\ s'.step = "apply" /\ s'.checked = cs /\ s'.at = s.at /\ s'.why = s.why
    BY <1>1, <2>3, StatementFacts
    DEF Statement, KeepsPlan, KeepsBound, KeepsFound, KeepsQueues
  <2>5. Own /\ UNCHANGED table
    BY <1>1 DEF Reads, AsBefore, Own
  <2>6. ShapeInv'
    BY <1>1, <2>2, <2>4, <2>5 DEF ShapeInv, Own, KeepsPlan, KeepsFound, KeepsQueues, Early
  <2>7. BatchInv' /\ VersionInv'
    BY <1>1, <2>4, <2>5, VersionFrame DEF BatchInv, KeepsQueues
  <2>8. QueueInv'
    BY <1>1, <2>4, QueueFrame, StatementFacts DEF KeepsQueues
  <2>9. QED
    BY <1>1, <2>2, <2>4, <2>6, <2>7, <2>8, ApplyReadsIInv
<1>4. QED
  BY <1>2, <1>3 DEF FetchLate

LEMMA RefetchIInv ==
  ASSUME IInv, Refetch
  PROVE  IInv'
<1>1. /\ TypeOK /\ ShapeInv /\ s.step = "apply" /\ Running /\ s.batch = {} /\ s.kind # "repair"
      /\ Reads /\ s' = [s EXCEPT !.bound = table, !.again = FALSE] /\ table \in Definition
  BY AppliesFacts, BeforeFacts DEF Refetch
<1>2. /\ KeepsPlan /\ KeepsFound /\ KeepsQueues /\ s' \in Statement
      /\ s'.step = "apply" /\ s'.checked = s.checked /\ s'.at = s.at /\ s'.why = s.why
      /\ s'.bound = table
  BY <1>1, StatementFacts DEF Statement, KeepsPlan, KeepsFound, KeepsQueues
<1>3. Own /\ UNCHANGED table
  BY <1>1 DEF Reads, AsBefore, Own
<1>4. ShapeInv' /\ BatchInv'
  BY <1>1, <1>2, <1>3 DEF ShapeInv, BatchInv, Own, KeepsPlan, KeepsFound, KeepsQueues, Early
<1>5. VersionInv'
  <2>1. table.version \in Nat /\ table.version <= table.version
    BY <1>1 DEF Definition
  <2>2. QED
    BY <1>2, <1>3, <2>1 DEF IInv, VersionInv, Own
<1>6. QueueInv'
  BY <1>1, <1>2, QueueFrame, StatementFacts DEF KeepsQueues
<1>7. QED
  BY <1>1, <1>2, <1>4, <1>5, <1>6, ApplyReadsIInv

LEMMA FinishIInv ==
  ASSUME IInv, Finish
  PROVE  IInv'
<1>1. /\ TypeOK /\ ShapeInv /\ s.step = "apply" /\ Running /\ s.adds = <<>> /\ s.drops = <<>>
      /\ Reads /\ s' = [s EXCEPT !.step = "done"]
  BY DEF IInv, Finish, Done, Running
<1>2. /\ KeepsPlan /\ KeepsFound /\ KeepsQueues /\ KeepsBound /\ s' \in Statement
      /\ s'.step = "done" /\ s'.checked = s.checked /\ s'.at = s.at /\ s'.why = s.why
  BY <1>1, StatementFacts DEF Statement, Step, KeepsPlan, KeepsFound, KeepsQueues, KeepsBound
<1>3. Own /\ UNCHANGED <<partition, table>> /\ TypeOK'
  BY <1>1, <1>2 DEF Reads, AsBefore, Own, TypeOK
<1>4. /\ before.table.rev <= table'.rev /\ s.bound.version <= table'.version
      /\ s.bound.version = table'.version => s.bound.rev = table'.rev
      /\ s.at \in 1 .. Len(s.todo) + 1
      /\ s'.why # "refused" \/ s.kind # "repair"
  BY <1>1, <1>2, <1>3 DEF IInv, VersionInv, ShapeInv
<1>5. ListedInv'
  BY <1>1, <1>2, <1>3 DEF IInv, ListedInv, Exists, Before, Own, KeepsPlan, KeepsFound
<1>6. AddsInv'
  BY <1>2, <1>3 DEF IInv, AddsInv, Exists, Before, Own, KeepsPlan, KeepsFound, KeepsQueues
<1>7. FoundInv'
  BY <1>1, <1>2, <1>3 DEF IInv, FoundInv, Exists, Own, KeepsPlan, KeepsQueues
<1>8. FailsAsAWhole'
  BY <1>2 DEF FailsAsAWhole
<1>9. QED
  BY <1>1, <1>2, <1>3, <1>4, <1>5, <1>6, <1>7, <1>8, EndIInv DEF KeepsQueues

LEMMA ReadFailsIInv ==
  ASSUME IInv, ReadFails
  PROVE  IInv'
<1>1. Running
  BY AppliesFacts DEF ReadFails, Running
<1>2. QED
  BY <1>1, FailsIInv, GlueFails DEF ReadFails, IInv

-----------------------------------------------------------------------------
(* Applying the actions: what changes the definition or a partition *)

\* What remains to be shown of a request of an ALTER TABLE or a call that goes on.
LEMMA AppliedIInv ==
  ASSUME IInv, NEW do, Applies(do), Own, Applied \/ s' = [s EXCEPT !.at = @ + 1, !.again = TRUE],
         partition' \in [Part -> Location], table' \in Definition, VersionInv',
         \A p \in Part \ Names(Now) : partition'[p] = partition[p]
  PROVE  IInv'
<1>1. /\ TypeOK /\ ShapeInv /\ s.step = "apply" /\ Running /\ s.batch = {} /\ s.kind # "repair"
      /\ s.at \in DOMAIN s.todo /\ s.at \in 1 .. Len(s.todo) /\ s.at + 1 \in 1 .. Len(s.todo) + 1
      /\ s.at + 1 \in Nat
  BY AppliesFacts
<1>2. PICK n \in Nat, b \in BOOLEAN : n = s.at + 1 /\ s' = [s EXCEPT !.at = n, !.again = b]
  <2>1. CASE s' = [s EXCEPT !.at = @ + 1, !.again = TRUE]
    BY <1>1, <2>1
  <2>2. CASE Applied
    <3>1. s' = [s EXCEPT !.at = s.at + 1, !.again = s.again]
      BY <1>1, <2>2 DEF Applied, TypeOK, Statement
    <3>2. QED
      BY <1>1, <3>1, StatementFacts
  <2>3. QED
    BY <2>1, <2>2
<1>3. /\ KeepsPlan /\ KeepsFound /\ KeepsQueues /\ s' \in Statement
      /\ s'.step = "apply" /\ s'.checked = s.checked /\ s'.at = n /\ s'.why = s.why
  BY <1>1, <1>2, StatementFacts DEF Statement, KeepsPlan, KeepsFound, KeepsQueues
<1>4. TypeOK'
  BY <1>1, <1>3 DEF TypeOK, Own
<1>5. ShapeInv' /\ BatchInv'
  BY <1>1, <1>2, <1>3 DEF ShapeInv, BatchInv, Own, KeepsPlan, KeepsFound, KeepsQueues, Early
<1>6. QueueInv'
  BY <1>1, <1>2, <1>3, QueueFrame, StatementFacts DEF KeepsQueues
<1>7. AheadInv'
  <2> SUFFICES ASSUME Apart, NEW j \in n .. Len(s.todo), NEW p \in Names(s.todo[j]) \ touched
               PROVE  partition'[p] = Before[p]
    BY <1>3 DEF AheadInv, Apart, KeepsPlan, Own, Before
  <2>1. j \in DOMAIN s.todo /\ j # s.at /\ j \in s.at .. Len(s.todo)
    <3>1. /\ s.at \in Nat /\ s.at >= 1 /\ Len(s.todo) \in Nat
          /\ DOMAIN s.todo = 1 .. Len(s.todo)
      BY <1>1, StatementFacts, SeqElements DEF ShapeInv
    <3>2. QED
      BY <1>2, <3>1
  <2>2. p \in Part /\ p \notin Names(Now)
    BY <1>1, <2>1, NamesFacts DEF Apart, Now
  <2>3. partition[p] = Before[p]
    BY <1>1, <2>1 DEF IInv, AheadInv
  <2>4. QED
    BY <2>2, <2>3
<1>8. CallInv'
  <2>1. n # 1
    BY <1>1, <1>2
  <2>2. QED
    BY <1>3, <2>1 DEF CallInv
<1>9. QED
  BY <1>1, <1>3, <1>4, <1>5, <1>6, <1>7, <1>8, ApplyIInv

\* A request after which an ALTER TABLE or a call ends, whether it was applied or not.
LEMMA LastIInv ==
  ASSUME IInv, Running, s.kind # "repair", Own, Done \/ FailsInGlue, Done => s.adds = <<>>,
         partition' \in [Part -> Location], table' \in Definition,
         before.table.rev <= table'.rev, s.bound.version <= table'.version,
         s.bound.version = table'.version => s.bound.rev = table'.rev
  PROVE  IInv'
<1>1. TypeOK /\ ShapeInv
  BY DEF IInv
<1>2. PICK x \in {"done", "failed"}, w \in {s.why, "glue"} :
        /\ s' = [s EXCEPT !.step = x, !.why = w]
        /\ IF x = "failed" THEN w = "glue" ELSE s.adds = <<>>
  <2>1. CASE Done
    <3>1. s' = [s EXCEPT !.step = "done", !.why = s.why]
      BY <1>1, <2>1 DEF Done, TypeOK, Statement
    <3>2. QED
      BY <2>1, <3>1
  <2>2. CASE FailsInGlue
    BY <2>2 DEF FailsInGlue
  <2>3. QED
    BY <2>1, <2>2
<1>3. /\ KeepsPlan /\ KeepsBound /\ KeepsFound /\ KeepsQueues /\ s' \in Statement
      /\ s'.step = x /\ s'.why = w /\ s'.checked = s.checked /\ s'.at = s.at
  BY <1>1, <1>2, StatementFacts
  DEF Statement, Step, KeepsPlan, KeepsBound, KeepsFound, KeepsQueues
<1>4. TypeOK'
  BY <1>1, <1>3 DEF TypeOK, Own
<1>5. FailsAsAWhole'
  BY <1>2, <1>3 DEF FailsAsAWhole
<1>6. s.at \in 1 .. Len(s.todo) + 1
  BY <1>1 DEF ShapeInv
<1>7. QED
  BY <1>1, <1>2, <1>3, <1>4, <1>5, <1>6, EndIInv DEF KeepsQueues

\* Glue and the statement agree on the definition that is replaced.
LEMMA ApplyTableIInv ==
  ASSUME IInv, ApplyTable
  PROVE  IInv'
<1>1. /\ TypeOK /\ ShapeInv /\ s.step = "apply" /\ Running /\ s.kind # "repair"
      /\ Now \in Action /\ Now.loc \in Loc /\ Applies("table") /\ ~s.again
      /\ s.adds = <<>>
  BY AppliesFacts DEF ApplyTable, Parsed
<1>2. /\ s \in Statement /\ s.bound \in Definition /\ table \in Definition
      /\ partition \in [Part -> Location] /\ before.table \in Definition
  BY <1>1, StatementFacts, BeforeFacts
<1>3. Own /\ UNCHANGED partition
  BY DEF ApplyTable, AsBefore, Own
<1>4. CASE SameVersion /\ table' = [s.bound EXCEPT !.loc = Now.loc, !.version = table.version + 1]
  <2>1. /\ table' \in Definition /\ table'.rev = table.rev /\ table'.version = s.bound.version + 1
    <3>1. PICK v \in Nat : v = table.version + 1
      BY <1>2 DEF Definition
    <3>2. table' = [s.bound EXCEPT !.loc = Now.loc, !.version = v]
      BY <1>4, <3>1
    <3>3. table' \in Definition /\ table'.rev = s.bound.rev /\ table'.version = v
      BY <1>1, <1>2, <3>1, <3>2 DEF Definition
    <3>4. s.bound.version = table.version /\ s.bound.rev = table.rev
      BY <1>4 DEF IInv, VersionInv, SameVersion
    <3>5. QED
      BY <3>1, <3>3, <3>4
  <2>2. /\ before.table.rev <= table'.rev /\ s.bound.version <= table'.version
        /\ s.bound.version # table'.version
    BY <1>2, <2>1 DEF IInv, VersionInv, Definition
  <2>3. CASE s' = [s EXCEPT !.at = @ + 1, !.again = TRUE]
    <3>1. s'.again /\ s'.bound = s.bound
      BY <1>2, <2>3 DEF Statement
    <3>2. VersionInv'
      BY <1>3, <2>2, <3>1 DEF VersionInv, Own
    <3>3. QED
      BY <1>1, <1>2, <1>3, <2>1, <2>3, <3>2, AppliedIInv
  <2>4. CASE FailsInGlue
    BY <1>1, <1>2, <1>3, <2>1, <2>2, <2>4, LastIInv
  <2>5. QED
    BY <1>4, <2>3, <2>4 DEF ApplyTable, Refused
<1>5. CASE UNCHANGED table /\ FailsInGlue
  BY <1>1, <1>3, <1>5, FailsIInv, GlueFails DEF Reads, ApplyTable
<1>6. CASE UNCHANGED table /\ ~SameVersion /\ Refused
  <2>1. Refusable
    BY <1>1, <1>6 DEF IInv, VersionInv, SameVersion, Refusable
  <2>2. QED
    BY <1>1, <1>3, <1>6, <2>1, FailsIInv DEF Reads, ApplyTable
<1>7. QED
  BY <1>4, <1>5, <1>6 DEF ApplyTable

\* What UpdatePartition needs is there, of an ALTER TABLE nobody got in the way of.
LEMMA UpdateAllowed ==
  ASSUME IInv, s.kind = "alter", Applies("rename") \/ Applies("set"), Alone, Apart,
         \A a \in ToSet(s.todo) : ~(a.do = "set" /\ a.ok),
         NEW q \in {Now.part, Now.to}, Now.do = "set" => q = Now.part
  PROVE  Exists(Now.part) /\ (q = Now.part \/ ~Exists(q))
<1>1. /\ TypeOK /\ ShapeInv /\ s.step = "apply" /\ s.at \in DOMAIN s.todo
      /\ s.at \in s.at .. Len(s.todo) /\ Now \in Action /\ Parsed(Now)
      /\ Now = s.todo[s.at] /\ Now.do \in {"rename", "set"} /\ Now.part \in Part
  <2>1. /\ TypeOK /\ ShapeInv /\ s.step = "apply" /\ s.at \in DOMAIN s.todo
        /\ s.at \in 1 .. Len(s.todo) /\ Now \in Action /\ Parsed(Now)
        /\ Now.do \in {"rename", "set"}
    BY AppliesFacts
  <2>2. s.at \in s.at .. Len(s.todo)
    BY <2>1
  <2>3. QED
    BY <2>1, <2>2 DEF Now, Parsed
<1>2. Now \in ToSet(s.todo) /\ touched = {} /\ Checked(s.at)
  BY <1>1 DEF ToSet, Alone, IInv, CheckedInv
<1>3. \A p \in Names(Now) : partition[p] = Before[p]
  BY <1>1, <1>2 DEF IInv, AheadInv
<1>4. Exists(Now.part)
  <2>1. Now.part \in Names(Now)
    BY <1>1 DEF Names
  <2>2. Before[Now.part] # Null
    BY <1>1, <1>2 DEF Checked
  <2>3. QED
    BY <1>3, <2>1, <2>2 DEF Exists
<1>5. ASSUME Now.do = "rename" PROVE ~Exists(Now.to)
  <2>1. Now.to \in Lookups(s.todo) /\ Now.to \in Part /\ Now.to \in Names(Now)
    BY <1>1, <1>5, LookupsFacts DEF Parsed, Names
  <2>2. Now.to \notin s.known
    BY <1>1, <1>2, <1>5 DEF Checked
  <2>3. Before[Now.to] = Null
    BY <1>1, <1>2, <2>1, <2>2 DEF IInv, KnownInv
  <2>4. QED
    BY <1>3, <2>1, <2>3 DEF Exists
<1>6. QED
  BY <1>1, <1>4, <1>5

LEMMA UpdateIInv ==
  ASSUME IInv, Applies("rename") \/ Applies("set"), NEW q \in {Now.part, Now.to},
         Now.do = "set" => q = Now.part, NEW loc \in Location,
         Update(Now.part, q, loc), AsBefore, UNCHANGED table
  PROVE  IInv'
<1>1. /\ TypeOK /\ ShapeInv /\ s.step = "apply" /\ Running /\ s.kind \in {"alter", "call"} /\ More
      /\ Now \in Action /\ Parsed(Now) /\ Now.do \in {"rename", "set"} /\ s.adds = <<>>
  BY AppliesFacts
<1>2. Now.part \in Part /\ q \in Part /\ Now.part \in Names(Now) /\ q \in Names(Now)
  BY <1>1 DEF Parsed, Names
<1>3. /\ Own /\ partition \in [Part -> Location] /\ table \in Definition
      /\ before.table.rev <= table.rev /\ s.bound.version <= table.version
      /\ s.bound.version = table.version => s.bound.rev = table.rev
  BY <1>1, BeforeFacts DEF AsBefore, Own, IInv, VersionInv
<1>4. CASE /\ partition' = [partition EXCEPT ![Now.part] = Null, ![q] = loc]
           /\ Applied \/ FailsInGlue
  <2>1. partition' \in [Part -> Location]
    BY <1>2, <1>3, <1>4 DEF Location
  <2>2. \A p \in Part \ Names(Now) : partition'[p] = partition[p]
    BY <1>2, <1>3, <1>4
  <2>3. CASE Applied
    <3>1. KeepsBound
      BY <1>1, <2>3, StatementFacts DEF Applied, Statement, KeepsBound
    <3>2. VersionInv'
      BY <1>1, <1>3, <3>1, VersionFrame
    <3>3. QED
      BY <1>3, <2>1, <2>2, <2>3, <3>2, AppliedIInv
  <2>4. CASE FailsInGlue
    BY <1>1, <1>3, <2>1, <2>4, LastIInv
  <2>5. QED
    BY <1>4, <2>3, <2>4
<1>5. CASE UNCHANGED partition /\ FailsInGlue
  BY <1>1, <1>5, FailsIInv, GlueFails DEF Reads
<1>6. CASE UNCHANGED partition /\ ~(Exists(Now.part) /\ (q = Now.part \/ ~Exists(q))) /\ Refused
  <2>1. Refusable
    <3>1. CASE s.kind = "call"
      BY <1>1, <3>1, CallRefusable
    <3>2. CASE s.kind = "alter"
      BY <1>6, <3>2, UpdateAllowed DEF Refusable
    <3>3. QED
      BY <1>1, <3>1, <3>2
  <2>2. QED
    BY <1>1, <1>6, <2>1, FailsIInv DEF Reads
<1>7. QED
  BY <1>4, <1>5, <1>6 DEF Update

LEMMA ApplyUpdateIInv ==
  ASSUME IInv, ApplyRename \/ ApplySet
  PROVE  IInv'
<1>1. CASE ApplyRename
  <2>1. Now.do = "rename" /\ s.checked[s.at] \in Location
    BY <1>1, AppliesFacts, StatementFacts DEF ApplyRename, ShapeInv
  <2>2. QED
    BY <1>1, <2>1, UpdateIInv DEF ApplyRename
<1>2. CASE ApplySet
  <2>1. Now.do = "set" /\ Now.loc \in Location
    BY <1>2, AppliesFacts DEF ApplySet, Parsed, Location
  <2>2. QED
    BY <1>2, <2>1, UpdateIInv DEF ApplySet
<1>3. QED
  BY <1>1, <1>2

\* The functions that register or drop one partition.
LEMMA CallChangesIInv ==
  ASSUME IInv, CallAdd \/ CallDrop
  PROVE  IInv'
<1>1. /\ TypeOK /\ ShapeInv /\ s.step = "apply" /\ Running /\ s.kind = "call" /\ More
      /\ Parsed(Now) /\ Now.do \in {"add", "drop"} /\ s.adds = <<>> /\ AsBefore
      /\ UNCHANGED table
  BY AppliesFacts DEF CallAdd, CallDrop
<1>2. /\ Own /\ partition \in [Part -> Location] /\ table \in Definition
      /\ before.table.rev <= table.rev /\ s.bound.version <= table.version
      /\ s.bound.version = table.version => s.bound.rev = table.rev
  BY <1>1, BeforeFacts DEF AsBefore, Own, IInv, VersionInv
<1>3. PICK parts \in [Part -> Location], needed \in BOOLEAN : Change(parts, needed)
  <2>1. CASE CallAdd
    <3>1. Now.part \in Part /\ Now.loc \in Location
      BY <1>1, <2>1, AppliesFacts DEF CallAdd, Parsed, Location
    <3>2. [partition EXCEPT ![Now.part] = Now.loc] \in [Part -> Location]
      BY <1>2, <3>1
    <3>3. QED
      BY <2>1, <3>2 DEF CallAdd, CreatePartition
  <2>2. CASE CallDrop
    <3>1. Now.part \in Part /\ Null \in Location
      BY <1>1, <2>2, AppliesFacts DEF CallDrop, Parsed, Location
    <3>2. [partition EXCEPT ![Now.part] = Null] \in [Part -> Location]
      BY <1>2, <3>1
    <3>3. QED
      BY <2>2, <3>2 DEF CallDrop, DeletePartition, Exists
  <2>3. QED
    BY <2>1, <2>2
<1>4. CASE partition' \in [Part -> Location] /\ (Done \/ FailsInGlue)
  BY <1>1, <1>2, <1>4, LastIInv
<1>5. CASE UNCHANGED partition /\ Refused
  BY <1>1, <1>5, CallRefusable, FailsIInv DEF Reads
<1>6. QED
  BY <1>2, <1>3, <1>4, <1>5 DEF Change

-----------------------------------------------------------------------------
(* Batches *)

LEMMA RestFacts ==
  ASSUME NEW S, NEW q \in Seq(S), NEW size \in Nat \ {0}, NEW r, r = Rest(size, q)
  PROVE  /\ r \in Seq(S)
         /\ \A i \in DOMAIN r : size + i \in DOMAIN q /\ r[i] = q[size + i]
         /\ \A i \in DOMAIN r : \E k \in DOMAIN q : r[i] = q[k]
         /\ \A i \in DOMAIN q : i > size => i - size \in DOMAIN r
<1>1. Len(q) \in Nat /\ DOMAIN q = 1 .. Len(q) /\ \A i \in 1 .. Len(q) : q[i] \in S
  OBVIOUS
<1>2. PICK m \in Int, n \in Int : m = size + 1 /\ n = Len(q)
  <2>1. size + 1 \in Int /\ Len(q) \in Int
    BY <1>1
  <2>2. QED
    BY <2>1
<1>3. Rest(size, q) = SubSeq(q, m, n) /\ \A i \in m .. n : q[i] \in S
  BY <1>1, <1>2 DEF Rest
<1>4. r = SubSeq(q, m, n)
  BY <1>3
<1>5. /\ r \in Seq(S) /\ Len(r) = IF m <= n THEN n - m + 1 ELSE 0
      /\ \A i \in 1 .. n - m + 1 : r[i] = q[m + i - 1]
  BY <1>3, <1>4, SubSeqProperties
<1>6. DOMAIN r = 1 .. Len(r) /\ Len(r) \in Nat /\ (m <= n => Len(r) = n - m + 1)
      /\ (m > n => Len(r) = 0)
  BY <1>5
<1>7. \A i \in 1 .. Len(r) : /\ i \in 1 .. n - m + 1 /\ size + i \in 1 .. Len(q)
                             /\ m + i - 1 = size + i
  BY <1>2, <1>6
<1>8. \A i \in 1 .. Len(q) : i > size => i - size \in 1 .. Len(r)
  BY <1>2, <1>6
<1>9. \A i \in DOMAIN r : size + i \in DOMAIN q /\ r[i] = q[size + i]
  BY <1>1, <1>5, <1>6, <1>7
<1>10. \A i \in DOMAIN q : i > size => i - size \in DOMAIN r
  BY <1>1, <1>6, <1>8
<1>11. QED
  BY <1>5, <1>9, <1>10

\* The first of some positions.
LEMMA FirstFacts ==
  ASSUME NEW T \in SUBSET Nat, T # {}
  PROVE  \E i \in T : \A j \in T : i <= j
<1>1. PICK i \in T : \A j \in T : ~(<<j, i>> \in OpToRel(<, Nat))
  BY NatLessThanWellFounded, WFMin
<1>2. \A j \in T : ~(j < i)
  BY <1>1 DEF OpToRel
<1>3. QED
  BY <1>2

\* The positions that are sent.
LEMMA PendingFacts ==
  ASSUME NEW size \in Nat \ {0}, NEW S, NEW q \in Seq(S),
         s.batch \subseteq 1 .. MinOf(size, Len(q))
  PROVE  /\ Pending(size, q) \subseteq 1 .. MinOf(size, Len(q))
         /\ 1 .. MinOf(size, Len(q)) \subseteq DOMAIN q
         /\ \A i \in DOMAIN q : i <= size => i \in 1 .. MinOf(size, Len(q))
<1>1. Len(q) \in Nat /\ DOMAIN q = 1 .. Len(q)
  OBVIOUS
<1>2. QED
  BY <1>1 DEF Pending, MinOf

\* A batch of an ALTER TABLE.
LEMMA BatchIInv ==
  ASSUME IInv, s.kind = "alter", s.step = "apply", Own, UNCHANGED table,
         partition' \in [Part -> Location],
         NEW as \in Seq([part : Part, loc : Loc]), NEW ds \in Seq(Part), NEW b \in SUBSET Nat,
         NEW n \in 0 .. MaxAttempts,
         s' = [s EXCEPT !.adds = as, !.drops = ds, !.batch = b, !.attempt = n],
         \A i \in DOMAIN as : \E k \in DOMAIN s.adds : as[i] = s.adds[k],
         \A i \in DOMAIN ds : \E k \in DOMAIN s.drops : ds[i] = s.drops[k],
         \A p \in Part : partition'[p] # partition[p] =>
           (\E i \in DOMAIN s.adds : p = s.adds[i].part) \/ (\E i \in DOMAIN s.drops : p = s.drops[i]),
         BatchInv'
  PROVE  IInv'
<1>1. TypeOK /\ ShapeInv /\ Running /\ s.at \in 1 .. Len(s.todo) + 1 /\ Len(s.todo) \in Nat
  BY StatementFacts DEF IInv, Running, ShapeInv
<1>2. /\ KeepsPlan /\ KeepsBound /\ KeepsFound /\ s' \in Statement
      /\ s'.step = "apply" /\ s'.checked = s.checked /\ s'.at = s.at /\ s'.why = s.why
      /\ s'.adds = as /\ s'.drops = ds
  BY <1>1, StatementFacts DEF Statement, KeepsPlan, KeepsBound, KeepsFound
<1>3. TypeOK'
  BY <1>1, <1>2 DEF TypeOK, Own
<1>4. ShapeInv'
  BY <1>1, <1>2 DEF ShapeInv, Own, KeepsPlan, KeepsFound, Early
<1>5. VersionInv'
  BY <1>1, <1>2, VersionFrame
<1>6. QueueInv'
  <2>1. ASSUME NEW i \in DOMAIN as
        PROVE  \E j \in 1 .. s.at - 1 : as[i].part \in Names(s.todo[j])
    <3>1. PICK k \in DOMAIN s.adds : as[i] = s.adds[k]
      OBVIOUS
    <3>2. PICK j \in 1 .. s.at - 1 : s.adds[k].part \in Names(s.todo[j])
      BY DEF IInv, QueueInv
    <3>3. QED
      BY <3>1, <3>2
  <2>2. \A i \in DOMAIN ds : \E j \in 1 .. s.at - 1 : ds[i] \in Names(s.todo[j])
    BY DEF IInv, QueueInv
  <2>3. QED
    BY <1>2, <2>1, <2>2 DEF QueueInv, KeepsPlan
<1>7. AheadInv'
  <2> SUFFICES ASSUME Apart, NEW j \in s.at .. Len(s.todo), NEW p \in Names(s.todo[j]) \ touched
               PROVE  partition'[p] = Before[p]
    <3>1. s'.todo = s.todo /\ s'.at = s.at /\ touched' = touched /\ before' = before
      BY <1>2 DEF KeepsPlan, Own
    <3>2. QED
      BY <3>1 DEF AheadInv, Apart, Before
  <2>1. j \in DOMAIN s.todo /\ DOMAIN s.todo = 1 .. Len(s.todo)
    <3>1. s.at >= 1 /\ DOMAIN s.todo = 1 .. Len(s.todo)
      BY <1>1, StatementFacts, SeqElements
    <3>2. QED
      BY <1>1, <3>1
  <2>2. p \in Part /\ partition[p] = Before[p]
    BY <1>1, <2>1, NamesFacts DEF IInv, AheadInv
  <2>3. ASSUME NEW k \in 1 .. s.at - 1, p \in Names(s.todo[k]) PROVE FALSE
    <3>1. k \in DOMAIN s.todo /\ k # j
      BY <1>1, <2>1
    <3>2. QED
      BY <2>1, <2>3, <3>1 DEF Apart
  <2>4. partition'[p] = partition[p]
    <3>1. \A i \in DOMAIN s.adds : p # s.adds[i].part
      BY <2>3 DEF IInv, QueueInv
    <3>2. \A i \in DOMAIN s.drops : p # s.drops[i]
      BY <2>3 DEF IInv, QueueInv
    <3>3. QED
      BY <2>2, <3>1, <3>2
  <2>5. QED
    BY <2>2, <2>4
<1>8. CallInv'
  BY <1>2 DEF CallInv, KeepsPlan
<1>9. QED
  BY <1>1, <1>2, <1>3, <1>4, <1>5, <1>6, <1>7, <1>8, ApplyIInv

\* A batch of an ALTER TABLE that fails may have changed partitions.
LEMMA BatchFailsIInv ==
  ASSUME IInv, s.step = "apply", s.kind = "alter", Own, UNCHANGED table, FailsInGlue,
         partition' \in [Part -> Location]
  PROVE  IInv'
<1>1. /\ TypeOK /\ ShapeInv /\ Running /\ table \in Definition
      /\ before.table.rev <= table.rev /\ s.bound.version <= table.version
      /\ s.bound.version = table.version => s.bound.rev = table.rev
  BY BeforeFacts DEF IInv, VersionInv, Running
<1>2. ~Done
  <2>1. s'.step = "failed"
    BY <1>1, StatementFacts DEF FailsInGlue, Statement
  <2>2. Done => s'.step = "done"
    BY <1>1, StatementFacts DEF Done, Statement
  <2>3. QED
    BY <2>1, <2>2
<1>3. QED
  BY <1>1, <1>2, LastIInv

LEMMA BatchDeleteIInv ==
  ASSUME IInv, BatchDelete
  PROVE  IInv'
<1>1. /\ TypeOK /\ ShapeInv /\ s.step = "apply" /\ s.kind = "alter" /\ Own /\ UNCHANGED table
      /\ FlushDrops /\ ~FlushAdds /\ DeleteSize \in Nat \ {0} /\ s \in Statement
      /\ s.drops \in Seq(Part) /\ partition \in [Part -> Location] /\ Null \in Location
  <2>1. TypeOK /\ ShapeInv /\ s.drops # <<>>
    BY DEF IInv, BatchDelete, FlushDrops
  <2>2. QED
    BY <2>1, StatementFacts, BeforeFacts
    DEF BatchDelete, ShapeInv, Kind, AsBefore, Own, Location
<1>2. PICK bad \in SUBSET Pending(DeleteSize, s.drops) :
        /\ partition' = [p \in Part |->
             IF \E i \in Pending(DeleteSize, s.drops) \ bad : s.drops[i] = p
             THEN Null ELSE partition[p]]
        /\ Answered(bad, [s EXCEPT !.drops = Rest(DeleteSize, @)])
  BY DEF BatchDelete
<1>3. s.batch \subseteq 1 .. MinOf(DeleteSize, Len(s.drops))
  BY <1>1 DEF IInv, BatchInv
<1>4. /\ Pending(DeleteSize, s.drops) \subseteq 1 .. MinOf(DeleteSize, Len(s.drops))
      /\ 1 .. MinOf(DeleteSize, Len(s.drops)) \subseteq DOMAIN s.drops
  BY <1>1, <1>3, PendingFacts
<1>5. partition' \in [Part -> Location]
  BY <1>1, <1>2
<1>6. \A p \in Part : partition'[p] # partition[p] => \E i \in DOMAIN s.drops : p = s.drops[i]
  BY <1>1, <1>2, <1>4
<1>7. CASE bad = {} /\ s' = [[s EXCEPT !.drops = Rest(DeleteSize, @)] EXCEPT !.batch = {}, !.attempt = 0]
  <2>1. PICK q \in Seq(Part), n \in Nat \ {0}, ds \in Seq(Part) :
          /\ q = s.drops /\ n = DeleteSize /\ ds = Rest(n, q)
    <3>1. PICK q \in Seq(Part), n \in Nat \ {0} : q = s.drops /\ n = DeleteSize
      BY <1>1
    <3>2. Rest(n, q) \in Seq(Part)
      BY RestFacts
    <3>3. QED
      BY <3>1, <3>2
  <2>2. \A i \in DOMAIN ds : \E k \in DOMAIN s.drops : ds[i] = s.drops[k]
    <3>1. ds = Rest(n, q)
      BY <2>1
    <3>2. \A i \in DOMAIN ds : \E k \in DOMAIN q : ds[i] = q[k]
      BY <3>1, RestFacts
    <3>3. QED
      BY <2>1, <3>2
  <2>3. s' = [s EXCEPT !.adds = s.adds, !.drops = ds, !.batch = {}, !.attempt = 0]
    <3>1. s' = [[s EXCEPT !.drops = ds] EXCEPT !.batch = {}, !.attempt = 0]
      BY <1>7, <2>1
    <3>2. QED
      BY <1>1, <3>1 DEF Statement
  <2>4. BatchInv'
    BY <1>1, <2>3 DEF BatchInv, Statement
  <2>5. s.adds \in Seq([part : Part, loc : Loc]) /\ {} \in SUBSET Nat /\ 0 \in 0 .. MaxAttempts
    BY <1>1 DEF Statement
  <2>6. \A i \in DOMAIN s.adds : \E k \in DOMAIN s.adds : s.adds[i] = s.adds[k]
    OBVIOUS
  <2>7. QED
    BY <1>1, <1>5, <1>6, <2>2, <2>3, <2>4, <2>5, <2>6, BatchIInv
<1>8. CASE bad # {} /\ MaySendAgain /\ s' = [s EXCEPT !.batch = bad, !.attempt = @ + 1]
  <2>1. PICK n \in 0 .. MaxAttempts : n = s.attempt + 1
    BY <1>1, <1>8 DEF MaySendAgain, Statement
  <2>2. s' = [s EXCEPT !.adds = s.adds, !.drops = s.drops, !.batch = bad, !.attempt = n]
    BY <1>1, <1>8, <2>1 DEF Statement
  <2>3. bad \in SUBSET Nat /\ bad \subseteq 1 .. MinOf(DeleteSize, Len(s.drops))
    BY <1>1, <1>4
  <2>4. /\ s'.adds = s.adds /\ s'.drops = s.drops /\ s'.batch = bad /\ s'.step = "apply"
        /\ s'.at = s.at /\ s'.todo = s.todo
    BY <1>1, <2>2, <2>3 DEF Statement
  <2>5. BatchInv'
    BY <1>1, <2>3, <2>4 DEF BatchInv, FlushAdds, FlushDrops, Flushes, More, Now
  <2>6. s.adds \in Seq([part : Part, loc : Loc])
    BY <1>1 DEF Statement
  <2>7. QED
    BY <1>1, <1>5, <1>6, <2>2, <2>3, <2>5, <2>6, BatchIInv
<1>9. CASE FailsInGlue
  BY <1>1, <1>5, <1>9, BatchFailsIInv
<1>10. QED
  BY <1>2, <1>7, <1>8, <1>9 DEF Answered

\* Of the positions sent, the one the answer for p is matched to.
First(sent, p) ==
  CHOOSE i \in sent : /\ s.adds[i].part = p
                      /\ \A j \in sent : s.adds[j].part = p => i <= j

LEMMA FirstIsSent ==
  ASSUME NEW sent \in SUBSET Nat, NEW i \in sent
  PROVE  /\ First(sent, s.adds[i].part) \in sent
         /\ s.adds[First(sent, s.adds[i].part)].part = s.adds[i].part
<1>1. PICK p : p = s.adds[i].part
  OBVIOUS
<1>2. PICK T \in SUBSET Nat : T = {j \in sent : s.adds[j].part = p}
  OBVIOUS
<1>3. PICK k \in T : \A j \in T : k <= j
  BY <1>1, <1>2, FirstFacts
<1>4. \E n \in sent : /\ s.adds[n].part = p
                      /\ \A j \in sent : s.adds[j].part = p => n <= j
  BY <1>2, <1>3
<1>5. First(sent, p) \in sent /\ s.adds[First(sent, p)].part = p
  BY <1>4 DEF First
<1>6. QED
  BY <1>1, <1>5

\* What a batch of adds does when Glue refuses the positions bad of those sent.
Created(sent, bad) ==
  /\ sent \subseteq 1 .. MinOf(CreateSize, Len(s.adds)) /\ bad \in SUBSET sent
  /\ sent = Pending(CreateSize, s.adds)
  /\ partition' \in [Part -> Location]
  /\ \A p \in Part : partition'[p] # partition[p] =>
       /\ ~Exists(p)
       /\ \E i \in DOMAIN s.adds : s.adds[i].part = p /\ s.adds[i].loc = partition'[p]
  /\ (\A i, j \in DOMAIN s.adds : s.adds[i].part = s.adds[j].part => i = j) =>
       \A i \in sent \ bad : partition'[s.adds[i].part] # Null

LEMMA CreateFacts ==
  ASSUME IInv, BatchCreate
  PROVE  /\ TypeOK /\ ShapeInv /\ s.step = "apply" /\ FlushAdds /\ Running /\ UNCHANGED table /\ Own
         /\ s.kind \in {"alter", "repair"} /\ s \in Statement
         /\ CreateSize \in Nat \ {0} /\ s.adds \in Seq([part : Part, loc : Loc])
         /\ \E sent \in SUBSET Nat : \E bad \in SUBSET sent :
              /\ Created(sent, bad)
              /\ Answered(bad, [s EXCEPT !.adds = Rest(CreateSize, @)])
<1>1. /\ TypeOK /\ ShapeInv /\ s.step = "apply" /\ FlushAdds /\ Running /\ UNCHANGED table /\ Own
      /\ s \in Statement /\ CreateSize \in Nat \ {0} /\ s.adds \in Seq([part : Part, loc : Loc])
      /\ partition \in [Part -> Location]
  BY StatementFacts, BeforeFacts DEF IInv, BatchCreate, Running, AsBefore, Own
<1>2. s.kind \in {"alter", "repair"}
  BY <1>1, StatementFacts DEF ShapeInv, FlushAdds, Kind
<1>3. PICK sent \in SUBSET Nat :
        /\ sent = Pending(CreateSize, s.adds) /\ sent \subseteq 1 .. MinOf(CreateSize, Len(s.adds))
        /\ sent \subseteq DOMAIN s.adds
  <2>1. s.batch \subseteq 1 .. MinOf(CreateSize, Len(s.adds))
    BY <1>1 DEF IInv, BatchInv
  <2>2. /\ Pending(CreateSize, s.adds) \subseteq 1 .. MinOf(CreateSize, Len(s.adds))
        /\ 1 .. MinOf(CreateSize, Len(s.adds)) \subseteq DOMAIN s.adds
    BY <1>1, <2>1, PendingFacts
  <2>3. DOMAIN s.adds \subseteq Nat
    BY <1>1
  <2>4. QED
    BY <2>2, <2>3
<1>4. ASSUME NEW i \in sent
      PROVE  /\ First(sent, s.adds[i].part) \in sent
             /\ s.adds[First(sent, s.adds[i].part)].part = s.adds[i].part
  BY FirstIsSent
<1>5. PICK bad \in SUBSET {First(sent, s.adds[i].part) : i \in sent} :
        /\ partition' = [p \in Part |->
             IF ~Exists(p) /\ \E i \in {First(sent, s.adds[i].part) : i \in sent} \ bad : s.adds[i].part = p
             THEN s.adds[First(sent, p)].loc ELSE partition[p]]
        /\ Answered(bad, [s EXCEPT !.adds = Rest(CreateSize, @)])
  <2>1. \E bad \in SUBSET {First(Pending(CreateSize, s.adds), s.adds[i].part) :
                           i \in Pending(CreateSize, s.adds)} :
          /\ partition' = [p \in Part |->
               IF ~Exists(p) /\ \E i \in {First(Pending(CreateSize, s.adds), s.adds[i].part) :
                                        i \in Pending(CreateSize, s.adds)} \ bad : s.adds[i].part = p
               THEN s.adds[First(Pending(CreateSize, s.adds), p)].loc ELSE partition[p]]
          /\ Answered(bad, [s EXCEPT !.adds = Rest(CreateSize, @)])
    BY DEF BatchCreate, First
  <2>2. QED
    BY <1>3, <2>1
<1>6. bad \in SUBSET sent
  BY <1>4, <1>5
<1>7. \A i \in DOMAIN s.adds : s.adds[i].part \in Part /\ s.adds[i].loc \in Loc
  <2>1. PICK as \in Seq([part : Part, loc : Loc]) : as = s.adds
    BY <1>1
  <2>2. \A i \in DOMAIN as : as[i] \in [part : Part, loc : Loc]
    BY SeqElements
  <2>3. QED
    BY <2>1, <2>2
<1>8. \A p \in Part : \/ partition'[p] = partition[p]
                      \/ ~Exists(p) /\ \E i \in sent : s.adds[i].part = p /\ s.adds[i].loc = partition'[p]
  <2> SUFFICES ASSUME NEW p \in Part, partition'[p] # partition[p]
               PROVE  ~Exists(p) /\ \E i \in sent : s.adds[i].part = p /\ s.adds[i].loc = partition'[p]
    OBVIOUS
  <2>1. /\ ~Exists(p) /\ partition'[p] = s.adds[First(sent, p)].loc
        /\ \E i \in {First(sent, s.adds[i].part) : i \in sent} : s.adds[i].part = p
    BY <1>5
  <2>2. PICK i \in sent : s.adds[i].part = p
    BY <1>4, <2>1
  <2>3. QED
    BY <1>4, <2>1, <2>2
<1>9. partition' \in [Part -> Location]
  <2>1. \A p \in Part : partition'[p] \in Location
    BY <1>1, <1>3, <1>7, <1>8 DEF Location
  <2>2. QED
    BY <1>5, <2>1
<1>10. ASSUME \A i, j \in DOMAIN s.adds : s.adds[i].part = s.adds[j].part => i = j,
              NEW i \in sent \ bad
       PROVE  partition'[s.adds[i].part] # Null
  <2>1. First(sent, s.adds[i].part) = i
    BY <1>3, <1>4, <1>10
  <2>2. i \in {First(sent, s.adds[k].part) : k \in sent} \ bad
    BY <2>1
  <2>3. PICK p \in Part : p = s.adds[i].part
    BY <1>3, <1>7
  <2>4. ~Exists(p) => partition'[p] = s.adds[i].loc
    BY <1>5, <2>1, <2>2, <2>3
  <2>5. Exists(p) => partition'[p] = partition[p]
    BY <1>5, <2>3
  <2>6. QED
    BY <1>3, <1>7, <2>3, <2>4, <2>5 DEF Exists
<1>11. Created(sent, bad)
  BY <1>3, <1>6, <1>8, <1>9, <1>10 DEF Created
<1>12. QED
  BY <1>1, <1>2, <1>5, <1>6, <1>11

\* What a batch leaves of the adds.
AddsLeft(as) ==
  /\ as \in Seq([part : Part, loc : Loc]) /\ as = Rest(CreateSize, s.adds)
  /\ \A i \in DOMAIN as : CreateSize + i \in DOMAIN s.adds /\ as[i] = s.adds[CreateSize + i]
  /\ \A i \in DOMAIN s.adds : i > CreateSize => i - CreateSize \in DOMAIN as

LEMMA AddsLeftFacts ==
  ASSUME TypeOK
  PROVE  \E as : AddsLeft(as)
<1>1. PICK S : S = [part : Part, loc : Loc]
  OBVIOUS
<1>2. PICK q \in Seq(S), n \in Nat \ {0} : q = s.adds /\ n = CreateSize
  BY <1>1, StatementFacts
<1>3. PICK as : as = Rest(n, q)
  OBVIOUS
<1>4. /\ as \in Seq(S)
      /\ \A i \in DOMAIN as : n + i \in DOMAIN q /\ as[i] = q[n + i]
      /\ \A i \in DOMAIN q : i > n => i - n \in DOMAIN as
  BY <1>3, RestFacts
<1>5. AddsLeft(as)
  BY <1>1, <1>2, <1>3, <1>4 DEF AddsLeft
<1>6. QED
  BY <1>5

\* The ways a batch of adds ends.
LEMMA CreateEnds ==
  ASSUME TypeOK, s.step = "apply", NEW sent \in SUBSET Nat, NEW bad \in SUBSET sent,
         Created(sent, bad), Answered(bad, [s EXCEPT !.adds = Rest(CreateSize, @)])
  PROVE  \/ \E as : /\ AddsLeft(as) /\ bad = {}
                    /\ s' = [s EXCEPT !.adds = as, !.drops = s.drops, !.batch = {}, !.attempt = 0]
         \/ \E n \in 0 .. MaxAttempts :
              /\ bad # {}
              /\ s' = [s EXCEPT !.adds = s.adds, !.drops = s.drops, !.batch = bad, !.attempt = n]
         \/ FailsInGlue
<1>1. s \in Statement
  BY DEF TypeOK
<1>2. CASE bad = {} /\ s' = [[s EXCEPT !.adds = Rest(CreateSize, @)] EXCEPT !.batch = {}, !.attempt = 0]
  <2>1. PICK as : AddsLeft(as)
    BY AddsLeftFacts
  <2>2. as = Rest(CreateSize, s.adds)
    BY <2>1 DEF AddsLeft
  <2>3. s' = [[s EXCEPT !.adds = as] EXCEPT !.batch = {}, !.attempt = 0]
    BY <1>2, <2>2
  <2>4. s' = [s EXCEPT !.adds = as, !.drops = s.drops, !.batch = {}, !.attempt = 0]
    BY <1>1, <2>3 DEF Statement
  <2>5. QED
    BY <1>2, <2>1, <2>4
<1>3. CASE bad # {} /\ MaySendAgain /\ s' = [s EXCEPT !.batch = bad, !.attempt = @ + 1]
  <2>1. PICK n \in 0 .. MaxAttempts : n = s.attempt + 1
    BY <1>1, <1>3 DEF MaySendAgain, Statement
  <2>2. s' = [s EXCEPT !.batch = bad, !.attempt = n]
    BY <1>3, <2>1
  <2>3. s' = [s EXCEPT !.adds = s.adds, !.drops = s.drops, !.batch = bad, !.attempt = n]
    BY <1>1, <2>2 DEF Statement
  <2>4. QED
    BY <1>3, <2>3
<1>4. QED
  BY <1>2, <1>3 DEF Answered

LEMMA BatchCreateAlterIInv ==
  ASSUME IInv, BatchCreate, s.kind = "alter"
  PROVE  IInv'
<1>1. /\ TypeOK /\ ShapeInv /\ s.step = "apply" /\ FlushAdds /\ Running /\ UNCHANGED table /\ Own
      /\ s \in Statement /\ CreateSize \in Nat \ {0} /\ s.adds \in Seq([part : Part, loc : Loc])
      /\ s.drops \in Seq(Part)
  BY CreateFacts, StatementFacts
<1>2. PICK sent \in SUBSET Nat, bad \in SUBSET Nat :
        /\ bad \in SUBSET sent /\ Created(sent, bad)
        /\ Answered(bad, [s EXCEPT !.adds = Rest(CreateSize, @)])
  BY CreateFacts
<1>3. /\ partition' \in [Part -> Location] /\ bad \subseteq 1 .. MinOf(CreateSize, Len(s.adds))
      /\ \A p \in Part : partition'[p] # partition[p] => \E i \in DOMAIN s.adds : p = s.adds[i].part
  BY <1>2 DEF Created
<1>4. ASSUME NEW as, AddsLeft(as),
             s' = [s EXCEPT !.adds = as, !.drops = s.drops, !.batch = {}, !.attempt = 0]
      PROVE  IInv'
  <2>1. as \in Seq([part : Part, loc : Loc]) /\ {} \in SUBSET Nat /\ 0 \in 0 .. MaxAttempts
    BY <1>4 DEF AddsLeft
  <2>2. \A i \in DOMAIN as : \E k \in DOMAIN s.adds : as[i] = s.adds[k]
    BY <1>4 DEF AddsLeft
  <2>3. BatchInv'
    BY <1>1, <1>4 DEF BatchInv, Statement
  <2>4. \A i \in DOMAIN s.drops : \E k \in DOMAIN s.drops : s.drops[i] = s.drops[k]
    OBVIOUS
  <2>5. QED
    BY <1>1, <1>3, <1>4, <2>1, <2>2, <2>3, <2>4, BatchIInv
<1>5. ASSUME NEW n \in 0 .. MaxAttempts,
             s' = [s EXCEPT !.adds = s.adds, !.drops = s.drops, !.batch = bad, !.attempt = n]
      PROVE  IInv'
  <2>1. /\ s'.adds = s.adds /\ s'.drops = s.drops /\ s'.batch = bad /\ s'.step = "apply"
        /\ s'.at = s.at /\ s'.todo = s.todo
    BY <1>1, <1>5 DEF Statement
  <2>2. BatchInv'
    BY <1>1, <1>3, <2>1 DEF BatchInv, FlushAdds, Flushes, More, Now
  <2>3. \A i \in DOMAIN s.adds : \E k \in DOMAIN s.adds : s.adds[i] = s.adds[k]
    OBVIOUS
  <2>4. \A i \in DOMAIN s.drops : \E k \in DOMAIN s.drops : s.drops[i] = s.drops[k]
    OBVIOUS
  <2>5. QED
    BY <1>1, <1>3, <1>5, <2>2, <2>3, <2>4, BatchIInv
<1>6. CASE FailsInGlue
  BY <1>1, <1>3, <1>6, BatchFailsIInv
<1>7. QED
  BY <1>1, <1>2, <1>4, <1>5, <1>6, CreateEnds

\* A batch of a repair registers partitions where there are none.
LEMMA CreatedListed ==
  ASSUME IInv, s.kind = "repair", s.step = "apply", KeepsPlan, KeepsFound, Own,
         s'.step \in {"apply", "failed"},
         NEW sent, NEW bad, Created(sent, bad)
  PROVE  /\ ListedInv'
         /\ \A p \in Part : Exists(p) => partition'[p] = partition[p]
         /\ \A p \in Part : partition'[p] # partition[p] =>
              ReadDir[partition'[p]] = p /\ partition'[p] \notin s.taken
<1>1. \A p \in Part : Exists(p) => partition'[p] = partition[p]
  BY DEF Created
<1>2. \A p \in Part : partition'[p] # partition[p] =>
        ReadDir[partition'[p]] = p /\ partition'[p] \notin s.taken
  <2> SUFFICES ASSUME NEW p \in Part, partition'[p] # partition[p]
               PROVE  ReadDir[partition'[p]] = p /\ partition'[p] \notin s.taken
    OBVIOUS
  <2>1. PICK i \in DOMAIN s.adds : s.adds[i].part = p /\ s.adds[i].loc = partition'[p]
    BY DEF Created
  <2>2. ReadDir[s.adds[i].loc] = s.adds[i].part /\ s.adds[i].loc \notin s.taken
    BY DEF IInv, AddsInv
  <2>3. QED
    BY <2>1, <2>2
<1>3. \A p \in Part \ touched : Before[p] # Null => partition[p] = Before[p]
  BY DEF IInv, ListedInv
<1>4. \A p \in Part \ touched : Before[p] # Null => partition'[p] = Before[p]
  BY <1>1, <1>3 DEF Exists
<1>5. \A p \in Part \ touched : Before[p] # Null => p \in s.keys \/ Before[p] \in s.taken
  BY DEF IInv, ListedInv
<1>6. s.keys = {}
  BY DEF IInv, ListedInv
<1>7. s.known \subseteq Part /\ s.taken \subseteq Loc
  BY StatementFacts DEF IInv
<1>8. touched = {} => \A p \in s.known : partition'[p] # Null
  BY <1>1, <1>7 DEF IInv, ListedInv, Exists
<1>9. touched = {} => \A l \in s.taken : \E p \in Part : partition'[p] = l
  <2> SUFFICES ASSUME touched = {}, NEW l \in s.taken PROVE \E p \in Part : partition'[p] = l
    OBVIOUS
  <2>1. PICK p \in Part : partition[p] = l
    BY DEF IInv, ListedInv
  <2>2. l # Null
    BY <1>7
  <2>3. QED
    BY <1>1, <2>1, <2>2 DEF Exists
<1>10. ListedInv'
  BY <1>4, <1>5, <1>6, <1>8, <1>9 DEF ListedInv, KeepsPlan, KeepsFound, Own, Before, Exists
<1>11. QED
  BY <1>1, <1>2, <1>10

LEMMA CreatedAdds ==
  ASSUME IInv, s.kind = "repair", KeepsPlan, KeepsFound, Own,
         \A p \in Part : partition'[p] # partition[p] =>
           ReadDir[partition'[p]] = p /\ partition'[p] \notin s.taken,
         NEW n \in Nat,
         \A i \in DOMAIN s'.adds : /\ i \in Nat /\ n + i \in DOMAIN s.adds
                                   /\ s'.adds[i] = s.adds[n + i]
  PROVE  AddsInv'
<1>1. \A i \in DOMAIN s'.adds : /\ ReadDir[s'.adds[i].loc] = s'.adds[i].part
                                /\ s'.adds[i].loc \notin s.taken
  BY DEF IInv, AddsInv
<1>2. ASSUME NEW i \in DOMAIN s'.adds, NEW j \in DOMAIN s'.adds, s'.adds[i].part = s'.adds[j].part
      PROVE  i = j
  <2>1. n + i = n + j
    BY <1>2 DEF IInv, AddsInv
  <2>2. QED
    BY <2>1
<1>3. \A p \in Part \ touched : Before[p] = Null /\ partition'[p] # Null =>
        ReadDir[partition'[p]] = p /\ partition'[p] \notin s.taken
  BY DEF IInv, AddsInv, Exists
<1>4. QED
  BY <1>1, <1>2, <1>3 DEF AddsInv, KeepsPlan, KeepsFound, Own, Before, Exists

\* After a batch of a repair, the positions of the batch that are not sent again are registered.
LEMMA CreatedFound ==
  ASSUME IInv, s.kind = "repair", s.step = "apply", touched = {},
         NEW sent, NEW bad, Created(sent, bad), NEW i \in 1 .. MinOf(CreateSize, Len(s.adds)) \ bad
  PROVE  partition'[s.adds[i].part] # Null
<1>1. i \in DOMAIN s.adds /\ s.adds[i].part \in Part /\ i \in 1 .. MinOf(CreateSize, Len(s.adds))
  <2>1. Len(s.adds) \in Nat /\ DOMAIN s.adds = 1 .. Len(s.adds) /\ CreateSize \in Nat
    BY StatementFacts DEF IInv
  <2>2. i \in DOMAIN s.adds
    BY <2>1 DEF MinOf
  <2>3. s.adds[i] \in [part : Part, loc : Loc]
    BY <2>2, StatementFacts, SeqElements DEF IInv
  <2>4. QED
    BY <2>2, <2>3
<1>2. CASE i \in sent
  BY <1>2 DEF Created, IInv, AddsInv
<1>3. CASE i \notin sent
  <2>1. s.batch # {} /\ i \notin s.batch
    BY <1>1, <1>3 DEF Created, Pending
  <2>2. Exists(s.adds[i].part)
    BY <1>1, <2>1 DEF IInv, FoundInv
  <2>3. QED
    BY <1>1, <2>2 DEF Created, Exists
<1>4. QED
  BY <1>2, <1>3

LEMMA BatchCreateRepairIInv ==
  ASSUME IInv, BatchCreate, s.kind = "repair"
  PROVE  IInv'
<1>1. /\ TypeOK /\ ShapeInv /\ s.step = "apply" /\ FlushAdds /\ Running /\ UNCHANGED table /\ Own
      /\ s \in Statement /\ CreateSize \in Nat \ {0} /\ s.adds \in Seq([part : Part, loc : Loc])
      /\ s.drops \in Seq(Part)
  BY CreateFacts, StatementFacts
<1>2. PICK sent \in SUBSET Nat, bad \in SUBSET Nat :
        /\ bad \in SUBSET sent /\ Created(sent, bad)
        /\ Answered(bad, [s EXCEPT !.adds = Rest(CreateSize, @)])
  BY CreateFacts
<1>3. partition' \in [Part -> Location] /\ bad \subseteq 1 .. MinOf(CreateSize, Len(s.adds))
  BY <1>2 DEF Created
<1>4. DOMAIN s.adds = 1 .. Len(s.adds) /\ Len(s.adds) \in Nat
  BY <1>1, SeqElements
<1>5. ASSUME KeepsPlan, KeepsFound, s'.step \in {"apply", "failed"}
      PROVE  /\ ListedInv'
             /\ \A p \in Part : Exists(p) => partition'[p] = partition[p]
             /\ \A p \in Part : partition'[p] # partition[p] =>
                  ReadDir[partition'[p]] = p /\ partition'[p] \notin s.taken
  BY <1>1, <1>2, <1>5, CreatedListed
<1>6. touched = {} => \A i \in 1 .. MinOf(CreateSize, Len(s.adds)) \ bad :
                        partition'[s.adds[i].part] # Null
  BY <1>1, <1>2, CreatedFound
\* A directory whose values or location were registered still is.
<1>7. ASSUME \A p \in Part : Exists(p) => partition'[p] = partition[p],
             NEW l \in dirs, ReadDir[l] # Null, touched = {},
             ~(partition'[ReadDir[l]] # Null \/ \E p \in Part : partition'[p] = l)
      PROVE  \E i \in DOMAIN s.adds : s.adds[i].part = ReadDir[l]
  <2>1. l \in Loc /\ ReadDir[l] \in Part
    BY <1>1, <1>7 DEF TypeOK
  <2>2. ~Exists(ReadDir[l])
    BY <1>7, <2>1 DEF Exists
  <2>3. ~\E p \in Part : partition[p] = l
    BY <1>7, <2>1 DEF Exists
  <2>4. QED
    BY <1>1, <1>7, <2>2, <2>3 DEF IInv, FoundInv
<1>8. ASSUME NEW as, AddsLeft(as), bad = {},
             s' = [s EXCEPT !.adds = as, !.drops = s.drops, !.batch = {}, !.attempt = 0]
      PROVE  IInv'
  <2>1. as \in Seq([part : Part, loc : Loc]) /\ {} \in SUBSET Nat /\ 0 \in 0 .. MaxAttempts
    BY <1>8 DEF AddsLeft
  <2>2. /\ KeepsPlan /\ KeepsBound /\ KeepsFound /\ s' \in Statement
        /\ s'.step = "apply" /\ s'.checked = s.checked /\ s'.at = s.at /\ s'.why = s.why
        /\ s'.adds = as /\ s'.drops = s.drops /\ s'.batch = {}
    BY <1>1, <1>8, <2>1 DEF Statement, KeepsPlan, KeepsBound, KeepsFound
  <2>3. TypeOK'
    BY <1>1, <1>3, <2>2 DEF TypeOK, Own
  <2>4. ShapeInv'
    BY <1>1, <2>2 DEF ShapeInv, Own, KeepsPlan, KeepsFound, Early
  <2>5. BatchInv' /\ AloneInv'
    BY <2>2 DEF BatchInv, AloneInv, Early
  <2>6. AddsInv'
    <3>1. \A i \in DOMAIN as : /\ i \in Nat /\ CreateSize + i \in DOMAIN s.adds
                               /\ as[i] = s.adds[CreateSize + i]
      BY <1>8, <2>1, SeqElements DEF AddsLeft
    <3>2. QED
      BY <1>1, <1>5, <2>2, <3>1, CreatedAdds
  <2>7. FoundInv'
    <3> SUFFICES ASSUME touched = {}, NEW l \in dirs, ReadDir[l] # Null,
                        ~(partition'[ReadDir[l]] # Null \/ \E p \in Part : partition'[p] = l)
                 PROVE  \E i \in DOMAIN as : as[i].part = ReadDir[l]
      BY <1>1, <2>2 DEF FoundInv, Own, Exists
    <3>1. PICK i \in DOMAIN s.adds : s.adds[i].part = ReadDir[l]
      BY <1>5, <1>7, <2>2
    <3>2. i \notin 1 .. MinOf(CreateSize, Len(s.adds))
      BY <1>6, <1>8, <3>1
    <3>3. i > CreateSize
      BY <1>1, <1>4, <3>2 DEF MinOf
    <3>4. i - CreateSize \in DOMAIN as /\ CreateSize + (i - CreateSize) = i
      BY <1>1, <1>4, <1>8, <3>3 DEF AddsLeft
    <3>5. as[i - CreateSize] = s.adds[i]
      BY <1>8, <3>4 DEF AddsLeft
    <3>6. QED
      BY <3>1, <3>4, <3>5
  <2>8. QED
    BY <1>1, <1>5, <2>2, <2>3, <2>4, <2>5, <2>6, <2>7, RepairIInv
<1>9. ASSUME NEW n \in 0 .. MaxAttempts,
             s' = [s EXCEPT !.adds = s.adds, !.drops = s.drops, !.batch = bad, !.attempt = n]
      PROVE  IInv'
  <2>1. /\ KeepsPlan /\ KeepsBound /\ KeepsFound /\ s' \in Statement
        /\ s'.step = "apply" /\ s'.checked = s.checked /\ s'.at = s.at /\ s'.why = s.why
        /\ s'.adds = s.adds /\ s'.drops = s.drops /\ s'.batch = bad
    BY <1>1, <1>9 DEF Statement, KeepsPlan, KeepsBound, KeepsFound
  <2>2. TypeOK'
    BY <1>1, <1>3, <2>1 DEF TypeOK, Own
  <2>3. ShapeInv'
    BY <1>1, <2>1 DEF ShapeInv, Own, KeepsPlan, KeepsFound, Early
  <2>4. BatchInv' /\ AloneInv'
    BY <1>1, <1>3, <2>1 DEF BatchInv, AloneInv, Early, FlushAdds, Flushes, More, Now, KeepsPlan
  <2>5. AddsInv'
    <3>1. \A i \in DOMAIN s.adds : i \in Nat /\ 0 + i = i
      BY <1>4
    <3>2. \A i \in DOMAIN s'.adds : /\ i \in Nat /\ 0 + i \in DOMAIN s.adds
                                    /\ s'.adds[i] = s.adds[0 + i]
      BY <2>1, <3>1
    <3>3. QED
      BY <1>1, <1>5, <2>1, <3>2, CreatedAdds
  <2>6. FoundInv'
    <3>1. ASSUME touched = {}, NEW l \in dirs, ReadDir[l] # Null,
                 ~(partition'[ReadDir[l]] # Null \/ \E p \in Part : partition'[p] = l)
          PROVE  \E i \in DOMAIN s.adds : s.adds[i].part = ReadDir[l]
      BY <1>5, <1>7, <2>1, <3>1
    <3>2. QED
      BY <1>1, <1>6, <2>1, <3>1 DEF FoundInv, Own, Exists
  <2>7. QED
    BY <1>1, <1>5, <2>1, <2>2, <2>3, <2>4, <2>5, <2>6, RepairIInv
<1>10. CASE FailsInGlue
  <2>1. /\ KeepsPlan /\ KeepsBound /\ KeepsFound /\ KeepsQueues /\ s' \in Statement
        /\ s'.step = "failed" /\ s'.checked = s.checked /\ s'.at = s.at /\ s'.why = "glue"
    BY <1>1, <1>10 DEF FailsInGlue, Statement, Step, KeepsPlan, KeepsBound, KeepsFound, KeepsQueues
  <2>2. TypeOK'
    BY <1>1, <1>3, <2>1 DEF TypeOK, Own
  <2>3. AddsInv'
    <3>1. \A i \in DOMAIN s.adds : i \in Nat /\ 0 + i = i
      BY <1>4
    <3>2. \A i \in DOMAIN s'.adds : /\ i \in Nat /\ 0 + i \in DOMAIN s.adds
                                    /\ s'.adds[i] = s.adds[0 + i]
      BY <2>1, <3>1 DEF KeepsQueues
    <3>3. QED
      BY <1>1, <1>5, <2>1, <3>2, CreatedAdds
  <2>4. FoundInv' /\ FailsAsAWhole' /\ ListedInv'
    BY <1>5, <2>1 DEF FoundInv, FailsAsAWhole
  <2>5. /\ before.table.rev <= table'.rev /\ s.bound.version <= table'.version
        /\ s.bound.version = table'.version => s.bound.rev = table'.rev
        /\ s.at \in 1 .. Len(s.todo) + 1
    BY <1>1 DEF IInv, VersionInv, ShapeInv
  <2>6. QED
    BY <1>1, <2>1, <2>2, <2>3, <2>4, <2>5, EndIInv DEF KeepsQueues
<1>11. QED
  BY <1>1, <1>2, <1>8, <1>9, <1>10, CreateEnds

-----------------------------------------------------------------------------
(* Listing and discovering *)

\* Until it registers something, a repair finds what was there.
LEMMA ListFacts ==
  ASSUME IInv, s.step = "list"
  PROVE  /\ TypeOK /\ ShapeInv /\ Running /\ s.kind = "repair" /\ s.step \in Early
         /\ s.adds = <<>> /\ s.drops = <<>> /\ s.batch = {} /\ s \in Statement
         /\ s.keys \in SUBSET Part /\ s.known \in SUBSET Part /\ s.taken \in SUBSET Loc
         /\ \A p \in Part \ touched : partition[p] = Before[p]
<1>1. TypeOK /\ ShapeInv /\ Running /\ s.step \in Early
  BY DEF IInv, Running, Early
<1>2. s.kind = "repair" /\ s.adds = <<>> /\ s.drops = <<>> /\ s.batch = {}
  BY <1>1, StatementFacts DEF ShapeInv, Kind
<1>3. \A p \in Part \ touched : partition[p] = Before[p]
  BY <1>1 DEF IInv, AloneInv
<1>4. QED
  BY <1>1, <1>2, <1>3, StatementFacts

LEMMA ListIInv ==
  ASSUME IInv, List
  PROVE  IInv'
<1>1. /\ TypeOK /\ ShapeInv /\ Running /\ s.kind = "repair" /\ s.step = "list"
      /\ s.adds = <<>> /\ s.drops = <<>> /\ s.batch = {} /\ s \in Statement
      /\ s.keys \in SUBSET Part /\ s.known \in SUBSET Part /\ s.taken \in SUBSET Loc
      /\ Own /\ UNCHANGED <<partition, table>> /\ partition \in [Part -> Location]
  BY ListFacts, BeforeFacts DEF List, Reads, AsBefore, Own
<1>2. \A p \in Part \ touched : partition[p] = Before[p]
  BY <1>1, ListFacts
<1>3. PICK page \in SUBSET s.keys, found \in SUBSET Part :
        /\ found = {p \in page : Exists(p)}
        /\ s' = [s EXCEPT !.keys = @ \ page, !.known = @ \cup found,
                          !.taken = @ \cup {partition[p] : p \in found}]
  BY <1>1 DEF List
<1>4. PICK ks \in SUBSET Part, kn \in SUBSET Part, tk \in SUBSET Loc :
        /\ ks = s.keys \ page /\ kn = s.known \cup found
        /\ tk = s.taken \cup {partition[p] : p \in found}
  <2>1. {partition[p] : p \in found} \subseteq Loc
    BY <1>1, <1>3 DEF Exists, Location
  <2>2. QED
    BY <1>1, <2>1
<1>5. s' = [s EXCEPT !.keys = ks, !.known = kn, !.taken = tk]
  BY <1>3, <1>4
<1>6. /\ KeepsPlan /\ KeepsBound /\ KeepsQueues /\ s' \in Statement
      /\ s'.step = "list" /\ s'.checked = s.checked /\ s'.at = s.at /\ s'.why = s.why
      /\ s'.keys = ks /\ s'.known = kn /\ s'.taken = tk
  BY <1>1, <1>5 DEF Statement, KeepsPlan, KeepsBound, KeepsQueues
<1>7. TypeOK'
  BY <1>1, <1>6 DEF TypeOK, Own
<1>8. ShapeInv' /\ BatchInv'
  BY <1>1, <1>6 DEF ShapeInv, BatchInv, Own, KeepsPlan, KeepsQueues, Early
<1>9. AloneInv'
  BY <1>1, <1>6 DEF IInv, AloneInv, Own, Before, Early, Alone
<1>10. ListedInv'
  <2>1. ASSUME NEW p \in Part \ touched, Before[p] # Null
        PROVE  p \in ks \/ Before[p] \in tk
    <3>1. p \in s.keys \/ Before[p] \in s.taken
      BY <1>1, <2>1 DEF IInv, ListedInv
    <3>2. p \in page => p \in found /\ partition[p] = Before[p]
      BY <1>2, <1>3, <2>1 DEF Exists
    <3>3. QED
      BY <1>4, <3>1, <3>2
  <2>2. touched = {} => \A p \in kn : Exists(p)
    BY <1>1, <1>3, <1>4 DEF IInv, ListedInv
  <2>3. touched = {} => \A l \in tk : \E p \in Part : partition[p] = l
    BY <1>1, <1>3, <1>4 DEF IInv, ListedInv
  <2>4. QED
    BY <1>1, <1>2, <1>6, <2>1, <2>2, <2>3 DEF ListedInv, KeepsPlan, Own, Before, Exists
<1>11. AddsInv'
  <2>1. DOMAIN s'.adds = {}
    BY <1>1, <1>6 DEF KeepsQueues
  <2>2. \A p \in Part \ touched : ~(Before[p] = Null /\ Exists(p))
    BY <1>2 DEF Exists
  <2>3. QED
    BY <1>1, <2>1, <2>2 DEF AddsInv, Own, Before, Exists
<1>12. FoundInv'
  BY <1>6 DEF FoundInv
<1>13. QED
  BY <1>1, <1>6, <1>7, <1>8, <1>9, <1>10, <1>11, <1>12, RepairIInv

\* A finite set as a sequence.
LEMMA SetToSeqFacts ==
  ASSUME NEW S, IsFiniteSet(S), NEW q, q = SetToSeq(S)
  PROVE  /\ q \in Seq(S)
         /\ \A i, j \in DOMAIN q : q[i] = q[j] => i = j
         /\ \A e \in S : \E i \in DOMAIN q : q[i] = e
<1>1. Cardinality(S) \in Nat /\ ExistsBijection(1 .. Cardinality(S), S)
  BY FS_CardinalityType
<1>2. PICK n \in Nat : n = Cardinality(S)
  BY <1>1
<1>3. \E f \in [1 .. n -> S] : IsInjective(f)
  BY <1>1, <1>2 DEF ExistsBijection, Bijection, Injection, IsInjective
<1>4. q \in [1 .. n -> S] /\ IsInjective(q)
  BY <1>2, <1>3 DEF SetToSeq
<1>5. q \in Injection(1 .. n, S)
  BY <1>4 DEF Injection
<1>6. Cardinality(1 .. n) = n
  BY FS_Interval
<1>7. q \in Surjection(1 .. n, S)
  BY <1>2, <1>5, <1>6, FS_Injection
<1>8. QED
  BY <1>4, <1>7 DEF IsInjective, Surjection

\* What a repair queues for the directories chosen.
Added(chosen) == {[part |-> ReadDir[l], loc |-> l] : l \in chosen}

\* The adds of the directories chosen, one of each.
AddsOf(as, chosen) ==
  /\ as \in Seq([part : Part, loc : Loc])
  /\ \A i \in DOMAIN as : as[i].loc \in chosen /\ as[i].part = ReadDir[as[i].loc]
  /\ \A i, j \in DOMAIN as : as[i].part = as[j].part => i = j
  /\ \A l \in chosen : \E i \in DOMAIN as : as[i].part = ReadDir[l]

LEMMA AddedFacts ==
  ASSUME NEW chosen \in SUBSET Loc, \A l \in chosen : ReadDir[l] \in Part,
         \A l, m \in chosen : ReadDir[m] = ReadDir[l] => l = m,
         NEW as, as = SetToSeq(Added(chosen))
  PROVE  AddsOf(as, chosen)
<1>1. IsFiniteSet(chosen)
  BY FS_Subset
<1>2. IsFiniteSet(Added(chosen))
  <2>1. PICK f : f = [l \in chosen |-> [part |-> ReadDir[l], loc |-> l]]
    OBVIOUS
  <2>2. f \in Surjection(chosen, Added(chosen))
    BY <2>1 DEF Surjection, Added
  <2>3. QED
    BY <1>1, <2>2, FS_Surjection
<1>3. /\ as \in Seq(Added(chosen))
      /\ \A i, j \in DOMAIN as : as[i] = as[j] => i = j
      /\ \A e \in Added(chosen) : \E i \in DOMAIN as : as[i] = e
  BY <1>2, SetToSeqFacts
<1>4. Added(chosen) \subseteq [part : Part, loc : Loc]
  BY DEF Added
<1>5. \A i \in DOMAIN as : as[i] \in Added(chosen)
  BY <1>3, SeqElements
<1>6. as \in Seq([part : Part, loc : Loc])
  <2>1. PICK S, T : S = Added(chosen) /\ T = [part : Part, loc : Loc]
    OBVIOUS
  <2>2. as \in Seq(S) /\ S \subseteq T
    BY <1>3, <1>4, <2>1
  <2>3. as \in Seq(T)
    BY <2>2
  <2>4. QED
    BY <2>1, <2>3
<1>7. \A i \in DOMAIN as : as[i].loc \in chosen /\ as[i] = [part |-> ReadDir[as[i].loc], loc |-> as[i].loc]
  <2> SUFFICES ASSUME NEW i \in DOMAIN as
               PROVE  as[i].loc \in chosen /\ as[i] = [part |-> ReadDir[as[i].loc], loc |-> as[i].loc]
    OBVIOUS
  <2>1. PICK l \in chosen : as[i] = [part |-> ReadDir[l], loc |-> l]
    BY <1>5 DEF Added
  <2>2. QED
    BY <2>1
<1>8. ASSUME NEW i \in DOMAIN as, NEW j \in DOMAIN as, as[i].part = as[j].part PROVE i = j
  <2>1. as[i].loc = as[j].loc
    BY <1>7, <1>8
  <2>2. as[i] = as[j]
    BY <1>7, <2>1
  <2>3. QED
    BY <1>3, <2>2
<1>9. ASSUME NEW l \in chosen PROVE \E i \in DOMAIN as : as[i].part = ReadDir[l]
  <2>1. [part |-> ReadDir[l], loc |-> l] \in Added(chosen)
    BY DEF Added
  <2>2. PICK i \in DOMAIN as : as[i] = [part |-> ReadDir[l], loc |-> l]
    BY <1>3, <2>1
  <2>3. QED
    BY <2>2
<1>10. QED
  BY <1>6, <1>7, <1>8, <1>9 DEF AddsOf

LEMMA DiscoverIInv ==
  ASSUME IInv, Discover
  PROVE  IInv'
<1>1. /\ TypeOK /\ ShapeInv /\ Running /\ s.kind = "repair" /\ s.step = "list" /\ s.keys = {}
      /\ s.adds = <<>> /\ s.drops = <<>> /\ s.batch = {} /\ s \in Statement
      /\ s.known \in SUBSET Part /\ s.taken \in SUBSET Loc
      /\ Own /\ UNCHANGED <<partition, table>> /\ partition \in [Part -> Location]
      /\ dirs \subseteq Loc
  BY ListFacts, BeforeFacts DEF Discover, Reads, AsBefore, Own, TypeOK
<1>2. \A p \in Part \ touched : partition[p] = Before[p]
  BY <1>1, ListFacts
<1>3. PICK chosen \in SUBSET Loc :
        /\ \A l \in chosen : l \in dirs /\ Unregistered(l)
        /\ \A l \in dirs : Unregistered(l) => \E m \in chosen : ReadDir[m] = ReadDir[l]
        /\ \A l, m \in chosen : ReadDir[m] = ReadDir[l] => l = m
        /\ s' = [s EXCEPT !.step = "apply", !.adds = SetToSeq(Added(chosen))]
  <2>1. PICK new : new = {l \in dirs : Unregistered(l)}
    OBVIOUS
  <2>2. PICK chosen \in SUBSET new :
          /\ \A l \in new : \E m \in chosen : ReadDir[m] = ReadDir[l]
          /\ \A l, m \in chosen : ReadDir[m] = ReadDir[l] => l = m
          /\ s' = [s EXCEPT !.step = "apply",
                            !.adds = SetToSeq({[part |-> ReadDir[l], loc |-> l] : l \in chosen})]
    BY <2>1 DEF Discover
  <2>3. Added(chosen) = {[part |-> ReadDir[l], loc |-> l] : l \in chosen}
    BY DEF Added
  <2>4. s' = [s EXCEPT !.step = "apply", !.adds = SetToSeq(Added(chosen))]
    BY <2>2, <2>3
  <2>5. chosen \in SUBSET Loc /\ \A l \in chosen : l \in dirs /\ Unregistered(l)
    BY <1>1, <2>1
  <2>6. QED
    BY <2>1, <2>2, <2>4, <2>5
<1>4. \A l \in chosen : ReadDir[l] \in Part /\ l \notin s.taken
  BY <1>3 DEF Unregistered
<1>5. PICK as : as = SetToSeq(Added(chosen))
  OBVIOUS
<1>6. /\ as \in Seq([part : Part, loc : Loc])
      /\ \A i \in DOMAIN as : as[i].loc \in chosen /\ as[i].part = ReadDir[as[i].loc]
      /\ \A i, j \in DOMAIN as : as[i].part = as[j].part => i = j
      /\ \A l \in chosen : \E i \in DOMAIN as : as[i].part = ReadDir[l]
  <2>1. \A l, m \in chosen : ReadDir[m] = ReadDir[l] => l = m
    BY <1>3
  <2>2. \A l \in chosen : ReadDir[l] \in Part
    BY <1>4
  <2>3. AddsOf(as, chosen)
    BY <1>5, <2>1, <2>2, AddedFacts
  <2>4. QED
    BY <2>3 DEF AddsOf
<1>7. /\ KeepsPlan /\ KeepsBound /\ KeepsFound /\ s' \in Statement
      /\ s'.step = "apply" /\ s'.checked = s.checked /\ s'.at = s.at /\ s'.why = s.why
      /\ s'.adds = as /\ s'.drops = s.drops /\ s'.batch = {}
  <2>1. s' = [s EXCEPT !.step = "apply", !.adds = as]
    BY <1>3, <1>5
  <2>2. QED
    BY <1>1, <1>6, <2>1 DEF Statement, Step, KeepsPlan, KeepsBound, KeepsFound
<1>8. TypeOK'
  BY <1>1, <1>7 DEF TypeOK, Own
<1>9. ShapeInv'
  BY <1>1, <1>7 DEF ShapeInv, Own, KeepsPlan, KeepsFound, Early
<1>10. BatchInv' /\ AloneInv'
  BY <1>7 DEF BatchInv, AloneInv, Early
<1>11. ListedInv'
  BY <1>1, <1>2, <1>7 DEF IInv, ListedInv, KeepsPlan, KeepsFound, Own, Before, Exists
<1>12. AddsInv'
  <2>1. \A p \in Part \ touched : ~(Before[p] = Null /\ Exists(p))
    BY <1>2 DEF Exists
  <2>2. \A i \in DOMAIN as : ReadDir[as[i].loc] = as[i].part /\ as[i].loc \notin s.taken
    BY <1>4, <1>6
  <2>3. QED
    BY <1>1, <1>6, <1>7, <2>1, <2>2 DEF AddsInv, KeepsFound, Own, Before, Exists
<1>13. FoundInv'
  <2>1. ASSUME touched = {}, NEW l \in dirs, ReadDir[l] # Null
        PROVE  \/ Exists(ReadDir[l]) \/ \E p \in Part : partition[p] = l
               \/ \E i \in DOMAIN as : as[i].part = ReadDir[l]
    <3>1. CASE Unregistered(l)
      <4>1. PICK m \in chosen : ReadDir[m] = ReadDir[l]
        BY <1>3, <3>1
      <4>2. \E i \in DOMAIN as : as[i].part = ReadDir[m]
        BY <1>6
      <4>3. QED
        BY <4>1, <4>2
    <3>2. CASE ~Unregistered(l)
      <4>1. ReadDir[l] \in s.known \/ l \in s.taken
        BY <2>1, <3>2 DEF Unregistered
      <4>2. QED
        BY <1>1, <2>1, <4>1 DEF IInv, ListedInv
    <3>3. QED
      BY <3>1, <3>2
  <2>2. QED
    BY <1>1, <1>7, <2>1 DEF FoundInv, Own, Exists
<1>14. QED
  BY <1>1, <1>7, <1>8, <1>9, <1>10, <1>11, <1>12, <1>13, RepairIInv

-----------------------------------------------------------------------------
(* Other clients *)

LEMMA OthersIInv ==
  ASSUME IInv, Running, s.step # "start", UNCHANGED <<dirs, s, before>>,
         touched \subseteq touched', touched' \subseteq Part, changes' \in 0 .. MaxChanges,
         partition' \in [Part -> Location], table' \in Definition,
         \A q \in Part \ touched' : partition'[q] = partition[q],
         touched' = {} => partition' = partition,
         before.table.rev <= table'.rev, s.bound.version <= table'.version,
         s.bound.version = table'.version => s.bound.rev = table'.rev, ~Alone'
  PROVE  IInv'
<1>1. TypeOK /\ ShapeInv /\ s.kind \in Kind /\ s.step \in Step
  BY StatementFacts DEF IInv
<1>2. TypeOK'
  BY <1>1 DEF TypeOK
<1>3. ShapeInv' /\ BatchInv'
  BY <1>1 DEF IInv, ShapeInv, BatchInv, FlushAdds, FlushDrops, Flushes, More, Now
<1>4. VersionInv'
  BY DEF VersionInv
<1>5. AloneInv'
  BY DEF IInv, AloneInv, Before
<1>6. KnownInv'
  BY DEF IInv, KnownInv, Before
<1>7. CheckedInv'
  <2>1. ASSUME NEW j, Checked(j) PROVE Checked(j)'
    BY <2>1 DEF Checked, Before
  <2>2. QED
    BY <2>1 DEF IInv, CheckedInv
<1>8. QueueInv'
  BY DEF IInv, QueueInv
<1>9. AheadInv'
  <2> SUFFICES ASSUME s.step = "apply", Apart, NEW j \in s.at .. Len(s.todo),
                      NEW p \in Names(s.todo[j]) \ touched'
               PROVE  partition'[p] = Before[p]
    <3>1. s' = s /\ before' = before
      OBVIOUS
    <3>2. QED
      BY <3>1 DEF AheadInv, Apart, Before
  <2>1. s.at \in 1 .. Len(s.todo) + 1 /\ DOMAIN s.todo = 1 .. Len(s.todo) /\ Len(s.todo) \in Nat
    BY <1>1, StatementFacts DEF ShapeInv
  <2>2. j \in DOMAIN s.todo
    BY <2>1
  <2>3. p \in Part /\ p \notin touched
    BY <1>1, <2>2, NamesFacts
  <2>4. partition[p] = Before[p]
    BY <2>3 DEF IInv, AheadInv
  <2>5. QED
    BY <2>3, <2>4
<1>10. CallInv' /\ FailsAsAWhole'
  BY DEF CallInv, FailsAsAWhole
<1>11. ListedInv'
  <2>1. s.kind = "repair" =>
          \A p \in Part \ touched' : Before[p] # Null => partition'[p] = Before[p]
    BY DEF IInv, ListedInv
  <2>2. QED
    BY <2>1 DEF IInv, ListedInv, Before, Exists
<1>12. AddsInv'
  BY DEF IInv, AddsInv, Before, Exists
<1>13. FoundInv'
  <2>1. ASSUME touched' = {} PROVE touched = {} /\ partition' = partition
    BY <2>1
  <2>2. QED
    BY <2>1 DEF IInv, FoundInv, Exists
<1>14. QED
  BY <1>2, <1>3, <1>4, <1>5, <1>6, <1>7, <1>8, <1>9, <1>10, <1>11, <1>12, <1>13 DEF IInv

LEMMA ChangePartitionIInv ==
  ASSUME IInv, NEW p \in Part, NEW loc \in Location, ChangePartition(p, loc)
  PROVE  IInv'
<1>1. /\ partition \in [Part -> Location] /\ table \in Definition /\ touched \subseteq Part
      /\ changes \in 0 .. MaxChanges
  BY BeforeFacts DEF IInv, TypeOK
<1>2. /\ partition' = [partition EXCEPT ![p] = loc] /\ UNCHANGED table
      /\ s.step # "start" /\ Running /\ changes < MaxChanges /\ changes' = changes + 1
      /\ touched' = touched \cup ({p} \ {Null}) /\ UNCHANGED <<dirs, s, before>>
  BY DEF ChangePartition, Others, Running, Ended
<1>3. touched' = touched \cup {p}
  BY <1>2
<1>4. changes' \in 0 .. MaxChanges
  BY <1>1, <1>2
<1>5. /\ partition' \in [Part -> Location]
      /\ \A q \in Part \ touched' : partition'[q] = partition[q]
  BY <1>1, <1>2, <1>3
<1>6. ~Alone'
  BY <1>3 DEF Alone
<1>7. /\ before.table.rev <= table'.rev /\ s.bound.version <= table'.version
      /\ s.bound.version = table'.version => s.bound.rev = table'.rev
  BY <1>2 DEF IInv, VersionInv
<1>8. QED
  BY <1>1, <1>2, <1>3, <1>4, <1>5, <1>6, <1>7, OthersIInv

LEMMA ChangeTableIInv ==
  ASSUME IInv, ChangeTable
  PROVE  IInv'
<1>1. /\ partition \in [Part -> Location] /\ table \in Definition /\ touched \subseteq Part
      /\ changes \in 0 .. MaxChanges /\ before.table \in Definition /\ s.bound \in Definition
  BY BeforeFacts, StatementFacts DEF IInv, TypeOK
<1>2. /\ table' = [table EXCEPT !.rev = @ + 1, !.version = @ + 1] /\ UNCHANGED partition
      /\ s.step # "start" /\ Running /\ changes < MaxChanges /\ changes' = changes + 1
      /\ touched' = touched \cup ({Null} \ {Null}) /\ UNCHANGED <<dirs, s, before>>
  BY DEF ChangeTable, Others, Running, Ended
<1>3. touched' = touched /\ changes' \in 0 .. MaxChanges
  BY <1>1, <1>2
<1>4. table.rev \in Nat /\ table.version \in Nat /\ before.table.rev \in Nat /\ s.bound.version \in Nat
  BY <1>1 DEF Definition
<1>5. PICK r \in Nat, v \in Nat : r = table.rev + 1 /\ v = table.version + 1
  BY <1>4
<1>6. table' = [table EXCEPT !.rev = r, !.version = v]
  BY <1>2, <1>5
<1>7. table' \in Definition /\ table'.rev = r /\ table'.version = v
  BY <1>1, <1>6 DEF Definition
<1>8. before.table.rev <= table.rev /\ s.bound.version <= table.version
  BY DEF IInv, VersionInv
<1>9. /\ before.table.rev <= table'.rev /\ s.bound.version <= table'.version
      /\ s.bound.version # table'.version /\ table'.rev # before.table.rev
  <2>1. /\ before.table.rev <= r /\ s.bound.version <= v
        /\ s.bound.version # v /\ r # before.table.rev
    <3>1. PICK a \in Nat, b \in Nat, c \in Nat, d \in Nat :
            /\ a = table.rev /\ b = table.version /\ c = before.table.rev /\ d = s.bound.version
      BY <1>4
    <3>2. r = a + 1 /\ v = b + 1 /\ c <= a /\ d <= b
      BY <1>5, <1>8, <3>1
    <3>3. c <= r /\ d <= v /\ d # v /\ r # c
      BY <3>2
    <3>4. QED
      BY <3>1, <3>3
  <2>2. QED
    BY <1>7, <2>1
<1>10. ~Alone'
  BY <1>2, <1>9 DEF Alone
<1>11. QED
  BY <1>1, <1>2, <1>3, <1>7, <1>9, <1>10, OthersIInv

-----------------------------------------------------------------------------
(* The theorems *)

LEMMA InitIInv ==
  ASSUME Init
  PROVE  IInv
<1>1. /\ partition \in [Part -> Location] /\ table \in [loc : Loc, rev : {0}, version : {0}]
      /\ dirs \in SUBSET Loc /\ touched = {} /\ changes = 0
      /\ before = [partition |-> partition, table |-> table]
  BY DEF Init
<1>2. table \in Definition /\ table.rev = 0 /\ table.version = 0
  BY <1>1 DEF Definition
<1>3. PICK kind \in Kind, todo \in Todo \cup {<<>>} :
        /\ s = Started(kind, todo)
        /\ kind = "repair" => todo = <<>>
        /\ kind # "repair" => todo \in Todo
        /\ kind = "call" => Len(todo) = 1
  BY DEF Init, Kind
<1>4. todo \in Seq(Action) /\ \A i \in DOMAIN todo : Parsed(todo[i])
  <2>1. CASE kind = "repair"
    BY <1>3, <2>1
  <2>2. CASE kind # "repair"
    <3>1. PICK A : A = {a \in Action : Parsed(a)}
      OBVIOUS
    <3>2. todo \in Seq(A)
      BY <1>3, <2>2, <3>1
    <3>3. todo \in Seq(Action)
      BY <3>1, <3>2
    <3>4. \A i \in DOMAIN todo : todo[i] \in A
      BY <3>2, SeqElements
    <3>5. QED
      BY <3>1, <3>3, <3>4
  <2>3. QED
    BY <2>1, <2>2
<1>5. PICK cs : cs = [i \in DOMAIN todo |-> Null]
  OBVIOUS
<1>6. cs \in Seq(Location) /\ DOMAIN cs = DOMAIN todo
  <2>1. DOMAIN todo = 1 .. Len(todo) /\ Len(todo) \in Nat
    BY <1>4, SeqElements
  <2>2. Null \in Location
    BY DEF Location
  <2>3. QED
    BY <1>5, <2>1, <2>2
<1>7. /\ s.kind = kind /\ s.todo = todo /\ s.step = "start" /\ s.at = 1 /\ s.keys = {}
      /\ s.known = {} /\ s.taken = {} /\ s.checked = cs /\ s.bound = table /\ s.again = FALSE
      /\ s.adds = <<>> /\ s.drops = <<>> /\ s.batch = {} /\ s.attempt = 0 /\ s.why = "none"
  BY <1>3, <1>5 DEF Started
<1>8. s \in Statement
  BY <1>2, <1>3, <1>4, <1>5, <1>6 DEF Started, Statement, Step
<1>9. TypeOK
  BY <1>1, <1>2, <1>8 DEF TypeOK
<1>10. ShapeInv
  <2>1. Len(todo) \in Nat
    BY <1>4, SeqElements
  <2>2. 1 \in 1 .. Len(todo) + 1
    BY <2>1
  <2>3. QED
    BY <1>1, <1>2, <1>3, <1>4, <1>6, <1>7, <2>2 DEF ShapeInv, Early, Definition
<1>11. BatchInv /\ KnownInv /\ CheckedInv /\ QueueInv /\ AheadInv /\ CallInv /\ FoundInv /\ FailsAsAWhole
  BY <1>7 DEF BatchInv, KnownInv, CheckedInv, QueueInv, AheadInv, CallInv, FoundInv, FailsAsAWhole
<1>12. VersionInv /\ AloneInv
  BY <1>1, <1>2, <1>7 DEF VersionInv, AloneInv, Before
<1>13. ListedInv /\ AddsInv
  BY <1>1, <1>7 DEF ListedInv, AddsInv, Before, Exists
<1>14. QED
  BY <1>9, <1>10, <1>11, <1>12, <1>13 DEF IInv

LEMMA StutterIInv ==
  ASSUME IInv, UNCHANGED vars
  PROVE  IInv'
<1>1. /\ partition' = partition /\ table' = table /\ dirs' = dirs /\ s' = s
      /\ before' = before /\ touched' = touched /\ changes' = changes
  BY DEF vars
<1>2. TypeOK' /\ ShapeInv'
  BY <1>1 DEF IInv, TypeOK, ShapeInv
<1>3. BatchInv'
  BY <1>1 DEF IInv, BatchInv, FlushAdds, FlushDrops, Flushes, More, Now
<1>4. VersionInv' /\ AloneInv'
  BY <1>1 DEF IInv, VersionInv, AloneInv, Before, Alone, Running
<1>5. KnownInv' /\ CheckedInv'
  BY <1>1 DEF IInv, KnownInv, CheckedInv, Before, Checked
<1>6. QueueInv' /\ CallInv'
  BY <1>1 DEF IInv, QueueInv, CallInv, Before, Alone
<1>7. AheadInv'
  BY <1>1 DEF IInv, AheadInv, Before, Apart
<1>8. ListedInv'
  BY <1>1 DEF IInv, ListedInv, Before, Exists
<1>9. AddsInv' /\ FoundInv'
  BY <1>1 DEF IInv, AddsInv, FoundInv, Before, Exists
<1>10. FailsAsAWhole'
  BY <1>1 DEF IInv, FailsAsAWhole, Alone
<1>11. QED
  BY <1>2, <1>3, <1>4, <1>5, <1>6, <1>7, <1>8, <1>9, <1>10 DEF IInv

LEMMA NextIInv ==
  ASSUME IInv, [Next]_vars
  PROVE  IInv'
<1>1. CASE StatementStep
  <2>1. CASE BatchCreate
    BY <2>1, BatchCreateAlterIInv, BatchCreateRepairIInv, CreateFacts
  <2>2. QED
    BY <1>1, <2>1, BindIInv, BatchGetIInv, CheckIInv, BatchDeleteIInv, ApplyQueuesIInv,
       ApplyUpdateIInv, FetchLateIInv, RefetchIInv, ApplyTableIInv, FinishIInv, ReadFailsIInv,
       CallChangesIInv, CallChecksIInv, ListIInv, DiscoverIInv DEF StatementStep
<1>2. CASE \E p \in Part, loc \in Location : ChangePartition(p, loc)
  BY <1>2, ChangePartitionIInv
<1>3. CASE ChangeTable
  BY <1>3, ChangeTableIInv
<1>4. CASE UNCHANGED vars
  BY <1>4, StutterIInv
<1>5. QED
  BY <1>1, <1>2, <1>3, <1>4 DEF Next

\* IInv is an invariant: it holds initially and every step keeps it.
THEOREM Invariance == Spec => []IInv
<1>1. Init => IInv
  BY InitIInv
<1>2. IInv /\ [Next]_vars => IInv'
  BY NextIInv
<1>3. QED
  BY <1>1, <1>2, PTL DEF Spec

\* Every action leaves the partitions, the definition and the statement of their types.
THEOREM TypeCorrectness == Spec => []TypeOK
<1>1. IInv => TypeOK
  BY DEF IInv
<1>2. QED
  BY <1>1, Invariance, PTL

\* An ALTER TABLE or a call that is refused, with nobody in the way, changed nothing: every
\* refusal is found by the checks, before the first action is applied (GlueAlterTableCheck).
THEOREM WholeOrNothing == Spec => []FailsAsAWhole
<1>1. IInv => FailsAsAWhole
  BY DEF IInv
<1>2. QED
  BY <1>1, Invariance, PTL

\* A repair that is done has a partition for every directory, and registered no location
\* twice (GlueRepairTableApply).
THEOREM RepairCompleteness == Spec => []RepairIsComplete
<1>1. IInv => RepairIsComplete
  <2> SUFFICES ASSUME IInv, s.kind = "repair", s.step = "done" PROVE RepairIsComplete
    BY DEF RepairIsComplete
  <2>1. DOMAIN s.adds = {}
    BY DEF IInv, ShapeInv
  <2>2. ASSUME NEW l \in dirs, ReadDir[l] # Null, touched = {}
        PROVE  Exists(ReadDir[l]) \/ \E p \in Part : partition[p] = l
    BY <2>1, <2>2 DEF IInv, FoundInv
  <2>3. ASSUME NEW p \in Part \ touched, NEW q \in Part \ touched, p # q, Exists(p),
               partition[p] = partition[q]
        PROVE  Before[p] = Before[q]
    <3>1. /\ Before[p] # Null => partition[p] = Before[p] /\ Before[p] \in s.taken
          /\ Before[q] # Null => partition[q] = Before[q] /\ Before[q] \in s.taken
      BY DEF IInv, ListedInv
    <3>2. Exists(q)
      BY <2>3 DEF Exists
    <3>3. /\ Before[p] = Null => ReadDir[partition[p]] = p /\ partition[p] \notin s.taken
          /\ Before[q] = Null => ReadDir[partition[q]] = q /\ partition[q] \notin s.taken
      BY <2>3, <3>2 DEF IInv, AddsInv
    <3>4. QED
      BY <2>3, <3>1, <3>3
  <2>4. QED
    BY <2>2, <2>3 DEF RepairIsComplete, Before
<1>2. QED
  BY <1>1, Invariance, PTL

\* SET LOCATION replaces a definition only by one that has every change of other clients:
\* with the VersionId of the definition it read, or not at all (UpdateGlueTable).
THEOREM ChangesStay == Spec => TableChangesStay
<1>1. IInv /\ [Next]_vars => [table'.rev >= table.rev]_vars
  <2> SUFFICES ASSUME IInv, Next PROVE table'.rev >= table.rev
    OBVIOUS
  <2>1. table \in Definition /\ table.rev \in Nat /\ s.bound \in Definition
    BY StatementFacts DEF IInv, TypeOK, Definition
  <2>2. CASE UNCHANGED table
    BY <2>1, <2>2
  <2>3. CASE ChangeTable
    BY <2>1, <2>3 DEF ChangeTable, Definition
  <2>4. CASE ApplyTable
    <3>1. CASE UNCHANGED table
      BY <2>1, <3>1
    <3>2. CASE SameVersion /\ table' = [s.bound EXCEPT !.loc = Now.loc, !.version = table.version + 1]
      <4>1. s.bound.rev = table.rev
        BY <3>2 DEF IInv, VersionInv, SameVersion
      <4>2. table'.rev = s.bound.rev
        BY <2>1, <3>2 DEF Definition
      <4>3. QED
        BY <2>1, <4>1, <4>2
    <3>3. QED
      BY <2>4, <3>1, <3>2 DEF ApplyTable
  <2>5. QED
    BY <2>2, <2>3, <2>4
    DEF Next, StatementStep, Reads, AsBefore, Bind, BatchGet, Check, BatchCreate, BatchDelete,
        ApplyAdd, ApplyDrop, ApplyRename, FetchLate, ApplySet, Refetch, Finish, ReadFails, CallAdd,
        CallDrop, CallFetch, CallFree, List, Discover, ChangePartition
<1>2. QED
  BY <1>1, Invariance, PTL DEF Spec, TableChangesStay

-----------------------------------------------------------------------------
(* The order of the actions *)

\* What h is when it does the actions of a set of positions to parts, the last one last.
FoldOf(todo, parts, n, h) ==
  h = [t \in SUBSET (1 .. n) |->
         IF t = {} THEN parts ELSE Effect(todo[Max(t)], h[t \ {Max(t)}])]

\* The greatest of some positions.
LEMMA LastOf ==
  ASSUME NEW n \in Nat, NEW t \in SUBSET (1 .. n), t # {}
  PROVE  Max(t) \in t /\ \A i \in t : i <= Max(t)
<1>1. PICK T \in SUBSET Nat : T = {n - i : i \in t} /\ T # {}
  <2>1. PICK T : T = {n - i : i \in t}
    OBVIOUS
  <2>2. \A i \in t : n - i \in Nat
    OBVIOUS
  <2>3. T \in SUBSET Nat
    BY <2>1, <2>2
  <2>4. T # {}
    <3>1. PICK i \in t : TRUE
      OBVIOUS
    <3>2. n - i \in T
      BY <2>1
    <3>3. QED
      BY <3>2
  <2>5. QED
    BY <2>1, <2>3, <2>4
<1>2. PICK m \in T : \A k \in T : m <= k
  BY <1>1, FirstFacts
<1>3. PICK x \in t : m = n - x
  BY <1>1, <1>2
<1>4. \A i \in t : x >= i
  <2>1. \A i \in t : n - i \in T /\ n - i \in Nat /\ i \in Nat /\ x \in Nat
    BY <1>1
  <2>2. QED
    BY <1>2, <1>3, <2>1
<1>5. \E y \in t : \A i \in t : y >= i
  BY <1>4
<1>6. Max(t) \in t /\ \A i \in t : Max(t) >= i
  BY <1>5 DEF Max
<1>7. QED
  BY <1>6

\* There is such a function: by induction on n, from a least number without one.
LEMMA FoldExists ==
  ASSUME NEW n \in Nat, NEW todo, NEW parts
  PROVE  \E h : FoldOf(todo, parts, n, h)
<1>1. PICK T \in SUBSET Nat : T = {k \in Nat : ~\E h : FoldOf(todo, parts, k, h)}
  OBVIOUS
<1>2. ASSUME T # {} PROVE FALSE
  <2>1. PICK k \in T : \A j \in T : k <= j
    BY <1>2, FirstFacts
  <2>2. ~\E h : FoldOf(todo, parts, k, h)
    BY <1>1, <2>1
  <2>3. CASE k = 0
    <3>1. PICK h : h = [t \in {{}} |-> parts]
      OBVIOUS
    <3>2. SUBSET (1 .. k) = {{}}
      <4>1. 1 .. k = {}
        BY <2>3
      <4>2. QED
        BY <4>1
    <3>3. FoldOf(todo, parts, k, h)
      BY <3>1, <3>2 DEF FoldOf
    <3>4. QED
      BY <2>2, <3>3
  <2>4. CASE k # 0
    <3>1. k - 1 \in Nat /\ k - 1 \notin T /\ k \in 1 .. k
      BY <2>1, <2>4
    <3>2. PICK g : FoldOf(todo, parts, k - 1, g)
      BY <1>1, <3>1
    <3>3. PICK h : h = [t \in SUBSET (1 .. k) |->
                          IF k \in t THEN Effect(todo[k], g[t \ {k}]) ELSE g[t]]
      OBVIOUS
    <3>4. ASSUME NEW t \in SUBSET (1 .. k)
          PROVE  h[t] = IF t = {} THEN parts ELSE Effect(todo[Max(t)], h[t \ {Max(t)}])
      <4>1. CASE k \in t
        <5>1. Max(t) = k
          <6>1. Max(t) \in t /\ \A i \in t : i <= Max(t)
            BY <2>1, <4>1, LastOf
          <6>2. Max(t) \in 1 .. k /\ k <= Max(t)
            BY <4>1, <6>1
          <6>3. QED
            BY <6>2
        <5>2. h[t \ {k}] = g[t \ {k}]
          BY <3>3
        <5>3. QED
          BY <3>3, <4>1, <5>1, <5>2
      <4>2. CASE k \notin t
        <5>1. t \in SUBSET (1 .. k - 1)
          BY <3>1, <4>2
        <5>2. h[t] = g[t] /\ h[t \ {Max(t)}] = g[t \ {Max(t)}]
          BY <3>3, <4>2
        <5>3. g[t] = IF t = {} THEN parts ELSE Effect(todo[Max(t)], g[t \ {Max(t)}])
          BY <3>2, <5>1 DEF FoldOf
        <5>4. QED
          BY <5>2, <5>3
      <4>3. QED
        BY <4>1, <4>2
    <3>5. h = [t \in SUBSET (1 .. k) |-> h[t]]
      BY <3>3
    <3>6. FoldOf(todo, parts, k, h)
      <4>1. [t \in SUBSET (1 .. k) |-> h[t]] =
              [t \in SUBSET (1 .. k) |->
                 IF t = {} THEN parts ELSE Effect(todo[Max(t)], h[t \ {Max(t)}])]
        BY <3>4
      <4>2. QED
        BY <3>5, <4>1 DEF FoldOf
    <3>7. QED
      BY <2>2, <3>6
  <2>5. QED
    BY <2>3, <2>4
<1>3. QED
  BY <1>1, <1>2

\* d[k] is what the first k actions make of parts.
InSteps(todo, parts, d) ==
  /\ d[0] = parts
  /\ \A k \in 1 .. Len(todo) : d[k] = Effect(todo[k], d[k - 1])
  /\ d[Len(todo)] = InOrder(todo, parts)

\* The actions in order are done one by one.
LEMMA StepsOfOrder ==
  ASSUME NEW todo, Len(todo) \in Nat, DOMAIN todo = 1 .. Len(todo), NEW parts
  PROVE  \E d : InSteps(todo, parts, d)
<1>1. PICK n \in Nat : n = Len(todo)
  OBVIOUS
<1>2. PICK g : g = CHOOSE h : FoldOf(todo, parts, n, h)
  OBVIOUS
<1>3. FoldOf(todo, parts, n, g)
  BY <1>2, FoldExists
<1>4. InOrder(todo, parts) = g[1 .. n]
  <2>1. InOrder(todo, parts) = (CHOOSE h : FoldOf(todo, parts, n, h))[DOMAIN todo]
    BY <1>1 DEF InOrder, FoldLeft, MapThenFoldSet, FoldOf
  <2>2. QED
    BY <1>1, <1>2, <2>1
<1>5. PICK d : d = [k \in 0 .. n |-> g[1 .. k]]
  OBVIOUS
<1>6. d[0] = parts
  <2>1. 1 .. 0 = {} /\ 0 \in 0 .. n
    OBVIOUS
  <2>2. g[{}] = parts
    BY <1>3 DEF FoldOf
  <2>3. QED
    BY <1>5, <2>1, <2>2
<1>7. ASSUME NEW k \in 1 .. n PROVE d[k] = Effect(todo[k], d[k - 1])
  <2>1. PICK t \in SUBSET (1 .. n) : t = 1 .. k /\ t # {} /\ k \in t
    <3>1. 1 .. k \in SUBSET (1 .. n) /\ k \in 1 .. k
      OBVIOUS
    <3>2. QED
      BY <3>1
  <2>2. Max(t) = k
    <3>1. Max(t) \in t /\ \A i \in t : i <= Max(t)
      BY <2>1, LastOf
    <3>2. QED
      BY <2>1, <3>1
  <2>3. t \ {k} = 1 .. (k - 1)
    BY <2>1
  <2>4. g[t] = Effect(todo[k], g[t \ {k}])
    BY <1>3, <2>1, <2>2 DEF FoldOf
  <2>5. d[k] = g[t] /\ d[k - 1] = g[1 .. (k - 1)]
    BY <1>5, <2>1
  <2>6. QED
    BY <2>3, <2>4, <2>5
<1>8. d[n] = InOrder(todo, parts)
  BY <1>4, <1>5
<1>9. QED
  BY <1>1, <1>6, <1>7, <1>8 DEF InSteps

\* An action up to n takes p from its place, or puts another one there.
Taken(todo, p, n) ==
  \E h \in 1 .. n : todo[h].do \in {"drop", "rename"} /\ todo[h].part = p
Placed(todo, p, n) ==
  \E i \in 1 .. n :
    \/ /\ todo[i].part = p
       /\ todo[i].do = "set" \/ (todo[i].do = "add" /\ Taken(todo, p, i - 1))
    \/ todo[i].do = "rename" /\ todo[i].to = p

\* Otherwise it is where it was.
Stays(todo, parts, n, now) ==
  /\ now \in [Part -> Location]
  /\ \A p \in Part : parts[p] # Null =>
       /\ now[p] = Null => Taken(todo, p, n)
       /\ now[p] \in {Null, parts[p]} \/ Placed(todo, p, n)

LEMMA EffectFacts ==
  ASSUME NEW a \in Action, Parsed(a), NEW parts \in [Part -> Location]
  PROVE  /\ Effect(a, parts) \in [Part -> Location]
         /\ a.do = "add" => Effect(a, parts) =
              IF parts[a.part] = Null THEN [parts EXCEPT ![a.part] = a.loc] ELSE parts
         /\ a.do = "drop" => Effect(a, parts) = [parts EXCEPT ![a.part] = Null]
         /\ a.do = "set" => Effect(a, parts) =
              IF parts[a.part] # Null THEN [parts EXCEPT ![a.part] = a.loc] ELSE parts
         /\ a.do = "rename" => Effect(a, parts) =
              IF parts[a.part] # Null /\ parts[a.to] = Null
              THEN [parts EXCEPT ![a.part] = Null, ![a.to] = parts[a.part]] ELSE parts
         /\ a.do = "table" => Effect(a, parts) = parts
<1>1. a.do \in {"add", "drop", "rename", "set", "table"} /\ a.loc \in Location
  BY DEF Action
<1>2. CASE a.do = "add"
  BY <1>1, <1>2 DEF Effect, Parsed
<1>3. CASE a.do = "drop"
  BY <1>1, <1>3 DEF Effect, Parsed, Location
<1>4. CASE a.do = "set"
  BY <1>1, <1>4 DEF Effect, Parsed
<1>5. CASE a.do = "rename"
  <2>1. a.part \in Part /\ a.to \in Part /\ Null \in Location
    BY <1>5 DEF Parsed, Location
  <2>2. Effect(a, parts) = IF parts[a.part] # Null /\ parts[a.to] = Null
                           THEN [parts EXCEPT ![a.part] = Null, ![a.to] = parts[a.part]] ELSE parts
    BY <1>5 DEF Effect
  <2>3. [parts EXCEPT ![a.part] = Null, ![a.to] = parts[a.part]] \in [Part -> Location]
    BY <2>1
  <2>4. QED
    BY <1>5, <2>2, <2>3
<1>6. CASE a.do = "table"
  BY <1>6 DEF Effect
<1>7. QED
  BY <1>1, <1>2, <1>3, <1>4, <1>5, <1>6

\* What has been taken or placed stays so.
LEMMA TakenLater ==
  ASSUME NEW todo, NEW n \in Nat, NEW p
  PROVE  /\ Taken(todo, p, n) => Taken(todo, p, n + 1)
         /\ Placed(todo, p, n) => Placed(todo, p, n + 1)
<1>1. \A i \in 1 .. n : i \in 1 .. n + 1
  OBVIOUS
<1>2. QED
  BY <1>1 DEF Taken, Placed

LEMMA EffectStays ==
  ASSUME NEW todo, NEW n \in Nat, NEW a, a = todo[n + 1], a \in Action, Parsed(a), NEW parts,
         NEW now, Stays(todo, parts, n, now)
  PROVE  Stays(todo, parts, n + 1, Effect(a, now))
<1>1. now \in [Part -> Location] /\ n + 1 \in 1 .. n + 1 /\ (n + 1) - 1 = n
  BY DEF Stays
<1>2. PICK next : next = Effect(a, now)
  OBVIOUS
<1>3. next \in [Part -> Location]
  BY <1>1, <1>2, EffectFacts
<1>4. ASSUME NEW p \in Part, parts[p] # Null
      PROVE  /\ next[p] = Null => Taken(todo, p, n + 1)
             /\ next[p] \in {Null, parts[p]} \/ Placed(todo, p, n + 1)
  <2>1. /\ now[p] = Null => Taken(todo, p, n)
        /\ now[p] \in {Null, parts[p]} \/ Placed(todo, p, n)
    BY <1>4 DEF Stays
  <2>2. /\ Taken(todo, p, n) => Taken(todo, p, n + 1)
        /\ Placed(todo, p, n) => Placed(todo, p, n + 1)
    BY TakenLater
  <2>3. CASE next[p] = now[p]
    BY <2>1, <2>2, <2>3
  <2>4. CASE a.do = "add" /\ next[p] # now[p]
    <3>1. a.part = p /\ next[p] = a.loc /\ now[p] = Null /\ a.loc \in Loc
      BY <1>1, <1>2, <2>4, EffectFacts DEF Parsed
    <3>2. Placed(todo, p, n + 1)
      BY <1>1, <2>1, <2>4, <3>1 DEF Placed
    <3>3. QED
      BY <3>1, <3>2
  <2>5. CASE a.do = "drop" /\ next[p] # now[p]
    <3>1. a.part = p /\ next[p] = Null
      BY <1>1, <1>2, <2>5, EffectFacts DEF Parsed
    <3>2. QED
      BY <1>1, <2>5, <3>1 DEF Taken
  <2>6. CASE a.do = "set" /\ next[p] # now[p]
    <3>1. a.part = p /\ next[p] = a.loc /\ a.loc \in Loc
      BY <1>1, <1>2, <2>6, EffectFacts DEF Parsed
    <3>2. Placed(todo, p, n + 1)
      BY <1>1, <2>6, <3>1 DEF Placed
    <3>3. QED
      BY <3>1, <3>2
  <2>7. CASE a.do = "rename" /\ next[p] # now[p]
    <3>1. /\ a.part \in Part /\ a.to \in Part /\ now[a.part] # Null /\ now[a.to] = Null
          /\ next = [now EXCEPT ![a.part] = Null, ![a.to] = now[a.part]]
      BY <1>1, <1>2, <2>7, EffectFacts DEF Parsed
    <3>2. CASE p = a.part
      <4>1. next[p] = Null
        BY <1>1, <3>1, <3>2
      <4>2. QED
        BY <1>1, <2>7, <3>2, <4>1 DEF Taken
    <3>3. CASE p = a.to
      <4>1. next[p] = now[a.part]
        BY <1>1, <3>1, <3>3
      <4>2. Placed(todo, p, n + 1)
        BY <1>1, <2>7, <3>3 DEF Placed
      <4>3. QED
        BY <3>1, <4>1, <4>2
    <3>4. QED
      BY <1>1, <2>7, <3>1, <3>2, <3>3
  <2>8. a.do = "table" => next = now
    BY <1>1, <1>2, EffectFacts
  <2>9. QED
    BY <2>3, <2>4, <2>5, <2>6, <2>7, <2>8 DEF Action
<1>5. QED
  BY <1>2, <1>3, <1>4 DEF Stays

\* By induction on the number of actions done.
LEMMA StepsStay ==
  ASSUME NEW todo \in Seq(Action), \A i \in 1 .. Len(todo) : Parsed(todo[i]),
         NEW parts \in [Part -> Location], NEW d, InSteps(todo, parts, d),
         NEW n \in 0 .. Len(todo)
  PROVE  Stays(todo, parts, n, d[n])
<1>1. Len(todo) \in Nat /\ \A i \in 1 .. Len(todo) : todo[i] \in Action
  BY SeqElements
<1>2. PICK T \in SUBSET Nat : T = {k \in 0 .. Len(todo) : ~Stays(todo, parts, k, d[k])}
  <2>1. {k \in 0 .. Len(todo) : ~Stays(todo, parts, k, d[k])} \in SUBSET Nat
    BY <1>1
  <2>2. QED
    BY <2>1
<1>3. ASSUME T # {} PROVE FALSE
  <2>1. PICK k \in T : \A j \in T : k <= j
    BY <1>3, FirstFacts
  <2>2. k \in 0 .. Len(todo) /\ ~Stays(todo, parts, k, d[k])
    BY <1>2, <2>1
  <2>3. CASE k = 0
    <3>1. Stays(todo, parts, 0, parts)
      BY DEF Stays
    <3>2. QED
      BY <2>2, <2>3, <3>1 DEF InSteps
  <2>4. CASE k # 0
    <3>1. PICK m \in Nat : k = m + 1 /\ m = k - 1 /\ m \in 0 .. Len(todo) /\ k \in 1 .. Len(todo)
      <4>1. k - 1 \in Nat /\ k = (k - 1) + 1 /\ k - 1 \in 0 .. Len(todo) /\ k \in 1 .. Len(todo)
        BY <1>1, <2>2, <2>4
      <4>2. QED
        BY <4>1
    <3>2. m \notin T
      BY <2>1, <3>1
    <3>3. Stays(todo, parts, m, d[m])
      BY <1>2, <3>1, <3>2
    <3>4. d[k] = Effect(todo[k], d[m]) /\ todo[k] \in Action /\ Parsed(todo[k])
      BY <1>1, <3>1 DEF InSteps
    <3>5. Stays(todo, parts, m + 1, Effect(todo[k], d[m]))
      BY <3>1, <3>3, <3>4, EffectStays
    <3>6. QED
      BY <2>2, <3>1, <3>4, <3>5
  <2>5. QED
    BY <2>3, <2>4
<1>4. QED
  BY <1>2, <1>3

\* What the partitions parts are once the queues are sent: of several adds of one partition
\* that does not exist the first one counts.
LeadsTo(parts, adds, drops, now) ==
  /\ now \in [Part -> Location]
  /\ \A p \in Part :
       /\ p \in ToSet(drops) => now[p] = Null
       /\ p \notin ToSet(drops) =>
            /\ parts[p] # Null \/ (\A i \in DOMAIN adds : adds[i].part # p) => now[p] = parts[p]
            /\ \A i \in DOMAIN adds :
                 (/\ parts[p] = Null /\ adds[i].part = p
                  /\ \A j \in DOMAIN adds : adds[j].part = p => i <= j) => now[p] = adds[i].loc

\* The statement runs undisturbed, and no rename sends what is no longer true.
Ordered == s.kind # "repair" /\ touched = {} /\ ~RenamesMoved

\* The check of a rename fetched what was there when the statement was bound.
FetchedInv ==
  \A j \in DOMAIN s.todo : s.todo[j].do = "rename" =>
    /\ s.kind = "alter" /\ ((s.step = "check" /\ j < s.at) \/ s.step = "apply") =>
         s.checked[j] = Before[s.todo[j].part]
    /\ s.kind = "call" /\ s.step \in {"found", "apply"} =>
         s.checked[j] = Before[s.todo[j].part]

\* Of the batch that is sent, the positions answered have their effect, or that of an earlier one.
SentInv ==
  s.step = "apply" =>
    /\ s.adds = <<>> \/ s.drops = <<>>
    /\ s.batch # {} /\ FlushAdds =>
         \A i \in 1 .. MinOf(CreateSize, Len(s.adds)) \ s.batch :
           \/ Exists(s.adds[i].part)
           \/ \E j \in s.batch : j < i /\ s.adds[j].part = s.adds[i].part
    /\ s.batch # {} /\ ~FlushAdds =>
         \A i \in 1 .. MinOf(DeleteSize, Len(s.drops)) \ s.batch : ~Exists(s.drops[i])

\* The actions so far are done, or queued.
StepsInv ==
  \A d : InSteps(s.todo, Before, d) =>
    /\ s.step = "apply" => LeadsTo(partition, s.adds, s.drops, d[s.at - 1])
    /\ s.step = "done" => partition = d[Len(s.todo)]

OrderInv == Ordered => FetchedInv /\ SentInv /\ StepsInv

\* Without queues that is what is there.
LEMMA LeadsNow ==
  ASSUME NEW parts \in [Part -> Location], NEW now
  PROVE  LeadsTo(parts, <<>>, <<>>, now) <=> now = parts
<1>1. DOMAIN <<>> = {} /\ ToSet(<<>>) = {}
  BY DEF ToSet
<1>2. LeadsTo(parts, <<>>, <<>>, now)
        <=> now \in [Part -> Location] /\ \A p \in Part : now[p] = parts[p]
  BY <1>1 DEF LeadsTo
<1>3. QED
  BY <1>2

\* The statement does not change what it is to do.
SamePlan(t) == t.kind = s.kind /\ t.todo = s.todo

LEMMA StatementPlan ==
  ASSUME IInv, StatementStep
  PROVE  SamePlan(s')
<1>1. s \in Statement
  BY StatementFacts DEF IInv
<1>a. {"kind", "todo"} \subseteq DOMAIN s
  BY <1>1 DEF Statement
<1>b. Done \/ Refused \/ FailsInGlue \/ Applied => SamePlan(s')
  BY <1>a DEF Done, Refused, FailsInGlue, Applied, SamePlan
<1>2. CASE BatchCreate
  <2>1. PICK bad, q : q = [s EXCEPT !.adds = Rest(CreateSize, @)] /\ Answered(bad, q)
    BY <1>2 DEF BatchCreate
  <2>2. SamePlan(q) /\ {"kind", "todo"} \subseteq DOMAIN q
    BY <1>a, <2>1 DEF SamePlan
  <2>3. QED
    BY <1>a, <1>b, <2>1, <2>2 DEF Answered, SamePlan
<1>3. CASE BatchDelete
  <2>1. PICK bad, q : q = [s EXCEPT !.drops = Rest(DeleteSize, @)] /\ Answered(bad, q)
    BY <1>3 DEF BatchDelete
  <2>2. SamePlan(q) /\ {"kind", "todo"} \subseteq DOMAIN q
    BY <1>a, <2>1 DEF SamePlan
  <2>3. QED
    BY <1>a, <1>b, <2>1, <2>2 DEF Answered, SamePlan
<1>4. CASE Bind
  BY <1>1, <1>a, <1>4 DEF Bind, SamePlan, Kind, Statement
<1>5. CASE BatchGet
  BY <1>a, <1>b, <1>5 DEF BatchGet, SamePlan
<1>6. CASE Check \/ FetchLate
  BY <1>a, <1>b, <1>6 DEF Check, FetchLate, SamePlan
<1>7. CASE Refetch \/ Finish \/ ReadFails
  BY <1>a, <1>b, <1>7 DEF Refetch, Finish, ReadFails, SamePlan
<1>8. CASE CallFetch \/ CallFree
  BY <1>a, <1>b, <1>8 DEF CallFetch, CallFree, SamePlan
<1>9. CASE ApplyAdd \/ ApplyDrop \/ ApplyTable
  BY <1>a, <1>b, <1>9 DEF ApplyAdd, ApplyDrop, ApplyTable, SamePlan
<1>10. CASE ApplyRename \/ ApplySet
  BY <1>b, <1>10 DEF ApplyRename, ApplySet, Update
<1>11. CASE CallAdd \/ CallDrop
  BY <1>b, <1>11 DEF CallAdd, CallDrop, CreatePartition, DeletePartition, Change
<1>12. CASE List
  BY <1>a, <1>12 DEF List, SamePlan
<1>13. CASE Discover
  BY <1>a, <1>13 DEF Discover, SamePlan
<1>14. QED
  BY <1>2, <1>3, <1>4, <1>5, <1>6, <1>7, <1>8, <1>9, <1>10, <1>11, <1>12, <1>13 DEF StatementStep

LEMMA PlanStays ==
  ASSUME IInv, Next, Ordered'
  PROVE  /\ s'.kind = s.kind /\ s'.todo = s.todo /\ s'.kind # "repair" /\ Ordered
         /\ before' = before /\ touched = {} /\ touched' = {}
<1>1. touched' = {} /\ s'.kind # "repair"
  BY DEF Ordered
<1>2. CASE StatementStep
  <2>1. before' = before /\ touched' = touched
    BY <1>2
    DEF StatementStep, Reads, AsBefore, Bind, BatchGet, Check, BatchCreate, BatchDelete,
        ApplyAdd, ApplyDrop, ApplyRename, FetchLate, ApplySet, Refetch, ApplyTable, Finish,
        ReadFails, CallAdd, CallDrop, CallFetch, CallFree, List, Discover
  <2>2. QED
    BY <1>1, <1>2, <2>1, StatementPlan DEF Ordered, RenamesMoved, SamePlan
<1>3. CASE \E p \in Part, loc \in Location : ChangePartition(p, loc)
  <2>1. touched' # {}
    BY <1>3 DEF ChangePartition, Others
  <2>2. QED
    BY <1>1, <2>1
<1>4. CASE ChangeTable
  BY <1>1, <1>4 DEF ChangeTable, Others, Ordered, RenamesMoved
<1>5. QED
  BY <1>2, <1>3, <1>4 DEF Next

\* An add is queued behind the others.
LEMMA AddQueued ==
  ASSUME NEW parts \in [Part -> Location], NEW adds \in Seq([part : Part, loc : Loc]),
         NEW a \in Action, Parsed(a), a.do = "add",
         NEW now, LeadsTo(parts, adds, <<>>, now),
         NEW as, as = Append(adds, [part |-> a.part, loc |-> a.loc])
  PROVE  LeadsTo(parts, as, <<>>, Effect(a, now))
<1>1. a.part \in Part /\ a.loc \in Loc /\ now \in [Part -> Location] /\ ToSet(<<>>) = {}
  BY DEF Parsed, LeadsTo, ToSet
<1>2. PICK e : e = [part |-> a.part, loc |-> a.loc]
  OBVIOUS
<1>3. PICK n \in Nat : n = Len(adds) /\ DOMAIN adds = 1 .. n
  OBVIOUS
<1>4. /\ DOMAIN as = 1 .. n + 1 /\ as[n + 1] = e
      /\ \A i \in 1 .. n : as[i] = adds[i]
  BY <1>2, <1>3
<1>5. PICK next \in [Part -> Location] :
        /\ next = Effect(a, now)
        /\ next = IF now[a.part] = Null THEN [now EXCEPT ![a.part] = a.loc] ELSE now
  BY <1>1, EffectFacts
<1>6. \A i \in 1 .. n : adds[i].loc \in Loc
  <2>1. \A i \in DOMAIN adds : adds[i] \in [part : Part, loc : Loc]
    BY SeqElements
  <2>2. QED
    BY <1>3, <2>1
<1>7. ASSUME NEW p \in Part
      PROVE  /\ parts[p] # Null \/ (\A i \in DOMAIN as : as[i].part # p) => next[p] = parts[p]
             /\ \A i \in DOMAIN as :
                  (/\ parts[p] = Null /\ as[i].part = p
                   /\ \A j \in DOMAIN as : as[j].part = p => i <= j) => next[p] = as[i].loc
  <2>1. /\ parts[p] # Null \/ (\A i \in 1 .. n : adds[i].part # p) => now[p] = parts[p]
        /\ \A i \in 1 .. n :
             (/\ parts[p] = Null /\ adds[i].part = p
              /\ \A j \in 1 .. n : adds[j].part = p => i <= j) => now[p] = adds[i].loc
    BY <1>1, <1>3 DEF LeadsTo
  <2>2. ASSUME parts[p] # Null PROVE next[p] = parts[p]
    BY <1>1, <1>5, <2>1, <2>2
  <2>3. ASSUME parts[p] = Null, \A i \in DOMAIN as : as[i].part # p PROVE next[p] = parts[p]
    <3>1. a.part # p
      <4>1. n + 1 \in DOMAIN as
        BY <1>4
      <4>2. QED
        BY <1>2, <1>4, <2>3, <4>1
    <3>2. \A i \in 1 .. n : adds[i].part # p
      <4>1. \A i \in 1 .. n : i \in DOMAIN as
        BY <1>4
      <4>2. QED
        BY <1>4, <2>3, <4>1
    <3>3. QED
      BY <1>1, <1>5, <2>1, <3>1, <3>2
  <2>4. ASSUME NEW i \in DOMAIN as, parts[p] = Null, as[i].part = p,
               \A j \in DOMAIN as : as[j].part = p => i <= j
        PROVE  next[p] = as[i].loc
    <3>1. \A j \in 1 .. n : j \in DOMAIN as
      BY <1>4
    <3>2. CASE i \in 1 .. n
      <4>1. now[p] = adds[i].loc /\ now[p] # Null
        BY <1>4, <1>6, <2>1, <2>4, <3>1, <3>2
      <4>2. next[p] = now[p]
        BY <1>1, <1>5, <4>1
      <4>3. QED
        BY <1>4, <3>2, <4>1, <4>2
    <3>3. CASE i \notin 1 .. n
      <4>1. i = n + 1
        BY <1>4, <3>3
      <4>2. \A j \in 1 .. n : adds[j].part # p
        BY <1>4, <2>4, <3>1, <4>1
      <4>3. now[p] = Null /\ a.part = p
        BY <1>2, <1>4, <2>1, <2>4, <4>1, <4>2
      <4>4. next[p] = a.loc
        BY <1>1, <1>5, <4>3
      <4>5. QED
        BY <1>2, <1>4, <4>1, <4>4
    <3>4. QED
      BY <3>2, <3>3
  <2>5. QED
    BY <2>2, <2>3, <2>4
<1>8. LeadsTo(parts, as, <<>>, next)
  <2>1. next \in [Part -> Location] /\ \A p \in Part : p \notin ToSet(<<>>)
    BY <1>1, <1>5
  <2>2. QED
    BY ONLY <1>7, <2>1 DEF LeadsTo
<1>9. QED
  BY <1>5, <1>8

\* A drop is queued, unless it is.
LEMMA DropQueued ==
  ASSUME NEW parts \in [Part -> Location], NEW drops \in Seq(Part),
         NEW a \in Action, Parsed(a), a.do = "drop",
         NEW now, LeadsTo(parts, <<>>, drops, now),
         NEW ds, ToSet(ds) = ToSet(drops) \cup {a.part}
  PROVE  LeadsTo(parts, <<>>, ds, Effect(a, now))
<1>1. a.part \in Part /\ now \in [Part -> Location] /\ DOMAIN <<>> = {}
  BY DEF Parsed, LeadsTo
<1>2. PICK next \in [Part -> Location] :
        next = Effect(a, now) /\ next = [now EXCEPT ![a.part] = Null]
  BY <1>1, EffectFacts
<1>3. \A p \in Part : /\ p \in ToSet(drops) => now[p] = Null
                      /\ p \notin ToSet(drops) => now[p] = parts[p]
  BY <1>1 DEF LeadsTo
<1>4. \A p \in Part : /\ p \in ToSet(ds) => next[p] = Null
                      /\ p \notin ToSet(ds) => next[p] = parts[p]
  BY <1>1, <1>2, <1>3
<1>5. QED
  BY <1>1, <1>2, <1>4 DEF LeadsTo

\* Positions sent, and which of them has its effect.
FirstIn(adds, sent, p) ==
  CHOOSE i \in sent : /\ adds[i].part = p
                      /\ \A j \in sent : adds[j].part = p => i <= j

LEMMA FirstInFacts ==
  ASSUME NEW adds, NEW sent \in SUBSET Nat, NEW i \in sent, NEW p, adds[i].part = p
  PROVE  /\ FirstIn(adds, sent, p) \in sent
         /\ adds[FirstIn(adds, sent, p)].part = p
         /\ \A j \in sent : adds[j].part = p => FirstIn(adds, sent, p) <= j
<1>1. PICK T \in SUBSET Nat : T = {j \in sent : adds[j].part = p}
  OBVIOUS
<1>2. PICK k \in T : \A j \in T : k <= j
  BY <1>1, FirstFacts
<1>3. \E n \in sent : /\ adds[n].part = p
                      /\ \A j \in sent : adds[j].part = p => n <= j
  BY <1>1, <1>2
<1>4. QED
  BY <1>3 DEF FirstIn

\* Of the first n positions those not in batch have their effect, or that of an earlier one.
SentSome(parts, adds, n, batch) ==
  \A i \in (1 .. n) \ batch :
    \/ parts[adds[i].part] # Null
    \/ \E j \in batch : j < i /\ adds[j].part = adds[i].part

\* Of the first n adds those at sent are sent, those at bad are refused.
AddsAnswered(parts, adds, n, sent, bad, new) ==
  /\ n \in Nat /\ n <= Len(adds) /\ sent \in SUBSET (1 .. n) /\ SentSome(parts, adds, n, sent)
  /\ bad \in SUBSET {FirstIn(adds, sent, adds[i].part) : i \in sent}
  /\ new = [p \in Part |->
       IF parts[p] = Null /\ \E i \in {FirstIn(adds, sent, adds[i].part) : i \in sent} \ bad :
                               adds[i].part = p
       THEN adds[FirstIn(adds, sent, p)].loc ELSE parts[p]]

\* The adds that are answered have the effect the queue had.
LEMMA AddsSent ==
  ASSUME NEW parts \in [Part -> Location], NEW adds \in Seq([part : Part, loc : Loc]),
         NEW n, NEW sent, NEW bad, NEW new, AddsAnswered(parts, adds, n, sent, bad, new),
         NEW now, LeadsTo(parts, adds, <<>>, now)
  PROVE  LeadsTo(new, adds, <<>>, now) /\ SentSome(new, adds, n, bad)
<1> USE DEF AddsAnswered
<1>1. /\ DOMAIN adds = 1 .. Len(adds) /\ Len(adds) \in Nat /\ sent \in SUBSET Nat
      /\ \A i \in 1 .. n : i \in DOMAIN adds
      /\ \A i \in DOMAIN adds : adds[i].part \in Part /\ adds[i].loc \in Loc
  <2>1. \A i \in DOMAIN adds : adds[i] \in [part : Part, loc : Loc]
    BY SeqElements
  <2>2. QED
    BY <2>1
<1>2. PICK firsts : firsts = {FirstIn(adds, sent, adds[i].part) : i \in sent}
  OBVIOUS
<1>3. ASSUME NEW p, NEW i \in sent, adds[i].part = p
      PROVE  /\ FirstIn(adds, sent, p) \in sent \cap firsts
             /\ adds[FirstIn(adds, sent, p)].part = p
             /\ \A j \in sent : adds[j].part = p => FirstIn(adds, sent, p) <= j
  BY <1>1, <1>2, <1>3, FirstInFacts
<1>4. firsts \subseteq sent
  BY <1>2, <1>3
<1>5. ASSUME NEW p \in Part, parts[p] = Null, NEW i \in DOMAIN adds, adds[i].part = p,
             i \in 1 .. n
      PROVE  \E k \in sent : adds[k].part = p /\ k <= i
  <2>1. CASE i \in sent
    BY <1>1, <1>5, <2>1
  <2>2. CASE i \notin sent
    <3>1. PICK j \in sent : j < i /\ adds[j].part = adds[i].part
      BY <1>5, <2>2 DEF SentSome
    <3>2. j <= i
      BY <1>1, <1>5, <3>1
    <3>3. QED
      BY <1>5, <3>1, <3>2
  <2>3. QED
    BY <2>1, <2>2
<1>6. ASSUME NEW p \in Part, new[p] # parts[p]
      PROVE  parts[p] = Null /\ new[p] # Null /\ new[p] = now[p] /\ \E i \in DOMAIN adds : adds[i].part = p
  <2>1. parts[p] = Null /\ \E i \in firsts \ bad : adds[i].part = p
    BY <1>2, <1>6
  <2>2. PICK f \in sent :
          /\ new[p] = adds[f].loc /\ adds[f].part = p
          /\ \A j \in sent : adds[j].part = p => f <= j
    <3>1. PICK i \in sent : adds[i].part = p
      BY <1>4, <2>1
    <3>2. new[p] = adds[FirstIn(adds, sent, p)].loc
      BY <1>2, <2>1
    <3>3. QED
      BY <1>3, <3>1, <3>2
  <2>3. f \in DOMAIN adds /\ f \in 1 .. n
    BY <1>1
  <2>4. ASSUME NEW j \in DOMAIN adds, adds[j].part = p PROVE f <= j
    <3>1. CASE j \in 1 .. n
      <4>1. PICK k \in sent : adds[k].part = p /\ k <= j
        BY <1>5, <2>1, <2>4, <3>1
      <4>2. f <= k /\ k \in Nat /\ f \in Nat /\ j \in Nat
        BY <1>1, <2>2, <4>1
      <4>3. QED
        BY <4>1, <4>2
    <3>2. CASE j \notin 1 .. n
      BY <1>1, <2>3, <3>2
    <3>3. QED
      BY <3>1, <3>2
  <2>5. now[p] = adds[f].loc
    <3>1. p \notin ToSet(<<>>)
      BY DEF ToSet
    <3>2. QED
      BY <2>1, <2>2, <2>3, <2>4, <3>1 DEF LeadsTo
  <2>6. QED
    BY <1>1, <2>1, <2>2, <2>3, <2>5
<1>7. LeadsTo(new, adds, <<>>, now)
  <2>1. now \in [Part -> Location] /\ \A p \in Part : p \notin ToSet(<<>>)
    BY DEF LeadsTo, ToSet
  <2>2. ASSUME NEW p \in Part
        PROVE  /\ new[p] # Null \/ (\A i \in DOMAIN adds : adds[i].part # p) => now[p] = new[p]
               /\ \A i \in DOMAIN adds :
                    (/\ new[p] = Null /\ adds[i].part = p
                     /\ \A j \in DOMAIN adds : adds[j].part = p => i <= j) => now[p] = adds[i].loc
    <3>1. /\ parts[p] # Null \/ (\A i \in DOMAIN adds : adds[i].part # p) => now[p] = parts[p]
          /\ \A i \in DOMAIN adds :
               (/\ parts[p] = Null /\ adds[i].part = p
                /\ \A j \in DOMAIN adds : adds[j].part = p => i <= j) => now[p] = adds[i].loc
      BY <2>1 DEF LeadsTo
    <3>2. CASE new[p] = parts[p]
      BY <3>1, <3>2
    <3>3. CASE new[p] # parts[p]
      BY <1>6, <3>3
    <3>4. QED
      BY <3>2, <3>3
  <2>3. QED
    BY ONLY <2>1, <2>2 DEF LeadsTo
<1>8. ASSUME NEW i \in (1 .. n) \ bad, new[adds[i].part] = Null
      PROVE  \E j \in bad : j < i /\ adds[j].part = adds[i].part
  <2>1. PICK p \in Part : p = adds[i].part
    BY <1>1
  <2>2. parts[p] = Null
    BY <1>6, <1>8, <2>1
  <2>3. PICK k \in sent : adds[k].part = p /\ k <= i
    BY <1>1, <1>5, <2>1, <2>2
  <2>4. PICK f \in sent \cap firsts : f = FirstIn(adds, sent, p) /\ adds[f].part = p /\ f <= k
    BY <1>3, <2>3
  <2>5. f \in bad
    <3>1. ASSUME f \notin bad PROVE FALSE
      <4>1. new[p] = adds[FirstIn(adds, sent, p)].loc
        BY <1>2, <2>2, <2>4, <3>1
      <4>2. new[p] \in Loc
        BY <1>1, <2>4, <4>1
      <4>3. QED
        BY <1>8, <2>1, <4>2
    <3>2. QED
      BY <3>1
  <2>6. f < i
    BY <1>1, <2>3, <2>4, <2>5
  <2>7. QED
    BY <2>1, <2>4, <2>5, <2>6
<1>9. QED
  BY <1>7, <1>8 DEF SentSome

\* A batch of adds that is through leaves the others.
LEMMA AddsRest ==
  ASSUME NEW parts \in [Part -> Location], NEW adds \in Seq([part : Part, loc : Loc]),
         NEW now, LeadsTo(parts, adds, <<>>, now),
         SentSome(parts, adds, MinOf(CreateSize, Len(adds)), {})
  PROVE  LeadsTo(parts, Rest(CreateSize, adds), <<>>, now)
<1>1. PICK size \in Nat \ {0} : size = CreateSize
  OBVIOUS
<1>2. PICK r : r = Rest(size, adds)
  OBVIOUS
<1>3. /\ \A i \in DOMAIN r : size + i \in DOMAIN adds /\ r[i] = adds[size + i]
      /\ \A i \in DOMAIN adds : i > size => i - size \in DOMAIN r
      /\ r \in Seq([part : Part, loc : Loc])
  <2>1. PICK S : S = [part : Part, loc : Loc]
    OBVIOUS
  <2>2. PICK q \in Seq(S) : q = adds
    BY <2>1
  <2>3. /\ r \in Seq(S)
        /\ \A i \in DOMAIN r : size + i \in DOMAIN q /\ r[i] = q[size + i]
        /\ \A i \in DOMAIN q : i > size => i - size \in DOMAIN r
    <3>1. r = Rest(size, q)
      BY <1>2, <2>2
    <3>2. QED
      BY ONLY <1>1, <2>2, <3>1, RestFacts
  <2>4. QED
    BY <2>1, <2>2, <2>3
<1>4. /\ DOMAIN adds \subseteq Nat /\ DOMAIN r \subseteq Nat
      /\ \A i \in DOMAIN adds : i <= size => i \in (1 .. MinOf(size, Len(adds))) \ {}
  BY <1>3 DEF MinOf
<1>5. \A i \in DOMAIN adds : i <= size => parts[adds[i].part] # Null
  BY <1>1, <1>4 DEF SentSome
<1>6. now \in [Part -> Location] /\ \A p \in Part : p \notin ToSet(<<>>)
  BY DEF LeadsTo, ToSet
<1>7. ASSUME NEW p \in Part
      PROVE  /\ parts[p] # Null \/ (\A i \in DOMAIN r : r[i].part # p) => now[p] = parts[p]
             /\ \A i \in DOMAIN r :
                  (/\ parts[p] = Null /\ r[i].part = p
                   /\ \A j \in DOMAIN r : r[j].part = p => i <= j) => now[p] = r[i].loc
  <2>1. /\ parts[p] # Null \/ (\A i \in DOMAIN adds : adds[i].part # p) => now[p] = parts[p]
        /\ \A i \in DOMAIN adds :
             (/\ parts[p] = Null /\ adds[i].part = p
              /\ \A j \in DOMAIN adds : adds[j].part = p => i <= j) => now[p] = adds[i].loc
    BY <1>6 DEF LeadsTo
  <2>2. ASSUME parts[p] = Null, NEW j \in DOMAIN adds, adds[j].part = p
        PROVE  j > size /\ j - size \in DOMAIN r /\ r[j - size].part = p
    <3>1. j > size
      BY <1>4, <1>5, <2>2
    <3>2. j - size \in DOMAIN r /\ j = size + (j - size)
      BY <1>3, <1>4, <3>1
    <3>3. QED
      BY <1>3, <2>2, <3>1, <3>2
  <2>3. ASSUME parts[p] = Null, \A i \in DOMAIN r : r[i].part # p PROVE now[p] = parts[p]
    BY <2>1, <2>2, <2>3
  <2>4. ASSUME NEW i \in DOMAIN r, parts[p] = Null, r[i].part = p,
               \A j \in DOMAIN r : r[j].part = p => i <= j
        PROVE  now[p] = r[i].loc
    <3>1. size + i \in DOMAIN adds /\ r[i] = adds[size + i]
      BY <1>3
    <3>2. ASSUME NEW j \in DOMAIN adds, adds[j].part = p PROVE size + i <= j
      <4>1. j - size \in DOMAIN r /\ r[j - size].part = p
        BY <2>2, <2>4, <3>2
      <4>2. i <= j - size /\ i \in Nat /\ j \in Nat
        BY <1>4, <2>4, <4>1
      <4>3. QED
        BY <4>2
    <3>3. QED
      BY <2>1, <2>4, <3>1, <3>2
  <2>5. QED
    BY <2>1, <2>3, <2>4
<1>8. LeadsTo(parts, r, <<>>, now)
  BY ONLY <1>6, <1>7 DEF LeadsTo
<1>9. QED
  BY <1>1, <1>2, <1>8

\* So for the drops.
DropsAnswered(parts, drops, n, sent, bad, new) ==
  /\ n \in Nat /\ n <= Len(drops) /\ sent \in SUBSET (1 .. n) /\ bad \in SUBSET sent
  /\ \A i \in (1 .. n) \ sent : parts[drops[i]] = Null
  /\ new = [p \in Part |-> IF \E i \in sent \ bad : drops[i] = p THEN Null ELSE parts[p]]

LEMMA DropsSent ==
  ASSUME NEW parts \in [Part -> Location], NEW drops \in Seq(Part),
         NEW n, NEW sent, NEW bad, NEW new, DropsAnswered(parts, drops, n, sent, bad, new),
         NEW now, LeadsTo(parts, <<>>, drops, now)
  PROVE  /\ LeadsTo(new, <<>>, drops, now)
         /\ \A i \in (1 .. n) \ bad : new[drops[i]] = Null
<1> USE DEF DropsAnswered
<1>1. /\ DOMAIN drops = 1 .. Len(drops) /\ \A i \in 1 .. n : i \in DOMAIN drops
      /\ \A i \in DOMAIN drops : drops[i] \in Part /\ drops[i] \in ToSet(drops)
  <2>1. \A i \in DOMAIN drops : drops[i] \in Part /\ DOMAIN drops = 1 .. Len(drops) /\ Len(drops) \in Nat
    BY SeqElements
  <2>2. QED
    BY <2>1 DEF ToSet
<1>2. /\ now \in [Part -> Location] /\ DOMAIN <<>> = {}
      /\ \A p \in Part : /\ p \in ToSet(drops) => now[p] = Null
                         /\ p \notin ToSet(drops) => now[p] = parts[p]
  BY DEF LeadsTo
<1>3. \A p \in Part : p \notin ToSet(drops) => new[p] = parts[p]
  BY <1>1
<1>4. LeadsTo(new, <<>>, drops, now)
  BY <1>2, <1>3 DEF LeadsTo
<1>5. \A i \in (1 .. n) \ bad : new[drops[i]] = Null
  BY <1>1
<1>6. QED
  BY <1>4, <1>5

LEMMA DropsRest ==
  ASSUME NEW parts \in [Part -> Location], NEW drops \in Seq(Part),
         NEW now, LeadsTo(parts, <<>>, drops, now),
         \A i \in 1 .. MinOf(DeleteSize, Len(drops)) : parts[drops[i]] = Null
  PROVE  LeadsTo(parts, <<>>, Rest(DeleteSize, drops), now)
<1>1. PICK size \in Nat \ {0} : size = DeleteSize
  OBVIOUS
<1>2. PICK r : r = Rest(size, drops)
  OBVIOUS
<1>3. /\ \A i \in DOMAIN r : size + i \in DOMAIN drops /\ r[i] = drops[size + i]
      /\ \A i \in DOMAIN drops : i > size => i - size \in DOMAIN r
      /\ r \in Seq(Part)
  <2>1. PICK S : S = Part
    OBVIOUS
  <2>2. PICK q \in Seq(S) : q = drops
    BY <2>1
  <2>3. /\ r \in Seq(S)
        /\ \A i \in DOMAIN r : size + i \in DOMAIN q /\ r[i] = q[size + i]
        /\ \A i \in DOMAIN q : i > size => i - size \in DOMAIN r
    <3>1. r = Rest(size, q)
      BY <1>2, <2>2
    <3>2. QED
      BY ONLY <1>1, <2>2, <3>1, RestFacts
  <2>4. QED
    BY <2>1, <2>2, <2>3
<1>4. /\ DOMAIN drops \subseteq Nat /\ DOMAIN r \subseteq Nat
      /\ \A i \in DOMAIN drops : i <= size => i \in 1 .. MinOf(size, Len(drops))
  BY <1>3 DEF MinOf
<1>5. /\ now \in [Part -> Location] /\ DOMAIN <<>> = {}
      /\ \A p \in Part : /\ p \in ToSet(drops) => now[p] = Null
                         /\ p \notin ToSet(drops) => now[p] = parts[p]
  BY DEF LeadsTo
<1>6. ASSUME NEW p \in Part, p \in ToSet(r) PROVE now[p] = Null
  <2>1. p \in ToSet(drops)
    BY <1>3, <1>6 DEF ToSet
  <2>2. QED
    BY <1>5, <2>1
<1>7. ASSUME NEW p \in Part, p \notin ToSet(r) PROVE now[p] = parts[p]
  <2>1. CASE p \in ToSet(drops)
    <3>1. PICK i \in DOMAIN drops : drops[i] = p
      BY <2>1 DEF ToSet
    <3>2. i <= size
      <4>1. ASSUME ~(i <= size) PROVE FALSE
        <5>1. i - size \in DOMAIN r /\ i = size + (i - size)
          BY <1>3, <1>4, <4>1
        <5>2. r[i - size] = p
          BY <1>3, <3>1, <5>1
        <5>3. QED
          BY <1>7, <5>1, <5>2 DEF ToSet
      <4>2. QED
        BY <4>1
    <3>3. QED
      BY <1>1, <1>4, <1>5, <2>1, <3>1, <3>2
  <2>2. QED
    BY <1>5, <2>1
<1>8. LeadsTo(parts, <<>>, r, now)
  BY <1>5, <1>6, <1>7 DEF LeadsTo
<1>9. QED
  BY <1>1, <1>2, <1>8

-----------------------------------------------------------------------------
(* A step keeps the order *)

\* What is to be shown of a step.
LEMMA OrderStep ==
  ASSUME IInv, OrderInv, Next, Ordered', FetchedInv', SentInv',
         \A d : InSteps(s.todo, Before, d) =>
           /\ s'.step = "apply" => LeadsTo(partition', s'.adds, s'.drops, d[s'.at - 1])
           /\ s'.step = "done" => partition' = d[Len(s.todo)]
  PROVE  OrderInv'
<1>1. s'.todo = s.todo /\ before' = before
  BY PlanStays
<1>2. StepsInv'
  BY <1>1 DEF StepsInv, Before
<1>3. QED
  BY <1>2 DEF OrderInv

LEMMA FailedOrder ==
  ASSUME IInv, OrderInv, Next, Ordered', Refused \/ FailsInGlue
  PROVE  OrderInv'
<1>1. s'.step = "failed"
  <2>1. "step" \in DOMAIN s
    BY StatementFacts DEF IInv, Statement
  <2>2. QED
    BY <2>1 DEF Refused, FailsInGlue
<1>2. FetchedInv' /\ SentInv' /\ StepsInv'
  BY <1>1 DEF FetchedInv, SentInv, StepsInv
<1>3. QED
  BY <1>2 DEF OrderInv

\* While nobody else changes anything, the checks see what was there.
LEMMA EarlyPartitions ==
  ASSUME IInv, touched = {}, s.step \in Early
  PROVE  partition = Before /\ s.adds = <<>> /\ s.drops = <<>> /\ s.batch = {}
<1>1. \A p \in Part \ touched : partition[p] = Before[p]
  BY DEF IInv, AloneInv
<1>2. QED
  BY <1>1, BeforeFacts DEF IInv, ShapeInv

LEMMA EarlyOrder ==
  ASSUME IInv, OrderInv, Next, Ordered', s.step \in Early, Reads, KeepsQueues,
         s'.step \in Early \cup {"apply"}, s'.step = "apply" => s'.at = 1, FetchedInv'
  PROVE  OrderInv'
<1>1. touched = {}
  BY PlanStays
<1>2. /\ partition' = Before /\ s'.adds = <<>> /\ s'.drops = <<>> /\ s'.batch = {}
      /\ Before \in [Part -> Location]
  BY <1>1, EarlyPartitions, BeforeFacts DEF IInv, Reads, KeepsQueues
<1>3. SentInv'
  BY <1>2 DEF SentInv
<1>4. ASSUME NEW d, InSteps(s.todo, Before, d), s'.step = "apply"
      PROVE  LeadsTo(partition', s'.adds, s'.drops, d[s'.at - 1])
  <2>1. d[s'.at - 1] = Before
    BY <1>4 DEF InSteps
  <2>2. QED
    BY <1>2, <2>1, LeadsNow
<1>5. s'.step # "done"
  BY DEF Early
<1>6. QED
  BY <1>3, <1>4, <1>5, OrderStep

LEMMA BindOrder ==
  ASSUME IInv, OrderInv, Next, Ordered', Bind
  PROVE  OrderInv'
<1>1. /\ s \in Statement /\ ShapeInv /\ s.step = "start" /\ Reads /\ s.kind # "repair"
      /\ s.kind \in {"alter", "call"} /\ s.at = 1
      /\ s'.kind = s.kind /\ s'.todo = s.todo
  BY StatementFacts, PlanStays DEF IInv, Bind, Ordered, ShapeInv, Kind
<1>2. CASE s.kind = "alter"
  <2>1. s' = [s EXCEPT !.step = "lookup", !.keys = Lookups(s.todo)]
    BY <1>2 DEF Bind
  <2>2. KeepsQueues /\ s'.step = "lookup"
    BY <1>1, <2>1 DEF Statement, KeepsQueues
  <2>3. FetchedInv'
    BY <1>1, <1>2, <2>2 DEF FetchedInv
  <2>4. QED
    BY <1>1, <2>2, <2>3, EarlyOrder DEF Early
<1>3. CASE s.kind = "call"
  <2>1. PICK x \in {"check", "apply"} :
          s' = [s EXCEPT !.step = x] /\ (x = "apply" => Now.do \notin {"rename", "set"})
    BY <1>3 DEF Bind
  <2>2. KeepsQueues /\ s'.step = x /\ s'.at = 1
    BY <1>1, <2>1 DEF Statement, KeepsQueues
  <2>3. FetchedInv'
    <3>1. DOMAIN s.todo = {1} /\ Now = s.todo[1]
      BY <1>1, <1>3, StatementFacts DEF IInv, ShapeInv, Now
    <3>2. QED
      BY <1>1, <1>3, <2>1, <2>2, <3>1 DEF FetchedInv
  <2>4. QED
    BY <1>1, <2>2, <2>3, EarlyOrder DEF Early
<1>4. QED
  BY <1>1, <1>2, <1>3

LEMMA BatchGetOrder ==
  ASSUME IInv, OrderInv, Next, Ordered', BatchGet
  PROVE  OrderInv'
<1>1. /\ s \in Statement /\ ShapeInv /\ s.step = "lookup" /\ Reads /\ s.at = 1 /\ s.kind = "alter"
      /\ s'.kind = s.kind /\ s'.todo = s.todo
  BY StatementFacts, PlanStays DEF IInv, BatchGet, ShapeInv, Kind
<1>2. ASSUME KeepsQueues, s'.step \in {"lookup", "check"}, s'.at = 1
      PROVE  OrderInv'
  <2>1. \A j \in DOMAIN s.todo : ~(j < 1)
    BY <1>1, StatementFacts DEF IInv
  <2>2. FetchedInv'
    BY <1>1, <1>2, <2>1 DEF FetchedInv
  <2>3. QED
    BY <1>1, <1>2, <2>2, EarlyOrder DEF Early
<1>3. CASE s' = [s EXCEPT !.step = "check", !.attempt = 0]
  BY <1>1, <1>2, <1>3 DEF Statement, KeepsQueues
<1>4. CASE \E got \in SUBSET s.keys :
             s' = [s EXCEPT !.known = @ \cup {p \in got : Exists(p)}, !.keys = @ \ got,
                            !.attempt = NextAttempt(got, @)]
  BY <1>1, <1>2, <1>4 DEF Statement, KeepsQueues
<1>5. CASE FailsInGlue
  BY <1>5, FailedOrder
<1>6. QED
  BY <1>3, <1>4, <1>5 DEF BatchGet

LEMMA CheckOrder ==
  ASSUME IInv, OrderInv, Next, Ordered', Check
  PROVE  OrderInv'
<1>1. /\ s \in Statement /\ ShapeInv /\ s.step = "check" /\ Reads /\ s.kind = "alter"
      /\ s'.kind = s.kind /\ s'.todo = s.todo /\ before' = before /\ FetchedInv
      /\ partition = Before
  BY StatementFacts, PlanStays, EarlyPartitions DEF IInv, Check, OrderInv, Early
<1>2. /\ s.at \in Nat /\ DOMAIN s.todo \subseteq Nat /\ DOMAIN s.checked = DOMAIN s.todo
      /\ \A j \in DOMAIN s.todo : j <= Len(s.todo)
      /\ Len(s.todo) \in Nat /\ s.at \in 1 .. Len(s.todo) + 1
  BY <1>1, StatementFacts DEF IInv, ShapeInv
<1>3. CASE s' = [s EXCEPT !.at = @ + 1,
                          !.checked[s.at] = IF Rewrites(Now) THEN partition[Now.part] ELSE Null]
  <2>1. PICK cs : cs = [s.checked EXCEPT ![s.at] =
                          IF Rewrites(Now) THEN partition[Now.part] ELSE Null]
    OBVIOUS
  <2>2. s' = [s EXCEPT !.at = @ + 1, !.checked = cs]
    BY <1>3, <2>1
  <2>3. KeepsQueues /\ s'.step = "check" /\ s'.at = s.at + 1 /\ s'.checked = cs
    BY <1>1, <2>2 DEF Statement, KeepsQueues
  <2>4. ASSUME NEW j \in DOMAIN s.todo, s.todo[j].do = "rename", j < s.at + 1
        PROVE  cs[j] = Before[s.todo[j].part]
    <3>1. CASE j = s.at
      <4>1. cs[j] = partition[Now.part] /\ Now = s.todo[j]
        BY <1>2, <2>1, <2>4, <3>1 DEF Rewrites, Now
      <4>2. QED
        BY <1>1, <4>1
    <3>2. CASE j # s.at
      <4>1. cs[j] = s.checked[j] /\ j < s.at
        BY <1>2, <2>1, <2>4, <3>2
      <4>2. QED
        BY <1>1, <2>4, <4>1 DEF FetchedInv
    <3>3. QED
      BY <3>1, <3>2
  <2>5. FetchedInv'
    BY <1>1, <2>3, <2>4 DEF FetchedInv, Before
  <2>6. QED
    BY <1>1, <2>3, <2>5, EarlyOrder DEF Early
<1>4. CASE Refused
  BY <1>4, FailedOrder
<1>5. CASE ~More /\ s' = [s EXCEPT !.step = "apply", !.at = 1]
  <2>1. KeepsQueues /\ s'.step = "apply" /\ s'.at = 1 /\ s'.checked = s.checked
    BY <1>1, <1>5 DEF Statement, KeepsQueues
  <2>2. \A j \in DOMAIN s.todo : j < s.at
    BY <1>2, <1>5 DEF More
  <2>3. FetchedInv'
    BY <1>1, <2>1, <2>2 DEF FetchedInv, Before
  <2>4. QED
    BY <1>1, <2>1, <2>3, EarlyOrder DEF Early
<1>6. QED
  BY <1>3, <1>4, <1>5 DEF Check

LEMMA CallChecksOrder ==
  ASSUME IInv, OrderInv, Next, Ordered', CallFetch \/ CallFree
  PROVE  OrderInv'
<1>1. /\ s \in Statement /\ ShapeInv /\ s.step \in {"check", "found"} /\ Reads /\ s.kind = "call"
      /\ s'.kind = s.kind /\ s'.todo = s.todo /\ before' = before /\ FetchedInv
      /\ partition = Before
  BY StatementFacts, PlanStays, EarlyPartitions DEF IInv, CallFetch, CallFree, OrderInv, Early
<1>2. s.at = 1 /\ DOMAIN s.todo = {1} /\ DOMAIN s.checked = {1} /\ Now = s.todo[1]
  BY <1>1, StatementFacts DEF IInv, ShapeInv, Early, Now
<1>3. CASE Refused
  BY <1>3, FailedOrder
<1>4. CASE s.step = "check" /\ CallFetch /\ ~Refused
  <2>1. PICK x \in {"found", "apply"} :
          s' = [s EXCEPT !.step = x, !.checked[1] = partition[Now.part]]
    BY <1>4 DEF CallFetch
  <2>2. PICK cs : cs = [s.checked EXCEPT ![1] = partition[Now.part]]
    OBVIOUS
  <2>3. s' = [s EXCEPT !.step = x, !.checked = cs]
    BY <2>1, <2>2
  <2>4. KeepsQueues /\ s'.step = x /\ s'.at = 1 /\ s'.checked = cs
    BY <1>1, <1>2, <2>3 DEF Statement, KeepsQueues
  <2>5. cs[1] = Before[s.todo[1].part]
    BY <1>1, <1>2, <2>2
  <2>6. FetchedInv'
    BY <1>1, <1>2, <2>4, <2>5 DEF FetchedInv, Before
  <2>7. QED
    BY <1>1, <2>4, <2>6, EarlyOrder DEF Early
<1>5. CASE s.step = "found" /\ s' = [s EXCEPT !.step = "apply"]
  <2>1. KeepsQueues /\ s'.step = "apply" /\ s'.at = 1 /\ s'.checked = s.checked
    BY <1>1, <1>2, <1>5 DEF Statement, KeepsQueues
  <2>2. FetchedInv'
    BY <1>1, <1>5, <2>1 DEF FetchedInv, Before
  <2>3. QED
    BY <1>1, <2>1, <2>2, EarlyOrder DEF Early
<1>6. QED
  BY <1>3, <1>4, <1>5 DEF CallFetch, CallFree

\* The action a statement is at is the next one to be done.
LEMMA StepFacts ==
  ASSUME IInv, OrderInv, Ordered, s.step = "apply",
         NEW d, InSteps(s.todo, Before, d)
  PROVE  /\ LeadsTo(partition, s.adds, s.drops, d[s.at - 1])
         /\ More => d[s.at] = Effect(Now, d[s.at - 1])
         /\ s.at \in Nat /\ (s.at + 1) - 1 = s.at
<1>1. LeadsTo(partition, s.adds, s.drops, d[s.at - 1]) /\ s.at \in Nat
  BY StatementFacts DEF IInv, OrderInv, StepsInv
<1>2. More => d[s.at] = Effect(Now, d[s.at - 1])
  <2>1. More => s.at \in 1 .. Len(s.todo)
    BY NowFacts DEF IInv
  <2>2. QED
    BY <2>1 DEF InSteps, Now
<1>3. QED
  BY <1>1, <1>2

\* Nothing is queued when an action sends a request itself.
LEMMA SendsAlone ==
  ASSUME IInv, NEW do, Applies(do), do \notin {"add", "drop"} \/ s.kind = "call"
  PROVE  s.adds = <<>> /\ s.drops = <<>>
<1>1. s.adds = <<>> /\ ShapeInv
  BY AppliesFacts
<1>2. s.drops = <<>>
  BY <1>1 DEF ShapeInv, Applies, FlushDrops, Flushes
<1>3. QED
  BY <1>1, <1>2

\* A step of the list.
LEMMA ApplyOrder ==
  ASSUME IInv, OrderInv, Next, Ordered', s.step = "apply", s'.step = "apply",
         \A j \in DOMAIN s.todo : s.todo[j].do = "rename" => s'.checked[j] = s.checked[j],
         s'.batch = {}, s'.adds = <<>> \/ s'.drops = <<>>,
         \A d : InSteps(s.todo, Before, d) => LeadsTo(partition', s'.adds, s'.drops, d[s'.at - 1])
  PROVE  OrderInv'
<1>1. s'.kind = s.kind /\ s'.todo = s.todo /\ before' = before /\ FetchedInv
  BY PlanStays DEF OrderInv
<1>2. FetchedInv'
  BY <1>1 DEF FetchedInv, Before
<1>3. SentInv'
  BY DEF SentInv
<1>4. QED
  BY <1>2, <1>3, OrderStep

LEMMA ApplyAddOrder ==
  ASSUME IInv, OrderInv, Next, Ordered', ApplyAdd
  PROVE  OrderInv'
<1>1. /\ s \in Statement /\ s.step = "apply" /\ More /\ Now.do = "add" /\ s.batch = {}
      /\ Now \in Action /\ Parsed(Now) /\ Ordered /\ partition' = partition
      /\ partition \in [Part -> Location] /\ s.adds \in Seq([part : Part, loc : Loc])
  <2>1. Applies("add") /\ partition' = partition
    BY DEF ApplyAdd, Reads
  <2>2. QED
    BY <2>1, AppliesFacts, PlanStays, StatementFacts, BeforeFacts DEF IInv
<1>2. s.drops = <<>>
  BY <1>1 DEF ApplyAdd, Applies, FlushDrops, Flushes
<1>3. PICK as : as = Append(s.adds, [part |-> Now.part, loc |-> Now.loc])
  OBVIOUS
<1>4. s' = [s EXCEPT !.at = @ + 1, !.adds = as]
  BY <1>3 DEF ApplyAdd
<1>5. /\ s'.at = s.at + 1 /\ s'.adds = as /\ s'.drops = <<>> /\ s'.batch = {}
      /\ s'.step = "apply" /\ s'.checked = s.checked
  BY <1>1, <1>2, <1>4 DEF Statement
<1>6. ASSUME NEW d, InSteps(s.todo, Before, d)
      PROVE  LeadsTo(partition', s'.adds, s'.drops, d[s'.at - 1])
  <2>1. /\ LeadsTo(partition, s.adds, <<>>, d[s.at - 1]) /\ d[s.at] = Effect(Now, d[s.at - 1])
        /\ d[s'.at - 1] = d[s.at]
    BY <1>1, <1>2, <1>5, <1>6, StepFacts
  <2>2. LeadsTo(partition, as, <<>>, Effect(Now, d[s.at - 1]))
    BY <1>1, <1>3, <2>1, AddQueued
  <2>3. QED
    BY <1>1, <1>5, <2>1, <2>2
<1>7. QED
  BY <1>1, <1>5, <1>6, ApplyOrder

LEMMA ApplyDropOrder ==
  ASSUME IInv, OrderInv, Next, Ordered', ApplyDrop
  PROVE  OrderInv'
<1>1. /\ s \in Statement /\ s.step = "apply" /\ More /\ Now.do = "drop" /\ s.batch = {}
      /\ Now \in Action /\ Parsed(Now) /\ Ordered /\ partition' = partition
      /\ partition \in [Part -> Location] /\ s.drops \in Seq(Part) /\ s.adds = <<>>
  <2>1. Applies("drop") /\ partition' = partition
    BY DEF ApplyDrop, Reads
  <2>2. QED
    BY <2>1, AppliesFacts, PlanStays, StatementFacts, BeforeFacts DEF IInv
<1>2. Now.part \in Part
  BY <1>1 DEF Parsed
<1>3. PICK ds : ds = IF Now.part \in ToSet(s.drops) THEN s.drops ELSE Append(s.drops, Now.part)
  OBVIOUS
<1>4. ToSet(ds) = ToSet(s.drops) \cup {Now.part}
  <2>1. CASE Now.part \in ToSet(s.drops)
    BY <1>3, <2>1
  <2>2. CASE Now.part \notin ToSet(s.drops)
    <3>1. PICK q \in Seq(Part), e \in Part : q = s.drops /\ e = Now.part
      BY <1>1, <1>2
    <3>2. /\ Len(Append(q, e)) = Len(q) + 1 /\ Append(q, e)[Len(q) + 1] = e
          /\ DOMAIN Append(q, e) = 1 .. Len(q) + 1 /\ Len(q) \in Nat /\ DOMAIN q = 1 .. Len(q)
          /\ \A i \in 1 .. Len(q) : Append(q, e)[i] = q[i]
      OBVIOUS
    <3>3. PICK a : a = Append(q, e)
      OBVIOUS
    <3>4. \A i \in 1 .. Len(q) : i \in DOMAIN a /\ a[i] = q[i]
      BY <3>2, <3>3
    <3>5. Len(q) + 1 \in DOMAIN a /\ a[Len(q) + 1] = e
      BY <3>2, <3>3
    <3>6. \A i \in DOMAIN a : i \in 1 .. Len(q) \/ i = Len(q) + 1
      BY <3>2, <3>3
    <3>7. {a[i] : i \in DOMAIN a} = {q[i] : i \in DOMAIN q} \cup {e}
      BY <3>2, <3>4, <3>5, <3>6
    <3>8. ToSet(a) = ToSet(q) \cup {e}
      BY ONLY <3>7 DEF ToSet
    <3>9. ds = a
      BY <1>3, <2>2, <3>1, <3>3
    <3>10. QED
      BY <3>1, <3>8, <3>9
  <2>3. QED
    BY <2>1, <2>2
<1>5. s' = [s EXCEPT !.at = @ + 1, !.drops = ds]
  BY <1>3 DEF ApplyDrop
<1>6. /\ s'.at = s.at + 1 /\ s'.adds = <<>> /\ s'.drops = ds /\ s'.batch = {}
      /\ s'.step = "apply" /\ s'.checked = s.checked
  BY <1>1, <1>5 DEF Statement
<1>7. ASSUME NEW d, InSteps(s.todo, Before, d)
      PROVE  LeadsTo(partition', s'.adds, s'.drops, d[s'.at - 1])
  <2>1. /\ LeadsTo(partition, <<>>, s.drops, d[s.at - 1]) /\ d[s.at] = Effect(Now, d[s.at - 1])
        /\ d[s'.at - 1] = d[s.at]
    BY <1>1, <1>6, <1>7, StepFacts
  <2>2. LeadsTo(partition, <<>>, ds, Effect(Now, d[s.at - 1]))
    BY <1>1, <1>4, <2>1, DropQueued
  <2>3. QED
    BY <1>1, <1>6, <2>1, <2>2
<1>8. QED
  BY <1>1, <1>6, <1>7, ApplyOrder

\* A step that leaves the list where it is.
LEMMA FetchOrder ==
  ASSUME IInv, OrderInv, Next, Ordered', FetchLate \/ Refetch
  PROVE  OrderInv'
<1>1. PICK do \in {"set", "table"} : Applies(do)
  BY DEF FetchLate, Refetch
<1>2. /\ s \in Statement /\ s.step = "apply" /\ More /\ Now.do \in {"set", "table"} /\ s.batch = {}
      /\ Ordered /\ partition' = partition /\ s.adds = <<>> /\ s.drops = <<>>
      /\ s.at \in DOMAIN s.todo
  BY <1>1, AppliesFacts, SendsAlone, PlanStays, StatementFacts DEF FetchLate, Refetch, Reads
<1>3. ASSUME s'.at = s.at, s'.adds = <<>>, s'.drops = <<>>, s'.batch = {}, s'.step = "apply",
             \A j \in DOMAIN s.todo : s.todo[j].do = "rename" => s'.checked[j] = s.checked[j]
      PROVE  OrderInv'
  <2>1. ASSUME NEW d, InSteps(s.todo, Before, d)
        PROVE  LeadsTo(partition', s'.adds, s'.drops, d[s'.at - 1])
    BY <1>2, <1>3, <2>1, StepFacts
  <2>2. QED
    BY <1>2, <1>3, <2>1, ApplyOrder
<1>4. CASE FetchLate /\ ~Refused
  <2>1. PICK cs : cs = [s.checked EXCEPT ![s.at] = partition[Now.part]]
    OBVIOUS
  <2>2. s' = [s EXCEPT !.checked = cs]
    BY <1>4, <2>1 DEF FetchLate
  <2>3. \A j \in DOMAIN s.todo : s.todo[j].do = "rename" => cs[j] = s.checked[j]
    <3>1. s.todo[s.at].do # "rename" /\ DOMAIN s.checked = DOMAIN s.todo
      BY <1>2 DEF Now, IInv, ShapeInv
    <3>2. QED
      BY <2>1, <3>1
  <2>4. QED
    BY <1>2, <1>3, <2>2, <2>3 DEF Statement
<1>5. CASE Refused
  BY <1>5, FailedOrder
<1>6. CASE Refetch
  <2>1. s' = [s EXCEPT !.bound = table, !.again = FALSE]
    BY <1>6 DEF Refetch
  <2>2. QED
    BY <1>2, <1>3, <2>1 DEF Statement
<1>7. QED
  BY <1>4, <1>5, <1>6

\* A partition a rename still finds is the one its check fetched.
LEMMA RenameUnmoved ==
  ASSUME IInv, OrderInv, Ordered, Applies("rename"), Exists(Now.part),
         NEW d, InSteps(s.todo, Before, d)
  PROVE  s.checked[s.at] = partition[Now.part]
<1>1. /\ TypeOK /\ ShapeInv /\ s.step = "apply" /\ More /\ Now.do = "rename"
      /\ s.at \in DOMAIN s.todo /\ s.at \in 1 .. Len(s.todo) /\ Parsed(Now)
      /\ s.kind \in {"alter", "call"} /\ s.adds = <<>> /\ s.drops = <<>>
  BY AppliesFacts, SendsAlone
<1>2. PICK p \in Part : p = Now.part /\ p = s.todo[s.at].part
  BY <1>1 DEF Parsed, Now
<1>3. s.checked[s.at] = Before[p]
  BY <1>1, <1>2 DEF OrderInv, FetchedInv, Now
<1>4. /\ partition = d[s.at - 1] /\ s.at \in Nat /\ touched = {}
      /\ partition \in [Part -> Location] /\ Before \in [Part -> Location]
  BY <1>1, StepFacts, LeadsNow, BeforeFacts DEF Ordered
<1>5. CASE s.kind = "call"
  <2>1. s.at = 1
    <3>1. Len(s.todo) = 1
      BY <1>1, <1>5 DEF ShapeInv
    <3>2. QED
      BY <1>1, <3>1
  <2>2. partition = Before
    BY <1>4, <2>1 DEF InSteps
  <2>3. QED
    BY <1>2, <1>3, <2>2
<1>6. CASE s.kind = "alter"
  <2>1. Before[p] # Null
    BY <1>1, <1>2, <1>4, <1>6 DEF IInv, CheckedInv, Checked, Now
  <2>2. PICK n \in 0 .. Len(s.todo) : n = s.at - 1
    BY <1>1, <1>4
  <2>3. Stays(s.todo, Before, n, partition)
    <3>1. s.todo \in Seq(Action) /\ \A i \in 1 .. Len(s.todo) : Parsed(s.todo[i])
      BY <1>1, StatementFacts DEF ShapeInv
    <3>2. Stays(s.todo, Before, n, d[n])
      BY <1>4, <3>1, StepsStay
    <3>3. QED
      BY <1>4, <2>2, <3>2
  <2>4. ~Placed(s.todo, p, n)
    <3>1. SUFFICES ASSUME NEW i \in 1 .. n,
                          \/ /\ s.todo[i].part = p
                             /\ \/ s.todo[i].do = "set"
                                \/ s.todo[i].do = "add" /\ Taken(s.todo, p, i - 1)
                          \/ s.todo[i].do = "rename" /\ s.todo[i].to = p
                   PROVE  FALSE
      BY DEF Placed
    <3>2. i \in DOMAIN s.todo /\ i < s.at
      <4>1. DOMAIN s.todo = 1 .. Len(s.todo) /\ Len(s.todo) \in Nat
        BY <1>1, StatementFacts
      <4>2. QED
        BY <1>1, <1>4, <2>2, <4>1
    <3>3. CASE s.todo[i].part = p /\ (s.todo[i].do = "set" \/ (s.todo[i].do = "add" /\ Taken(s.todo, p, i - 1)))
      <4>1. RenamesMoved
        <5>1. s.todo[s.at].do = "rename" /\ s.todo[i].part = s.todo[s.at].part
          BY <1>1, <1>2, <3>3 DEF Now
        <5>2. CASE s.todo[i].do = "set"
          BY <1>1, <3>2, <5>1, <5>2 DEF RenamesMoved
        <5>3. CASE s.todo[i].do = "add" /\ Taken(s.todo, p, i - 1)
          <6>1. \E h \in 1 .. i - 1 : s.todo[h].do \in {"drop", "rename"}
                                      /\ s.todo[h].part = s.todo[i].part
            BY <3>3, <5>3 DEF Taken
          <6>2. QED
            BY <1>1, <3>2, <5>1, <5>3, <6>1 DEF RenamesMoved
        <5>4. QED
          BY <3>3, <5>2, <5>3
      <4>2. QED
        BY <4>1 DEF Ordered
    <3>4. CASE s.todo[i].do = "rename" /\ s.todo[i].to = p
      <4>1. p \notin s.known
        BY <1>1, <1>6, <3>2, <3>4 DEF IInv, CheckedInv, Checked
      <4>2. p \in Lookups(s.todo) \ (s.keys \cup touched)
        BY <1>1, <1>4, <1>6, <3>2, <3>4, LookupsFacts DEF IInv, KnownInv
      <4>3. QED
        BY <1>1, <1>6, <2>1, <4>1, <4>2 DEF IInv, KnownInv
    <3>5. QED
      BY <3>1, <3>3, <3>4
  <2>5. partition[p] \in {Null, Before[p]}
    BY <2>1, <2>3, <2>4 DEF Stays
  <2>6. QED
    BY <1>2, <1>3, <2>5 DEF Exists
<1>7. QED
  BY <1>1, <1>5, <1>6

LEMMA ApplyUpdateOrder ==
  ASSUME IInv, OrderInv, Next, Ordered', ApplyRename \/ ApplySet
  PROVE  OrderInv'
<1>1. PICK do \in {"set", "rename"} :
        /\ Applies(do)
        /\ do = "rename" => Update(Now.part, Now.to, s.checked[s.at])
        /\ do = "set" => Update(Now.part, Now.part, Now.loc)
  BY DEF ApplyRename, ApplySet
<1>2. /\ s \in Statement /\ s.step = "apply" /\ More /\ Now.do = do /\ s.batch = {}
      /\ Ordered /\ s.adds = <<>> /\ s.drops = <<>> /\ Now \in Action /\ Parsed(Now)
      /\ partition \in [Part -> Location] /\ Now.part \in Part
      /\ do = "rename" => Now.to \in Part
  BY <1>1, AppliesFacts, SendsAlone, PlanStays, StatementFacts, BeforeFacts DEF IInv, Parsed
<1>3. CASE Refused \/ FailsInGlue
  BY <1>3, FailedOrder
<1>4. CASE Applied /\ ~Refused /\ ~FailsInGlue
  <2>1. /\ s'.at = s.at + 1 /\ s'.adds = <<>> /\ s'.drops = <<>> /\ s'.batch = {}
        /\ s'.step = "apply" /\ s'.checked = s.checked
    BY <1>2, <1>4 DEF Statement, Applied
  <2>2. Exists(Now.part)
    BY <1>1, <1>4 DEF Update
  <2>3. ASSUME NEW d, InSteps(s.todo, Before, d)
        PROVE  LeadsTo(partition', s'.adds, s'.drops, d[s'.at - 1])
    <3>1. /\ partition = d[s.at - 1] /\ d[s.at] = Effect(Now, partition)
          /\ d[s'.at - 1] = d[s.at]
      BY <1>2, <2>1, <2>3, StepFacts, LeadsNow
    <3>2. partition' = Effect(Now, partition)
      <4>1. CASE do = "set"
        <5>1. partition' = [partition EXCEPT ![Now.part] = Null, ![Now.part] = Now.loc]
          BY <1>1, <1>4, <4>1 DEF Update
        <5>2. Effect(Now, partition) = [partition EXCEPT ![Now.part] = Now.loc]
          BY <1>2, <2>2, <4>1, EffectFacts DEF Exists
        <5>3. QED
          BY <1>2, <5>1, <5>2
      <4>2. CASE do = "rename"
        <5>1. s.checked[s.at] = partition[Now.part]
          BY <1>1, <1>2, <2>2, <2>3, <4>2, RenameUnmoved
        <5>2. /\ partition' = [partition EXCEPT ![Now.part] = Null, ![Now.to] = partition[Now.part]]
              /\ Now.to = Now.part \/ ~Exists(Now.to)
          BY <1>1, <1>4, <4>2, <5>1 DEF Update
        <5>3. Effect(Now, partition) =
                IF partition[Now.part] # Null /\ partition[Now.to] = Null
                THEN [partition EXCEPT ![Now.part] = Null, ![Now.to] = partition[Now.part]]
                ELSE partition
          BY <1>2, <4>2, EffectFacts
        <5>4. CASE Now.to = Now.part
          BY <1>2, <2>2, <4>2, <5>2, <5>3, <5>4 DEF Exists
        <5>5. CASE ~Exists(Now.to)
          BY <2>2, <5>2, <5>3, <5>5 DEF Exists
        <5>6. QED
          BY <5>2, <5>4, <5>5
      <4>3. QED
        BY <4>1, <4>2
    <3>3. PICK new \in [Part -> Location] : new = Effect(Now, partition)
      BY <1>2, EffectFacts
    <3>4. QED
      BY <2>1, <3>1, <3>2, <3>3, LeadsNow
  <2>4. QED
    BY <1>2, <2>1, <2>3, ApplyOrder
<1>5. QED
  BY <1>1, <1>3, <1>4 DEF Update

LEMMA ApplyTableOrder ==
  ASSUME IInv, OrderInv, Next, Ordered', ApplyTable
  PROVE  OrderInv'
<1>1. /\ s \in Statement /\ s.step = "apply" /\ More /\ Now.do = "table" /\ s.batch = {}
      /\ Ordered /\ s.adds = <<>> /\ s.drops = <<>> /\ Now \in Action /\ Parsed(Now)
      /\ partition \in [Part -> Location] /\ partition' = partition
  <2>1. Applies("table") /\ partition' = partition
    BY DEF ApplyTable
  <2>2. QED
    BY <2>1, AppliesFacts, SendsAlone, PlanStays, StatementFacts, BeforeFacts DEF IInv
<1>2. CASE Refused \/ FailsInGlue
  BY <1>2, FailedOrder
<1>3. CASE s' = [s EXCEPT !.at = @ + 1, !.again = TRUE]
  <2>1. /\ s'.at = s.at + 1 /\ s'.adds = <<>> /\ s'.drops = <<>> /\ s'.batch = {}
        /\ s'.step = "apply" /\ s'.checked = s.checked
    BY <1>1, <1>3 DEF Statement
  <2>2. ASSUME NEW d, InSteps(s.todo, Before, d)
        PROVE  LeadsTo(partition', s'.adds, s'.drops, d[s'.at - 1])
    <3>1. /\ partition = d[s.at - 1] /\ d[s.at] = Effect(Now, partition)
          /\ d[s'.at - 1] = d[s.at]
      BY <1>1, <2>1, <2>2, StepFacts, LeadsNow
    <3>2. Effect(Now, partition) = partition
      BY <1>1, EffectFacts
    <3>3. QED
      BY <1>1, <2>1, <3>1, <3>2, LeadsNow
  <2>3. QED
    BY <1>1, <2>1, <2>2, ApplyOrder
<1>4. QED
  BY <1>2, <1>3 DEF ApplyTable

LEMMA BatchCreateOrder ==
  ASSUME IInv, OrderInv, Next, Ordered', BatchCreate
  PROVE  OrderInv'
<1>1. /\ s \in Statement /\ s.step = "apply" /\ FlushAdds /\ Ordered /\ SentInv /\ FetchedInv
      /\ s.adds \in Seq([part : Part, loc : Loc]) /\ partition \in [Part -> Location]
      /\ s'.kind = s.kind /\ s'.todo = s.todo /\ before' = before
  BY StatementFacts, PlanStays, BeforeFacts DEF IInv, BatchCreate, OrderInv
<1>2. s.drops = <<>>
  BY <1>1 DEF SentInv, FlushAdds
<1>3. PICK n \in Nat : n = MinOf(CreateSize, Len(s.adds)) /\ n <= Len(s.adds)
  <2>1. Len(s.adds) \in Nat
    BY <1>1
  <2>2. QED
    BY <2>1 DEF MinOf
<1>4. PICK sent \in SUBSET (1 .. n) :
        /\ sent = Pending(CreateSize, s.adds) /\ SentSome(partition, s.adds, n, sent)
  <2>1. s.batch # {} => s.batch \in SUBSET (1 .. n)
    BY <1>1, <1>3 DEF IInv, BatchInv
  <2>2. CASE s.batch = {}
    BY <1>3, <2>2 DEF Pending, SentSome
  <2>3. CASE s.batch # {}
    <3>1. SentSome(partition, s.adds, n, s.batch)
      BY <1>1, <1>3, <2>3 DEF SentInv, SentSome, Exists
    <3>2. QED
      BY <2>1, <2>3, <3>1 DEF Pending
  <2>4. QED
    BY <2>2, <2>3
<1>5. PICK bad \in SUBSET {FirstIn(s.adds, sent, s.adds[i].part) : i \in sent} :
        /\ partition' = [p \in Part |->
             IF partition[p] = Null
                /\ \E i \in {FirstIn(s.adds, sent, s.adds[i].part) : i \in sent} \ bad : s.adds[i].part = p
             THEN s.adds[FirstIn(s.adds, sent, p)].loc ELSE partition[p]]
        /\ Answered(bad, [s EXCEPT !.adds = Rest(CreateSize, @)])
  <2>1. \E bad \in SUBSET {FirstIn(s.adds, Pending(CreateSize, s.adds), s.adds[i].part) :
                           i \in Pending(CreateSize, s.adds)} :
          /\ partition' = [p \in Part |->
               IF ~Exists(p) /\ \E i \in {FirstIn(s.adds, Pending(CreateSize, s.adds), s.adds[i].part) :
                                        i \in Pending(CreateSize, s.adds)} \ bad : s.adds[i].part = p
               THEN s.adds[FirstIn(s.adds, Pending(CreateSize, s.adds), p)].loc ELSE partition[p]]
          /\ Answered(bad, [s EXCEPT !.adds = Rest(CreateSize, @)])
    BY DEF BatchCreate, FirstIn
  <2>2. QED
    BY <1>4, <2>1 DEF Exists
<1>6. PICK new : new = partition'
  OBVIOUS
<1>7. ASSUME NEW d, InSteps(s.todo, Before, d)
      PROVE  LeadsTo(new, s.adds, <<>>, d[s.at - 1]) /\ SentSome(new, s.adds, n, bad)
  <2>1. LeadsTo(partition, s.adds, <<>>, d[s.at - 1])
    BY <1>1, <1>2, <1>7, StepFacts
  <2>2. AddsAnswered(partition, s.adds, n, sent, bad, new)
    BY <1>3, <1>4, <1>5, <1>6 DEF AddsAnswered
  <2>3. PICK parts \in [Part -> Location], adds \in Seq([part : Part, loc : Loc]) :
          parts = partition /\ adds = s.adds
    BY <1>1
  <2>8. PICK now : now = d[s.at - 1]
    OBVIOUS
  <2>4. AddsAnswered(parts, adds, n, sent, bad, new) /\ LeadsTo(parts, adds, <<>>, now)
    BY <2>1, <2>2, <2>3, <2>8
  <2>5. LeadsTo(new, adds, <<>>, now) /\ SentSome(new, adds, n, bad)
    BY ONLY <2>4, AddsSent
  <2>6. QED
    BY <2>3, <2>5, <2>8
<1>8. new \in [Part -> Location] /\ SentSome(new, s.adds, n, bad)
  <2>1. \E d : InSteps(s.todo, Before, d)
    <3>1. Len(s.todo) \in Nat /\ DOMAIN s.todo = 1 .. Len(s.todo)
      BY StatementFacts DEF IInv
    <3>2. QED
      BY <3>1, StepsOfOrder
  <2>2. new \in [Part -> Location]
    <3>1. IInv'
      BY NextIInv
    <3>2. QED
      BY <1>6, <3>1 DEF IInv, TypeOK
  <2>3. QED
    BY <1>7, <2>1, <2>2
<1>9. CASE bad = {} /\ s' = [[s EXCEPT !.adds = Rest(CreateSize, @)] EXCEPT !.batch = {}, !.attempt = 0]
  <2>1. /\ s'.at = s.at /\ s'.adds = Rest(CreateSize, s.adds) /\ s'.drops = <<>> /\ s'.batch = {}
        /\ s'.step = "apply" /\ s'.checked = s.checked
    BY <1>1, <1>2, <1>9 DEF Statement
  <2>2. ASSUME NEW d, InSteps(s.todo, Before, d)
        PROVE  LeadsTo(partition', s'.adds, s'.drops, d[s'.at - 1])
    <3>1. LeadsTo(new, s.adds, <<>>, d[s.at - 1]) /\ SentSome(new, s.adds, n, {})
      BY <1>7, <1>9, <2>2
    <3>2. LeadsTo(new, Rest(CreateSize, s.adds), <<>>, d[s.at - 1])
      BY <1>1, <1>3, <1>8, <3>1, AddsRest
    <3>3. QED
      BY <1>6, <2>1, <3>2
  <2>3. QED
    BY <1>1, <2>1, <2>2, ApplyOrder
<1>10. CASE bad # {} /\ MaySendAgain /\ s' = [s EXCEPT !.batch = bad, !.attempt = @ + 1]
  <2>1. /\ s'.at = s.at /\ s'.adds = s.adds /\ s'.drops = <<>> /\ s'.batch = bad
        /\ s'.step = "apply" /\ s'.checked = s.checked
    BY <1>1, <1>2, <1>10 DEF Statement
  <2>2. FetchedInv'
    BY <1>1, <2>1 DEF FetchedInv, Before
  <2>3. SentInv'
    <3>1. \A i \in (1 .. n) \ bad : \/ partition'[s.adds[i].part] # Null
                                    \/ \E j \in bad : j < i /\ s.adds[j].part = s.adds[i].part
      BY <1>6, <1>8 DEF SentSome
    <3>2. FlushAdds'
      BY <1>1, <2>1 DEF FlushAdds, Flushes, More, Now
    <3>3. QED
      BY <1>3, <2>1, <3>1, <3>2 DEF SentInv, Exists
  <2>4. ASSUME NEW d, InSteps(s.todo, Before, d)
        PROVE  LeadsTo(partition', s'.adds, s'.drops, d[s'.at - 1])
    BY <1>6, <1>7, <2>1, <2>4
  <2>5. QED
    BY <2>1, <2>2, <2>3, <2>4, OrderStep
<1>11. CASE FailsInGlue
  BY <1>11, FailedOrder
<1>12. QED
  BY <1>5, <1>9, <1>10, <1>11 DEF Answered

LEMMA BatchDeleteOrder ==
  ASSUME IInv, OrderInv, Next, Ordered', BatchDelete
  PROVE  OrderInv'
<1>1. /\ s \in Statement /\ s.step = "apply" /\ FlushDrops /\ ~FlushAdds /\ Ordered /\ SentInv /\ FetchedInv
      /\ s.drops \in Seq(Part) /\ partition \in [Part -> Location]
      /\ s'.kind = s.kind /\ s'.todo = s.todo /\ before' = before
  BY StatementFacts, PlanStays, BeforeFacts DEF IInv, BatchDelete, OrderInv
<1>2. s.adds = <<>>
  BY <1>1 DEF SentInv, FlushDrops
<1>3. PICK n \in Nat : n = MinOf(DeleteSize, Len(s.drops)) /\ n <= Len(s.drops)
  <2>1. Len(s.drops) \in Nat
    BY <1>1
  <2>2. QED
    BY <2>1 DEF MinOf
<1>4. PICK sent \in SUBSET (1 .. n) :
        /\ sent = Pending(DeleteSize, s.drops)
        /\ \A i \in (1 .. n) \ sent : partition[s.drops[i]] = Null
  <2>1. s.batch # {} => s.batch \in SUBSET (1 .. n)
    BY <1>1, <1>3 DEF IInv, BatchInv
  <2>2. QED
    BY <1>1, <1>3, <2>1 DEF SentInv, Exists, Pending
<1>5. PICK bad \in SUBSET sent :
        /\ partition' = [p \in Part |-> IF \E i \in sent \ bad : s.drops[i] = p
                                        THEN Null ELSE partition[p]]
        /\ Answered(bad, [s EXCEPT !.drops = Rest(DeleteSize, @)])
  BY <1>4 DEF BatchDelete
<1>6. PICK new : new = partition'
  OBVIOUS
<1>7. ASSUME NEW d, InSteps(s.todo, Before, d)
      PROVE  /\ LeadsTo(new, <<>>, s.drops, d[s.at - 1])
             /\ \A i \in (1 .. n) \ bad : new[s.drops[i]] = Null
  <2>1. LeadsTo(partition, <<>>, s.drops, d[s.at - 1])
    BY <1>1, <1>2, <1>7, StepFacts
  <2>2. DropsAnswered(partition, s.drops, n, sent, bad, new)
    BY <1>3, <1>4, <1>5, <1>6 DEF DropsAnswered
  <2>3. QED
    BY <1>1, <2>1, <2>2, DropsSent
<1>8. new \in [Part -> Location] /\ \A i \in (1 .. n) \ bad : new[s.drops[i]] = Null
  <2>1. \E d : InSteps(s.todo, Before, d)
    <3>1. Len(s.todo) \in Nat /\ DOMAIN s.todo = 1 .. Len(s.todo)
      BY StatementFacts DEF IInv
    <3>2. QED
      BY <3>1, StepsOfOrder
  <2>2. new \in [Part -> Location]
    <3>1. IInv'
      BY NextIInv
    <3>2. QED
      BY <1>6, <3>1 DEF IInv, TypeOK
  <2>3. QED
    BY <1>7, <2>1, <2>2
<1>9. CASE bad = {} /\ s' = [[s EXCEPT !.drops = Rest(DeleteSize, @)] EXCEPT !.batch = {}, !.attempt = 0]
  <2>1. /\ s'.at = s.at /\ s'.drops = Rest(DeleteSize, s.drops) /\ s'.adds = <<>> /\ s'.batch = {}
        /\ s'.step = "apply" /\ s'.checked = s.checked
    BY <1>1, <1>2, <1>9 DEF Statement
  <2>2. ASSUME NEW d, InSteps(s.todo, Before, d)
        PROVE  LeadsTo(partition', s'.adds, s'.drops, d[s'.at - 1])
    <3>1. LeadsTo(new, <<>>, s.drops, d[s.at - 1])
      BY <1>7, <2>2
    <3>2. \A i \in 1 .. MinOf(DeleteSize, Len(s.drops)) : new[s.drops[i]] = Null
      BY <1>3, <1>8, <1>9
    <3>3. LeadsTo(new, <<>>, Rest(DeleteSize, s.drops), d[s.at - 1])
      BY <1>1, <1>8, <3>1, <3>2, DropsRest
    <3>4. QED
      BY <1>6, <2>1, <3>3
  <2>3. QED
    BY <1>1, <2>1, <2>2, ApplyOrder
<1>10. CASE bad # {} /\ MaySendAgain /\ s' = [s EXCEPT !.batch = bad, !.attempt = @ + 1]
  <2>1. /\ s'.at = s.at /\ s'.drops = s.drops /\ s'.adds = <<>> /\ s'.batch = bad
        /\ s'.step = "apply" /\ s'.checked = s.checked
    BY <1>1, <1>2, <1>10 DEF Statement
  <2>2. FetchedInv'
    BY <1>1, <2>1 DEF FetchedInv, Before
  <2>3. SentInv'
    <3>1. \A i \in (1 .. n) \ bad : partition'[s.drops[i]] = Null
      BY <1>6, <1>8
    <3>2. QED
      BY <1>3, <2>1, <3>1 DEF SentInv, Exists, FlushAdds
  <2>4. ASSUME NEW d, InSteps(s.todo, Before, d)
        PROVE  LeadsTo(partition', s'.adds, s'.drops, d[s'.at - 1])
    BY <1>6, <1>7, <2>1, <2>4
  <2>5. QED
    BY <2>1, <2>2, <2>3, <2>4, OrderStep
<1>11. CASE FailsInGlue
  BY <1>11, FailedOrder
<1>12. QED
  BY <1>5, <1>9, <1>10, <1>11 DEF Answered

\* A step that ends the statement well.
LEMMA DoneOrder ==
  ASSUME IInv, OrderInv, Next, Ordered', Done,
         \A d : InSteps(s.todo, Before, d) => partition' = d[Len(s.todo)]
  PROVE  OrderInv'
<1>1. s'.step = "done"
  BY StatementFacts DEF IInv, Done, Statement
<1>2. FetchedInv' /\ SentInv'
  BY <1>1 DEF FetchedInv, SentInv
<1>3. QED
  BY <1>1, <1>2, OrderStep

LEMMA FinishOrder ==
  ASSUME IInv, OrderInv, Next, Ordered', Finish
  PROVE  OrderInv'
<1>1. /\ s.step = "apply" /\ ~More /\ s.adds = <<>> /\ s.drops = <<>> /\ Done
      /\ partition' = partition /\ Ordered /\ partition \in [Part -> Location]
  BY PlanStays, BeforeFacts DEF IInv, Finish, Reads
<1>2. s.at - 1 = Len(s.todo)
  <2>1. s.at \in 1 .. Len(s.todo) + 1 /\ Len(s.todo) \in Nat /\ s.at \in Nat
    BY StatementFacts DEF IInv, ShapeInv
  <2>2. QED
    BY <1>1, <2>1 DEF More
<1>3. ASSUME NEW d, InSteps(s.todo, Before, d)
      PROVE  partition' = d[Len(s.todo)]
  BY <1>1, <1>2, <1>3, StepFacts, LeadsNow
<1>4. QED
  BY <1>1, <1>3, DoneOrder

LEMMA CallOrder ==
  ASSUME IInv, OrderInv, Next, Ordered', CallAdd \/ CallDrop
  PROVE  OrderInv'
<1>1. PICK do \in {"add", "drop"} :
        /\ Applies(do) /\ s.kind = "call"
        /\ do = "add" => CreatePartition(Now.part, Now.loc)
        /\ do = "drop" => DeletePartition(Now.part)
  BY DEF CallAdd, CallDrop
<1>2. /\ s.step = "apply" /\ More /\ Now.do = do /\ Ordered /\ s.adds = <<>> /\ s.drops = <<>>
      /\ Now \in Action /\ Parsed(Now) /\ partition \in [Part -> Location]
      /\ s.at \in 1 .. Len(s.todo) /\ Len(s.todo) = 1 /\ Now.part \in Part
  BY <1>1, AppliesFacts, SendsAlone, PlanStays, BeforeFacts DEF IInv, ShapeInv, Parsed
<1>3. s.at = 1
  BY <1>2
<1>4. PICK new : new = Effect(Now, partition)
  OBVIOUS
<1>5. /\ do = "add" => new = IF partition[Now.part] = Null
                             THEN [partition EXCEPT ![Now.part] = Now.loc] ELSE partition
      /\ do = "drop" => new = [partition EXCEPT ![Now.part] = Null]
  BY <1>2, <1>4, EffectFacts
<1>6. CASE Refused \/ FailsInGlue
  BY <1>6, FailedOrder
<1>7. CASE Done /\ ~Refused /\ ~FailsInGlue
  <2>1. partition' = new
    <3>1. CASE do = "add"
      BY <1>1, <1>2, <1>5, <1>7, <3>1 DEF CreatePartition, Change, Exists
    <3>2. CASE do = "drop"
      <4>1. ~Exists(Now.part) => partition = new
        BY <1>2, <1>5, <3>2 DEF Exists
      <4>2. QED
        BY <1>1, <1>5, <1>7, <3>2, <4>1 DEF DeletePartition, Change
    <3>3. QED
      BY <3>1, <3>2
  <2>2. ASSUME NEW d, InSteps(s.todo, Before, d)
        PROVE  partition' = d[Len(s.todo)]
    <3>1. /\ LeadsTo(partition, <<>>, <<>>, d[s.at - 1])
          /\ d[s.at] = Effect(Now, d[s.at - 1])
      BY <1>2, <2>2, StepFacts
    <3>2. partition = d[s.at - 1]
      BY <1>2, <3>1, LeadsNow
    <3>3. QED
      BY <1>2, <1>3, <1>4, <2>1, <3>1, <3>2
  <2>3. QED
    BY <1>7, <2>2, DoneOrder
<1>8. QED
  <2>1. Done \/ Refused \/ FailsInGlue
    BY <1>1 DEF CreatePartition, DeletePartition, Change
  <2>2. QED
    BY <1>6, <1>7, <2>1

\* Only a repair lists.
LEMMA ListOrder ==
  ASSUME IInv, OrderInv, Next, Ordered', List \/ Discover
  PROVE  OrderInv'
<1>1. s.step = "list" /\ s.kind \in Kind /\ s.kind # "repair"
  BY PlanStays, StatementFacts DEF IInv, List, Discover, Ordered
<1>2. QED
  BY <1>1 DEF IInv, ShapeInv, Kind

\* Nothing the order is about changes.
LEMMA SameOrder ==
  ASSUME OrderInv, s' = s, partition' = partition, before' = before, touched' = touched
  PROVE  OrderInv'
<1>1. /\ Ordered' <=> Ordered
      /\ FetchedInv' <=> FetchedInv
      /\ SentInv' <=> SentInv
  BY DEF Ordered, RenamesMoved, FetchedInv, SentInv, Before, Exists, FlushAdds, Flushes, More, Now
<1>2. StepsInv' <=> StepsInv
  BY DEF StepsInv, Before
<1>3. QED
  BY <1>1, <1>2 DEF OrderInv

LEMMA NextOrder ==
  ASSUME IInv, OrderInv, Next
  PROVE  OrderInv'
<1>1. CASE ~Ordered'
  BY <1>1 DEF OrderInv
<1>2. CASE Ordered'
  <2>1. CASE StatementStep
    <3>1. CASE Bind \/ BatchGet \/ Check \/ CallFetch \/ CallFree
      BY <1>2, <3>1, BindOrder, BatchGetOrder, CheckOrder, CallChecksOrder
    <3>2. CASE BatchCreate \/ BatchDelete
      BY <1>2, <3>2, BatchCreateOrder, BatchDeleteOrder
    <3>3. CASE ApplyAdd \/ ApplyDrop \/ FetchLate \/ Refetch
      BY <1>2, <3>3, ApplyAddOrder, ApplyDropOrder, FetchOrder
    <3>4. CASE ApplyRename \/ ApplySet \/ ApplyTable
      BY <1>2, <3>4, ApplyUpdateOrder, ApplyTableOrder
    <3>5. CASE ReadFails
      BY <1>2, <3>5, FailedOrder DEF ReadFails
    <3>6. CASE Finish \/ CallAdd \/ CallDrop \/ List \/ Discover
      BY <1>2, <3>6, FinishOrder, CallOrder, ListOrder
    <3>7. QED
      BY <2>1, <3>1, <3>2, <3>3, <3>4, <3>5, <3>6 DEF StatementStep
  <2>2. CASE \E p \in Part, loc \in Location : ChangePartition(p, loc)
    <3>1. touched' # {}
      BY <2>2 DEF ChangePartition, Others
    <3>2. QED
      BY <1>2, <3>1 DEF Ordered
  <2>3. CASE ChangeTable
    <3>1. touched' = touched
      BY <2>3 DEF ChangeTable, Others
    <3>2. QED
      BY <2>3, <3>1, SameOrder DEF ChangeTable, Others
  <2>4. QED
    BY <2>1, <2>2, <2>3 DEF Next
<1>3. QED
  BY <1>1, <1>2

LEMMA InitOrder ==
  ASSUME Init
  PROVE  OrderInv
<1>1. s.step = "start"
  BY DEF Init, Started
<1>2. FetchedInv /\ SentInv /\ StepsInv
  BY <1>1 DEF FetchedInv, SentInv, StepsInv
<1>3. QED
  BY <1>2 DEF OrderInv

\* A statement that succeeds while nobody else changes anything has done its actions one
\* after the other, whatever the sizes of the batches, the attempts and the refusals of
\* Glue in between (GlueAlterTableApply and the batches of glue_partition_api.cpp), unless
\* a rename sends a location that is no longer true.
THEOREM OrderHolds == Spec => []DoneInOrder
<1>1. Init => OrderInv
  BY InitOrder
<1>2. IInv /\ OrderInv /\ [Next]_vars => OrderInv'
  <2>1. UNCHANGED vars /\ OrderInv => OrderInv'
    BY SameOrder DEF vars
  <2>2. QED
    BY <2>1, NextOrder
<1>3. IInv /\ OrderInv => DoneInOrder
  <2>1. SUFFICES ASSUME IInv, OrderInv, s.kind # "repair", s.step = "done", Alone, ~RenamesMoved
                 PROVE  partition = InOrder(s.todo, Before)
    BY DEF DoneInOrder, Before
  <2>2. StepsInv
    BY <2>1 DEF OrderInv, Ordered, Alone
  <2>3. Len(s.todo) \in Nat /\ DOMAIN s.todo = 1 .. Len(s.todo)
    BY <2>1, StatementFacts DEF IInv
  <2>4. PICK d : InSteps(s.todo, Before, d)
    BY <2>3, StepsOfOrder
  <2>5. partition = d[Len(s.todo)] /\ d[Len(s.todo)] = InOrder(s.todo, Before)
    BY <2>1, <2>2, <2>4 DEF StepsInv, InSteps
  <2>6. QED
    BY <2>5
<1>4. QED
  BY <1>1, <1>2, <1>3, Invariance, PTL DEF Spec

=============================================================================
