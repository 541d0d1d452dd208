------------------------- MODULE MCAlterPartitions -------------------------
(* Instances of AlterPartitions for TLC: three partitions; pa is what two directories *)
(* of the table name, year=7 and year=07.                                            *)
EXTENDS AlterPartitions, TLC

CONSTANTS pa, pb, pc, la, lb, lc

Dirs == la :> pa @@ lb :> pa @@ lc :> Null

Some(do, part, to, loc, ok) == [do : {do}, part : part, to : to, loc : loc, ok : ok]

\* Adds are at la, new locations are lc.
Actions ==
  Some("add", Part, {Null}, {la}, BOOLEAN) \cup Some("drop", Part, {Null}, {Null}, BOOLEAN) \cup
  Some("rename", Part, Part, {Null}, {FALSE}) \cup
  Some("set", Part, {Null}, {lc}, BOOLEAN) \cup Some("table", {Null}, {Null}, {lc}, {FALSE})

\* Three actions fill more than a batch.
Batched == {a \in Actions : (a.do = "add" /\ ~a.ok) \/ (a.do = "drop" /\ a.ok)}

\* A partition goes and another one of its values comes, before a rename.
Replaced == {t \in {a \in Actions : a.do \in {"drop", "rename"}} \X
                  {b \in Actions : b.do = "add" /\ b.ok} \X
                  {c \in Actions : c.do = "rename"} :
               t[1].part = t[2].part /\ t[2].part = t[3].part}

Todos   == {<<a>> : a \in Actions} \cup {<<a, b>> : a, b \in Actions} \cup
           {<<a, b, c>> : a, b, c \in Batched} \cup Replaced

\* Bounds: partitions are registered at lb, or, for a repair, anywhere; another client
\* changes something while a statement of one action runs.
Small ==
  s.kind # "repair" => (dirs = {} /\ (changes > 0 => Len(s.todo) = 1))
SmallInit ==
  /\ Init /\ Small
  /\ s.kind # "repair" => \A part \in Part : partition[part] \in {lb, Null}
  /\ table.loc = la
SmallNext == Next /\ Small'
SmallSpec == SmallInit /\ [][SmallNext]_vars /\ WF_vars(StatementStep)
=============================================================================
