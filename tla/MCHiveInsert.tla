---------------------------- MODULE MCHiveInsert ----------------------------
(* Instances of HiveInsert for TLC: partition values 1 and 2, of which another      *)
(* engine spells 1 as '01' too. One run covers two small worlds: an INSERT of rows   *)
(* of both values, and two INSERTs into one partition.                               *)
EXTENDS HiveInsert, TLC

CONSTANTS i1, i2, r1, r2, v1, v01, v2, d1, d2, d3

TwoReadAs    == v1 :> r1 @@ v01 :> r1 @@ v2 :> r2
TwoCanonical == r1 :> v1 @@ r2 :> v2
TwoOwn       == r1 :> d1 @@ r2 :> d2

\* One INSERT alone, run once, while others change one partition.
OneInsert ==
  /\ \E i \in Insert : statement[i].run <= 1 /\ \A j \in Insert \ {i} : statement[j].run = 0
  /\ \A v \in Values : partition[v] # Null => partition[v].same

\* i1 and i2, each run twice, of the value 1 only; its partition is at d1 or d3.
TwoInserts ==
  /\ \A i \in Insert : statement[i].rows \subseteq {r1}
  /\ \A v \in Values : partition[v] # Null => v = v1 /\ partition[v].dir \in {d1, d3}

\* Bound: what happens stays in one of the two.
Small == OneInsert \/ TwoInserts

SmallInit == Init /\ Small
SmallNext == Next /\ Small'
SmallSpec == SmallInit /\ [][SmallNext]_vars

Symmetry == Permutations({i1, i2})
=============================================================================
