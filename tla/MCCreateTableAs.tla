-------------------------- MODULE MCCreateTableAs --------------------------
(* Small instances of CreateTableAs. *)
EXTENDS CreateTableAs, TLC

Symmetry == Permutations(Ctas) \cup Permutations(Name) \cup Permutations(Loc)
=============================================================================
