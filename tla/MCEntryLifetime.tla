-------------------------- MODULE MCEntryLifetime --------------------------
(* Instances of EntryLifetime for TLC: identities are model values. *)
EXTENDS EntryLifetime, TLC

\* Connections and objects of a kind are interchangeable, and so are the names.
Symmetry == Permutations(Conn) \cup Permutations(Name)
              \cup Permutations(SchemaObj) \cup Permutations(TableObj)
=============================================================================
