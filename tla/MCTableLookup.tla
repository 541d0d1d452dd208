--------------------------- MODULE MCTableLookup ---------------------------
(* Instances of TableLookup for TLC. *)
EXTENDS TableLookup, TLC

CONSTANTS c1, t1, t2

\* One thread per connection, named as its connection.
OwnThreads == [t \in Thread |-> t]
\* Two threads of one connection.
TwoThreads == t1 :> c1 @@ t2 :> c1

\* Bound: the connections have the same glue_metadata_cache_scope.
SameScopeInit == LookupInit /\ \A c, d \in Conn : scope[c] = scope[d]
SameScopeSpec == SameScopeInit /\ [][LookupNext]_lookupVars

Symmetry == Permutations(Conn)
=============================================================================
