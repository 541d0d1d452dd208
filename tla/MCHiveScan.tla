----------------------------- MODULE MCHiveScan -----------------------------
(***************************************************************************)
(* Instances of HiveScan for TLC: a tree of six directories, three         *)
(* partitions registered in it in several ways, and the settings that lead *)
(* to each way of listing them.                                            *)
(***************************************************************************)
EXTENDS HiveScan

CONSTANTS s1, s2, pa, pb, pc, v1, v2, MaxStatements, MaxChanges

\* t, t/a, t/a/b, t/c, the hidden t/_h, t//e, and x elsewhere.
MCDirs == {"t", "a", "b", "c", "h", "e", "x"}
MCAbove == [d \in MCDirs |-> CASE d = "b" -> {"t", "a", "b"}
                               [] d = "x" -> {"x"}
                               [] OTHER -> {"t", d}]
MCHidden == {"h"}
MCEmptySegment == {"e"}

\* Objects in key order: e1, h1, a1, b1, its marker bm, a2 after t/a/b, c1, c2,
\* r1 in the root itself, x1.
MCFiles == {"e1", "h1", "a1", "b1", "bm", "a2", "c1", "c2", "r1", "x1"}
MCDirOf == [f \in MCFiles |->
    CASE f = "e1" -> "e" [] f = "h1" -> "h" [] f \in {"a1", "a2"} -> "a"
      [] f \in {"b1", "bm"} -> "b" [] f \in {"c1", "c2"} -> "c" [] f = "r1" -> "t"
      [] OTHER -> "x"]
MCRank == ("e1" :> 1) @@ ("h1" :> 2) @@ ("a1" :> 3) @@ ("b1" :> 4) @@ ("bm" :> 5)
          @@ ("a2" :> 6) @@ ("c1" :> 7) @@ ("c2" :> 8) @@ ("r1" :> 9) @@ ("x1" :> 10)
MCMarkers == {"bm"}

MCScans == {s1, s2}
MCPartitions == {pa, pb, pc}
MCValues == {v1, v2}

\* one: the column is v1; odd: an expression that fails for v2 (a cast, say);
\* big: a filter on the data; built: what a join derives.
MCKeyFilters == {"one", "odd", "built"}
MCKeyAnswer == [c \in MCKeyFilters |->
    [v \in {v1, v2, Null} |->
        CASE v = v1 -> "true" [] v = v2 /\ c = "odd" -> "error" [] OTHER -> "no"]]
MCDataFilters == {"big"}
MCDataAnswer == [c \in MCDataFilters |-> {"a1", "b1", "x1"}]
MCJoinFilters == {"built"}

At(d, v) == [dir |-> d, value |-> v, sameFormat |-> TRUE, readable |-> TRUE]
Place(a, b, c) == (pa :> a) @@ (pb :> b) @@ (pc :> c)

Nested == Place(At("a", v1), At("b", v2), At("x", v1))
Shared == Place(At("a", v1), At("a", v2), At("b", v2))
SharedAround == Place(At("a", v1), At("b", v2), At("a", v1))
SharedInside == Place(At("a", v1), At("b", v2), At("b", v1))
Siblings == Place(At("a", v1), At("c", v2), At("x", v1))
Apart == Place(At("a", v2), At("c", v1), At("x", v2))
Spelled == Place(At("a", v1), At("e", v2), At("h", v1))
AtRoot == Place(At("t", v1), At("a", v2), At("b", v1))
Stored == Place(At("a", v1), [At("b", v2) EXCEPT !.sameFormat = FALSE],
                [At("x", v1) EXCEPT !.readable = FALSE])
Odd == Place(At("a", Null), At("b", v1), At("x", Bad))

Settings(threads, threshold, cached, scoped) ==
    [threads |-> threads, threshold |-> threshold, cacheListings |-> cached,
     connectionScoped |-> scoped]
With(partitioned, glue, settings) ==
    settings @@ [partitioned |-> partitioned, glue |-> glue]

\* One listing after the other, batches of two, and the root by requests.
OneByOne == Settings(1, 9, FALSE, FALSE)
Batches == Settings(2, 9, FALSE, FALSE)
ByRequests == Settings(1, NoThreshold, FALSE, FALSE)
ByThreshold == Settings(2, 1, FALSE, FALSE)
Kept == {Settings(1, NoThreshold, TRUE, scoped) : scoped \in BOOLEAN}

\* The layouts one scan reads in every way, those two scans of a statement
\* read, and those read while the store changes.
Layouts == {Nested, Siblings, Shared, SharedInside, Spelled, AtRoot, Stored, Odd}
SingleCases ==
    {With(TRUE, glue, settings) :
        glue \in Layouts, settings \in {OneByOne, Batches, ByRequests}}
PairCases == {With(TRUE, glue, ByThreshold) :
                 glue \in {Nested, SharedInside, SharedAround, Stored, Apart}}
ChangingCases ==
    {With(partitioned, Nested, settings) :
        partitioned \in BOOLEAN, settings \in Kept \cup {Settings(1, 1, FALSE, FALSE)}}
MCCases == SingleCases \cup PairCases \cup ChangingCases

\* The objects at the start: all but those of t/c, where no partition may be;
\* where the store changes, b1 is to come; with SharedInside it may be
\* missing; with SharedAround those of t/a are; with Siblings and Apart one page of
\* a1 and c1.
Objects == CASE case.glue = SharedInside -> {MCFiles \ {"c1", "c2"}, MCFiles \ {"b1", "c1", "c2"}}
             [] case.glue = SharedAround -> {MCFiles \ {"a1", "a2", "c1", "c2"}}
             [] case.glue \in {Siblings, Apart} -> {{"a1", "c1", "c2", "r1", "x1"}}
             [] case \in ChangingCases -> {MCFiles \ {"b1", "c1", "c2"}}
             [] OTHER -> {MCFiles \ {"c1", "c2"}}

\* Only pb may still be registered, and only in one case.
HSInit == /\ Init
          /\ stored \in Objects
          /\ pa \in registered /\ pc \in registered
          /\ case # With(TRUE, Nested, OneByOne) => pb \in registered

\* Bounds: the second scan only with PairCases, and after the first; a second
\* statement and changes by others only with ChangingCases, and only of the
\* files the layout reads; what a query asks for.
Queries == IF case \in SingleCases THEN {{}, {"one"}, {"odd"}, {"one", "big"}}
           ELSE {{}, {"one"}}
Limit == IF case.cacheListings THEN MaxStatements ELSE 1
Changes == Cardinality(ever \ always)
Bound(s) == lists[s].st # "free"
Small ==
    /\ Changes <= (IF case \in ChangingCases THEN MaxChanges ELSE 0)
    /\ ever \ always \subseteq {"a1", "b1"}
    /\ Bound(s2) => case \in PairCases /\ Bound(s1)
    /\ case \notin SingleCases =>
          \A s \in Scans : Bound(s) =>
             /\ lists[s].stats = None /\ lists[s].joined = {}
             /\ \/ case \in ChangingCases \/ lists[s].rows = NoListings
                \/ \A r \in Scans : Bound(r) => lists[r].st = "done"
    /\ \A s \in Scans : Bound(s) => lists[s].asked \in Queries
    /\ sink = "writing" => case.cacheListings
    /\ statements = Limit => Changes = 0 /\ sink = "none" /\ ~Bound(s1)

HSNext == Next /\ Small'
HSSpec == HSInit /\ [][HSNext]_vars
=============================================================================
