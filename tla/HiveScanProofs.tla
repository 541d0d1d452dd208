-------------------------- MODULE HiveScanProofs ---------------------------
(***************************************************************************)
(* The properties of HiveScan for any table, tree of directories, files,   *)
(* filters and number of scans.                                            *)
(*                                                                         *)
(* IInv says what is known of each part of the state: its types (TypeInv), *)
(* the store (StoreInv), the listings kept (ListingsInv), what an info     *)
(* knows of the table (InfoInv) and, of each scan, its shape, what pruning *)
(* left out, the files it was given, the batch it lists and the jobs it    *)
(* has done (ScanInv). What a job is done for is that its partitions are   *)
(* Gathered: every data file that stayed in the store is in the list.      *)
(***************************************************************************)
EXTENDS HiveScan, FiniteSetTheorems, SequenceTheorems, TLAPS

\* The partition a file belongs to, of those in parts.
Owner(parts, f) == OwningPartition(parts, f, Dirs)

\* A set of subsets of a finite set has a minimal member: induction on finite sets.
LEMMA MinimalSet ==
  ASSUME NEW S, IsFiniteSet(S), NEW T \in SUBSET SUBSET S, T # {}
  PROVE  \E U \in T : \A V \in T : V \subseteq U => V = U
<1>1. IsWellFoundedOn(StrictSubsetOrdering(S), SUBSET S)
  BY FS_StrictSubsetOrderingWellFounded, FS_FiniteSubsetsOfFinite
<1>2. PICK U \in T : \A V \in T : <<V, U>> \notin StrictSubsetOrdering(S)
  BY <1>1, WFMin
<1>3. QED
  BY <1>2 DEF StrictSubsetOrdering

\* A finite set that R orders has a first element.
LEMMA FirstExists ==
  ASSUME NEW S, IsFiniteSet(S), S # {}, NEW R,
         \A x, y \in S : <<x, y>> \in R \/ <<y, x>> \in R,
         \A x, y, z \in S : <<x, y>> \in R /\ <<y, z>> \in R => <<x, z>> \in R
  PROVE  \E x \in S : \A y \in S : <<x, y>> \in R
<1> DEFINE HasFirst(U) == \E x \in U : \A y \in U : <<x, y>> \in R
           T == {U \in SUBSET S : U # {} /\ ~HasFirst(U)}
<1>1. ASSUME T # {} PROVE FALSE
  <2>1. T \in SUBSET SUBSET S
    OBVIOUS
  <2>2. PICK U \in T : \A V \in T : V \subseteq U => V = U
    <3> HIDE DEF T
    <3>1. QED
      BY <1>1, <2>1, MinimalSet
  <2>3. PICK x \in U : TRUE
    OBVIOUS
  <2>4. PICK V : V = U \ {x}
    OBVIOUS
  <2>a. V \notin T
    <3> HIDE DEF T
    <3>1. QED
      BY <2>2, <2>3, <2>4
  <2>5. CASE U = {x}
    BY <2>5
  <2>6. CASE U # {x}
    <3>0. V # {} /\ V \in SUBSET S
      BY <2>3, <2>4, <2>6
    <3>1. PICK y \in V : \A z \in V : <<y, z>> \in R
      BY <2>a, <3>0
    <3>2. CASE <<x, y>> \in R
      BY <2>3, <2>4, <3>1, <3>2
    <3>3. CASE <<y, x>> \in R
      BY <2>3, <2>4, <3>1, <3>3
    <3>4. QED
      BY <2>3, <2>4, <3>1, <3>2, <3>3
  <2>7. QED
    BY <2>5, <2>6
<1>2. S \notin T
  BY <1>1
<1>3. QED
  BY <1>2

\* A set of numbers has a least element, and a finite one a greatest.
LEMMA GreatestOf ==
  ASSUME NEW S \in SUBSET Nat, IsFiniteSet(S), S # {}
  PROVE  Max(S) \in S /\ \A y \in S : Max(S) >= y
<1> DEFINE R == {r \in Nat \X Nat : r[1] >= r[2]}
<1>1. \A x, y \in Nat : <<x, y>> \in R <=> x >= y
  OBVIOUS
<1>2. PICK A : A = S
  OBVIOUS
<1>3. /\ \A x, y \in A : <<x, y>> \in R \/ <<y, x>> \in R
      /\ \A x, y, z \in A : <<x, y>> \in R /\ <<y, z>> \in R => <<x, z>> \in R
  <2> HIDE DEF R
  <2>1. QED
    BY <1>1, <1>2
<1>4. IsFiniteSet(A) /\ A # {}
  BY <1>2
<1> HIDE DEF R
<1>5. \E x \in A : \A y \in A : <<x, y>> \in R
  BY ONLY <1>3, <1>4, FirstExists
<1>6. \E x \in S : \A y \in S : x >= y
  BY <1>1, <1>2, <1>5
<1>7. QED
  BY <1>6 DEF Max

\* A set of numbers has a least element.
LEMMA LeastOf ==
  ASSUME NEW S \in SUBSET Nat, S # {}
  PROVE  Min(S) \in S /\ \A y \in S : Min(S) <= y
<1>1. PICK n \in S : TRUE
  OBVIOUS
<1> DEFINE R == {r \in Nat \X Nat : r[1] <= r[2]}
<1>2. \A x, y \in Nat : <<x, y>> \in R <=> x <= y
  OBVIOUS
<1>3. PICK A : A = {x \in S : x <= n}
  OBVIOUS
<1>4. IsFiniteSet(A) /\ A # {}
  <2>1. A \in SUBSET Nat /\ \A x \in A : x <= n
    BY <1>3
  <2>2. QED
    <3> HIDE DEF R
    <3>1. n \in Nat /\ n \in A
      BY <1>1, <1>3
    <3>2. QED
      BY <2>1, <3>1, FS_BoundedSetOfNaturals
<1>5. /\ \A x, y \in A : <<x, y>> \in R \/ <<y, x>> \in R
      /\ \A x, y, z \in A : <<x, y>> \in R /\ <<y, z>> \in R => <<x, z>> \in R
  <2> HIDE DEF R
  <2>1. QED
    BY <1>2, <1>3
<1> HIDE DEF R
<1>6. \E x \in A : \A y \in A : <<x, y>> \in R
  BY ONLY <1>4, <1>5, FirstExists
<1>7. PICK x \in S : x <= n /\ \A y \in A : x <= y
  BY <1>2, <1>3, <1>6
<1>8. \A y \in S : x <= y
  BY <1>3, <1>7
<1>9. QED
  BY <1>8 DEF Min

\* A finite set as a sequence.
LEMMA SetToSeqFacts ==
  ASSUME NEW S, IsFiniteSet(S), NEW q, q = SetToSeq(S)
  PROVE  /\ q \in Seq(S) /\ Len(q) = Cardinality(S)
         /\ \A i, j \in DOMAIN q : q[i] = q[j] => i = j
         /\ \A e \in S : \E i \in DOMAIN q : q[i] = e
<1>1. Cardinality(S) \in Nat /\ ExistsBijection(1 .. Cardinality(S), S)
  BY FS_CardinalityType
<1>2. PICK n \in Nat : n = Cardinality(S)
  BY <1>1
<1>3. \E f \in [1 .. n -> S] : IsInjective(f)
  BY <1>1, <1>2 DEF ExistsBijection, Bijection, Injection, IsInjective
<1>4. q \in [1 .. n -> S] /\ IsInjective(q)
  BY <1>2, <1>3 DEF SetToSeq
<1>5. q \in Injection(1 .. n, S)
  BY <1>4 DEF Injection
<1>6. Cardinality(1 .. n) = n
  BY FS_Interval
<1>7. q \in Surjection(1 .. n, S)
  BY <1>2, <1>5, <1>6, FS_Injection
<1>8. QED
  BY <1>2, <1>4, <1>7 DEF IsInjective, Surjection

\* A function with the arguments of another mapped anew.
LEMMA ExtendedFacts ==
  ASSUME NEW f, NEW e
  PROVE  /\ DOMAIN Extended(f, e) = DOMAIN f \cup DOMAIN e
         /\ \A x \in DOMAIN e : Extended(f, e)[x] = e[x]
         /\ \A x \in DOMAIN f \ DOMAIN e : Extended(f, e)[x] = f[x]
BY DEF Extended

\* The functions from some of D to R.
Partial(D, R) == UNION {[A -> R] : A \in SUBSET D}

\* Of such a function: its arguments and its values.
LEMMA PartialFacts ==
  ASSUME NEW D, NEW R, NEW f \in Partial(D, R)
  PROVE  DOMAIN f \in SUBSET D /\ f \in [DOMAIN f -> R]
<1>1. PICK A \in SUBSET D : f \in [A -> R]
  BY DEF Partial
<1>2. QED
  BY <1>1

LEMMA PartialType ==
  ASSUME NEW D, NEW R, NEW A \in SUBSET D, NEW f \in [A -> R]
  PROVE  f \in Partial(D, R)
BY DEF Partial

LEMMA PartialExtended ==
  ASSUME NEW D, NEW R, NEW f \in Partial(D, R), NEW e \in Partial(D, R)
  PROVE  Extended(f, e) \in Partial(D, R)
<1>1. /\ DOMAIN f \in SUBSET D /\ f \in [DOMAIN f -> R]
      /\ DOMAIN e \in SUBSET D /\ e \in [DOMAIN e -> R]
  BY PartialFacts
<1>2. Extended(f, e) \in [DOMAIN f \cup DOMAIN e -> R]
  BY <1>1 DEF Extended
<1>3. QED
  BY <1>1, <1>2, PartialType

LEMMA PartialNothing ==
  ASSUME NEW D, NEW R
  PROVE  NoListings \in Partial(D, R) /\ DOMAIN NoListings = {}
<1>1. NoListings \in [{} -> R]
  BY DEF NoListings
<1>2. QED
  BY <1>1, PartialType DEF NoListings

-----------------------------------------------------------------------------
(***************************************************************************)
(* Locations.                                                              *)
(***************************************************************************)
\* Of directories above one another, one is below all: the deepest.
LEMMA DeepestExists ==
  ASSUME NEW a \in Dirs, NEW L \in SUBSET Above[a], L # {}
  PROVE  \E d \in L : L \subseteq Above[d]
<1> DEFINE R == {r \in Dirs \X Dirs : r[2] \in Above[r[1]]}
<1>1. Above[a] \subseteq Dirs /\ IsFiniteSet(L)
  BY TreeAssumption, FS_Subset
<1>2. \A d, e \in L : <<d, e>> \in R <=> e \in Above[d]
  BY <1>1
<1> HIDE DEF R
<1>3. \A d, e \in L : <<d, e>> \in R \/ <<e, d>> \in R
  BY <1>1, <1>2, TreeAssumption
<1>4. \A d, e, g \in L : <<d, e>> \in R /\ <<e, g>> \in R => <<d, g>> \in R
  BY <1>1, <1>2, TreeAssumption
<1>5. \E d \in L : \A e \in L : <<d, e>> \in R
  BY <1>1, <1>3, <1>4, FirstExists
<1>6. QED
  BY <1>2, <1>5

\* Two directories above each other are one.
LEMMA AboveEachOther ==
  ASSUME NEW d \in Dirs, NEW e \in Dirs, d \in Above[e], e \in Above[d]
  PROVE  d = e
<1>1. Above[d] \subseteq Above[e] /\ Above[e] \subseteq Above[d]
  BY TreeAssumption
<1>2. QED
  BY <1>1, DirsDistinct

LEMMA AboveTransitive ==
  ASSUME NEW d \in Dirs, NEW e \in Above[d], NEW g \in Above[e]
  PROVE  e \in Dirs /\ g \in Dirs /\ g \in Above[d]
BY TreeAssumption

LEMMA GlueType ==
  ASSUME case \in CaseSet, NEW p \in Partitions
  PROVE  /\ Glue(p).dir \in Dirs /\ Glue(p).value \in Values \cup {Null, Bad}
         /\ Glue(p).sameFormat \in BOOLEAN /\ Glue(p).readable \in BOOLEAN
BY DEF CaseSet, Glue, PartitionRecord

\* The owner of a file among parts: it lies deepest of their locations in W that
\* hold the file.
OwnedBy(parts, f, W, o) ==
  /\ o = None => \A p \in parts : ~(UnderDir(f, Glue(p).dir) /\ Glue(p).dir \in W)
  /\ o # None => /\ o \in parts /\ o \in Partitions
                 /\ UnderDir(f, Glue(o).dir) /\ Glue(o).dir \in W
                 /\ \A p \in parts : UnderDir(f, Glue(p).dir) /\ Glue(p).dir \in W
                       => Glue(p).dir \in Above[Glue(o).dir]
                 /\ o = CHOOSE p \in RegisteredAt(parts, Glue(o).dir) : TRUE

\* OwningPartition finds what it is said to find.
LEMMA OwnerFacts ==
  ASSUME case \in CaseSet, NEW parts \in SUBSET Partitions, NEW f \in Files,
         NEW W \in SUBSET Dirs
  PROVE  OwnedBy(parts, f, W, OwningPartition(parts, f, W))
<1> DEFINE o == OwningPartition(parts, f, W)
           L == {d \in Above[DirOf[f]] \cap W : RegisteredAt(parts, d) # {}}
           deepest == CHOOSE d \in L : L \subseteq Above[d]
<1>1. DirOf[f] \in Dirs /\ L \in SUBSET Above[DirOf[f]]
  BY TreeAssumption
<1>2. \A p \in parts : UnderDir(f, Glue(p).dir) /\ Glue(p).dir \in W => Glue(p).dir \in L
  BY DEF UnderDir, RegisteredAt
<1>3. CASE L = {}
  <2>1. o = None
    BY <1>3 DEF OwningPartition
  <2>2. QED
    BY <1>2, <1>3, <2>1 DEF OwnedBy
<1>4. CASE L # {}
  <2>1. deepest \in L /\ L \subseteq Above[deepest]
    <3>1. \E d \in L : L \subseteq Above[d]
      <4> HIDE DEF L
      <4>1. QED
        BY <1>1, <1>4, DeepestExists
    <3>2. QED
      BY <3>1
  <2>2. o = CHOOSE p \in RegisteredAt(parts, deepest) : TRUE
    BY <1>4 DEF OwningPartition
  <2> HIDE DEF deepest, o
  <2>3. o \in RegisteredAt(parts, deepest)
    BY <2>1, <2>2
  <2>4. o \in parts /\ Glue(o).dir = deepest /\ o # None
    BY <2>3, NoneDistinct DEF RegisteredAt
  <2>5. OwnedBy(parts, f, W, o)
    BY <1>2, <2>1, <2>2, <2>4 DEF UnderDir, OwnedBy
  <2>6. QED
    BY <2>5 DEF o
<1>5. QED
  BY <1>3, <1>4

\* The directories of W reach down to the leaves.
Downward(W) == W \in SUBSET Dirs /\ \A e \in W, g \in Dirs : e \in Above[g] => g \in W

\* Both are so: below a directory, and at or below it.
LEMMA BelowDownward ==
  ASSUME NEW d \in Dirs
  PROVE  Downward(Below(d)) /\ Downward(AtOrBelow(d))
<1>1. ASSUME NEW e \in Below(d), NEW g \in Dirs, e \in Above[g] PROVE g \in Below(d)
  <2>1. e \in Dirs /\ d \in Above[e] /\ e # d
    BY <1>1 DEF Below
  <2>2. d \in Above[g]
    BY <1>1, <2>1, TreeAssumption
  <2>3. g # d
    BY <1>1, <2>1, AboveEachOther
  <2>4. QED
    BY <2>2, <2>3 DEF Below
<1>2. \A g \in Dirs : d \in Above[g] => g \in AtOrBelow(d)
  BY DEF Below, AtOrBelow
<1>3. QED
  BY <1>1, <1>2 DEF Below, AtOrBelow, Downward

\* Looked for in some directories only, the owner is the owner or none.
LEMMA OwnerWithin ==
  ASSUME case \in CaseSet, NEW parts \in SUBSET Partitions, NEW f \in Files,
         NEW W, Downward(W), NEW o, o = Owner(parts, f)
  PROVE  OwningPartition(parts, f, W) = IF o # None /\ Glue(o).dir \in W THEN o ELSE None
<1> DEFINE w == OwningPartition(parts, f, W)
<1>0. W \in SUBSET Dirs /\ Dirs \in SUBSET Dirs
  BY DEF Downward
<1>1. OwnedBy(parts, f, Dirs, o)
  BY <1>0, OwnerFacts DEF Owner
<1>2. OwnedBy(parts, f, W, w)
  BY <1>0, OwnerFacts
<1> HIDE DEF w
<1>3. \A p \in Partitions : Glue(p).dir \in Dirs
  BY GlueType
<1>4. CASE o = None \/ Glue(o).dir \notin W
  <2>1. w = None
    BY <1>1, <1>2, <1>3, <1>4 DEF Downward, OwnedBy
  <2>2. QED
    BY <1>4, <2>1 DEF w
<1>5. CASE o # None /\ Glue(o).dir \in W
  <2>1. w # None
    BY <1>1, <1>2, <1>3, <1>5 DEF OwnedBy
  <2>2. Glue(w).dir \in Above[Glue(o).dir] /\ Glue(o).dir \in Above[Glue(w).dir]
    BY <1>1, <1>2, <1>3, <1>5, <2>1 DEF OwnedBy
  <2>3. Glue(w).dir = Glue(o).dir
    BY <1>1, <1>2, <1>3, <1>5, <2>1, <2>2, AboveEachOther DEF OwnedBy
  <2>4. w = o
    BY <1>1, <1>2, <1>5, <2>1, <2>3 DEF OwnedBy
  <2>5. QED
    BY <1>5, <2>4 DEF w
<1>6. QED
  BY <1>4, <1>5
-----------------------------------------------------------------------------
(***************************************************************************)
(* The files of a sample, counted partition by partition.                  *)
(***************************************************************************)
\* Each file with the number of its partition.
Numbered(sizes, numbers) == UNION {{n} \X sizes[n] : n \in numbers}
AnyOf(s) == CHOOSE n \in s : TRUE
SumsOf(sizes, numbers, h) ==
  h = [s \in SUBSET numbers |->
         IF s = {} THEN 0 ELSE Cardinality(sizes[AnyOf(s)]) + h[s \ {AnyOf(s)}]]

\* One partition more adds its files.
LEMMA NumberedStep ==
  ASSUME NEW sizes, NEW s, NEW n \in s, IsFiniteSet(s), \A m \in s : IsFiniteSet(sizes[m]),
         IsFiniteSet(Numbered(sizes, s \ {n}))
  PROVE  /\ IsFiniteSet(Numbered(sizes, s))
         /\ Cardinality(Numbered(sizes, s)) =
              Cardinality(sizes[n]) + Cardinality(Numbered(sizes, s \ {n}))
<1> DEFINE one == {n} \X sizes[n]
           rest == Numbered(sizes, s \ {n})
<1>1. Numbered(sizes, s) = rest \cup one /\ rest \cap one = {}
  BY DEF Numbered
<1>2. IsFiniteSet(one) /\ Cardinality(one) = Cardinality(sizes[n])
  <2>1. PICK f : f = [x \in sizes[n] |-> <<n, x>>]
    OBVIOUS
  <2>2. f \in Bijection(sizes[n], one)
    <3>1. f \in [sizes[n] -> one]
      BY <2>1
    <3>2. \A x, y \in sizes[n] : f[x] = f[y] => x = y
      BY <2>1
    <3>3. \A z \in one : \E x \in sizes[n] : f[x] = z
      BY <2>1
    <3> HIDE DEF one
    <3>4. QED
      BY <3>1, <3>2, <3>3 DEF Bijection, Injection, Surjection, IsInjective
  <2>3. ExistsBijection(sizes[n], one)
    BY <2>2 DEF ExistsBijection
  <2> HIDE DEF one
  <2>4. QED
    BY <2>3, FS_Bijection
<1>3. IsFiniteSet(rest)
  OBVIOUS
<1> HIDE DEF one, rest
<1>4. IsFiniteSet(rest \cup one)
      /\ Cardinality(rest \cup one) = Cardinality(rest) + Cardinality(one) - Cardinality(rest \cap one)
  BY <1>2, <1>3, FS_Union
<1>5. Cardinality(rest \cap one) = 0 /\ Cardinality(rest) \in Nat /\ Cardinality(one) \in Nat
  BY <1>1, <1>2, <1>3, FS_EmptySet, FS_CardinalityType
<1>6. Cardinality(rest \cup one) = Cardinality(sizes[n]) + Cardinality(rest)
  BY <1>2, <1>4, <1>5
<1>7. QED
  BY <1>1, <1>4, <1>6 DEF rest

\* Finitely many finite sets of files are finitely many files.
LEMMA NumberedFinite ==
  ASSUME NEW sizes, NEW numbers, IsFiniteSet(numbers), \A n \in numbers : IsFiniteSet(sizes[n])
  PROVE  \A s \in SUBSET numbers : IsFiniteSet(Numbered(sizes, s))
<1> DEFINE T == {s \in SUBSET numbers : ~IsFiniteSet(Numbered(sizes, s))}
<1>1. ASSUME T # {} PROVE FALSE
  <2>1. T \in SUBSET SUBSET numbers
    OBVIOUS
  <2>2. PICK s \in T : \A V \in T : V \subseteq s => V = s
    <3> HIDE DEF T
    <3>1. QED
      BY <1>1, <2>1, MinimalSet
  <2>3. s # {}
    <3>1. Numbered(sizes, {}) = {}
      BY DEF Numbered
    <3>2. QED
      BY <3>1, FS_EmptySet
  <2>4. PICK n \in s : TRUE
    BY <2>3
  <2>5. IsFiniteSet(Numbered(sizes, s \ {n}))
    <3>1. s \ {n} \in SUBSET numbers /\ s \ {n} # s
      BY <2>4
    <3>2. s \ {n} \notin T
      BY <2>2, <3>1
    <3>3. QED
      BY <3>1, <3>2
  <2>6. IsFiniteSet(s) /\ \A m \in s : IsFiniteSet(sizes[m])
    BY FS_Subset
  <2>7. QED
    BY <2>4, <2>5, <2>6, NumberedStep
<1>2. QED
  BY <1>1

\* FilesAt counts each file of each partition once.
LEMMA FilesAtFacts ==
  ASSUME NEW sizes, NEW numbers, IsFiniteSet(numbers), \A n \in numbers : IsFiniteSet(sizes[n])
  PROVE  /\ IsFiniteSet(Numbered(sizes, numbers))
         /\ FilesAt(sizes, numbers) = Cardinality(Numbered(sizes, numbers))
         /\ FilesAt(sizes, numbers) \in Nat
<1>1. \A s \in SUBSET numbers :
        /\ IsFiniteSet(s) /\ IsFiniteSet(Numbered(sizes, s))
        /\ \A n \in s : Cardinality(Numbered(sizes, s)) =
                           Cardinality(sizes[n]) + Cardinality(Numbered(sizes, s \ {n}))
  <2> SUFFICES ASSUME NEW s \in SUBSET numbers
               PROVE  /\ IsFiniteSet(s) /\ IsFiniteSet(Numbered(sizes, s))
                      /\ \A n \in s : Cardinality(Numbered(sizes, s)) =
                           Cardinality(sizes[n]) + Cardinality(Numbered(sizes, s \ {n}))
    OBVIOUS
  <2>1. IsFiniteSet(s) /\ IsFiniteSet(Numbered(sizes, s)) /\ \A m \in s : IsFiniteSet(sizes[m])
    BY NumberedFinite, FS_Subset
  <2>2. ASSUME NEW n \in s
        PROVE  Cardinality(Numbered(sizes, s)) =
                 Cardinality(sizes[n]) + Cardinality(Numbered(sizes, s \ {n}))
    <3>1. IsFiniteSet(Numbered(sizes, s \ {n}))
      BY NumberedFinite
    <3>2. QED
      BY <2>1, <3>1, NumberedStep
  <2>3. QED
    BY <2>1, <2>2
<1> DEFINE c == [s \in SUBSET numbers |-> Cardinality(Numbered(sizes, s))]
           g == CHOOSE h : SumsOf(sizes, numbers, h)
<1>2. SumsOf(sizes, numbers, c)
  <2>1. ASSUME NEW s \in SUBSET numbers, s # {}
        PROVE  c[s] = Cardinality(sizes[AnyOf(s)]) + c[s \ {AnyOf(s)}]
    <3>1. AnyOf(s) \in s /\ s \ {AnyOf(s)} \in SUBSET numbers
      BY <2>1 DEF AnyOf
    <3>2. QED
      BY <1>1, <2>1, <3>1
  <2>2. c[{}] = 0
    <3>1. Numbered(sizes, {}) = {}
      BY DEF Numbered
    <3>2. QED
      BY <3>1, FS_EmptySet
  <2>3. QED
    BY <2>1, <2>2 DEF SumsOf
<1>3. SumsOf(sizes, numbers, g)
  <2> HIDE DEF c
  <2>1. QED
    BY <1>2
<1>4. FilesAt(sizes, numbers) = g[numbers]
  BY DEF FilesAt, MapThenSumSet, MapThenFoldSet, SumsOf, AnyOf
<1> HIDE DEF c, g
<1> DEFINE T == {s \in SUBSET numbers : g[s] # Cardinality(Numbered(sizes, s))}
<1>5. ASSUME T # {} PROVE FALSE
  <2>1. T \in SUBSET SUBSET numbers
    OBVIOUS
  <2>2. PICK s \in T : \A V \in T : V \subseteq s => V = s
    <3> HIDE DEF T
    <3>1. QED
      BY <1>5, <2>1, MinimalSet
  <2>3. g[s] = IF s = {} THEN 0 ELSE Cardinality(sizes[AnyOf(s)]) + g[s \ {AnyOf(s)}]
    BY <1>3 DEF SumsOf
  <2>4. CASE s = {}
    <3>1. Numbered(sizes, {}) = {}
      BY DEF Numbered
    <3>2. QED
      BY <2>3, <2>4, <3>1, FS_EmptySet
  <2>5. CASE s # {}
    <3>1. PICK n \in s : n = AnyOf(s)
      BY <2>5 DEF AnyOf
    <3>2. PICK r : r = s \ {n}
      OBVIOUS
    <3>3. r \in SUBSET numbers /\ r \subseteq s /\ r # s
      BY <3>1, <3>2
    <3>4. r \notin T
      BY <2>2, <3>3
    <3>5. g[r] = Cardinality(Numbered(sizes, r))
      BY <3>3, <3>4
    <3>6. QED
      BY <1>1, <2>3, <2>5, <3>1, <3>2, <3>5
  <2>6. QED
    BY <2>4, <2>5
<1>6. g[numbers] = Cardinality(Numbered(sizes, numbers))
  BY <1>5
<1>7. QED
  BY <1>1, <1>4, <1>6, FS_CardinalityType

-----------------------------------------------------------------------------
(***************************************************************************)
(* The types of the state.                                                 *)
(***************************************************************************)
States == {"free", "planning", "scanning", "listing", "done"}
Reasons == {"cast", "format", "shared", "gone", "column", "filter"}
PartitionOrNone == Partitions \cup {None}
ValueSets == SUBSET (Values \cup {Null, Bad})

InfoSet == [parts : (SUBSET Partitions) \cup {None}, whole : BOOLEAN, table : BOOLEAN,
            fileOf : Partial(Files, PartitionOrNone)]
EstimateSet == [files : Nat, of : Nat, idx : SUBSET Partitions]
ListSet == [st : States, info : Scans \cup {None}, idx : (SUBSET Partitions) \cup {None},
            asked : SUBSET Filters, left : SUBSET Filters, joined : SUBSET JoinFilters,
            next : Nat \ {0}, listed : Partial(Partitions, SUBSET Files),
            files : SUBSET Files, rows : Partial(Files, PartitionOrNone),
            stats : ValueSets \cup {None}, estimate : EstimateSet \cup {None}]
SampleSet == [listed : SUBSET Files, root : BOOLEAN, measured : Files \cup {None},
              sizes : Partial(0 .. Cardinality(Partitions), SUBSET Files), info : Scans]
QuerySet == [partitions : (SUBSET Partitions) \cup {None}, listings : Partial(Dirs, ListingSet),
             samples : [BOOLEAN -> SampleSet \cup {None}]]
ErrorSet == [why : Reasons, scan : Scans]

TypeInv ==
  /\ case \in Cases /\ case \in CaseSet
  /\ stored \in SUBSET Files /\ registered \in SUBSET Partitions
  /\ query \in QuerySet /\ connListings \in Partial(Dirs, ListingSet)
  /\ infos \in [Scans -> InfoSet] /\ lists \in [Scans -> ListSet]
  /\ sink \in {"none", "writing", "written"} /\ error \in ErrorSet \cup {None}
  /\ always \in SUBSET Files /\ ever \in SUBSET Files /\ statements \in Nat
  /\ \A s \in Scans : lists[s].st # "free" => lists[s].info \in Scans

-----------------------------------------------------------------------------
(***************************************************************************)
(* The inductive invariant.                                                *)
(***************************************************************************)
Active(s) == lists[s].st # "free"

\* The listings the scans of the statement use: a write that was finalized ends them.
Open == sink # "written"

\* A directory the root listing leaves out.
HiddenDir(d) == d \in Below(Root) /\ (Above[d] \ Above[Root]) \cap Hidden # {}

\* A listing holds objects below its directory, and all that were stored all along as far
\* as it was fetched.
Faithful(l, d) ==
  /\ \A f \in l.got : UnderDir(f, d)
  /\ Open => /\ l.got \subseteq ever
             /\ \A f \in always : UnderDir(f, d) /\ (l.done \/ Rank[f] <= l.at) => f \in l.got

ListingsInv ==
  /\ \A d \in DOMAIN query.listings : Faithful(query.listings[d], d)
  /\ \A d \in DOMAIN connListings : Faithful(connListings[d], d)

\* What is known of the store while other clients change it, and after the INSERT.
StoreInv ==
  /\ always \subseteq stored \cap ever /\ stored \subseteq ever
  /\ query.partitions = None \/ query.partitions \subseteq registered
  /\ ~Open => /\ error = None /\ connListings = NoListings
              /\ \A s \in Scans : ~Active(s) \/ Finished(s)

\* A scan info knows partitions of its query, and attributes each file to its owner.
InfoInv(i) ==
  /\ infos[i].whole => infos[i].table
  /\ ~infos[i].whole => infos[i].parts # None
  /\ case.partitioned /\ infos[i].parts # None =>
       /\ query.partitions # None /\ infos[i].parts \subseteq query.partitions
       /\ infos[i].whole => infos[i].parts = query.partitions
  /\ \A f \in DOMAIN infos[i].fileOf :
       IF case.partitioned
       THEN /\ infos[i].parts # None
            /\ infos[i].fileOf[f] # None /\ infos[i].fileOf[f] = Owner(infos[i].parts, f)
       ELSE infos[i].fileOf[f] = None

\* What a scan looks like at its steps.
ShapeInv(s) ==
  /\ lists[s].info \in Scans /\ Active(lists[s].info)
  /\ lists[lists[s].info].info = lists[s].info
  /\ lists[s].idx # None =>
       case.partitioned /\ Info(s).parts # None /\ lists[s].idx \subseteq Info(s).parts
  /\ lists[s].st # "planning" => Loaded(s)
  /\ lists[s].st = "planning" =>
       /\ lists[s].joined = {} /\ lists[s].next = 1
       /\ lists[s].files = {} /\ lists[s].rows = NoListings
  /\ lists[s].st # "listing" => lists[s].listed = NoListings
  /\ lists[s].left \subseteq lists[s].asked
  /\ ~case.partitioned => lists[s].asked \subseteq DataFilters /\ lists[s].joined = {}
  /\ ~(case.partitioned /\ Loaded(s)) => lists[s].left = lists[s].asked /\ lists[s].stats = None

\* What pruning left out has no row the query wants, and the filters it took out hold of
\* all that is left.
PruneInv(s) ==
  case.partitioned /\ Loaded(s) =>
    /\ \A p \in query.partitions \ PartitionIndexes(s) :
         /\ Glue(p).value # Bad
         /\ \E c \in (lists[s].asked \cup lists[s].joined) \cap KeyFilters :
              KeyAnswer[c][Glue(p).value] # "true"
    /\ \A c \in lists[s].asked \ lists[s].left :
         c \in KeyFilters /\ \A p \in PartitionIndexes(s) : KeyAnswer[c][Glue(p).value] = "true"
    /\ lists[s].stats # None => \A p \in PartitionIndexes(s) : Glue(p).value \in lists[s].stats

\* The files of a scan are data files of partitions it reads, stored in their format.
FilesInv(s) ==
  /\ \A f \in lists[s].files :
       /\ f \in DOMAIN Info(s).fileOf /\ (Open => f \in ever)
       /\ IF case.partitioned
          THEN LET p == Info(s).fileOf[f]
               IN  /\ p \in PartitionIndexes(s) /\ ~PartitionStorageMismatch(lists[s].info, p)
                   /\ IsDataFile(f, Glue(p).dir)
          ELSE IsDataFile(f, Root)
  /\ DOMAIN lists[s].rows \subseteq lists[s].files
  /\ \A f \in DOMAIN lists[s].rows :
       LET p == lists[s].rows[f]
       IN  /\ p = Info(s).fileOf[f]
           /\ case.partitioned => Glue(p).value # Bad /\ (Info(s).whole => Glue(p).readable)

\* The files of partition p are in the list, and it shares its location with no other.
Gathered(s, p) ==
  \A f \in always :
    LET o == Owner(Parts(s), f)
    IN  /\ IsDataFile(f, Glue(p).dir) /\ o # None /\ Glue(o).dir = Glue(p).dir
        => \/ HiddenDir(Glue(p).dir)
           \/ RegisteredAt(Parts(s), Glue(p).dir) = {p} /\ f \in lists[s].files

\* The directories of a batch that are listed.
BatchInv(s) ==
  lists[s].st = "listing" =>
    /\ case.partitioned /\ lists[s].next <= Len(PlanListings(s))
    /\ ~PlanListings(s)[lists[s].next].root
    /\ \A p \in Batch(s) : ~PartitionStorageMismatch(lists[s].info, p)
    /\ \A p \in DOMAIN lists[s].listed :
         /\ p \in Batch(s)
         /\ \A f \in lists[s].listed[p] : IsDataFile(f, Glue(p).dir) /\ (Open => f \in ever)
         /\ Open => \A f \in always : IsDataFile(f, Glue(p).dir) => f \in lists[s].listed[p]

\* The jobs behind a scan gathered what they were to.
JobsInv(s) ==
  /\ lists[s].next \in 1 .. Len(PlanListings(s)) + 1
  /\ lists[s].st = "done" => lists[s].next = Len(PlanListings(s)) + 1
  /\ Open => \A j \in 1 .. lists[s].next - 1 :
       IF case.partitioned THEN \A p \in PlanListings(s)[j].parts : Gathered(s, p)
       ELSE \A f \in always : IsDataFile(f, Root) => f \in lists[s].files

ScanInv(s) ==
  /\ ShapeInv(s) /\ PruneInv(s) /\ FilesInv(s) /\ BatchInv(s)
  /\ lists[s].st # "planning" => JobsInv(s)

\* Why a scan failed.
ErrorInv ==
  error # None =>
    /\ Active(error.scan) /\ Loaded(error.scan)
    /\ error.why = "shared" =>
         \E f \in ever :
           LET o == Owner(Parts(error.scan), f)
           IN  /\ o # None
               /\ ThrowsIfLocationShared(Parts(error.scan), o, PartitionIndexes(error.scan))
    /\ error.why \in {"format", "column"} =>
         \E p \in PartitionIndexes(error.scan) : ~(Glue(p).sameFormat /\ Glue(p).readable)

\* The file a sample measured was stored as the table says.
SampleInv(sample) ==
  sample # None =>
    /\ sample.info \in Scans /\ Active(sample.info)
    /\ case.partitioned =>
         /\ infos[sample.info].parts # None
         /\ sample.measured # None /\ infos[sample.info].whole =>
              Glue(Owner(query.partitions, sample.measured)).sameFormat

\* What the query measured of the table, with and without its catalog entry.
Samples == {query.samples[table] : table \in BOOLEAN}

IInv ==
  /\ TypeInv /\ StoreInv /\ ListingsInv /\ ErrorInv
  /\ \A i \in Scans : InfoInv(i)
  /\ \A s \in Scans : Active(s) => ScanInv(s)
  /\ \A sample \in Samples : SampleInv(sample)

LEMMA NothingTyped ==
  /\ NoListings \in Partial(Dirs, ListingSet) /\ NoListings \in Partial(Files, PartitionOrNone)
  /\ NoListings \in Partial(Partitions, SUBSET Files)
BY PartialNothing

LEMMA NewListType ==
  ASSUME NEW i \in Scans \cup {None}, NEW idx \in (SUBSET Partitions) \cup {None},
         NEW asked \in SUBSET Filters, NEW left \in SUBSET Filters
  PROVE  NewList(i, idx, asked, left, {}) \in ListSet
BY NothingTyped DEF NewList, ListSet, States

LEMMA NoScanFacts ==
  NoScan \in ListSet /\ NoScan.st = "free" /\ NoInfo \in InfoSet
<1>1. NewList(None, None, {}, {}, {}) \in ListSet
  BY NewListType
<1>2. NoScan \in ListSet /\ NoScan.st = "free"
  BY <1>1 DEF NoScan, ListSet, States
<1>3. NoInfo \in InfoSet
  BY NothingTyped DEF NoInfo, InfoSet
<1>4. QED
  BY <1>2, <1>3

LEMMA EmptyQueryType == EmptyQuery \in QuerySet
BY NothingTyped DEF EmptyQuery, QuerySet

LEMMA InitType == Init => TypeInv
<1> SUFFICES ASSUME Init PROVE TypeInv
  OBVIOUS
<1>1. query \in QuerySet
  BY EmptyQueryType DEF Init
<1>2. connListings \in Partial(Dirs, ListingSet)
  BY NothingTyped DEF Init
<1>3. infos \in [Scans -> InfoSet] /\ lists \in [Scans -> ListSet]
      /\ \A s \in Scans : lists[s].st = "free"
  BY NoScanFacts DEF Init
<1>4. case \in Cases /\ case \in CaseSet
  BY CasesAssumption DEF Init
<1>5. QED
  BY <1>1, <1>2, <1>3, <1>4 DEF Init, TypeInv

LEMMA BindType ==
  ASSUME TypeInv, NEW s \in Scans, BindHiveScan(s)
  PROVE  TypeInv'
<1>1. PICK asked \in SUBSET Filters :
         lists' = [lists EXCEPT ![s] = NewList(s, None, asked, asked, {})]
  BY DEF BindHiveScan, Filters
<1>2. NewList(s, None, asked, asked, {}) \in ListSet /\ NewList(s, None, asked, asked, {}).info = s
  BY NewListType DEF NewList
<1>3. lists' \in [Scans -> ListSet] /\ \A t \in Scans : lists'[t].st # "free" => lists'[t].info \in Scans
  BY <1>1, <1>2 DEF TypeInv
<1>4. infos' \in [Scans -> InfoSet]
  BY NoScanFacts DEF TypeInv, BindHiveScan
<1>5. QED
  BY <1>3, <1>4 DEF TypeInv, BindHiveScan

LEMMA LoadType ==
  ASSUME TypeInv, NEW s \in Scans, LoadPartitions(s)
  PROVE  TypeInv'
<1>1. PICK parts \in SUBSET Partitions :
         /\ query' = [query EXCEPT !.partitions = parts]
         /\ infos' = [infos EXCEPT ![lists[s].info].parts = parts]
  BY DEF LoadPartitions, TypeInv, QuerySet
<1>2. query' \in QuerySet
  BY <1>1 DEF TypeInv, QuerySet
<1>3. infos' \in [Scans -> InfoSet]
  BY <1>1 DEF TypeInv, InfoSet
<1>4. QED
  BY <1>2, <1>3 DEF TypeInv, LoadPartitions

LEMMA IndexesType ==
  ASSUME TypeInv, NEW s \in Scans, Active(s), Loaded(s)
  PROVE  /\ Info(s) \in InfoSet /\ Parts(s) \in SUBSET Partitions
         /\ PartitionIndexes(s) \in SUBSET Partitions
<1>1. lists[s].info \in Scans /\ Info(s) \in InfoSet
  BY DEF TypeInv, Active, Info
<1>2. Parts(s) \in SUBSET Partitions
  BY <1>1 DEF Parts, Loaded, InfoSet
<1>3. QED
  BY <1>1, <1>2 DEF PartitionIndexes, TypeInv, ListSet

\* The list n is l narrowed to the partitions kept.
NarrowedTo(s, kept, l, n) ==
  /\ n \in ListSet /\ n.st = l.st /\ n.info = l.info /\ n.asked = l.asked /\ n.left = l.left
  /\ n.joined = l.joined /\ n.stats = l.stats /\ n.rows = l.rows
  /\ kept = PartitionIndexes(s) =>
       /\ n.idx = l.idx /\ n.next = l.next /\ n.listed = l.listed /\ n.files = l.files
  /\ kept # PartitionIndexes(s) =>
       /\ n.idx = kept /\ n.next = 1 /\ n.listed = NoListings /\ n.files = {}

LEMMA NarrowedType ==
  ASSUME TypeInv, NEW s \in Scans, NEW kept \in SUBSET Partitions, NEW l \in ListSet
  PROVE  NarrowedTo(s, kept, l, Narrowed(s, kept, l))
<1>1. CASE kept = PartitionIndexes(s)
  BY <1>1 DEF Narrowed, NarrowedTo
<1>2. CASE kept # PartitionIndexes(s)
  <2>1. Narrowed(s, kept, l) = [l EXCEPT !.idx = kept, !.next = 1, !.listed = NoListings,
                                         !.files = {}]
    BY <1>2 DEF Narrowed
  <2>2. PICK n : n = [l EXCEPT !.idx = kept, !.next = 1, !.listed = NoListings, !.files = {}]
    OBVIOUS
  <2>3. n \in ListSet
    <3>1. kept \in (SUBSET Partitions) \cup {None} /\ 1 \in Nat \ {0} /\ {} \in SUBSET Files
      OBVIOUS
    <3>2. QED
      BY <2>2, <3>1, NothingTyped DEF ListSet
  <2>4. /\ n.st = l.st /\ n.info = l.info /\ n.asked = l.asked /\ n.left = l.left
        /\ n.joined = l.joined /\ n.stats = l.stats /\ n.rows = l.rows
        /\ n.idx = kept /\ n.next = 1 /\ n.listed = NoListings /\ n.files = {}
    BY <2>2 DEF ListSet
  <2>5. QED
    BY <1>2, <2>1, <2>2, <2>3, <2>4 DEF NarrowedTo
<1>3. QED
  BY <1>1, <1>2
-----------------------------------------------------------------------------
(***************************************************************************)
(* Listings.                                                               *)
(***************************************************************************)
\* What n more keys add to a listing: stored objects below d, all of them up to where
\* the listing then is.
MoreOf(l, d, m) ==
  /\ m \in ListingSet /\ l.got \subseteq m.got /\ l.at <= m.at /\ (l.done => m = l)
  /\ \A f \in m.got : f \in l.got \/ (f \in stored /\ UnderDir(f, d) /\ Rank[f] > l.at)
  /\ \A f \in stored : UnderDir(f, d) /\ (m.done \/ Rank[f] <= m.at)
                          => f \in m.got \/ l.done \/ Rank[f] <= l.at

\* More pages only add to a listing, and enough of them complete it.
LEMMA FetchedFacts ==
  ASSUME stored \in SUBSET Files, NEW l \in ListingSet, NEW d \in Dirs, NEW n \in Nat
  PROVE  /\ MoreOf(l, d, Fetched(l, d, n))
         /\ n >= Cardinality(Files) => Fetched(l, d, n).done
<1> DEFINE rest == RestOf(l, d)
           before(f) == {g \in rest : Rank[g] < Rank[f]}
           first == {f \in rest : Cardinality(before(f)) < n}
           ats == {l.at} \cup {Rank[f] : f \in first}
           m == [got |-> l.got \cup first, at |-> Max(ats), done |-> first = rest]
<1>1. l.got \in SUBSET Files /\ l.at \in Nat /\ l.done \in BOOLEAN
  BY DEF ListingSet
<1>2. CASE l.done
  <2>1. Fetched(l, d, n) = l
    BY <1>2 DEF Fetched
  <2>2. QED
    BY <1>1, <1>2, <2>1 DEF MoreOf
<1>3. CASE ~l.done
  <2>1. Fetched(l, d, n) = m
    BY <1>3 DEF Fetched
  <2>2. \A f : f \in rest <=> f \in stored /\ UnderDir(f, d) /\ Rank[f] > l.at
    BY DEF RestOf
  <2>3. rest \in SUBSET Files /\ IsFiniteSet(Files) /\ \A f \in Files : Rank[f] \in Nat
    BY <2>2, TreeAssumption
  <2>4. \A f \in rest : IsFiniteSet(before(f)) /\ Cardinality(before(f)) \in Nat
    BY <2>3, FS_Subset, FS_CardinalityType
  <2> HIDE DEF rest
  <2>5. ASSUME NEW f \in rest, NEW g \in first, Rank[f] <= Rank[g] PROVE f \in first
    <3>1. before(f) \in SUBSET before(g)
      BY <2>3, <2>5
    <3>2. Cardinality(before(f)) <= Cardinality(before(g))
      BY <2>4, <3>1, FS_Subset
    <3>3. /\ Cardinality(before(f)) \in Nat /\ Cardinality(before(g)) \in Nat
          /\ Cardinality(before(g)) < n /\ g \in rest
      BY <2>4, <2>5
    <3> HIDE DEF before
    <3>4. Cardinality(before(f)) < n
      BY <3>2, <3>3
    <3>5. QED
      BY <3>4
  <2>6. ASSUME n >= Cardinality(Files), NEW f \in rest PROVE f \in first
    <3>1. before(f) \in SUBSET Files /\ f \in Files /\ f \notin before(f)
      BY <2>3
    <3>2. Cardinality(before(f)) <= Cardinality(Files) /\ Cardinality(before(f)) # Cardinality(Files)
      BY <2>3, <3>1, FS_Subset
    <3>3. Cardinality(Files) \in Nat
      BY <2>3, FS_CardinalityType
    <3>4. QED
      BY <2>4, <2>6, <3>2, <3>3
  <2>7. ats \in SUBSET Nat /\ IsFiniteSet(ats) /\ ats # {}
    <3>1. first \in SUBSET Files /\ IsFiniteSet(first)
      BY <2>3, FS_Subset
    <3>2. IsFiniteSet({Rank[f] : f \in first})
      <4>1. PICK r : r = [f \in first |-> Rank[f]]
        OBVIOUS
      <4> HIDE DEF first
      <4>2. r \in Surjection(first, {Rank[f] : f \in first})
        BY <4>1 DEF Surjection
      <4>3. QED
        BY <3>1, <4>2, FS_Surjection
    <3>3. IsFiniteSet({l.at})
      BY FS_Singleton
    <3> HIDE DEF first
    <3>4. IsFiniteSet(ats)
      BY <3>2, <3>3, FS_Union
    <3>5. ats \in SUBSET Nat
      BY <1>1, <2>3, <3>1
    <3>6. QED
      BY <3>4, <3>5
  <2>8. Max(ats) \in ats /\ \A a \in ats : Max(ats) >= a
    <3> HIDE DEF ats
    <3>1. QED
      BY <2>7, GreatestOf
  <2>9. first \subseteq rest
    OBVIOUS
  <2> HIDE DEF first, before
  <2>10. /\ Max(ats) \in Nat /\ Max(ats) >= l.at
         /\ Max(ats) = l.at \/ \E g \in first : Max(ats) = Rank[g]
    BY <2>7, <2>8
  <2> HIDE DEF ats
  <2>11. /\ m \in ListingSet /\ m.got = l.got \cup first /\ m.at = Max(ats)
         /\ m.done <=> first = rest
    BY <1>1, <2>3, <2>9, <2>10 DEF ListingSet
  <2> HIDE DEF m
  <2>12. ASSUME NEW f \in stored, UnderDir(f, d), m.done \/ Rank[f] <= m.at,
                f \notin m.got, Rank[f] > l.at
         PROVE FALSE
    <3>1. f \in rest /\ f \notin first /\ f \in Files
      BY <2>2, <2>11, <2>12, <2>3
    <3>2. Rank[f] <= Max(ats)
      BY <2>11, <2>12, <3>1
    <3>3. PICK g \in first : Max(ats) = Rank[g]
      BY <1>1, <2>10, <2>12, <2>3, <3>1, <3>2
    <3>4. QED
      BY <2>5, <3>1, <3>2, <3>3
  <2>13. \A f \in stored : UnderDir(f, d) /\ (m.done \/ Rank[f] <= m.at)
                              => f \in m.got \/ Rank[f] <= l.at
    <3>1. \A f \in stored : Rank[f] \in Nat
      BY <2>3
    <3>2. QED
      BY <1>1, <2>12, <3>1
  <2>14. MoreOf(l, d, m)
    BY <1>1, <1>3, <2>2, <2>9, <2>10, <2>11, <2>13 DEF MoreOf
  <2>15. n >= Cardinality(Files) => m.done
    BY <2>6, <2>9, <2>11
  <2>16. QED
    BY <2>1, <2>14, <2>15
<1>4. QED
  BY <1>2, <1>3

\* A faithful listing is so after more pages.
LEMMA MoreFaithful ==
  ASSUME TypeInv, StoreInv, NEW l \in ListingSet, NEW d \in Dirs, Faithful(l, d),
         NEW m, MoreOf(l, d, m)
  PROVE  m \in ListingSet /\ Faithful(m, d)
<1>1. m \in ListingSet /\ (l.done => m = l)
  BY DEF MoreOf
<1>2. CASE l.done
  BY <1>1, <1>2
<1>3. CASE ~l.done
  <2>1. \A f \in m.got : f \in l.got \/ (f \in stored /\ UnderDir(f, d))
    BY DEF MoreOf
  <2>2. \A f \in m.got : UnderDir(f, d)
    BY <2>1 DEF Faithful
  <2>3. Open => m.got \subseteq ever
    BY <2>1 DEF Faithful, StoreInv
  <2>4. ASSUME Open, NEW f \in always, UnderDir(f, d), m.done \/ Rank[f] <= m.at
        PROVE  f \in m.got
    <3>1. f \in stored
      BY DEF StoreInv
    <3>2. f \in m.got \/ Rank[f] <= l.at
      BY <1>3, <2>4, <3>1 DEF MoreOf
    <3>3. l.got \subseteq m.got
      BY DEF MoreOf
    <3>4. QED
      BY <2>4, <3>2, <3>3 DEF Faithful
  <2>5. QED
    BY <1>1, <2>2, <2>3, <2>4 DEF Faithful
<1>4. QED
  BY <1>2, <1>3

\* A listing is faithful before its first page.
LEMMA UnlistedFacts ==
  ASSUME TypeInv, StoreInv, NEW d \in Dirs
  PROVE  Unlisted \in ListingSet /\ Faithful(Unlisted, d)
<1>1. Unlisted \in ListingSet
  BY DEF Unlisted, ListingSet
<1>2. \A f \in always : ~(Rank[f] <= 0)
  BY TreeAssumption DEF TypeInv
<1>3. QED
  BY <1>1, <1>2 DEF Unlisted, Faithful

\* The listing a scan shares, as far as it or more of it is fetched.
LEMMA SharedListing ==
  ASSUME TypeInv, StoreInv, ListingsInv, NEW s \in Scans, NEW d \in Dirs
  PROVE  /\ GetDirectoryListing(s, d) \in ListingSet /\ Faithful(GetDirectoryListing(s, d), d)
         /\ \A n \in Nat : LET m == Fetched(GetDirectoryListing(s, d), d, n)
                           IN  MoreOf(GetDirectoryListing(s, d), d, m)
                               /\ m \in ListingSet /\ Faithful(m, d)
         /\ LET m == AllPages(GetDirectoryListing(s, d), d)
            IN  m \in ListingSet /\ Faithful(m, d) /\ m.done
<1> DEFINE start == GetDirectoryListing(s, d)
<1>1. stored \in SUBSET Files
  BY DEF TypeInv
<1>2. start \in ListingSet /\ Faithful(start, d)
  <2>1. CASE d \in DOMAIN KeptListings(s)
    <3>1. start = KeptListings(s)[d]
      BY <2>1 DEF GetDirectoryListing
    <3>2. /\ query.listings \in [DOMAIN query.listings -> ListingSet]
          /\ connListings \in [DOMAIN connListings -> ListingSet]
      BY PartialFacts DEF TypeInv, QuerySet
    <3>3. QED
      BY <2>1, <3>1, <3>2 DEF KeptListings, ListingsInv
  <2>2. CASE d \notin DOMAIN KeptListings(s)
    <3>1. start = Fetched(Unlisted, d, PageSize)
      BY <2>2 DEF GetDirectoryListing, NextPage
    <3>2. Unlisted \in ListingSet /\ Faithful(Unlisted, d) /\ PageSize \in Nat
      BY UnlistedFacts, PagesAssumption
    <3>3. MoreOf(Unlisted, d, start)
      BY <1>1, <3>1, <3>2, FetchedFacts
    <3> HIDE DEF start
    <3>4. QED
      BY <3>2, <3>3, MoreFaithful
  <2>3. QED
    BY <2>1, <2>2
<1> HIDE DEF start
<1>3. ASSUME NEW n \in Nat, NEW m, m = Fetched(start, d, n)
      PROVE  MoreOf(start, d, m) /\ m \in ListingSet /\ Faithful(m, d)
  <2>1. MoreOf(start, d, m)
    BY <1>1, <1>2, <1>3, FetchedFacts
  <2>2. QED
    BY <1>2, <2>1, MoreFaithful
<1>4. Cardinality(Files) \in Nat
  BY TreeAssumption, FS_CardinalityType
<1>5. ASSUME NEW m, m = AllPages(start, d)
      PROVE  m \in ListingSet /\ Faithful(m, d) /\ m.done
  <2>1. m = Fetched(start, d, Cardinality(Files))
    BY <1>5 DEF AllPages
  <2>2. m.done
    BY <1>1, <1>2, <1>4, <2>1, FetchedFacts
  <2>3. QED
    BY <1>3, <1>4, <2>1, <2>2
<1>6. QED
  BY <1>2, <1>3, <1>5 DEF start

-----------------------------------------------------------------------------
(***************************************************************************)
(* The listing jobs of a scan.                                             *)
(***************************************************************************)
LEMMA Div ==
  ASSUME NEW a \in Nat, NEW t \in Nat \ {0}
  PROVE  a \div t \in Nat /\ t * (a \div t) <= a /\ a < t * (a \div t) + t
OBVIOUS

\* A positive factor cancels.
LEMMA LessByFactor ==
  ASSUME NEW t \in Nat \ {0}, NEW x \in Int, NEW y \in Int, t * x < t * y
  PROVE  x < y
OBVIOUS

LEMMA RoundsType ==
  ASSUME NEW n \in Nat, NEW t \in Nat \ {0}
  PROVE  RoundsOf(n, t) \in Nat
BY Div DEF RoundsOf

\* Rounds of t cover n.
LEMMA RoundsCover ==
  ASSUME NEW n \in Nat, NEW t \in Nat \ {0}, NEW i \in 1 .. n
  PROVE  \E j \in 1 .. RoundsOf(n, t) : (j - 1) * t + 1 <= i /\ i <= j * t
<1> DEFINE q == (i - 1) \div t
           r == RoundsOf(n, t)
<1>1. q \in Nat /\ t * q <= i - 1 /\ i - 1 < t * q + t
  BY Div
<1>2. r \in Nat /\ t * r <= n + t - 1 /\ n + t - 1 < t * r + t
  BY Div DEF RoundsOf
<1> HIDE DEF q, r
<1>3. t * q < t * r
  BY <1>1, <1>2
<1>4. q < r
  BY <1>1, <1>2, <1>3, LessByFactor
<1>5. q + 1 \in 1 .. r
  BY <1>1, <1>2, <1>4
<1>6. ((q + 1) - 1) * t + 1 <= i /\ i <= (q + 1) * t
  BY <1>1
<1>7. QED
  BY <1>5, <1>6 DEF r

\* A batch: the sequence from one number to another, cut at its end.
Batched(q, t, i) == SubSeq(q, (i - 1) * t + 1, Min({i * t, Len(q)}))

\* The batches hold what the sequence holds.
InBatches(S, q, t) ==
  /\ RoundsOf(Len(q), t) \in Nat
  /\ \A i \in 1 .. RoundsOf(Len(q), t) : ToSet(Batched(q, t, i)) \subseteq S
  /\ \A k \in 1 .. Len(q) :
       \E i \in 1 .. RoundsOf(Len(q), t) : q[k] \in ToSet(Batched(q, t, i))

\* Cut into batches, a sequence is covered by them.
LEMMA BatchedFacts ==
  ASSUME NEW S, NEW q \in Seq(S), NEW t \in Nat \ {0}
  PROVE  InBatches(S, q, t)
<1>1. Len(q) \in Nat /\ \A k \in 1 .. Len(q) : q[k] \in S
  BY LenProperties
<1>2. RoundsOf(Len(q), t) \in Nat
  BY <1>1, RoundsType
<1>3. ASSUME NEW i \in 1 .. RoundsOf(Len(q), t)
      PROVE  \E lo, hi \in Nat :
                /\ Batched(q, t, i) = SubSeq(q, lo, hi) /\ lo = (i - 1) * t + 1
                /\ (hi = i * t \/ hi = Len(q)) /\ hi <= i * t /\ hi <= Len(q) /\ lo >= 1
  <2>1. i \in Nat /\ i >= 1
    BY <1>2
  <2>2. i * t \in Nat /\ (i - 1) * t \in Nat
    BY <2>1
  <2>3. {i * t, Len(q)} \in SUBSET Nat
    BY <1>1, <2>2
  <2>4. /\ Min({i * t, Len(q)}) \in {i * t, Len(q)}
        /\ \A y \in {i * t, Len(q)} : Min({i * t, Len(q)}) <= y
    BY <2>3, LeastOf
  <2>5. (i - 1) * t + 1 \in Nat /\ (i - 1) * t + 1 >= 1
    BY <2>2
  <2>6. PICK hi \in Nat : hi = Min({i * t, Len(q)})
    BY <1>1, <2>2, <2>4
  <2>7. QED
    BY <1>1, <2>2, <2>4, <2>5, <2>6 DEF Batched
<1>4. ASSUME NEW i \in 1 .. RoundsOf(Len(q), t)
      PROVE  /\ ToSet(Batched(q, t, i)) \subseteq S
             /\ \A k \in 1 .. Len(q) : (i - 1) * t + 1 <= k /\ k <= i * t
                                         => q[k] \in ToSet(Batched(q, t, i))
  <2>1. PICK lo, hi \in Nat :
           /\ Batched(q, t, i) = SubSeq(q, lo, hi) /\ lo = (i - 1) * t + 1
           /\ (hi = i * t \/ hi = Len(q)) /\ hi <= i * t /\ hi <= Len(q) /\ lo >= 1
    BY <1>3
  <2>2. PICK b : b = SubSeq(q, lo, hi)
    OBVIOUS
  <2>3. DOMAIN b = 1 .. (IF lo <= hi THEN hi - lo + 1 ELSE 0)
    BY <1>1, <2>1, <2>2
  <2>4. \A n \in DOMAIN b : b[n] = q[n + lo - 1] /\ n + lo - 1 \in 1 .. Len(q)
    BY <1>1, <2>1, <2>2, <2>3
  <2>5. ToSet(b) \subseteq S
    BY <1>1, <2>4 DEF ToSet
  <2>6. ASSUME NEW k \in 1 .. Len(q), lo <= k, k <= i * t PROVE q[k] \in ToSet(b)
    <3>1. k <= hi
      BY <1>1, <2>1, <2>6
    <3>2. k - lo + 1 \in DOMAIN b
      BY <1>1, <2>1, <2>3, <2>6, <3>1
    <3>3. (k - lo + 1) + lo - 1 = k
      BY <1>1, <2>1
    <3>4. b[k - lo + 1] = q[k]
      BY <2>4, <3>2, <3>3
    <3>5. QED
      BY <3>2, <3>4 DEF ToSet
  <2>7. QED
    BY <2>1, <2>2, <2>5, <2>6
<1>5. ASSUME NEW k \in 1 .. Len(q)
      PROVE  \E i \in 1 .. RoundsOf(Len(q), t) : q[k] \in ToSet(Batched(q, t, i))
  <2>1. PICK i \in 1 .. RoundsOf(Len(q), t) : (i - 1) * t + 1 <= k /\ k <= i * t
    BY <1>1, RoundsCover
  <2>2. QED
    BY <1>4, <2>1
<1>6. QED
  BY <1>2, <1>4, <1>5 DEF InBatches

\* The partitions the root listing can hold.
Listable(s) == {p \in PartitionIndexes(s) : /\ Glue(p).dir \in Below(Root)
                                            /\ ~InEmptySegment(Glue(p).dir)}

\* Every partition a scan reads is in one of its jobs; those in a root listing can be
\* found there.
PlanFor(s, jobs) ==
  /\ Len(jobs) \in Nat
  /\ \A j \in 1 .. Len(jobs) : /\ jobs[j].root \in BOOLEAN
                               /\ jobs[j].parts \subseteq PartitionIndexes(s)
                               /\ jobs[j].root => jobs[j].parts \subseteq Listable(s)
  /\ ~case.partitioned => Len(jobs) = 1 /\ jobs[1].root /\ jobs[1].parts = {}
  /\ case.partitioned =>
       \A p \in PartitionIndexes(s) : \E j \in 1 .. Len(jobs) : p \in jobs[j].parts

\* The jobs of PlanListings cover the partitions a scan reads.
LEMMA PlanFacts ==
  ASSUME TypeInv, NEW s \in Scans, Active(s), Loaded(s)
  PROVE  PlanFor(s, PlanListings(s))
<1>1. CASE ~case.partitioned
  <2>1. PlanListings(s) = <<[root |-> TRUE, parts |-> {}]>>
    BY <1>1 DEF PlanListings
  <2>2. PICK jobs : jobs = <<[root |-> TRUE, parts |-> {}]>>
    OBVIOUS
  <2>3. Len(jobs) = 1 /\ jobs[1].root = TRUE /\ jobs[1].parts = {}
    BY <2>2
  <2>4. \A j \in 1 .. Len(jobs) : /\ jobs[j].root \in BOOLEAN
                                  /\ jobs[j].parts \subseteq PartitionIndexes(s)
                                  /\ jobs[j].parts \subseteq Listable(s)
    <3>1. \A j \in 1 .. Len(jobs) : j = 1
      BY <2>3
    <3>2. QED
      BY <2>3, <3>1
  <2>5. PlanFor(s, jobs)
    BY <1>1, <2>3, <2>4 DEF PlanFor
  <2>6. QED
    BY <2>1, <2>2, <2>5
<1>2. CASE case.partitioned
  <2> DEFINE J == [root : BOOLEAN, parts : SUBSET PartitionIndexes(s)]
             elsewhere == PartitionIndexes(s) \ Listable(s)
             t == case.threads
             Planned(listRoot, separately) ==
               /\ separately = SetToSeq(IF listRoot THEN {} ELSE Listable(s)) \o SetToSeq(elsewhere)
               /\ PlanListings(s) =
                    (IF listRoot THEN <<[root |-> TRUE, parts |-> Listable(s)]>> ELSE <<>>)
                    \o [i \in 1 .. RoundsOf(Len(separately), t) |->
                          [root |-> FALSE, parts |-> ToSet(Batched(separately, t, i))]]
  <2>1. \E listRoot \in BOOLEAN : \E separately : Planned(listRoot, separately)
    <3> DEFINE lr == /\ Listable(s) # {}
                     /\ IF case.threshold # NoThreshold
                        THEN Cardinality(Listable(s)) >= case.threshold
                        ELSE LET rounds == RoundsOf(Cardinality(Listable(s)), case.threads)
                                 rootPages == RoundsOf(Cardinality(
                                     {p \in Parts(s) : Glue(p).dir \in Below(Root)}), KeysPerPage)
                             IN  \/ rootPages < rounds
                                 \/ /\ rootPages = rounds
                                    /\ Cardinality(Listable(s)) >= RequestsSaved * rootPages
               q == SetToSeq(IF lr THEN {} ELSE Listable(s)) \o SetToSeq(elsewhere)
    <3>1. Planned(lr, q)
      BY <1>2 DEF PlanListings, Listable, Batched
    <3>2. PICK b : b = lr /\ b \in BOOLEAN
      OBVIOUS
    <3> HIDE DEF lr, q, Planned
    <3>3. QED
      BY <3>1, <3>2
  <2>2. PICK listRoot \in BOOLEAN : \E separately : Planned(listRoot, separately)
    BY <2>1
  <2>3. PICK separately : Planned(listRoot, separately)
    BY <2>2
  <2>4. PICK first, q1, q2 : /\ first = (IF listRoot THEN {} ELSE Listable(s))
                             /\ q1 = SetToSeq(first) /\ q2 = SetToSeq(elsewhere)
    OBVIOUS
  <2>5. separately = q1 \o q2
    BY <2>3, <2>4
  <2>6. t \in Nat \ {0}
    BY DEF TypeInv, CaseSet
  <2>7. PartitionIndexes(s) \in SUBSET Partitions /\ IsFiniteSet(PartitionIndexes(s))
    BY IndexesType, TreeAssumption, FS_Subset
  <2> DEFINE P == PartitionIndexes(s)
  <2>8. /\ first \in SUBSET P /\ elsewhere \in SUBSET P /\ Listable(s) \in SUBSET P
        /\ IsFiniteSet(first) /\ IsFiniteSet(elsewhere)
    BY <2>4, <2>7, FS_Subset DEF Listable
  <2>9. /\ q1 \in Seq(first) /\ \A e \in first : \E i \in DOMAIN q1 : q1[i] = e
        /\ q2 \in Seq(elsewhere) /\ \A e \in elsewhere : \E i \in DOMAIN q2 : q2[i] = e
    <3> HIDE DEF elsewhere, P, Planned, J, t
    <3>1. q1 \in Seq(first) /\ \A e \in first : \E i \in DOMAIN q1 : q1[i] = e
      BY <2>4, <2>8, SetToSeqFacts
    <3>2. q2 \in Seq(elsewhere) /\ \A e \in elsewhere : \E i \in DOMAIN q2 : q2[i] = e
      BY <2>4, <2>8, SetToSeqFacts
    <3>3. QED
      BY <3>1, <3>2
  <2>10. q1 \in Seq(P) /\ q2 \in Seq(P)
    BY <2>8, <2>9, SeqMonotonic
  <2>11. /\ separately \in Seq(P) /\ Len(separately) = Len(q1) + Len(q2)
         /\ \A i \in 1 .. Len(q1) + Len(q2) :
              separately[i] = IF i <= Len(q1) THEN q1[i] ELSE q2[i - Len(q1)]
    BY <2>5, <2>10, ConcatProperties
  <2>12. \A e \in first \cup elsewhere : \E i \in 1 .. Len(separately) : separately[i] = e
    <3>1. /\ Len(q1) \in Nat /\ Len(q2) \in Nat
          /\ DOMAIN q1 = 1 .. Len(q1) /\ DOMAIN q2 = 1 .. Len(q2)
      BY <2>10, LenProperties
    <3>2. ASSUME NEW e \in first PROVE \E i \in 1 .. Len(separately) : separately[i] = e
      <4>1. PICK i \in 1 .. Len(q1) : q1[i] = e
        BY <2>9, <3>1
      <4>2. QED
        BY <2>11, <3>1, <4>1
    <3>3. ASSUME NEW e \in elsewhere PROVE \E i \in 1 .. Len(separately) : separately[i] = e
      <4>1. PICK i \in 1 .. Len(q2) : q2[i] = e
        BY <2>9, <3>1
      <4>2. i + Len(q1) \in 1 .. Len(q1) + Len(q2) /\ ~(i + Len(q1) <= Len(q1))
            /\ (i + Len(q1)) - Len(q1) = i
        BY <3>1
      <4>3. QED
        BY <2>11, <3>1, <4>1, <4>2
    <3>4. QED
      BY <3>2, <3>3
  <2> DEFINE n == RoundsOf(Len(separately), t)
             batches == [i \in 1 .. n |-> [root |-> FALSE, parts |-> ToSet(Batched(separately, t, i))]]
             roots == IF listRoot THEN <<[root |-> TRUE, parts |-> Listable(s)]>> ELSE <<>>
  <2>13. /\ n \in Nat
         /\ \A i \in 1 .. n : ToSet(Batched(separately, t, i)) \subseteq P
         /\ \A k \in 1 .. Len(separately) :
               \E i \in 1 .. n : separately[k] \in ToSet(Batched(separately, t, i))
    <3> HIDE DEF P, t
    <3>1. InBatches(P, separately, t)
      BY <2>6, <2>11, BatchedFacts
    <3>2. QED
      BY <3>1 DEF InBatches
  <2>14. PlanListings(s) = roots \o batches
    BY <2>3
  <2> HIDE DEF n, elsewhere, Planned
  <2>15. /\ batches \in Seq(J) /\ Len(batches) = n
         /\ \A i \in 1 .. n : ~batches[i].root
                              /\ batches[i].parts = ToSet(Batched(separately, t, i))
    BY <2>13
  <2>16. /\ roots \in Seq(J)
         /\ listRoot => Len(roots) = 1 /\ roots[1].root /\ roots[1].parts = Listable(s)
         /\ ~listRoot => Len(roots) = 0
    <3>1. CASE listRoot
      <4>1. [root |-> TRUE, parts |-> Listable(s)] \in J
        BY <2>8
      <4>2. roots = <<[root |-> TRUE, parts |-> Listable(s)]>>
        BY <3>1
      <4> HIDE DEF J
      <4>3. roots \in Seq(J)
        BY <4>1, <4>2
      <4>4. Len(roots) = 1 /\ roots[1] = [root |-> TRUE, parts |-> Listable(s)]
        BY <4>2
      <4>5. QED
        BY <3>1, <4>3, <4>4
    <3>2. CASE ~listRoot
      <4>1. roots = << >>
        BY <3>2
      <4> HIDE DEF J, roots
      <4>2. QED
        BY <3>2, <4>1, EmptySeq
    <3>3. QED
      BY <3>1, <3>2
  <2> HIDE DEF batches, roots, J, t
  <2>17. /\ PlanListings(s) \in Seq(J) /\ Len(PlanListings(s)) = Len(roots) + n
         /\ \A i \in 1 .. Len(roots) + n :
              PlanListings(s)[i] = IF i <= Len(roots) THEN roots[i] ELSE batches[i - Len(roots)]
    BY <2>14, <2>15, <2>16, ConcatProperties
  <2>18. Len(roots) \in {0, 1} /\ (listRoot <=> Len(roots) = 1)
    BY <2>16
  <2>19. ASSUME NEW j \in 1 .. Len(PlanListings(s))
         PROVE  /\ PlanListings(s)[j].root \in BOOLEAN
                /\ PlanListings(s)[j].parts \subseteq PartitionIndexes(s)
                /\ PlanListings(s)[j].root => PlanListings(s)[j].parts \subseteq Listable(s)
    <3>1. PlanListings(s)[j] \in J
      BY <2>17, ElementOfSeq
    <3>2. CASE j <= Len(roots)
      <4>1. j = 1 /\ listRoot /\ PlanListings(s)[j] = roots[1]
        BY <2>13, <2>17, <2>18, <3>2
      <4>2. QED
        BY <2>16, <3>1, <4>1 DEF J
    <3>3. CASE ~(j <= Len(roots))
      <4>1. j - Len(roots) \in 1 .. n /\ PlanListings(s)[j] = batches[j - Len(roots)]
        BY <2>13, <2>17, <2>18, <3>3
      <4>2. QED
        BY <2>15, <3>1, <4>1 DEF J
    <3>4. QED
      BY <3>2, <3>3
  <2>20. ASSUME NEW p \in PartitionIndexes(s)
         PROVE  \E j \in 1 .. Len(PlanListings(s)) : p \in PlanListings(s)[j].parts
    <3>1. CASE listRoot /\ p \in Listable(s)
      <4>0. Len(roots) = 1 /\ 1 \in 1 .. 1 + n
        BY <2>13, <2>16, <3>1
      <4>1. 1 \in 1 .. Len(PlanListings(s)) /\ PlanListings(s)[1] = roots[1]
        BY <2>17, <4>0
      <4>2. QED
        BY <2>16, <3>1, <4>1
    <3>2. CASE ~(listRoot /\ p \in Listable(s))
      <4>1. p \in first \cup elsewhere
        BY <2>4, <3>2 DEF elsewhere
      <4>2. PICK k \in 1 .. Len(separately) : separately[k] = p
        BY <2>12, <4>1
      <4>3. PICK i \in 1 .. n : p \in ToSet(Batched(separately, t, i))
        BY <2>13, <4>2
      <4>4. /\ i + Len(roots) \in 1 .. Len(PlanListings(s)) /\ ~(i + Len(roots) <= Len(roots))
            /\ (i + Len(roots)) - Len(roots) = i
        BY <2>13, <2>17, <2>18
      <4>5. PlanListings(s)[i + Len(roots)] = batches[i]
        BY <2>17, <4>4
      <4>6. QED
        BY <2>15, <4>3, <4>4, <4>5
    <3>3. QED
      BY <3>1, <3>2
  <2>21. Len(PlanListings(s)) \in Nat
    BY <2>17, LenProperties
  <2>22. QED
    BY <1>2, <2>19, <2>20, <2>21 DEF PlanFor
<1>3. QED
  BY <1>1, <1>2

\* One faithful listing more.
LEMMA OneMoreFaithful ==
  ASSUME NEW ls, \A e \in DOMAIN ls : Faithful(ls[e], e), NEW d, NEW l, Faithful(l, d),
         NEW one, DOMAIN one = {d}, one[d] = l
  PROVE  \A e \in DOMAIN Extended(ls, one) : Faithful(Extended(ls, one)[e], e)
<1> SUFFICES ASSUME NEW e \in DOMAIN Extended(ls, one) PROVE Faithful(Extended(ls, one)[e], e)
  OBVIOUS
<1>1. CASE e = d
  <2>1. e \in DOMAIN one /\ one[e] = l
    BY <1>1
  <2>2. Extended(ls, one)[e] = one[e]
    BY <2>1 DEF Extended
  <2>3. QED
    BY <1>1, <2>1, <2>2
<1>2. CASE e # d
  <2>1. e \in DOMAIN ls /\ Extended(ls, one)[e] = ls[e]
    BY <1>2, ExtendedFacts
  <2>2. QED
    BY <2>1
<1>3. QED
  BY <1>1, <1>2

\* The listings kept once a scan listed a directory.
LEMMA ListedOne ==
  ASSUME TypeInv, ListingsInv, NEW s \in Scans, NEW d \in Dirs,
         NEW l \in ListingSet, Faithful(l, d)
  PROVE  /\ QueryWith(s, d, l) \in QuerySet
         /\ QueryWith(s, d, l).partitions = query.partitions
         /\ QueryWith(s, d, l).samples = query.samples
         /\ \A e \in DOMAIN QueryWith(s, d, l).listings : Faithful(QueryWith(s, d, l).listings[e], e)
         /\ ConnectionWith(s, d, l) \in Partial(Dirs, ListingSet)
         /\ \A e \in DOMAIN ConnectionWith(s, d, l) : Faithful(ConnectionWith(s, d, l)[e], e)
<1> DEFINE one == [x \in {d} |-> l]
<1>1. one \in Partial(Dirs, ListingSet) /\ DOMAIN one = {d} /\ one[d] = l
  <2>1. one \in [{d} -> ListingSet] /\ {d} \in SUBSET Dirs
    OBVIOUS
  <2> HIDE DEF one
  <2>2. one \in Partial(Dirs, ListingSet)
    BY <2>1, PartialType
  <2>3. QED
    BY <2>2 DEF one
<1> HIDE DEF one
<1>2. query \in QuerySet /\ query.listings \in Partial(Dirs, ListingSet)
      /\ connListings \in Partial(Dirs, ListingSet)
  BY DEF TypeInv, QuerySet
<1>3. CASE CacheListings(s)
  <2>1. QueryWith(s, d, l) = query /\ ConnectionWith(s, d, l) = Extended(connListings, one)
    BY <1>3 DEF QueryWith, ConnectionWith, one
  <2>2. Extended(connListings, one) \in Partial(Dirs, ListingSet)
    BY <1>1, <1>2, PartialExtended
  <2>3. \A e \in DOMAIN Extended(connListings, one) : Faithful(Extended(connListings, one)[e], e)
    BY <1>1, OneMoreFaithful DEF ListingsInv
  <2>4. QED
    BY <1>2, <2>1, <2>2, <2>3 DEF ListingsInv
<1>4. CASE ~CacheListings(s)
  <2>1. PICK ext : ext = Extended(query.listings, one)
    OBVIOUS
  <2>2. /\ QueryWith(s, d, l) = [query EXCEPT !.listings = ext]
        /\ ConnectionWith(s, d, l) = connListings
    BY <1>4, <2>1 DEF QueryWith, ConnectionWith, one
  <2>3. ext \in Partial(Dirs, ListingSet)
    BY <1>1, <1>2, <2>1, PartialExtended
  <2>4. \A e \in DOMAIN ext : Faithful(ext[e], e)
    BY <1>1, <2>1, OneMoreFaithful DEF ListingsInv
  <2>5. PICK q : q = [query EXCEPT !.listings = ext]
    OBVIOUS
  <2>6. /\ q \in QuerySet /\ q.partitions = query.partitions /\ q.samples = query.samples
        /\ q.listings = ext
    BY <1>2, <2>3, <2>5 DEF QuerySet
  <2>7. QED
    BY <1>2, <2>2, <2>4, <2>5, <2>6 DEF ListingsInv
<1>5. QED
  BY <1>3, <1>4

\* A directory stays faithfully listed while its objects come and go.
KeepsStore ==
  /\ case' = case
  /\ Open' => Open /\ ever \subseteq ever' /\ always' \subseteq always

\* A listing is faithful as long as the history only grows.
LEMMA FaithfulFrame ==
  ASSUME KeepsStore, NEW l, NEW d, Faithful(l, d)
  PROVE  Faithful(l, d)'
BY DEF KeepsStore, Faithful, UnderDir

-----------------------------------------------------------------------------
(***************************************************************************)
(* The sample.                                                             *)
(***************************************************************************)
\* What the sample of a directory says of its files.
Sampled(s, m) ==
  /\ m.dir \in Dirs /\ m.listing \in ListingSet /\ Faithful(m.listing, m.dir)
  /\ m.root \in BOOLEAN
  /\ m.owners \in Partial(Files, PartitionOrNone)
  /\ \A f \in DOMAIN m.owners : f \in m.listing.got
  /\ \A f \in DOMAIN m.owners : IF case.partitioned
                                THEN m.owners[f] # None /\ m.owners[f] = Owner(Parts(s), f)
                                ELSE m.owners[f] = None

\* Looked for below some directory only, an owner is the owner.
LEMMA OwnerFound ==
  ASSUME TypeInv, NEW parts \in SUBSET Partitions, NEW f \in Files, NEW W, Downward(W),
         OwningPartition(parts, f, W) # None
  PROVE  /\ OwningPartition(parts, f, W) = Owner(parts, f) /\ Owner(parts, f) # None
         /\ Owner(parts, f) \in parts /\ Glue(Owner(parts, f)).dir \in W
         /\ UnderDir(f, Glue(Owner(parts, f)).dir)
<1>1. case \in CaseSet
  BY DEF TypeInv
<1>2. OwningPartition(parts, f, W) =
        IF Owner(parts, f) # None /\ Glue(Owner(parts, f)).dir \in W THEN Owner(parts, f) ELSE None
  BY <1>1, OwnerWithin
<1>3. OwnedBy(parts, f, Dirs, Owner(parts, f))
  BY <1>1, OwnerFacts DEF Owner
<1>4. QED
  BY <1>2, <1>3 DEF OwnedBy

\* Who owns a file in its own state's Glue; a file of an unpartitioned table has no owner.
LEMMA NoOwner ==
  ASSUME NEW f, NEW W
  PROVE  OwningPartition({}, f, W) = None
<1>1. \A d : RegisteredAt({}, d) = {}
  BY DEF RegisteredAt
<1>2. QED
  BY <1>1 DEF OwningPartition

\* What SampleRootPartitions sees are data files with their owners.
LEMMA RootSampled ==
  ASSUME TypeInv, StoreInv, ListingsInv, NEW s \in Scans, Active(s), Loaded(s),
         case.partitioned, NEW reading
  PROVE  Sampled(s, SampleRootPartitions(s, reading))
<1> DEFINE start == GetDirectoryListing(s, Root)
           pages == Pages(start, Root)
<1>1. Root \in Dirs /\ Cardinality(Files) \in Nat /\ PageSize \in Nat \ {0} /\ Parts(s) \in SUBSET Partitions
  BY TreeAssumption, FS_CardinalityType, PagesAssumption, IndexesType
<1>2. stored \in SUBSET Files /\ start \in ListingSet /\ Faithful(start, Root)
  BY <1>1, SharedListing DEF TypeInv
<1>3. DOMAIN pages = 0 .. Cardinality(Files) + 1
  BY DEF Pages
<1>4. ASSUME NEW k \in DOMAIN pages
      PROVE  pages[k] \in ListingSet /\ Faithful(pages[k], Root)
  <2>1. CASE k = 0
    BY <1>2, <1>3, <2>1 DEF Pages
  <2>2. CASE k # 0
    <3>1. pages[k] = Fetched(start, Root, k * PageSize) /\ k * PageSize \in Nat
      BY <1>1, <1>3, <2>2 DEF Pages
    <3> HIDE DEF pages
    <3>2. QED
      BY <1>1, <3>1, SharedListing
  <2>3. QED
    BY <2>1, <2>2
<1>5. pages[Cardinality(Files) + 1].done /\ Cardinality(Files) + 1 \in DOMAIN pages
  <2>1. PICK k \in DOMAIN pages : k = Cardinality(Files) + 1
    BY <1>1, <1>3
  <2>2. pages[k] = Fetched(start, Root, k * PageSize)
    BY <1>1, <1>3, <2>1 DEF Pages
  <2>3. k * PageSize \in Nat /\ k * PageSize >= Cardinality(Files)
    <3>1. k \in Nat /\ k >= 1 /\ PageSize >= 1 /\ k >= Cardinality(Files)
      BY <1>1, <2>1
    <3>2. k * PageSize >= k
      BY <1>1, <3>1
    <3>3. QED
      BY <1>1, <3>1, <3>2
  <2> HIDE DEF pages, start
  <2>4. Fetched(start, Root, k * PageSize).done
    BY <1>1, <1>2, <2>3, FetchedFacts
  <2>5. QED
    BY <2>1, <2>2, <2>4
<1> DEFINE owner == [f \in Files |-> OwningPartition(Parts(s), f, Below(Root))]
           data(l) == {f \in l.got : IsDataFile(f, Root)}
           read(l) == {f \in data(l) : owner[f] \in reading}
           inSampled(f, l) == UnderDir(f, Glue(owner[Lowest(read(l))]).dir)
           left(l) == read(l) # {} /\ ~inSampled(Highest(data(l)), l)
           stops == {k \in DOMAIN pages : pages[k].done \/ left(pages[k])}
           listing == pages[Min(stops)]
           seen == {f \in data(listing) : /\ owner[f] # None
                                          /\ \/ f \in start.got
                                             \/ read(listing) = {}
                                             \/ Rank[f] < Rank[Lowest(read(listing))]
                                             \/ inSampled(f, listing)}
           kept == seen \ PartlySeen(seen, owner, listing.done /\ ~left(listing), read(listing))
           m == [dir |-> Root, listing |-> listing, root |-> TRUE,
                 owners |-> [f \in kept |-> owner[f]]]
<1>6. SampleRootPartitions(s, reading) = m
  BY DEF SampleRootPartitions
<1>7. Min(stops) \in DOMAIN pages
  <2>1. stops \in SUBSET Nat /\ stops # {}
    BY <1>1, <1>3, <1>5
  <2> HIDE DEF stops
  <2>2. Min(stops) \in stops
    BY <2>1, LeastOf
  <2>3. QED
    BY <2>2 DEF stops
<1> HIDE DEF start, pages
<1>8. listing \in ListingSet /\ Faithful(listing, Root)
  <2> HIDE DEF stops
  <2>1. QED
    BY <1>4, <1>7
<1>9. kept \subseteq seen /\ \A f \in seen : f \in listing.got /\ owner[f] # None
  OBVIOUS
<1> HIDE DEF stops, listing, seen, kept
<1>10. listing.got \in SUBSET Files
  BY <1>8 DEF ListingSet
<1>11. ASSUME NEW f \in kept
       PROVE  /\ f \in Files /\ owner[f] # None /\ owner[f] \in PartitionOrNone
              /\ owner[f] = Owner(Parts(s), f)
  <2>1. f \in Files /\ owner[f] # None /\ owner[f] = OwningPartition(Parts(s), f, Below(Root))
    BY <1>9, <1>10
  <2>2. Downward(Below(Root))
    BY <1>1, BelowDownward
  <2>3. owner[f] = Owner(Parts(s), f) /\ Owner(Parts(s), f) \in Parts(s)
    BY <1>1, <2>1, <2>2, OwnerFound
  <2>4. QED
    BY <1>1, <2>1, <2>3 DEF PartitionOrNone
<1> HIDE DEF owner
<1>12. PICK o : o = [f \in kept |-> owner[f]]
  OBVIOUS
<1>13. o \in Partial(Files, PartitionOrNone)
  <2>1. kept \in SUBSET Files /\ o \in [kept -> PartitionOrNone]
    BY <1>11, <1>12
  <2>2. QED
    BY <2>1, PartialType
<1>14. m.dir = Root /\ m.listing = listing /\ m.root = TRUE /\ m.owners = o
  BY <1>12
<1> HIDE DEF m
<1>15. QED
  BY <1>1, <1>6, <1>8, <1>9, <1>11, <1>12, <1>13, <1>14 DEF Sampled

\* So does SampleOwn for one partition.
LEMMA OwnSampled ==
  ASSUME TypeInv, StoreInv, ListingsInv, NEW s \in Scans, Active(s), Loaded(s),
         case.partitioned, NEW p \in Parts(s)
  PROVE  Sampled(s, SampleOwn(s, p))
<1>1. Parts(s) \in SUBSET Partitions /\ p \in Partitions /\ Glue(p).dir \in Dirs
  BY IndexesType, GlueType DEF TypeInv
<1>2. PICK d \in Dirs : d = Glue(p).dir
  BY <1>1
<1>3. PICK listing : listing = AllPages(GetDirectoryListing(s, d), d)
  OBVIOUS
<1>4. listing \in ListingSet /\ Faithful(listing, d)
  BY <1>3, SharedListing
<1>5. PICK mine : mine = {f \in listing.got : IsDataFile(f, d)
                            /\ OwningPartition(Parts(s), f, AtOrBelow(d)) = p}
  OBVIOUS
<1>6. PICK o : o = [f \in mine |-> p]
  OBVIOUS
<1>7. mine \in SUBSET Files /\ mine \subseteq listing.got
  BY <1>4, <1>5 DEF ListingSet
<1>8. o \in Partial(Files, PartitionOrNone)
  <2>1. o \in [mine -> PartitionOrNone]
    BY <1>1, <1>6 DEF PartitionOrNone
  <2>2. QED
    BY <1>7, <2>1, PartialType
<1>9. \A f \in mine : o[f] = p /\ p # None /\ p = Owner(Parts(s), f)
  <2>1. Downward(AtOrBelow(d))
    BY BelowDownward
  <2>2. p # None
    BY <1>1, NoneDistinct
  <2>3. QED
    BY <1>1, <1>5, <1>6, <1>7, <2>1, <2>2, OwnerFound
<1>10. SampleOwn(s, p) = [dir |-> d, listing |-> listing, root |-> FALSE, owners |-> o]
  BY <1>2, <1>3, <1>5, <1>6 DEF SampleOwn
<1>11. PICK m : m = [dir |-> d, listing |-> listing, root |-> FALSE, owners |-> o]
  OBVIOUS
<1>12. Sampled(s, m)
  BY <1>4, <1>6, <1>7, <1>8, <1>9, <1>11 DEF Sampled
<1>13. QED
  BY <1>10, <1>11, <1>12

\* And so does every directory a sample lists.
LEMMA TableSampled ==
  ASSUME TypeInv, StoreInv, ListingsInv, NEW s \in Scans, Active(s), Loaded(s),
         case.partitioned => PartitionIndexes(s) # {} /\ PartitionIndexes(s) \subseteq Parts(s),
         NEW m \in SampleDirectories(s)
  PROVE  Sampled(s, m)
<1>1. CASE ~case.partitioned
  <2>1. PICK whole : whole = AllPages(GetDirectoryListing(s, Root), Root)
    OBVIOUS
  <2>2. PICK files : files = {f \in whole.got : IsDataFile(f, Root)}
    OBVIOUS
  <2>3. PICK o : o = [f \in files |-> None]
    OBVIOUS
  <2>4. m = [dir |-> Root, listing |-> whole, root |-> FALSE, owners |-> o]
    BY <1>1, <2>1, <2>2, <2>3 DEF SampleDirectories
  <2>5. Root \in Dirs /\ whole \in ListingSet /\ Faithful(whole, Root)
    BY <2>1, SharedListing, TreeAssumption
  <2>6. o \in Partial(Files, PartitionOrNone)
    <3>1. files \in SUBSET Files /\ o \in [files -> PartitionOrNone]
      BY <2>2, <2>3, <2>5 DEF ListingSet, PartitionOrNone
    <3>2. QED
      BY <3>1, PartialType
  <2>7. QED
    BY <1>1, <2>2, <2>3, <2>4, <2>5, <2>6 DEF Sampled
<1>2. CASE case.partitioned
  <2>1. PICK jobs : jobs = PlanListings(s) /\ PlanFor(s, jobs)
    BY PlanFacts
  <2>2. 1 \in 1 .. Len(jobs)
    BY <1>2, <2>1 DEF PlanFor
  <2>3. jobs[1].parts \subseteq Parts(s)
    BY <1>2, <2>1, <2>2 DEF PlanFor
  <2>4. CASE jobs[1].root
    <3>1. m = SampleRootPartitions(s, jobs[1].parts)
      BY <1>2, <2>1, <2>4 DEF SampleDirectories
    <3>2. QED
      BY <1>2, <3>1, RootSampled
  <2>5. CASE ~jobs[1].root
    <3>1. PICK p \in jobs[1].parts : m = SampleOwn(s, p)
      BY <1>2, <2>1, <2>5 DEF SampleDirectories
    <3>2. QED
      BY <1>2, <2>3, <3>1, OwnSampled
  <2>6. QED
    BY <2>4, <2>5
<1>3. QED
  BY <1>1, <1>2

-----------------------------------------------------------------------------
(***************************************************************************)
(* What a step leaves alone.                                               *)
(***************************************************************************)
\* A scan reads the same partitions as before.
KeepsView(s) ==
  /\ case' = case /\ lists'[s].info = lists[s].info /\ lists'[s].idx = lists[s].idx
  /\ infos'[lists[s].info].parts = infos[lists[s].info].parts
  /\ infos'[lists[s].info].whole = infos[lists[s].info].whole
  /\ infos'[lists[s].info].table = infos[lists[s].info].table

\* A scan is at the same point as before, but for its estimate.
KeepsScan(s) ==
  /\ lists'[s].st = lists[s].st /\ lists'[s].info = lists[s].info
  /\ lists'[s].idx = lists[s].idx /\ lists'[s].asked = lists[s].asked
  /\ lists'[s].left = lists[s].left /\ lists'[s].joined = lists[s].joined
  /\ lists'[s].next = lists[s].next /\ lists'[s].listed = lists[s].listed
  /\ lists'[s].files = lists[s].files /\ lists'[s].rows = lists[s].rows
  /\ lists'[s].stats = lists[s].stats

\* What is known of the files of a scan stays known.
KeepsFiles(i) ==
  \A f \in DOMAIN infos[i].fileOf :
    f \in DOMAIN infos'[i].fileOf /\ infos'[i].fileOf[f] = infos[i].fileOf[f]

KeepsInfo(i) ==
  /\ infos'[i].parts = infos[i].parts /\ infos'[i].whole = infos[i].whole
  /\ infos'[i].table = infos[i].table /\ KeepsFiles(i)

\* The partitions of the query, once loaded, stay.
KeepsQuery == query'.partitions = query.partitions \/ query.partitions = None

\* What Glue holds of the partitions does not change.
LEMMA GlueFrame ==
  ASSUME case' = case
  PROVE  /\ \A p : (Glue(p))' = Glue(p)
         /\ \A parts, d : (RegisteredAt(parts, d))' = RegisteredAt(parts, d)
         /\ \A parts, f, W : (OwningPartition(parts, f, W))' = OwningPartition(parts, f, W)
         /\ \A parts, f : (Owner(parts, f))' = Owner(parts, f)
         /\ \A parts, o, reading : (ThrowsIfLocationShared(parts, o, reading))'
                                      = ThrowsIfLocationShared(parts, o, reading)
<1>1. \A p : (Glue(p))' = Glue(p)
  BY DEF Glue
<1>2. \A parts, d : (RegisteredAt(parts, d))' = RegisteredAt(parts, d)
  BY <1>1 DEF RegisteredAt
<1>3. \A parts, f, W : (OwningPartition(parts, f, W))' = OwningPartition(parts, f, W)
  BY DEF OwningPartition, RegisteredAt, Glue
<1>4. \A parts, f : (Owner(parts, f))' = Owner(parts, f)
  BY <1>3 DEF Owner
<1>5. \A parts, o, reading : (ThrowsIfLocationShared(parts, o, reading))'
                                = ThrowsIfLocationShared(parts, o, reading)
  BY DEF ThrowsIfLocationShared, RegisteredAt, Glue
<1>6. QED
  BY <1>1, <1>2, <1>3, <1>4, <1>5

\* A scan that keeps its info and its partitions keeps its plan.
LEMMA ViewFrame ==
  ASSUME NEW s, KeepsView(s)
  PROVE  /\ Loaded(s)' <=> Loaded(s)
         /\ Parts(s)' = Parts(s)
         /\ PartitionIndexes(s)' = PartitionIndexes(s)
         /\ PlanListings(s)' = PlanListings(s)
         /\ \A p : (PartitionStorageMismatch(lists[s].info, p))'
                      <=> PartitionStorageMismatch(lists[s].info, p)
<1>1. /\ Loaded(s)' <=> Loaded(s)
      /\ Parts(s)' = Parts(s)
  BY DEF KeepsView, Loaded, Parts, Info
<1>2. PartitionIndexes(s)' = PartitionIndexes(s)
  BY <1>1 DEF KeepsView, PartitionIndexes
<1>3. PlanListings(s)' = PlanListings(s)
  BY <1>1, <1>2 DEF KeepsView, PlanListings, Glue
<1>4. \A p : (PartitionStorageMismatch(lists[s].info, p))'
                <=> PartitionStorageMismatch(lists[s].info, p)
  BY DEF KeepsView, PartitionStorageMismatch, Glue
<1>5. QED
  BY <1>1, <1>2, <1>3, <1>4

LEMMA ShapeFrame ==
  ASSUME NEW s, NEW i, i = lists[s].info, KeepsView(s), KeepsScan(s), ShapeInv(s),
         lists'[i].st # "free", lists'[i].info = lists[i].info
  PROVE  ShapeInv(s)'
<1>1. Loaded(s)' <=> Loaded(s)
  BY ViewFrame
<1>2. /\ lists'[s].info = i /\ case' = case /\ infos'[i].parts = infos[i].parts
      /\ lists[i].info = i /\ i \in Scans
  BY DEF KeepsView, ShapeInv
<1>3. QED
  BY <1>1, <1>2 DEF ShapeInv, KeepsScan, Info, Active

LEMMA PruneFrame ==
  ASSUME NEW s, KeepsView(s), KeepsScan(s), KeepsQuery, PruneInv(s),
         case.partitioned /\ Loaded(s) => query.partitions # None
  PROVE  PruneInv(s)'
<1>1. /\ Loaded(s)' <=> Loaded(s)
      /\ PartitionIndexes(s)' = PartitionIndexes(s)
  BY ViewFrame
<1>2. \A p : (Glue(p))' = Glue(p)
  BY GlueFrame DEF KeepsView
<1>3. CASE case.partitioned /\ Loaded(s)
  <2>1. query'.partitions = query.partitions
    BY <1>3 DEF KeepsQuery
  <2>2. QED
    BY <1>1, <1>2, <1>3, <2>1 DEF PruneInv, KeepsScan
<1>4. CASE ~(case.partitioned /\ Loaded(s))
  BY <1>1, <1>4 DEF PruneInv, KeepsView
<1>5. QED
  BY <1>3, <1>4

LEMMA FilesFrame ==
  ASSUME NEW s, KeepsView(s), KeepsStore, KeepsFiles(lists[s].info), FilesInv(s),
         lists'[s].files = lists[s].files, lists'[s].rows = lists[s].rows
  PROVE  FilesInv(s)'
<1>1. PICK i : i = lists[s].info
  OBVIOUS
<1>2. PartitionIndexes(s)' = PartitionIndexes(s)
  BY ViewFrame
<1>3. /\ lists'[s].info = i /\ case' = case /\ infos'[i].whole = infos[i].whole
      /\ infos'[i].table = infos[i].table
      /\ Open' => Open /\ ever \subseteq ever'
      /\ \A f \in DOMAIN infos[i].fileOf :
           f \in DOMAIN infos'[i].fileOf /\ infos'[i].fileOf[f] = infos[i].fileOf[f]
  BY <1>1 DEF KeepsView, KeepsFiles, KeepsStore
<1>4. ASSUME NEW f \in lists'[s].files
      PROVE  /\ f \in DOMAIN infos'[i].fileOf /\ (Open' => f \in ever')
             /\ infos'[i].fileOf[f] = infos[i].fileOf[f]
             /\ case.partitioned =>
                  /\ infos[i].fileOf[f] \in PartitionIndexes(s)'
                  /\ ~PartitionStorageMismatch(i, infos[i].fileOf[f])
                  /\ IsDataFile(f, Glue(infos[i].fileOf[f]).dir)
             /\ ~case.partitioned => IsDataFile(f, Root)
  BY <1>1, <1>2, <1>3 DEF FilesInv, Info
<1>5. ASSUME NEW f \in DOMAIN lists'[s].rows
      PROVE  /\ f \in lists'[s].files /\ lists'[s].rows[f] = infos'[i].fileOf[f]
             /\ case.partitioned => /\ Glue(lists'[s].rows[f]).value # Bad
                                    /\ infos[i].whole => Glue(lists'[s].rows[f]).readable
  <2>1. f \in lists[s].files /\ f \in lists'[s].files
    BY DEF FilesInv
  <2>2. infos'[i].fileOf[f] = infos[i].fileOf[f]
    BY <1>4, <2>1
  <2>3. QED
    BY <1>1, <2>1, <2>2 DEF FilesInv, Info
<1>6. \A f \in lists'[s].files :
        /\ f \in DOMAIN infos'[i].fileOf /\ (Open' => f \in ever')
        /\ IF case'.partitioned
           THEN LET p == infos'[i].fileOf[f]
                IN  /\ p \in PartitionIndexes(s)'
                    /\ ~(infos'[i].table /\ infos'[i].whole /\ ~case'.glue[p].sameFormat)
                    /\ IsDataFile(f, case'.glue[p].dir)
           ELSE IsDataFile(f, Root)
  BY <1>3, <1>4 DEF PartitionStorageMismatch, Glue
<1>7. \A f \in DOMAIN lists'[s].rows :
        LET p == lists'[s].rows[f]
        IN  /\ f \in lists'[s].files /\ p = infos'[i].fileOf[f]
            /\ case'.partitioned => case'.glue[p].value # Bad
                                    /\ (infos'[i].whole => case'.glue[p].readable)
  BY <1>3, <1>5 DEF Glue
<1>8. QED
  BY <1>3, <1>6, <1>7
  DEF FilesInv, Info, PartitionStorageMismatch, Glue, IsDataFile, UnderDir

LEMMA BatchFrame ==
  ASSUME NEW s, KeepsView(s), KeepsStore, BatchInv(s), lists'[s].st = lists[s].st,
         lists'[s].next = lists[s].next, lists'[s].listed = lists[s].listed
  PROVE  BatchInv(s)'
<1>1. /\ PlanListings(s)' = PlanListings(s)
      /\ \A p : (PartitionStorageMismatch(lists[s].info, p))'
                      <=> PartitionStorageMismatch(lists[s].info, p)
  BY ViewFrame
<1>2. \A p : (Glue(p))' = Glue(p)
  BY GlueFrame DEF KeepsView
<1>3. Batch(s)' = Batch(s)
  BY <1>1 DEF Batch
<1>4. lists'[s].info = lists[s].info /\ case' = case
  BY DEF KeepsView
<1>5. Open' => Open /\ ever \subseteq ever' /\ always' \subseteq always
  BY DEF KeepsStore
<1>6. SUFFICES ASSUME lists[s].st = "listing" PROVE BatchInv(s)'
  BY DEF BatchInv
<1>7. /\ case'.partitioned /\ lists'[s].next <= Len(PlanListings(s)')
      /\ ~PlanListings(s)'[lists'[s].next].root
      /\ \A p \in Batch(s)' : ~(PartitionStorageMismatch(lists[s].info, p))'
  BY <1>1, <1>3, <1>4, <1>6 DEF BatchInv
<1>8. ASSUME NEW p \in DOMAIN lists'[s].listed
      PROVE  /\ p \in Batch(s)'
             /\ \A f \in lists'[s].listed[p] :
                   IsDataFile(f, (Glue(p))'.dir) /\ (Open' => f \in ever')
             /\ Open' => \A f \in always' : IsDataFile(f, (Glue(p))'.dir) => f \in lists'[s].listed[p]
  BY <1>2, <1>3, <1>5, <1>6 DEF BatchInv
<1>9. QED
  BY <1>4, <1>7, <1>8 DEF BatchInv, IsDataFile, UnderDir

LEMMA GatheredFrame ==
  ASSUME NEW s, KeepsView(s), always' \subseteq always,
         lists[s].files \subseteq lists'[s].files, NEW p, Gathered(s, p)
  PROVE  Gathered(s, p)'
<1>1. Parts(s)' = Parts(s)
  BY ViewFrame
<1>2. /\ \A q : (Glue(q))' = Glue(q)
      /\ \A parts, d : (RegisteredAt(parts, d))' = RegisteredAt(parts, d)
      /\ \A parts, f : (Owner(parts, f))' = Owner(parts, f)
  BY GlueFrame DEF KeepsView
<1>3. \A f, d : (IsDataFile(f, d))' <=> IsDataFile(f, d)
  BY DEF IsDataFile, UnderDir
<1>4. \A d : (HiddenDir(d))' <=> HiddenDir(d)
  BY DEF HiddenDir, Below
<1>5. SUFFICES ASSUME NEW f \in always', IsDataFile(f, Glue(p).dir), Owner(Parts(s), f) # None,
                      Glue(Owner(Parts(s), f)).dir = Glue(p).dir
               PROVE  \/ HiddenDir(Glue(p).dir)
                      \/ RegisteredAt(Parts(s), Glue(p).dir) = {p} /\ f \in lists'[s].files
  BY <1>1, <1>2, <1>3, <1>4 DEF Gathered
<1>6. QED
  BY <1>5 DEF Gathered

LEMMA JobsFrame ==
  ASSUME NEW s, KeepsView(s), KeepsStore, JobsInv(s),
         lists'[s].st = "done" => lists[s].st = "done" \/ lists[s].next = Len(PlanListings(s)) + 1,
         lists'[s].next = lists[s].next, lists[s].files \subseteq lists'[s].files
  PROVE  JobsInv(s)'
<1>1. PlanListings(s)' = PlanListings(s)
  BY ViewFrame
<1>2. (Open' => Open /\ always' \subseteq always) /\ case' = case
  BY DEF KeepsStore
<1>3. Open' => \A p : Gathered(s, p) => Gathered(s, p)'
  BY <1>2, GatheredFrame
<1>4. \A f, d : (IsDataFile(f, d))' <=> IsDataFile(f, d)
  BY DEF IsDataFile, UnderDir
<1>5. ASSUME Open', NEW j \in 1 .. lists'[s].next - 1
      PROVE  IF case'.partitioned THEN \A p \in PlanListings(s)'[j].parts : Gathered(s, p)'
             ELSE \A f \in always' : (IsDataFile(f, Root))' => f \in lists'[s].files
  BY <1>1, <1>2, <1>3, <1>4, <1>5 DEF JobsInv
<1>6. /\ lists'[s].next \in 1 .. Len(PlanListings(s)') + 1
      /\ lists'[s].st = "done" => lists'[s].next = Len(PlanListings(s)') + 1
  BY <1>1 DEF JobsInv
<1>7. QED
  BY <1>5, <1>6 DEF JobsInv

\* A scan the step does not move.
LEMMA ScanFrame ==
  ASSUME NEW s \in Scans, Active(s), ScanInv(s), InfoInv(lists[s].info),
         KeepsScan(s), KeepsInfo(lists[s].info), KeepsStore, KeepsQuery,
         lists'[lists[s].info].st # "free", lists'[lists[s].info].info = lists[lists[s].info].info
  PROVE  Active(s)' /\ ScanInv(s)'
<1>1. KeepsView(s)
  BY DEF KeepsScan, KeepsInfo, KeepsStore, KeepsView
<1>2. KeepsFiles(lists[s].info)
  BY DEF KeepsInfo
<1>3. case.partitioned /\ Loaded(s) => query.partitions # None
  BY DEF InfoInv, Loaded, Info
<1>4. ShapeInv(s)'
  BY <1>1, ShapeFrame DEF ScanInv
<1>5. PruneInv(s)'
  BY <1>1, <1>3, PruneFrame DEF ScanInv
<1>6. FilesInv(s)'
  BY <1>1, <1>2, FilesFrame DEF ScanInv, KeepsScan
<1>7. BatchInv(s)'
  BY <1>1, BatchFrame DEF ScanInv, KeepsScan
<1>8. lists'[s].st # "planning" => JobsInv(s)'
  BY <1>1, JobsFrame DEF ScanInv, KeepsScan
<1>9. Active(s)'
  BY DEF Active, KeepsScan
<1>10. QED
  BY <1>4, <1>5, <1>6, <1>7, <1>8, <1>9 DEF ScanInv

\* A scan info the step leaves alone, or only learns of more files.
LEMMA InfoFrame ==
  ASSUME NEW i, InfoInv(i), case' = case, KeepsQuery,
         infos'[i].parts = infos[i].parts, infos'[i].whole = infos[i].whole,
         infos'[i].table = infos[i].table,
         \A f \in DOMAIN infos'[i].fileOf :
            \/ f \in DOMAIN infos[i].fileOf /\ infos'[i].fileOf[f] = infos[i].fileOf[f]
            \/ IF case.partitioned
               THEN /\ infos[i].parts # None /\ infos'[i].fileOf[f] # None
                    /\ infos'[i].fileOf[f] = Owner(infos[i].parts, f)
               ELSE infos'[i].fileOf[f] = None
  PROVE  InfoInv(i)'
<1>1. \A parts, f : (Owner(parts, f))' = Owner(parts, f)
  BY GlueFrame
<1>2. case.partitioned /\ infos[i].parts # None => query'.partitions = query.partitions
  BY DEF InfoInv, KeepsQuery
<1>3. ASSUME NEW f \in DOMAIN infos'[i].fileOf
      PROVE  IF case.partitioned
             THEN /\ infos[i].parts # None /\ infos'[i].fileOf[f] # None
                  /\ infos'[i].fileOf[f] = Owner(infos[i].parts, f)
             ELSE infos'[i].fileOf[f] = None
  BY DEF InfoInv
<1>4. QED
  BY <1>1, <1>2, <1>3 DEF InfoInv

LEMMA SampleFrame ==
  ASSUME NEW sample, SampleInv(sample), case' = case, KeepsQuery,
         sample # None => /\ lists'[sample.info].st # "free" /\ InfoInv(sample.info)
                          /\ infos'[sample.info].parts = infos[sample.info].parts
                          /\ infos'[sample.info].whole = infos[sample.info].whole
  PROVE  SampleInv(sample)'
<1>1. /\ \A p : (Glue(p))' = Glue(p)
      /\ \A parts, f : (Owner(parts, f))' = Owner(parts, f)
  BY GlueFrame
<1>2. sample # None /\ case.partitioned => query'.partitions = query.partitions
  BY DEF SampleInv, InfoInv, KeepsQuery
<1>3. QED
  BY <1>1, <1>2 DEF SampleInv, Active

\* Why the statement failed still holds.
LEMMA ErrorFrame ==
  ASSUME ErrorInv, error' = error, error # None => KeepsView(error.scan) /\ lists'[error.scan].st # "free",
         ever \subseteq ever'
  PROVE  ErrorInv'
<1>1. CASE error = None
  BY <1>1 DEF ErrorInv
<1>2. CASE error # None
  <2>1. PICK s : s = error.scan /\ KeepsView(s) /\ lists'[s].st # "free"
    BY <1>2
  <2>2. /\ Loaded(s)' <=> Loaded(s)
        /\ Parts(s)' = Parts(s)
        /\ PartitionIndexes(s)' = PartitionIndexes(s)
    BY <2>1, ViewFrame
  <2>3. /\ \A p : (Glue(p))' = Glue(p)
        /\ \A parts, f : (Owner(parts, f))' = Owner(parts, f)
        /\ \A parts, o, reading : (ThrowsIfLocationShared(parts, o, reading))'
                                      <=> ThrowsIfLocationShared(parts, o, reading)
    BY <2>1, GlueFrame DEF KeepsView
  <2>4. error'.why = error.why /\ error'.scan = s
    BY <2>1
  <2>5. Loaded(s) /\ Active(s)
    BY <1>2, <2>1 DEF ErrorInv
  <2>6. error.why = "shared" =>
           \E f \in ever' : /\ Owner(Parts(s), f) # None
                            /\ ThrowsIfLocationShared(Parts(s), Owner(Parts(s), f), PartitionIndexes(s))
    BY <1>2, <2>1 DEF ErrorInv
  <2>7. error.why \in {"format", "column"} =>
           \E p \in PartitionIndexes(s) : ~(Glue(p).sameFormat /\ Glue(p).readable)
    BY <1>2, <2>1 DEF ErrorInv
  <2>8. QED
    BY <2>1, <2>2, <2>3, <2>4, <2>5, <2>6, <2>7 DEF ErrorInv, Active
<1>3. QED
  BY <1>1, <1>2

-----------------------------------------------------------------------------
(***************************************************************************)
(* What it takes to keep the invariant.                                    *)
(***************************************************************************)
LEMMA Preserved ==
  ASSUME IInv, TypeInv', StoreInv', ListingsInv', ErrorInv', KeepsStore, KeepsQuery,
         \A i \in Scans : Active(i) => lists'[i].st # "free" /\ lists'[i].info = lists[i].info,
         \A i \in Scans : infos'[i] = infos[i] \/ InfoInv(i)',
         \A s \in Scans : lists'[s].st # "free" =>
            (Active(s) /\ KeepsScan(s) /\ KeepsInfo(lists[s].info)) \/ ScanInv(s)',
         \A sample \in Samples' : \/ sample \in Samples /\ (sample # None => KeepsInfo(sample.info))
                                  \/ SampleInv(sample)'
  PROVE  IInv'
<1>1. ASSUME NEW i \in Scans PROVE InfoInv(i)'
  <2>1. CASE infos'[i] = infos[i]
    <3>1. InfoInv(i) /\ case' = case
      BY DEF IInv, KeepsStore
    <3>2. QED
      BY <2>1, <3>1, InfoFrame DEF InfoInv
  <2>2. QED
    BY <2>1
<1>2. ASSUME NEW s \in Scans, lists'[s].st # "free" PROVE ScanInv(s)'
  <2>1. CASE Active(s) /\ KeepsScan(s) /\ KeepsInfo(lists[s].info)
    <3>1. ScanInv(s) /\ lists[s].info \in Scans /\ Active(lists[s].info)
      BY <2>1 DEF IInv, ScanInv, ShapeInv
    <3>2. /\ InfoInv(lists[s].info)
          /\ lists'[lists[s].info].st # "free"
          /\ lists'[lists[s].info].info = lists[lists[s].info].info
      BY <3>1 DEF IInv
    <3>3. QED
      BY <2>1, <3>1, <3>2, ScanFrame
  <2>2. QED
    BY <1>2, <2>1
<1>3. ASSUME NEW sample \in Samples' PROVE SampleInv(sample)'
  <2>1. CASE sample \in Samples /\ (sample # None => KeepsInfo(sample.info))
    <3>1. SampleInv(sample) /\ case' = case
      BY <2>1 DEF IInv, KeepsStore
    <3>2. sample # None => /\ lists'[sample.info].st # "free" /\ InfoInv(sample.info)
                           /\ infos'[sample.info].parts = infos[sample.info].parts
                           /\ infos'[sample.info].whole = infos[sample.info].whole
      BY <2>1, <3>1 DEF SampleInv, IInv, KeepsInfo
    <3>3. QED
      BY <3>1, <3>2, SampleFrame
  <2>2. QED
    BY <2>1
<1>4. QED
  BY <1>1, <1>2, <1>3 DEF IInv, Active

\* The store and the history are as before.
Quiet ==
  /\ case' = case /\ stored' = stored /\ registered' = registered /\ sink' = sink
  /\ always' = always /\ ever' = ever /\ statements' = statements

LEMMA QuietKeeps ==
  ASSUME Quiet
  PROVE  KeepsStore
BY DEF Quiet, KeepsStore, Open

LEMMA ListingsFrame ==
  ASSUME ListingsInv, KeepsStore, query'.listings = query.listings, connListings' = connListings
  PROVE  ListingsInv'
BY DEF ListingsInv, KeepsStore, Faithful, UnderDir

\* Scan t moves, or fails; the other scans, and what is known of files, stay.
LEMMA ScanMoves ==
  ASSUME IInv, Open, Quiet, NEW t \in Scans,
         lists' \in [Scans -> ListSet], \A s \in Scans \ {t} : lists'[s] = lists[s],
         lists'[t].st # "free", lists'[t].info \in Scans,
         Active(t) => lists'[t].info = lists[t].info,
         ScanInv(t)' \/ (Active(t) /\ KeepsScan(t)),
         error' \in ErrorSet \cup {None}, ErrorInv',
         query' \in QuerySet, query'.partitions = query.partitions,
         \A sample \in Samples' : sample \in Samples \/ SampleInv(sample)',
         connListings' \in Partial(Dirs, ListingSet), ListingsInv',
         infos' \in [Scans -> InfoSet],
         \A i \in Scans : Active(i) => KeepsInfo(i),
         \A i \in Scans : infos'[i] = infos[i] \/ InfoInv(i)'
  PROVE  IInv'
<1>1. TypeInv'
  <2>1. TypeInv
    BY DEF IInv
  <2>2. \A s \in Scans : lists'[s].st # "free" => lists'[s].info \in Scans
    BY <2>1 DEF TypeInv
  <2>3. QED
    BY <2>1, <2>2 DEF TypeInv, Quiet
<1>2. StoreInv'
  BY DEF IInv, StoreInv, Quiet, Open
<1>3. KeepsStore /\ KeepsQuery
  BY QuietKeeps DEF KeepsQuery
<1>4. \A i \in Scans : Active(i) => lists'[i].st # "free" /\ lists'[i].info = lists[i].info
  BY DEF Active
<1>5. \A s \in Scans : lists'[s].st # "free" =>
         (Active(s) /\ KeepsScan(s) /\ KeepsInfo(lists[s].info)) \/ ScanInv(s)'
  <2>1. \A s \in Scans : Active(s) => lists[s].info \in Scans /\ Active(lists[s].info)
    BY DEF IInv, ScanInv, ShapeInv
  <2>2. QED
    BY <2>1 DEF Active, KeepsScan
<1>6. \A sample \in Samples : sample # None => KeepsInfo(sample.info)
  BY DEF IInv, SampleInv
<1>7. ListingsInv' /\ ErrorInv' /\ TypeInv' /\ StoreInv'
  BY <1>1, <1>2
<1>8. QED
  BY <1>3, <1>4, <1>5, <1>6, <1>7, Preserved

\* Scan t moves; nothing else changes.
LEMMA OnlyMoves ==
  ASSUME IInv, Open, Quiet, NEW t \in Scans, UNCHANGED <<query, connListings, infos>>,
         error = None, error' = None,
         lists' \in [Scans -> ListSet], \A s \in Scans \ {t} : lists'[s] = lists[s],
         lists'[t].st # "free", lists'[t].info \in Scans,
         Active(t) => lists'[t].info = lists[t].info, ScanInv(t)' \/ (Active(t) /\ KeepsScan(t))
  PROVE  IInv'
<1>1. query' \in QuerySet /\ connListings' \in Partial(Dirs, ListingSet) /\ infos' \in [Scans -> InfoSet]
  BY DEF IInv, TypeInv
<1>2. ListingsInv'
  BY QuietKeeps, ListingsFrame DEF IInv
<1>3. ErrorInv' /\ error' \in ErrorSet \cup {None}
  BY DEF ErrorInv
<1>4. \A i \in Scans : KeepsInfo(i)
  BY DEF KeepsInfo, KeepsFiles
<1>5. Samples' = Samples
  BY DEF Samples
<1>6. QED
  BY <1>1, <1>2, <1>3, <1>4, <1>5, ScanMoves

\* Scan t fails the statement.
LEMMA ScanFails ==
  ASSUME IInv, Open, Quiet, NEW t \in Scans, Active(t), NEW why \in Reasons, Fail(t, why),
         lists' = lists, infos' = infos,
         query' \in QuerySet, query'.partitions = query.partitions, query'.samples = query.samples,
         connListings' \in Partial(Dirs, ListingSet), ListingsInv',
         Loaded(t),
         why = "shared" => \E f \in ever :
            /\ Owner(Parts(t), f) # None
            /\ ThrowsIfLocationShared(Parts(t), Owner(Parts(t), f), PartitionIndexes(t)),
         why \in {"format", "column"} =>
            \E p \in PartitionIndexes(t) : ~(Glue(p).sameFormat /\ Glue(p).readable)
  PROVE  IInv'
<1>1. /\ error' = [why |-> why, scan |-> t] /\ error' \in ErrorSet
      /\ error'.why = why /\ error'.scan = t
  BY DEF Fail, ErrorSet
<1>2. KeepsScan(t) /\ KeepsView(t) /\ \A i \in Scans : KeepsInfo(i)
  BY DEF KeepsScan, KeepsView, KeepsInfo, KeepsFiles, Quiet
<1>3. ErrorInv'
  <2>1. /\ Loaded(t)' <=> Loaded(t)
        /\ Parts(t)' = Parts(t)
        /\ PartitionIndexes(t)' = PartitionIndexes(t)
    BY <1>2, ViewFrame
  <2>2. /\ \A p : (Glue(p))' = Glue(p)
        /\ \A parts, f : (Owner(parts, f))' = Owner(parts, f)
        /\ \A parts, o, reading : (ThrowsIfLocationShared(parts, o, reading))'
                                      <=> ThrowsIfLocationShared(parts, o, reading)
    BY GlueFrame DEF Quiet
  <2>3. QED
    BY <1>1, <2>1, <2>2 DEF ErrorInv, Active, Quiet
<1>4. lists' \in [Scans -> ListSet] /\ lists[t].st # "free" /\ lists[t].info \in Scans
      /\ infos' \in [Scans -> InfoSet]
  BY DEF IInv, TypeInv, Active
<1>5. Samples' = Samples
  BY DEF Samples
<1>6. QED
  BY <1>1, <1>2, <1>3, <1>4, <1>5, ScanMoves
-----------------------------------------------------------------------------
(***************************************************************************)
(* Scans that begin.                                                       *)
(***************************************************************************)
\* A scan that has not ended is one before the INSERT finalized.
LEMMA MovesWhileOpen ==
  ASSUME IInv, NEW s \in Scans, Active(s), ~Finished(s)
  PROVE  Open
BY DEF IInv, StoreInv

\* A list that was just made has nothing to answer for.
LEMMA NewListInv ==
  ASSUME NEW s \in Scans, NEW i, NEW idx, NEW asked, NEW left,
         lists'[s] = NewList(i, idx, asked, left, {}), ShapeInv(s)', PruneInv(s)'
  PROVE  ScanInv(s)'
<1>1. /\ lists'[s].st = "planning" /\ lists'[s].files = {} /\ lists'[s].rows = NoListings
  BY DEF NewList
<1>2. DOMAIN NoListings = {}
  BY DEF NoListings
<1>3. FilesInv(s)' /\ BatchInv(s)'
  BY <1>1, <1>2 DEF FilesInv, BatchInv
<1>4. QED
  BY <1>1, <1>3 DEF ScanInv

LEMMA BindInv ==
  ASSUME IInv, NEW s \in Scans, BindHiveScan(s)
  PROVE  IInv'
<1>1. PICK asked \in SUBSET Filters :
         /\ lists' = [lists EXCEPT ![s] = NewList(s, None, asked, asked, {})]
         /\ ~case.partitioned => asked \subseteq DataFilters
  BY DEF BindHiveScan, Filters
<1>2. /\ TypeInv /\ error = None /\ lists[s].st = "free" /\ Open
      /\ infos' = [infos EXCEPT ![s] = NoInfo] /\ Quiet
      /\ UNCHANGED <<query, connListings, error>>
  BY DEF BindHiveScan, IInv, Open, Quiet
<1>3. NewList(s, None, asked, asked, {}) \in ListSet
  BY NewListType
<1>4. /\ lists' \in [Scans -> ListSet] /\ \A t \in Scans \ {s} : lists'[t] = lists[t]
      /\ lists'[s] = NewList(s, None, asked, asked, {})
  BY <1>1, <1>2, <1>3 DEF TypeInv
<1>5. /\ infos' \in [Scans -> InfoSet] /\ infos'[s] = NoInfo
      /\ \A i \in Scans \ {s} : infos'[i] = infos[i]
  BY <1>2, NoScanFacts DEF TypeInv
<1>6. /\ lists'[s].st = "planning" /\ lists'[s].info = s /\ lists'[s].idx = None
      /\ lists'[s].asked = asked /\ lists'[s].left = asked /\ lists'[s].joined = {}
      /\ lists'[s].next = 1 /\ lists'[s].listed = NoListings /\ lists'[s].files = {}
      /\ lists'[s].rows = NoListings /\ lists'[s].stats = None
  BY <1>4 DEF NewList
<1>7. infos'[s].parts = None /\ infos'[s].whole /\ infos'[s].table /\ DOMAIN infos'[s].fileOf = {}
  BY <1>5 DEF NoInfo, NoListings
<1>8. ~(case.partitioned /\ Loaded(s))'
  BY <1>6, <1>7 DEF Loaded, Info
<1>9. ShapeInv(s)'
  BY <1>1, <1>2, <1>6, <1>8 DEF ShapeInv, Active, Quiet
<1>10. PruneInv(s)'
  BY <1>8 DEF PruneInv
<1>11. ScanInv(s)'
  BY <1>4, <1>9, <1>10, NewListInv
<1>12. InfoInv(s)'
  BY <1>7 DEF InfoInv
<1>13. \A i \in Scans : Active(i) => KeepsInfo(i)
  BY <1>2, <1>5 DEF Active, KeepsInfo, KeepsFiles
<1>14. ListingsInv'
  BY <1>2, QuietKeeps, ListingsFrame DEF IInv
<1>15. /\ error' \in ErrorSet \cup {None} /\ ErrorInv' /\ query' \in QuerySet
       /\ query'.partitions = query.partitions
       /\ connListings' \in Partial(Dirs, ListingSet) /\ Samples' = Samples
  BY <1>2 DEF ErrorInv, TypeInv, Samples
<1>16. lists'[s].st # "free" /\ lists'[s].info \in Scans /\ ~Active(s) /\ IInv /\ Open /\ Quiet
  BY <1>2, <1>6 DEF Active
<1>17. QED
  BY <1>4, <1>5, <1>11, <1>12, <1>13, <1>14, <1>15, <1>16, ScanMoves

LEMMA CopyInv ==
  ASSUME IInv, NEW s \in Scans, NEW t \in Scans, CopyList(s, t)
  PROVE  IInv'
<1>1. /\ TypeInv /\ error = None /\ lists[s].st = "planning" /\ lists[t].st = "free" /\ Quiet
      /\ UNCHANGED <<query, connListings, infos, error>>
      /\ lists' = [lists EXCEPT ![t] = NewList(lists[s].info, lists[s].idx, lists[s].asked,
                                               lists[s].left, {})]
  BY DEF CopyList, IInv, Quiet
<1>2. ScanInv(s) /\ Active(s) /\ Open
  BY <1>1, MovesWhileOpen DEF IInv, Active, Finished
<1>3. PICK i : i = lists[s].info
  OBVIOUS
<1>4. i \in Scans /\ lists[i].info = i /\ lists[i].st # "free"
  BY <1>2, <1>3 DEF ScanInv, ShapeInv, Active
<1>5. NewList(i, lists[s].idx, lists[s].asked, lists[s].left, {}) \in ListSet
  BY <1>1, <1>4, NewListType DEF TypeInv, ListSet
<1>6. /\ lists' \in [Scans -> ListSet] /\ \A r \in Scans \ {t} : lists'[r] = lists[r]
      /\ lists'[t] = NewList(i, lists[s].idx, lists[s].asked, lists[s].left, {})
  BY <1>1, <1>3, <1>5 DEF TypeInv
<1>7. /\ lists'[t].st = "planning" /\ lists'[t].info = i /\ lists'[t].idx = lists[s].idx
      /\ lists'[t].asked = lists[s].asked /\ lists'[t].left = lists[s].left
      /\ lists'[t].joined = {} /\ lists'[t].next = 1 /\ lists'[t].listed = NoListings
      /\ lists'[t].files = {} /\ lists'[t].rows = NoListings /\ lists'[t].stats = None
  BY <1>6 DEF NewList
<1>8. i # t /\ lists'[i].st # "free" /\ lists'[i].info = i
  BY <1>1, <1>4, <1>6
<1>9. /\ Loaded(t)' <=> Loaded(s)
      /\ PartitionIndexes(t)' = PartitionIndexes(s)
      /\ infos'[i] = infos[i] /\ case' = case
  BY <1>1, <1>3, <1>7 DEF Loaded, PartitionIndexes, Parts, Info, Quiet
<1>10. ShapeInv(t)'
  BY <1>1, <1>2, <1>3, <1>4, <1>7, <1>8, <1>9 DEF ScanInv, ShapeInv, Active, Info
<1>11. lists[s].joined = {}
  BY <1>1, <1>2 DEF ScanInv, ShapeInv
<1>12. \A p : (Glue(p))' = Glue(p)
  BY <1>9, GlueFrame
<1>13. PruneInv(t)'
  BY <1>1, <1>2, <1>7, <1>9, <1>11, <1>12 DEF ScanInv, PruneInv
<1>14. ScanInv(t)'
  BY <1>6, <1>10, <1>13, NewListInv
<1>15. error' = None /\ lists'[t].st # "free" /\ lists'[t].info \in Scans /\ ~Active(t)
       /\ UNCHANGED <<query, connListings, infos>>
  BY <1>1, <1>4, <1>7 DEF Active
<1>16. QED
  BY <1>1, <1>2, <1>6, <1>14, <1>15, OnlyMoves

LEMMA RestoreInv ==
  ASSUME IInv, NEW s \in Scans, NEW t \in Scans, RestoreScan(s, t)
  PROVE  IInv'
<1>1. /\ TypeInv /\ error = None /\ lists[s].st = "planning" /\ lists[t].st = "free" /\ Quiet
      /\ Loaded(s) /\ UNCHANGED <<query, connListings, error>>
      /\ lists' = [lists EXCEPT ![t] = NewList(t, None, lists[s].asked, lists[s].left, {})]
  BY DEF RestoreScan, IInv, Quiet
<1>2. PICK found \in BOOLEAN :
         infos' = [infos EXCEPT ![t] = [parts |-> PartitionIndexes(s), whole |-> FALSE,
                                        table |-> found, fileOf |-> NoListings]]
  <2>1. lists[s].info \in Scans
    BY <1>1 DEF TypeInv
  <2>2. Info(s).table \in BOOLEAN
    BY <1>1, <2>1 DEF TypeInv, InfoSet, Info
  <2>3. QED
    BY <2>2 DEF RestoreScan
<1>3. ScanInv(s) /\ Active(s) /\ Open
  BY <1>1, MovesWhileOpen DEF IInv, Active, Finished
<1>4. PICK i : i = lists[s].info
  OBVIOUS
<1>5. i \in Scans /\ Active(i) /\ InfoInv(i)
  BY <1>3, <1>4 DEF ScanInv, ShapeInv, IInv
<1>6. PICK parts \in SUBSET Partitions : parts = PartitionIndexes(s)
  BY <1>1, <1>3, IndexesType
<1>7. parts # None
  BY NoneDistinct
<1>8. NewList(t, None, lists[s].asked, lists[s].left, {}) \in ListSet
  BY <1>1, NewListType DEF TypeInv, ListSet
<1>9. /\ lists' \in [Scans -> ListSet] /\ \A r \in Scans \ {t} : lists'[r] = lists[r]
      /\ lists'[t] = NewList(t, None, lists[s].asked, lists[s].left, {})
  BY <1>1, <1>8 DEF TypeInv
<1>10. /\ lists'[t].st = "planning" /\ lists'[t].info = t /\ lists'[t].idx = None
       /\ lists'[t].asked = lists[s].asked /\ lists'[t].left = lists[s].left
       /\ lists'[t].joined = {} /\ lists'[t].next = 1 /\ lists'[t].listed = NoListings
       /\ lists'[t].files = {} /\ lists'[t].rows = NoListings /\ lists'[t].stats = None
  BY <1>9 DEF NewList
<1>11. [parts |-> parts, whole |-> FALSE, table |-> found, fileOf |-> NoListings] \in InfoSet
  BY NothingTyped DEF InfoSet
<1>12. /\ infos' \in [Scans -> InfoSet] /\ \A r \in Scans \ {t} : infos'[r] = infos[r]
       /\ infos'[t] = [parts |-> parts, whole |-> FALSE, table |-> found, fileOf |-> NoListings]
  BY <1>1, <1>2, <1>6, <1>11 DEF TypeInv
<1>13. /\ infos'[t].parts = parts /\ ~infos'[t].whole /\ DOMAIN infos'[t].fileOf = {}
  BY <1>12 DEF NoListings
<1>14. case.partitioned => /\ query.partitions # None /\ parts \subseteq query.partitions
                           /\ Parts(s) = infos[i].parts
  BY <1>1, <1>3, <1>4, <1>5, <1>6 DEF InfoInv, Loaded, PartitionIndexes, Parts, Info, ScanInv, ShapeInv
<1>15. InfoInv(t)'
  BY <1>1, <1>7, <1>13, <1>14 DEF InfoInv, Quiet
<1>16. Loaded(t)' /\ case' = case
  BY <1>1, <1>7, <1>10, <1>13 DEF Loaded, Info, Quiet
<1>17. case.partitioned => PartitionIndexes(t)' = parts
  BY <1>10, <1>13, <1>16 DEF PartitionIndexes, Parts, Info
<1>18. ShapeInv(t)'
  BY <1>1, <1>3, <1>7, <1>10, <1>16 DEF ScanInv, ShapeInv, Active, Info
<1>19. lists[s].joined = {}
  BY <1>1, <1>3 DEF ScanInv, ShapeInv
<1>20. \A p : (Glue(p))' = Glue(p)
  BY <1>16, GlueFrame
<1>21. PruneInv(t)'
  BY <1>1, <1>3, <1>6, <1>10, <1>16, <1>17, <1>19, <1>20 DEF ScanInv, PruneInv
<1>22. ScanInv(t)'
  BY <1>9, <1>18, <1>21, NewListInv
<1>23. \A r \in Scans : Active(r) => KeepsInfo(r)
  BY <1>1, <1>12 DEF Active, KeepsInfo, KeepsFiles
<1>24. ListingsInv'
  BY <1>1, QuietKeeps, ListingsFrame DEF IInv
<1>25. /\ error' \in ErrorSet \cup {None} /\ ErrorInv' /\ query' \in QuerySet
       /\ query'.partitions = query.partitions
       /\ connListings' \in Partial(Dirs, ListingSet) /\ Samples' = Samples
  BY <1>1 DEF ErrorInv, TypeInv, Samples
<1>26. lists'[t].st # "free" /\ lists'[t].info \in Scans /\ ~Active(t)
  BY <1>1, <1>10 DEF Active
<1>27. QED
  BY <1>1, <1>3, <1>9, <1>12, <1>15, <1>22, <1>23, <1>24, <1>25, <1>26, ScanMoves

LEMMA LoadInv ==
  ASSUME IInv, NEW s \in Scans, LoadPartitions(s)
  PROVE  IInv'
<1>1. PICK i : i = lists[s].info
  OBVIOUS
<1>2. PICK parts \in SUBSET Partitions :
         /\ query' = [query EXCEPT !.partitions = parts]
         /\ infos' = [infos EXCEPT ![i].parts = parts]
         /\ parts \subseteq registered
         /\ query.partitions # None => parts = query.partitions
  BY <1>1 DEF LoadPartitions, IInv, TypeInv, StoreInv, QuerySet
<1>3. /\ TypeInv /\ TypeInv' /\ error = None /\ Quiet /\ ~Loaded(s) /\ Active(s)
      /\ UNCHANGED <<connListings, lists, error>> /\ case.partitioned /\ parts # None
  BY LoadType, NoneDistinct DEF LoadPartitions, IInv, Quiet, Loaded, Active
<1>4. ScanInv(s) /\ i \in Scans /\ Active(i) /\ Open
  <2>1. ScanInv(s)
    BY <1>3 DEF IInv
  <2>2. lists[s].st = "planning"
    BY <1>3, <2>1 DEF ScanInv, ShapeInv
  <2>3. QED
    BY <1>1, <1>3, <2>1, <2>2, MovesWhileOpen DEF ScanInv, ShapeInv, Finished
<1>5. /\ query'.partitions = parts /\ query'.listings = query.listings
      /\ query'.samples = query.samples
  BY <1>2, <1>3 DEF TypeInv, QuerySet
<1>6. /\ infos'[i].parts = parts /\ infos'[i].whole = infos[i].whole
      /\ infos'[i].fileOf = infos[i].fileOf /\ infos'[i].table = infos[i].table
      /\ \A j \in Scans \ {i} : infos'[j] = infos[j]
  BY <1>2, <1>3, <1>4 DEF TypeInv, InfoSet
<1>7. infos[i].parts = None
  BY <1>1, <1>3 DEF Loaded, Info
<1>8. InfoInv(i) /\ DOMAIN infos[i].fileOf = {} /\ infos[i].whole
  BY <1>3, <1>4, <1>7 DEF IInv, InfoInv
<1>9. KeepsQuery /\ KeepsStore /\ case' = case
  BY <1>2, <1>3, <1>5, QuietKeeps DEF KeepsQuery, Quiet
<1>10. InfoInv(i)'
  BY <1>3, <1>5, <1>6, <1>8, <1>9 DEF InfoInv
<1>11. \A j \in Scans : j # i => KeepsInfo(j)
  BY <1>6 DEF KeepsInfo, KeepsFiles
<1>12. \A r \in Scans : KeepsScan(r)
  BY <1>3 DEF KeepsScan
<1>13. ASSUME NEW r \in Scans, Active(r), lists[r].info = i
       PROVE  ScanInv(r)'
  <2>1. ScanInv(r) /\ ~Loaded(r) /\ lists'[r] = lists[r]
    BY <1>3, <1>7, <1>13 DEF IInv, Loaded, Info
  <2>2. /\ lists[r].st = "planning" /\ lists[r].idx = None /\ lists[r].left = lists[r].asked
        /\ lists[r].stats = None /\ lists[r].files = {} /\ DOMAIN lists[r].rows = {}
    BY <1>7, <1>13, <2>1 DEF ScanInv, ShapeInv, Info, NoListings
  <2>3. Loaded(r)' /\ PartitionIndexes(r)' = parts
    BY <1>3, <1>6, <1>9, <1>13, <2>1, <2>2 DEF Loaded, PartitionIndexes, Parts, Info
  <2>4. ShapeInv(r)'
    BY <1>3, <1>9, <2>1, <2>2, <2>3 DEF ScanInv, ShapeInv, Active, Info
  <2>5. PruneInv(r)'
    BY <1>5, <2>1, <2>2, <2>3 DEF PruneInv
  <2>6. FilesInv(r)' /\ BatchInv(r)'
    BY <2>1, <2>2 DEF FilesInv, BatchInv
  <2>7. QED
    BY <2>1, <2>2, <2>4, <2>5, <2>6 DEF ScanInv
<1>14. \A r \in Scans : lists'[r].st # "free" =>
         (Active(r) /\ KeepsScan(r) /\ KeepsInfo(lists[r].info)) \/ ScanInv(r)'
  <2>1. \A r \in Scans : Active(r) => lists[r].info \in Scans
    BY DEF IInv, ScanInv, ShapeInv
  <2>2. QED
    BY <1>3, <1>11, <1>12, <1>13, <2>1 DEF Active
<1>15. \A sample \in Samples' : sample \in Samples /\ (sample # None => KeepsInfo(sample.info))
  <2>1. Samples' = Samples
    BY <1>5 DEF Samples
  <2>2. \A sample \in Samples : sample # None => sample.info \in Scans /\ sample.info # i
    BY <1>3, <1>7 DEF IInv, SampleInv
  <2>3. QED
    BY <1>11, <2>1, <2>2
<1>16. StoreInv'
  BY <1>2, <1>3, <1>4, <1>5 DEF IInv, StoreInv, Quiet, Open
<1>17. ListingsInv' /\ ErrorInv'
  BY <1>3, <1>5, <1>9, ListingsFrame DEF IInv, ErrorInv
<1>18. \A j \in Scans : infos'[j] = infos[j] \/ InfoInv(j)'
  BY <1>6, <1>10
<1>19. \A j \in Scans : Active(j) => lists'[j].st # "free" /\ lists'[j].info = lists[j].info
  BY <1>3 DEF Active
<1>20. QED
  BY <1>3, <1>9, <1>14, <1>15, <1>16, <1>17, <1>18, <1>19, Preserved

-----------------------------------------------------------------------------
(***************************************************************************)
(* Steps of the statement and of other clients.                            *)
(***************************************************************************)
LEMMA StoreMoves ==
  ASSUME IInv, TypeInv', StoreInv', ListingsInv', ErrorInv', KeepsStore,
         UNCHANGED <<query, lists, infos>>
  PROVE  IInv'
<1>1. \A i \in Scans : KeepsInfo(i) /\ KeepsScan(i)
  BY DEF KeepsInfo, KeepsFiles, KeepsScan
<1>2. \A s \in Scans : Active(s) => lists[s].info \in Scans
  BY DEF IInv, ScanInv, ShapeInv
<1>3. \A sample \in Samples : sample # None => sample.info \in Scans
  BY DEF IInv, SampleInv
<1>4. Samples' = Samples /\ KeepsQuery
  BY DEF Samples, KeepsQuery
<1>5. \A s \in Scans : lists'[s].st # "free" =>
         (Active(s) /\ KeepsScan(s) /\ KeepsInfo(lists[s].info)) \/ ScanInv(s)'
  BY <1>1, <1>2 DEF Active
<1>6. \A i \in Scans : Active(i) => lists'[i].st # "free" /\ lists'[i].info = lists[i].info
  BY DEF Active
<1>7. QED
  BY <1>1, <1>3, <1>4, <1>5, <1>6, Preserved

\* A reason given stays one.
LEMMA ErrorKept ==
  ASSUME IInv, case' = case, UNCHANGED <<lists, infos, error>>, ever \subseteq ever'
  PROVE  ErrorInv'
<1>1. ErrorInv
  BY DEF IInv
<1>2. error # None => KeepsView(error.scan) /\ lists'[error.scan].st # "free"
  BY <1>1 DEF ErrorInv, KeepsView, Active
<1>3. QED
  BY <1>1, <1>2, ErrorFrame

LEMMA WriteInv ==
  ASSUME IInv, NEW f \in Files, WriteFile(f)
  PROVE  IInv'
<1>1. /\ Open /\ Open' /\ KeepsStore
      /\ UNCHANGED <<query, connListings, lists, infos, error, case>> /\ ever \subseteq ever'
  BY DEF WriteFile, KeepsStore, Open
<1>2. TypeInv'
  BY DEF WriteFile, IInv, TypeInv
<1>3. StoreInv'
  BY <1>1 DEF WriteFile, IInv, StoreInv
<1>4. ListingsInv' /\ ErrorInv'
  BY <1>1, ListingsFrame, ErrorKept DEF IInv
<1>5. QED
  BY <1>1, <1>2, <1>3, <1>4, StoreMoves

LEMMA OtherWritesInv ==
  ASSUME IInv, NEW f \in Files, OtherWrites(f)
  PROVE  IInv'
<1>1. /\ KeepsStore /\ (Open' <=> Open)
      /\ UNCHANGED <<query, connListings, lists, infos, error, case>> /\ ever \subseteq ever'
  BY DEF OtherWrites, KeepsStore, Open
<1>2. TypeInv'
  BY DEF OtherWrites, IInv, TypeInv
<1>3. StoreInv'
  BY <1>1 DEF OtherWrites, IInv, StoreInv, Active, Finished, Unread
<1>4. ListingsInv' /\ ErrorInv'
  BY <1>1, ListingsFrame, ErrorKept DEF IInv
<1>5. QED
  BY <1>1, <1>2, <1>3, <1>4, StoreMoves

LEMMA OtherRegistersInv ==
  ASSUME IInv, NEW p \in Partitions, OtherRegisters(p)
  PROVE  IInv'
<1>1. /\ KeepsStore /\ (Open' <=> Open)
      /\ UNCHANGED <<query, connListings, lists, infos, error, case>> /\ ever \subseteq ever'
  BY DEF OtherRegisters, KeepsStore, Open
<1>2. TypeInv'
  BY DEF OtherRegisters, IInv, TypeInv
<1>3. StoreInv'
  BY <1>1 DEF OtherRegisters, IInv, StoreInv, Active, Finished, Unread
<1>4. ListingsInv' /\ ErrorInv'
  BY <1>1, ListingsFrame, ErrorKept DEF IInv
<1>5. QED
  BY <1>1, <1>2, <1>3, <1>4, StoreMoves

LEMMA FinalizeInsertInv ==
  ASSUME IInv, FinalizeInsert
  PROVE  IInv'
<1>1. /\ TypeInv /\ error = None /\ error' = None /\ ~Open' /\ connListings' = NoListings
      /\ UNCHANGED <<query, lists, infos, case, stored, registered, statements>>
      /\ sink' = "written"
      /\ (always' = stored /\ ever' = stored) \/ (always' = always /\ ever' = ever)
      /\ \A s \in Scans : lists[s].st = "free" \/ Finished(s)
  BY DEF FinalizeInsert, IInv, Open, NewWindow, Idle
<1>2. KeepsStore
  BY <1>1 DEF KeepsStore
<1>3. TypeInv'
  <2>1. connListings' \in Partial(Dirs, ListingSet)
    BY <1>1, NothingTyped
  <2>2. QED
    BY <1>1, <2>1 DEF TypeInv
<1>4. StoreInv'
  BY <1>1 DEF IInv, StoreInv, Active, Finished, Unread
<1>5. ListingsInv'
  <2>1. ListingsInv /\ DOMAIN connListings' = {}
    BY <1>1 DEF IInv, NoListings
  <2>2. QED
    BY <1>1, <1>2, <2>1 DEF ListingsInv, KeepsStore, Faithful, UnderDir
<1>6. ErrorInv'
  BY <1>1 DEF ErrorInv
<1>7. QED
  BY <1>1, <1>2, <1>3, <1>4, <1>5, <1>6, StoreMoves

\* No scan is bound.
LEMMA FreeInv ==
  ASSUME TypeInv, StoreInv, ListingsInv, error = None, \A s \in Scans : lists[s] = NoScan,
         \A i \in Scans : infos[i] = NoInfo, query = EmptyQuery
  PROVE  IInv
<1>1. \A s \in Scans : ~Active(s)
  BY NoScanFacts DEF Active
<1>2. \A i \in Scans : InfoInv(i)
  BY DEF InfoInv, NoInfo, NoListings
<1>3. \A sample \in Samples : sample = None
  BY DEF Samples, EmptyQuery
<1>4. QED
  BY <1>1, <1>2, <1>3 DEF IInv, ErrorInv, SampleInv

\* Without scans the invariant asks for the listings only.
LEMMA FreeNext ==
  (TypeInv /\ StoreInv /\ ListingsInv /\ error = None /\ (\A s \in Scans : lists[s] = NoScan)
   /\ (\A i \in Scans : infos[i] = NoInfo) /\ query = EmptyQuery => IInv)'
<1>1. TypeInv /\ StoreInv /\ ListingsInv /\ error = None /\ (\A s \in Scans : lists[s] = NoScan)
       /\ (\A i \in Scans : infos[i] = NoInfo) /\ query = EmptyQuery => IInv
  BY FreeInv
<1>2. QED
  BY <1>1, PTL

LEMMA QueryEndInv ==
  ASSUME IInv, QueryEnd
  PROVE  IInv'
<1>1. /\ TypeInv /\ error' = None /\ query' = EmptyQuery /\ sink' = "none" /\ Open'
      /\ lists' = [s \in Scans |-> NoScan] /\ infos' = [s \in Scans |-> NoInfo]
      /\ UNCHANGED <<case, stored, registered>> /\ statements' = statements + 1
      /\ (always' = stored /\ ever' = stored) \/ (always' = always /\ ever' = ever)
  BY DEF QueryEnd, IInv, Open, NewWindow
<1>2. connListings' = NoListings
      \/ (connListings' = connListings /\ always' = always /\ ever' = ever)
  BY DEF QueryEnd, ListingsKept
<1>3. TypeInv'
  <2>1. connListings' \in Partial(Dirs, ListingSet)
    BY <1>1, <1>2, NothingTyped DEF TypeInv
  <2>2. query' \in QuerySet
    BY <1>1, EmptyQueryType
  <2>3. /\ infos' \in [Scans -> InfoSet] /\ lists' \in [Scans -> ListSet]
        /\ \A s \in Scans : lists'[s].st = "free"
    BY <1>1, NoScanFacts
  <2>4. /\ always' \in SUBSET Files /\ ever' \in SUBSET Files /\ statements' \in Nat
    BY <1>1 DEF TypeInv
  <2>5. QED
    BY <1>1, <2>1, <2>2, <2>3, <2>4 DEF TypeInv
<1>4. StoreInv'
  <2>1. query'.partitions = None
    BY <1>1 DEF EmptyQuery
  <2>2. QED
    BY <1>1, <2>1 DEF IInv, StoreInv
<1>5. ListingsInv'
  <2>1. DOMAIN query'.listings = {} /\ DOMAIN NoListings = {}
    BY <1>1 DEF EmptyQuery, NoListings
  <2>2. CASE connListings' = NoListings
    BY <2>1, <2>2 DEF ListingsInv
  <2>3. CASE connListings' # NoListings
    <3>1. connListings' = connListings /\ always' = always /\ ever' = ever /\ Open
      BY <1>2, <2>3 DEF IInv, StoreInv
    <3>2. \A d \in DOMAIN connListings : Faithful(connListings[d], d)
      BY DEF IInv, ListingsInv
    <3>3. QED
      BY <2>1, <3>1, <3>2 DEF ListingsInv, Faithful, UnderDir
  <2>4. QED
    BY <2>2, <2>3
<1>6. QED
  BY <1>1, <1>3, <1>4, <1>5, FreeNext

LEMMA InitInv == Init => IInv
<1> SUFFICES ASSUME Init PROVE IInv
  OBVIOUS
<1>1. TypeInv
  BY InitType
<1>2. StoreInv
  BY DEF Init, StoreInv, Open, EmptyQuery
<1>3. ListingsInv
  BY DEF Init, ListingsInv, EmptyQuery, NoListings
<1>4. QED
  BY <1>1, <1>2, <1>3, FreeInv DEF Init

-----------------------------------------------------------------------------
(***************************************************************************)
(* Pruning.                                                                *)
(***************************************************************************)
\* What narrowing a scan to the partitions kept leaves of its invariant.
LEMMA NarrowedInv ==
  ASSUME IInv, Quiet, UNCHANGED <<query, infos>>, NEW s \in Scans, Active(s), Loaded(s),
         lists[s].st = "planning", NEW kept \in SUBSET Partitions, kept \subseteq PartitionIndexes(s),
         ~case.partitioned => kept = PartitionIndexes(s),
         lists'[s].info = lists[s].info, lists'[s].st \in {"planning", "scanning"},
         lists'[s].asked = lists[s].asked, lists'[s].left \subseteq lists[s].left,
         lists'[s].rows = lists[s].rows, lists'[s].stats = lists[s].stats,
         ~case.partitioned => lists'[s].left = lists[s].left /\ lists'[s].joined = {},
         kept = PartitionIndexes(s) =>
           /\ lists'[s].idx = lists[s].idx /\ lists'[s].next = lists[s].next
           /\ lists'[s].listed = lists[s].listed /\ lists'[s].files = lists[s].files,
         kept # PartitionIndexes(s) =>
           /\ lists'[s].idx = kept /\ lists'[s].next = 1
           /\ lists'[s].listed = NoListings /\ lists'[s].files = {},
         lists'[s].st = "planning" => lists'[s].joined = {},
         \A t \in Scans \ {s} : lists'[t] = lists[t]
  PROVE  /\ PartitionIndexes(s)' = kept /\ Loaded(s)' /\ ShapeInv(s)'
         /\ FilesInv(s)' /\ BatchInv(s)' /\ lists'[s].next = 1
<1>1. PICK i : i = lists[s].info
  OBVIOUS
<1>2. ScanInv(s) /\ TypeInv /\ i \in Scans /\ lists[i].st # "free" /\ lists[i].info = i
      /\ case' = case
  BY <1>1 DEF IInv, ScanInv, ShapeInv, Active, Quiet
<1>3. kept # None
  BY NoneDistinct
<1>4. lists[s].next = 1 /\ lists[s].files = {} /\ lists[s].rows = NoListings
      /\ lists[s].listed = NoListings
  BY <1>2 DEF ScanInv, ShapeInv
<1>5. lists'[s].next = 1 /\ lists'[s].files = {} /\ DOMAIN lists'[s].rows = {}
      /\ lists'[s].rows = NoListings
      /\ lists'[s].listed = NoListings
  BY <1>4 DEF NoListings
<1>6. Loaded(s)'
  BY <1>1, <1>2 DEF Loaded, Info
<1>7. PartitionIndexes(s)' = kept
  <2>1. CASE kept = PartitionIndexes(s)
    BY <1>2, <2>1 DEF PartitionIndexes, Parts, Info
  <2>2. CASE kept # PartitionIndexes(s)
    BY <1>3, <2>2 DEF PartitionIndexes
  <2>3. QED
    BY <2>1, <2>2
<1>8. kept # PartitionIndexes(s) =>
         case.partitioned /\ infos[i].parts # None /\ kept \subseteq infos[i].parts
  BY <1>1, <1>2 DEF ScanInv, ShapeInv, Loaded, PartitionIndexes, Parts, Info
<1>9. lists[s].idx # None =>
         case.partitioned /\ infos[i].parts # None /\ lists[s].idx \subseteq infos[i].parts
  BY <1>1, <1>2 DEF ScanInv, ShapeInv, Info
<1>10. /\ lists[s].left \subseteq lists[s].asked
       /\ ~case.partitioned => /\ lists[s].asked \subseteq DataFilters
                               /\ lists[s].left = lists[s].asked /\ lists[s].stats = None
  BY <1>2 DEF ScanInv, ShapeInv
<1>11. lists'[i].st # "free" /\ lists'[i].info = i
  BY <1>1, <1>2
<1>12. ShapeInv(s)'
  BY <1>1, <1>2, <1>5, <1>6, <1>8, <1>9, <1>10, <1>11 DEF ShapeInv, Active, Info
<1>13. FilesInv(s)' /\ BatchInv(s)'
  BY <1>5 DEF FilesInv, BatchInv
<1>14. QED
  BY <1>5, <1>6, <1>7, <1>12, <1>13

\* A scan that fails changes nothing else.
LEMMA CastFails ==
  ASSUME IInv, NEW s \in Scans, Open, Quiet, Active(s), Loaded(s), NEW why \in Reasons,
         why \in {"cast", "gone", "filter"}, Fail(s, why),
         UNCHANGED <<query, connListings, lists, infos>>
  PROVE  IInv'
<1>1. ListingsInv'
  BY QuietKeeps, ListingsFrame DEF IInv
<1>2. query' \in QuerySet /\ connListings' \in Partial(Dirs, ListingSet)
  BY DEF IInv, TypeInv
<1>3. QED
  BY <1>1, <1>2, ScanFails

LEMMA ComplexInv ==
  ASSUME IInv, NEW s \in Scans, ComplexFilterPushdown(s)
  PROVE  IInv'
<1>1. /\ TypeInv /\ error = None /\ lists[s].st = "planning" /\ case.partitioned /\ Loaded(s)
      /\ Quiet /\ UNCHANGED <<query, connListings, infos>> /\ Active(s)
  BY DEF ComplexFilterPushdown, IInv, Quiet, Active
<1>2. Open /\ ScanInv(s)
  BY <1>1, MovesWhileOpen DEF Finished, IInv
<1>3. PICK filters \in (SUBSET lists[s].left) \ {{}} :
         LET kept == PartitionsToRead(PartitionIndexes(s), filters)
         IN  IF CannotHold(PartitionIndexes(s), filters)
             THEN Fail(s, "cast") /\ UNCHANGED lists
             ELSE /\ lists' = [lists EXCEPT ![s] = Narrowed(s, kept,
                        [lists[s] EXCEPT !.left = lists[s].left \ DecidedFilters(kept, filters)])]
                  /\ UNCHANGED error
  BY DEF ComplexFilterPushdown
<1>4. CASE CannotHold(PartitionIndexes(s), filters)
  BY <1>1, <1>2, <1>3, <1>4, CastFails DEF Reasons
<1>5. CASE ~CannotHold(PartitionIndexes(s), filters)
  <2>1. PICK kept : kept = PartitionsToRead(PartitionIndexes(s), filters)
    OBVIOUS
  <2>2. PICK decided : decided = DecidedFilters(kept, filters)
    OBVIOUS
  <2>3. PICK l : l = [lists[s] EXCEPT !.left = lists[s].left \ decided]
    OBVIOUS
  <2>4. lists[s] \in ListSet /\ lists[s].left \in SUBSET Filters
    BY <1>1 DEF TypeInv, ListSet
  <2>5. /\ l \in ListSet /\ l.left = lists[s].left \ decided /\ l.st = lists[s].st
        /\ l.info = lists[s].info /\ l.idx = lists[s].idx /\ l.asked = lists[s].asked
        /\ l.joined = lists[s].joined /\ l.next = lists[s].next /\ l.listed = lists[s].listed
        /\ l.files = lists[s].files /\ l.rows = lists[s].rows /\ l.stats = lists[s].stats
    <3>1. lists[s].left \ decided \in SUBSET Filters
      BY <2>4
    <3>2. QED
      BY <2>3, <2>4, <3>1 DEF ListSet
  <2>6. PartitionIndexes(s) \in SUBSET Partitions /\ kept \subseteq PartitionIndexes(s)
        /\ kept \in SUBSET Partitions
    BY <1>1, <2>1, IndexesType DEF PartitionsToRead
  <2>7. PICK n : n = Narrowed(s, kept, l)
    OBVIOUS
  <2>8. /\ n \in ListSet /\ n.st = l.st /\ n.info = l.info /\ n.asked = l.asked
        /\ n.left = l.left /\ n.joined = l.joined /\ n.stats = l.stats /\ n.rows = l.rows
        /\ kept = PartitionIndexes(s) => /\ n.idx = l.idx /\ n.next = l.next
                                         /\ n.listed = l.listed /\ n.files = l.files
        /\ kept # PartitionIndexes(s) => /\ n.idx = kept /\ n.next = 1
                                         /\ n.listed = NoListings /\ n.files = {}
    <3>1. TypeInv /\ l \in ListSet /\ kept \in SUBSET Partitions
      BY <1>1, <2>5, <2>6
    <3>2. NarrowedTo(s, kept, l, n)
      BY <2>7, <3>1, NarrowedType
    <3>3. QED
      BY <3>2 DEF NarrowedTo
  <2>9. lists' = [lists EXCEPT ![s] = n] /\ error' = None
    BY <1>1, <1>3, <1>5, <2>1, <2>2, <2>3, <2>7
  <2>10. /\ lists' \in [Scans -> ListSet] /\ lists'[s] = n
         /\ \A t \in Scans \ {s} : lists'[t] = lists[t]
    BY <1>1, <2>8, <2>9 DEF TypeInv
  <2>11. lists[s].joined = {}
    BY <1>1, <1>2 DEF ScanInv, ShapeInv
  <2>12. /\ PartitionIndexes(s)' = kept /\ Loaded(s)' /\ ShapeInv(s)'
         /\ FilesInv(s)' /\ BatchInv(s)'
    BY <1>1, <2>5, <2>6, <2>8, <2>10, <2>11, NarrowedInv
  <2>13. \A p : (Glue(p))' = Glue(p)
    BY <1>1, GlueFrame DEF Quiet
  <2>14. \A p \in query.partitions \ kept :
           /\ Glue(p).value # Bad
           /\ \E c \in lists[s].asked \cap KeyFilters : KeyAnswer[c][Glue(p).value] # "true"
    <3> SUFFICES ASSUME NEW p \in query.partitions \ kept
                 PROVE  /\ Glue(p).value # Bad
                        /\ \E c \in lists[s].asked \cap KeyFilters :
                              KeyAnswer[c][Glue(p).value] # "true"
      OBVIOUS
    <3>1. CASE p \notin PartitionIndexes(s)
      BY <1>1, <1>2, <2>11, <3>1 DEF ScanInv, PruneInv
    <3>2. CASE p \in PartitionIndexes(s)
      <4>1. PICK c \in filters \cap KeyFilters : KeyAnswer[c][Glue(p).value] = "no"
        BY <2>1, <3>2 DEF PartitionsToRead
      <4>2. c \in lists[s].asked
        BY <1>2 DEF ScanInv, ShapeInv
      <4>3. Glue(p).value # Bad
        BY <1>5, <3>2 DEF CannotHold
      <4>4. QED
        BY <4>1, <4>2, <4>3
    <3>3. QED
      BY <3>1, <3>2
  <2>15. \A c \in lists[s].asked \ (lists[s].left \ decided) :
           c \in KeyFilters /\ \A p \in kept : KeyAnswer[c][Glue(p).value] = "true"
    BY <1>1, <1>2, <2>2, <2>6 DEF ScanInv, PruneInv, DecidedFilters
  <2>16. lists[s].stats # None => \A p \in kept : Glue(p).value \in lists[s].stats
    BY <1>1, <1>2, <2>6 DEF ScanInv, PruneInv
  <2>17. PruneInv(s)'
    BY <1>1, <2>5, <2>8, <2>10, <2>11, <2>12, <2>13, <2>14, <2>15, <2>16 DEF PruneInv
  <2>18. lists'[s].st = "planning" /\ lists'[s].info = lists[s].info /\ lists[s].info \in Scans
    BY <1>1, <2>5, <2>8, <2>10 DEF TypeInv
  <2>19. ScanInv(s)'
    BY <2>12, <2>17, <2>18 DEF ScanInv
  <2>20. lists'[s].st # "free"
    BY <2>18
  <2>21. QED
    BY <1>1, <1>2, <2>9, <2>10, <2>18, <2>19, <2>20, OnlyMoves
<1>6. QED
  BY <1>4, <1>5

LEMMA PlanNext ==
  (\A s \in Scans : TypeInv /\ Active(s) /\ Loaded(s) => PlanFor(s, PlanListings(s)))'
<1>1. \A s \in Scans : TypeInv /\ Active(s) /\ Loaded(s) => PlanFor(s, PlanListings(s))
  BY PlanFacts
<1>2. QED
  BY <1>1, PTL

LEMMA DynamicInv ==
  ASSUME IInv, NEW s \in Scans, DynamicFilterPushdown(s)
  PROVE  IInv'
<1>1. /\ TypeInv /\ error = None /\ lists[s].st = "planning" /\ Loaded(s)
      /\ Quiet /\ UNCHANGED <<query, connListings, infos>> /\ Active(s)
  BY DEF DynamicFilterPushdown, IInv, Quiet, Active
<1>2. Open /\ ScanInv(s)
  BY <1>1, MovesWhileOpen DEF Finished, IInv
<1>3. PICK joined \in SUBSET (IF case.partitioned THEN JoinFilters ELSE {}) :
         LET kept == {p \in PartitionIndexes(s) :
                         \A c \in joined : KeyAnswer[c][Glue(p).value] = "true"}
         IN  IF CannotHold(PartitionIndexes(s), joined)
             THEN Fail(s, "cast") /\ UNCHANGED lists
             ELSE /\ lists' = [lists EXCEPT ![s] = Narrowed(s, kept,
                                 [lists[s] EXCEPT !.st = "scanning", !.joined = joined])]
                  /\ UNCHANGED error
  BY DEF DynamicFilterPushdown
<1>4. CASE CannotHold(PartitionIndexes(s), joined)
  BY <1>1, <1>2, <1>3, <1>4, CastFails DEF Reasons
<1>5. CASE ~CannotHold(PartitionIndexes(s), joined)
  <2>1. PICK kept : kept = {p \in PartitionIndexes(s) :
                               \A c \in joined : KeyAnswer[c][Glue(p).value] = "true"}
    OBVIOUS
  <2>2. joined \in SUBSET JoinFilters /\ (~case.partitioned => joined = {})
    OBVIOUS
  <2>3. PICK l : l = [lists[s] EXCEPT !.st = "scanning", !.joined = joined]
    OBVIOUS
  <2>4. lists[s] \in ListSet
    BY <1>1 DEF TypeInv
  <2>5. /\ l \in ListSet /\ l.left = lists[s].left /\ l.st = "scanning"
        /\ l.info = lists[s].info /\ l.idx = lists[s].idx /\ l.asked = lists[s].asked
        /\ l.joined = joined /\ l.next = lists[s].next /\ l.listed = lists[s].listed
        /\ l.files = lists[s].files /\ l.rows = lists[s].rows /\ l.stats = lists[s].stats
    BY <2>2, <2>3, <2>4 DEF ListSet, States
  <2>6. PartitionIndexes(s) \in SUBSET Partitions /\ kept \subseteq PartitionIndexes(s)
        /\ kept \in SUBSET Partitions
    BY <1>1, <2>1, IndexesType
  <2>7. PICK n : n = Narrowed(s, kept, l)
    OBVIOUS
  <2>8. NarrowedTo(s, kept, l, n)
    BY <1>1, <2>5, <2>6, <2>7, NarrowedType
  <2>9. lists' = [lists EXCEPT ![s] = n] /\ error' = None
    BY <1>1, <1>3, <1>5, <2>1, <2>3, <2>7
  <2>10. /\ lists' \in [Scans -> ListSet] /\ lists'[s] = n
         /\ \A t \in Scans \ {s} : lists'[t] = lists[t]
    BY <1>1, <2>8, <2>9 DEF TypeInv, NarrowedTo
  <2>11. lists[s].joined = {}
    BY <1>1, <1>2 DEF ScanInv, ShapeInv
  <2>12. ~case.partitioned => kept = PartitionIndexes(s)
    BY <2>1, <2>2
  <2>13. /\ lists'[s].info = lists[s].info /\ lists'[s].st = "scanning"
         /\ lists'[s].asked = lists[s].asked /\ lists'[s].left = lists[s].left
         /\ lists'[s].rows = lists[s].rows /\ lists'[s].stats = lists[s].stats
         /\ lists'[s].joined = joined
         /\ kept = PartitionIndexes(s) =>
              /\ lists'[s].idx = lists[s].idx /\ lists'[s].next = lists[s].next
              /\ lists'[s].listed = lists[s].listed /\ lists'[s].files = lists[s].files
         /\ kept # PartitionIndexes(s) =>
              /\ lists'[s].idx = kept /\ lists'[s].next = 1
              /\ lists'[s].listed = NoListings /\ lists'[s].files = {}
    BY <2>5, <2>8, <2>10 DEF NarrowedTo
  <2>14. /\ PartitionIndexes(s)' = kept /\ Loaded(s)' /\ ShapeInv(s)'
         /\ FilesInv(s)' /\ BatchInv(s)' /\ lists'[s].next = 1
    BY <1>1, <2>2, <2>6, <2>10, <2>12, <2>13, NarrowedInv
  <2>15. \A p : (Glue(p))' = Glue(p)
    BY <1>1, GlueFrame DEF Quiet
  <2>16. ASSUME case.partitioned, NEW p \in query.partitions \ kept
         PROVE  /\ Glue(p).value # Bad
                /\ \E c \in (lists[s].asked \cup joined) \cap KeyFilters :
                      KeyAnswer[c][Glue(p).value] # "true"
    <3>1. CASE p \notin PartitionIndexes(s)
      BY <1>1, <1>2, <2>11, <2>16, <3>1 DEF ScanInv, PruneInv
    <3>2. CASE p \in PartitionIndexes(s)
      <4>1. PICK c \in joined : KeyAnswer[c][Glue(p).value] # "true"
        BY <2>1, <2>16, <3>2
      <4>2. c \in KeyFilters
        BY <2>2, FilterAssumption
      <4>3. Glue(p).value # Bad
        BY <1>5, <3>2, <4>1, <4>2 DEF CannotHold
      <4>4. QED
        BY <4>1, <4>2, <4>3
    <3>3. QED
      BY <3>1, <3>2
  <2>17. case.partitioned => \A c \in lists[s].asked \ lists[s].left :
           c \in KeyFilters /\ \A p \in kept : KeyAnswer[c][Glue(p).value] = "true"
    BY <1>1, <1>2, <2>6 DEF ScanInv, PruneInv
  <2>18. case.partitioned /\ lists[s].stats # None =>
           \A p \in kept : Glue(p).value \in lists[s].stats
    BY <1>1, <1>2, <2>6 DEF ScanInv, PruneInv
  <2>19. PruneInv(s)'
    BY <1>1, <2>13, <2>14, <2>15, <2>16, <2>17, <2>18 DEF PruneInv, Quiet
  <2>20. lists[s].info \in Scans /\ lists'[s].st # "free"
    BY <1>1, <2>13 DEF TypeInv
  <2>21. TypeInv'
    <3>1. \A t \in Scans : lists'[t].st # "free" => lists'[t].info \in Scans
      BY <1>1, <2>10, <2>13, <2>20 DEF TypeInv
    <3>2. QED
      BY <1>1, <2>9, <2>10, <3>1 DEF TypeInv, Quiet
  <2>22. PlanFor(s, PlanListings(s))'
    BY <2>14, <2>20, <2>21, PlanNext DEF Active
  <2>23. Len(PlanListings(s)') \in Nat
    BY <2>22 DEF PlanFor
  <2>24. JobsInv(s)'
    BY <2>13, <2>14, <2>23 DEF JobsInv
  <2>25. ScanInv(s)'
    BY <2>14, <2>19, <2>24 DEF ScanInv
  <2>26. QED
    BY <1>1, <1>2, <2>9, <2>10, <2>13, <2>20, <2>25, OnlyMoves
<1>6. QED
  BY <1>4, <1>5

LEMMA StatisticsInv ==
  ASSUME IInv, NEW s \in Scans, HivePartitionStatistics(s)
  PROVE  IInv'
<1>1. /\ TypeInv /\ error = None /\ lists[s].st = "planning" /\ case.partitioned /\ Loaded(s)
      /\ Quiet /\ UNCHANGED <<query, connListings, infos, error>> /\ Active(s)
      /\ lists' = [lists EXCEPT ![s].stats = {Glue(p).value : p \in PartitionIndexes(s)}]
  BY DEF HivePartitionStatistics, IInv, Quiet, Active
<1>2. Open /\ ScanInv(s)
  BY <1>1, MovesWhileOpen DEF Finished, IInv
<1>3. PICK stats : stats = {Glue(p).value : p \in PartitionIndexes(s)}
  OBVIOUS
<1>4. stats \in ValueSets
  BY <1>1, <1>3, IndexesType, GlueType DEF TypeInv, ValueSets
<1>5. /\ lists' \in [Scans -> ListSet] /\ \A t \in Scans \ {s} : lists'[t] = lists[t]
      /\ lists'[s] = [lists[s] EXCEPT !.stats = stats]
  <2>1. PICK l : l = [lists[s] EXCEPT !.stats = stats]
    OBVIOUS
  <2>2. lists[s] \in ListSet /\ stats \in ValueSets \cup {None}
    BY <1>1, <1>4 DEF TypeInv
  <2>3. l \in ListSet
    BY <2>1, <2>2 DEF ListSet
  <2>4. lists' = [lists EXCEPT ![s] = l]
    BY <1>1, <1>3, <2>1
  <2>5. QED
    BY <1>1, <2>1, <2>3, <2>4 DEF TypeInv
<1>6. /\ lists'[s].stats = stats /\ lists'[s].st = lists[s].st
      /\ lists'[s].info = lists[s].info /\ lists'[s].idx = lists[s].idx
      /\ lists'[s].asked = lists[s].asked /\ lists'[s].left = lists[s].left
      /\ lists'[s].joined = lists[s].joined /\ lists'[s].next = lists[s].next
      /\ lists'[s].listed = lists[s].listed /\ lists'[s].files = lists[s].files
      /\ lists'[s].rows = lists[s].rows
  BY <1>1, <1>5 DEF TypeInv, ListSet
<1>7. PICK i : i = lists[s].info
  OBVIOUS
<1>8. /\ i \in Scans /\ lists[i].st # "free" /\ lists[i].info = i
      /\ lists'[i].st # "free" /\ lists'[i].info = i
  BY <1>1, <1>2, <1>5, <1>6, <1>7 DEF ScanInv, ShapeInv, Active
<1>9. KeepsView(s) /\ KeepsStore
  BY <1>1, <1>6, QuietKeeps DEF KeepsView, Quiet
<1>10. /\ Loaded(s)' <=> Loaded(s)
       /\ PartitionIndexes(s)' = PartitionIndexes(s)
  BY <1>9, ViewFrame
<1>11. ShapeInv(s)'
  BY <1>1, <1>2, <1>6, <1>7, <1>8, <1>10 DEF ScanInv, ShapeInv, Active, Info, Quiet
<1>12. \A p : (Glue(p))' = Glue(p)
  BY <1>1, GlueFrame DEF Quiet
<1>13. PruneInv(s)'
  BY <1>1, <1>2, <1>3, <1>6, <1>10, <1>12 DEF ScanInv, PruneInv
<1>14. lists'[s].files = {} /\ DOMAIN lists'[s].rows = {}
  BY <1>1, <1>2, <1>6 DEF ScanInv, ShapeInv, NoListings
<1>15. FilesInv(s)' /\ BatchInv(s)'
  BY <1>1, <1>6, <1>14 DEF FilesInv, BatchInv
<1>16. ScanInv(s)'
  BY <1>1, <1>6, <1>11, <1>13, <1>15 DEF ScanInv
<1>17. QED
  BY <1>1, <1>2, <1>5, <1>6, <1>7, <1>8, <1>16, OnlyMoves

-----------------------------------------------------------------------------
(***************************************************************************)
(* What planning is told, and what is known of the files.                  *)
(***************************************************************************)
\* The files are attributed to their owners, and that is recorded.
Owned(s, owners) ==
  \A f \in DOMAIN owners : IF case.partitioned
                           THEN owners[f] # None /\ owners[f] = Owner(Parts(s), f)
                           ELSE owners[f] = None
Records(i, owners) == infos' = [infos EXCEPT ![i].fileOf = Extended(infos[i].fileOf, owners)]

\* Files attributed to their owners leave what was known of the others.
LEMMA Attributed ==
  ASSUME IInv, Quiet, query'.partitions = query.partitions, NEW s \in Scans, Active(s), Loaded(s),
         NEW i \in Scans, i = lists[s].info, NEW owners \in Partial(Files, PartitionOrNone),
         Owned(s, owners), Records(i, owners)
  PROVE  /\ infos' \in [Scans -> InfoSet] /\ \A j \in Scans : KeepsInfo(j) /\ InfoInv(j)'
         /\ infos'[i].fileOf = Extended(infos[i].fileOf, owners)
<1>1. PICK fileOf : fileOf = Extended(infos[i].fileOf, owners)
  OBVIOUS
<1>2. infos \in [Scans -> InfoSet] /\ infos[i] \in InfoSet /\ case' = case
  BY DEF IInv, TypeInv, Quiet
<1>3. fileOf \in Partial(Files, PartitionOrNone)
  <2>1. infos[i].fileOf \in Partial(Files, PartitionOrNone)
    BY <1>2 DEF InfoSet
  <2>2. QED
    BY <1>1, <2>1, PartialExtended
<1>4. PICK n : n = [infos[i] EXCEPT !.fileOf = fileOf]
  OBVIOUS
<1>5. /\ n \in InfoSet /\ n.parts = infos[i].parts /\ n.whole = infos[i].whole
      /\ n.table = infos[i].table /\ n.fileOf = fileOf
  BY <1>2, <1>3, <1>4 DEF InfoSet
<1>6. /\ infos' = [infos EXCEPT ![i] = n] /\ infos'[i] = n
      /\ \A j \in Scans \ {i} : infos'[j] = infos[j]
  BY <1>1, <1>2, <1>4 DEF Records
<1>7. infos' \in [Scans -> InfoSet]
  BY <1>2, <1>5, <1>6
<1>8. /\ DOMAIN fileOf = DOMAIN infos[i].fileOf \cup DOMAIN owners
      /\ \A f \in DOMAIN owners : fileOf[f] = owners[f]
      /\ \A f \in DOMAIN infos[i].fileOf : f \notin DOMAIN owners => fileOf[f] = infos[i].fileOf[f]
  BY <1>1 DEF Extended
<1>9. InfoInv(i) /\ (case.partitioned => Parts(s) = infos[i].parts /\ infos[i].parts # None)
  BY DEF IInv, Parts, Loaded, Info
<1>10. ASSUME NEW f \in DOMAIN infos[i].fileOf, f \in DOMAIN owners
       PROVE  owners[f] = infos[i].fileOf[f]
  BY <1>9, <1>10 DEF InfoInv, Owned
<1>11. KeepsFiles(i)
  BY <1>5, <1>6, <1>8, <1>10 DEF KeepsFiles
<1>12. \A j \in Scans : KeepsInfo(j)
  BY <1>5, <1>6, <1>11 DEF KeepsInfo, KeepsFiles
<1>13. ASSUME NEW f \in DOMAIN infos'[i].fileOf
       PROVE  \/ f \in DOMAIN infos[i].fileOf /\ infos'[i].fileOf[f] = infos[i].fileOf[f]
              \/ IF case.partitioned
                 THEN /\ infos[i].parts # None /\ infos'[i].fileOf[f] # None
                      /\ infos'[i].fileOf[f] = Owner(infos[i].parts, f)
                 ELSE infos'[i].fileOf[f] = None
  <2>1. infos'[i].fileOf = fileOf /\ f \in DOMAIN fileOf
    BY <1>5, <1>6
  <2>2. CASE f \in DOMAIN owners
    <3>1. fileOf[f] = owners[f]
      BY <1>8, <2>2
    <3>2. IF case.partitioned THEN owners[f] # None /\ owners[f] = Owner(Parts(s), f)
                              ELSE owners[f] = None
      BY <2>2 DEF Owned
    <3>3. QED
      BY <1>9, <2>1, <3>1, <3>2
  <2>3. CASE f \notin DOMAIN owners
    BY <1>8, <2>1, <2>3
  <2>4. QED
    BY <2>2, <2>3
<1>14. KeepsQuery
  BY DEF KeepsQuery
<1>15. InfoInv(i)'
  BY <1>2, <1>5, <1>6, <1>9, <1>13, <1>14, InfoFrame
<1>16. ASSUME NEW j \in Scans, j # i PROVE InfoInv(j)'
  BY <1>2, <1>6, <1>14, <1>16, InfoFrame DEF IInv
<1>17. QED
  BY <1>1, <1>5, <1>6, <1>7, <1>12, <1>15, <1>16

\* A directory is listed: the listings stay faithful.
LEMMA ListedNext ==
  ASSUME IInv, Quiet, NEW s \in Scans, NEW d \in Dirs, NEW l \in ListingSet, Faithful(l, d),
         query'.listings = QueryWith(s, d, l).listings, connListings' = ConnectionWith(s, d, l)
  PROVE  ListingsInv' /\ connListings' \in Partial(Dirs, ListingSet)
<1>1. /\ \A e \in DOMAIN query'.listings : Faithful(query'.listings[e], e)
      /\ \A e \in DOMAIN connListings' : Faithful(connListings'[e], e)
      /\ connListings' \in Partial(Dirs, ListingSet)
  BY ListedOne DEF IInv
<1>2. QED
  BY <1>1 DEF ListingsInv, Quiet, Faithful, UnderDir, Open

\* A partition is numbered below the number of partitions.
LEMMA IndexType ==
  ASSUME NEW i, NEW p, infos[i].parts \in SUBSET Partitions
  PROVE  Index(i, p) \in 0 .. Cardinality(Partitions)
<1> DEFINE before == {r \in infos[i].parts :
                        (CHOOSE n \in DOMAIN SetToSeq(query.partitions) : SetToSeq(query.partitions)[n] = r)
                        < (CHOOSE n \in DOMAIN SetToSeq(query.partitions) : SetToSeq(query.partitions)[n] = p)}
<1>1. Index(i, p) = Cardinality(before)
  BY DEF Index
<1>2. before \in SUBSET Partitions
  OBVIOUS
<1> HIDE DEF before
<1>3. IsFiniteSet(Partitions)
  BY TreeAssumption
<1>4. Cardinality(before) <= Cardinality(Partitions) /\ IsFiniteSet(before)
  BY <1>2, <1>3, FS_Subset
<1>5. Cardinality(before) \in Nat /\ Cardinality(Partitions) \in Nat
  BY <1>3, <1>4, FS_CardinalityType
<1>6. QED
  BY <1>1, <1>4, <1>5

\* The estimate is a fraction of numbers.
LEMMA EstimateType ==
  ASSUME TypeInv, NEW s \in Scans, Active(s), Loaded(s), NEW sample \in SampleSet
  PROVE  EstimateOf(s, sample) \in EstimateSet \cup {None}
<1>1. PICK idx : idx = PartitionIndexes(s)
  OBVIOUS
<1>2. idx \in SUBSET Partitions
  BY <1>1, IndexesType
<1>3. PICK sizes : sizes = sample.sizes
  OBVIOUS
<1>4. PICK seen : seen = DOMAIN sizes
  OBVIOUS
<1>5. PICK numbers : numbers = {Index(lists[s].info, p) : p \in idx}
  OBVIOUS
<1>6. sizes \in Partial(0 .. Cardinality(Partitions), SUBSET Files) /\ sample.listed \in SUBSET Files
  BY <1>3 DEF SampleSet
<1>7. Cardinality(Partitions) \in Nat /\ IsFiniteSet(Files)
  BY TreeAssumption, FS_CardinalityType
<1>8. seen \in SUBSET (0 .. Cardinality(Partitions)) /\ \A n \in seen : sizes[n] \in SUBSET Files
  <2>1. DOMAIN sizes \in SUBSET (0 .. Cardinality(Partitions)) /\ sizes \in [DOMAIN sizes -> SUBSET Files]
    BY <1>6, PartialFacts
  <2>2. QED
    BY <1>4, <2>1
<1>9. IsFiniteSet(seen) /\ \A n \in seen : IsFiniteSet(sizes[n])
  <2>1. IsFiniteSet(0 .. Cardinality(Partitions))
    BY <1>7, FS_Interval
  <2>2. QED
    BY <1>7, <1>8, <2>1, FS_Subset
<1>10. IsFiniteSet(numbers \cap seen) /\ Cardinality(seen) \in Nat
       /\ Cardinality(sample.listed) \in Nat
  <2>1. numbers \cap seen \in SUBSET seen
    OBVIOUS
  <2>2. IsFiniteSet(sample.listed)
    BY <1>6, <1>7, FS_Subset
  <2>3. QED
    BY <1>9, <2>1, <2>2, FS_Subset, FS_CardinalityType
<1>11. FilesAt(sizes, numbers \cap seen) \in Nat /\ FilesAt(sizes, seen) \in Nat
  <2>1. \A n \in numbers \cap seen : IsFiniteSet(sizes[n])
    BY <1>9
  <2>2. QED
    BY <1>9, <1>10, <2>1, FilesAtFacts
<1>12. Cardinality(numbers \ seen) \in Nat
  <2>1. IsFiniteSet(idx)
    BY <1>2, TreeAssumption, FS_Subset
  <2>2. IsFiniteSet(numbers)
    <3>1. PICK r : r = [p \in idx |-> Index(lists[s].info, p)]
      OBVIOUS
    <3>2. r \in Surjection(idx, numbers)
      BY <1>5, <3>1 DEF Surjection
    <3>3. QED
      BY <2>1, <3>2, FS_Surjection
  <2>3. numbers \ seen \in SUBSET numbers
    OBVIOUS
  <2>4. QED
    BY <2>2, <2>3, FS_Subset, FS_CardinalityType
<1>13. PICK e : e = [files |-> FilesAt(sizes, numbers \cap seen) * Cardinality(seen)
                        + Cardinality(numbers \ seen) * FilesAt(sizes, seen),
                     of |-> Cardinality(seen), idx |-> idx]
  OBVIOUS
<1>14. FilesAt(sizes, numbers \cap seen) * Cardinality(seen)
          + Cardinality(numbers \ seen) * FilesAt(sizes, seen) \in Nat
  <2>1. PICK a, b, c, d \in Nat : /\ a = FilesAt(sizes, numbers \cap seen) /\ b = Cardinality(seen)
                                  /\ c = Cardinality(numbers \ seen) /\ d = FilesAt(sizes, seen)
    BY <1>10, <1>11, <1>12
  <2>2. a * b + c * d \in Nat
    OBVIOUS
  <2>3. QED
    BY <2>1, <2>2
<1>15. e \in EstimateSet
  BY <1>2, <1>10, <1>13, <1>14 DEF EstimateSet
<1>16. [files |-> 0, of |-> 1, idx |-> idx] \in EstimateSet
  BY <1>2 DEF EstimateSet
<1>17. [files |-> Cardinality(sample.listed), of |-> 1, idx |-> idx] \in EstimateSet
  BY <1>2, <1>10 DEF EstimateSet
<1>18. EstimateOf(s, sample) \in {None, e, [files |-> 0, of |-> 1, idx |-> idx],
                                  [files |-> Cardinality(sample.listed), of |-> 1, idx |-> idx]}
  BY <1>1, <1>3, <1>4, <1>5, <1>13 DEF EstimateOf
<1>19. QED
  BY <1>15, <1>16, <1>17, <1>18

\* Only the estimate of scan s changes.
LEMMA Estimated ==
  ASSUME TypeInv, NEW s \in Scans, Active(s), NEW e \in EstimateSet \cup {None},
         lists' = [lists EXCEPT ![s].estimate = e]
  PROVE  /\ lists' \in [Scans -> ListSet] /\ \A t \in Scans \ {s} : lists'[t] = lists[t]
         /\ lists'[s].st # "free" /\ lists'[s].info \in Scans /\ lists'[s].info = lists[s].info
         /\ KeepsScan(s)
<1>1. PICK l : l = [lists[s] EXCEPT !.estimate = e]
  OBVIOUS
<1>2. lists[s] \in ListSet /\ lists[s].st # "free" /\ lists[s].info \in Scans
  BY DEF TypeInv, Active
<1>3. /\ l \in ListSet /\ l.st = lists[s].st /\ l.info = lists[s].info /\ l.idx = lists[s].idx
      /\ l.asked = lists[s].asked /\ l.left = lists[s].left /\ l.joined = lists[s].joined
      /\ l.next = lists[s].next /\ l.listed = lists[s].listed /\ l.files = lists[s].files
      /\ l.rows = lists[s].rows /\ l.stats = lists[s].stats
  BY <1>1, <1>2 DEF ListSet
<1>4. lists' = [lists EXCEPT ![s] = l]
  BY <1>1
<1>5. /\ lists' \in [Scans -> ListSet] /\ lists'[s] = l
      /\ \A t \in Scans \ {s} : lists'[t] = lists[t]
  BY <1>3, <1>4 DEF TypeInv
<1>6. QED
  BY <1>2, <1>3, <1>5 DEF KeepsScan

\* The file measured is one whose storage is read as the table's.
LEMMA MeasuredFacts ==
  ASSUME NEW s, NEW owners \in Partial(Files, PartitionOrNone), NEW m \in MeasurableFiles(s, owners)
  PROVE  /\ m \in Files \cup {None}
         /\ m # None /\ case.partitioned =>
              m \in DOMAIN owners /\ ~PartitionStorageMismatch(lists[s].info, owners[m])
<1>1. DOMAIN owners \in SUBSET Files
  BY PartialFacts
<1>2. m = None \/ (m \in DOMAIN owners /\
         (case.partitioned => ~PartitionStorageMismatch(lists[s].info, owners[m])))
  BY DEF MeasurableFiles
<1>3. QED
  BY <1>1, <1>2

\* The step in which scan s measures the table.
Measures(s, measured, m) ==
  LET owners == measured.owners
      listed == DOMAIN owners
      number(f) == Index(lists[s].info, owners[f])
      numbers == IF case.partitioned THEN {number(f) : f \in listed} ELSE {}
      sample == [listed |-> listed, root |-> measured.root, measured |-> m,
                 sizes |-> [n \in numbers |-> {f \in listed : number(f) = n}],
                 info |-> lists[s].info]
  IN  /\ query' = [QueryWith(s, measured.dir, measured.listing)
                      EXCEPT !.samples[Info(s).table] = sample]
      /\ connListings' = ConnectionWith(s, measured.dir, measured.listing)
      /\ infos' = [infos EXCEPT ![lists[s].info].fileOf = Extended(@, owners)]
      /\ lists' = [lists EXCEPT ![s].estimate = EstimateOf(s, sample)]

LEMMA CardinalityInv ==
  ASSUME IInv, NEW s \in Scans, HiveScanCardinality(s)
  PROVE  IInv'
<1>1. /\ TypeInv /\ StoreInv /\ ListingsInv /\ error = None /\ lists[s].st = "planning" /\ Loaded(s)
      /\ Quiet /\ error' = None /\ Active(s)
  BY DEF HiveScanCardinality, IInv, Quiet, Active
<1>2. Open /\ ScanInv(s)
  BY <1>1, MovesWhileOpen DEF Finished, IInv
<1>3. PICK i : i = lists[s].info
  OBVIOUS
<1>4. /\ i \in Scans /\ Active(i) /\ InfoInv(i) /\ Info(s) = infos[i] /\ infos[i] \in InfoSet
      /\ infos[i].table \in BOOLEAN
  BY <1>1, <1>2, <1>3 DEF ScanInv, ShapeInv, IInv, TypeInv, InfoSet, Info
<1>5. PICK table \in BOOLEAN : table = infos[i].table
  BY <1>4
<1>6. ASSUME NEW e \in EstimateSet \cup {None}, lists' = [lists EXCEPT ![s].estimate = e],
             UNCHANGED <<query, connListings, infos>>
      PROVE  IInv'
  BY <1>1, <1>2, <1>6, Estimated, OnlyMoves
<1>7. CASE case.partitioned /\ PartitionIndexes(s) = {}
  <2>1. PICK e : e = [files |-> 0, of |-> 1, idx |-> {}]
    OBVIOUS
  <2>2. e \in EstimateSet
    BY <2>1 DEF EstimateSet
  <2>3. /\ lists' = [lists EXCEPT ![s].estimate = e]
        /\ UNCHANGED <<query, connListings, infos>>
    BY <1>7, <2>1 DEF HiveScanCardinality
  <2>4. QED
    BY <1>6, <2>2, <2>3
<1>8. CASE ~(case.partitioned /\ PartitionIndexes(s) = {}) /\ query.samples[table] # None
  <2>1. PICK e : e = EstimateOf(s, query.samples[table])
    OBVIOUS
  <2>2. query.samples[table] \in SampleSet
    BY <1>1, <1>8 DEF TypeInv, QuerySet
  <2>3. e \in EstimateSet \cup {None}
    BY <1>1, <2>1, <2>2, EstimateType
  <2>4. /\ lists' = [lists EXCEPT ![s].estimate = e]
        /\ UNCHANGED <<query, connListings, infos>>
    BY <1>4, <1>5, <1>8, <2>1 DEF HiveScanCardinality
  <2>5. QED
    BY <1>6, <2>3, <2>4
<1>9. CASE ~(case.partitioned /\ PartitionIndexes(s) = {}) /\ query.samples[table] = None
  <2>1. PICK measured \in SampleDirectories(s) :
           \E m \in MeasurableFiles(s, measured.owners) : Measures(s, measured, m)
    <3>1. query.samples[Info(s).table] = None
      BY <1>4, <1>5, <1>9
    <3>2. QED
      BY <1>9, <3>1 DEF HiveScanCardinality, Measures
  <2>2. PICK owners : owners = measured.owners
    OBVIOUS
  <2>3. PICK m \in MeasurableFiles(s, owners) : Measures(s, measured, m)
    BY <2>1, <2>2
  <2>4. PICK numbers : numbers = IF case.partitioned THEN {Index(i, owners[f]) : f \in DOMAIN owners}
                                 ELSE {}
    OBVIOUS
  <2>5. PICK sizes : sizes = [n \in numbers |-> {f \in DOMAIN owners : Index(i, owners[f]) = n}]
    OBVIOUS
  <2>6. PICK sample : sample = [listed |-> DOMAIN owners, root |-> measured.root, measured |-> m,
                                sizes |-> sizes, info |-> i]
    OBVIOUS
  <2>7. PICK e : e = EstimateOf(s, sample)
    OBVIOUS
  <2>8. PICK q : q = QueryWith(s, measured.dir, measured.listing)
    OBVIOUS
  <2>9. /\ query' = [q EXCEPT !.samples[table] = sample]
        /\ connListings' = ConnectionWith(s, measured.dir, measured.listing)
        /\ infos' = [infos EXCEPT ![i].fileOf = Extended(infos[i].fileOf, owners)]
        /\ lists' = [lists EXCEPT ![s].estimate = e]
    BY <1>3, <1>4, <1>5, <2>2, <2>3, <2>4, <2>5, <2>6, <2>7, <2>8 DEF Measures
  <2>10. PartitionIndexes(s) \subseteq Parts(s)
    BY <1>2, <1>4, <1>1 DEF ScanInv, ShapeInv, PartitionIndexes, Parts
  <2>11. Sampled(s, measured)
    BY <1>1, <1>9, <2>10, TableSampled
  <2>12. /\ measured.dir \in Dirs /\ measured.listing \in ListingSet
         /\ Faithful(measured.listing, measured.dir) /\ measured.root \in BOOLEAN
         /\ owners \in Partial(Files, PartitionOrNone)
         /\ \A f \in DOMAIN owners : IF case.partitioned
                                     THEN owners[f] # None /\ owners[f] = Owner(Parts(s), f)
                                     ELSE owners[f] = None
    BY <2>2, <2>11 DEF Sampled
  <2>13. DOMAIN owners \in SUBSET Files
    BY <2>12, PartialFacts
  <2>14. sizes \in Partial(0 .. Cardinality(Partitions), SUBSET Files)
    <3>1. case.partitioned => infos[i].parts \in SUBSET Partitions
      BY <1>1, <1>4 DEF Loaded, InfoSet
    <3>2. numbers \in SUBSET (0 .. Cardinality(Partitions))
      BY <2>4, <3>1, IndexType
    <3>3. sizes \in [numbers -> SUBSET Files]
      BY <2>5, <2>13
    <3>4. QED
      BY <3>2, <3>3, PartialType
  <2>15. /\ m \in Files \cup {None}
         /\ m # None /\ case.partitioned =>
              m \in DOMAIN owners /\ ~PartitionStorageMismatch(i, owners[m])
    BY <1>3, <2>12, MeasuredFacts
  <2>16. sample \in SampleSet
    BY <1>4, <2>6, <2>12, <2>13, <2>14, <2>15 DEF SampleSet
  <2>17. e \in EstimateSet \cup {None}
    BY <1>1, <2>7, <2>16, EstimateType
  <2>18. q \in QuerySet /\ q.partitions = query.partitions /\ q.samples = query.samples
    BY <1>1, <2>8, <2>12, ListedOne
  <2>19. PICK samples : samples = [query.samples EXCEPT ![table] = sample]
    OBVIOUS
  <2>20. samples \in [BOOLEAN -> SampleSet \cup {None}]
    BY <1>1, <2>16, <2>19 DEF TypeInv, QuerySet
  <2>21. /\ query' \in QuerySet /\ query'.partitions = query.partitions
         /\ query'.samples = samples /\ query'.listings = q.listings
    <3>1. query' = [q EXCEPT !.samples = samples]
      BY <2>9, <2>18, <2>19
    <3>2. QED
      BY <2>18, <2>20, <3>1 DEF QuerySet
  <2>22. ListingsInv' /\ connListings' \in Partial(Dirs, ListingSet)
    BY <1>1, <2>8, <2>9, <2>12, <2>21, ListedNext
  <2>23. infos' \in [Scans -> InfoSet] /\ \A j \in Scans : KeepsInfo(j) /\ InfoInv(j)'
    <3>1. Owned(s, owners) /\ Records(i, owners)
      BY <2>9, <2>12 DEF Owned, Records
    <3>2. QED
      BY <1>1, <1>3, <1>4, <2>12, <2>21, <3>1, Attributed
  <2>24. /\ lists' \in [Scans -> ListSet] /\ \A t \in Scans \ {s} : lists'[t] = lists[t]
         /\ lists'[s].st # "free" /\ lists'[s].info \in Scans /\ lists'[s].info = lists[s].info
         /\ KeepsScan(s)
    BY <1>1, <2>9, <2>17, Estimated
  <2>25. SampleInv(sample)'
    <3>1. /\ sample.info = i /\ sample.measured = m
      BY <2>6
    <3>2. i \in Scans /\ Active(i)'
      BY <1>1, <1>4, <2>24 DEF Active
    <3>3. /\ infos'[i].parts = infos[i].parts /\ infos'[i].whole = infos[i].whole
      BY <1>4, <2>23 DEF KeepsInfo
    <3>4. case.partitioned => infos[i].parts # None
      BY <1>1, <1>4 DEF Loaded
    <3>5. case.partitioned /\ m # None /\ infos[i].whole =>
            Glue(Owner(query.partitions, m)).sameFormat
      <4>1. SUFFICES ASSUME case.partitioned, m # None, infos[i].whole
                     PROVE  Glue(Owner(query.partitions, m)).sameFormat
        OBVIOUS
      <4>2. Glue(owners[m]).sameFormat
        BY <1>4, <2>15, <4>1 DEF PartitionStorageMismatch, InfoInv
      <4>3. owners[m] = Owner(query.partitions, m)
        BY <1>4, <2>12, <2>15, <3>4, <4>1 DEF InfoInv, Parts
      <4>4. QED
        BY <4>2, <4>3
    <3>6. /\ \A p : (Glue(p))' = Glue(p)
          /\ \A parts, f : (Owner(parts, f))' = Owner(parts, f)
      BY <1>1, GlueFrame DEF Quiet
    <3>7. QED
      BY <1>1, <2>21, <3>1, <3>2, <3>3, <3>4, <3>5, <3>6 DEF SampleInv, Quiet
  <2>26. \A x \in Samples' : x \in Samples \/ SampleInv(x)'
    <3>1. query.samples \in [BOOLEAN -> SampleSet \cup {None}]
      BY <1>1 DEF TypeInv, QuerySet
    <3>2. \A x \in Samples' : x \in Samples \/ x = sample
      BY <2>19, <2>21, <3>1 DEF Samples
    <3>3. QED
      BY <2>25, <3>2
  <2>27. ErrorInv' /\ error' \in ErrorSet \cup {None}
    BY <1>1 DEF ErrorInv
  <2>28. QED
    BY <1>1, <1>2, <2>21, <2>22, <2>23, <2>24, <2>26, <2>27, ScanMoves
<1>10. QED
  BY <1>7, <1>8, <1>9

-----------------------------------------------------------------------------
(***************************************************************************)
(* Scans that list and read files.                                         *)
(***************************************************************************)
\* What a scan reads and the filters it judged by stay while it lists and reads files.
LEMMA Advances ==
  ASSUME NEW s, NEW i, i = lists[s].info, KeepsView(s), KeepsQuery, ShapeInv(s), PruneInv(s),
         case.partitioned /\ Loaded(s) => query.partitions # None,
         lists[s].st # "planning", lists'[s].st \notin {"free", "planning"},
         lists'[s].st # "listing" => lists'[s].listed = NoListings,
         lists'[s].asked = lists[s].asked, lists'[s].left = lists[s].left,
         lists'[s].joined = lists[s].joined, lists'[s].stats = lists[s].stats,
         lists'[i].st # "free", lists'[i].info = lists[i].info
  PROVE  ShapeInv(s)' /\ PruneInv(s)'
<1>1. /\ Loaded(s)' <=> Loaded(s)
      /\ PartitionIndexes(s)' = PartitionIndexes(s)
  BY ViewFrame
<1>2. /\ lists'[s].info = i /\ case' = case /\ infos'[i].parts = infos[i].parts
      /\ lists[i].info = i /\ i \in Scans /\ lists'[s].idx = lists[s].idx
  BY DEF KeepsView, ShapeInv
<1>3. ShapeInv(s)'
  BY <1>1, <1>2 DEF ShapeInv, Info, Active
<1>4. \A p : (Glue(p))' = Glue(p)
  BY <1>2, GlueFrame
<1>5. PruneInv(s)'
  <2>1. CASE case.partitioned /\ Loaded(s)
    <3>1. query'.partitions = query.partitions
      BY <2>1 DEF KeepsQuery
    <3>2. QED
      BY <1>1, <1>2, <1>4, <2>1, <3>1 DEF PruneInv
  <2>2. CASE ~(case.partitioned /\ Loaded(s))
    BY <1>1, <1>2, <2>2 DEF PruneInv
  <2>3. QED
    BY <2>1, <2>2
<1>6. QED
  BY <1>3, <1>5

\* The file opened next is the first in key order.
LEMMA LowestFacts ==
  ASSUME NEW files \in SUBSET Files, files # {}
  PROVE  Lowest(files) \in files /\ \A g \in files : Rank[Lowest(files)] <= Rank[g]
<1> DEFINE R == {r \in Files \X Files : Rank[r[1]] <= Rank[r[2]]}
<1>1. PICK A : A = files
  OBVIOUS
<1>2. IsFiniteSet(A) /\ A # {}
  BY <1>1, TreeAssumption, FS_Subset
<1>3. \A f, g \in A : <<f, g>> \in R <=> Rank[f] <= Rank[g]
  BY <1>1
<1>4. \A f \in A : Rank[f] \in Nat
  BY <1>1, TreeAssumption
<1> HIDE DEF R
<1>5. /\ \A x, y \in A : <<x, y>> \in R \/ <<y, x>> \in R
      /\ \A x, y, z \in A : <<x, y>> \in R /\ <<y, z>> \in R => <<x, z>> \in R
  BY <1>3, <1>4
<1>6. \E x \in A : \A y \in A : <<x, y>> \in R
  BY ONLY <1>2, <1>5, FirstExists
<1>7. \E f \in files : \A g \in files : Rank[f] <= Rank[g]
  BY <1>1, <1>3, <1>6
<1>8. QED
  BY <1>7 DEF Lowest

\* The file opened next is read, with the value of its partition.
LEMMA ReadInv ==
  ASSUME IInv, Open, Quiet, NEW s \in Scans, UNCHANGED <<query, connListings, infos>>,
         error = None, error' = None, lists[s].st \in {"scanning", "listing", "done"},
         NEW f \in lists[s].files, NEW p,
         p = IF case.partitioned THEN Info(s).fileOf[f] ELSE None,
         case.partitioned => Glue(p).value # Bad /\ (Info(s).whole => Glue(p).readable),
         ~case.partitioned => p = Info(s).fileOf[f],
         NEW one \in [{f} -> {p}],
         lists' = [lists EXCEPT ![s].rows = Extended(lists[s].rows, one)]
  PROVE  IInv'
<1>1. /\ TypeInv /\ Active(s) /\ ScanInv(s) /\ lists[s] \in ListSet
      /\ lists \in [Scans -> ListSet]
  BY DEF IInv, Active, TypeInv
<1>2. PICK i : i = lists[s].info
  OBVIOUS
<1>3. i \in Scans /\ lists[i].st # "free" /\ lists[i].info = i /\ InfoInv(i) /\ Loaded(s)
      /\ infos[i] \in InfoSet
  BY <1>1, <1>2 DEF IInv, ScanInv, ShapeInv, Active, TypeInv
<1>4. DOMAIN one = {f} /\ one[f] = p
  OBVIOUS
<1>5. PICK rows : rows = Extended(lists[s].rows, one)
  OBVIOUS
<1>6. f \in Files /\ f \in DOMAIN infos[i].fileOf
  BY <1>1, <1>2 DEF ListSet, ScanInv, FilesInv, Info
<1>7. p \in PartitionOrNone
  <2>1. infos[i].fileOf \in [DOMAIN infos[i].fileOf -> PartitionOrNone]
    BY <1>3, PartialFacts DEF InfoSet
  <2>2. QED
    BY <1>2, <1>6, <2>1 DEF Info, PartitionOrNone
<1>8. rows \in Partial(Files, PartitionOrNone)
  <2>1. one \in [DOMAIN one -> PartitionOrNone] /\ DOMAIN one \in SUBSET Files
    BY <1>4, <1>6, <1>7
  <2>2. one \in Partial(Files, PartitionOrNone)
    BY <2>1, PartialType
  <2>3. lists[s].rows \in Partial(Files, PartitionOrNone)
    BY <1>1 DEF ListSet
  <2>4. QED
    BY <1>5, <2>2, <2>3, PartialExtended
<1>9. PICK l : l = [lists[s] EXCEPT !.rows = rows]
  OBVIOUS
<1>10. /\ l \in ListSet /\ l.st = lists[s].st /\ l.info = i /\ l.idx = lists[s].idx
       /\ l.asked = lists[s].asked /\ l.left = lists[s].left /\ l.joined = lists[s].joined
       /\ l.next = lists[s].next /\ l.listed = lists[s].listed /\ l.files = lists[s].files
       /\ l.rows = rows /\ l.stats = lists[s].stats
  BY <1>1, <1>2, <1>8, <1>9 DEF ListSet
<1>11. lists' = [lists EXCEPT ![s] = l]
  BY <1>1, <1>5, <1>9
<1>12. /\ lists' \in [Scans -> ListSet] /\ \A t \in Scans \ {s} : lists'[t] = lists[t]
       /\ lists'[s] = l
  BY <1>1, <1>10, <1>11
<1>13. lists'[i].st # "free" /\ lists'[i].info = lists[i].info
  BY <1>2, <1>3, <1>10, <1>12
<1>14. KeepsView(s) /\ KeepsQuery /\ KeepsStore /\ KeepsFiles(i)
  BY <1>2, <1>10, <1>12, QuietKeeps DEF KeepsView, KeepsQuery, KeepsFiles, Quiet
<1>15. ShapeInv(s) /\ PruneInv(s) /\ FilesInv(s) /\ BatchInv(s) /\ JobsInv(s)
       /\ (case.partitioned /\ Loaded(s) => query.partitions # None)
       /\ (lists[s].st # "listing" => lists[s].listed = NoListings)
  BY <1>1, <1>2, <1>3 DEF ScanInv, ShapeInv, InfoInv, Loaded, Info
<1>16. ShapeInv(s)' /\ PruneInv(s)'
  BY <1>2, <1>10, <1>12, <1>13, <1>14, <1>15, Advances
<1>17. BatchInv(s)' /\ JobsInv(s)'
  BY <1>10, <1>12, <1>14, <1>15, BatchFrame, JobsFrame
<1>18. FilesInv(s)'
  <2>1. /\ DOMAIN rows = DOMAIN lists[s].rows \cup {f} /\ rows[f] = p
        /\ \A g \in DOMAIN lists[s].rows : g # f => rows[g] = lists[s].rows[g]
    BY <1>4, <1>5 DEF Extended
  <2>2. ASSUME NEW g \in DOMAIN rows
        PROVE  /\ g \in lists[s].files /\ rows[g] = infos[i].fileOf[g]
               /\ case.partitioned => /\ Glue(rows[g]).value # Bad
                                      /\ infos[i].whole => Glue(rows[g]).readable
    <3>1. CASE g = f
      BY <1>2, <2>1, <3>1 DEF Info
    <3>2. CASE g # f
      BY <1>2, <1>15, <2>1, <3>2 DEF FilesInv, Info
    <3>3. QED
      BY <3>1, <3>2
  <2>3. /\ infos' = infos /\ case' = case /\ lists'[s].info = i /\ lists'[s].idx = lists[s].idx
        /\ lists'[s].files = lists[s].files /\ lists'[s].rows = rows
        /\ ever' = ever /\ sink' = sink
    BY <1>10, <1>12 DEF Quiet
  <2>4. PartitionIndexes(s)' = PartitionIndexes(s)
    BY <1>14, ViewFrame
  <2>5. \A g \in lists'[s].files :
          /\ g \in DOMAIN infos'[i].fileOf /\ (Open' => g \in ever')
          /\ IF case'.partitioned
             THEN LET q == infos'[i].fileOf[g]
                  IN  /\ q \in PartitionIndexes(s)'
                      /\ ~(infos'[i].table /\ infos'[i].whole /\ ~case'.glue[q].sameFormat)
                      /\ IsDataFile(g, case'.glue[q].dir)
             ELSE IsDataFile(g, Root)
    BY <1>2, <1>15, <2>3, <2>4 DEF FilesInv, Info, PartitionStorageMismatch, Glue, Open
  <2>6. \A g \in DOMAIN lists'[s].rows :
          LET q == lists'[s].rows[g]
          IN  /\ g \in lists'[s].files /\ q = infos'[i].fileOf[g]
              /\ case'.partitioned => case'.glue[q].value # Bad
                                      /\ (infos'[i].whole => case'.glue[q].readable)
    BY <2>2, <2>3 DEF Glue
  <2>7. QED
    BY <2>3, <2>5, <2>6
    DEF FilesInv, Info, PartitionStorageMismatch, Glue, IsDataFile, UnderDir
<1>19. ScanInv(s)'
  BY <1>16, <1>17, <1>18 DEF ScanInv
<1>20. lists'[s].st # "free" /\ lists'[s].info \in Scans /\ lists'[s].info = lists[s].info
  BY <1>1, <1>2, <1>3, <1>10, <1>12 DEF Active
<1>21. QED
  BY <1>12, <1>19, <1>20, OnlyMoves

LEMMA FinalizeBindInv ==
  ASSUME IInv, NEW s \in Scans, FinalizeBind(s)
  PROVE  IInv'
<1>1. /\ error = None /\ lists[s].st \in {"scanning", "listing", "done"} /\ Unread(s) # {}
      /\ UNCHANGED <<query, connListings, infos>> /\ Quiet /\ Active(s)
  BY DEF FinalizeBind, Quiet, Active
<1>2. Open
  BY <1>1, MovesWhileOpen DEF Finished
<1>3. TypeInv /\ ScanInv(s) /\ Loaded(s) /\ lists[s].info \in Scans
  BY <1>1 DEF IInv, ScanInv, ShapeInv
<1>4. PICK f : f = Lowest(Unread(s))
  OBVIOUS
<1>5. f \in lists[s].files
  <2>1. Unread(s) \in SUBSET Files /\ Unread(s) \subseteq lists[s].files
    BY <1>3 DEF Unread, TypeInv, ListSet
  <2>2. QED
    BY <1>1, <1>4, <2>1, LowestFacts
<1>6. PICK p : p = IF case.partitioned THEN Info(s).fileOf[f] ELSE None
  OBVIOUS
<1>7. /\ case.partitioned => p \in PartitionIndexes(s) /\ p # None
      /\ ~case.partitioned => p = Info(s).fileOf[f]
  <2>1. f \in DOMAIN Info(s).fileOf /\ (case.partitioned => p \in PartitionIndexes(s))
    BY <1>3, <1>5, <1>6 DEF ScanInv, FilesInv
  <2>2. InfoInv(lists[s].info)
    BY <1>3 DEF IInv
  <2>3. QED
    BY <1>6, <2>1, <2>2 DEF InfoInv, Info
<1>8. PICK undeclared : undeclared = (p # None /\ Info(s).table /\ Info(s).whole /\ ~Glue(p).readable)
  OBVIOUS
<1>9. PICK raises : raises = (\E c \in lists[s].left \cap KeyFilters :
                                 p # None /\ KeyAnswer[c][Glue(p).value] = "error")
  OBVIOUS
<1>10. IF f \notin stored THEN Fail(s, "gone") /\ UNCHANGED lists
       ELSE IF undeclared THEN Fail(s, "column") /\ UNCHANGED lists
       ELSE IF p # None /\ Glue(p).value = Bad THEN Fail(s, "cast") /\ UNCHANGED lists
       ELSE IF raises THEN Fail(s, "filter") /\ UNCHANGED lists
       ELSE lists' = [lists EXCEPT ![s].rows = Extended(lists[s].rows, [g \in {f} |-> p])]
            /\ UNCHANGED error
  BY <1>4, <1>6, <1>8, <1>9 DEF FinalizeBind
<1>11. CASE UNCHANGED lists /\ \E why \in {"gone", "cast", "filter"} : Fail(s, why)
  <2>1. PICK why \in {"gone", "cast", "filter"} : Fail(s, why)
    BY <1>11
  <2>2. why \in Reasons /\ why \in {"cast", "gone", "filter"}
    BY DEF Reasons
  <2>3. QED
    BY <1>1, <1>2, <1>3, <1>11, <2>1, <2>2, CastFails
<1>12. CASE UNCHANGED lists /\ undeclared /\ Fail(s, "column")
  <2>1. case.partitioned /\ p \in PartitionIndexes(s) /\ ~Glue(p).readable
    BY <1>6, <1>7, <1>8, <1>12
  <2>2. ListingsInv'
    BY <1>1, QuietKeeps, ListingsFrame DEF IInv
  <2>3. query' \in QuerySet /\ connListings' \in Partial(Dirs, ListingSet)
        /\ "column" \in Reasons
    BY <1>1, <1>3 DEF TypeInv, Reasons
  <2>4. \E q \in PartitionIndexes(s) : ~(Glue(q).sameFormat /\ Glue(q).readable)
    BY <2>1
  <2>5. QED
    BY <1>1, <1>2, <1>3, <1>12, <2>2, <2>3, <2>4, ScanFails
<1>13. CASE /\ ~undeclared /\ ~(p # None /\ Glue(p).value = Bad)
            /\ lists' = [lists EXCEPT ![s].rows = Extended(lists[s].rows, [g \in {f} |-> p])]
            /\ UNCHANGED error
  <2>1. Info(s).whole => Info(s).table
    BY <1>3 DEF IInv, InfoInv, Info
  <2>2. case.partitioned => Glue(p).value # Bad /\ (Info(s).whole => Glue(p).readable)
    BY <1>7, <1>8, <1>13, <2>1
  <2>3. error' = None
    BY <1>1, <1>13
  <2>4. PICK one \in [{f} -> {p}] : one = [g \in {f} |-> p]
    OBVIOUS
  <2>5. lists' = [lists EXCEPT ![s].rows = Extended(lists[s].rows, one)]
    BY <1>13, <2>4
  <2>6. QED
    BY <1>1, <1>2, <1>5, <1>6, <1>7, <2>2, <2>3, <2>5, ReadInv
<1>14. QED
  BY <1>10, <1>11, <1>12, <1>13

\* What Gathered says, with these files listed.
GatheredBy(s, p, files) ==
  \A f \in always :
    LET o == Owner(Parts(s), f)
    IN  /\ IsDataFile(f, Glue(p).dir) /\ o # None /\ Glue(o).dir = Glue(p).dir
        => \/ HiddenDir(Glue(p).dir)
           \/ RegisteredAt(Parts(s), Glue(p).dir) = {p} /\ f \in files

LEMMA GatheredNext ==
  ASSUME NEW s, KeepsView(s), always' \subseteq always, NEW files,
         files \subseteq lists'[s].files, NEW p, GatheredBy(s, p, files)
  PROVE  Gathered(s, p)'
<1>1. Parts(s)' = Parts(s)
  BY ViewFrame
<1>2. /\ \A q : (Glue(q))' = Glue(q)
      /\ \A parts, d : (RegisteredAt(parts, d))' = RegisteredAt(parts, d)
      /\ \A parts, f : (Owner(parts, f))' = Owner(parts, f)
  BY GlueFrame DEF KeepsView
<1>3. \A f, d : (IsDataFile(f, d))' <=> IsDataFile(f, d)
  BY DEF IsDataFile, UnderDir
<1>4. \A d : (HiddenDir(d))' <=> HiddenDir(d)
  BY DEF HiddenDir, Below
<1>5. SUFFICES ASSUME NEW f \in always', IsDataFile(f, Glue(p).dir), Owner(Parts(s), f) # None,
                      Glue(Owner(Parts(s), f)).dir = Glue(p).dir
               PROVE  \/ HiddenDir(Glue(p).dir)
                      \/ RegisteredAt(Parts(s), Glue(p).dir) = {p} /\ f \in lists'[s].files
  BY <1>1, <1>2, <1>3, <1>4 DEF Gathered
<1>6. QED
  BY <1>5 DEF GatheredBy

\* A scan between two jobs, at its batch, or at its end.
LEMMA StateMoves ==
  ASSUME IInv, Open, Quiet, NEW s \in Scans, UNCHANGED <<query, connListings, infos>>,
         error = None, error' = None, lists[s].st = "scanning", NEW st \in {"listing", "done"},
         lists' = [lists EXCEPT ![s].st = st],
         st = "done" => lists[s].next = Len(PlanListings(s)) + 1,
         st = "listing" => /\ case.partitioned /\ lists[s].next <= Len(PlanListings(s))
                           /\ ~PlanListings(s)[lists[s].next].root
                           /\ \A p \in Batch(s) : ~PartitionStorageMismatch(lists[s].info, p)
  PROVE  IInv'
<1>1. /\ TypeInv /\ Active(s) /\ ScanInv(s) /\ lists[s] \in ListSet
      /\ lists \in [Scans -> ListSet]
  BY DEF IInv, Active, TypeInv
<1>2. PICK i : i = lists[s].info
  OBVIOUS
<1>3. i \in Scans /\ lists[i].st # "free" /\ lists[i].info = i /\ InfoInv(i) /\ Loaded(s)
  BY <1>1, <1>2 DEF IInv, ScanInv, ShapeInv, Active
<1>4. PICK l : l = [lists[s] EXCEPT !.st = st]
  OBVIOUS
<1>5. /\ l \in ListSet /\ l.st = st /\ l.info = i /\ l.idx = lists[s].idx
      /\ l.asked = lists[s].asked /\ l.left = lists[s].left /\ l.joined = lists[s].joined
      /\ l.next = lists[s].next /\ l.listed = lists[s].listed /\ l.files = lists[s].files
      /\ l.rows = lists[s].rows /\ l.stats = lists[s].stats
  BY <1>1, <1>2, <1>4 DEF ListSet, States
<1>6. lists' = [lists EXCEPT ![s] = l]
  BY <1>1, <1>4
<1>7. /\ lists' \in [Scans -> ListSet] /\ \A t \in Scans \ {s} : lists'[t] = lists[t]
      /\ lists'[s] = l
  BY <1>1, <1>5, <1>6
<1>8. lists'[i].st # "free" /\ lists'[i].info = lists[i].info
  BY <1>2, <1>3, <1>5, <1>7
<1>9. KeepsView(s) /\ KeepsQuery /\ KeepsStore /\ KeepsFiles(i)
  BY <1>2, <1>5, <1>7, QuietKeeps DEF KeepsView, KeepsQuery, KeepsFiles, Quiet
<1>10. /\ ShapeInv(s) /\ PruneInv(s) /\ FilesInv(s) /\ JobsInv(s)
       /\ (case.partitioned /\ Loaded(s) => query.partitions # None)
       /\ lists[s].listed = NoListings
  BY <1>1, <1>2, <1>3 DEF ScanInv, ShapeInv, InfoInv, Loaded, Info
<1>11. ShapeInv(s)' /\ PruneInv(s)'
  BY <1>2, <1>5, <1>7, <1>8, <1>9, <1>10, Advances
<1>12. FilesInv(s)' /\ JobsInv(s)'
  BY <1>2, <1>5, <1>7, <1>9, <1>10, FilesFrame, JobsFrame
<1>13. BatchInv(s)'
  <2>1. CASE st = "done"
    BY <1>5, <1>7, <2>1 DEF BatchInv
  <2>2. CASE st = "listing"
    <3>1. /\ PlanListings(s)' = PlanListings(s)
          /\ \A p : (PartitionStorageMismatch(lists[s].info, p))'
                          <=> PartitionStorageMismatch(lists[s].info, p)
      BY <1>9, ViewFrame
    <3>2. Batch(s)' = Batch(s) /\ case' = case /\ lists'[s].info = lists[s].info
      BY <1>2, <1>5, <1>7, <3>1 DEF Batch, Quiet
    <3>3. DOMAIN lists'[s].listed = {}
      BY <1>5, <1>7, <1>10 DEF NoListings
    <3>4. /\ case'.partitioned /\ lists'[s].next <= Len(PlanListings(s)')
          /\ ~PlanListings(s)'[lists'[s].next].root
          /\ \A p \in Batch(s)' : ~(PartitionStorageMismatch(lists[s].info, p))'
      BY <1>5, <1>7, <2>2, <3>1, <3>2
    <3>5. QED
      BY <3>2, <3>3, <3>4 DEF BatchInv
  <2>3. QED
    BY <2>1, <2>2
<1>14. ScanInv(s)'
  BY <1>11, <1>12, <1>13 DEF ScanInv
<1>15. lists'[s].st # "free" /\ lists'[s].info \in Scans /\ lists'[s].info = lists[s].info
  BY <1>1, <1>2, <1>3, <1>5, <1>7 DEF Active
<1>16. QED
  BY <1>7, <1>14, <1>15, OnlyMoves

\* A job is done: its files are attributed and in the list.
LEMMA Added ==
  ASSUME IInv, Open, Quiet, NEW s \in Scans, error = None, error' = None,
         lists[s].st \in {"scanning", "listing"}, lists[s].next <= Len(PlanListings(s)),
         query' \in QuerySet, query'.partitions = query.partitions, query'.samples = query.samples,
         ListingsInv', connListings' \in Partial(Dirs, ListingSet),
         NEW owners \in Partial(Files, PartitionOrNone), AddFiles(s, owners),
         \A f \in DOMAIN owners :
           /\ f \in ever
           /\ IF case.partitioned
              THEN /\ owners[f] # None /\ owners[f] = Owner(Parts(s), f)
                   /\ owners[f] \in PartitionIndexes(s)
                   /\ ~PartitionStorageMismatch(lists[s].info, owners[f])
                   /\ IsDataFile(f, Glue(owners[f]).dir)
              ELSE owners[f] = None /\ IsDataFile(f, Root),
         IF case.partitioned
         THEN \A p \in PlanListings(s)[lists[s].next].parts :
                GatheredBy(s, p, lists[s].files \cup DOMAIN owners)
         ELSE \A f \in always : IsDataFile(f, Root) => f \in DOMAIN owners
  PROVE  IInv'
<1>1. /\ TypeInv /\ Active(s) /\ ScanInv(s) /\ lists[s] \in ListSet
      /\ lists \in [Scans -> ListSet]
  BY DEF IInv, Active, TypeInv
<1>2. PICK i : i = lists[s].info
  OBVIOUS
<1>3. i \in Scans /\ lists[i].st # "free" /\ lists[i].info = i /\ InfoInv(i) /\ Loaded(s)
  BY <1>1, <1>2 DEF IInv, ScanInv, ShapeInv, Active
<1>4. PICK added : added = DOMAIN owners \ lists[s].files
  OBVIOUS
<1>5. PICK new : new = [f \in added |-> owners[f]]
  OBVIOUS
<1>6. DOMAIN owners \in SUBSET Files /\ owners \in [DOMAIN owners -> PartitionOrNone]
  BY PartialFacts
<1>7. new \in Partial(Files, PartitionOrNone) /\ DOMAIN new = added
      /\ \A f \in added : f \in DOMAIN owners /\ new[f] = owners[f]
  <2>1. new \in [added -> PartitionOrNone] /\ added \in SUBSET Files
    BY <1>4, <1>5, <1>6
  <2>2. QED
    BY <1>4, <1>5, <2>1, PartialType
<1>8. PICK l : l = [lists[s] EXCEPT !.st = "scanning", !.next = lists[s].next + 1,
                                    !.listed = NoListings, !.files = lists[s].files \cup added]
  OBVIOUS
<1>9. /\ lists' = [lists EXCEPT ![s] = l]
      /\ infos' = [infos EXCEPT ![i].fileOf = Extended(infos[i].fileOf, new)]
  BY <1>2, <1>4, <1>5, <1>8 DEF AddFiles
<1>10. /\ l \in ListSet /\ l.st = "scanning" /\ l.info = i /\ l.idx = lists[s].idx
       /\ l.asked = lists[s].asked /\ l.left = lists[s].left /\ l.joined = lists[s].joined
       /\ l.next = lists[s].next + 1 /\ l.listed = NoListings
       /\ l.files = lists[s].files \cup added
       /\ l.rows = lists[s].rows /\ l.stats = lists[s].stats
  <2>1. /\ "scanning" \in States /\ lists[s].next + 1 \in Nat \ {0}
        /\ NoListings \in Partial(Partitions, SUBSET Files)
        /\ lists[s].files \cup added \in SUBSET Files
    BY <1>1, <1>4, <1>6, NothingTyped DEF ListSet, States
  <2>2. QED
    BY <1>1, <1>2, <1>8, <2>1 DEF ListSet
<1>11. /\ lists' \in [Scans -> ListSet] /\ \A t \in Scans \ {s} : lists'[t] = lists[t]
       /\ lists'[s] = l
  BY <1>1, <1>9, <1>10
<1>12. Owned(s, new) /\ Records(i, new)
  BY <1>7, <1>9 DEF Owned, Records
<1>13. /\ infos' \in [Scans -> InfoSet] /\ \A j \in Scans : KeepsInfo(j) /\ InfoInv(j)'
       /\ infos'[i].fileOf = Extended(infos[i].fileOf, new)
  BY <1>1, <1>2, <1>3, <1>7, <1>12, Attributed
<1>14. lists'[i].st # "free" /\ lists'[i].info = lists[i].info
  BY <1>2, <1>3, <1>10, <1>11
<1>15. KeepsView(s) /\ KeepsQuery /\ KeepsStore /\ KeepsFiles(i)
  BY <1>2, <1>3, <1>10, <1>11, <1>13, QuietKeeps DEF KeepsView, KeepsQuery, KeepsInfo, Quiet
<1>16. /\ ShapeInv(s) /\ PruneInv(s) /\ FilesInv(s) /\ JobsInv(s)
       /\ (case.partitioned /\ Loaded(s) => query.partitions # None)
  BY <1>1, <1>2, <1>3 DEF ScanInv, ShapeInv, InfoInv, Loaded, Info
<1>17. ShapeInv(s)' /\ PruneInv(s)'
  BY <1>2, <1>10, <1>11, <1>14, <1>15, <1>16, Advances
<1>18. BatchInv(s)'
  BY <1>10, <1>11 DEF BatchInv
<1>19. FilesInv(s)'
  <2>1. /\ DOMAIN infos'[i].fileOf = DOMAIN infos[i].fileOf \cup added
        /\ \A f \in added : infos'[i].fileOf[f] = owners[f] /\ f \in DOMAIN owners
    BY <1>7, <1>13 DEF Extended
  <2>2. /\ infos'[i].whole = infos[i].whole /\ infos'[i].table = infos[i].table
        /\ \A f \in DOMAIN infos[i].fileOf : infos'[i].fileOf[f] = infos[i].fileOf[f]
    BY <1>3, <1>13 DEF KeepsInfo, KeepsFiles
  <2>3. PartitionIndexes(s)' = PartitionIndexes(s)
    BY <1>15, ViewFrame
  <2>4. /\ case' = case /\ lists'[s].info = i /\ lists'[s].files = lists[s].files \cup added
        /\ lists'[s].rows = lists[s].rows /\ ever' = ever /\ sink' = sink
    BY <1>10, <1>11 DEF Quiet
  <2>5. ASSUME NEW f \in lists[s].files \cup added
        PROVE  /\ f \in DOMAIN infos'[i].fileOf /\ f \in ever
               /\ IF case.partitioned
                  THEN /\ infos'[i].fileOf[f] \in PartitionIndexes(s)
                       /\ ~PartitionStorageMismatch(i, infos'[i].fileOf[f])
                       /\ IsDataFile(f, Glue(infos'[i].fileOf[f]).dir)
                  ELSE IsDataFile(f, Root)
    <3>1. CASE f \in added
      BY <1>2, <2>1, <3>1
    <3>2. CASE f \in lists[s].files
      BY <1>2, <1>16, <2>1, <2>2, <3>2 DEF FilesInv, Info
    <3>3. QED
      BY <3>1, <3>2
  <2>6. \A f \in lists'[s].files :
          /\ f \in DOMAIN infos'[i].fileOf /\ (Open' => f \in ever')
          /\ IF case'.partitioned
             THEN LET q == infos'[i].fileOf[f]
                  IN  /\ q \in PartitionIndexes(s)'
                      /\ ~(infos'[i].table /\ infos'[i].whole /\ ~case'.glue[q].sameFormat)
                      /\ IsDataFile(f, case'.glue[q].dir)
             ELSE IsDataFile(f, Root)
    BY <2>2, <2>3, <2>4, <2>5 DEF PartitionStorageMismatch, Glue
  <2>7. \A f \in DOMAIN lists'[s].rows :
          LET q == lists'[s].rows[f]
          IN  /\ f \in lists'[s].files /\ q = infos'[i].fileOf[f]
              /\ case'.partitioned => case'.glue[q].value # Bad
                                      /\ (infos'[i].whole => case'.glue[q].readable)
    <3>1. \A f \in DOMAIN lists[s].rows :
            LET q == lists[s].rows[f]
            IN  /\ f \in lists[s].files /\ f \in DOMAIN infos[i].fileOf /\ q = infos[i].fileOf[f]
                /\ case.partitioned => Glue(q).value # Bad /\ (infos[i].whole => Glue(q).readable)
      BY <1>2, <1>16 DEF FilesInv, Info
    <3>2. QED
      BY <2>2, <2>4, <3>1 DEF Glue
  <2>8. QED
    BY <2>4, <2>6, <2>7
    DEF FilesInv, Info, PartitionStorageMismatch, Glue, IsDataFile, UnderDir
<1>20. JobsInv(s)'
  <2>1. PlanListings(s)' = PlanListings(s)
    BY <1>15, ViewFrame
  <2>2. PICK jobs : jobs = PlanListings(s)
    OBVIOUS
  <2>3. /\ lists'[s].next = lists[s].next + 1 /\ lists'[s].st = "scanning"
        /\ lists'[s].files = lists[s].files \cup added /\ case' = case /\ always' = always
    BY <1>10, <1>11 DEF Quiet
  <2>4. Len(jobs) \in Nat /\ lists[s].next \in 1 .. Len(jobs)
    <3>1. PlanFor(s, jobs)
      BY <1>1, <1>3, <2>2, PlanFacts
    <3>2. QED
      BY <1>16, <2>2, <3>1 DEF PlanFor, JobsInv
  <2>5. ASSUME NEW j \in 1 .. lists[s].next, case.partitioned, NEW p \in jobs[j].parts
        PROVE  Gathered(s, p)'
    <3>1. CASE j = lists[s].next
      <4>1. GatheredBy(s, p, lists[s].files \cup DOMAIN owners)
        BY <2>2, <2>5, <3>1
      <4>2. lists[s].files \cup DOMAIN owners \subseteq lists'[s].files
        BY <1>4, <2>3
      <4>3. QED
        BY <1>15, <2>3, <4>1, <4>2, GatheredNext
    <3>2. CASE j # lists[s].next
      <4>1. j \in 1 .. lists[s].next - 1
        BY <2>4, <3>2
      <4>2. Gathered(s, p)
        BY <1>16, <2>2, <2>5, <4>1 DEF JobsInv
      <4>3. QED
        BY <1>15, <2>3, <4>2, GatheredFrame
    <3>3. QED
      BY <3>1, <3>2
  <2>6. ASSUME ~case.partitioned, NEW f \in always, IsDataFile(f, Root)
        PROVE  f \in lists'[s].files
    BY <1>4, <2>3, <2>6
  <2>7. 1 .. lists'[s].next - 1 = 1 .. lists[s].next
    BY <2>3, <2>4
  <2>8. \A j \in 1 .. lists'[s].next - 1 :
          IF case'.partitioned THEN \A p \in PlanListings(s)'[j].parts : Gathered(s, p)'
          ELSE \A f \in always' : (IsDataFile(f, Root))' => f \in lists'[s].files
    BY <2>1, <2>2, <2>3, <2>5, <2>6, <2>7 DEF IsDataFile, UnderDir
  <2>9. /\ lists'[s].next \in 1 .. Len(PlanListings(s)') + 1
        /\ lists'[s].st = "done" => lists'[s].next = Len(PlanListings(s)') + 1
    BY <2>1, <2>2, <2>3, <2>4
  <2>10. QED
    BY <2>8, <2>9 DEF JobsInv
<1>21. ScanInv(s)'
  BY <1>17, <1>18, <1>19, <1>20 DEF ScanInv
<1>22. /\ lists'[s].st # "free" /\ lists'[s].info \in Scans /\ lists'[s].info = lists[s].info
       /\ error' \in ErrorSet \cup {None} /\ ErrorInv' /\ Samples' = Samples
  BY <1>1, <1>2, <1>3, <1>10, <1>11 DEF ErrorInv, Samples
<1>23. QED
  BY <1>11, <1>13, <1>21, <1>22, ScanMoves

\* A data file as seen from a directory is one as seen from a directory between.
LEMMA DataFileDown ==
  ASSUME NEW f, NEW d \in Dirs, NEW e \in Above[d], IsDataFile(f, e), UnderDir(f, d)
  PROVE  IsDataFile(f, d)
<1>1. Above[e] \subseteq Above[d]
  BY TreeAssumption
<1>2. QED
  BY <1>1 DEF IsDataFile

\* And one as seen from further above, where nothing between hides it.
LEMMA DataFileUp ==
  ASSUME NEW f \in Files, NEW d \in Dirs, NEW e \in Above[d], IsDataFile(f, d),
         (Above[d] \ Above[e]) \cap (Hidden \cup EmptySegment) = {}
  PROVE  IsDataFile(f, e)
<1>1. Above[d] \subseteq Above[DirOf[f]] /\ e \in Above[DirOf[f]]
  BY TreeAssumption DEF IsDataFile, UnderDir
<1>2. QED
  BY <1>1 DEF IsDataFile, UnderDir

\* A location that is not refused has one partition.
LEMMA SharedOne ==
  ASSUME NEW parts \in SUBSET Partitions, NEW o \in parts, NEW p \in parts, NEW reading,
         Glue(p).dir = Glue(o).dir, p \in reading, ~ThrowsIfLocationShared(parts, o, reading)
  PROVE  RegisteredAt(parts, Glue(p).dir) = {p} /\ o = p
<1>1. PICK sharing : sharing = RegisteredAt(parts, Glue(o).dir)
  OBVIOUS
<1>2. sharing \in SUBSET parts /\ p \in sharing /\ o \in sharing
  BY <1>1 DEF RegisteredAt
<1>3. IsFiniteSet(sharing)
  BY <1>2, TreeAssumption, FS_Subset
<1>4. ~(Cardinality(sharing) > 1)
  BY <1>1, <1>2 DEF ThrowsIfLocationShared
<1>5. ASSUME NEW q \in sharing, q # p PROVE FALSE
  <2>1. IsFiniteSet({p}) /\ Cardinality({p}) = 1 /\ q \notin {p}
    BY <1>5, FS_Singleton
  <2>2. Cardinality({p} \cup {q}) = 2
    <3>1. Cardinality({p} \cup {q}) = Cardinality({p}) + 1
      BY <2>1, FS_AddElement, Zenon
    <3>2. QED
      BY <2>1, <3>1
  <2>3. Cardinality({p} \cup {q}) <= Cardinality(sharing) /\ Cardinality(sharing) \in Nat
    BY <1>2, <1>3, FS_Subset, FS_CardinalityType
  <2>4. QED
    BY <1>4, <2>2, <2>3
<1>6. QED
  BY <1>1, <1>2, <1>5

\* A scan reads partitions it knows.
LEMMA IndexesKnown ==
  ASSUME NEW s, ShapeInv(s)
  PROVE  PartitionIndexes(s) \subseteq Parts(s)
BY DEF ShapeInv, PartitionIndexes, Parts

\* What a step that listed a directory leaves.
Listed(s, d, listing) ==
  query' = QueryWith(s, d, listing) /\ connListings' = ConnectionWith(s, d, listing)

\* A directory listed to its end holds all that stayed in it.
LEMMA ListedFacts ==
  ASSUME IInv, Quiet, NEW s \in Scans, NEW d \in Dirs, NEW l, Listed(s, d, l),
         l = AllPages(GetDirectoryListing(s, d), d)
  PROVE  /\ l \in ListingSet /\ Faithful(l, d) /\ l.done
         /\ query' \in QuerySet /\ query'.partitions = query.partitions
         /\ query'.samples = query.samples
         /\ ListingsInv' /\ connListings' \in Partial(Dirs, ListingSet)
<1>1. TypeInv /\ StoreInv /\ ListingsInv
  BY DEF IInv
<1>2. l \in ListingSet /\ Faithful(l, d) /\ l.done
  BY <1>1, SharedListing
<1>3. /\ query' \in QuerySet /\ query'.partitions = query.partitions
      /\ query'.samples = query.samples
  BY <1>1, <1>2, ListedOne DEF Listed
<1>4. ListingsInv' /\ connListings' \in Partial(Dirs, ListingSet)
  BY <1>2, ListedNext DEF Listed
<1>5. QED
  BY <1>2, <1>3, <1>4

\* The root listing, for the partitions of its job.
LEMMA RootInv ==
  ASSUME IInv, Open, Quiet, NEW s \in Scans, error = None, lists[s].st = "scanning",
         lists[s].next <= Len(PlanListings(s)), NEW reading,
         reading = PlanListings(s)[lists[s].next].parts, PlanListings(s)[lists[s].next].root,
         \A p \in reading : ~PartitionStorageMismatch(lists[s].info, p),
         ListRoot(s, reading)
  PROVE  IInv'
<1>1. /\ TypeInv /\ Active(s) /\ ScanInv(s) /\ Loaded(s)
  BY DEF IInv, Active, ScanInv, ShapeInv
<1>2. PICK parts \in SUBSET Partitions : parts = Parts(s)
  BY <1>1, IndexesType
<1>3. PICK listing : listing = AllPages(GetDirectoryListing(s, Root), Root)
  OBVIOUS
<1>4. PICK files : files = {f \in listing.got : IsDataFile(f, Root)}
  OBVIOUS
<1>5. PICK owned : owned = {f \in files : OwningPartition(parts, f, Below(Root)) # None}
  OBVIOUS
<1>6. PICK shared : shared = \E f \in owned :
         ThrowsIfLocationShared(parts, OwningPartition(parts, f, Below(Root)), reading)
  OBVIOUS
<1>7. PICK read : read = IF case.partitioned
                         THEN {f \in owned : OwningPartition(parts, f, Below(Root)) \in reading}
                         ELSE files
  OBVIOUS
<1>8. PICK owners : owners = [f \in read |-> OwningPartition(parts, f, Below(Root))]
  OBVIOUS
<1>9. /\ Listed(s, Root, listing)
      /\ IF case.partitioned /\ shared THEN Fail(s, "shared") /\ UNCHANGED <<lists, infos>>
         ELSE AddFiles(s, owners) /\ UNCHANGED error
  BY <1>2, <1>3, <1>4, <1>5, <1>6, <1>7, <1>8 DEF ListRoot, Listed
<1>10. /\ listing \in ListingSet /\ Faithful(listing, Root) /\ listing.done
       /\ query' \in QuerySet /\ query'.partitions = query.partitions
       /\ query'.samples = query.samples
       /\ ListingsInv' /\ connListings' \in Partial(Dirs, ListingSet) /\ Root \in Dirs
  BY <1>3, <1>9, ListedFacts, TreeAssumption
<1>11. /\ \A f \in files : f \in Files /\ f \in ever /\ IsDataFile(f, Root)
       /\ \A f \in always : IsDataFile(f, Root) => f \in files
  BY <1>4, <1>10 DEF ListingSet, Faithful, IsDataFile
<1>12. PICK jobs : jobs = PlanListings(s) /\ PlanFor(s, jobs)
  BY <1>1, PlanFacts
<1>13. lists[s].next \in 1 .. Len(jobs)
  BY <1>1, <1>12 DEF ScanInv, JobsInv, PlanFor
<1>14. reading \subseteq PartitionIndexes(s) /\ reading \subseteq Listable(s)
       /\ PartitionIndexes(s) \subseteq parts
  BY <1>1, <1>2, <1>12, <1>13, IndexesKnown DEF PlanFor, ScanInv
<1>15. Downward(Below(Root)) /\ case \in CaseSet
  BY <1>1, <1>10, BelowDownward DEF TypeInv
<1>16. ASSUME NEW f \in owned
       PROVE  /\ OwningPartition(parts, f, Below(Root)) = Owner(parts, f)
              /\ Owner(parts, f) # None /\ Owner(parts, f) \in parts
              /\ Glue(Owner(parts, f)).dir \in Below(Root)
              /\ UnderDir(f, Glue(Owner(parts, f)).dir)
              /\ f \in files
  BY <1>1, <1>5, <1>11, <1>15, OwnerFound
<1>17. CASE case.partitioned /\ shared
  <2>1. PICK f \in owned : ThrowsIfLocationShared(parts, Owner(parts, f), reading)
    BY <1>6, <1>16, <1>17
  <2>2. ThrowsIfLocationShared(parts, Owner(parts, f), PartitionIndexes(s))
    BY <1>14, <2>1 DEF ThrowsIfLocationShared
  <2>3. \E g \in ever : /\ Owner(Parts(s), g) # None
                        /\ ThrowsIfLocationShared(Parts(s), Owner(Parts(s), g), PartitionIndexes(s))
    BY <1>2, <1>11, <1>16, <2>2
  <2>4. /\ Fail(s, "shared") /\ lists' = lists /\ infos' = infos /\ "shared" \in Reasons
    BY <1>9, <1>17 DEF Reasons
  <2>5. QED
    BY <1>1, <1>10, <2>3, <2>4, ScanFails
<1>18. CASE case.partitioned /\ ~shared
  <2>1. AddFiles(s, owners) /\ error' = None
    BY <1>9, <1>18
  <2>2. DOMAIN owners = read /\ \A f \in read : f \in owned /\ owners[f] = Owner(parts, f)
                                                /\ owners[f] \in reading
    BY <1>7, <1>8, <1>16, <1>18
  <2>3. owners \in Partial(Files, PartitionOrNone)
    <3>1. owners \in [read -> PartitionOrNone] /\ read \in SUBSET Files
      BY <1>8, <1>11, <1>16, <2>2 DEF PartitionOrNone
    <3>2. QED
      BY <3>1, PartialType
  <2>4. ASSUME NEW f \in DOMAIN owners
        PROVE  /\ f \in ever /\ owners[f] # None /\ owners[f] = Owner(Parts(s), f)
               /\ owners[f] \in PartitionIndexes(s)
               /\ ~PartitionStorageMismatch(lists[s].info, owners[f])
               /\ IsDataFile(f, Glue(owners[f]).dir)
    <3>1. PICK o : o = owners[f]
      OBVIOUS
    <3>2. /\ f \in ever /\ f \in files /\ o # None /\ o = Owner(parts, f) /\ o \in reading
          /\ Glue(o).dir \in Below(Root) /\ UnderDir(f, Glue(o).dir)
      BY <1>11, <1>16, <2>2, <3>1
    <3>3. Glue(o).dir \in Dirs /\ Root \in Above[Glue(o).dir]
      BY <3>2 DEF Below
    <3>4. IsDataFile(f, Glue(o).dir)
      BY <1>11, <3>2, <3>3, DataFileDown
    <3>5. QED
      BY <1>2, <1>14, <3>1, <3>2, <3>4
  <2>5. ASSUME NEW p \in reading, NEW f \in always, NEW o, o = Owner(parts, f),
               IsDataFile(f, Glue(p).dir), o # None, Glue(o).dir = Glue(p).dir,
               ~HiddenDir(Glue(p).dir)
        PROVE  RegisteredAt(parts, Glue(p).dir) = {p} /\ f \in DOMAIN owners
    <3>1. PICK d \in Below(Root) : d = Glue(p).dir /\ ~InEmptySegment(d)
      BY <1>14 DEF Listable
    <3>2. d \in Dirs /\ Root \in Above[d]
      BY <3>1 DEF Below
    <3>3. (Above[d] \ Above[Root]) \cap (Hidden \cup EmptySegment) = {}
      BY <2>5, <3>1 DEF HiddenDir, InEmptySegment
    <3>4. f \in Files
      BY <1>1 DEF TypeInv
    <3>5. IsDataFile(f, d)
      BY <2>5, <3>1
    <3>6. IsDataFile(f, Root)
      BY <3>2, <3>3, <3>4, <3>5, DataFileUp
    <3>7. OwningPartition(parts, f, Below(Root)) = o
      BY <1>15, <2>5, <3>1, <3>4, OwnerWithin
    <3>8. f \in owned
      BY <1>5, <1>11, <2>5, <3>6, <3>7
    <3>9. ~ThrowsIfLocationShared(parts, o, reading)
      BY <1>6, <1>18, <3>7, <3>8
    <3>10. o \in parts /\ p \in parts
      BY <1>14, <1>16, <2>5, <3>8
    <3>11. RegisteredAt(parts, Glue(p).dir) = {p} /\ o = p
      <4>1. Glue(p).dir = Glue(o).dir /\ p \in reading
        BY <2>5
      <4>2. QED
        BY ONLY <1>2, <3>9, <3>10, <4>1, parts \in SUBSET Partitions, SharedOne
    <3>12. QED
      BY <1>7, <1>18, <2>2, <3>7, <3>8, <3>11
  <2>6. \A p \in reading : GatheredBy(s, p, lists[s].files \cup DOMAIN owners)
    BY <1>2, <2>5 DEF GatheredBy
  <2>7. lists[s].st \in {"scanning", "listing"}
    OBVIOUS
  <2>8. IF case.partitioned
        THEN \A p \in PlanListings(s)[lists[s].next].parts :
               GatheredBy(s, p, lists[s].files \cup DOMAIN owners)
        ELSE \A f \in always : IsDataFile(f, Root) => f \in DOMAIN owners
    BY <1>18, <2>6
  <2>9. \A f \in DOMAIN owners :
           /\ f \in ever
           /\ IF case.partitioned
              THEN /\ owners[f] # None /\ owners[f] = Owner(Parts(s), f)
                   /\ owners[f] \in PartitionIndexes(s)
                   /\ ~PartitionStorageMismatch(lists[s].info, owners[f])
                   /\ IsDataFile(f, Glue(owners[f]).dir)
              ELSE owners[f] = None /\ IsDataFile(f, Root)
    BY <1>18, <2>4
  <2>10. QED
    BY <1>10, <2>1, <2>3, <2>7, <2>8, <2>9, Added
<1>19. CASE ~case.partitioned
  <2>1. AddFiles(s, owners) /\ error' = None
    BY <1>9, <1>19
  <2>2. parts = {}
    BY <1>2, <1>19 DEF Parts
  <2>3. DOMAIN owners = files /\ \A f \in files : owners[f] = None
    BY <1>7, <1>8, <1>19, <2>2, NoOwner
  <2>4. owners \in Partial(Files, PartitionOrNone)
    <3>1. owners \in [files -> PartitionOrNone] /\ files \in SUBSET Files
      BY <1>7, <1>8, <1>11, <1>19, <2>3 DEF PartitionOrNone
    <3>2. QED
      BY <3>1, PartialType
  <2>5. lists[s].st \in {"scanning", "listing"}
    OBVIOUS
  <2>6. IF case.partitioned
        THEN \A p \in PlanListings(s)[lists[s].next].parts :
               GatheredBy(s, p, lists[s].files \cup DOMAIN owners)
        ELSE \A f \in always : IsDataFile(f, Root) => f \in DOMAIN owners
    BY <1>11, <1>19, <2>3
  <2>7. \A f \in DOMAIN owners :
           /\ f \in ever
           /\ IF case.partitioned
              THEN /\ owners[f] # None /\ owners[f] = Owner(Parts(s), f)
                   /\ owners[f] \in PartitionIndexes(s)
                   /\ ~PartitionStorageMismatch(lists[s].info, owners[f])
                   /\ IsDataFile(f, Glue(owners[f]).dir)
              ELSE owners[f] = None /\ IsDataFile(f, Root)
    BY <1>11, <1>19, <2>3
  <2>8. QED
    BY <1>10, <2>1, <2>4, <2>5, <2>6, <2>7, Added
<1>20. QED
  BY <1>17, <1>18, <1>19

LEMMA ExpandInv ==
  ASSUME IInv, NEW s \in Scans, ExpandNextPath(s)
  PROVE  IInv'
<1>1. /\ error = None /\ lists[s].st = "scanning" /\ Loaded(s) /\ Quiet /\ Active(s)
  BY DEF ExpandNextPath, Quiet, Active
<1>2. Open /\ TypeInv /\ ScanInv(s)
  BY <1>1, MovesWhileOpen DEF Finished, IInv
<1>3. PICK jobs : jobs = PlanListings(s) /\ PlanFor(s, jobs)
  BY <1>1, <1>2, PlanFacts
<1>4. PICK job : job = jobs[lists[s].next]
  OBVIOUS
<1>5. lists[s].next \in 1 .. Len(jobs) + 1 /\ Len(jobs) \in Nat
  BY <1>1, <1>2, <1>3 DEF ScanInv, JobsInv, PlanFor
<1>6. CASE lists[s].next > Len(jobs)
  <2>1. /\ lists' = [lists EXCEPT ![s].st = "done"]
        /\ UNCHANGED <<query, connListings, infos>> /\ error' = None
    BY <1>1, <1>3, <1>6 DEF ExpandNextPath
  <2>2. lists[s].next = Len(PlanListings(s)) + 1
    BY <1>3, <1>5, <1>6
  <2>3. PICK st \in {"listing", "done"} : st = "done"
    OBVIOUS
  <2>4. lists' = [lists EXCEPT ![s].st = st]
    BY <2>1, <2>3
  <2>5. QED
    BY <1>1, <1>2, <2>1, <2>2, <2>3, <2>4, StateMoves
<1>7. CASE ~(lists[s].next > Len(jobs)) /\ \E p \in job.parts : PartitionStorageMismatch(lists[s].info, p)
  <2>1. /\ Fail(s, "format") /\ UNCHANGED <<query, connListings, infos, lists>>
    BY <1>1, <1>3, <1>4, <1>7 DEF ExpandNextPath
  <2>2. PICK p \in job.parts : PartitionStorageMismatch(lists[s].info, p)
    BY <1>7
  <2>3. p \in PartitionIndexes(s) /\ ~Glue(p).sameFormat
    BY <1>3, <1>4, <1>5, <1>7, <2>2 DEF PlanFor, PartitionStorageMismatch
  <2>4. ListingsInv'
    BY <1>1, <2>1, QuietKeeps, ListingsFrame DEF IInv
  <2>5. query' \in QuerySet /\ connListings' \in Partial(Dirs, ListingSet)
        /\ "format" \in Reasons
    BY <1>2, <2>1 DEF TypeInv, Reasons
  <2>6. \E q \in PartitionIndexes(s) : ~(Glue(q).sameFormat /\ Glue(q).readable)
    BY <2>3
  <2>7. QED
    BY <1>1, <1>2, <2>1, <2>4, <2>5, <2>6, ScanFails
<1>8. CASE /\ ~(lists[s].next > Len(jobs))
           /\ ~ \E p \in job.parts : PartitionStorageMismatch(lists[s].info, p)
  <2>1. lists[s].next \in 1 .. Len(jobs) /\ lists[s].next <= Len(jobs)
    BY <1>5, <1>8
  <2>2. CASE job.root
    <3>1. ListRoot(s, job.parts)
      BY <1>1, <1>3, <1>4, <1>8, <2>2 DEF ExpandNextPath
    <3>2. QED
      BY <1>1, <1>2, <1>3, <1>4, <1>8, <2>1, <2>2, <3>1, RootInv
  <2>3. CASE ~job.root
    <3>1. /\ lists' = [lists EXCEPT ![s].st = "listing"]
          /\ UNCHANGED <<query, connListings, infos>> /\ error' = None
      BY <1>1, <1>3, <1>4, <1>8, <2>3 DEF ExpandNextPath
    <3>2. case.partitioned
      BY <1>3, <1>4, <2>1, <2>3 DEF PlanFor
    <3>3. /\ lists[s].next <= Len(PlanListings(s)) /\ ~PlanListings(s)[lists[s].next].root
          /\ \A p \in Batch(s) : ~PartitionStorageMismatch(lists[s].info, p)
      BY <1>3, <1>4, <1>8, <2>1, <2>3 DEF Batch
    <3>4. PICK st \in {"listing", "done"} : st = "listing"
      OBVIOUS
    <3>5. lists' = [lists EXCEPT ![s].st = st]
      BY <3>1, <3>4
    <3>6. QED
      BY <1>1, <1>2, <3>1, <3>2, <3>3, <3>4, <3>5, StateMoves
  <2>4. QED
    BY <2>2, <2>3
<1>9. QED
  BY <1>6, <1>7, <1>8

\* One directory of a batch is listed.
LEMMA TaskInv ==
  ASSUME IInv, NEW s \in Scans, NEW p \in Partitions, ListPartitionTask(s, p)
  PROVE  IInv'
<1>1. /\ error = None /\ lists[s].st = "listing" /\ Quiet /\ Active(s)
      /\ p \in Batch(s) /\ infos' = infos /\ error' = error
  BY DEF ListPartitionTask, Quiet, Active
<1>2. /\ Open /\ TypeInv /\ ScanInv(s) /\ lists[s] \in ListSet /\ lists \in [Scans -> ListSet]
  BY <1>1, MovesWhileOpen DEF Finished, IInv, TypeInv
<1>3. PICK i : i = lists[s].info
  OBVIOUS
<1>4. i \in Scans /\ lists[i].st # "free" /\ lists[i].info = i /\ InfoInv(i) /\ Loaded(s)
  BY <1>1, <1>2, <1>3 DEF IInv, ScanInv, ShapeInv, Active
<1>5. PICK d \in Dirs : d = Glue(p).dir
  BY <1>2, GlueType DEF TypeInv
<1>6. PICK listing : listing = AllPages(GetDirectoryListing(s, d), d)
  OBVIOUS
<1>7. PICK files : files = {f \in listing.got : IsDataFile(f, d)}
  OBVIOUS
<1>8. PICK one : one = [r \in {p} |-> files]
  OBVIOUS
<1>9. PICK listed : listed = Extended(lists[s].listed, one)
  OBVIOUS
<1>10. PICK l : l = [lists[s] EXCEPT !.listed = listed]
  OBVIOUS
<1>11. Listed(s, d, listing) /\ lists' = [lists EXCEPT ![s] = l]
  <2>1. /\ query' = QueryWith(s, d, listing) /\ connListings' = ConnectionWith(s, d, listing)
        /\ lists' = [lists EXCEPT ![s].listed = Extended(lists[s].listed, one)]
    BY <1>2, <1>5, <1>6, <1>7, <1>8 DEF ListPartitionTask
  <2>2. QED
    BY <1>2, <1>9, <1>10, <2>1 DEF Listed
<1>12. /\ listing \in ListingSet /\ Faithful(listing, d) /\ listing.done
       /\ query' \in QuerySet /\ query'.partitions = query.partitions
       /\ query'.samples = query.samples
       /\ ListingsInv' /\ connListings' \in Partial(Dirs, ListingSet)
  BY <1>1, <1>6, <1>11, ListedFacts
<1>13. /\ files \in SUBSET Files /\ \A f \in files : IsDataFile(f, d) /\ f \in ever
       /\ \A f \in always : IsDataFile(f, d) => f \in files
  BY <1>2, <1>7, <1>12 DEF ListingSet, Faithful, IsDataFile
<1>14. listed \in Partial(Partitions, SUBSET Files)
  <2>1. one \in [{p} -> SUBSET Files] /\ {p} \in SUBSET Partitions
    BY <1>8, <1>13
  <2>2. one \in Partial(Partitions, SUBSET Files)
    BY <2>1, PartialType
  <2>3. lists[s].listed \in Partial(Partitions, SUBSET Files)
    BY <1>2 DEF ListSet
  <2>4. QED
    BY <1>9, <2>2, <2>3, PartialExtended
<1>15. /\ l \in ListSet /\ l.st = lists[s].st /\ l.info = i /\ l.idx = lists[s].idx
       /\ l.asked = lists[s].asked /\ l.left = lists[s].left /\ l.joined = lists[s].joined
       /\ l.next = lists[s].next /\ l.listed = listed /\ l.files = lists[s].files
       /\ l.rows = lists[s].rows /\ l.stats = lists[s].stats
  BY <1>2, <1>3, <1>10, <1>14 DEF ListSet
<1>16. /\ lists' \in [Scans -> ListSet] /\ \A t \in Scans \ {s} : lists'[t] = lists[t]
       /\ lists'[s] = l
  BY <1>2, <1>11, <1>15
<1>17. lists'[i].st # "free" /\ lists'[i].info = lists[i].info
  BY <1>3, <1>4, <1>15, <1>16
<1>18. KeepsView(s) /\ KeepsQuery /\ KeepsStore /\ KeepsFiles(i)
  BY <1>1, <1>3, <1>12, <1>15, <1>16, QuietKeeps DEF KeepsView, KeepsQuery, KeepsFiles, Quiet
<1>19. /\ ShapeInv(s) /\ PruneInv(s) /\ FilesInv(s) /\ JobsInv(s) /\ BatchInv(s)
       /\ (case.partitioned /\ Loaded(s) => query.partitions # None)
  BY <1>1, <1>2, <1>3, <1>4 DEF ScanInv, ShapeInv, InfoInv, Loaded, Info
<1>20. ShapeInv(s)' /\ PruneInv(s)'
  BY <1>1, <1>3, <1>15, <1>16, <1>17, <1>18, <1>19, Advances
<1>21. FilesInv(s)' /\ JobsInv(s)'
  BY <1>1, <1>3, <1>15, <1>16, <1>18, <1>19, FilesFrame, JobsFrame
<1>22. BatchInv(s)'
  <2>1. /\ PlanListings(s)' = PlanListings(s)
        /\ \A q : (PartitionStorageMismatch(lists[s].info, q))'
                        <=> PartitionStorageMismatch(lists[s].info, q)
    BY <1>18, ViewFrame
  <2>2. \A q : (Glue(q))' = Glue(q)
    BY <1>18, GlueFrame DEF KeepsView
  <2>3. /\ Batch(s)' = Batch(s) /\ case' = case /\ lists'[s].info = lists[s].info
        /\ always' = always /\ ever' = ever /\ lists'[s].listed = listed
    BY <1>1, <1>3, <1>15, <1>16, <2>1 DEF Batch, Quiet
  <2>4. /\ case'.partitioned /\ lists'[s].next <= Len(PlanListings(s)')
        /\ ~PlanListings(s)'[lists'[s].next].root
        /\ \A q \in Batch(s)' : ~(PartitionStorageMismatch(lists[s].info, q))'
    BY <1>1, <1>15, <1>16, <1>19, <2>1, <2>3 DEF BatchInv
  <2>5. /\ DOMAIN listed = DOMAIN lists[s].listed \cup {p} /\ listed[p] = files
        /\ \A q \in DOMAIN lists[s].listed : q # p => listed[q] = lists[s].listed[q]
    BY <1>8, <1>9 DEF Extended
  <2>6. ASSUME NEW q \in DOMAIN lists'[s].listed
        PROVE  /\ q \in Batch(s)
               /\ \A f \in lists'[s].listed[q] : IsDataFile(f, Glue(q).dir) /\ f \in ever
               /\ \A f \in always : IsDataFile(f, Glue(q).dir) => f \in lists'[s].listed[q]
    <3>1. CASE q = p
      BY <1>1, <1>5, <1>13, <2>3, <2>5, <3>1
    <3>2. CASE q # p
      BY <1>1, <1>2, <1>19, <2>3, <2>5, <3>2 DEF BatchInv
    <3>3. QED
      BY <3>1, <3>2
  <2>7. \A q \in DOMAIN lists'[s].listed :
          /\ q \in Batch(s)'
          /\ \A f \in lists'[s].listed[q] : IsDataFile(f, (Glue(q))'.dir) /\ f \in ever'
          /\ \A f \in always' : IsDataFile(f, (Glue(q))'.dir) => f \in lists'[s].listed[q]
    BY <2>2, <2>3, <2>6
  <2>8. QED
    BY <2>3, <2>4, <2>7 DEF BatchInv, IsDataFile, UnderDir
<1>23. ScanInv(s)'
  BY <1>20, <1>21, <1>22 DEF ScanInv
<1>24. /\ lists'[s].st # "free" /\ lists'[s].info \in Scans /\ lists'[s].info = lists[s].info
       /\ error' \in ErrorSet \cup {None} /\ ErrorInv' /\ Samples' = Samples
       /\ infos' \in [Scans -> InfoSet]
  BY <1>1, <1>2, <1>3, <1>4, <1>12, <1>15, <1>16 DEF ErrorInv, Samples, TypeInv
<1>25. \A j \in Scans : KeepsInfo(j) /\ infos'[j] = infos[j]
  BY <1>1 DEF KeepsInfo, KeepsFiles
<1>26. QED
  BY <1>1, <1>2, <1>12, <1>16, <1>23, <1>24, <1>25, ScanMoves

\* From the location of a partition that holds the file, its owner is found.
LEMMA OwnerBelow ==
  ASSUME TypeInv, NEW parts \in SUBSET Partitions, NEW p \in parts, NEW f \in Files,
         UnderDir(f, Glue(p).dir)
  PROVE  /\ OwningPartition(parts, f, AtOrBelow(Glue(p).dir)) = Owner(parts, f)
         /\ Owner(parts, f) # None /\ Owner(parts, f) \in parts
<1>1. PICK d \in Dirs : d = Glue(p).dir
  BY GlueType DEF TypeInv
<1>2. PICK W : W = AtOrBelow(d)
  OBVIOUS
<1>3. Downward(W) /\ d \in W /\ W \in SUBSET Dirs /\ case \in CaseSet
  BY <1>1, <1>2, BelowDownward DEF AtOrBelow, Below, TypeInv
<1>4. OwnedBy(parts, f, W, OwningPartition(parts, f, W))
  BY <1>3, OwnerFacts
<1>5. OwningPartition(parts, f, W) # None
  BY <1>1, <1>3, <1>4 DEF OwnedBy
<1>6. QED
  BY <1>1, <1>2, <1>3, <1>5, OwnerFound

\* The batch is listed: each file goes to the partition it belongs to.
LEMMA BatchListedInv ==
  ASSUME IInv, NEW s \in Scans, ListPartitions(s)
  PROVE  IInv'
<1>1. /\ error = None /\ lists[s].st = "listing" /\ Quiet /\ Active(s)
      /\ DOMAIN lists[s].listed = Batch(s)
      /\ UNCHANGED <<query, connListings>>
  BY DEF ListPartitions, Quiet, Active
<1>2. /\ Open /\ TypeInv /\ ScanInv(s) /\ Loaded(s) /\ BatchInv(s) /\ case.partitioned
      /\ lists[s].next <= Len(PlanListings(s))
  BY <1>1, MovesWhileOpen DEF Finished, IInv, ScanInv, ShapeInv, BatchInv
<1>3. PICK parts \in SUBSET Partitions : parts = Parts(s)
  BY <1>1, <1>2, IndexesType
<1>4. PICK batch : batch = Batch(s)
  OBVIOUS
<1>5. PICK listed : listed = lists[s].listed
  OBVIOUS
<1>6. batch \subseteq PartitionIndexes(s) /\ PartitionIndexes(s) \subseteq parts
  <2>1. PICK jobs : jobs = PlanListings(s) /\ PlanFor(s, jobs)
    BY <1>1, <1>2, PlanFacts
  <2>2. lists[s].next \in 1 .. Len(jobs)
    BY <1>1, <1>2, <2>1 DEF ScanInv, JobsInv, PlanFor
  <2>3. QED
    BY <1>2, <1>3, <1>4, <2>1, <2>2, IndexesKnown DEF Batch, PlanFor, ScanInv
<1>7. ASSUME NEW p \in batch
      PROVE  /\ ~PartitionStorageMismatch(lists[s].info, p)
             /\ \A f \in listed[p] : f \in Files /\ IsDataFile(f, Glue(p).dir) /\ f \in ever
             /\ \A f \in always : IsDataFile(f, Glue(p).dir) => f \in listed[p]
  <2>1. ever \subseteq Files
    BY <1>2 DEF TypeInv
  <2>2. QED
    BY <1>1, <1>2, <1>4, <1>5, <2>1 DEF BatchInv
<1>8. ASSUME NEW p \in batch, NEW f \in listed[p]
      PROVE  /\ OwningPartition(parts, f, AtOrBelow(Glue(p).dir)) = Owner(parts, f)
             /\ Owner(parts, f) # None /\ Owner(parts, f) \in parts
  <2>1. p \in parts /\ f \in Files /\ UnderDir(f, Glue(p).dir)
    BY <1>6, <1>7 DEF IsDataFile
  <2>2. QED
    BY <1>2, <2>1, OwnerBelow
<1>9. PICK shared : shared = \E p \in batch : \E f \in listed[p] :
         ThrowsIfLocationShared(parts, OwningPartition(parts, f, AtOrBelow(Glue(p).dir)), batch)
  OBVIOUS
<1>10. PICK mine : mine =
         UNION {{<<f, p>> : f \in {g \in listed[p] :
                   OwningPartition(parts, g, AtOrBelow(Glue(p).dir)) = p}} : p \in batch}
  OBVIOUS
<1>11. PICK owners : owners = [f \in {m[1] : m \in mine} |-> (CHOOSE m \in mine : m[1] = f)[2]]
  OBVIOUS
<1>12. IF shared THEN Fail(s, "shared") /\ UNCHANGED <<lists, infos>>
       ELSE AddFiles(s, owners) /\ UNCHANGED error
  BY <1>3, <1>4, <1>5, <1>9, <1>10, <1>11 DEF ListPartitions
<1>13. /\ query' \in QuerySet /\ query'.partitions = query.partitions
       /\ query'.samples = query.samples
       /\ ListingsInv' /\ connListings' \in Partial(Dirs, ListingSet)
  BY <1>1, <1>2, QuietKeeps, ListingsFrame DEF IInv, TypeInv
<1>14. CASE shared
  <2>0. PICK p \in batch : \E f \in listed[p] :
           ThrowsIfLocationShared(parts, OwningPartition(parts, f, AtOrBelow(Glue(p).dir)), batch)
    BY <1>9, <1>14
  <2>1. PICK f \in listed[p] : ThrowsIfLocationShared(parts, Owner(parts, f), batch)
    BY <1>8, <2>0
  <2>2. ThrowsIfLocationShared(parts, Owner(parts, f), PartitionIndexes(s))
    BY <1>6, <2>1 DEF ThrowsIfLocationShared
  <2>3. \E g \in ever : /\ Owner(Parts(s), g) # None
                        /\ ThrowsIfLocationShared(Parts(s), Owner(Parts(s), g), PartitionIndexes(s))
    BY <1>3, <1>7, <1>8, <2>2
  <2>4. /\ Fail(s, "shared") /\ lists' = lists /\ infos' = infos /\ "shared" \in Reasons
    BY <1>12, <1>14 DEF Reasons
  <2>5. QED
    BY <1>1, <1>2, <1>13, <2>3, <2>4, ScanFails
<1>15. CASE ~shared
  <2>1. AddFiles(s, owners) /\ error' = None
    BY <1>1, <1>12, <1>15
  <2>2. \A m \in mine : \E p \in batch : \E f \in listed[p] : m = <<f, p>> /\ p = Owner(parts, f)
    BY <1>8, <1>10
  <2>3. \A p \in batch : \A f \in listed[p] : p = Owner(parts, f) => <<f, p>> \in mine
    BY <1>8, <1>10
  <2>4. ASSUME NEW f \in DOMAIN owners
        PROVE  owners[f] \in batch /\ f \in listed[owners[f]] /\ owners[f] = Owner(parts, f)
    <3>1. \E m \in mine : m[1] = f
      BY <1>11
    <3>2. PICK m \in mine : m[1] = f /\ owners[f] = m[2]
      BY <1>11, <3>1
    <3>0. PICK p \in batch : \E g \in listed[p] : m = <<g, p>> /\ p = Owner(parts, g)
      BY <2>2
    <3>3. PICK g \in listed[p] : m = <<g, p>> /\ p = Owner(parts, g)
      BY <3>0
    <3>4. g = f /\ owners[f] = p
      BY <3>2, <3>3
    <3>5. QED
      BY <3>3, <3>4
  <2>5. ASSUME NEW p \in batch, NEW f \in listed[p], p = Owner(parts, f)
        PROVE  f \in DOMAIN owners
    <3>1. PICK m \in mine : m = <<f, p>>
      BY <2>3, <2>5
    <3>2. m[1] = f
      BY <3>1
    <3>3. QED
      BY <1>11, <3>2
  <2>6. owners \in Partial(Files, PartitionOrNone)
    <3>1. \A f \in DOMAIN owners : f \in Files /\ owners[f] \in PartitionOrNone
      BY <1>6, <1>7, <2>4 DEF PartitionOrNone
    <3>2. owners = [f \in DOMAIN owners |-> owners[f]]
      BY <1>11
    <3>3. owners \in [DOMAIN owners -> PartitionOrNone] /\ DOMAIN owners \in SUBSET Files
      BY <3>1, <3>2
    <3>4. QED
      BY <3>3, PartialType
  <2>7. ASSUME NEW f \in DOMAIN owners
        PROVE  /\ f \in ever /\ owners[f] # None /\ owners[f] = Owner(Parts(s), f)
               /\ owners[f] \in PartitionIndexes(s)
               /\ ~PartitionStorageMismatch(lists[s].info, owners[f])
               /\ IsDataFile(f, Glue(owners[f]).dir)
    <3>1. PICK p \in batch : p = owners[f] /\ f \in listed[p] /\ p = Owner(parts, f)
      BY <2>4
    <3>2. /\ f \in ever /\ p # None /\ p \in PartitionIndexes(s)
          /\ ~PartitionStorageMismatch(lists[s].info, p) /\ IsDataFile(f, Glue(p).dir)
      BY <1>6, <1>7, <1>8, <3>1
    <3>3. QED
      BY <1>3, <3>1, <3>2
  <2>8. ASSUME NEW p \in batch, NEW f \in always, NEW o, o = Owner(parts, f),
               IsDataFile(f, Glue(p).dir), o # None, Glue(o).dir = Glue(p).dir
        PROVE  RegisteredAt(parts, Glue(p).dir) = {p} /\ f \in DOMAIN owners
    <3>1. f \in listed[p]
      BY <1>7, <2>8
    <3>2. ~ThrowsIfLocationShared(parts, o, batch) /\ o \in parts /\ p \in parts
      BY <1>6, <1>8, <1>9, <1>15, <2>8, <3>1
    <3>3. Glue(p).dir = Glue(o).dir
      BY <2>8
    <3>4. RegisteredAt(parts, Glue(p).dir) = {p} /\ o = p
      BY ONLY <3>2, <3>3, p \in batch, parts \in SUBSET Partitions, SharedOne
    <3>5. QED
      BY <2>5, <2>8, <3>1, <3>4
  <2>9. \A p \in batch : GatheredBy(s, p, lists[s].files \cup DOMAIN owners)
    BY <1>3, <2>8 DEF GatheredBy
  <2>10. IF case.partitioned
         THEN \A p \in PlanListings(s)[lists[s].next].parts :
                GatheredBy(s, p, lists[s].files \cup DOMAIN owners)
         ELSE \A f \in always : IsDataFile(f, Root) => f \in DOMAIN owners
    BY <1>2, <1>4, <2>9 DEF Batch
  <2>11. \A f \in DOMAIN owners :
           /\ f \in ever
           /\ IF case.partitioned
              THEN /\ owners[f] # None /\ owners[f] = Owner(Parts(s), f)
                   /\ owners[f] \in PartitionIndexes(s)
                   /\ ~PartitionStorageMismatch(lists[s].info, owners[f])
                   /\ IsDataFile(f, Glue(owners[f]).dir)
              ELSE owners[f] = None /\ IsDataFile(f, Root)
    BY <1>2, <2>7
  <2>12. lists[s].st \in {"scanning", "listing"}
    BY <1>1
  <2>13. QED
    BY <1>1, <1>2, <1>13, <2>1, <2>6, <2>10, <2>11, <2>12, Added
<1>16. QED
  BY <1>14, <1>15

-----------------------------------------------------------------------------
(***************************************************************************)
(* The invariant holds.                                                    *)
(***************************************************************************)
LEMMA StutterInv ==
  ASSUME IInv, UNCHANGED vars
  PROVE  IInv'
<1>1. /\ TypeInv /\ StoreInv /\ UNCHANGED <<query, connListings, lists, infos, error, case>>
      /\ UNCHANGED <<stored, registered, sink, always, ever, statements>> /\ KeepsStore
  BY DEF IInv, vars, KeepsStore, Open
<1>2. TypeInv' /\ StoreInv'
  BY <1>1 DEF TypeInv, StoreInv, Open, Active, Finished, Unread
<1>3. ListingsInv'
  BY <1>1, ListingsFrame DEF IInv
<1>4. ErrorInv'
  BY <1>1, ErrorKept
<1>5. QED
  BY <1>1, <1>2, <1>3, <1>4, StoreMoves

\* Every action keeps the invariant.
LEMMA NextInv ==
  ASSUME IInv, [Next]_vars
  PROVE  IInv'
<1>1. ASSUME NEW s \in Scans,
             \/ BindHiveScan(s) \/ LoadPartitions(s) \/ ComplexFilterPushdown(s)
             \/ HiveScanCardinality(s) \/ HivePartitionStatistics(s)
             \/ DynamicFilterPushdown(s) \/ ExpandNextPath(s)
             \/ ListPartitions(s) \/ FinalizeBind(s)
             \/ \E p \in Partitions : ListPartitionTask(s, p)
             \/ \E t \in Scans : CopyList(s, t) \/ RestoreScan(s, t)
      PROVE  IInv'
  <2>1. CASE BindHiveScan(s)
    BY <2>1, BindInv
  <2>2. CASE LoadPartitions(s)
    BY <2>2, LoadInv
  <2>3. CASE ComplexFilterPushdown(s)
    BY <2>3, ComplexInv
  <2>4. CASE HiveScanCardinality(s)
    BY <2>4, CardinalityInv
  <2>5. CASE HivePartitionStatistics(s)
    BY <2>5, StatisticsInv
  <2>6. CASE DynamicFilterPushdown(s)
    BY <2>6, DynamicInv
  <2>7. CASE ExpandNextPath(s)
    BY <2>7, ExpandInv
  <2>8. CASE ListPartitions(s)
    BY <2>8, BatchListedInv
  <2>9. CASE FinalizeBind(s)
    BY <2>9, FinalizeBindInv
  <2>10. CASE \E p \in Partitions : ListPartitionTask(s, p)
    BY <2>10, TaskInv
  <2>11. CASE \E t \in Scans : CopyList(s, t) \/ RestoreScan(s, t)
    BY <2>11, CopyInv, RestoreInv
  <2>12. QED
    BY <1>1, <2>1, <2>2, <2>3, <2>4, <2>5, <2>6, <2>7, <2>8, <2>9, <2>10, <2>11
<1>2. CASE \E f \in Files : WriteFile(f) \/ OtherWrites(f)
  BY <1>2, WriteInv, OtherWritesInv
<1>3. CASE \E p \in Partitions : OtherRegisters(p)
  BY <1>3, OtherRegistersInv
<1>4. CASE FinalizeInsert
  BY <1>4, FinalizeInsertInv
<1>5. CASE QueryEnd
  BY <1>5, QueryEndInv
<1>6. CASE UNCHANGED vars
  BY <1>6, StutterInv
<1>7. QED
  BY <1>1, <1>2, <1>3, <1>4, <1>5, <1>6 DEF Next

\* IInv is an invariant: it holds initially and every step keeps it.
THEOREM Invariance == Spec => []IInv
<1>1. Init => IInv
  BY InitInv
<1>2. IInv /\ [Next]_vars => IInv'
  BY NextInv
<1>3. QED
  BY <1>1, <1>2, PTL DEF Spec

-----------------------------------------------------------------------------
(***************************************************************************)
(* The properties of the runs.                                             *)
(***************************************************************************)
LEMMA PartialRange ==
  ASSUME NEW D, NEW R, NEW f \in Partial(D, R)
  PROVE  PartialFunction(f, D, R)
<1>1. DOMAIN f \in SUBSET D /\ f \in [DOMAIN f -> R]
  BY PartialFacts
<1>2. QED
  BY <1>1 DEF PartialFunction, Range

LEMMA ActiveTyped ==
  ASSUME IInv, NEW s \in Scans, Active(s)
  PROVE  /\ lists[s].st \in {"planning", "scanning", "listing", "done"}
         /\ lists[s].info \in Scans /\ lists[s].next \in Nat \ {0}
         /\ lists[s].left \subseteq lists[s].asked
         /\ lists[s].asked \subseteq Filters /\ lists[s].joined \subseteq JoinFilters
         /\ DOMAIN lists[s].rows \subseteq lists[s].files
         /\ PartialFunction(Info(s).fileOf, Files, Partitions \cup {None})
         /\ lists[s].files \subseteq DOMAIN Info(s).fileOf
<1>1. lists[s] \in ListSet /\ ShapeInv(s) /\ FilesInv(s)
  BY DEF IInv, TypeInv, ScanInv
<1>2. /\ lists[s].st \in {"planning", "scanning", "listing", "done"}
      /\ lists[s].info \in Scans /\ lists[s].next \in Nat \ {0}
      /\ lists[s].left \subseteq lists[s].asked
      /\ lists[s].asked \subseteq Filters /\ lists[s].joined \subseteq JoinFilters
  BY <1>1 DEF ListSet, States, ShapeInv, Active
<1>3. DOMAIN lists[s].rows \subseteq lists[s].files /\ lists[s].files \subseteq DOMAIN Info(s).fileOf
  BY <1>1 DEF FilesInv
<1>4. PartialFunction(Info(s).fileOf, Files, Partitions \cup {None})
  <2>1. Info(s).fileOf \in Partial(Files, PartitionOrNone)
    BY <1>2 DEF IInv, TypeInv, InfoSet, Info
  <2>2. QED
    BY <2>1, PartialRange DEF PartitionOrNone
<1>5. QED
  BY <1>2, <1>3, <1>4

\* Every action keeps the types of the state, and every file a scan is given has a
\* partition in its info, where the lookup of its partition values finds it
\* (HiveMultiFileList, FinalizeBind).
THEOREM TypeCorrectness == Spec => []ScanTypeOK
<1>1. IInv => ScanTypeOK
  <2> SUFFICES ASSUME IInv PROVE ScanTypeOK
    OBVIOUS
  <2>1. TypeInv /\ StoreInv
    BY DEF IInv
  <2>2. /\ PartialFunction(query.listings, Dirs, ListingSet)
        /\ PartialFunction(connListings, Dirs, ListingSet)
    BY <2>1, PartialRange DEF TypeInv, QuerySet
  <2>3. error = None \/ (error.scan \in Scans
                         /\ error.why \in {"cast", "format", "shared", "gone", "column", "filter"})
    BY <2>1 DEF TypeInv, ErrorSet, Reasons
  <2>4. /\ case \in Cases /\ case \in CaseSet
        /\ ever \in SUBSET Files /\ always \subseteq stored \cap ever /\ stored \subseteq ever
        /\ registered \subseteq Partitions
        /\ query.partitions = None \/ query.partitions \subseteq registered
        /\ sink \in {"none", "writing", "written"} /\ statements \in Nat
    BY <2>1 DEF TypeInv, StoreInv
  <2>5. QED
    BY <2>2, <2>3, <2>4, ActiveTyped DEF ScanTypeOK, Active
<1>2. QED
  BY <1>1, Invariance, PTL

\* A scan that was loaded reads partitions of its query.
LEMMA ViewFacts ==
  ASSUME IInv, NEW s \in Scans, Active(s), case.partitioned, Loaded(s)
  PROVE  /\ query.partitions # None /\ query.partitions \in SUBSET Partitions
         /\ Parts(s) \subseteq query.partitions /\ PartitionIndexes(s) \subseteq Parts(s)
         /\ Parts(s) = infos[lists[s].info].parts /\ Parts(s) \in SUBSET Partitions
<1>1. ShapeInv(s) /\ TypeInv /\ lists[s].info \in Scans
  BY DEF IInv, ScanInv, ShapeInv
<1>2. PartitionIndexes(s) \subseteq Parts(s)
  BY <1>1, IndexesKnown
<1>3. infos[lists[s].info].parts # None /\ Parts(s) = infos[lists[s].info].parts
  BY DEF Loaded, Parts, Info
<1>4. InfoInv(lists[s].info)
  BY <1>1 DEF IInv
<1>5. query.partitions # None /\ Parts(s) \subseteq query.partitions
  BY <1>3, <1>4 DEF InfoInv
<1>6. query.partitions \in SUBSET Partitions
  BY <1>1, <1>5 DEF TypeInv, QuerySet
<1>7. QED
  BY <1>2, <1>3, <1>5, <1>6

\* Who the partitions of the query say owns a file.
OwnerOf(f) == OwningPartition(query.partitions, f, Dirs)

\* A scan that is not blurred finds the owner of a file, when it knows a partition there.
LEMMA OwnerKept ==
  ASSUME IInv, NEW s \in Scans, Active(s), case.partitioned, Loaded(s), ~Blurred(s),
         NEW f \in Files
  PROVE  /\ Owner(Parts(s), f) # None =>
              Owner(Parts(s), f) = OwnerOf(f) /\ OwnerOf(f) \in Parts(s)
         /\ \A p \in Parts(s) : OwnerOf(f) # None /\ Glue(p).dir = Glue(OwnerOf(f)).dir
              => Owner(Parts(s), f) = OwnerOf(f)
         /\ \A p \in Parts(s) : RegisteredAt(Parts(s), Glue(p).dir)
                                  = RegisteredAt(query.partitions, Glue(p).dir)
<1>1. PICK parts \in SUBSET Partitions : parts = Parts(s)
  BY ViewFacts
<1>2. PICK all \in SUBSET Partitions : all = query.partitions
  BY ViewFacts
<1>3. parts \subseteq all
  BY <1>1, <1>2, ViewFacts
<1>4. PICK o : o = OwnerOf(f)
  OBVIOUS
<1>5. PICK k : k = Owner(parts, f)
  OBVIOUS
<1>6. case \in CaseSet /\ Dirs \in SUBSET Dirs
  BY DEF IInv, TypeInv
<1>7. OwnedBy(all, f, Dirs, o) /\ OwnedBy(parts, f, Dirs, k)
  BY <1>2, <1>4, <1>5, <1>6, OwnerFacts DEF Owner, OwnerOf
<1>8. \A p \in parts, r \in all : Glue(p).dir \in Above[Glue(r).dir] => r \in parts
  BY <1>1, <1>2 DEF Blurred
<1>9. \A p \in Partitions : Glue(p).dir \in Dirs
  BY <1>6, GlueType
<1>10. ASSUME NEW p \in parts
       PROVE  RegisteredAt(parts, Glue(p).dir) = RegisteredAt(all, Glue(p).dir)
  <2>1. Glue(p).dir \in Above[Glue(p).dir]
    BY <1>9, TreeAssumption
  <2>2. QED
    BY <1>3, <1>8, <2>1 DEF RegisteredAt
<1>11. ASSUME k # None
       PROVE  k = o /\ o \in parts
  <2>1. k \in parts /\ UnderDir(f, Glue(k).dir) /\ Glue(k).dir \in Dirs
    BY <1>7, <1>9, <1>11 DEF OwnedBy
  <2>2. o # None /\ Glue(k).dir \in Above[Glue(o).dir]
    BY <1>3, <1>7, <2>1 DEF OwnedBy
  <2>3. /\ o \in all /\ Glue(o).dir \in Dirs /\ UnderDir(f, Glue(o).dir)
        /\ o = CHOOSE p \in RegisteredAt(all, Glue(o).dir) : TRUE
    BY <1>7, <1>9, <2>2 DEF OwnedBy
  <2>4. o \in parts
    BY <1>8, <2>1, <2>2, <2>3
  <2>5. Glue(o).dir \in Above[Glue(k).dir]
    BY <1>7, <1>11, <2>3, <2>4 DEF OwnedBy
  <2>6. Glue(o).dir = Glue(k).dir
    BY <2>1, <2>2, <2>3, <2>5, AboveEachOther
  <2>7. k = CHOOSE p \in RegisteredAt(parts, Glue(k).dir) : TRUE
    BY <1>7, <1>11 DEF OwnedBy
  <2>8. QED
    BY <1>10, <2>1, <2>3, <2>4, <2>6, <2>7
<1>12. ASSUME NEW p \in parts, o # None, Glue(p).dir = Glue(o).dir
       PROVE  k = o
  <2>1. UnderDir(f, Glue(p).dir) /\ Glue(p).dir \in Dirs
    BY <1>7, <1>9, <1>12 DEF OwnedBy
  <2>2. k # None
    BY <1>7, <2>1 DEF OwnedBy
  <2>3. QED
    BY <1>11, <2>2
<1>13. QED
  BY <1>1, <1>2, <1>4, <1>5, <1>10, <1>11, <1>12

\* A scan that ended has done all its jobs.
LEMMA AllGathered ==
  ASSUME IInv, NEW s \in Scans, Active(s), Open, Finished(s)
  PROVE  /\ Loaded(s) /\ FilesInv(s) /\ ShapeInv(s) /\ PruneInv(s) /\ InfoInv(lists[s].info)
         /\ DOMAIN lists[s].rows = lists[s].files
         /\ case.partitioned => \A p \in PartitionIndexes(s) : Gathered(s, p)
         /\ ~case.partitioned => \A f \in always : IsDataFile(f, Root) => f \in lists[s].files
<1>1. /\ ScanInv(s) /\ lists[s].st = "done" /\ Unread(s) = {}
  BY DEF IInv, Finished
<1>2. /\ Loaded(s) /\ FilesInv(s) /\ ShapeInv(s) /\ PruneInv(s) /\ JobsInv(s) /\ TypeInv
      /\ InfoInv(lists[s].info)
  BY <1>1 DEF ScanInv, ShapeInv, IInv
<1>3. DOMAIN lists[s].rows = lists[s].files
  BY <1>1, <1>2 DEF Unread, FilesInv
<1>4. PICK jobs : jobs = PlanListings(s) /\ PlanFor(s, jobs)
  BY <1>2, PlanFacts
<1>5. Len(jobs) \in Nat /\ lists[s].next = Len(jobs) + 1 /\ lists[s].next - 1 = Len(jobs)
  BY <1>1, <1>2, <1>4 DEF JobsInv, PlanFor
<1>6. \A j \in 1 .. Len(jobs) :
        IF case.partitioned THEN \A p \in jobs[j].parts : Gathered(s, p)
        ELSE \A f \in always : IsDataFile(f, Root) => f \in lists[s].files
  BY <1>2, <1>4, <1>5 DEF JobsInv
<1>7. case.partitioned => \A p \in PartitionIndexes(s) : Gathered(s, p)
  BY <1>4, <1>6 DEF PlanFor
<1>8. ~case.partitioned => \A f \in always : IsDataFile(f, Root) => f \in lists[s].files
  BY <1>4, <1>6 DEF PlanFor
<1>9. QED
  BY <1>2, <1>3, <1>7, <1>8

\* A file of a scan that ended is a data file of the partition its row names: the owner.
LEMMA ReadFacts ==
  ASSUME IInv, NEW s \in Scans, Active(s), Open, Finished(s), ~Blurred(s), case.partitioned,
         NEW f \in lists[s].files
  PROVE  /\ f \in Files /\ f \in ever /\ f \in DOMAIN lists[s].rows
         /\ lists[s].rows[f] = TablePartition(f) /\ TablePartition(f) # None
         /\ TablePartition(f) = OwnerOf(f) /\ TablePartition(f) \in PartitionIndexes(s)
         /\ IsDataFile(f, Glue(TablePartition(f)).dir)
<1>1. /\ Loaded(s) /\ FilesInv(s) /\ InfoInv(lists[s].info) /\ DOMAIN lists[s].rows = lists[s].files
  BY AllGathered
<1>2. f \in Files
  BY DEF IInv, TypeInv, ListSet
<1>3. PICK p : p = Info(s).fileOf[f]
  OBVIOUS
<1>4. /\ p \in PartitionIndexes(s) /\ IsDataFile(f, Glue(p).dir) /\ f \in ever
      /\ f \in DOMAIN Info(s).fileOf /\ lists[s].rows[f] = p
  BY <1>1, <1>3 DEF FilesInv
<1>5. p # None /\ p = Owner(Parts(s), f)
  BY <1>1, <1>3, <1>4, ViewFacts DEF InfoInv, Info
<1>6. p = OwnerOf(f)
  BY <1>1, <1>2, <1>5, OwnerKept
<1>7. TablePartition(f) = OwnerOf(f)
  BY DEF TablePartition, OwnerOf
<1>8. QED
  BY <1>1, <1>2, <1>4, <1>5, <1>6, <1>7

\* A filter the plan lost holds of the rows read.
LEMMA LeftEnough ==
  ASSUME IInv, NEW s \in Scans, Active(s), case.partitioned, Loaded(s),
         NEW p \in PartitionIndexes(s), NEW f,
         Satisfies(lists[s].left \cup lists[s].joined, p, f)
  PROVE  Satisfies(lists[s].asked \cup lists[s].joined, p, f)
<1>1. PruneInv(s)
  BY DEF IInv, ScanInv
<1>2. \A c \in lists[s].asked \ lists[s].left : c \in KeyFilters /\ KeyAnswer[c][Glue(p).value] = "true"
  BY <1>1 DEF PruneInv
<1>3. QED
  BY <1>2 DEF Satisfies

\* A partition pruning left out has no row the query wants.
LEMMA PrunedUnwanted ==
  ASSUME IInv, NEW s \in Scans, Active(s), case.partitioned, Loaded(s),
         NEW p \in query.partitions, NEW f,
         Satisfies(lists[s].asked \cup lists[s].joined, p, f)
  PROVE  p \in PartitionIndexes(s)
<1>1. PruneInv(s)
  BY DEF IInv, ScanInv
<1>2. QED
  BY <1>1 DEF PruneInv, Satisfies

\* What the scan owes of a file: it is read, or below a hidden location.
LEMMA OwedFacts ==
  ASSUME IInv, NEW s \in Scans, Active(s), Open, Finished(s), ~Blurred(s), case.partitioned,
         NEW f \in always, BelongsToTable(f),
         NEW p \in PartitionIndexes(s), Glue(p).dir = Glue(TablePartition(f)).dir
  PROVE  \/ HiddenLocation(f)
         \/ /\ RegisteredAt(query.partitions, Glue(p).dir) = {p}
            /\ f \in lists[s].files
<1>1. Loaded(s) /\ Gathered(s, p)
  BY AllGathered
<1>2. PICK o : o = TablePartition(f)
  OBVIOUS
<1>3. o = OwnerOf(f) /\ o # None /\ IsDataFile(f, Glue(p).dir) /\ Glue(p).dir = Glue(o).dir
  BY <1>2 DEF BelongsToTable, TablePartition, OwnerOf
<1>4. f \in Files /\ p \in Parts(s)
  BY <1>1, ViewFacts DEF IInv, TypeInv
<1>5. /\ Owner(Parts(s), f) = OwnerOf(f)
      /\ RegisteredAt(Parts(s), Glue(p).dir) = RegisteredAt(query.partitions, Glue(p).dir)
  BY <1>1, <1>3, <1>4, OwnerKept
<1>6. HiddenDir(Glue(p).dir) \/ (RegisteredAt(Parts(s), Glue(p).dir) = {p} /\ f \in lists[s].files)
  BY <1>1, <1>3, <1>5 DEF Gathered
<1>7. HiddenDir(Glue(p).dir) => HiddenLocation(f)
  BY <1>2, <1>3 DEF HiddenDir, HiddenLocation
<1>8. QED
  BY <1>5, <1>6, <1>7

\* The answer over a partitioned table.
LEMMA AnswerPartitioned ==
  ASSUME IInv, NEW s \in Scans, Active(s), Open, Finished(s), ~Blurred(s), case.partitioned
  PROVE  /\ \A f \in Result(s) : /\ f \in ever /\ Wanted(s, f)
                                 /\ lists[s].rows[f] = TablePartition(f)
         /\ \A f \in always : Wanted(s, f) => (f \in Result(s) \/ HiddenLocation(f))
<1>1. Loaded(s) /\ DOMAIN lists[s].rows = lists[s].files /\ lists[s].left \subseteq lists[s].asked
  BY AllGathered DEF ShapeInv
<1>2. ASSUME NEW f \in Result(s)
      PROVE  f \in ever /\ Wanted(s, f) /\ lists[s].rows[f] = TablePartition(f)
  <2>1. f \in lists[s].files /\ Satisfies(lists[s].left \cup lists[s].joined, lists[s].rows[f], f)
    BY <1>1 DEF Result
  <2>2. /\ f \in ever /\ lists[s].rows[f] = TablePartition(f) /\ TablePartition(f) # None
        /\ TablePartition(f) \in PartitionIndexes(s) /\ IsDataFile(f, Glue(TablePartition(f)).dir)
    BY <2>1, ReadFacts
  <2>3. Satisfies(lists[s].asked \cup lists[s].joined, TablePartition(f), f)
    BY <1>1, <2>1, <2>2, LeftEnough
  <2>4. QED
    BY <2>2, <2>3 DEF Wanted, BelongsToTable
<1>3. ASSUME NEW f \in always, Wanted(s, f), ~HiddenLocation(f)
      PROVE  f \in Result(s)
  <2>1. BelongsToTable(f) /\ Satisfies(lists[s].asked \cup lists[s].joined, TablePartition(f), f)
    BY <1>3 DEF Wanted
  <2>2. PICK o : o = TablePartition(f)
    OBVIOUS
  <2>3. o # None /\ o \in query.partitions
    <3>1. o # None /\ o = OwningPartition(query.partitions, f, Dirs) /\ f \in Files
      BY <2>1, <2>2 DEF BelongsToTable, TablePartition, IInv, TypeInv
    <3>2. query.partitions \in SUBSET Partitions /\ case \in CaseSet /\ Dirs \in SUBSET Dirs
      BY <1>1, ViewFacts DEF IInv, TypeInv
    <3>3. OwnedBy(query.partitions, f, Dirs, o)
      BY <3>1, <3>2, OwnerFacts
    <3>4. QED
      BY <3>1, <3>3 DEF OwnedBy
  <2>4. o \in PartitionIndexes(s)
    BY <1>1, <2>1, <2>2, <2>3, PrunedUnwanted
  <2>5. f \in lists[s].files
    BY <1>3, <2>1, <2>2, <2>4, OwedFacts
  <2>6. lists[s].rows[f] = o
    BY <2>2, <2>5, ReadFacts
  <2>7. Satisfies(lists[s].left \cup lists[s].joined, o, f)
    BY <1>1, <2>1, <2>2 DEF Satisfies
  <2>8. QED
    BY <1>1, <2>5, <2>6, <2>7 DEF Result
<1>4. QED
  BY <1>2, <1>3

\* The answer over an unpartitioned table: the data files below its root.
LEMMA AnswerUnpartitioned ==
  ASSUME IInv, NEW s \in Scans, Active(s), Open, Finished(s), ~case.partitioned
  PROVE  /\ \A f \in Result(s) : f \in ever /\ Wanted(s, f)
         /\ \A f \in always : Wanted(s, f) => f \in Result(s)
<1>1. /\ FilesInv(s) /\ DOMAIN lists[s].rows = lists[s].files /\ InfoInv(lists[s].info)
      /\ lists[s].left = lists[s].asked /\ lists[s].asked \subseteq DataFilters
      /\ \A f \in always : IsDataFile(f, Root) => f \in lists[s].files
  BY AllGathered DEF ShapeInv
<1>2. \A f \in lists[s].files : f \in ever /\ IsDataFile(f, Root)
  BY <1>1 DEF FilesInv
<1>3. \A c \in lists[s].asked : c \notin KeyFilters
  BY <1>1, FilterAssumption
<1>4. lists[s].joined = {}
  BY AllGathered DEF ShapeInv
<1>5. \A f, p : Satisfies(lists[s].left \cup lists[s].joined, p, f)
          <=> Satisfies(lists[s].asked \cup lists[s].joined, TablePartition(f), f)
  BY <1>1, <1>3, <1>4 DEF Satisfies
<1>6. \A f : BelongsToTable(f) <=> IsDataFile(f, Root)
  BY DEF BelongsToTable
<1>7. QED
  BY <1>1, <1>2, <1>5, <1>6 DEF Result, Wanted

\* A scan that ends reads the rows of the table that satisfy its filters, each file once
\* and with the value of the partition at its deepest location, whichever way it listed
\* them (HiveMultiFileList), whichever filters pruning took out of the plan
\* (ComplexFilterPushdown), and from listings other scans began (HiveListingCache).
THEOREM AnswerHolds == Spec => []Answer
<1>1. IInv => Answer
  BY AnswerPartitioned, AnswerUnpartitioned DEF Answer, Active, Open
<1>2. QED
  BY <1>1, Invariance, PTL

\* A location several partitions are registered at is refused exactly when it holds data
\* files and a partition there is read, by whichever listing comes first
\* (ThrowIfLocationShared).
THEOREM SharedLocationsRefused == Spec => []SharedRefused
<1>1. IInv => SharedRefused
  <2> SUFFICES ASSUME IInv, case.partitioned PROVE SharedRefused
    BY DEF SharedRefused
  <2>1. ASSUME NEW s \in Scans, Active(s), Open, Finished(s), ~Blurred(s),
               NEW f \in always, BelongsToTable(f), ~HiddenLocation(f),
               NEW p \in SharingOf(f) \cap PartitionIndexes(s)
        PROVE  FALSE
    <3>1. /\ p \in RegisteredAt(query.partitions, Glue(TablePartition(f)).dir)
          /\ Cardinality(RegisteredAt(query.partitions, Glue(TablePartition(f)).dir)) > 1
      BY <2>1 DEF SharingOf
    <3>2. Glue(p).dir = Glue(TablePartition(f)).dir
      BY <3>1 DEF RegisteredAt
    <3>3. RegisteredAt(query.partitions, Glue(TablePartition(f)).dir) = {p}
      BY <2>1, <3>2, OwedFacts
    <3>4. Cardinality({p}) = 1
      BY FS_Singleton
    <3>5. QED
      BY <3>1, <3>3, <3>4
  <2>2. ASSUME error # None, error.why = "shared", ~Blurred(error.scan)
        PROVE  \E f \in ever : /\ TablePartition(f) # None
                               /\ SharingOf(f) \cap PartitionIndexes(error.scan) # {}
    <3>1. PICK s \in Scans : s = error.scan
      BY <2>2 DEF IInv, TypeInv, ErrorSet
    <3>2. /\ Active(s) /\ Loaded(s)
          /\ \E f \in ever : LET o == Owner(Parts(s), f)
                             IN  /\ o # None
                                 /\ ThrowsIfLocationShared(Parts(s), o, PartitionIndexes(s))
      BY <2>2, <3>1 DEF IInv, ErrorInv
    <3>3. PICK f \in ever : /\ Owner(Parts(s), f) # None
                            /\ ThrowsIfLocationShared(Parts(s), Owner(Parts(s), f), PartitionIndexes(s))
      BY <3>2
    <3>4. PICK o : o = Owner(Parts(s), f)
      OBVIOUS
    <3>5. f \in Files
      BY DEF IInv, TypeInv
    <3>6. o = TablePartition(f) /\ o \in Parts(s)
      BY <2>2, <3>1, <3>2, <3>3, <3>4, <3>5, OwnerKept DEF TablePartition, OwnerOf
    <3>7. RegisteredAt(Parts(s), Glue(o).dir) = RegisteredAt(query.partitions, Glue(o).dir)
      BY <2>2, <3>1, <3>2, <3>5, <3>6, OwnerKept
    <3>8. SharingOf(f) \cap PartitionIndexes(s) # {}
      BY <3>3, <3>4, <3>6, <3>7 DEF ThrowsIfLocationShared, SharingOf
    <3>9. QED
      BY <3>1, <3>3, <3>4, <3>6, <3>8
  <2>3. QED
    BY <2>1, <2>2 DEF SharedRefused, Active, Open
<1>2. QED
  BY <1>1, Invariance, PTL

\* No file is read, and none measured, with a reader or a type that is not its
\* partition's, but in a copy of a scan; and only a partition the scan reads fails it
\* (VerifyConsistentPartitionSerDe, CheckPartitionColumns).
THEOREM OneFormatHolds == Spec => []OneFormat
<1>1. IInv => OneFormat
  <2> SUFFICES ASSUME IInv, case.partitioned PROVE OneFormat
    BY DEF OneFormat
  <2>1. ASSUME NEW s \in Scans, Active(s), NEW f \in DOMAIN lists[s].rows, Info(s).whole
        PROVE  Glue(lists[s].rows[f]).sameFormat /\ Glue(lists[s].rows[f]).readable
    <3>1. FilesInv(s) /\ lists[s].info \in Scans /\ InfoInv(lists[s].info)
      BY <2>1 DEF IInv, ScanInv, ShapeInv
    <3>2. PICK p : p = lists[s].rows[f]
      OBVIOUS
    <3>3. p = Info(s).fileOf[f] /\ f \in lists[s].files /\ Glue(p).readable
      BY <2>1, <3>1, <3>2 DEF FilesInv
    <3>4. ~PartitionStorageMismatch(lists[s].info, p)
      BY <3>1, <3>3 DEF FilesInv
    <3>5. infos[lists[s].info].whole /\ infos[lists[s].info].table
      BY <2>1, <3>1 DEF Info, InfoInv
    <3>6. QED
      BY <3>2, <3>3, <3>4, <3>5 DEF PartitionStorageMismatch
  <2>2. ASSUME NEW table \in BOOLEAN, NEW sample, sample = query.samples[table],
               sample # None, sample.measured # None, infos[sample.info].whole
        PROVE  Glue(TablePartition(sample.measured)).sameFormat
    <3>1. SampleInv(sample)
      BY <2>2 DEF IInv, Samples
    <3>2. QED
      BY <2>2, <3>1 DEF SampleInv, TablePartition, Owner
  <2>3. ASSUME error # None, error.why \in {"format", "column"}
        PROVE  \E p \in PartitionIndexes(error.scan) : ~(Glue(p).sameFormat /\ Glue(p).readable)
    BY <2>3 DEF IInv, ErrorInv
  <2>4. QED
    BY <2>1, <2>2, <2>3 DEF OneFormat, Active
<1>2. QED
  BY <1>1, Invariance, PTL
-----------------------------------------------------------------------------
(***************************************************************************)
(* The sample and the estimates of a scan (EstimateHolds), for any table,  *)
(* tree of directories, order of keys, pages and number of scans.          *)
(*                                                                         *)
(* EInv, the second invariant, says over IInv that listings are in the     *)
(* order of their keys (OrderedInv), that a sample has the files of        *)
(* the partitions it counts, all of them when no other partition lies      *)
(* inside (TableInv), that an estimate was computed from the sample the    *)
(* query keeps (EstimateInv), and that a partition listed by itself gave   *)
(* all its files, hidden directories or not (OwnInv).                      *)
(***************************************************************************)

-----------------------------------------------------------------------------
(***************************************************************************)
(* The number of a partition, and the jobs of a scan.                      *)
(***************************************************************************)
\* The number Index gives a partition in a scan that knows all of parts.
NumberOf(parts, p) ==
  LET order == SetToSeq(parts)
      place(r) == CHOOSE n \in DOMAIN order : order[n] = r
  IN  Cardinality({r \in parts : place(r) < place(p)})

\* No two partitions have one number.
LEMMA NumberInjective ==
  ASSUME NEW parts \in SUBSET Partitions, NEW p \in parts, NEW r \in parts,
         NumberOf(parts, p) = NumberOf(parts, r)
  PROVE  p = r
<1> DEFINE place(x) == CHOOSE n \in DOMAIN SetToSeq(parts) : SetToSeq(parts)[n] = x
           before(x) == {y \in parts : place(y) < place(x)}
<1>1. PICK q : q = SetToSeq(parts)
  OBVIOUS
<1>2. IsFiniteSet(parts)
  BY TreeAssumption, FS_Subset
<1>3. q \in Seq(parts) /\ \A e \in parts : \E n \in DOMAIN q : q[n] = e
  BY <1>1, <1>2, SetToSeqFacts
<1>4. \A x \in parts : place(x) \in DOMAIN q /\ q[place(x)] = x
  BY <1>1, <1>3
<1>5. \A x \in parts : NumberOf(parts, x) = Cardinality(before(x))
  BY DEF NumberOf
<1>6. DOMAIN q \in SUBSET Nat
  BY <1>3
<1> HIDE DEF place
<1>7. \A x \in parts : place(x) \in Nat
  BY <1>4, <1>6
<1>8. ASSUME NEW x \in parts, NEW y \in parts, place(x) < place(y)
      PROVE  Cardinality(before(x)) # Cardinality(before(y))
  <2>1. before(x) \in SUBSET before(y) /\ x \in before(y) /\ x \notin before(x)
    BY <1>7, <1>8
  <2>2. IsFiniteSet(before(y))
    BY <1>2, FS_Subset
  <2>3. before(x) # before(y)
    BY <2>1
  <2> HIDE DEF before
  <2>4. QED
    BY <2>1, <2>2, <2>3, FS_Subset
<1>9. ~(place(p) < place(r)) /\ ~(place(r) < place(p))
  BY <1>5, <1>8
<1>10. place(p) = place(r)
  BY <1>7, <1>9
<1>11. QED
  BY <1>4, <1>10

LEMMA IndexNumber ==
  ASSUME NEW i, NEW p, infos[i].parts = query.partitions
  PROVE  Index(i, p) = NumberOf(query.partitions, p)
BY DEF Index, NumberOf

\* The partitions of idx a root listing can hold, and whether it is made.
BelowRoot(idx) == {p \in idx : Glue(p).dir \in Below(Root) /\ ~InEmptySegment(Glue(p).dir)}
ByRoot(parts, idx) ==
  LET read == Cardinality(BelowRoot(idx))
      rootPages == RoundsOf(Cardinality({p \in parts : Glue(p).dir \in Below(Root)}), KeysPerPage)
      rounds == RoundsOf(read, case.threads)
  IN  /\ BelowRoot(idx) # {}
      /\ IF case.threshold # NoThreshold THEN read >= case.threshold
         ELSE rootPages < rounds \/ (rootPages = rounds /\ read >= RequestsSaved * rootPages)

\* The root is listed by a job, the first, exactly when ByRoot says so.
LEMMA PlanRoots ==
  ASSUME TypeInv, NEW s \in Scans, Active(s), Loaded(s), case.partitioned,
         NEW jobs, jobs = PlanListings(s)
  PROVE  /\ \A j \in 1 .. Len(jobs) : jobs[j].root => ByRoot(Parts(s), PartitionIndexes(s))
         /\ PartitionIndexes(s) # {} =>
              /\ 1 \in 1 .. Len(jobs)
              /\ jobs[1].root <=> ByRoot(Parts(s), PartitionIndexes(s))
<1> DEFINE P == PartitionIndexes(s)
           below == BelowRoot(P)
           byRoot == ByRoot(Parts(s), P)
           sep == SetToSeq(IF byRoot THEN {} ELSE below) \o SetToSeq(P \ below)
           n == RoundsOf(Len(sep), case.threads)
           roots == IF byRoot THEN <<[root |-> TRUE, parts |-> below]>> ELSE <<>>
           batches == [i \in 1 .. n |-> [root |-> FALSE, parts |-> ToSet(Batched(sep, case.threads, i))]]
<1>1. jobs = roots \o batches
  BY DEF PlanListings, ByRoot, BelowRoot, Batched
<1>2. n \in Nat
  <2>1. P \in SUBSET Partitions /\ below \in SUBSET P
    BY IndexesType DEF BelowRoot
  <2>2. PICK A, B : A = (IF byRoot THEN {} ELSE below) /\ B = P \ below
    OBVIOUS
  <2>3. A \in SUBSET P /\ B \in SUBSET P /\ IsFiniteSet(A) /\ IsFiniteSet(B)
    BY <2>1, <2>2, TreeAssumption, FS_Subset
  <2>4. SetToSeq(A) \in Seq(P) /\ SetToSeq(B) \in Seq(P)
    <3> HIDE DEF P
    <3>1. SetToSeq(A) \in Seq(A) /\ SetToSeq(B) \in Seq(B)
      BY <2>3, SetToSeqFacts
    <3>2. QED
      BY <2>3, <3>1, SeqMonotonic
  <2>5. sep \in Seq(P)
    BY <2>2, <2>4, ConcatProperties
  <2>6. Len(sep) \in Nat
    BY <2>5, LenProperties
  <2>7. case.threads \in Nat \ {0}
    BY DEF TypeInv, CaseSet
  <2> HIDE DEF sep
  <2>8. QED
    BY <2>6, <2>7, RoundsType
<1> HIDE DEF n, sep
<1>3. PICK b \in BOOLEAN : b = byRoot
  BY DEF ByRoot
<1> DEFINE J == [root : BOOLEAN, parts : SUBSET UNION {ToSet(Batched(sep, case.threads, i)) : i \in 1 .. n}
                                          \cup SUBSET below]
<1>4. /\ batches \in Seq(J) /\ Len(batches) = n /\ \A i \in 1 .. n : ~batches[i].root
  BY <1>2
<1>5. /\ roots \in Seq(J)
      /\ b => Len(roots) = 1 /\ roots[1].root
      /\ ~b => Len(roots) = 0
  <2>1. CASE b
    <3>1. [root |-> TRUE, parts |-> below] \in J
      OBVIOUS
    <3>2. roots = <<[root |-> TRUE, parts |-> below]>>
      BY <1>3, <2>1
    <3> HIDE DEF J, roots
    <3>3. roots \in Seq(J)
      BY <3>1, <3>2
    <3>4. Len(roots) = 1 /\ roots[1] = [root |-> TRUE, parts |-> below]
      BY <3>2
    <3>5. QED
      BY <2>1, <3>3, <3>4
  <2>2. CASE ~b
    <3>1. roots = << >>
      BY <1>3, <2>2
    <3> HIDE DEF J, roots
    <3>2. QED
      BY <2>2, <3>1, EmptySeq
  <2>3. QED
    BY <2>1, <2>2
<1> HIDE DEF J, batches, roots
<1>6. /\ Len(jobs) = Len(roots) + n
      /\ \A j \in 1 .. Len(roots) + n :
           jobs[j] = IF j <= Len(roots) THEN roots[j] ELSE batches[j - Len(roots)]
  BY <1>1, <1>4, <1>5, ConcatProperties
<1>7. ASSUME NEW j \in 1 .. Len(jobs), jobs[j].root PROVE b
  <2>1. CASE b
    BY <2>1
  <2>2. CASE ~b
    <3>1. j \in 1 .. n /\ jobs[j] = batches[j]
      BY <1>2, <1>5, <1>6, <2>2
    <3>2. QED
      BY <1>4, <1>7, <3>1
  <2>3. QED
    BY <2>1, <2>2
<1>8. ASSUME P # {} PROVE 1 \in 1 .. Len(jobs)
  <2>1. PlanFor(s, jobs)
    BY PlanFacts
  <2>2. QED
    BY <1>8, <2>1 DEF PlanFor
<1>9. ASSUME b PROVE jobs[1].root
  <2>1. Len(roots) = 1 /\ roots[1].root
    BY <1>5, <1>9
  <2>2. 1 \in 1 .. Len(roots) + n
    BY <1>2, <2>1
  <2>3. jobs[1] = roots[1]
    BY <1>6, <2>1, <2>2
  <2>4. QED
    BY <2>1, <2>3
<1>10. QED
  BY <1>3, <1>7, <1>8, <1>9

\* The more partitions are read, the sooner the root is listed.
LEMMA RoundsGrow ==
  ASSUME NEW t \in Nat \ {0}, NEW m \in Nat, NEW n \in Nat, m <= n
  PROVE  RoundsOf(m, t) <= RoundsOf(n, t)
<1>1. PICK a \in Nat, b \in Nat : a = m + t - 1 /\ b = n + t - 1 /\ a <= b
  OBVIOUS
<1>2. /\ a \div t \in Nat /\ t * (a \div t) <= a
      /\ b \div t \in Nat /\ b < t * (b \div t) + t
  BY Div
<1>3. PICK x \in Nat, y \in Nat : x = a \div t /\ y = b \div t
  BY <1>2
<1>4. t * x < t * y + t
  BY <1>1, <1>2, <1>3
<1>5. t * y + t = t * (y + 1)
  OBVIOUS
<1>6. t * x \in Nat /\ t * y \in Nat /\ t * x < t * (y + 1)
  BY <1>4, <1>5
<1>7. x < y + 1
  BY <1>6, LessByFactor
<1>8. RoundsOf(m, t) = x /\ RoundsOf(n, t) = y
  BY <1>1, <1>3 DEF RoundsOf
<1>9. QED
  BY <1>7, <1>8

LEMMA ByRootGrows ==
  ASSUME case \in CaseSet, NEW parts \in SUBSET Partitions, NEW idx \in SUBSET Partitions,
         NEW p \in idx, ByRoot(parts, {p})
  PROVE  ByRoot(parts, idx)
<1>1. PICK one, all : one = BelowRoot({p}) /\ all = BelowRoot(idx)
  OBVIOUS
<1>2. one \in SUBSET all /\ IsFiniteSet(all)
  BY <1>1, TreeAssumption, FS_Subset DEF BelowRoot
<1>3. /\ Cardinality(one) \in Nat /\ Cardinality(all) \in Nat
      /\ Cardinality(one) <= Cardinality(all)
  BY <1>2, FS_Subset, FS_CardinalityType
<1>4. case.threads \in Nat \ {0} /\ case.threshold \in Nat \cup {NoThreshold}
  BY DEF CaseSet
<1>5. PICK m \in Nat, n \in Nat : m = Cardinality(one) /\ n = Cardinality(all) /\ m <= n
  BY <1>3
<1>6. PICK r \in Nat, k \in Nat : /\ r = RoundsOf(m, case.threads) /\ k = RoundsOf(n, case.threads)
                                  /\ r <= k
  BY <1>4, <1>5, RoundsGrow, RoundsType
<1>7. PICK pages \in Nat : pages = RoundsOf(Cardinality({x \in parts : Glue(x).dir \in Below(Root)}),
                                            KeysPerPage)
  <2>1. PICK below : below = {x \in parts : Glue(x).dir \in Below(Root)}
    OBVIOUS
  <2>2. Cardinality(below) \in Nat
    <3>1. IsFiniteSet(below)
      BY <2>1, TreeAssumption, FS_Subset
    <3>2. QED
      BY <3>1, FS_CardinalityType
  <2>3. QED
    BY <2>1, <2>2, PagesAssumption, RoundsType
<1>8. RequestsSaved * pages \in Nat
  BY PagesAssumption
<1>9. /\ one # {}
      /\ IF case.threshold # NoThreshold THEN m >= case.threshold
         ELSE pages < r \/ (pages = r /\ m >= RequestsSaved * pages)
  BY <1>1, <1>5, <1>6, <1>7 DEF ByRoot
<1>10. /\ all # {}
       /\ IF case.threshold # NoThreshold THEN n >= case.threshold
          ELSE pages < k \/ (pages = k /\ n >= RequestsSaved * pages)
  BY <1>2, <1>4, <1>5, <1>6, <1>8, <1>9
<1>11. QED
  BY <1>1, <1>5, <1>6, <1>7, <1>10 DEF ByRoot

-----------------------------------------------------------------------------
(***************************************************************************)
(* How far a listing is.                                                   *)
(***************************************************************************)
\* Every key a listing has comes before where it is.
UpTo(l) == \A f \in l.got : Rank[f] <= l.at

\* What a listing has or further pages may bring.
MayHold(l, f) == f \in l.got \/ (~l.done /\ Rank[f] > l.at)

LEMMA FetchedUpTo ==
  ASSUME stored \in SUBSET Files, NEW l \in ListingSet, UpTo(l), NEW d \in Dirs, NEW n \in Nat
  PROVE  UpTo(Fetched(l, d, n))
<1>1. CASE l.done
  BY <1>1 DEF Fetched
<1>2. CASE ~l.done
  <2> DEFINE rest == RestOf(l, d)
             first == {f \in rest : Cardinality({g \in rest : Rank[g] < Rank[f]}) < n}
             ats == {l.at} \cup {Rank[f] : f \in first}
             m == [got |-> l.got \cup first, at |-> Max(ats), done |-> first = rest]
  <2>1. Fetched(l, d, n) = m
    BY <1>2 DEF Fetched
  <2>2. first \in SUBSET Files /\ IsFiniteSet(first)
    BY TreeAssumption, FS_Subset DEF RestOf
  <2> HIDE DEF first
  <2>3. l.at \in Nat /\ l.got \in SUBSET Files /\ \A f \in Files : Rank[f] \in Nat
    BY TreeAssumption DEF ListingSet
  <2>4. ats \in SUBSET Nat /\ IsFiniteSet(ats) /\ ats # {}
    <3>1. IsFiniteSet({Rank[f] : f \in first})
      <4>1. PICK r : r = [f \in first |-> Rank[f]]
        OBVIOUS
      <4>2. r \in Surjection(first, {Rank[f] : f \in first})
        BY <4>1 DEF Surjection
      <4>3. QED
        BY <2>2, <4>2, FS_Surjection
    <3>2. IsFiniteSet(ats)
      BY <3>1, FS_Singleton, FS_Union
    <3>3. QED
      BY <2>2, <2>3, <3>2
  <2>5. Max(ats) \in ats /\ \A a \in ats : Max(ats) >= a
    <3> HIDE DEF ats
    <3>1. QED
      BY <2>4, GreatestOf
  <2>6. PICK at \in Nat : at = Max(ats)
    BY <2>4, <2>5
  <2>7. at >= l.at /\ \A f \in first : at >= Rank[f]
    BY <2>5, <2>6
  <2>8. \A f \in l.got \cup first : Rank[f] <= at
    BY <2>2, <2>3, <2>7 DEF UpTo
  <2>9. m.got = l.got \cup first /\ m.at = at
    BY <2>6
  <2> HIDE DEF m
  <2>10. QED
    BY <2>1, <2>8, <2>9 DEF UpTo
<1>3. QED
  BY <1>1, <1>2

\* More pages bring nothing that was not to come.
LEMMA MoreHolds ==
  ASSUME NEW l \in ListingSet, NEW d, NEW m, MoreOf(l, d, m), NEW f \in Files, MayHold(m, f)
  PROVE  MayHold(l, f)
<1>1. /\ l.got \subseteq m.got /\ m.at \in Nat /\ l.at \in Nat /\ l.at <= m.at
      /\ Rank[f] \in Nat /\ l.done \in BOOLEAN
  BY TreeAssumption DEF MoreOf, ListingSet
<1>2. CASE l.done
  BY <1>2 DEF MoreOf
<1>3. CASE ~l.done
  <2>1. f \in m.got => f \in l.got \/ Rank[f] > l.at
    BY DEF MoreOf
  <2>2. QED
    BY <1>1, <1>3, <2>1 DEF MayHold
<1>4. QED
  BY <1>2, <1>3

\* The listings kept, by whether the scan has the table's catalog entry.
ListingsOf(table) == IF case.cacheListings /\ table THEN connListings ELSE query.listings

\* The listings kept are in order.
OrderedInv == \A table \in BOOLEAN : \A d \in DOMAIN ListingsOf(table) : UpTo(ListingsOf(table)[d])

LEMMA ListingsOfScan ==
  ASSUME TypeInv, NEW s \in Scans, Active(s)
  PROVE  /\ Info(s).table \in BOOLEAN
         /\ KeptListings(s) = ListingsOf(Info(s).table)
         /\ CacheListings(s) <=> (case.cacheListings /\ Info(s).table)
BY DEF TypeInv, InfoSet, Active, Info, KeptListings, CacheListings, ListingsOf

\* The listing a scan shares is in order.
LEMMA SharedUpTo ==
  ASSUME TypeInv, StoreInv, OrderedInv, NEW s \in Scans, Active(s), NEW d \in Dirs
  PROVE  UpTo(GetDirectoryListing(s, d))
<1>1. CASE d \in DOMAIN KeptListings(s)
  BY <1>1, ListingsOfScan DEF GetDirectoryListing, OrderedInv
<1>2. CASE d \notin DOMAIN KeptListings(s)
  <2>1. GetDirectoryListing(s, d) = Fetched(Unlisted, d, PageSize)
    BY <1>2 DEF GetDirectoryListing, NextPage
  <2>2. stored \in SUBSET Files /\ Unlisted \in ListingSet /\ UpTo(Unlisted) /\ PageSize \in Nat
    BY UnlistedFacts, PagesAssumption DEF TypeInv, UpTo, Unlisted
  <2>3. QED
    BY <2>1, <2>2, FetchedUpTo
<1>3. QED
  BY <1>1, <1>2

-----------------------------------------------------------------------------
(***************************************************************************)
(* The sample of the root listing holds the files of its partitions.       *)
(***************************************************************************)
AloneIn(parts, p) == \A r \in parts \ {p} : Glue(p).dir \notin Above[Glue(r).dir]

\* A key between those of two files of a partition is below its location; if it is also
\* below another's, so are they.
LEMMA Around ==
  ASSUME case \in CaseSet, NEW parts \in SUBSET Partitions, NEW p \in parts, AloneIn(parts, p),
         NEW x \in Files, NEW y \in Files, NEW z \in Files, Rank[x] < Rank[y], Rank[y] < Rank[z],
         UnderDir(x, Glue(p).dir), UnderDir(z, Glue(p).dir),
         NEW r \in parts, r # p, UnderDir(y, Glue(r).dir)
  PROVE  /\ Glue(p).dir \in Above[DirOf[y]] /\ Glue(r).dir \in Above[Glue(p).dir]
         /\ UnderDir(x, Glue(r).dir) /\ UnderDir(z, Glue(r).dir)
<1>1. PICK d \in Dirs, e \in Dirs : d = Glue(p).dir /\ e = Glue(r).dir
  BY GlueType
<1>2. d \in Above[DirOf[y]]
  BY <1>1, OrderAssumption DEF UnderDir
<1>3. /\ DirOf[x] \in Dirs /\ DirOf[y] \in Dirs /\ DirOf[z] \in Dirs
      /\ d \in Above[DirOf[x]] /\ d \in Above[DirOf[z]] /\ e \in Above[DirOf[y]]
  BY <1>1, TreeAssumption DEF UnderDir
<1>4. d \in Above[e] \/ e \in Above[d]
  BY <1>2, <1>3, TreeAssumption
<1>5. d \notin Above[e]
  BY <1>1 DEF AloneIn
<1>6. e \in Above[d] /\ Above[d] \subseteq Above[DirOf[x]] /\ Above[d] \subseteq Above[DirOf[z]]
  BY <1>3, <1>4, <1>5, TreeAssumption
<1>7. QED
  BY <1>1, <1>2, <1>6 DEF UnderDir

\* And no file between belongs to another partition.
LEMMA Between ==
  ASSUME case \in CaseSet, NEW parts \in SUBSET Partitions, NEW p \in parts, AloneIn(parts, p),
         NEW x \in Files, NEW y \in Files, NEW z \in Files, Rank[x] < Rank[y], Rank[y] < Rank[z],
         Owner(parts, x) = p, Owner(parts, z) = p, Owner(parts, y) # None
  PROVE  Owner(parts, y) = p
<1>1. PICK r : r = Owner(parts, y)
  OBVIOUS
<1>2. /\ OwnedBy(parts, x, Dirs, p) /\ OwnedBy(parts, z, Dirs, p) /\ OwnedBy(parts, y, Dirs, r)
      /\ p # None /\ r # None
  BY <1>1, OwnerFacts, NoneDistinct DEF Owner
<1>3. /\ UnderDir(x, Glue(p).dir) /\ UnderDir(z, Glue(p).dir)
      /\ r \in parts /\ UnderDir(y, Glue(r).dir)
  BY <1>2 DEF OwnedBy
<1>4. ASSUME r # p PROVE FALSE
  <2>1. Glue(p).dir \in Above[DirOf[y]] /\ Glue(p).dir \in Dirs
    BY <1>3, <1>4, Around, GlueType
  <2>2. Glue(p).dir \in Above[Glue(r).dir]
    BY <1>2, <2>1 DEF OwnedBy, UnderDir
  <2>3. QED
    BY <1>3, <1>4, <2>2 DEF AloneIn
<1>5. QED
  BY <1>1, <1>4

\* A location that holds a file lies above the location of the file's owner.
LEMMA OwnerInside ==
  ASSUME case \in CaseSet, NEW parts \in SUBSET Partitions, NEW f \in Files, NEW p \in parts,
         Owner(parts, f) = p, NEW r \in parts, UnderDir(f, Glue(r).dir)
  PROVE  Glue(r).dir \in Above[Glue(p).dir]
<1>1. OwnedBy(parts, f, Dirs, p) /\ p # None /\ Glue(r).dir \in Dirs
  BY OwnerFacts, GlueType, NoneDistinct DEF Owner
<1>2. QED
  BY <1>1 DEF OwnedBy

LEMMA HighestFacts ==
  ASSUME NEW files \in SUBSET Files, files # {}
  PROVE  Highest(files) \in files /\ \A g \in files : Rank[Highest(files)] >= Rank[g]
<1> DEFINE R == {r \in Files \X Files : Rank[r[1]] >= Rank[r[2]]}
<1>1. PICK A : A = files
  OBVIOUS
<1>2. IsFiniteSet(A) /\ A # {}
  BY <1>1, TreeAssumption, FS_Subset
<1>3. \A f, g \in A : <<f, g>> \in R <=> Rank[f] >= Rank[g]
  BY <1>1
<1>4. \A f \in A : Rank[f] \in Nat
  BY <1>1, TreeAssumption
<1> HIDE DEF R
<1>5. /\ \A x, y \in A : <<x, y>> \in R \/ <<y, x>> \in R
      /\ \A x, y, z \in A : <<x, y>> \in R /\ <<y, z>> \in R => <<x, z>> \in R
  BY <1>3, <1>4
<1>6. \E x \in A : \A y \in A : <<x, y>> \in R
  BY ONLY <1>2, <1>5, FirstExists
<1>7. \E f \in files : \A g \in files : Rank[f] >= Rank[g]
  BY <1>1, <1>3, <1>6
<1>8. QED
  BY <1>7 DEF Highest

\* The data files of a root listing, those the scan reads, whether it is past the end of
\* the first partition read, and the files seen.
DataOf(l) == {f \in l.got : IsDataFile(f, Root)}
ReadOf(l, owner, reading) == {f \in DataOf(l) : owner[f] \in reading}
InSampled(f, l, owner, reading) == UnderDir(f, Glue(owner[Lowest(ReadOf(l, owner, reading))]).dir)
Past(l, owner, reading) ==
  ReadOf(l, owner, reading) # {} /\ ~InSampled(Highest(DataOf(l)), l, owner, reading)
SeenOf(start, l, owner, reading) ==
  {f \in DataOf(l) : /\ owner[f] # None
                     /\ \/ f \in start.got
                        \/ ReadOf(l, owner, reading) = {}
                        \/ Rank[f] < Rank[Lowest(ReadOf(l, owner, reading))]
                        \/ InSampled(f, l, owner, reading)}
KeptOf(start, l, owner, reading) ==
  SeenOf(start, l, owner, reading)
    \ PartlySeen(SeenOf(start, l, owner, reading), owner, l.done /\ ~Past(l, owner, reading),
                 ReadOf(l, owner, reading))

\* How a sample of the root came about.
SampledFrom(start, l, owner, reading) ==
  /\ start \in ListingSet /\ l \in ListingSet /\ MoreOf(start, Root, l) /\ UpTo(start) /\ UpTo(l)
  /\ l.done \/ Past(l, owner, reading)
  /\ l = start \/ (~start.done /\ ~Past(start, owner, reading))

\* A partition of which the sample has a file, and that no other lies in, is there to the
\* last file, or to the last that may ever come.
LEMMA KeptWhole ==
  ASSUME case \in CaseSet, NEW parts \in SUBSET Partitions, NEW reading \in SUBSET parts,
         NEW owner, owner = [x \in Files |-> OwningPartition(parts, x, Below(Root))],
         NEW start, NEW l, SampledFrom(start, l, owner, reading),
         NEW p \in parts, AloneIn(parts, p),
         NEW g \in KeptOf(start, l, owner, reading), owner[g] = p,
         NEW f \in Files, Owner(parts, f) = p, IsDataFile(f, Root), MayHold(l, f)
  PROVE  f \in KeptOf(start, l, owner, reading)
<1>1. PICK data, read, seen, tail :
        /\ data = DataOf(l) /\ read = ReadOf(l, owner, reading)
        /\ seen = SeenOf(start, l, owner, reading)
        /\ tail = PartlySeen(seen, owner, l.done /\ ~Past(l, owner, reading), read)
  OBVIOUS
<1>2. KeptOf(start, l, owner, reading) = seen \ tail /\ g \in seen /\ g \notin tail
  BY <1>1 DEF KeptOf
<1>3. /\ start \in ListingSet /\ l \in ListingSet /\ MoreOf(start, Root, l) /\ UpTo(start) /\ UpTo(l)
      /\ l.done \/ Past(l, owner, reading)
      /\ l = start \/ (~start.done /\ ~Past(start, owner, reading))
  BY DEF SampledFrom
<1>4. /\ l.got \in SUBSET Files /\ start.got \in SUBSET l.got /\ l.at \in Nat /\ start.at \in Nat
      /\ \A x \in Files : Rank[x] \in Nat
      /\ \A x, y \in Files : Rank[x] = Rank[y] => x = y
  BY <1>3, TreeAssumption DEF ListingSet, MoreOf, IsInjective
<1>5. /\ data \in SUBSET l.got /\ read \in SUBSET data /\ seen \in SUBSET data
      /\ data \in SUBSET Files /\ read \in SUBSET Files /\ seen \in SUBSET Files
  BY <1>1, <1>4 DEF DataOf, ReadOf, SeenOf
<1>6. ASSUME NEW x \in Files, owner[x] # None
      PROVE  owner[x] = Owner(parts, x) /\ owner[x] \in parts
             /\ Glue(owner[x]).dir \in Below(Root) /\ UnderDir(x, Glue(owner[x]).dir)
  <2>1. PICK W : W = Below(Root) /\ Downward(W) /\ W \in SUBSET Dirs
    BY BelowDownward, TreeAssumption DEF Downward
  <2>2. OwnedBy(parts, x, W, owner[x])
    BY <2>1, OwnerFacts
  <2>3. OwnedBy(parts, x, Dirs, Owner(parts, x))
    BY OwnerFacts DEF Owner
  <2>4. owner[x] = IF Owner(parts, x) # None /\ Glue(Owner(parts, x)).dir \in W
                   THEN Owner(parts, x) ELSE None
    BY <2>1, OwnerWithin
  <2>5. QED
    BY <1>6, <2>1, <2>2, <2>4 DEF OwnedBy
<1>7. p # None /\ None \notin reading
  BY NoneDistinct
<1>8. owner[g] = Owner(parts, g) /\ Owner(parts, g) = p /\ g \in Files
      /\ Glue(p).dir \in Below(Root) /\ UnderDir(g, Glue(p).dir)
  BY <1>2, <1>5, <1>6, <1>7
<1>9. owner[f] = p /\ UnderDir(f, Glue(p).dir)
  <2>1. PICK W : W = Below(Root) /\ Downward(W)
    BY BelowDownward, TreeAssumption
  <2>2. owner[f] = IF Owner(parts, f) # None /\ Glue(Owner(parts, f)).dir \in W
                   THEN Owner(parts, f) ELSE None
    BY <2>1, OwnerWithin
  <2>3. owner[f] = p
    BY <1>7, <1>8, <2>1, <2>2
  <2>4. QED
    BY <1>6, <1>7, <2>3
<1>10. ASSUME NEW y \in Files, owner[y] # None, Rank[g] < Rank[y], Rank[y] < Rank[f]
       PROVE  owner[y] = p
  <2>1. Owner(parts, y) = owner[y] /\ Owner(parts, y) # None
    BY <1>6, <1>10
  <2>2. Owner(parts, y) = p
    <3>1. g \in Files /\ f \in Files /\ y \in Files /\ Owner(parts, g) = p /\ Owner(parts, f) = p
      BY <1>8
    <3>2. QED
      BY ONLY <1>10, <2>1, <3>1, AloneIn(parts, p), p \in parts, parts \in SUBSET Partitions,
              case \in CaseSet, Between
  <2>3. QED
    BY <2>1, <2>2
<1>11. ASSUME NEW r \in parts, UnderDir(g, Glue(r).dir) \/ UnderDir(f, Glue(r).dir)
       PROVE  UnderDir(g, Glue(r).dir) /\ UnderDir(f, Glue(r).dir)
  <2>1. Glue(r).dir \in Above[Glue(p).dir]
    BY <1>8, <1>11, OwnerInside
  <2>2. /\ Glue(p).dir \in Above[DirOf[g]] /\ Glue(p).dir \in Above[DirOf[f]]
        /\ DirOf[g] \in Dirs /\ DirOf[f] \in Dirs
    BY <1>8, <1>9, TreeAssumption DEF UnderDir
  <2>3. QED
    BY <2>1, <2>2, TreeAssumption DEF UnderDir
<1>12. read # {} => /\ Lowest(read) \in read /\ \A x \in read : Rank[Lowest(read)] <= Rank[x]
                    /\ owner[Lowest(read)] \in parts /\ owner[Lowest(read)] # None
                    /\ UnderDir(Lowest(read), Glue(owner[Lowest(read)]).dir)
  <2>1. read # {} => Lowest(read) \in read /\ \A x \in read : Rank[Lowest(read)] <= Rank[x]
    BY <1>5, LowestFacts
  <2>2. read # {} => owner[Lowest(read)] \in reading
    BY <1>1, <2>1 DEF ReadOf
  <2>3. QED
    BY <1>5, <1>6, <1>7, <2>1, <2>2
<1>13. Highest(seen) \in seen /\ \A x \in seen : Rank[Highest(seen)] >= Rank[x]
  BY <1>2, <1>5, HighestFacts
<1>14. Highest(data) \in data /\ \A x \in data : Rank[Highest(data)] >= Rank[x]
  BY <1>2, <1>5, HighestFacts
<1>15. Past(l, owner, reading) <=>
          read # {} /\ ~UnderDir(Highest(data), Glue(owner[Lowest(read)]).dir)
  BY <1>1 DEF Past, InSampled
<1>16. \A x \in seen : owner[x] # None
  BY <1>1 DEF SeenOf
\* What is left out of the files seen is of the partition of the last one.
<1>17. ASSUME NEW before, before = {x \in seen : owner[x] # owner[Highest(seen)]},
              ~(l.done /\ ~Past(l, owner, reading)),
              owner[Highest(seen)] # owner[Lowest(read)]
       PROVE  tail = {x \in seen : before = {} \/ Rank[x] > Rank[Highest(before)]}
  BY <1>1, <1>2, <1>17 DEF PartlySeen
<1>18. ASSUME tail # {}
       PROVE  ~(l.done /\ ~Past(l, owner, reading)) /\ owner[Highest(seen)] # owner[Lowest(read)]
  BY <1>1, <1>18 DEF PartlySeen
\* The last file seen is not of p, but when it is in the sampled partition.
<1>19. ASSUME ~(l.done /\ ~Past(l, owner, reading)), owner[Highest(seen)] # owner[Lowest(read)],
              owner[Highest(seen)] = p
       PROVE  \E y \in seen : owner[y] # p /\ Rank[g] < Rank[y]
                              /\ \A x \in tail : Rank[y] < Rank[x]
  <2>1. PICK before : before = {x \in seen : owner[x] # owner[Highest(seen)]}
    OBVIOUS
  <2>2. tail = {x \in seen : before = {} \/ Rank[x] > Rank[Highest(before)]}
    BY <1>17, <1>19, <2>1
  <2>3. before # {} /\ ~(Rank[g] > Rank[Highest(before)])
    BY <1>2, <2>2
  <2>4. Highest(before) \in before
    BY <1>5, <2>1, <2>3, HighestFacts
  <2>5. PICK y \in seen : y = Highest(before) /\ owner[y] # p
    BY <1>19, <2>1, <2>4
  <2>6. y \in Files /\ y # g /\ Rank[y] # Rank[g]
    BY <1>4, <1>5, <1>8, <2>5
  <2>7. Rank[g] < Rank[y]
    BY <1>4, <1>8, <2>3, <2>5, <2>6
  <2>8. \A x \in tail : Rank[y] < Rank[x]
    BY <1>4, <1>5, <2>2, <2>3, <2>5, <2>6
  <2>9. QED
    BY <2>5, <2>7, <2>8
\* A: f may still come.
<1>20. ASSUME f \notin l.got PROVE FALSE
  <2>1. ~l.done /\ Rank[f] > l.at /\ Past(l, owner, reading)
    BY <1>3, <1>20 DEF MayHold
  <2>2. \A x \in l.got : x \in Files /\ Rank[x] < Rank[f]
    BY <1>3, <1>4, <2>1 DEF UpTo
  <2>3. PICK h \in seen : h = Highest(seen)
    BY <1>13
  <2>4. h \in Files /\ h \in l.got /\ owner[h] # None /\ Rank[h] < Rank[f] /\ Rank[h] >= Rank[g]
    BY <1>2, <1>5, <1>13, <1>16, <2>2, <2>3
  <2>5. owner[h] = p
    <3>1. CASE h = g
      BY <1>8, <3>1
    <3>2. CASE h # g
      <4>1. Rank[g] < Rank[h]
        BY <1>4, <1>8, <2>4, <3>2
      <4>2. QED
        BY <1>10, <2>4, <4>1
    <3>3. QED
      BY <3>1, <3>2
  <2>6. CASE p = owner[Lowest(read)]
    <3>1. read # {} /\ ~UnderDir(Highest(data), Glue(p).dir)
      BY <1>15, <2>1, <2>6
    <3>2. PICK y \in data, x \in read : y = Highest(data) /\ x = Lowest(read)
      BY <1>12, <1>14, <3>1
    <3>3. x \in Files /\ y \in Files /\ UnderDir(x, Glue(p).dir) /\ x # y
      BY <1>5, <1>12, <2>6, <3>1, <3>2
    <3>4. x \in data
      BY <1>5
    <3>5. Rank[y] >= Rank[x]
      BY <1>14, <3>2, <3>4
    <3>6. Rank[x] < Rank[y] /\ Rank[y] < Rank[f]
      BY <1>4, <1>5, <2>2, <3>3, <3>5
    <3>7. PICK d \in Dirs : d = Glue(p).dir
      BY GlueType
    <3>8. UnderDir(y, Glue(p).dir)
      BY <1>9, <3>3, <3>6, <3>7, OrderAssumption DEF UnderDir
    <3>9. QED
      BY <3>1, <3>2, <3>8
  <2>7. CASE p # owner[Lowest(read)]
    <3>1. PICK y \in seen : owner[y] # p /\ Rank[g] < Rank[y]
      BY <1>19, <2>1, <2>3, <2>5, <2>7
    <3>2. y \in Files /\ owner[y] # None /\ Rank[y] < Rank[f]
      BY <1>5, <1>16, <2>2
    <3>3. QED
      BY <1>10, <3>1, <3>2
  <2>8. QED
    BY <2>6, <2>7
\* B: f was fetched, but is past the first partition read.
<1>21. ASSUME f \in l.got, f \notin seen PROVE FALSE
  <2>1. f \in data /\ f \notin start.got /\ read # {}
        /\ ~(Rank[f] < Rank[Lowest(read)]) /\ ~UnderDir(f, Glue(owner[Lowest(read)]).dir)
    BY <1>1, <1>7, <1>9, <1>21 DEF SeenOf, DataOf, InSampled
  <2>2. PICK x \in read : x = Lowest(read) /\ \A y \in read : Rank[x] <= Rank[y]
    BY <1>12, <2>1
  <2>3. PICK r \in parts : r = owner[x] /\ r # None /\ UnderDir(x, Glue(r).dir)
    BY <1>12, <2>1, <2>2
  <2>4. /\ x \in Files /\ x \in data /\ ~UnderDir(f, Glue(r).dir) /\ ~UnderDir(g, Glue(r).dir)
        /\ r # p /\ x # f /\ Rank[x] < Rank[f]
    <3>1. x \in Files /\ x \in data /\ ~UnderDir(f, Glue(r).dir) /\ ~(Rank[f] < Rank[x])
      BY <1>5, <2>1, <2>2, <2>3
    <3>2. ~UnderDir(g, Glue(r).dir) /\ r # p /\ x # f
      BY <1>9, <1>11, <2>3, <3>1
    <3>3. Rank[x] # Rank[f]
      BY <1>4, <3>1, <3>2
    <3>4. QED
      BY <1>4, <3>1, <3>2, <3>3
  <2>5. ~(Rank[g] < Rank[x])
    BY <1>10, <2>3, <2>4
  <2>6. g \in start.got
    BY <1>1, <1>2, <2>1, <2>2, <2>3, <2>4, <2>5 DEF SeenOf, InSampled
  <2>7. l # start /\ ~start.done /\ ~Past(start, owner, reading)
    BY <1>3, <1>21, <2>1
  <2>8. \A y \in start.got : y \in Files /\ Rank[y] <= start.at
    BY <1>3, <1>4 DEF UpTo
  <2>9. \A y \in l.got : y \in start.got \/ Rank[y] > start.at
    BY <1>3 DEF MoreOf
  <2>10. x \in start.got
    <3>1. ASSUME x \notin start.got PROVE FALSE
      <4>1. Rank[x] > start.at /\ Rank[g] <= start.at
        BY <1>5, <2>4, <2>6, <2>8, <2>9, <3>1
      <4>2. Rank[g] < Rank[x]
        BY <1>4, <1>8, <2>4, <4>1
      <4>3. QED
        BY <2>5, <4>2
    <3>2. QED
      BY <3>1
  <2>11. PICK data0, read0 : data0 = DataOf(start) /\ read0 = ReadOf(start, owner, reading)
    OBVIOUS
  <2>12. /\ data0 \in SUBSET data /\ read0 \in SUBSET read /\ data0 \in SUBSET Files
         /\ read0 \in SUBSET data0 /\ data0 \in SUBSET start.got /\ x \in read0 /\ g \in data0
    BY <1>1, <1>2, <1>4, <1>5, <2>4, <2>6, <2>10, <2>11 DEF DataOf, ReadOf
  <2>13. Lowest(read0) = x
    <3>1. read0 \in SUBSET Files /\ read0 # {}
      BY <2>12
    <3>2. PICK y \in read0 : y = Lowest(read0) /\ \A z \in read0 : Rank[y] <= Rank[z]
      BY <3>1, LowestFacts
    <3>3. Rank[y] <= Rank[x] /\ Rank[x] <= Rank[y] /\ y \in Files
      BY <2>2, <2>12, <3>1, <3>2
    <3>4. Rank[x] = Rank[y]
      BY <1>4, <2>4, <3>3
    <3>5. QED
      BY <1>4, <2>4, <3>2, <3>3, <3>4
  <2>14. PICK h \in data0 : h = Highest(data0) /\ \A z \in data0 : Rank[h] >= Rank[z]
    BY <2>12, HighestFacts
  <2>15. UnderDir(h, Glue(r).dir)
    BY <2>3, <2>7, <2>11, <2>12, <2>13, <2>14 DEF Past, InSampled
  <2>16. h # g /\ h \in Files /\ Rank[h] >= Rank[g]
    BY <2>4, <2>12, <2>14, <2>15
  <2>17. Rank[g] < Rank[h]
    BY <1>4, <1>8, <2>16
  <2>18. Rank[h] < Rank[f]
    <3>1. Rank[h] <= start.at /\ Rank[f] > start.at
      BY <1>21, <2>1, <2>8, <2>9, <2>12, <2>14
    <3>2. QED
      BY <1>4, <2>16, <3>1
  <2>19. UnderDir(f, Glue(r).dir)
    BY <1>8, <1>9, <2>4, <2>15, <2>16, <2>17, <2>18, Around
  <2>20. QED
    BY <2>4, <2>19
\* C: f was seen, but may not be the last of its partition.
<1>22. ASSUME f \in seen, f \in tail PROVE FALSE
  <2>1. ~(l.done /\ ~Past(l, owner, reading)) /\ owner[Highest(seen)] # owner[Lowest(read)]
    BY <1>18, <1>22
  <2>2. CASE owner[Highest(seen)] = p
    <3>1. PICK y \in seen : owner[y] # p /\ Rank[g] < Rank[y] /\ \A x \in tail : Rank[y] < Rank[x]
      BY <1>19, <2>1, <2>2
    <3>2. Rank[y] < Rank[f] /\ y \in Files /\ owner[y] # None
      BY <1>5, <1>16, <1>22, <3>1
    <3>3. QED
      BY <1>10, <3>1, <3>2
  <2>3. CASE owner[Highest(seen)] # p
    <3>1. PICK before : before = {x \in seen : owner[x] # owner[Highest(seen)]}
      OBVIOUS
    <3>2. tail = {x \in seen : before = {} \/ Rank[x] > Rank[Highest(before)]}
      BY <1>17, <2>1, <3>1
    <3>3. f \in before
      BY <1>9, <1>22, <2>3, <3>1
    <3>4. before \in SUBSET Files
      BY <1>5, <3>1
    <3>5. Rank[Highest(before)] >= Rank[f] /\ Highest(before) \in Files
      BY <3>3, <3>4, HighestFacts
    <3>6. Rank[f] > Rank[Highest(before)]
      BY <1>22, <3>2, <3>3
    <3>7. QED
      BY <1>4, <3>5, <3>6
  <2>4. QED
    BY <2>2, <2>3
<1>23. QED
  BY <1>2, <1>20, <1>21, <1>22

\* The sample of the root is made of the listing kept and the pages it still took.
LEMMA RootSampledFrom ==
  ASSUME TypeInv, StoreInv, ListingsInv, OrderedInv, NEW s \in Scans, Active(s),
         NEW reading, NEW start, start = GetDirectoryListing(s, Root),
         NEW owner, owner = [f \in Files |-> OwningPartition(Parts(s), f, Below(Root))]
  PROVE  \E l : /\ SampledFrom(start, l, owner, reading)
                /\ SampleRootPartitions(s, reading) =
                     [dir |-> Root, listing |-> l, root |-> TRUE,
                      owners |-> [f \in KeptOf(start, l, owner, reading) |-> owner[f]]]
<1>1. Root \in Dirs /\ Cardinality(Files) \in Nat /\ PageSize \in Nat \ {0}
  BY TreeAssumption, FS_CardinalityType, PagesAssumption
<1>2. stored \in SUBSET Files /\ start \in ListingSet /\ UpTo(start)
  BY <1>1, SharedListing, SharedUpTo DEF TypeInv
<1>3. PICK pages : pages = Pages(start, Root)
  OBVIOUS
<1>4. DOMAIN pages = 0 .. Cardinality(Files) + 1 /\ pages[0] = start
  BY <1>1, <1>3 DEF Pages
<1>5. ASSUME NEW k \in DOMAIN pages
      PROVE  pages[k] \in ListingSet /\ MoreOf(start, Root, pages[k]) /\ UpTo(pages[k])
  <2>1. CASE k = 0
    BY <1>2, <1>4, <2>1 DEF MoreOf, ListingSet
  <2>2. CASE k # 0
    <3>1. pages[k] = Fetched(start, Root, k * PageSize) /\ k * PageSize \in Nat
      BY <1>1, <1>3, <1>4, <2>2 DEF Pages
    <3>2. MoreOf(start, Root, pages[k]) /\ UpTo(pages[k])
      BY <1>1, <1>2, <3>1, FetchedFacts, FetchedUpTo
    <3>3. QED
      BY <3>2 DEF MoreOf
  <2>3. QED
    BY <2>1, <2>2
<1>6. PICK last \in DOMAIN pages : pages[last].done
  <2>1. PICK k \in DOMAIN pages : k = Cardinality(Files) + 1
    BY <1>1, <1>4
  <2>2. pages[k] = Fetched(start, Root, k * PageSize)
    BY <1>1, <1>3, <1>4, <2>1 DEF Pages
  <2>3. k \in Nat /\ k >= 1 /\ PageSize >= 1 /\ k >= Cardinality(Files)
    BY <1>1, <2>1
  <2>4. k * PageSize \in Nat /\ k * PageSize >= k
    BY <1>1, <2>3
  <2>5. Fetched(start, Root, k * PageSize).done
    BY <1>1, <1>2, <2>3, <2>4, FetchedFacts
  <2>6. QED
    BY <2>2, <2>5
<1>7. PICK stops : stops = {k \in DOMAIN pages : pages[k].done \/ Past(pages[k], owner, reading)}
  OBVIOUS
<1>8. PICK l : l = pages[Min(stops)]
  OBVIOUS
<1>9. SampleRootPartitions(s, reading) =
        [dir |-> Root, listing |-> l, root |-> TRUE,
         owners |-> [f \in KeptOf(start, l, owner, reading) |-> owner[f]]]
  BY <1>3, <1>7, <1>8
     DEF SampleRootPartitions, KeptOf, SeenOf, Past, InSampled, ReadOf, DataOf
<1>10. stops \in SUBSET Nat /\ stops # {}
  BY <1>1, <1>4, <1>6, <1>7
<1>11. Min(stops) \in stops /\ \A k \in stops : Min(stops) <= k
  BY <1>10, LeastOf
<1>12. l = start \/ (~start.done /\ ~Past(start, owner, reading))
  <2>1. CASE 0 \in stops
    <3>1. PICK k \in Nat : k = Min(stops) /\ k <= 0
      BY <1>10, <1>11, <2>1
    <3>2. Min(stops) = 0
      BY <3>1
    <3>3. QED
      BY <1>4, <1>8, <3>2
  <2>2. CASE 0 \notin stops
    <3>1. 0 \in DOMAIN pages
      BY <1>1, <1>4
    <3>2. QED
      BY <1>4, <1>7, <2>2, <3>1
  <2>3. QED
    BY <2>1, <2>2
<1>13. SampledFrom(start, l, owner, reading)
  BY <1>2, <1>5, <1>7, <1>8, <1>11, <1>12 DEF SampledFrom
<1>14. QED
  BY <1>9, <1>13

\* What a sample of directory m.dir holds of the partitions it has files of.
SampleWhole(s, m) ==
  /\ m.dir \in Dirs /\ UpTo(m.listing) /\ m.root \in BOOLEAN
  /\ MoreOf(GetDirectoryListing(s, m.dir), m.dir, m.listing)
  /\ m.root => m.dir = Root
  /\ \A f \in DOMAIN m.owners :
       /\ m.owners[f] \in Parts(s) /\ m.owners[f] = Owner(Parts(s), f)
       /\ IsDataFile(f, Glue(m.owners[f]).dir) /\ (m.root => IsDataFile(f, Root))
       /\ Open => f \in ever
  /\ \A g \in DOMAIN m.owners : \A f \in Files :
       Owner(Parts(s), f) = m.owners[g] /\ AloneIn(Parts(s), m.owners[g]) =>
         /\ m.root /\ IsDataFile(f, Root) /\ MayHold(m.listing, f) => f \in DOMAIN m.owners
         /\ Open /\ f \in always /\ IsDataFile(f, Glue(m.owners[g]).dir) => f \in DOMAIN m.owners
  /\ ~m.root => \A f, g \in DOMAIN m.owners :
       m.owners[f] = m.owners[g] /\ ~ByRoot(Parts(s), {m.owners[f]})

LEMMA RootWhole ==
  ASSUME TypeInv, StoreInv, ListingsInv, OrderedInv, NEW s \in Scans, Active(s), Loaded(s),
         case.partitioned, NEW reading \in SUBSET Parts(s),
         NEW m, m = SampleRootPartitions(s, reading)
  PROVE  SampleWhole(s, m)
<1>1. PICK parts \in SUBSET Partitions : parts = Parts(s)
  BY IndexesType
<1>2. PICK start, owner : /\ start = GetDirectoryListing(s, Root)
                          /\ owner = [f \in Files |-> OwningPartition(parts, f, Below(Root))]
  OBVIOUS
<1>3. PICK l : /\ SampledFrom(start, l, owner, reading)
               /\ m = [dir |-> Root, listing |-> l, root |-> TRUE,
                       owners |-> [f \in KeptOf(start, l, owner, reading) |-> owner[f]]]
  BY <1>1, <1>2, RootSampledFrom
<1>4. PICK kept : kept = KeptOf(start, l, owner, reading)
  OBVIOUS
<1>5. /\ m.dir = Root /\ m.listing = l /\ m.root = TRUE /\ DOMAIN m.owners = kept
      /\ \A f \in kept : m.owners[f] = owner[f]
  BY <1>3, <1>4
<1>6. Sampled(s, m)
  BY RootSampled
<1>7. /\ l \in ListingSet /\ Faithful(l, Root) /\ UpTo(l) /\ MoreOf(start, Root, l)
      /\ \A f \in kept : f \in l.got /\ f \in Files /\ IsDataFile(f, Root)
                         /\ owner[f] # None /\ owner[f] = Owner(parts, f)
  <2>1. \A f \in kept : f \in l.got /\ IsDataFile(f, Root)
    BY <1>4 DEF KeptOf, SeenOf, DataOf
  <2>2. l \in ListingSet /\ UpTo(l) /\ MoreOf(start, Root, l) /\ l.got \in SUBSET Files
    BY <1>3 DEF SampledFrom, ListingSet
  <2>3. QED
    BY <1>1, <1>5, <1>6, <2>1, <2>2 DEF Sampled
<1>8. ASSUME NEW f \in kept
      PROVE  /\ owner[f] \in parts /\ IsDataFile(f, Glue(owner[f]).dir)
             /\ Root \in Above[Glue(owner[f]).dir] /\ Glue(owner[f]).dir \in Dirs
             /\ (Above[Glue(owner[f]).dir] \ Above[Root]) \cap (Hidden \cup EmptySegment) = {}
  <2>1. PICK W : W = Below(Root) /\ Downward(W)
    BY BelowDownward, TreeAssumption
  <2>2. owner[f] = OwningPartition(parts, f, W) /\ f \in Files
    BY <1>2, <1>7, <2>1
  <2>3. owner[f] \in parts /\ Glue(owner[f]).dir \in W /\ UnderDir(f, Glue(owner[f]).dir)
    BY <1>7, <2>1, <2>2, OwnerFound
  <2>4. PICK d \in Dirs : d = Glue(owner[f]).dir /\ Root \in Above[d] /\ d \in Above[DirOf[f]]
    BY <2>1, <2>3 DEF Below, UnderDir
  <2>5. IsDataFile(f, d)
    BY <1>7, <2>3, <2>4, DataFileDown
  <2>6. Above[d] \subseteq Above[DirOf[f]]
    BY <2>2, <2>4, TreeAssumption
  <2>7. QED
    BY <1>7, <2>3, <2>4, <2>5, <2>6 DEF IsDataFile
<1>9. ASSUME NEW g \in kept, NEW f \in Files, Owner(parts, f) = owner[g], AloneIn(parts, owner[g])
      PROVE  /\ IsDataFile(f, Root) /\ MayHold(l, f) => f \in kept
             /\ Open /\ f \in always /\ IsDataFile(f, Glue(owner[g]).dir) => f \in kept
  <2>1. case \in CaseSet /\ owner[g] \in parts /\ reading \in SUBSET parts
    BY <1>1, <1>8 DEF TypeInv
  <2>2. IsDataFile(f, Root) /\ MayHold(l, f) => f \in kept
    BY <1>2, <1>3, <1>4, <1>9, <2>1, KeptWhole
  <2>3. ASSUME Open, f \in always, IsDataFile(f, Glue(owner[g]).dir)
        PROVE  IsDataFile(f, Root) /\ MayHold(l, f)
    <3>1. IsDataFile(f, Root)
      BY <1>8, <2>3, DataFileUp
    <3>2. f \in l.got \/ ~(l.done \/ Rank[f] <= l.at)
      BY <1>7, <2>3, <3>1 DEF Faithful, IsDataFile
    <3>3. Rank[f] \in Nat /\ l.at \in Nat
      BY <1>7, TreeAssumption DEF ListingSet
    <3>4. QED
      BY <3>1, <3>2, <3>3 DEF MayHold
  <2>4. QED
    BY <2>2, <2>3
<1>10. \A f \in kept : Open => f \in ever
  BY <1>7 DEF Faithful
<1>11. m.dir \in Dirs /\ m.dir = Root /\ m.root = TRUE /\ m.listing = l
  BY <1>5, TreeAssumption
<1>12. UpTo(m.listing) /\ MoreOf(GetDirectoryListing(s, m.dir), m.dir, m.listing)
  BY <1>2, <1>5, <1>7
<1>13. ASSUME NEW f \in DOMAIN m.owners
       PROVE  /\ m.owners[f] \in Parts(s) /\ m.owners[f] = Owner(Parts(s), f)
              /\ IsDataFile(f, Glue(m.owners[f]).dir) /\ IsDataFile(f, Root)
              /\ Open => f \in ever
  BY <1>1, <1>5, <1>7, <1>8, <1>10
<1>14. ASSUME NEW g \in DOMAIN m.owners, NEW f \in Files,
              Owner(Parts(s), f) = m.owners[g], AloneIn(Parts(s), m.owners[g])
       PROVE  /\ IsDataFile(f, Root) /\ MayHold(m.listing, f) => f \in DOMAIN m.owners
              /\ Open /\ f \in always /\ IsDataFile(f, Glue(m.owners[g]).dir) => f \in DOMAIN m.owners
  BY <1>1, <1>5, <1>9, <1>14
<1>15. QED
  BY <1>11, <1>12, <1>13, <1>14 DEF SampleWhole

\* The sample of a partition of its own is made when a root listing would take no fewer
\* requests for it alone.
LEMMA OwnWhole ==
  ASSUME TypeInv, StoreInv, ListingsInv, OrderedInv, NEW s \in Scans, Active(s), Loaded(s),
         case.partitioned, NEW p \in Parts(s), ~ByRoot(Parts(s), {p}),
         NEW m, m = SampleOwn(s, p)
  PROVE  SampleWhole(s, m)
<1>1. PICK parts \in SUBSET Partitions : parts = Parts(s) /\ p \in parts
  BY IndexesType
<1>2. PICK d \in Dirs : d = Glue(p).dir
  BY <1>1, GlueType DEF TypeInv
<1>3. PICK start, listing : start = GetDirectoryListing(s, d) /\ listing = AllPages(start, d)
  OBVIOUS
<1>4. PICK mine : mine = {f \in listing.got : IsDataFile(f, d)
                            /\ OwningPartition(parts, f, AtOrBelow(d)) = p}
  OBVIOUS
<1>5. m = [dir |-> d, listing |-> listing, root |-> FALSE, owners |-> [f \in mine |-> p]]
  BY <1>1, <1>2, <1>3, <1>4 DEF SampleOwn
<1>6. /\ m.dir = d /\ m.listing = listing /\ m.root = FALSE /\ DOMAIN m.owners = mine
      /\ \A f \in mine : m.owners[f] = p
  BY <1>5
<1>7. listing \in ListingSet /\ Faithful(listing, d) /\ listing.done
  BY <1>3, SharedListing
<1>8. MoreOf(start, d, listing) /\ UpTo(listing)
  <2>1. Cardinality(Files) \in Nat /\ listing = Fetched(start, d, Cardinality(Files))
    BY <1>3, TreeAssumption, FS_CardinalityType DEF AllPages
  <2>2. start \in ListingSet /\ UpTo(start) /\ stored \in SUBSET Files
    BY <1>3, SharedListing, SharedUpTo DEF TypeInv
  <2>3. QED
    BY <2>1, <2>2, FetchedFacts, FetchedUpTo
<1>9. PICK W : W = AtOrBelow(d) /\ Downward(W) /\ d \in W
  BY BelowDownward DEF AtOrBelow
<1>10. p # None /\ case \in CaseSet /\ mine \in SUBSET Files
  BY <1>1, <1>4, <1>7, NoneDistinct DEF TypeInv, ListingSet
<1>11. ASSUME NEW f \in mine
       PROVE  p = Owner(parts, f) /\ IsDataFile(f, d) /\ (Open => f \in ever)
  <2>1. f \in Files /\ OwningPartition(parts, f, W) = p /\ IsDataFile(f, d) /\ f \in listing.got
    BY <1>4, <1>9, <1>10
  <2>2. QED
    BY <1>7, <1>9, <1>10, <2>1, OwnerFound DEF Faithful
<1>12. ASSUME NEW f \in Files, Owner(parts, f) = p, Open, f \in always, IsDataFile(f, d)
       PROVE  f \in mine
  <2>1. f \in listing.got
    BY <1>7, <1>12 DEF Faithful, IsDataFile
  <2>2. OwningPartition(parts, f, W) = p
    BY <1>2, <1>9, <1>10, <1>12, OwnerWithin
  <2>3. QED
    BY <1>4, <1>9, <1>12, <2>1, <2>2
<1>13. QED
  BY <1>1, <1>2, <1>3, <1>6, <1>8, <1>11, <1>12 DEF SampleWhole

\* So a sample holds the files of the partitions it counts, whichever directory it lists.
LEMMA DirectoriesWhole ==
  ASSUME TypeInv, StoreInv, ListingsInv, OrderedInv, NEW s \in Scans, Active(s), Loaded(s),
         case.partitioned, PartitionIndexes(s) # {}, PartitionIndexes(s) \subseteq Parts(s),
         NEW m \in SampleDirectories(s)
  PROVE  SampleWhole(s, m)
<1>1. PICK jobs : jobs = PlanListings(s) /\ PlanFor(s, jobs)
  BY PlanFacts
<1>2. 1 \in 1 .. Len(jobs) /\ (jobs[1].root <=> ByRoot(Parts(s), PartitionIndexes(s)))
  BY <1>1, PlanRoots
<1>3. jobs[1].parts \subseteq PartitionIndexes(s)
  BY <1>1, <1>2 DEF PlanFor
<1>4. CASE jobs[1].root
  <2>1. m = SampleRootPartitions(s, jobs[1].parts)
    BY <1>1, <1>4 DEF SampleDirectories
  <2>2. PICK reading \in SUBSET Parts(s) : reading = jobs[1].parts
    BY <1>3
  <2>3. QED
    BY <2>1, <2>2, RootWhole
<1>5. CASE ~jobs[1].root
  <2>1. PICK p \in jobs[1].parts : m = SampleOwn(s, p)
    BY <1>1, <1>5 DEF SampleDirectories
  <2>2. p \in PartitionIndexes(s) /\ p \in Parts(s) /\ case \in CaseSet
    BY <1>3, <2>1 DEF TypeInv
  <2>3. ~ByRoot(Parts(s), {p})
    BY <1>2, <1>5, <2>2, ByRootGrows, IndexesType
  <2>4. QED
    BY <2>1, <2>2, <2>3, OwnWhole
<1>6. QED
  BY <1>4, <1>5

-----------------------------------------------------------------------------
(***************************************************************************)
(* The invariant of the sample and the estimates.                          *)
(***************************************************************************)
\* Whether a sample has files of p, and which.
Counted(parts, sample, p) == NumberOf(parts, p) \in DOMAIN sample.sizes
SizeOf(parts, sample, p) == sample.sizes[NumberOf(parts, p)]

\* The sizes are of the files of the partitions; a partition with none inside has all its
\* files there, and a sample of one partition was made when the root was not listed.
SizesInv(parts, sample) ==
  \A p \in parts : Counted(parts, sample, p) =>
    /\ SizeOf(parts, sample, p) # {}
    /\ \A f \in SizeOf(parts, sample, p) :
         /\ f \in Files /\ Owner(parts, f) = p /\ IsDataFile(f, Glue(p).dir)
         /\ Open => f \in ever
         /\ sample.root => IsDataFile(f, Root)
    /\ Open /\ AloneIn(parts, p) =>
         \A f \in always : Owner(parts, f) = p /\ IsDataFile(f, Glue(p).dir)
                             => f \in SizeOf(parts, sample, p)
    /\ ~sample.root => /\ ~ByRoot(parts, {p})
                       /\ \A r \in parts : Counted(parts, sample, r) => r = p

\* The root listing a sample was made from has, and will have, no file more of them.
RootSeen(parts, sample, kept) ==
  sample.root =>
    /\ Open => Root \in DOMAIN kept
    /\ Root \in DOMAIN kept =>
         \A p \in parts : Counted(parts, sample, p) /\ AloneIn(parts, p) =>
           \A f \in Files : MayHold(kept[Root], f) /\ Owner(parts, f) = p /\ IsDataFile(f, Root)
                              => f \in SizeOf(parts, sample, p)

TableInv(table) ==
  \A sample \in {query.samples[table]}, parts \in {query.partitions}, kept \in {ListingsOf(table)} :
    sample # None /\ infos[sample.info].parts = parts =>
      SizesInv(parts, sample) /\ RootSeen(parts, sample, kept)

\* An estimate was computed from the sample of the table.
EstimatedFrom(parts, sample, e) ==
  LET numbers == {NumberOf(parts, p) : p \in e.idx}
      seen == DOMAIN sample.sizes
  IN  /\ e.of = Cardinality(seen)
      /\ e.files = FilesAt(sample.sizes, numbers \cap seen) * Cardinality(seen)
                   + Cardinality(numbers \ seen) * FilesAt(sample.sizes, seen)

EstimateInv(s) ==
  \A e \in {lists[s].estimate}, sample \in {query.samples[Info(s).table]}, parts \in {query.partitions} :
    e # None =>
      /\ Loaded(s) /\ (e.idx = {} => e.files = 0)
      /\ e.idx # {} => sample # None /\ (Parts(s) = parts => EstimatedFrom(parts, sample, e))

\* A scan has the files of the partitions it listed one by one, hidden or not.
OwnInv(s) ==
  Open =>
    \A j \in 1 .. lists[s].next - 1 : ~PlanListings(s)[j].root =>
      \A p \in PlanListings(s)[j].parts : \A f \in always :
        Owner(Parts(s), f) = p /\ IsDataFile(f, Glue(p).dir) => f \in lists[s].files

EInv ==
  /\ OrderedInv
  /\ case.partitioned =>
       /\ \A table \in BOOLEAN : TableInv(table)
       /\ \A s \in Scans : Active(s) => EstimateInv(s) /\ OwnInv(s)

-----------------------------------------------------------------------------
(***************************************************************************)
(* What a step leaves alone.                                               *)
(***************************************************************************)
LEMMA SizesFrame ==
  ASSUME KeepsStore, NEW parts, NEW sample, SizesInv(parts, sample)
  PROVE  SizesInv(parts, sample)'
<1>1. /\ \A p : (Glue(p))' = Glue(p)
      /\ \A f : (Owner(parts, f))' = Owner(parts, f)
  BY GlueFrame DEF KeepsStore
<1>2. \A p : (AloneIn(parts, p))' <=> AloneIn(parts, p)
  BY <1>1 DEF AloneIn
<1>3. \A p : (ByRoot(parts, {p}))' <=> ByRoot(parts, {p})
  BY DEF KeepsStore, ByRoot, BelowRoot, Glue
<1>4. Open' => Open /\ ever \subseteq ever' /\ always' \subseteq always
  BY DEF KeepsStore
<1>5. ASSUME NEW p \in parts, Counted(parts, sample, p)
      PROVE  /\ SizeOf(parts, sample, p) # {}
             /\ \A f \in SizeOf(parts, sample, p) :
                  /\ f \in Files /\ (Owner(parts, f))' = p /\ IsDataFile(f, (Glue(p))'.dir)
                  /\ Open' => f \in ever'
                  /\ sample.root => IsDataFile(f, Root)
             /\ ~sample.root => /\ ~(ByRoot(parts, {p}))'
                                /\ \A r \in parts : Counted(parts, sample, r) => r = p
  <2>1. /\ SizeOf(parts, sample, p) # {}
        /\ \A f \in SizeOf(parts, sample, p) :
             /\ f \in Files /\ Owner(parts, f) = p /\ IsDataFile(f, Glue(p).dir)
             /\ Open => f \in ever
             /\ sample.root => IsDataFile(f, Root)
        /\ ~sample.root => /\ ~ByRoot(parts, {p})
                           /\ \A r \in parts : Counted(parts, sample, r) => r = p
    BY <1>5 DEF SizesInv
  <2>2. \A f : (Owner(parts, f))' = Owner(parts, f)
    BY <1>1
  <2>3. (Glue(p))' = Glue(p) /\ ((ByRoot(parts, {p}))' <=> ByRoot(parts, {p}))
    BY <1>1, <1>3
  <2>4. QED
    BY <1>4, <2>1, <2>2, <2>3
<1>6. ASSUME NEW p \in parts, Counted(parts, sample, p), Open', (AloneIn(parts, p))',
             NEW f \in always', (Owner(parts, f))' = p, IsDataFile(f, (Glue(p))'.dir)
      PROVE  f \in SizeOf(parts, sample, p)
  <2>1. AloneIn(parts, p) /\ Open /\ f \in always /\ Owner(parts, f) = p
    BY <1>1, <1>2, <1>4, <1>6
  <2>2. IsDataFile(f, Glue(p).dir)
    BY <1>1, <1>6
  <2>3. QED
    BY <1>6, <2>1, <2>2 DEF SizesInv
<1>7. QED
  BY <1>5, <1>6 DEF SizesInv, IsDataFile, UnderDir

\* The root listing kept stays, or gets further pages.
KeepsRoot(kept, later) ==
  /\ Open' /\ Root \in DOMAIN kept => Root \in DOMAIN later
  /\ Root \in DOMAIN later =>
       \/ Open /\ Root \notin DOMAIN kept
       \/ /\ Root \in DOMAIN kept
          /\ \A f \in Files : MayHold(later[Root], f) => MayHold(kept[Root], f)

LEMMA RootFrame ==
  ASSUME KeepsStore, NEW parts, NEW sample, NEW kept, NEW later,
         RootSeen(parts, sample, kept), KeepsRoot(kept, later)
  PROVE  RootSeen(parts, sample, later)'
<1>1. \A f : (Owner(parts, f))' = Owner(parts, f)
  BY GlueFrame DEF KeepsStore
<1>2. \A p : (AloneIn(parts, p))' <=> AloneIn(parts, p)
  BY DEF AloneIn, KeepsStore, Glue
<1>3. Open' => Open
  BY DEF KeepsStore
<1>4. ASSUME sample.root, Open' PROVE Root \in DOMAIN later
  BY <1>3, <1>4 DEF RootSeen, KeepsRoot
<1>5. ASSUME sample.root, Root \in DOMAIN later,
             NEW p \in parts, Counted(parts, sample, p), (AloneIn(parts, p))',
             NEW f \in Files, MayHold(later[Root], f), (Owner(parts, f))' = p, IsDataFile(f, Root)
      PROVE  f \in SizeOf(parts, sample, p)
  <2>1. Root \in DOMAIN kept /\ MayHold(kept[Root], f)
    BY <1>5 DEF RootSeen, KeepsRoot
  <2>2. AloneIn(parts, p) /\ Owner(parts, f) = p
    BY <1>1, <1>2, <1>5
  <2>3. QED
    BY <1>5, <2>1, <2>2 DEF RootSeen
<1>6. QED
  BY <1>4, <1>5 DEF RootSeen

\* A partition list, once loaded, is that of the query or part of it.
LEMMA LoadedQuery ==
  ASSUME IInv, case.partitioned, NEW i \in Scans, infos[i].parts # None
  PROVE  query.partitions # None /\ infos[i].parts \subseteq query.partitions
BY DEF IInv, InfoInv

LEMMA TableFrame ==
  ASSUME IInv, KeepsStore, KeepsQuery, case.partitioned, NEW table \in BOOLEAN, TableInv(table),
         query'.samples[table] = query.samples[table],
         \A i \in Scans : Active(i) /\ infos[i].parts # None => infos'[i].parts = infos[i].parts,
         NEW kept, kept = ListingsOf(table), NEW later, later = (ListingsOf(table))',
         KeepsRoot(kept, later)
  PROVE  TableInv(table)'
<1> SUFFICES ASSUME NEW sample, sample = query'.samples[table], sample # None,
                    NEW parts, parts = query'.partitions, infos'[sample.info].parts = parts
             PROVE  SizesInv(parts, sample)' /\ RootSeen(parts, sample, later)'
  BY DEF TableInv
<1>1. sample.info \in Scans /\ Active(sample.info) /\ infos[sample.info].parts # None
  BY DEF IInv, Samples, SampleInv
<1>2. query.partitions # None /\ infos'[sample.info].parts = infos[sample.info].parts
  BY <1>1, LoadedQuery
<1>3. parts = query.partitions
  BY <1>2 DEF KeepsQuery
<1>4. SizesInv(parts, sample) /\ RootSeen(parts, sample, kept)
  BY <1>2, <1>3 DEF TableInv
<1>5. QED
  BY <1>4, SizesFrame, RootFrame

LEMMA EstimateFrame ==
  ASSUME IInv, KeepsQuery, case.partitioned, case' = case, NEW s \in Scans, Active(s), EstimateInv(s),
         lists'[s].info = lists[s].info, lists'[s].estimate = lists[s].estimate,
         infos'[lists[s].info].table = infos[lists[s].info].table,
         Loaded(s) => infos'[lists[s].info].parts = infos[lists[s].info].parts,
         \A table \in BOOLEAN : query'.samples[table] = query.samples[table] \/ query.samples[table] = None
  PROVE  EstimateInv(s)'
<1>1. PICK i \in Scans, table \in BOOLEAN : i = lists[s].info /\ table = infos[i].table
  BY DEF IInv, TypeInv, InfoSet, Active
<1> SUFFICES ASSUME NEW e, e = lists'[s].estimate, e # None,
                    NEW sample, sample = query'.samples[table],
                    NEW parts, parts = query'.partitions
             PROVE  /\ Loaded(s)' /\ (e.idx = {} => e.files = 0)
                    /\ e.idx # {} => /\ sample # None
                                     /\ infos'[i].parts = parts => EstimatedFrom(parts, sample, e)
  BY <1>1 DEF EstimateInv, Info, Parts
<1>2. Loaded(s) /\ (e.idx = {} => e.files = 0)
  BY DEF EstimateInv
<1>3. /\ infos[i].parts # None /\ infos'[i].parts = infos[i].parts
      /\ Parts(s) = infos[i].parts /\ Info(s).table = table
  BY <1>1, <1>2 DEF Loaded, Info, Parts
<1>4. Loaded(s)'
  BY <1>1, <1>3 DEF Loaded, Info
<1>5. parts = query.partitions
  BY <1>3, LoadedQuery DEF KeepsQuery
<1>6. ASSUME e.idx # {}
      PROVE  sample # None /\ (infos'[i].parts = parts => EstimatedFrom(parts, sample, e))
  <2>1. query.samples[table] # None
    BY <1>3, <1>6 DEF EstimateInv
  <2>2. sample = query.samples[table]
    BY <2>1
  <2>3. QED
    BY <1>3, <1>5, <1>6, <2>1, <2>2 DEF EstimateInv
<1>7. QED
  BY <1>2, <1>4, <1>6

LEMMA OwnFrame ==
  ASSUME KeepsStore, NEW s, KeepsView(s), OwnInv(s),
         lists'[s].next = lists[s].next, lists[s].files \subseteq lists'[s].files
  PROVE  OwnInv(s)'
<1>1. PlanListings(s)' = PlanListings(s) /\ Parts(s)' = Parts(s)
  BY ViewFrame
<1>2. PICK parts : parts = Parts(s) /\ parts = Parts(s)'
  BY <1>1
<1>3. /\ \A p : (Glue(p))' = Glue(p)
      /\ \A f : (Owner(parts, f))' = Owner(parts, f)
  BY GlueFrame DEF KeepsStore
<1>4. Open' => Open /\ always' \subseteq always
  BY DEF KeepsStore
<1>5. ASSUME Open', NEW j \in 1 .. lists'[s].next - 1, NEW jobs, jobs = PlanListings(s)', ~jobs[j].root,
             NEW p \in jobs[j].parts, NEW f \in always', (Owner(parts, f))' = p,
             IsDataFile(f, (Glue(p))'.dir)
      PROVE  f \in lists'[s].files
  BY <1>1, <1>2, <1>3, <1>4, <1>5 DEF OwnInv
<1>6. QED
  BY <1>2, <1>5 DEF OwnInv, Owner, OwningPartition, RegisteredAt, IsDataFile, UnderDir

\* What it takes to keep the invariant.
LEMMA EHeld ==
  ASSUME IInv, EInv, KeepsStore, KeepsQuery, OrderedInv',
         \A i \in Scans : Active(i) => /\ infos'[i].table = infos[i].table
                                       /\ infos[i].parts # None => infos'[i].parts = infos[i].parts,
         \A table \in BOOLEAN :
            \/ query'.samples[table] = query.samples[table]
            \/ query.samples[table] = None /\ (case.partitioned => TableInv(table)'),
         \A table \in BOOLEAN : KeepsRoot(ListingsOf(table), (ListingsOf(table))'),
         case.partitioned => \A s \in Scans : lists'[s].st # "free" =>
            \/ lists'[s].estimate = None
            \/ /\ Active(s) /\ lists'[s].info = lists[s].info
               /\ lists'[s].estimate = lists[s].estimate
            \/ EstimateInv(s)',
         case.partitioned => \A s \in Scans : lists'[s].st # "free" =>
            \/ lists'[s].next = 1
            \/ /\ Active(s) /\ KeepsView(s) /\ lists'[s].next = lists[s].next
               /\ lists[s].files \subseteq lists'[s].files
            \/ OwnInv(s)'
  PROVE  EInv'
<1>1. SUFFICES ASSUME case.partitioned
               PROVE  /\ \A table \in BOOLEAN : TableInv(table)'
                      /\ \A s \in Scans : lists'[s].st # "free" => EstimateInv(s)' /\ OwnInv(s)'
  BY DEF EInv, Active, KeepsStore
<1>2. case' = case
  BY DEF KeepsStore
<1>3. ASSUME NEW table \in BOOLEAN PROVE TableInv(table)'
  <2>1. CASE query'.samples[table] = query.samples[table]
    <3>1. TableInv(table)
      BY <1>1 DEF EInv
    <3>2. PICK kept, later : /\ kept = ListingsOf(table) /\ later = (ListingsOf(table))'
                             /\ KeepsRoot(kept, later)
      OBVIOUS
    <3>3. \A i \in Scans : Active(i) /\ infos[i].parts # None => infos'[i].parts = infos[i].parts
      OBVIOUS
    <3>4. QED
      BY <1>1, <2>1, <3>1, <3>2, <3>3, TableFrame
  <2>2. CASE ~(query'.samples[table] = query.samples[table])
    BY <1>1, <2>2
  <2>3. QED
    BY <2>1, <2>2
<1>4. ASSUME NEW s \in Scans, lists'[s].st # "free" PROVE EstimateInv(s)'
  <2>1. CASE lists'[s].estimate = None
    BY <2>1 DEF EstimateInv
  <2>2. CASE Active(s) /\ lists'[s].info = lists[s].info /\ lists'[s].estimate = lists[s].estimate
    <3>1. EstimateInv(s) /\ Active(lists[s].info) /\ lists[s].info \in Scans
      BY <1>1, <2>2 DEF EInv, IInv, ScanInv, ShapeInv
    <3>2. /\ infos'[lists[s].info].table = infos[lists[s].info].table
          /\ Loaded(s) => infos'[lists[s].info].parts = infos[lists[s].info].parts
      BY <1>1, <3>1 DEF Loaded, Info
    <3>3. \A table \in BOOLEAN : \/ query'.samples[table] = query.samples[table]
                                 \/ query.samples[table] = None
      OBVIOUS
    <3>4. QED
      BY <1>1, <1>2, <2>2, <3>1, <3>2, <3>3, EstimateFrame
  <2>3. QED
    BY <1>1, <1>4, <2>1, <2>2
<1>5. ASSUME NEW s \in Scans, lists'[s].st # "free" PROVE OwnInv(s)'
  <2>1. CASE lists'[s].next = 1
    BY <2>1 DEF OwnInv
  <2>2. CASE /\ Active(s) /\ KeepsView(s) /\ lists'[s].next = lists[s].next
             /\ lists[s].files \subseteq lists'[s].files
    <3>1. OwnInv(s)
      BY <1>1, <2>2 DEF EInv
    <3>2. QED
      BY <2>2, <3>1, OwnFrame
  <2>3. QED
    BY <1>1, <1>5, <2>1, <2>2
<1>6. QED
  BY <1>3, <1>4, <1>5

\* Listings that stay as they are.
LEMMA ListingsStay ==
  ASSUME OrderedInv, case' = case, query'.listings = query.listings, connListings' = connListings
  PROVE  OrderedInv' /\ \A table \in BOOLEAN : KeepsRoot(ListingsOf(table), (ListingsOf(table))')
<1>1. \A table \in BOOLEAN : (ListingsOf(table))' = ListingsOf(table)
  BY DEF ListingsOf
<1>2. OrderedInv'
  BY <1>1 DEF OrderedInv
<1>3. ASSUME NEW table \in BOOLEAN PROVE KeepsRoot(ListingsOf(table), (ListingsOf(table))')
  <2>1. PICK kept : kept = ListingsOf(table) /\ kept = (ListingsOf(table))'
    BY <1>1
  <2>2. KeepsRoot(kept, kept)
    BY DEF KeepsRoot
  <2>3. QED
    BY <2>1, <2>2
<1>4. QED
  BY <1>2, <1>3

\* One scan moves, another's files may become known.
LEMMA EMoves ==
  ASSUME IInv, EInv, KeepsStore, KeepsQuery, OrderedInv',
         \A i \in Scans : Active(i) => /\ infos'[i].table = infos[i].table
                                       /\ infos'[i].whole = infos[i].whole
                                       /\ infos[i].parts # None => infos'[i].parts = infos[i].parts,
         \A table \in BOOLEAN :
            \/ query'.samples[table] = query.samples[table]
            \/ query.samples[table] = None /\ (case.partitioned => TableInv(table)'),
         \A table \in BOOLEAN : KeepsRoot(ListingsOf(table), (ListingsOf(table))'),
         NEW s \in Scans, \A t \in Scans \ {s} : lists'[t] = lists[t],
         case.partitioned =>
            \/ lists'[s].estimate = None
            \/ /\ Active(s) /\ lists'[s].info = lists[s].info
               /\ lists'[s].estimate = lists[s].estimate
            \/ EstimateInv(s)',
         case.partitioned =>
            \/ lists'[s].next = 1
            \/ /\ Active(s) /\ lists'[s].info = lists[s].info /\ lists'[s].idx = lists[s].idx
               /\ lists'[s].next = lists[s].next /\ lists[s].files \subseteq lists'[s].files
            \/ OwnInv(s)'
  PROVE  EInv'
<1>1. ASSUME case.partitioned, NEW t \in Scans, Active(t),
             lists'[t].info = lists[t].info, lists'[t].idx = lists[t].idx
      PROVE  KeepsView(t) \/ lists[t].next = 1
  <2>1. Active(lists[t].info) /\ lists[t].info \in Scans /\ ShapeInv(t)
    BY <1>1 DEF IInv, ScanInv, ShapeInv
  <2>2. CASE Loaded(t)
    <3>1. infos[lists[t].info].parts # None
      BY <1>1, <2>2 DEF Loaded, Info
    <3>2. QED
      BY <1>1, <2>1, <3>1 DEF KeepsView, KeepsStore
  <2>3. CASE ~Loaded(t)
    BY <2>1, <2>3 DEF ShapeInv
  <2>4. QED
    BY <2>2, <2>3
<1>2. ASSUME case.partitioned, NEW t \in Scans, lists'[t].st # "free"
      PROVE  /\ \/ lists'[t].estimate = None
                \/ /\ Active(t) /\ lists'[t].info = lists[t].info
                   /\ lists'[t].estimate = lists[t].estimate
                \/ EstimateInv(t)'
             /\ \/ lists'[t].next = 1
                \/ /\ Active(t) /\ KeepsView(t) /\ lists'[t].next = lists[t].next
                   /\ lists[t].files \subseteq lists'[t].files
                \/ OwnInv(t)'
  <2>1. CASE t = s
    BY <1>1, <1>2, <2>1
  <2>2. CASE t # s
    BY <1>1, <1>2, <2>2 DEF Active
  <2>3. QED
    BY <2>1, <2>2
<1>3. \A i \in Scans : Active(i) => /\ infos'[i].table = infos[i].table
                                    /\ infos[i].parts # None => infos'[i].parts = infos[i].parts
  OBVIOUS
<1>4. QED
  BY <1>2, <1>3, EHeld

\* It lists nothing, and the sample stays.
LEMMA EOnlyMoves ==
  ASSUME IInv, EInv, KeepsStore, KeepsQuery,
         query'.listings = query.listings, query'.samples = query.samples,
         connListings' = connListings,
         \A i \in Scans : Active(i) => /\ infos'[i].table = infos[i].table
                                       /\ infos'[i].whole = infos[i].whole
                                       /\ infos[i].parts # None => infos'[i].parts = infos[i].parts,
         NEW s \in Scans, \A t \in Scans \ {s} : lists'[t] = lists[t],
         case.partitioned =>
            \/ lists'[s].estimate = None
            \/ /\ Active(s) /\ lists'[s].info = lists[s].info
               /\ lists'[s].estimate = lists[s].estimate
            \/ EstimateInv(s)',
         case.partitioned =>
            \/ lists'[s].next = 1
            \/ /\ Active(s) /\ lists'[s].info = lists[s].info /\ lists'[s].idx = lists[s].idx
               /\ lists'[s].next = lists[s].next /\ lists[s].files \subseteq lists'[s].files
            \/ OwnInv(s)'
  PROVE  EInv'
<1>1. OrderedInv /\ case' = case
  BY DEF EInv, KeepsStore
<1>2. OrderedInv' /\ \A table \in BOOLEAN : KeepsRoot(ListingsOf(table), (ListingsOf(table))')
  BY <1>1, ListingsStay
<1>3. \A table \in BOOLEAN : query'.samples[table] = query.samples[table]
  OBVIOUS
<1>4. QED
  BY <1>2, <1>3, EMoves

-----------------------------------------------------------------------------
(***************************************************************************)
(* The steps that list nothing.                                            *)
(***************************************************************************)
LEMMA EBind ==
  ASSUME IInv, EInv, NEW s \in Scans, BindHiveScan(s)
  PROVE  EInv'
<1>1. PICK asked : lists' = [lists EXCEPT ![s] = NewList(s, None, asked, asked, {})]
  BY DEF BindHiveScan
<1>2. /\ TypeInv /\ lists[s].st = "free" /\ infos' = [infos EXCEPT ![s] = NoInfo]
      /\ UNCHANGED <<query, connListings>> /\ KeepsStore /\ KeepsQuery
  BY QuietKeeps DEF BindHiveScan, IInv, Quiet, KeepsQuery
<1>3. /\ \A t \in Scans \ {s} : lists'[t] = lists[t]
      /\ lists'[s].estimate = None /\ lists'[s].next = 1
  BY <1>1, <1>2 DEF TypeInv, NewList
<1>4. \A i \in Scans : Active(i) => infos'[i] = infos[i]
  BY <1>2 DEF Active, TypeInv
<1>5. QED
  BY <1>2, <1>3, <1>4, EOnlyMoves

LEMMA ECopy ==
  ASSUME IInv, EInv, NEW s \in Scans, NEW t \in Scans, CopyList(s, t)
  PROVE  EInv'
<1>1. PICK n : n = NewList(lists[s].info, lists[s].idx, lists[s].asked, lists[s].left, {})
                 /\ lists' = [lists EXCEPT ![t] = n]
  BY DEF CopyList
<1>2. TypeInv /\ UNCHANGED <<query, connListings, infos>> /\ KeepsStore /\ KeepsQuery
  BY QuietKeeps DEF CopyList, IInv, Quiet, KeepsQuery
<1>3. /\ \A r \in Scans \ {t} : lists'[r] = lists[r]
      /\ lists'[t].estimate = None /\ lists'[t].next = 1
  BY <1>1, <1>2 DEF TypeInv, NewList
<1>4. QED
  BY <1>2, <1>3, EOnlyMoves

LEMMA ERestore ==
  ASSUME IInv, EInv, NEW s \in Scans, NEW t \in Scans, RestoreScan(s, t)
  PROVE  EInv'
<1>1. PICK n : n = NewList(t, None, lists[s].asked, lists[s].left, {})
                 /\ lists' = [lists EXCEPT ![t] = n]
  BY DEF RestoreScan
<1>2. PICK i : infos' = [infos EXCEPT ![t] = i]
  BY DEF RestoreScan
<1>3. /\ TypeInv /\ lists[t].st = "free"
      /\ UNCHANGED <<query, connListings>> /\ KeepsStore /\ KeepsQuery
  BY QuietKeeps DEF RestoreScan, IInv, Quiet, KeepsQuery
<1>4. /\ \A r \in Scans \ {t} : lists'[r] = lists[r]
      /\ lists'[t].estimate = None /\ lists'[t].next = 1
  BY <1>1, <1>3 DEF TypeInv, NewList
<1>5. \A r \in Scans : Active(r) => infos'[r] = infos[r]
  BY <1>2, <1>3 DEF Active, TypeInv
<1>6. QED
  BY <1>3, <1>4, <1>5, EOnlyMoves

LEMMA ELoad ==
  ASSUME IInv, EInv, NEW s \in Scans, LoadPartitions(s)
  PROVE  EInv'
<1>1. PICK i : i = lists[s].info
  OBVIOUS
<1>2. PICK parts : /\ query' = [query EXCEPT !.partitions = parts]
                   /\ infos' = [infos EXCEPT ![i].parts = parts]
                   /\ query.partitions # None => parts = query.partitions
  BY <1>1 DEF LoadPartitions
<1>3. /\ TypeInv /\ UNCHANGED <<connListings, lists>> /\ KeepsStore /\ Active(s) /\ ~Loaded(s)
      /\ i \in Scans
  BY <1>1, QuietKeeps DEF LoadPartitions, IInv, Quiet, Active, TypeInv
<1>4. /\ query'.listings = query.listings /\ query'.samples = query.samples
      /\ query'.partitions = parts
  BY <1>2, <1>3 DEF TypeInv, QuerySet
<1>5. KeepsQuery
  BY <1>2, <1>4 DEF KeepsQuery
<1>6. infos[i].parts = None
  BY <1>1, <1>3 DEF Loaded, Info
<1>7. \A j \in Scans : /\ infos'[j].table = infos[j].table /\ infos'[j].whole = infos[j].whole
                       /\ infos[j].parts # None => infos'[j].parts = infos[j].parts
  <2>1. infos \in [Scans -> InfoSet] /\ infos[i] \in InfoSet
    BY <1>3 DEF TypeInv
  <2>2. \A j \in Scans \ {i} : infos'[j] = infos[j]
    BY <1>2, <2>1
  <2>3. infos'[i].table = infos[i].table /\ infos'[i].whole = infos[i].whole
    BY <1>2, <1>3, <2>1 DEF InfoSet
  <2>4. QED
    BY <1>6, <2>2, <2>3
<1>8. \A t \in Scans : lists'[t] = lists[t]
  BY <1>3
<1>9. QED
  BY <1>3, <1>4, <1>5, <1>7, <1>8, EOnlyMoves

\* Narrowing keeps the estimate, and starts the listing again.
LEMMA NarrowedEstimate ==
  ASSUME NEW s, NEW kept, NEW l \in ListSet, l.next = 1
  PROVE  Narrowed(s, kept, l).estimate = l.estimate /\ Narrowed(s, kept, l).next = 1
<1>1. CASE kept = PartitionIndexes(s)
  BY <1>1 DEF Narrowed
<1>2. CASE kept # PartitionIndexes(s)
  <2>1. PICK n : n = [l EXCEPT !.idx = kept, !.next = 1, !.listed = NoListings, !.files = {}]
    OBVIOUS
  <2>2. n.estimate = l.estimate /\ n.next = 1
    BY <2>1 DEF ListSet
  <2>3. QED
    BY <1>2, <2>1, <2>2 DEF Narrowed
<1>3. QED
  BY <1>1, <1>2

\* A scan in planning has listed nothing.
LEMMA NarrowedStep ==
  ASSUME IInv, EInv, NEW s \in Scans, lists[s].st = "planning", Quiet,
         UNCHANGED <<query, connListings, infos>>, NEW kept,
         NEW l \in ListSet, l.info = lists[s].info, l.next = lists[s].next,
         l.estimate = lists[s].estimate, NEW n, n = Narrowed(s, kept, l), n.info = l.info,
         lists' = [lists EXCEPT ![s] = n]
  PROVE  EInv'
<1>1. TypeInv /\ Active(s) /\ ScanInv(s) /\ KeepsStore /\ KeepsQuery
  BY QuietKeeps DEF IInv, Active, KeepsQuery
<1>2. lists[s].next = 1
  BY <1>1 DEF ScanInv, ShapeInv
<1>3. n.estimate = l.estimate /\ n.next = 1
  BY <1>2, NarrowedEstimate
<1>4. lists'[s] = n /\ \A t \in Scans \ {s} : lists'[t] = lists[t]
  BY <1>1 DEF TypeInv
<1>5. QED
  BY <1>1, <1>3, <1>4, EOnlyMoves

\* A scan that fails leaves everything.
LEMMA EStays ==
  ASSUME IInv, EInv, KeepsStore, UNCHANGED <<query, connListings, infos, lists>>
  PROVE  EInv'
<1>1. CASE Scans = {}
  <2>1. OrderedInv' /\ \A table \in BOOLEAN : KeepsRoot(ListingsOf(table), (ListingsOf(table))')
    BY ListingsStay DEF EInv, KeepsStore
  <2>2. KeepsQuery
    BY DEF KeepsQuery
  <2>3. QED
    BY <1>1, <2>1, <2>2, EHeld
<1>2. CASE Scans # {}
  <2>1. PICK s \in Scans : TRUE
    BY <1>2
  <2>2. KeepsQuery
    BY DEF KeepsQuery
  <2>3. CASE Active(s)
    BY <2>2, <2>3, EOnlyMoves
  <2>4. CASE ~Active(s)
    <3>1. OrderedInv' /\ \A table \in BOOLEAN : KeepsRoot(ListingsOf(table), (ListingsOf(table))')
      BY ListingsStay DEF EInv, KeepsStore
    <3>2. \A t \in Scans : lists'[t].st # "free" => Active(t) /\ lists'[t] = lists[t]
      BY DEF Active
    <3>3. \A t \in Scans : Active(t) => KeepsView(t)
      BY DEF KeepsView, KeepsStore
    <3>4. QED
      BY <2>2, <3>1, <3>2, <3>3, EHeld
  <2>5. QED
    BY <2>3, <2>4
<1>3. QED
  BY <1>1, <1>2

LEMMA EComplex ==
  ASSUME IInv, EInv, NEW s \in Scans, ComplexFilterPushdown(s)
  PROVE  EInv'
<1>1. /\ TypeInv /\ lists[s].st = "planning" /\ case.partitioned /\ Loaded(s) /\ Active(s)
      /\ Quiet /\ KeepsStore /\ UNCHANGED <<query, connListings, infos>>
  BY QuietKeeps DEF ComplexFilterPushdown, IInv, Quiet, Active
<1>2. PICK kept, decided :
        \/ UNCHANGED lists
        \/ lists' = [lists EXCEPT ![s] = Narrowed(s, kept, [lists[s] EXCEPT !.left = @ \ decided])]
           /\ kept \subseteq PartitionIndexes(s)
  <2>1. PICK filters :
         LET kept == PartitionsToRead(PartitionIndexes(s), filters)
         IN  \/ UNCHANGED lists
             \/ lists' = [lists EXCEPT ![s] = Narrowed(s, kept,
                        [lists[s] EXCEPT !.left = @ \ DecidedFilters(kept, filters)])]
    BY DEF ComplexFilterPushdown
  <2>2. PICK kept : kept = PartitionsToRead(PartitionIndexes(s), filters)
    OBVIOUS
  <2>3. PICK decided : decided = DecidedFilters(kept, filters)
    OBVIOUS
  <2>4. kept \subseteq PartitionIndexes(s)
    BY <2>2 DEF PartitionsToRead
  <2>5. QED
    BY <2>1, <2>2, <2>3, <2>4
<1>3. CASE UNCHANGED lists
  BY <1>1, <1>3, EStays
<1>4. CASE /\ lists' = [lists EXCEPT ![s] = Narrowed(s, kept, [lists[s] EXCEPT !.left = @ \ decided])]
           /\ kept \subseteq PartitionIndexes(s)
  <2>1. PICK l : l = [lists[s] EXCEPT !.left = @ \ decided]
    OBVIOUS
  <2>2. lists[s] \in ListSet /\ lists[s].left \ decided \in SUBSET Filters
    BY <1>1 DEF TypeInv, ListSet
  <2>3. /\ l \in ListSet /\ l.info = lists[s].info /\ l.next = lists[s].next
        /\ l.estimate = lists[s].estimate
    BY <2>1, <2>2 DEF ListSet
  <2>4. PICK n : n = Narrowed(s, kept, l) /\ lists' = [lists EXCEPT ![s] = n]
    BY <1>4, <2>1
  <2>5. kept \in SUBSET Partitions
    BY <1>1, <1>4, IndexesType
  <2>6. n.info = l.info
    BY <1>1, <2>3, <2>4, <2>5, NarrowedType DEF NarrowedTo
  <2>7. QED
    BY <1>1, <2>3, <2>4, <2>6, NarrowedStep
<1>5. QED
  BY <1>2, <1>3, <1>4

LEMMA EDynamic ==
  ASSUME IInv, EInv, NEW s \in Scans, DynamicFilterPushdown(s)
  PROVE  EInv'
<1>1. /\ TypeInv /\ lists[s].st = "planning" /\ Loaded(s) /\ Active(s)
      /\ Quiet /\ KeepsStore /\ UNCHANGED <<query, connListings, infos>>
  BY QuietKeeps DEF DynamicFilterPushdown, IInv, Quiet, Active
<1>2. PICK joined \in SUBSET JoinFilters :
        LET kept == {p \in PartitionIndexes(s) :
                         \A c \in joined : KeyAnswer[c][Glue(p).value] = "true"}
        IN  \/ UNCHANGED lists
            \/ lists' = [lists EXCEPT ![s] = Narrowed(s, kept,
                                 [lists[s] EXCEPT !.st = "scanning", !.joined = joined])]
  BY DEF DynamicFilterPushdown
<1>3. PICK kept : kept = {p \in PartitionIndexes(s) :
                             \A c \in joined : KeyAnswer[c][Glue(p).value] = "true"}
  OBVIOUS
<1>4. CASE UNCHANGED lists
  BY <1>1, <1>4, EStays
<1>5. CASE ~(UNCHANGED lists)
  <2>1. PICK l : l = [lists[s] EXCEPT !.st = "scanning", !.joined = joined]
    OBVIOUS
  <2>2. lists[s] \in ListSet
    BY <1>1 DEF TypeInv, ListSet
  <2>3. /\ l \in ListSet /\ l.info = lists[s].info /\ l.next = lists[s].next
        /\ l.estimate = lists[s].estimate
    BY <2>1, <2>2 DEF ListSet, States
  <2>4. PICK n : n = Narrowed(s, kept, l) /\ lists' = [lists EXCEPT ![s] = n]
    BY <1>2, <1>3, <1>5, <2>1
  <2>5. kept \in SUBSET Partitions
    BY <1>1, <1>3, IndexesType
  <2>6. n.info = l.info
    BY <1>1, <2>3, <2>4, <2>5, NarrowedType DEF NarrowedTo
  <2>7. QED
    BY <1>1, <2>3, <2>4, <2>6, NarrowedStep
<1>6. QED
  BY <1>4, <1>5

LEMMA EStatistics ==
  ASSUME IInv, EInv, NEW s \in Scans, HivePartitionStatistics(s)
  PROVE  EInv'
<1>1. PICK stats : lists' = [lists EXCEPT ![s].stats = stats]
  BY DEF HivePartitionStatistics
<1>2. /\ TypeInv /\ Active(s) /\ KeepsStore /\ KeepsQuery
      /\ UNCHANGED <<query, connListings, infos>>
  BY QuietKeeps DEF HivePartitionStatistics, IInv, Quiet, Active, KeepsQuery
<1>3. lists \in [Scans -> ListSet]
  BY <1>2 DEF TypeInv
<1>4. \A t \in Scans \ {s} : lists'[t] = lists[t]
  BY <1>1, <1>3
<1>5. /\ lists'[s].estimate = lists[s].estimate /\ lists'[s].info = lists[s].info
      /\ lists'[s].idx = lists[s].idx /\ lists'[s].next = lists[s].next
      /\ lists'[s].files = lists[s].files
  BY <1>1, <1>3 DEF ListSet
<1>6. QED
  BY <1>2, <1>4, <1>5, EOnlyMoves

LEMMA EFinalizeBind ==
  ASSUME IInv, EInv, NEW s \in Scans, FinalizeBind(s)
  PROVE  EInv'
<1>1. PICK rows : UNCHANGED lists \/ lists' = [lists EXCEPT ![s].rows = rows]
  BY DEF FinalizeBind
<1>2. /\ TypeInv /\ Active(s) /\ KeepsStore /\ KeepsQuery
      /\ UNCHANGED <<query, connListings, infos>>
  BY QuietKeeps DEF FinalizeBind, IInv, Quiet, Active, KeepsQuery
<1>3. CASE UNCHANGED lists
  BY <1>2, <1>3, EStays
<1>4. CASE lists' = [lists EXCEPT ![s].rows = rows]
  <2>1. lists \in [Scans -> ListSet]
    BY <1>2 DEF TypeInv
  <2>2. \A t \in Scans \ {s} : lists'[t] = lists[t]
    BY <1>4, <2>1
  <2>3. /\ lists'[s].estimate = lists[s].estimate /\ lists'[s].info = lists[s].info
        /\ lists'[s].idx = lists[s].idx /\ lists'[s].next = lists[s].next
        /\ lists'[s].files = lists[s].files
    BY <1>4, <2>1 DEF ListSet
  <2>4. QED
    BY <1>2, <2>2, <2>3, EOnlyMoves
<1>5. QED
  BY <1>1, <1>3, <1>4

\* Files written, removed and registered meanwhile leave what was known of those there all along.
LEMMA EOthers ==
  ASSUME IInv, EInv,
         \/ \E f \in Files : WriteFile(f) \/ OtherWrites(f)
         \/ \E p \in Partitions : OtherRegisters(p)
  PROVE  EInv'
<1>1. KeepsStore /\ UNCHANGED <<query, connListings, infos, lists>>
  BY DEF WriteFile, OtherWrites, OtherRegisters, KeepsStore, Open
<1>2. QED
  BY <1>1, EStays

\* The INSERT empties the connection's listings, and no scan goes on.
LEMMA EFinalizeInsert ==
  ASSUME IInv, EInv, FinalizeInsert
  PROVE  EInv'
<1>1. /\ ~Open' /\ connListings' = NoListings /\ UNCHANGED <<query, lists, infos, case>>
  BY DEF FinalizeInsert, Open
<1>2. KeepsStore /\ KeepsQuery
  BY <1>1 DEF KeepsStore, KeepsQuery
<1>3. ASSUME NEW table \in BOOLEAN
      PROVE  (ListingsOf(table))' = ListingsOf(table) \/ DOMAIN (ListingsOf(table))' = {}
  BY <1>1 DEF ListingsOf, NoListings
<1>4. OrderedInv'
  BY <1>3 DEF EInv, OrderedInv
<1>5. ASSUME NEW table \in BOOLEAN PROVE KeepsRoot(ListingsOf(table), (ListingsOf(table))')
  <2>1. PICK kept, later : kept = ListingsOf(table) /\ later = (ListingsOf(table))'
    OBVIOUS
  <2>2. KeepsRoot(kept, later)
    BY <1>1, <1>3, <2>1 DEF KeepsRoot
  <2>3. QED
    BY <2>1, <2>2
<1>6. \A t \in Scans : lists'[t].st # "free" => Active(t) /\ KeepsView(t)
  BY <1>1 DEF Active, KeepsView
<1>7. QED
  BY <1>1, <1>2, <1>4, <1>5, <1>6, EHeld

\* The listings of a statement that ended are in order.
LEMMA EFree ==
  ASSUME query = EmptyQuery, \A s \in Scans : lists[s] = NoScan,
         \A d \in DOMAIN connListings : UpTo(connListings[d])
  PROVE  EInv
<1>1. DOMAIN query.listings = {} /\ \A table \in BOOLEAN : query.samples[table] = None
  BY DEF EmptyQuery, NoListings
<1>2. \A s \in Scans : ~Active(s)
  BY NoScanFacts DEF Active
<1>3. OrderedInv
  BY <1>1 DEF OrderedInv, ListingsOf
<1>4. \A table \in BOOLEAN : TableInv(table)
  BY <1>1 DEF TableInv
<1>5. QED
  BY <1>2, <1>3, <1>4 DEF EInv

LEMMA EFreeNext ==
  (query = EmptyQuery /\ (\A s \in Scans : lists[s] = NoScan)
     /\ (\A d \in DOMAIN connListings : UpTo(connListings[d])) => EInv)'
<1>1. query = EmptyQuery /\ (\A s \in Scans : lists[s] = NoScan)
        /\ (\A d \in DOMAIN connListings : UpTo(connListings[d])) => EInv
  BY EFree
<1>2. QED
  BY <1>1, PTL

LEMMA EInit == Init => EInv
BY EFree DEF Init, NoListings

LEMMA EQueryEnd ==
  ASSUME IInv, EInv, QueryEnd
  PROVE  EInv'
<1>1. query' = EmptyQuery /\ \A s \in Scans : lists'[s] = NoScan
  BY DEF QueryEnd
<1>2. connListings' = NoListings \/ (case.cacheListings /\ connListings' = connListings)
  BY DEF QueryEnd, ListingsKept
<1>3. \A d \in DOMAIN connListings' : UpTo(connListings'[d])
  <2>1. CASE connListings' = NoListings
    BY <2>1 DEF NoListings
  <2>2. CASE case.cacheListings /\ connListings' = connListings
    <3>1. ListingsOf(TRUE) = connListings
      BY <2>2 DEF ListingsOf
    <3>2. QED
      BY <2>2, <3>1 DEF EInv, OrderedInv
  <2>3. QED
    BY <1>2, <2>1, <2>2
<1>4. QED
  BY <1>1, <1>3, EFreeNext DEF UpTo

-----------------------------------------------------------------------------
(***************************************************************************)
(* The steps that list a directory.                                        *)
(***************************************************************************)
\* The listings kept once a scan listed a directory as l: l is more of what was kept.
LEMMA ListingsMore ==
  ASSUME IInv, OrderedInv, case' = case, Open, NEW s \in Scans, Active(s), NEW d \in Dirs,
         NEW l \in ListingSet, UpTo(l), MoreOf(GetDirectoryListing(s, d), d, l),
         query'.listings = QueryWith(s, d, l).listings, connListings' = ConnectionWith(s, d, l)
  PROVE  OrderedInv' /\ \A table \in BOOLEAN : KeepsRoot(ListingsOf(table), (ListingsOf(table))')
<1>1. PICK one : one = [x \in {d} |-> l]
  OBVIOUS
<1>2. TypeInv /\ DOMAIN one = {d} /\ one[d] = l
  BY <1>1 DEF IInv
<1>3. PICK held, start : held = KeptListings(s) /\ start = GetDirectoryListing(s, d)
  OBVIOUS
<1>4. ASSUME NEW table \in BOOLEAN
      PROVE  \/ (ListingsOf(table))' = ListingsOf(table)
             \/ ListingsOf(table) = held /\ (ListingsOf(table))' = Extended(held, one)
  <2>1. CASE CacheListings(s)
    <3>1. query'.listings = query.listings /\ connListings' = Extended(connListings, one)
          /\ held = connListings
      BY <1>1, <1>3, <2>1 DEF QueryWith, ConnectionWith, KeptListings
    <3>2. QED
      BY <3>1 DEF ListingsOf
  <2>2. CASE ~CacheListings(s)
    <3>1. query'.listings = Extended(query.listings, one) /\ connListings' = connListings
          /\ held = query.listings
      <4>1. PICK ext : ext = Extended(query.listings, one)
        OBVIOUS
      <4>2. QueryWith(s, d, l) = [query EXCEPT !.listings = ext]
        BY <1>1, <2>2, <4>1 DEF QueryWith
      <4>3. QueryWith(s, d, l).listings = ext
        BY <1>2, <4>2 DEF TypeInv, QuerySet
      <4>4. QED
        BY <1>3, <2>2, <4>1, <4>3 DEF ConnectionWith, KeptListings
    <3>2. QED
      BY <3>1 DEF ListingsOf
  <2>3. QED
    BY <2>1, <2>2
<1>5. PICK later : later = Extended(held, one)
  OBVIOUS
<1>6. /\ DOMAIN later = DOMAIN held \cup {d} /\ later[d] = l
      /\ \A e \in DOMAIN held : e # d => later[e] = held[e]
  BY <1>2, <1>5 DEF Extended
<1>7. d \in DOMAIN held => start = held[d]
  BY <1>3 DEF GetDirectoryListing
<1>8. start \in ListingSet
  BY <1>3, SharedListing DEF IInv
<1>9. \A e \in DOMAIN held : UpTo(held[e])
  BY <1>2, <1>3, ListingsOfScan DEF OrderedInv
<1>10. \A e \in DOMAIN later : UpTo(later[e])
  BY <1>6, <1>9
<1>11. KeepsRoot(held, later)
  <2>1. CASE d = Root
    <3>1. ASSUME Root \in DOMAIN held, NEW f \in Files, MayHold(later[Root], f)
          PROVE  MayHold(held[Root], f)
      BY <1>3, <1>6, <1>7, <1>8, <2>1, <3>1, MoreHolds
    <3>2. QED
      BY <1>6, <2>1, <3>1 DEF KeepsRoot
  <2>2. CASE d # Root
    BY <1>6, <2>2 DEF KeepsRoot
  <2>3. QED
    BY <2>1, <2>2
<1>12. \A kept : KeepsRoot(kept, kept)
  BY DEF KeepsRoot
<1>13. ASSUME NEW table \in BOOLEAN
       PROVE  /\ KeepsRoot(ListingsOf(table), (ListingsOf(table))')
              /\ \A e \in DOMAIN (ListingsOf(table))' : UpTo((ListingsOf(table))'[e])
  <2>1. PICK kept, next : kept = ListingsOf(table) /\ next = (ListingsOf(table))'
    OBVIOUS
  <2>2. kept = next \/ (kept = held /\ next = later)
    BY <1>4, <1>5, <2>1
  <2>3. \A e \in DOMAIN kept : UpTo(kept[e])
    BY <2>1 DEF OrderedInv
  <2>4. KeepsRoot(kept, next) /\ \A e \in DOMAIN next : UpTo(next[e])
    BY <1>10, <1>11, <1>12, <2>2, <2>3
  <2>5. QED
    BY <2>1, <2>4
<1>14. QED
  BY <1>13 DEF OrderedInv, UpTo

\* A directory listed to its end is in order, and more of what was listed of it.
LEMMA AllMore ==
  ASSUME TypeInv, StoreInv, ListingsInv, OrderedInv, NEW s \in Scans, Active(s), NEW d \in Dirs,
         NEW l, l = AllPages(GetDirectoryListing(s, d), d)
  PROVE  l \in ListingSet /\ MoreOf(GetDirectoryListing(s, d), d, l) /\ UpTo(l)
<1>1. PICK start : start = GetDirectoryListing(s, d)
  OBVIOUS
<1>2. start \in ListingSet /\ UpTo(start) /\ stored \in SUBSET Files /\ l \in ListingSet
  BY <1>1, SharedListing, SharedUpTo DEF TypeInv
<1>3. Cardinality(Files) \in Nat /\ l = Fetched(start, d, Cardinality(Files))
  BY <1>1, TreeAssumption, FS_CardinalityType DEF AllPages
<1>4. QED
  BY <1>1, <1>2, <1>3, FetchedFacts, FetchedUpTo

\* And so are the listings kept then.
LEMMA ListedMore ==
  ASSUME IInv, OrderedInv, Open, Quiet, NEW s \in Scans, Active(s), NEW d \in Dirs, NEW l,
         Listed(s, d, l), l = AllPages(GetDirectoryListing(s, d), d)
  PROVE  OrderedInv' /\ \A table \in BOOLEAN : KeepsRoot(ListingsOf(table), (ListingsOf(table))')
<1>1. TypeInv /\ StoreInv /\ ListingsInv /\ case' = case
  BY DEF IInv, Quiet
<1>2. l \in ListingSet /\ MoreOf(GetDirectoryListing(s, d), d, l) /\ UpTo(l)
  BY <1>1, AllMore
<1>3. query'.listings = QueryWith(s, d, l).listings /\ connListings' = ConnectionWith(s, d, l)
  BY DEF Listed
<1>4. QED
  BY <1>1, <1>2, <1>3, ListingsMore

LEMMA ETask ==
  ASSUME IInv, EInv, NEW s \in Scans, NEW p \in Partitions, ListPartitionTask(s, p)
  PROVE  EInv'
<1>1. /\ error = None /\ lists[s].st = "listing" /\ Quiet /\ Active(s)
      /\ infos' = infos
  BY DEF ListPartitionTask, Quiet, Active
<1>2. /\ Open /\ TypeInv /\ KeepsStore /\ OrderedInv /\ lists \in [Scans -> ListSet]
  BY <1>1, MovesWhileOpen, QuietKeeps DEF Finished, IInv, TypeInv, EInv
<1>3. PICK d \in Dirs : d = Glue(p).dir
  BY <1>2, GlueType DEF TypeInv
<1>4. PICK listing : listing = AllPages(GetDirectoryListing(s, d), d)
  OBVIOUS
<1>5. PICK listed : /\ Listed(s, d, listing)
                    /\ lists' = [lists EXCEPT ![s].listed = listed]
  BY <1>3, <1>4 DEF ListPartitionTask, Listed
<1>6. OrderedInv' /\ \A table \in BOOLEAN : KeepsRoot(ListingsOf(table), (ListingsOf(table))')
  BY <1>1, <1>2, <1>4, <1>5, ListedMore
<1>7. query'.partitions = query.partitions /\ query'.samples = query.samples
  BY <1>1, <1>4, <1>5, ListedFacts
<1>8. KeepsQuery
  BY <1>7 DEF KeepsQuery
<1>9. \A t \in Scans \ {s} : lists'[t] = lists[t]
  BY <1>2, <1>5
<1>10. /\ lists'[s].estimate = lists[s].estimate /\ lists'[s].info = lists[s].info
       /\ lists'[s].idx = lists[s].idx /\ lists'[s].next = lists[s].next
       /\ lists'[s].files = lists[s].files
  BY <1>2, <1>5 DEF ListSet
<1>11. \A table \in BOOLEAN : query'.samples[table] = query.samples[table]
  BY <1>7
<1>12. QED
  BY <1>1, <1>2, <1>6, <1>8, <1>9, <1>10, <1>11, EMoves

\* The files of a job are added: those of a batch are the files of its partitions.
LEMMA EAdded ==
  ASSUME IInv, EInv, Open, Quiet, NEW s \in Scans, lists[s].st \in {"scanning", "listing"},
         query'.partitions = query.partitions, query'.samples = query.samples,
         OrderedInv', \A table \in BOOLEAN : KeepsRoot(ListingsOf(table), (ListingsOf(table))'),
         NEW owners, AddFiles(s, owners),
         case.partitioned /\ ~PlanListings(s)[lists[s].next].root =>
           \A p \in PlanListings(s)[lists[s].next].parts : \A f \in always :
             Owner(Parts(s), f) = p /\ IsDataFile(f, Glue(p).dir) => f \in DOMAIN owners
  PROVE  EInv'
<1>1. /\ TypeInv /\ Active(s) /\ KeepsStore /\ lists \in [Scans -> ListSet]
      /\ infos \in [Scans -> InfoSet] /\ lists[s] \in ListSet
  BY QuietKeeps DEF IInv, Active, TypeInv
<1>2. PICK i \in Scans : i = lists[s].info
  BY <1>1 DEF TypeInv, Active
<1>3. PICK files, fileOf, next :
        /\ files = lists[s].files \cup (DOMAIN owners \ lists[s].files)
        /\ next = lists[s].next + 1
        /\ lists' = [lists EXCEPT ![s] = [lists[s] EXCEPT !.st = "scanning", !.next = next,
                                                          !.listed = NoListings, !.files = files]]
        /\ infos' = [infos EXCEPT ![i].fileOf = fileOf]
  BY <1>1, <1>2 DEF AddFiles
<1>4. \A t \in Scans \ {s} : lists'[t] = lists[t]
  BY <1>1, <1>3
<1>5. PICK l : l = [lists[s] EXCEPT !.st = "scanning", !.next = next,
                                    !.listed = NoListings, !.files = files]
  OBVIOUS
<1>6. /\ l.estimate = lists[s].estimate /\ l.info = i /\ l.idx = lists[s].idx
      /\ l.next = next /\ l.files = files
  BY <1>1, <1>2, <1>5 DEF ListSet
<1>7. lists'[s] = l
  BY <1>1, <1>3, <1>5
<1>8. \A j \in Scans : /\ infos'[j].table = infos[j].table /\ infos'[j].whole = infos[j].whole
                       /\ infos'[j].parts = infos[j].parts
  <2>1. \A j \in Scans \ {i} : infos'[j] = infos[j]
    BY <1>1, <1>3
  <2>2. /\ infos'[i].table = infos[i].table /\ infos'[i].whole = infos[i].whole
        /\ infos'[i].parts = infos[i].parts
    BY <1>1, <1>3 DEF InfoSet
  <2>3. QED
    BY <2>1, <2>2
<1>9. KeepsView(s) /\ KeepsQuery
  BY <1>1, <1>2, <1>6, <1>7, <1>8 DEF KeepsView, KeepsQuery, KeepsStore
<1>10. ASSUME case.partitioned PROVE OwnInv(s)'
  <2>1. PICK jobs, parts : /\ jobs = PlanListings(s) /\ jobs = PlanListings(s)'
                           /\ parts = Parts(s) /\ parts = Parts(s)'
    BY <1>9, ViewFrame
  <2>2. /\ \A p : (Glue(p))' = Glue(p)
        /\ \A f : (Owner(parts, f))' = Owner(parts, f)
    BY <1>1, GlueFrame DEF KeepsStore
  <2>3. Open' => Open /\ always' \subseteq always
    BY <1>1 DEF KeepsStore
  <2>4. lists[s].next \in Nat \ {0} /\ next = lists[s].next + 1
    BY <1>1, <1>3 DEF ListSet
  <2>5. OwnInv(s)
    BY <1>1, <1>10 DEF EInv
  <2>6. ASSUME Open', NEW j \in 1 .. next - 1, ~jobs[j].root,
               NEW p \in jobs[j].parts, NEW f \in always', (Owner(parts, f))' = p,
               IsDataFile(f, (Glue(p))'.dir)
        PROVE  f \in files
    <3>1. f \in always /\ Owner(parts, f) = p /\ IsDataFile(f, Glue(p).dir)
      BY <2>2, <2>3, <2>6
    <3>2. CASE j = lists[s].next
      BY <1>3, <1>10, <2>1, <2>6, <3>1, <3>2
    <3>3. CASE j # lists[s].next
      <4>1. j \in 1 .. lists[s].next - 1
        BY <2>4, <2>6, <3>3
      <4>2. f \in lists[s].files
        BY <2>1, <2>3, <2>5, <2>6, <3>1, <4>1 DEF OwnInv
      <4>3. QED
        BY <1>3, <4>2
    <3>4. QED
      BY <3>2, <3>3
  <2>7. lists'[s].next = next /\ lists'[s].files = files
    BY <1>6, <1>7
  <2>8. QED
    BY <2>1, <2>6, <2>7 DEF OwnInv, Owner, OwningPartition, RegisteredAt, IsDataFile, UnderDir
<1>11. /\ lists'[s].estimate = lists[s].estimate /\ lists'[s].info = lists[s].info
  BY <1>2, <1>6, <1>7
<1>12. \A table \in BOOLEAN : query'.samples[table] = query.samples[table]
  OBVIOUS
<1>13. QED
  BY <1>1, <1>4, <1>8, <1>9, <1>10, <1>11, <1>12, EMoves

LEMMA ERoot ==
  ASSUME IInv, EInv, Open, Quiet, NEW s \in Scans, error = None, lists[s].st = "scanning",
         PlanListings(s)[lists[s].next].root, NEW reading, ListRoot(s, reading)
  PROVE  EInv'
<1>1. TypeInv /\ Active(s) /\ OrderedInv /\ KeepsStore /\ Root \in Dirs
  BY TreeAssumption, QuietKeeps DEF IInv, Active, EInv
<1>2. PICK listing : listing = AllPages(GetDirectoryListing(s, Root), Root)
  OBVIOUS
<1>3. PICK owners : /\ Listed(s, Root, listing)
                    /\ UNCHANGED <<lists, infos>> \/ AddFiles(s, owners)
  BY <1>2 DEF ListRoot, Listed
<1>4. OrderedInv' /\ \A table \in BOOLEAN : KeepsRoot(ListingsOf(table), (ListingsOf(table))')
  BY <1>1, <1>2, <1>3, ListedMore
<1>5. query'.partitions = query.partitions /\ query'.samples = query.samples
  BY <1>1, <1>2, <1>3, ListedFacts
<1>6. CASE UNCHANGED <<lists, infos>>
  <2>1. KeepsQuery /\ \A table \in BOOLEAN : query'.samples[table] = query.samples[table]
    BY <1>5 DEF KeepsQuery
  <2>2. QED
    BY <1>1, <1>4, <1>6, <2>1, EMoves
<1>7. CASE AddFiles(s, owners)
  BY <1>1, <1>4, <1>5, <1>7, EAdded
<1>8. QED
  BY <1>3, <1>6, <1>7

LEMMA EExpand ==
  ASSUME IInv, EInv, NEW s \in Scans, ExpandNextPath(s)
  PROVE  EInv'
<1>1. /\ error = None /\ lists[s].st = "scanning" /\ Quiet /\ Active(s)
  BY DEF ExpandNextPath, Quiet, Active
<1>2. Open /\ TypeInv /\ KeepsStore /\ lists \in [Scans -> ListSet]
  BY <1>1, MovesWhileOpen, QuietKeeps DEF Finished, IInv, TypeInv
<1>3. PICK job : job = PlanListings(s)[lists[s].next]
  OBVIOUS
<1>4. CASE job.root /\ ListRoot(s, job.parts)
  BY <1>1, <1>2, <1>3, <1>4, ERoot
<1>5. CASE ~(job.root /\ ListRoot(s, job.parts))
  <2>1. PICK st : /\ UNCHANGED <<query, connListings, infos>>
                  /\ UNCHANGED lists \/ lists' = [lists EXCEPT ![s].st = st]
    BY <1>3, <1>5 DEF ExpandNextPath
  <2>2. CASE UNCHANGED lists
    BY <1>2, <2>1, <2>2, EStays
  <2>3. CASE lists' = [lists EXCEPT ![s].st = st]
    <3>1. \A t \in Scans \ {s} : lists'[t] = lists[t]
      BY <1>2, <2>3
    <3>2. /\ lists'[s].estimate = lists[s].estimate /\ lists'[s].info = lists[s].info
          /\ lists'[s].idx = lists[s].idx /\ lists'[s].next = lists[s].next
          /\ lists'[s].files = lists[s].files
      BY <1>2, <2>3 DEF ListSet
    <3>3. KeepsQuery
      BY <2>1 DEF KeepsQuery
    <3>4. QED
      BY <1>1, <1>2, <2>1, <3>1, <3>2, <3>3, EOnlyMoves
  <2>4. QED
    BY <2>1, <2>2, <2>3
<1>6. QED
  BY <1>4, <1>5

LEMMA EBatchListed ==
  ASSUME IInv, EInv, NEW s \in Scans, ListPartitions(s)
  PROVE  EInv'
<1>1. /\ error = None /\ lists[s].st = "listing" /\ Quiet /\ Active(s)
      /\ DOMAIN lists[s].listed = Batch(s)
      /\ UNCHANGED <<query, connListings>>
  BY DEF ListPartitions, Quiet, Active
<1>2. /\ Open /\ TypeInv /\ ScanInv(s) /\ Loaded(s) /\ BatchInv(s) /\ case.partitioned
      /\ lists[s].next <= Len(PlanListings(s)) /\ KeepsStore /\ OrderedInv /\ case' = case
  BY <1>1, MovesWhileOpen, QuietKeeps
  DEF Finished, IInv, EInv, ScanInv, ShapeInv, BatchInv, Quiet
<1>3. PICK parts \in SUBSET Partitions : parts = Parts(s)
  BY <1>1, <1>2, IndexesType
<1>4. PICK batch, listed : batch = Batch(s) /\ listed = lists[s].listed
  OBVIOUS
<1>5. batch \subseteq parts
  <2>1. PICK jobs : jobs = PlanListings(s) /\ PlanFor(s, jobs)
    BY <1>1, <1>2, PlanFacts
  <2>2. lists[s].next \in 1 .. Len(jobs)
    BY <1>1, <1>2, <2>1 DEF ScanInv, JobsInv, PlanFor
  <2>3. QED
    BY <1>2, <1>3, <1>4, <2>1, <2>2, IndexesKnown DEF Batch, PlanFor, ScanInv
<1>6. \A p \in batch : \A f \in always : IsDataFile(f, Glue(p).dir) => f \in listed[p]
  BY <1>1, <1>2, <1>4 DEF BatchInv
<1>7. PICK mine : mine =
         UNION {{<<f, p>> : f \in {g \in listed[p] :
                   OwningPartition(parts, g, AtOrBelow(Glue(p).dir)) = p}} : p \in batch}
  OBVIOUS
<1>8. PICK owners : owners = [f \in {m[1] : m \in mine} |-> (CHOOSE m \in mine : m[1] = f)[2]]
  OBVIOUS
<1>9. UNCHANGED <<lists, infos>> \/ AddFiles(s, owners)
  BY <1>3, <1>4, <1>7, <1>8 DEF ListPartitions
<1>10. OrderedInv' /\ \A table \in BOOLEAN : KeepsRoot(ListingsOf(table), (ListingsOf(table))')
  BY <1>1, <1>2, ListingsStay
<1>11. CASE UNCHANGED <<lists, infos>>
  BY <1>1, <1>2, <1>11, EStays
<1>12. CASE AddFiles(s, owners)
  <2>1. ASSUME NEW p \in batch, NEW f \in always, Owner(parts, f) = p, IsDataFile(f, Glue(p).dir)
        PROVE  f \in DOMAIN owners
    <3>1. f \in listed[p] /\ f \in Files /\ p \in parts /\ UnderDir(f, Glue(p).dir)
      BY <1>2, <1>5, <1>6, <2>1 DEF TypeInv, IsDataFile
    <3>2. OwningPartition(parts, f, AtOrBelow(Glue(p).dir)) = p
      BY <1>2, <2>1, <3>1, OwnerBelow
    <3>3. <<f, p>> \in {<<g, p>> : g \in {h \in listed[p] :
                        OwningPartition(parts, h, AtOrBelow(Glue(p).dir)) = p}}
      BY <3>1, <3>2
    <3>4. <<f, p>> \in mine
      BY <1>7, <3>3
    <3>5. PICK m \in mine : m[1] = f
      BY <3>4
    <3>6. QED
      BY <1>8, <3>5
  <2>2. \A p \in PlanListings(s)[lists[s].next].parts : \A f \in always :
          Owner(Parts(s), f) = p /\ IsDataFile(f, Glue(p).dir) => f \in DOMAIN owners
    BY <1>3, <1>4, <2>1 DEF Batch
  <2>3. query'.partitions = query.partitions /\ query'.samples = query.samples
    BY <1>1
  <2>4. QED
    BY <1>1, <1>2, <1>10, <1>12, <2>2, <2>3, EAdded
<1>13. QED
  BY <1>9, <1>11, <1>12

-----------------------------------------------------------------------------
(***************************************************************************)
(* The step that measures the table.                                       *)
(***************************************************************************)
\* The listing just made is the one kept for the table.
LEMMA ListingKept ==
  ASSUME TypeInv, case' = case, NEW s \in Scans, Active(s), NEW d, NEW l,
         query'.listings = QueryWith(s, d, l).listings, connListings' = ConnectionWith(s, d, l),
         NEW table, table = Info(s).table, NEW kept, kept = (ListingsOf(table))'
  PROVE  d \in DOMAIN kept /\ kept[d] = l
<1>1. PICK one : one = [x \in {d} |-> l]
  OBVIOUS
<1>2. DOMAIN one = {d} /\ one[d] = l
  BY <1>1
<1>3. CacheListings(s) <=> (case.cacheListings /\ table)
  BY ListingsOfScan
<1>4. PICK held : kept = Extended(held, one)
  <2>1. CASE CacheListings(s)
    <3>1. kept = connListings'
      BY <1>3, <2>1 DEF ListingsOf
    <3>2. QED
      BY <1>1, <2>1, <3>1 DEF ConnectionWith
  <2>2. CASE ~CacheListings(s)
    <3>1. kept = query'.listings
      BY <1>3, <2>2 DEF ListingsOf
    <3>2. PICK ext : ext = Extended(query.listings, one)
      OBVIOUS
    <3>3. QueryWith(s, d, l) = [query EXCEPT !.listings = ext]
      BY <1>1, <2>2, <3>2 DEF QueryWith
    <3>4. QueryWith(s, d, l).listings = ext
      BY <3>3 DEF TypeInv, QuerySet
    <3>5. QED
      BY <3>1, <3>2, <3>4
  <2>3. QED
    BY <2>1, <2>2
<1>5. QED
  BY <1>2, <1>4 DEF Extended

\* The sizes of a sample, by the numbers of the partitions.
SizesByOwner(parts, owners) ==
  [n \in {NumberOf(parts, owners[f]) : f \in DOMAIN owners} |->
     {f \in DOMAIN owners : NumberOf(parts, owners[f]) = n}]

LEMMA SizesMade ==
  ASSUME NEW parts \in SUBSET Partitions, NEW owners, \A f \in DOMAIN owners : owners[f] \in parts,
         NEW sample, sample.sizes = SizesByOwner(parts, owners),
         NEW p \in parts, Counted(parts, sample, p)
  PROVE  /\ \A f : f \in SizeOf(parts, sample, p) <=> f \in DOMAIN owners /\ owners[f] = p
         /\ \E g \in DOMAIN owners : owners[g] = p
<1>1. PICK n : n = NumberOf(parts, p)
  OBVIOUS
<1>2. \A f \in DOMAIN owners : NumberOf(parts, owners[f]) = n <=> owners[f] = p
  BY <1>1, NumberInjective
<1>3. /\ n \in {NumberOf(parts, owners[f]) : f \in DOMAIN owners}
      /\ SizeOf(parts, sample, p) = {f \in DOMAIN owners : NumberOf(parts, owners[f]) = n}
  BY <1>1 DEF Counted, SizeOf, SizesByOwner
<1>4. QED
  BY <1>2, <1>3

\* What a sample holds of its partitions, its sizes do.
LEMMA SampleSizes ==
  ASSUME NEW s, NEW m, SampleWhole(s, m), NEW parts \in SUBSET Partitions, parts = Parts(s),
         DOMAIN m.owners \in SUBSET Files, always \in SUBSET Files,
         NEW sample, sample.root = m.root, sample.sizes = SizesByOwner(parts, m.owners),
         NEW kept, m.dir \in DOMAIN kept /\ kept[m.dir] = m.listing
  PROVE  SizesInv(parts, sample) /\ RootSeen(parts, sample, kept)
<1>1. PICK owners : owners = m.owners
  OBVIOUS
<1>2. \A f \in DOMAIN owners :
        /\ f \in Files /\ owners[f] \in parts /\ owners[f] = Owner(parts, f)
        /\ IsDataFile(f, Glue(owners[f]).dir) /\ (m.root => IsDataFile(f, Root))
        /\ Open => f \in ever
  BY <1>1 DEF SampleWhole
<1>3. ASSUME NEW p \in parts, Counted(parts, sample, p)
      PROVE  /\ \A f : f \in SizeOf(parts, sample, p) <=> f \in DOMAIN owners /\ owners[f] = p
             /\ \E g \in DOMAIN owners : owners[g] = p
  <2>1. sample.sizes = SizesByOwner(parts, owners) /\ \A f \in DOMAIN owners : owners[f] \in parts
    BY <1>1, <1>2
  <2>2. QED
    BY ONLY <1>3, <2>1, p \in parts, parts \in SUBSET Partitions, SizesMade
<1>4. ASSUME NEW p \in parts, Counted(parts, sample, p), NEW f \in Files,
             AloneIn(parts, p), Owner(parts, f) = p
      PROVE  /\ m.root /\ IsDataFile(f, Root) /\ MayHold(m.listing, f)
                  => f \in SizeOf(parts, sample, p)
             /\ Open /\ f \in always /\ IsDataFile(f, Glue(p).dir) => f \in SizeOf(parts, sample, p)
  <2>1. PICK g \in DOMAIN owners : owners[g] = p
    BY <1>3, <1>4
  <2>2. /\ m.root /\ IsDataFile(f, Root) /\ MayHold(m.listing, f) => f \in DOMAIN owners
        /\ Open /\ f \in always /\ IsDataFile(f, Glue(p).dir) => f \in DOMAIN owners
    BY <1>1, <1>4, <2>1 DEF SampleWhole
  <2>3. f \in DOMAIN owners => owners[f] = p
    BY <1>2, <1>4
  <2>4. QED
    BY <1>3, <1>4, <2>2, <2>3
<1>5. ASSUME NEW p \in parts, Counted(parts, sample, p), ~m.root
      PROVE  ~ByRoot(parts, {p}) /\ \A r \in parts : Counted(parts, sample, r) => r = p
  <2>1. PICK g \in DOMAIN owners : owners[g] = p
    BY <1>3, <1>5
  <2>2. \A f, h \in DOMAIN owners : owners[f] = owners[h] /\ ~ByRoot(parts, {owners[f]})
    BY <1>1, <1>5 DEF SampleWhole
  <2>3. QED
    BY <1>3, <2>1, <2>2
<1>6. ASSUME NEW p \in parts, Counted(parts, sample, p)
      PROVE  /\ SizeOf(parts, sample, p) # {}
             /\ \A f \in SizeOf(parts, sample, p) :
                  /\ f \in Files /\ Owner(parts, f) = p /\ IsDataFile(f, Glue(p).dir)
                  /\ Open => f \in ever
                  /\ sample.root => IsDataFile(f, Root)
  BY <1>2, <1>3, <1>6
<1>8. SizesInv(parts, sample)
  <2>1. ASSUME NEW p \in parts, Counted(parts, sample, p), Open, AloneIn(parts, p),
               NEW f \in always, Owner(parts, f) = p, IsDataFile(f, Glue(p).dir)
        PROVE  f \in SizeOf(parts, sample, p)
    BY <1>4, <2>1
  <2>2. QED
    BY <1>5, <1>6, <2>1 DEF SizesInv
<1>9. RootSeen(parts, sample, kept)
  <2>1. m.root => m.dir = Root
    BY DEF SampleWhole
  <2>2. QED
    BY <1>4, <2>1 DEF RootSeen
<1>10. QED
  BY <1>8, <1>9

\* The estimate is made from the sample of the table.
LEMMA EstimateMade ==
  ASSUME IInv, case' = case, case.partitioned, NEW s \in Scans, Active(s), Loaded(s),
         PartitionIndexes(s) # {}, NEW sample, sample # None,
         lists'[s].info = lists[s].info, lists'[s].estimate = EstimateOf(s, sample),
         infos'[lists[s].info].parts = infos[lists[s].info].parts,
         infos'[lists[s].info].table = infos[lists[s].info].table,
         NEW table, table = Info(s).table, query'.samples[table] = sample,
         query'.partitions = query.partitions
  PROVE  EstimateInv(s)'
<1>1. PICK i \in Scans : i = lists[s].info /\ table = infos[i].table
  BY DEF IInv, TypeInv, Active, Info
<1> SUFFICES ASSUME NEW e, e = lists'[s].estimate, e # None,
                    NEW parts, parts = query'.partitions
             PROVE  /\ Loaded(s)' /\ (e.idx = {} => e.files = 0)
                    /\ e.idx # {} => /\ sample # None
                                     /\ infos'[i].parts = parts => EstimatedFrom(parts, sample, e)
  BY <1>1 DEF EstimateInv, Info, Parts
<1>2. Loaded(s)'
  BY <1>1 DEF Loaded, Info
<1>3. PICK idx, numbers, seen : /\ idx = PartitionIndexes(s) /\ seen = DOMAIN sample.sizes
                                /\ numbers = {Index(i, p) : p \in idx}
  OBVIOUS
<1>4. e = [files |-> FilesAt(sample.sizes, numbers \cap seen) * Cardinality(seen)
                       + Cardinality(numbers \ seen) * FilesAt(sample.sizes, seen),
           of |-> Cardinality(seen), idx |-> idx]
  BY <1>1, <1>3 DEF EstimateOf
<1>5. e.idx = idx /\ idx # {}
  BY <1>3, <1>4
<1>6. ASSUME infos'[i].parts = parts PROVE EstimatedFrom(parts, sample, e)
  <2>1. infos[i].parts = query.partitions /\ parts = query.partitions
    BY <1>1, <1>6
  <2>2. \A p : Index(i, p) = NumberOf(parts, p)
    BY <2>1, IndexNumber
  <2>3. numbers = {NumberOf(parts, p) : p \in e.idx}
    BY <1>3, <1>5, <2>2
  <2>4. e.of = Cardinality(seen)
        /\ e.files = FilesAt(sample.sizes, numbers \cap seen) * Cardinality(seen)
                       + Cardinality(numbers \ seen) * FilesAt(sample.sizes, seen)
    BY <1>4
  <2>5. QED
    BY <1>3, <2>3, <2>4 DEF EstimatedFrom
<1>7. QED
  BY <1>2, <1>5, <1>6

LEMMA ECardinality ==
  ASSUME IInv, EInv, NEW s \in Scans, HiveScanCardinality(s)
  PROVE  EInv'
<1>1. /\ TypeInv /\ StoreInv /\ ListingsInv /\ OrderedInv /\ error = None
      /\ lists[s].st = "planning" /\ Loaded(s) /\ Quiet /\ Active(s) /\ KeepsStore /\ case' = case
  BY QuietKeeps DEF HiveScanCardinality, IInv, EInv, Quiet, Active
<1>2. Open /\ ScanInv(s) /\ lists \in [Scans -> ListSet] /\ infos \in [Scans -> InfoSet]
  BY <1>1, MovesWhileOpen DEF Finished, IInv, TypeInv
<1>3. PICK i \in Scans, table \in BOOLEAN :
        i = lists[s].info /\ table = Info(s).table /\ table = infos[i].table
  BY <1>1, <1>2 DEF ScanInv, ShapeInv, Info, InfoSet
<1>4. PICK idx : idx = PartitionIndexes(s)
  OBVIOUS
<1>5. ASSUME NEW e, lists' = [lists EXCEPT ![s].estimate = e]
      PROVE  /\ \A t \in Scans \ {s} : lists'[t] = lists[t]
             /\ lists'[s].estimate = e /\ lists'[s].info = lists[s].info
             /\ lists'[s].idx = lists[s].idx /\ lists'[s].next = lists[s].next
             /\ lists'[s].files = lists[s].files
  BY <1>2, <1>5 DEF ListSet
<1>6. ASSUME NEW e, lists' = [lists EXCEPT ![s].estimate = e],
             UNCHANGED <<query, connListings, infos>>,
             case.partitioned => e = None \/ EstimateInv(s)'
      PROVE  EInv'
  <2>1. KeepsQuery
    BY <1>6 DEF KeepsQuery
  <2>2. QED
    BY <1>1, <1>5, <1>6, <2>1, EOnlyMoves
<1>7. CASE case.partitioned /\ idx = {}
  <2>1. PICK e : e = [files |-> 0, of |-> 1, idx |-> {}]
    OBVIOUS
  <2>2. /\ lists' = [lists EXCEPT ![s].estimate = e]
        /\ UNCHANGED <<query, connListings, infos>>
    BY <1>4, <1>7, <2>1 DEF HiveScanCardinality
  <2>3. Loaded(s)'
    BY <1>1, <1>5, <2>2 DEF Loaded, Info
  <2>4. e.idx = {} /\ e.files = 0 /\ lists'[s].estimate = e
    BY <1>5, <2>1, <2>2
  <2>5. EstimateInv(s)'
    <3>1. ASSUME NEW x, x = lists'[s].estimate PROVE x.idx = {} /\ x.files = 0
      BY <2>4, <3>1
    <3>2. QED
      BY <2>3, <3>1 DEF EstimateInv
  <2>6. QED
    BY <1>6, <2>2, <2>5
<1>8. CASE ~(case.partitioned /\ idx = {}) /\ query.samples[table] # None
  <2>1. PICK sample, e : sample = query.samples[table] /\ e = EstimateOf(s, sample)
    OBVIOUS
  <2>2. /\ lists' = [lists EXCEPT ![s].estimate = e]
        /\ UNCHANGED <<query, connListings, infos>>
    BY <1>3, <1>4, <1>8, <2>1 DEF HiveScanCardinality
  <2>3. ASSUME case.partitioned PROVE EstimateInv(s)'
    <3>1. /\ lists'[s].info = lists[s].info /\ lists'[s].estimate = EstimateOf(s, sample)
          /\ infos'[lists[s].info].parts = infos[lists[s].info].parts
          /\ infos'[lists[s].info].table = infos[lists[s].info].table
          /\ query'.samples[table] = sample /\ query'.partitions = query.partitions
          /\ PartitionIndexes(s) # {} /\ sample # None
      BY <1>4, <1>5, <1>8, <2>1, <2>2, <2>3
    <3>2. QED
      BY <1>1, <1>3, <2>3, <3>1, EstimateMade
  <2>4. QED
    BY <1>6, <2>2, <2>3
<1>9. CASE ~(case.partitioned /\ idx = {}) /\ query.samples[table] = None
  <2>1. PICK measured \in SampleDirectories(s) :
           \E m \in MeasurableFiles(s, measured.owners) : Measures(s, measured, m)
    <3>1. query.samples[Info(s).table] = None
      BY <1>3, <1>9
    <3>2. ~(case.partitioned /\ PartitionIndexes(s) = {})
      BY <1>4, <1>9
    <3>3. QED
      BY <3>1, <3>2 DEF HiveScanCardinality, Measures
  <2>2. PICK owners, d, l : owners = measured.owners /\ d = measured.dir /\ l = measured.listing
    OBVIOUS
  <2>3. PICK m \in MeasurableFiles(s, owners) : Measures(s, measured, m)
    BY <2>1, <2>2
  <2>a. PICK numbers : numbers = IF case.partitioned THEN {Index(i, owners[f]) : f \in DOMAIN owners}
                                 ELSE {}
    OBVIOUS
  <2>4. PICK sizes : sizes = [n \in numbers |-> {f \in DOMAIN owners : Index(i, owners[f]) = n}]
    OBVIOUS
  <2>5. PICK sample : sample = [listed |-> DOMAIN owners, root |-> measured.root, measured |-> m,
                                sizes |-> sizes, info |-> i]
    OBVIOUS
  <2>6. PICK e, q : e = EstimateOf(s, sample) /\ q = QueryWith(s, d, l)
    OBVIOUS
  <2>7. Info(s) = infos[i]
    BY <1>3 DEF Info
  <2>b. /\ query' = [q EXCEPT !.samples[table] = sample] /\ connListings' = ConnectionWith(s, d, l)
        /\ infos' = [infos EXCEPT ![i].fileOf = Extended(infos[i].fileOf, owners)]
        /\ lists' = [lists EXCEPT ![s].estimate = e]
    BY <1>3, <2>2, <2>3, <2>a, <2>4, <2>5, <2>6, <2>7 DEF Measures
  <2>8. PICK fileOf :
        /\ query' = [q EXCEPT !.samples[table] = sample] /\ connListings' = ConnectionWith(s, d, l)
        /\ infos' = [infos EXCEPT ![i].fileOf = fileOf]
        /\ lists' = [lists EXCEPT ![s].estimate = e]
    BY <2>b
  <2>9. PartitionIndexes(s) \subseteq Parts(s)
    BY <1>2, IndexesKnown DEF ScanInv
  <2>10. /\ d \in Dirs /\ l \in ListingSet /\ Faithful(l, d) /\ measured.root \in BOOLEAN
         /\ owners \in Partial(Files, PartitionOrNone) /\ DOMAIN owners \in SUBSET Files
    <3>1. Sampled(s, measured)
      BY <1>1, <1>4, <1>9, <2>9, TableSampled
    <3>2. QED
      BY <2>2, <3>1, PartialFacts DEF Sampled
  <2>11. case.partitioned => SampleWhole(s, measured)
    BY <1>1, <1>4, <1>9, <2>9, DirectoriesWhole
  <2>12. MoreOf(GetDirectoryListing(s, d), d, l) /\ UpTo(l)
    <3>1. CASE case.partitioned
      BY <2>2, <2>11, <3>1 DEF SampleWhole
    <3>2. CASE ~case.partitioned
      <4>1. d = Root /\ l = AllPages(GetDirectoryListing(s, Root), Root)
        BY <2>1, <2>2, <3>2 DEF SampleDirectories
      <4>2. QED
        BY <1>1, <2>10, <4>1, AllMore
    <3>3. QED
      BY <3>1, <3>2
  <2>13. q \in QuerySet /\ q.partitions = query.partitions /\ q.samples = query.samples
    BY <1>1, <2>6, <2>10, ListedOne
  <2>14. /\ query'.partitions = query.partitions /\ query'.listings = q.listings
         /\ query'.samples[table] = sample
         /\ \A other \in BOOLEAN \ {table} : query'.samples[other] = query.samples[other]
    <3>1. PICK samples : samples = [q.samples EXCEPT ![table] = sample]
      OBVIOUS
    <3>2. query' = [q EXCEPT !.samples = samples]
      BY <2>8, <2>13, <3>1
    <3>3. query'.partitions = q.partitions /\ query'.listings = q.listings /\ query'.samples = samples
      BY <2>13, <3>2 DEF QuerySet
    <3>4. q.samples \in [BOOLEAN -> SampleSet \cup {None}]
      BY <2>13 DEF QuerySet
    <3>5. QED
      BY <2>13, <3>1, <3>3, <3>4
  <2>15. OrderedInv' /\ \A t \in BOOLEAN : KeepsRoot(ListingsOf(t), (ListingsOf(t))')
    BY <1>1, <1>2, <2>6, <2>8, <2>10, <2>12, <2>14, ListingsMore
  <2>16. \A j \in Scans : /\ infos'[j].table = infos[j].table /\ infos'[j].whole = infos[j].whole
                          /\ infos'[j].parts = infos[j].parts
    <3>1. \A j \in Scans \ {i} : infos'[j] = infos[j]
      BY <1>2, <2>8
    <3>2. /\ infos'[i].table = infos[i].table /\ infos'[i].whole = infos[i].whole
          /\ infos'[i].parts = infos[i].parts
      BY <1>2, <2>8 DEF InfoSet
    <3>3. QED
      BY <3>1, <3>2
  <2>17. sample # None /\ sample.root = measured.root /\ sample.info = i /\ sample.sizes = sizes
    <3>1. case.partitioned => infos[i].parts \in SUBSET Partitions
      BY <1>1, <1>2, <2>7 DEF Loaded, InfoSet
    <3>2. numbers \in SUBSET (0 .. Cardinality(Partitions))
      BY <2>a, <3>1, IndexType
    <3>3. sizes \in [numbers -> SUBSET Files]
      BY <2>4, <2>10
    <3>4. m \in Files \cup {None}
      BY <2>10, MeasuredFacts
    <3>5. sample \in SampleRecord
      BY <2>5, <2>10, <3>2, <3>3, <3>4 DEF SampleRecord
    <3>6. QED
      BY <2>5, <3>5, SampleDistinct
  <2>18. ASSUME case.partitioned PROVE TableInv(table)'
    <3> SUFFICES ASSUME NEW parts, parts = query.partitions, infos[i].parts = parts,
                        NEW kept, kept = (ListingsOf(table))'
                 PROVE  SizesInv(parts, sample)' /\ RootSeen(parts, sample, kept)'
      BY <2>14, <2>16, <2>17 DEF TableInv
    <3>1. parts = Parts(s) /\ parts \in SUBSET Partitions
      <4>1. parts = Parts(s)
        BY <2>7, <2>18 DEF Parts
      <4>2. QED
        BY <1>1, <4>1, IndexesType
    <3>2. sample.sizes = SizesByOwner(parts, measured.owners)
      <4>1. \A p : Index(i, p) = NumberOf(parts, p)
        BY IndexNumber
      <4>2. numbers = {NumberOf(parts, owners[f]) : f \in DOMAIN owners}
        BY <2>a, <2>18, <4>1
      <4>3. sizes = SizesByOwner(parts, owners)
        BY <2>4, <4>1, <4>2 DEF SizesByOwner
      <4>4. QED
        BY <2>2, <2>17, <4>3
    <3>3. d \in DOMAIN kept /\ kept[d] = l
      <4>1. /\ query'.listings = QueryWith(s, d, l).listings /\ connListings' = ConnectionWith(s, d, l)
            /\ table = Info(s).table /\ case' = case
        BY <1>1, <1>3, <2>6, <2>8, <2>14
      <4>2. QED
        BY <1>1, <4>1, ListingKept
    <3>4. SampleWhole(s, measured) /\ DOMAIN measured.owners \in SUBSET Files
          /\ always \in SUBSET Files
      BY <1>1, <2>2, <2>10, <2>11, <2>18 DEF TypeInv
    <3>5. SizesInv(parts, sample) /\ RootSeen(parts, sample, kept)
      BY <2>2, <2>17, <3>1, <3>2, <3>3, <3>4, SampleSizes
    <3>6. KeepsRoot(kept, kept)
      BY DEF KeepsRoot
    <3>7. QED
      BY <1>1, <3>5, <3>6, SizesFrame, RootFrame
  <2>19. ASSUME case.partitioned PROVE EstimateInv(s)'
    <3>1. /\ lists'[s].info = lists[s].info /\ lists'[s].estimate = EstimateOf(s, sample)
          /\ infos'[lists[s].info].parts = infos[lists[s].info].parts
          /\ infos'[lists[s].info].table = infos[lists[s].info].table
          /\ PartitionIndexes(s) # {}
      BY <1>3, <1>4, <1>5, <1>9, <2>6, <2>8, <2>16, <2>19
    <3>2. QED
      BY <1>1, <1>3, <2>14, <2>17, <2>19, <3>1, EstimateMade
  <2>20. KeepsQuery
    BY <2>14 DEF KeepsQuery
  <2>21. \A t \in BOOLEAN : \/ query'.samples[t] = query.samples[t]
                            \/ query.samples[t] = None /\ (case.partitioned => TableInv(t)')
    BY <1>9, <2>14, <2>18
  <2>22. QED
    BY <1>1, <1>5, <2>8, <2>15, <2>16, <2>19, <2>20, <2>21, EMoves
<1>10. QED
  BY <1>7, <1>8, <1>9

-----------------------------------------------------------------------------
(***************************************************************************)
(* The invariant holds.                                                    *)
(***************************************************************************)
LEMMA EStutter ==
  ASSUME IInv, EInv, UNCHANGED vars
  PROVE  EInv'
<1>1. KeepsStore /\ UNCHANGED <<query, connListings, infos, lists>>
  BY DEF vars, KeepsStore, Open
<1>2. QED
  BY <1>1, EStays

\* Every action keeps the invariant.
LEMMA ENext ==
  ASSUME IInv, EInv, [Next]_vars
  PROVE  EInv'
<1>1. ASSUME NEW s \in Scans,
             \/ BindHiveScan(s) \/ LoadPartitions(s) \/ ComplexFilterPushdown(s)
             \/ HiveScanCardinality(s) \/ HivePartitionStatistics(s)
             \/ DynamicFilterPushdown(s) \/ ExpandNextPath(s)
             \/ ListPartitions(s) \/ FinalizeBind(s)
             \/ \E p \in Partitions : ListPartitionTask(s, p)
             \/ \E t \in Scans : CopyList(s, t) \/ RestoreScan(s, t)
      PROVE  EInv'
  <2>1. CASE BindHiveScan(s)
    BY <2>1, EBind
  <2>2. CASE LoadPartitions(s)
    BY <2>2, ELoad
  <2>3. CASE ComplexFilterPushdown(s)
    BY <2>3, EComplex
  <2>4. CASE HiveScanCardinality(s)
    BY <2>4, ECardinality
  <2>5. CASE HivePartitionStatistics(s)
    BY <2>5, EStatistics
  <2>6. CASE DynamicFilterPushdown(s)
    BY <2>6, EDynamic
  <2>7. CASE ExpandNextPath(s)
    BY <2>7, EExpand
  <2>8. CASE ListPartitions(s)
    BY <2>8, EBatchListed
  <2>9. CASE FinalizeBind(s)
    BY <2>9, EFinalizeBind
  <2>10. CASE \E p \in Partitions : ListPartitionTask(s, p)
    BY <2>10, ETask
  <2>11. CASE \E t \in Scans : CopyList(s, t) \/ RestoreScan(s, t)
    BY <2>11, ECopy, ERestore
  <2>12. QED
    BY <1>1, <2>1, <2>2, <2>3, <2>4, <2>5, <2>6, <2>7, <2>8, <2>9, <2>10, <2>11
<1>2. CASE \/ \E f \in Files : WriteFile(f) \/ OtherWrites(f)
           \/ \E p \in Partitions : OtherRegisters(p)
  BY <1>2, EOthers
<1>3. CASE FinalizeInsert
  BY <1>3, EFinalizeInsert
<1>4. CASE QueryEnd
  BY <1>4, EQueryEnd
<1>5. CASE UNCHANGED vars
  BY <1>5, EStutter
<1>6. QED
  BY <1>1, <1>2, <1>3, <1>4, <1>5 DEF Next

\* IInv and EInv together are an invariant of the scans: what HiveScanCardinality sampled of
\* a listing stays true of the listing, however far others fetch it, and of the estimates
\* made of it, whichever scan of the query measured the table.
THEOREM EstimateInvariance == Spec => [](IInv /\ EInv)
<1>1. Init => IInv /\ EInv
  BY InitInv, EInit
<1>2. IInv /\ EInv /\ [Next]_vars => (IInv /\ EInv)'
  BY NextInv, ENext
<1>3. QED
  BY <1>1, <1>2, PTL DEF Spec

-----------------------------------------------------------------------------
(***************************************************************************)
(* What planning was told is true.                                         *)
(***************************************************************************)
\* The files of partitions that share none are counted once each.
LEMMA SumOfSizes ==
  ASSUME NEW parts \in SUBSET Partitions, NEW idx \in SUBSET parts, NEW sample,
         NEW files \in SUBSET Files,
         \A f : f \in files <=> \E p \in idx : f \in SizeOf(parts, sample, p),
         \A f \in files : \A p \in idx : f \in SizeOf(parts, sample, p) => Owner(parts, f) = p
  PROVE  FilesAt(sample.sizes, {NumberOf(parts, p) : p \in idx}) = Cardinality(files)
<1>1. PICK sizes, numbers : sizes = sample.sizes /\ numbers = {NumberOf(parts, p) : p \in idx}
  OBVIOUS
<1>2. IsFiniteSet(idx) /\ IsFiniteSet(files)
  BY TreeAssumption, FS_Subset
<1>3. IsFiniteSet(numbers)
  <2>1. PICK r : r = [p \in idx |-> NumberOf(parts, p)]
    OBVIOUS
  <2>2. r \in Surjection(idx, numbers)
    BY <1>1, <2>1 DEF Surjection
  <2>3. QED
    BY <1>2, <2>2, FS_Surjection
<1>4. \A p \in idx : SizeOf(parts, sample, p) = sizes[NumberOf(parts, p)]
  BY <1>1 DEF SizeOf
<1>5. \A n \in numbers : sizes[n] \in SUBSET files
  BY <1>1, <1>4
<1>6. \A n \in numbers : IsFiniteSet(sizes[n])
  BY <1>2, <1>5, FS_Subset
<1>7. FilesAt(sizes, numbers) = Cardinality(Numbered(sizes, numbers))
  BY <1>3, <1>6, FilesAtFacts
<1>8. PICK all : all = Numbered(sizes, numbers)
  OBVIOUS
<1>9. \A x : x \in all <=> \E n \in numbers : \E f \in sizes[n] : x = <<n, f>>
  BY <1>8 DEF Numbered
<1>10. \A f \in files : /\ Owner(parts, f) \in idx /\ NumberOf(parts, Owner(parts, f)) \in numbers
                        /\ f \in sizes[NumberOf(parts, Owner(parts, f))]
  BY <1>1, <1>4
<1>11. \A n \in numbers : \A f \in sizes[n] : n = NumberOf(parts, Owner(parts, f))
  BY <1>1, <1>4, <1>5
<1>12. PICK h : h = [f \in files |-> <<NumberOf(parts, Owner(parts, f)), f>>]
  OBVIOUS
<1>13. \A f \in files : h[f] = <<NumberOf(parts, Owner(parts, f)), f>> /\ h[f] \in all
  BY <1>9, <1>10, <1>12
<1>14. h \in [files -> all]
  BY <1>12, <1>13
<1>15. \A f, g \in files : h[f] = h[g] => f = g
  BY <1>13
<1>16. \A x \in all : \E f \in files : h[f] = x
  BY <1>5, <1>9, <1>11, <1>13
<1>17. h \in Bijection(files, all)
  BY <1>14, <1>15, <1>16 DEF Bijection, Injection, Surjection, IsInjective
<1>18. Cardinality(all) = Cardinality(files)
  <2>1. ExistsBijection(files, all)
    BY <1>17 DEF ExistsBijection
  <2>2. QED
    BY <1>2, <2>1, FS_Bijection
<1>19. QED
  BY <1>1, <1>7, <1>8, <1>18

LEMMA SampleFinite ==
  ASSUME NEW sample \in SampleSet
  PROVE  /\ IsFiniteSet(DOMAIN sample.sizes)
         /\ \A n \in DOMAIN sample.sizes : IsFiniteSet(sample.sizes[n])
<1>1. PICK sizes : sizes = sample.sizes
  OBVIOUS
<1>2. sizes \in Partial(0 .. Cardinality(Partitions), SUBSET Files)
  BY <1>1 DEF SampleSet
<1>3. /\ DOMAIN sizes \in SUBSET (0 .. Cardinality(Partitions))
      /\ sizes \in [DOMAIN sizes -> SUBSET Files]
  BY <1>2, PartialFacts
<1>4. Cardinality(Partitions) \in Nat
  BY TreeAssumption, FS_CardinalityType
<1>5. IsFiniteSet(0 .. Cardinality(Partitions))
  BY <1>4, FS_Interval
<1>6. QED
  BY <1>1, <1>3, <1>5, TreeAssumption, FS_Subset

\* A scan that read every partition the sample counts, while no file changed, read the
\* files counted.
LEMMA FilesAreSizes ==
  ASSUME IInv, EInv, NEW s \in Scans, Active(s), case.partitioned, Finished(s), Open,
         always = ever, NEW parts, parts = query.partitions, Parts(s) = parts,
         NEW sample, sample = query.samples[Info(s).table], sample # None,
         infos[sample.info].parts = parts,
         \A p \in PartitionIndexes(s) : Counted(parts, sample, p) /\ AloneIn(parts, p)
  PROVE  /\ \A f : f \in lists[s].files <=>
                     \E p \in PartitionIndexes(s) : f \in SizeOf(parts, sample, p)
         /\ \A p \in PartitionIndexes(s) : \A f \in SizeOf(parts, sample, p) : Owner(parts, f) = p
<1>1. /\ Loaded(s) /\ FilesInv(s) /\ InfoInv(lists[s].info) /\ TypeInv
      /\ \A p \in PartitionIndexes(s) : Gathered(s, p)
  BY AllGathered DEF IInv
<1>2. parts \in SUBSET Partitions /\ PartitionIndexes(s) \subseteq parts
  BY <1>1, ViewFacts
<1>3. SizesInv(parts, sample)
  BY <1>1, ListingsOfScan DEF EInv, TableInv
<1>4. OwnInv(s) /\ JobsInv(s)
  BY DEF EInv, IInv, ScanInv, Finished
<1>5. ASSUME NEW f \in lists[s].files
      PROVE  \E p \in PartitionIndexes(s) : f \in SizeOf(parts, sample, p)
  <2>1. PICK p : p = Info(s).fileOf[f]
    OBVIOUS
  <2>2. /\ p \in PartitionIndexes(s) /\ IsDataFile(f, Glue(p).dir) /\ f \in ever
        /\ f \in DOMAIN Info(s).fileOf
    BY <1>1, <2>1 DEF FilesInv
  <2>3. p = Owner(parts, f)
    BY <1>1, <2>1, <2>2, ViewFacts DEF InfoInv, Info
  <2>4. Counted(parts, sample, p) /\ AloneIn(parts, p) /\ p \in parts
    BY <1>2, <2>2
  <2>5. f \in SizeOf(parts, sample, p)
    BY <1>3, <2>2, <2>3, <2>4 DEF SizesInv
  <2>6. QED
    BY <2>2, <2>5
<1>6. ASSUME NEW p \in PartitionIndexes(s), NEW f \in SizeOf(parts, sample, p)
      PROVE  f \in lists[s].files /\ Owner(parts, f) = p
  <2>1. /\ Counted(parts, sample, p) /\ AloneIn(parts, p) /\ p \in parts
        /\ p # None
    BY <1>2, NoneDistinct
  <2>2. /\ f \in Files /\ Owner(parts, f) = p /\ IsDataFile(f, Glue(p).dir) /\ f \in always
        /\ sample.root => IsDataFile(f, Root)
    BY <1>3, <2>1 DEF SizesInv
  <2>3. HiddenDir(Glue(p).dir) \/ f \in lists[s].files
    BY <1>1, <2>1, <2>2 DEF Gathered
  <2>4. ASSUME HiddenDir(Glue(p).dir) PROVE ~sample.root
    <3>1. UnderDir(f, Glue(p).dir) /\ Glue(p).dir \in Dirs
      BY <1>1, <1>2, <2>1, <2>2, GlueType DEF TypeInv, IsDataFile
    <3>2. Above[Glue(p).dir] \subseteq Above[DirOf[f]]
      BY <2>2, <3>1, TreeAssumption DEF UnderDir
    <3>3. QED
      BY <2>2, <2>4, <3>2 DEF HiddenDir, IsDataFile
  <2>5. ASSUME ~sample.root PROVE f \in lists[s].files
    <3>1. ~ByRoot(parts, {p}) /\ \A r \in parts : Counted(parts, sample, r) => r = p
      BY <1>3, <2>1, <2>5 DEF SizesInv
    <3>2. PartitionIndexes(s) = {p}
      BY <1>2, <3>1
    <3>3. PICK jobs : jobs = PlanListings(s)
      OBVIOUS
    <3>4. PlanFor(s, jobs)
      BY <1>1, <3>3, PlanFacts
    <3>5. PICK j \in 1 .. Len(jobs) : p \in jobs[j].parts
      BY <3>4 DEF PlanFor
    <3>6. ~jobs[j].root
      BY <1>1, <3>1, <3>2, <3>3, <3>5, PlanRoots
    <3>7. j \in 1 .. lists[s].next - 1
      BY <1>4, <3>3, <3>4, <3>5 DEF JobsInv, Finished, PlanFor
    <3>8. QED
      BY <1>4, <2>2, <3>3, <3>5, <3>6, <3>7 DEF OwnInv
  <2>6. QED
    BY <2>2, <2>3, <2>4, <2>5
<1>7. QED
  BY <1>5, <1>6

\* The estimate of such a scan is the number of files it read.
LEMMA EstimateExact ==
  ASSUME IInv, EInv, NEW s \in Scans, Active(s), case.partitioned, Finished(s), Open,
         always = ever, NEW parts, parts = query.partitions, Parts(s) = parts,
         NEW sample, sample = query.samples[Info(s).table], sample # None,
         infos[sample.info].parts = parts,
         \A p \in PartitionIndexes(s) : Counted(parts, sample, p) /\ AloneIn(parts, p),
         NEW e, e = lists[s].estimate, e # None, e.idx = PartitionIndexes(s)
  PROVE  e.files = e.of * Cardinality(lists[s].files)
<1>1. /\ Loaded(s) /\ TypeInv
  BY AllGathered DEF IInv
<1>2. parts \in SUBSET Partitions /\ e.idx \in SUBSET parts /\ e \in EstimateSet
  BY <1>1, ViewFacts DEF TypeInv, ListSet
<1>3. PICK files : files = lists[s].files
  OBVIOUS
<1>4. files \in SUBSET Files /\ IsFiniteSet(files) /\ Cardinality(files) \in Nat
  <2>1. files \in SUBSET Files
    BY <1>1, <1>3 DEF TypeInv, ListSet
  <2>2. QED
    BY <2>1, TreeAssumption, FS_Subset, FS_CardinalityType
<1>5. /\ \A f : f \in files <=> \E p \in e.idx : f \in SizeOf(parts, sample, p)
      /\ \A p \in e.idx : \A f \in SizeOf(parts, sample, p) : Owner(parts, f) = p
  BY <1>3, FilesAreSizes
<1>6. EstimateInv(s)
  BY DEF EInv
<1>7. CASE e.idx = {}
  <2>1. files = {} /\ e.files = 0 /\ e.of \in Nat
    BY <1>2, <1>5, <1>6, <1>7 DEF EstimateInv, EstimateSet
  <2>2. Cardinality(files) = 0
    BY <2>1, FS_EmptySet
  <2>3. QED
    BY <1>3, <2>1, <2>2
<1>8. CASE e.idx # {}
  <2>1. EstimatedFrom(parts, sample, e)
    BY <1>6, <1>8 DEF EstimateInv
  <2>2. PICK numbers, seen : numbers = {NumberOf(parts, p) : p \in e.idx} /\ seen = DOMAIN sample.sizes
    OBVIOUS
  <2>3. numbers \cap seen = numbers /\ numbers \ seen = {}
    BY <2>2 DEF Counted
  <2>4. /\ e.of = Cardinality(seen)
        /\ e.files = FilesAt(sample.sizes, numbers) * Cardinality(seen)
                       + Cardinality({}) * FilesAt(sample.sizes, seen)
    BY <2>1, <2>2, <2>3 DEF EstimatedFrom
  <2>5. FilesAt(sample.sizes, numbers) = Cardinality(files)
    <3>1. PICK idx : idx = e.idx
      OBVIOUS
    <3>2. /\ idx \in SUBSET parts /\ parts \in SUBSET Partitions /\ files \in SUBSET Files
          /\ numbers = {NumberOf(parts, p) : p \in idx}
      BY <1>2, <1>4, <2>2, <3>1
    <3>3. /\ \A f : f \in files <=> \E p \in idx : f \in SizeOf(parts, sample, p)
          /\ \A f \in files : \A p \in idx : f \in SizeOf(parts, sample, p) => Owner(parts, f) = p
      BY <1>5, <3>1
    <3>4. FilesAt(sample.sizes, {NumberOf(parts, p) : p \in idx}) = Cardinality(files)
      BY ONLY <3>2, <3>3, SumOfSizes
    <3>5. QED
      BY <3>2, <3>4
  <2>6. FilesAt(sample.sizes, seen) \in Nat /\ Cardinality(seen) \in Nat
    <3>1. sample \in SampleSet
      BY <1>1, ListingsOfScan DEF TypeInv, QuerySet
    <3>2. IsFiniteSet(seen) /\ \A n \in seen : IsFiniteSet(sample.sizes[n])
      BY <2>2, <3>1, SampleFinite
    <3>3. QED
      BY <3>2, FilesAtFacts, FS_CardinalityType
  <2>7. Cardinality({}) = 0
    BY FS_EmptySet
  <2>8. PICK a \in Nat, b \in Nat, c \in Nat :
          a = Cardinality(files) /\ b = Cardinality(seen) /\ c = FilesAt(sample.sizes, seen)
    BY <1>4, <2>6
  <2>9. e.files = a * b + 0 * c /\ e.of = b
    BY <2>4, <2>5, <2>7, <2>8
  <2>10. a * b + 0 * c = b * a
    OBVIOUS
  <2>11. QED
    BY <1>3, <2>8, <2>9, <2>10
<1>9. QED
  BY <1>7, <1>8

\* What EstimateHolds says of a scan, its sample and the partitions the sample counts.
EstimateTrue(s, sample, counted) ==
  /\ lists[s].stats # None =>
       \A f \in DOMAIN lists[s].rows : Glue(lists[s].rows[f]).value \in lists[s].stats
  /\ (sample # None /\ GlueNumbers(lists[s].info) /\ GlueNumbers(sample.info)) =>
       /\ (sample.root /\ Root \in DOMAIN KeptListings(s)) =>
            \A f \in KeptListings(s)[Root].got, p \in counted :
              (IsDataFile(f, Root) /\ TablePartition(f) = p /\ Alone(p))
                => f \in sample.sizes[Index(lists[s].info, p)]
       /\ (/\ lists[s].estimate # None /\ error = None /\ Finished(s) /\ sink # "written"
           /\ lists[s].estimate.idx = PartitionIndexes(s) /\ counted = PartitionIndexes(s)
           /\ always = ever /\ \A p \in counted : Alone(p)) =>
             lists[s].estimate.files = lists[s].estimate.of * Cardinality(lists[s].files)

LEMMA EstimateImplied ==
  ASSUME IInv, EInv, NEW s \in Scans, Active(s), case.partitioned, Loaded(s),
         NEW sample, sample = query.samples[Info(s).table],
         NEW counted, counted = {p \in PartitionIndexes(s) :
                                   Index(lists[s].info, p) \in DOMAIN sample.sizes}
  PROVE  EstimateTrue(s, sample, counted)
<1>a. /\ GlueNumbers(lists[s].info) => Parts(s) = query.partitions
      /\ GlueNumbers(sample.info) => infos[sample.info].parts = query.partitions
  BY DEF GlueNumbers, Parts, Info
<1>0. PICK e : e = lists[s].estimate
  OBVIOUS
<1>1. ScanInv(s) /\ TypeInv
  BY DEF IInv
<1>2. ASSUME lists[s].stats # None, NEW f \in DOMAIN lists[s].rows
      PROVE  Glue(lists[s].rows[f]).value \in lists[s].stats
  <2>1. PruneInv(s) /\ FilesInv(s)
    BY <1>1 DEF ScanInv
  <2>2. lists[s].rows[f] \in PartitionIndexes(s)
    BY <2>1 DEF FilesInv
  <2>3. QED
    BY <1>2, <2>1, <2>2 DEF PruneInv
<1>3. ASSUME sample # None, Parts(s) = query.partitions, infos[sample.info].parts = query.partitions
      PROVE  /\ (sample.root /\ Root \in DOMAIN KeptListings(s)) =>
                   \A f \in KeptListings(s)[Root].got, p \in counted :
                      (IsDataFile(f, Root) /\ TablePartition(f) = p /\ Alone(p))
                         => f \in sample.sizes[Index(lists[s].info, p)]
             /\ (/\ e # None /\ error = None /\ Finished(s) /\ Open
                 /\ e.idx = PartitionIndexes(s) /\ counted = PartitionIndexes(s)
                 /\ always = ever /\ \A p \in counted : Alone(p)) =>
                   e.files = e.of * Cardinality(lists[s].files)
  <2>1. PICK parts : parts = query.partitions
    OBVIOUS
  <2>2. infos[lists[s].info].parts = query.partitions /\ PartitionIndexes(s) \subseteq parts
    BY <1>3, <2>1, ViewFacts
  <2>3. \A p : Index(lists[s].info, p) = NumberOf(parts, p)
    BY <2>1, <2>2, IndexNumber
  <2>4. /\ \A p \in counted : Counted(parts, sample, p) /\ p \in parts
        /\ \A p : SizeOf(parts, sample, p) = sample.sizes[Index(lists[s].info, p)]
    BY <2>2, <2>3 DEF Counted, SizeOf
  <2>5. \A p : Alone(p) => AloneIn(parts, p)
    BY <2>1 DEF Alone, AloneIn
  <2>6. ASSUME sample.root, Root \in DOMAIN KeptListings(s),
               NEW f \in KeptListings(s)[Root].got, NEW p \in counted,
               IsDataFile(f, Root), TablePartition(f) = p, Alone(p)
        PROVE  f \in sample.sizes[Index(lists[s].info, p)]
    <3>1. PICK kept : kept = KeptListings(s) /\ kept = ListingsOf(Info(s).table)
      BY <1>1, ListingsOfScan
    <3>2. RootSeen(parts, sample, kept)
      BY <1>1, <1>3, <2>1, <3>1, ListingsOfScan DEF EInv, TableInv
    <3>3. f \in Files
      <4>1. kept \in Partial(Dirs, ListingSet)
        BY <1>1, <3>1 DEF KeptListings, TypeInv, QuerySet
      <4>2. kept[Root] \in ListingSet
        BY <2>6, <3>1, <4>1, PartialFacts
      <4>3. QED
        BY <2>6, <3>1, <4>2 DEF ListingSet
    <3>4. Owner(parts, f) = p /\ MayHold(kept[Root], f)
      BY <2>1, <2>6, <3>1 DEF TablePartition, Owner, MayHold
    <3>5. f \in SizeOf(parts, sample, p)
      BY <2>4, <2>5, <2>6, <3>1, <3>2, <3>3, <3>4 DEF RootSeen
    <3>6. QED
      BY <2>4, <3>5
  <2>7. ASSUME e # None, Finished(s), Open, e.idx = PartitionIndexes(s),
               counted = PartitionIndexes(s), always = ever, \A p \in counted : Alone(p)
        PROVE  e.files = e.of * Cardinality(lists[s].files)
    BY <1>0, <1>3, <2>1, <2>4, <2>5, <2>7, EstimateExact
  <2>8. QED
    BY <2>6, <2>7
<1>4. QED
  BY <1>0, <1>2, <1>3, <1>a DEF EstimateTrue, Open

\* What planning was told of a scan is true of what it reads: the statistics of the
\* partition column cover every row, the sample HiveScanCardinality took of the root
\* listing holds every file of the partitions it counts, and an estimate made of whole
\* partitions is the number of files read, unless the scan or the one that took the
\* sample numbers the partitions anew (GlueNumbers).
THEOREM EstimateCorrect == Spec => []EstimateHolds
<1>1. IInv /\ EInv => EstimateHolds
  <2>1. ASSUME IInv, EInv, NEW s \in Scans, lists[s].st # "free" /\ case.partitioned /\ Loaded(s)
        PROVE  EstimateTrue(s, query.samples[Info(s).table],
                            {p \in PartitionIndexes(s) : Index(lists[s].info, p) \in
                               DOMAIN query.samples[Info(s).table].sizes})
    BY <2>1, EstimateImplied DEF Active
  <2>2. QED
    BY <2>1 DEF EstimateHolds, EstimateTrue
<1>2. QED
  BY <1>1, EstimateInvariance, PTL
=============================================================================
