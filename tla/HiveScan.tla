------------------------------ MODULE HiveScan ------------------------------
(***************************************************************************)
(* The scans of one Hive table by one connection: which partitions a scan  *)
(* reads (pruning), how it lists their data files (the table root once, or *)
(* each partition on its own), which partition a file belongs to, what     *)
(* planning is told about the scan (the sample, the cardinality, the       *)
(* statistics), the listings kept for a query or for the connection, and   *)
(* the copies of a scan the optimizer makes.  Other clients add and remove *)
(* data files and register partitions meanwhile.                           *)
(*                                                                         *)
(* A location is a directory of a small tree: ComparableLocation           *)
(* (src/core/hive_location.cpp) has already made its spellings one.  A     *)
(* data file stands for its rows, which agree on every filter.             *)
(***************************************************************************)
EXTENDS Naturals, FiniteSets, SequencesExt

CONSTANTS
    Scans,          \* the scans of a statement
    Partitions,     \* the partitions other clients register in Glue
    Dirs,           \* directories of the object store
    Root,           \* the table location, a directory
    Above,          \* Above[d]: d and the directories d lies in
    Hidden,         \* directories named _* or .*
    EmptySegment,   \* directories whose path from their parent has a '//'
    Files,          \* objects
    DirOf,          \* DirOf[f]: the directory of an object
    Rank,           \* Rank[f]: its place in key order, the order S3 lists in
    Markers,        \* objects that are no data file: hidden, marker, empty
    Values,         \* partition values a partition column can hold
    Null, Bad,      \* the NULL sentinel; a value the column's type cannot hold
    KeyFilters,     \* filters on the partition column
    KeyAnswer,      \* KeyAnswer[c][v]: "true", "no" (false or NULL) or "error"
    DataFilters,    \* filters that need the data columns
    DataAnswer,     \* DataAnswer[c]: the files whose rows satisfy it
    JoinFilters,    \* key filters a join derives from its build side
    Cases,          \* the tables and settings the scans run under, see CaseSet
    PageSize,       \* the keys the file system fetches per page of a listing
    KeysPerPage,    \* S3_KEYS_PER_LIST_PAGE
    RequestsSaved,  \* ROOT_REQUESTS_SAVED
    NoThreshold,    \* hive_partition_listing_threshold is not set
    None            \* an empty optional or a null pointer

ASSUME TreeAssumption ==
    /\ Root \in Dirs /\ Hidden \subseteq Dirs /\ EmptySegment \subseteq Dirs
    /\ Above \in [Dirs -> SUBSET Dirs]
    /\ \A d \in Dirs : /\ d \in Above[d]
                       /\ \A e \in Above[d] : Above[e] \subseteq Above[d]
                       /\ \A e, g \in Above[d] : e \in Above[g] \/ g \in Above[e]
    /\ DirOf \in [Files -> Dirs] /\ Rank \in [Files -> Nat \ {0}] /\ IsInjective(Rank)
    /\ Markers \subseteq Files
    /\ IsFiniteSet(Files) /\ IsFiniteSet(Dirs) /\ IsFiniteSet(Partitions)

\* Two locations that ComparableLocation tells apart are two directories.
ASSUME DirsDistinct == \A d, e \in Dirs : Above[d] = Above[e] => d = e

\* The keys below a directory are next to each other in key order.
ASSUME OrderAssumption ==
    \A d \in Dirs, f, g, h \in Files :
        (/\ Rank[f] < Rank[g] /\ Rank[g] < Rank[h]
         /\ d \in Above[DirOf[f]] /\ d \in Above[DirOf[h]]) => d \in Above[DirOf[g]]

ASSUME FilterAssumption ==
    /\ KeyAnswer \in [KeyFilters -> [Values \cup {Null} -> {"true", "no", "error"}]]
    /\ DataAnswer \in [DataFilters -> SUBSET Files]
    /\ JoinFilters \subseteq KeyFilters
    /\ KeyFilters \cap DataFilters = {} /\ Null \notin Values /\ Bad \notin Values

\* What Glue holds of a partition: its location, its value, whether its own
\* storage descriptor reads like the table's, and whether its own column type
\* can be read as the table's.
PartitionRecord == [dir : Dirs, value : Values \cup {Null, Bad},
                    sameFormat : BOOLEAN, readable : BOOLEAN]

\* A table and the settings of the connection.
CaseSet == [partitioned : BOOLEAN, glue : [Partitions -> PartitionRecord],
            threads : Nat \ {0}, threshold : Nat \cup {NoThreshold},
            cacheListings : BOOLEAN, connectionScoped : BOOLEAN]

ASSUME CasesAssumption == Cases \subseteq CaseSet
ASSUME PagesAssumption ==
    {PageSize, KeysPerPage} \subseteq Nat \ {0} /\ RequestsSaved \in Nat
ASSUME NoneDistinct ==
    /\ None \notin Scans /\ None \notin Partitions /\ None \notin Files
    /\ \A parts \in SUBSET Partitions : None # parts
    /\ \A values \in SUBSET (Values \cup {Null, Bad}) : None # values

\* What a query measures of the table (HiveTableSample): the files listed, whether they are
\* of the root, the file whose rows were counted, the files of each partition by its number,
\* and the scan info that numbered them. A query that measured nothing has none.
SampleRecord == [listed : SUBSET Files, root : BOOLEAN, measured : Files \cup {None},
                 sizes : UNION {[numbers -> SUBSET Files] :
                                   numbers \in SUBSET (0 .. Cardinality(Partitions))},
                 info : Scans]
ASSUME SampleDistinct == None \notin SampleRecord

VARIABLES
    case,           \* the table and the settings, fixed
    stored,         \* the objects in the store
    registered,     \* the partitions registered in Glue
    query,          \* HiveQueryCache: partitions, listings and sample of a query
    connListings,   \* HiveListingCache: the listings kept for the connection
    infos,          \* infos[s]: the HiveScanInfo the bind of s made
    lists,          \* lists[s]: the file list and the plan's filters of scan s
    sink,           \* the INSERT of the statement: "none", "writing", "written"
    error,          \* None, or why which scan failed the statement
    always, ever,   \* objects stored all along, or at some time, since the
                    \* listings a scan may use were last emptied (history)
    statements      \* statements run so far

vars == <<case, stored, registered, query, connListings, infos, lists, sink,
          error, always, ever, statements>>

Filters == KeyFilters \cup DataFilters
Glue(p) == case.glue[p]
NoListings == [d \in {} |-> None]

\* The function f with the arguments of e as e maps them.
Extended(f, e) == [x \in DOMAIN f \cup DOMAIN e |-> IF x \in DOMAIN e THEN e[x] ELSE f[x]]

(***************************************************************************)
(* Locations and data files.                                               *)
(***************************************************************************)
Below(d) == {e \in Dirs : d \in Above[e] /\ e # d}
AtOrBelow(d) == Below(d) \cup {d}
UnderDir(f, d) == d \in Above[DirOf[f]]

\* Whether a listed object below d is a data file: no hidden or empty component
\* below d, no marker, not empty.
IsDataFile(f, d) ==
    /\ UnderDir(f, d) /\ f \notin Markers
    /\ (Above[DirOf[f]] \ Above[d]) \cap (Hidden \cup EmptySegment) = {}

\* The partitions registered at d.
RegisteredAt(parts, d) == {p \in parts : Glue(p).dir = d}

\* The partition of the deepest registered location holding the file, looked
\* for in the directories 'within'; partitions that share a location are
\* represented by one of them.
OwningPartition(parts, f, within) ==
    LET locations == {d \in Above[DirOf[f]] \cap within : RegisteredAt(parts, d) # {}}
    IN  IF locations = {} THEN None
        ELSE LET deepest == CHOOSE d \in locations : locations \subseteq Above[d]
             IN  CHOOSE p \in RegisteredAt(parts, deepest) : TRUE

\* The slip in which only the partition that represents the location is looked
\* for among those read.
SlipThrowsIfLocationShared(parts, owner, reading) ==
    Cardinality(RegisteredAt(parts, Glue(owner).dir)) > 1 /\ owner \in reading

\* The partitions registered at the owner's location, when they are several
\* and one of them is read: the scan must be refused.
ThrowsIfLocationShared(parts, owner, reading) ==
    LET sharing == RegisteredAt(parts, Glue(owner).dir)
    IN  Cardinality(sharing) > 1 /\ sharing \cap reading # {}

(***************************************************************************)
(* Listings.  A listing is fetched page by page, the first page when it is *)
(* created, and whoever shares it sees the pages fetched so far.           *)
(***************************************************************************)
Unlisted == [got |-> {}, at |-> 0, done |-> FALSE]

\* The keys below d after those the listing has.
RestOf(l, d) == {f \in stored : UnderDir(f, d) /\ Rank[f] > l.at}

\* The listing of d with the first n of them.
Fetched(l, d, n) ==
    LET rest == RestOf(l, d)
        first == {f \in rest : Cardinality({g \in rest : Rank[g] < Rank[f]}) < n}
    IN  IF l.done THEN l
        ELSE [got |-> l.got \cup first, at |-> Max({l.at} \cup {Rank[f] : f \in first}),
              done |-> first = rest]

NextPage(l, d) == Fetched(l, d, PageSize)
AllPages(l, d) == Fetched(l, d, Cardinality(Files))

\* Listings of Glue tables are kept in the connection under
\* glue_cache_listings; a scan without a catalog is never cached there.
CacheListings(s) == case.cacheListings /\ infos[lists[s].info].table

\* The listing of d the scan shares, made with its first page when none is kept.
KeptListings(s) == IF CacheListings(s) THEN connListings ELSE query.listings
GetDirectoryListing(s, d) ==
    IF d \in DOMAIN KeptListings(s) THEN KeptListings(s)[d] ELSE NextPage(Unlisted, d)

\* The query cache and the connection's listings once d is listed as l.
QueryWith(s, d, l) ==
    IF CacheListings(s) THEN query ELSE [query EXCEPT !.listings = Extended(@, [x \in {d} |-> l])]
ConnectionWith(s, d, l) ==
    IF CacheListings(s) THEN Extended(connListings, [x \in {d} |-> l]) ELSE connListings

(***************************************************************************)
(* A scan's partitions and its listing jobs.                               *)
(***************************************************************************)
Info(s) == infos[lists[s].info]
Loaded(s) == ~case.partitioned \/ Info(s).parts # None
Parts(s) == IF case.partitioned THEN Info(s).parts ELSE {}
PartitionIndexes(s) == IF lists[s].idx = None THEN Parts(s) ELSE lists[s].idx

\* The partition's storage is not read as the table's; a scan without a table
\* and the partitions of a restored scan, which carry no storage, are not
\* compared.
PartitionStorageMismatch(i, p) == infos[i].table /\ infos[i].whole /\ ~Glue(p).sameFormat

RoundsOf(n, size) == (n + size - 1) \div size

InEmptySegment(d) == (Above[d] \ Above[Root]) \cap EmptySegment # {}

\* The listings a scan makes: the root for the partitions below it when that
\* takes fewer requests, and batches of partitions for the others.
PlanListings(s) ==
    LET belowRoot == {p \in PartitionIndexes(s) : /\ Glue(p).dir \in Below(Root)
                                                  /\ ~InEmptySegment(Glue(p).dir)}
        elsewhere == PartitionIndexes(s) \ belowRoot
        read == Cardinality(belowRoot)
        rootPages == RoundsOf(Cardinality({p \in Parts(s) : Glue(p).dir \in Below(Root)}),
                              KeysPerPage)
        rounds == RoundsOf(read, case.threads)
        listRoot == /\ belowRoot # {}
                    /\ IF case.threshold # NoThreshold THEN read >= case.threshold
                       ELSE \/ rootPages < rounds
                            \/ rootPages = rounds /\ read >= RequestsSaved * rootPages
        separately == SetToSeq(IF listRoot THEN {} ELSE belowRoot) \o SetToSeq(elsewhere)
        batch(i) == SubSeq(separately, (i - 1) * case.threads + 1,
                           Min({i * case.threads, Len(separately)}))
    IN  IF ~case.partitioned THEN <<[root |-> TRUE, parts |-> {}]>>
        ELSE (IF listRoot THEN <<[root |-> TRUE, parts |-> belowRoot]>> ELSE <<>>)
             \o [i \in 1 .. RoundsOf(Len(separately), case.threads) |->
                    [root |-> FALSE, parts |-> ToSet(batch(i))]]

NewList(i, idx, asked, left, joined) ==
    [st |-> "planning", info |-> i, idx |-> idx, asked |-> asked, left |-> left,
     joined |-> joined, next |-> 1, listed |-> NoListings, files |-> {},
     rows |-> NoListings, stats |-> None, estimate |-> None]

\* The list with the partitions kept: the same one when all are kept.
Narrowed(s, kept, l) ==
    IF kept = PartitionIndexes(s) THEN l
    ELSE [l EXCEPT !.idx = kept, !.next = 1, !.listed = NoListings, !.files = {}]

(***************************************************************************)
(* Binding, and the filters of a scan.                                     *)
(***************************************************************************)
NoScan == [NewList(None, None, {}, {}, {}) EXCEPT !.st = "free"]
NoInfo == [parts |-> None, whole |-> TRUE, table |-> TRUE, fileOf |-> NoListings]
EmptyQuery == [partitions |-> None, listings |-> NoListings,
               samples |-> [table \in BOOLEAN |-> None]]

Fail(s, why) == error' = [why |-> why, scan |-> s]

\* The scan of a Glue table is bound, with the filters of its query in the
\* plan: no partition is loaded, nothing is listed.
BindHiveScan(s) ==
    /\ error = None /\ lists[s].st = "free" /\ sink # "written"
    /\ \E asked \in SUBSET (IF case.partitioned THEN Filters \ JoinFilters ELSE DataFilters) :
          lists' = [lists EXCEPT ![s] = NewList(s, None, asked, asked, {})]
    /\ infos' = [infos EXCEPT ![s] = NoInfo]
    /\ UNCHANGED <<case, stored, registered, query, connListings, sink, error,
                   always, ever, statements>>

\* HiveScanInfo::Partitions on first use: one Glue call per table and query.
LoadPartitions(s) ==
    /\ error = None /\ lists[s].st # "free" /\ ~Loaded(s)
    /\ LET parts == IF query.partitions # None THEN query.partitions ELSE registered
       IN  /\ query' = [query EXCEPT !.partitions = parts]
           /\ infos' = [infos EXCEPT ![lists[s].info].parts = parts]
    /\ UNCHANGED <<case, stored, registered, connListings, lists, sink, error,
                   always, ever, statements>>

\* The candidates no filter rules out. A filter that needs data columns, or
\* whose evaluation fails, decides nothing.
PartitionsToRead(candidates, filters) ==
    {p \in candidates : \A c \in filters \cap KeyFilters : KeyAnswer[c][Glue(p).value] # "no"}

\* The slip in which a filter true of one partition leaves the plan.
SlipDecidedFilters(kept, filters) ==
    {c \in filters \cap KeyFilters : \E p \in kept : KeyAnswer[c][Glue(p).value] = "true"}

\* The filters true of every partition kept, which leave the plan.
DecidedFilters(kept, filters) ==
    {c \in filters \cap KeyFilters :
        kept # {} /\ \A p \in kept : KeyAnswer[c][Glue(p).value] = "true"}

\* A filter on the partition column meets a value the column cannot hold.
CannotHold(candidates, filters) ==
    filters \cap KeyFilters # {} /\ \E p \in candidates : Glue(p).value = Bad

\* HiveMultiFileReader::ComplexFilterPushdown, with some of the filters left.
ComplexFilterPushdown(s) ==
    /\ error = None /\ lists[s].st = "planning" /\ case.partitioned /\ Loaded(s)
    /\ \E filters \in (SUBSET lists[s].left) \ {{}} :
          LET candidates == PartitionIndexes(s)
              kept == PartitionsToRead(candidates, filters)
              decided == DecidedFilters(kept, filters)
          IN  IF CannotHold(candidates, filters)
              THEN Fail(s, "cast") /\ UNCHANGED lists
              ELSE /\ lists' = [lists EXCEPT ![s] =
                                  Narrowed(s, kept, [lists[s] EXCEPT !.left = @ \ decided])]
                   /\ UNCHANGED error
    /\ UNCHANGED <<case, stored, registered, query, connListings, infos, sink,
                   always, ever, statements>>

\* HiveMultiFileList::DynamicFilterPushdown when the scan starts: a filter the
\* join derived from its build side prunes; the join itself applies it.
DynamicFilterPushdown(s) ==
    /\ error = None /\ lists[s].st = "planning" /\ Loaded(s)
    /\ \E joined \in SUBSET (IF case.partitioned THEN JoinFilters ELSE {}) :
          LET candidates == PartitionIndexes(s)
              kept == {p \in candidates :
                          \A c \in joined : KeyAnswer[c][Glue(p).value] = "true"}
          IN  IF CannotHold(candidates, joined)
              THEN Fail(s, "cast") /\ UNCHANGED lists
              ELSE /\ lists' = [lists EXCEPT ![s] =
                                  Narrowed(s, kept, [lists[s] EXCEPT !.st = "scanning",
                                                                     !.joined = joined])]
                   /\ UNCHANGED error
    /\ UNCHANGED <<case, stored, registered, query, connListings, infos, sink,
                   always, ever, statements>>

(***************************************************************************)
(* Copies of a scan.                                                       *)
(***************************************************************************)
\* HiveMultiFileList::Copy: a list of its own over the same scan info.
CopyList(s, t) ==
    /\ error = None /\ lists[s].st = "planning" /\ lists[t].st = "free"
    /\ lists' = [lists EXCEPT ![t] = NewList(lists[s].info, lists[s].idx, lists[s].asked,
                                             lists[s].left, {})]
    /\ UNCHANGED <<case, stored, registered, query, connListings, infos, sink,
                   error, always, ever, statements>>

\* HiveScanSerialize and HiveScanDeserialize: a copy of the plan binds the scan
\* again with the values and locations of the partitions left; the table is
\* restored when the catalog still holds it as bound.
RestoreScan(s, t) ==
    /\ error = None /\ lists[s].st = "planning" /\ Loaded(s) /\ lists[t].st = "free"
    /\ \E found \in {FALSE, Info(s).table} :
          infos' = [infos EXCEPT ![t] = [parts |-> PartitionIndexes(s), whole |-> FALSE,
                                         table |-> found, fileOf |-> NoListings]]
    /\ lists' = [lists EXCEPT ![t] = NewList(t, None, lists[s].asked, lists[s].left, {})]
    /\ UNCHANGED <<case, stored, registered, query, connListings, sink, error,
                   always, ever, statements>>

(***************************************************************************)
(* What planning is told: the sample, the cardinality, the statistics.     *)
(***************************************************************************)
\* The listing of d after its first k further pages.
Pages(l, d) == [k \in 0 .. Cardinality(Files) + 1 |->
                   IF k = 0 THEN l ELSE Fetched(l, d, k * PageSize)]

Lowest(files) == CHOOSE f \in files : \A g \in files : Rank[f] <= Rank[g]
Highest(files) == CHOOSE f \in files : \A g \in files : Rank[f] >= Rank[g]

\* The slip in which the pages fetched are taken to end between partitions.
SlipPartlySeen(seen, owner, listedAll, read) == {}

\* The files seen of the last partition, which further pages may add to, unless
\* it is the one the scan reads.
PartlySeen(seen, owner, listedAll, read) ==
    IF listedAll \/ seen = {} \/ owner[Highest(seen)] = owner[Lowest(read)] THEN {}
    ELSE LET before == {f \in seen : owner[f] # owner[Highest(seen)]}
         IN  {f \in seen : before = {} \/ Rank[f] > Rank[Highest(before)]}

\* HiveMultiFileList::SampleRootPartitions: the files of the partitions the
\* fetched pages of the root listing hold completely; more pages only until
\* they hold a partition the scan reads, and to its end.
SampleRootPartitions(s, reading) ==
    LET start == GetDirectoryListing(s, Root)
        pages == Pages(start, Root)
        owner == [f \in Files |-> OwningPartition(Parts(s), f, Below(Root))]
        data(l) == {f \in l.got : IsDataFile(f, Root)}
        read(l) == {f \in data(l) : owner[f] \in reading}
        inSampled(f, l) == UnderDir(f, Glue(owner[Lowest(read(l))]).dir)
        left(l) == read(l) # {} /\ ~inSampled(Highest(data(l)), l)
        enough == Min({k \in DOMAIN pages : pages[k].done \/ left(pages[k])})
        listing == pages[enough]
        seen == {f \in data(listing) : /\ owner[f] # None
                                       /\ \/ f \in start.got
                                          \/ read(listing) = {}
                                          \/ Rank[f] < Rank[Lowest(read(listing))]
                                          \/ inSampled(f, listing)}
        listedAll == listing.done /\ ~left(listing)
        kept == seen \ PartlySeen(seen, owner, listedAll, read(listing))
    IN  [dir |-> Root, listing |-> listing, root |-> TRUE,
         owners |-> [f \in kept |-> owner[f]]]

\* The files of partition p in the listing of its location, and the owner of
\* the others, which belong to a partition nested inside it.
SampleOwn(s, p) ==
    LET d == Glue(p).dir
        listing == AllPages(GetDirectoryListing(s, d), d)
        mine == {f \in listing.got :
                    IsDataFile(f, d) /\ OwningPartition(Parts(s), f, AtOrBelow(d)) = p}
    IN  [dir |-> d, listing |-> listing, root |-> FALSE, owners |-> [f \in mine |-> p]]

\* HiveMultiFileList::ListSampleDirectory
SampleDirectories(s) ==
    LET jobs == PlanListings(s)
        whole == AllPages(GetDirectoryListing(s, Root), Root)
        files == {f \in whole.got : IsDataFile(f, Root)}
    IN  IF ~case.partitioned
        THEN {[dir |-> Root, listing |-> whole, root |-> FALSE,
               owners |-> [f \in files |-> None]]}
        ELSE IF jobs[1].root THEN {SampleRootPartitions(s, jobs[1].parts)}
        ELSE {SampleOwn(s, p) : p \in jobs[1].parts}

\* The slip in which a file the scan reads is measured whatever its format.
SlipMeasurableFiles(s, owners) ==
    LET reading == {f \in DOMAIN owners :
                       ~case.partitioned \/ owners[f] \in PartitionIndexes(s)}
    IN  IF reading # {} THEN reading ELSE IF owners # NoListings THEN DOMAIN owners ELSE {None}

\* The file whose rows are counted: one the scan reads, else one it could read.
MeasurableFiles(s, owners) ==
    LET readable == {f \in DOMAIN owners : \/ ~case.partitioned
                                           \/ ~PartitionStorageMismatch(lists[s].info, owners[f])}
        reading == {f \in readable : ~case.partitioned \/ owners[f] \in PartitionIndexes(s)}
    IN  IF reading # {} THEN reading ELSE IF readable # {} THEN readable ELSE {None}

\* The index of a partition in the scan's list, as Glue returned them; a
\* restored scan numbers the partitions it was left with anew.
Index(i, p) ==
    LET order == SetToSeq(query.partitions)
        place(r) == CHOOSE n \in DOMAIN order : order[n] = r
    IN  Cardinality({r \in infos[i].parts : place(r) < place(p)})

\* The number of files a sample saw in the partitions with these numbers.
FilesAt(sizes, numbers) == MapThenSumSet(LAMBDA n : Cardinality(sizes[n]), numbers)

\* HiveScanCardinality in files, as a fraction: the partitions the sample saw
\* count with their files, the others with the average of those.
EstimateOf(s, sample) ==
    LET idx == PartitionIndexes(s)
        numbers == {Index(lists[s].info, p) : p \in idx}
        seen == DOMAIN sample.sizes
    IN  IF sample.measured = None
        THEN IF ~case.partitioned THEN [files |-> 0, of |-> 1, idx |-> idx] ELSE None
        ELSE IF ~case.partitioned
        THEN [files |-> Cardinality(sample.listed), of |-> 1, idx |-> idx]
        ELSE [files |-> FilesAt(sample.sizes, numbers \cap seen) * Cardinality(seen)
                        + Cardinality(numbers \ seen) * FilesAt(sample.sizes, seen),
              of |-> Cardinality(seen), idx |-> idx]

\* HiveScanCardinality: the first scan of the table in the query measures it,
\* the others use that sample (its key names the table, or the location of a
\* scan without one).
HiveScanCardinality(s) ==
    /\ error = None /\ lists[s].st = "planning" /\ Loaded(s) /\ lists[s].estimate = None
    /\ IF case.partitioned /\ PartitionIndexes(s) = {}
       THEN /\ lists' = [lists EXCEPT ![s].estimate = [files |-> 0, of |-> 1, idx |-> {}]]
            /\ UNCHANGED <<query, connListings, infos>>
       ELSE IF query.samples[Info(s).table] # None
       THEN /\ lists' = [lists EXCEPT ![s].estimate =
                           EstimateOf(s, query.samples[Info(s).table])]
            /\ UNCHANGED <<query, connListings, infos>>
       ELSE \E measured \in SampleDirectories(s) :
            \E m \in MeasurableFiles(s, measured.owners) :
               LET owners == measured.owners
                   listed == DOMAIN owners
                   number(f) == Index(lists[s].info, owners[f])
                   numbers == IF case.partitioned THEN {number(f) : f \in listed} ELSE {}
                   sample == [listed |-> listed, root |-> measured.root, measured |-> m,
                              sizes |-> [n \in numbers |-> {f \in listed : number(f) = n}],
                              info |-> lists[s].info]
               IN  /\ query' = [QueryWith(s, measured.dir, measured.listing)
                                   EXCEPT !.samples[Info(s).table] = sample]
                   /\ connListings' = ConnectionWith(s, measured.dir, measured.listing)
                   /\ infos' = [infos EXCEPT ![lists[s].info].fileOf = Extended(@, owners)]
                   /\ lists' = [lists EXCEPT ![s].estimate = EstimateOf(s, sample)]
    /\ UNCHANGED <<case, stored, registered, sink, error, always, ever, statements>>

\* HivePartitionStatistics: the values of the partition column over the
\* partitions left, none when one of them does not fit the column.
HivePartitionStatistics(s) ==
    /\ error = None /\ lists[s].st = "planning" /\ case.partitioned /\ Loaded(s)
    /\ lists[s].stats = None /\ PartitionIndexes(s) # {}
    /\ \A p \in PartitionIndexes(s) : Glue(p).value # Bad
    /\ lists' = [lists EXCEPT ![s].stats = {Glue(p).value : p \in PartitionIndexes(s)}]
    /\ UNCHANGED <<case, stored, registered, query, connListings, infos, sink,
                   error, always, ever, statements>>

(***************************************************************************)
(* Listing the files of a scan, one job per call of ExpandNextPath.        *)
(***************************************************************************)
\* The slip in which the partition of a file is recorded by the first scan only.
SlipAddFiles(s, owners) ==
    LET added == DOMAIN owners \ lists[s].files
    IN  /\ lists' = [lists EXCEPT ![s] = [lists[s] EXCEPT !.st = "scanning", !.next = @ + 1,
                                                          !.listed = NoListings,
                                                          !.files = @ \cup added]]
        /\ infos' = IF Info(s).fileOf # NoListings THEN infos
                    ELSE [infos EXCEPT ![lists[s].info].fileOf = [f \in added |-> owners[f]]]

\* The list after AddFile of the files, attributed to their partitions; a path
\* the list already has is left out.
AddFiles(s, owners) ==
    LET added == DOMAIN owners \ lists[s].files
    IN  /\ lists' = [lists EXCEPT ![s] = [lists[s] EXCEPT !.st = "scanning", !.next = @ + 1,
                                                          !.listed = NoListings,
                                                          !.files = @ \cup added]]
        /\ infos' = [infos EXCEPT ![lists[s].info].fileOf =
                        Extended(@, [f \in added |-> owners[f]])]

\* HiveMultiFileList::ListRoot, and the listing of an unpartitioned table.
ListRoot(s, reading) ==
    LET listing == AllPages(GetDirectoryListing(s, Root), Root)
        files == {f \in listing.got : IsDataFile(f, Root)}
        owner(f) == OwningPartition(Parts(s), f, Below(Root))
        owned == {f \in files : owner(f) # None}
        shared == \E f \in owned : ThrowsIfLocationShared(Parts(s), owner(f), reading)
        read == IF case.partitioned THEN {f \in owned : owner(f) \in reading} ELSE files
    IN  /\ query' = QueryWith(s, Root, listing)
        /\ connListings' = ConnectionWith(s, Root, listing)
        /\ IF case.partitioned /\ shared
           THEN Fail(s, "shared") /\ UNCHANGED <<lists, infos>>
           ELSE AddFiles(s, [f \in read |-> owner(f)]) /\ UNCHANGED error

\* HiveMultiFileList::ExpandNextPath: the next job, once the storage of its
\* partitions is checked; a batch of partitions is listed by ListPartitionTask.
ExpandNextPath(s) ==
    /\ error = None /\ lists[s].st = "scanning" /\ Loaded(s)
    /\ LET jobs == PlanListings(s)
           job == jobs[lists[s].next]
       IN  IF lists[s].next > Len(jobs)
           THEN /\ lists' = [lists EXCEPT ![s].st = "done"]
                /\ UNCHANGED <<query, connListings, infos, error>>
           ELSE IF \E p \in job.parts : PartitionStorageMismatch(lists[s].info, p)
           THEN Fail(s, "format") /\ UNCHANGED <<query, connListings, infos, lists>>
           ELSE IF job.root THEN ListRoot(s, job.parts)
           ELSE /\ lists' = [lists EXCEPT ![s].st = "listing"]
                /\ UNCHANGED <<query, connListings, infos, error>>
    /\ UNCHANGED <<case, stored, registered, sink, always, ever, statements>>

Batch(s) == PlanListings(s)[lists[s].next].parts

\* ListPartitionTask: one directory of the batch, at the same time as others.
ListPartitionTask(s, p) ==
    /\ error = None /\ lists[s].st = "listing" /\ p \in Batch(s) \ DOMAIN lists[s].listed
    /\ LET d == Glue(p).dir
           listing == AllPages(GetDirectoryListing(s, d), d)
           files == {f \in listing.got : IsDataFile(f, d)}
       IN  /\ query' = QueryWith(s, d, listing)
           /\ connListings' = ConnectionWith(s, d, listing)
           /\ lists' = [lists EXCEPT ![s].listed = Extended(@, [r \in {p} |-> files])]
    /\ UNCHANGED <<case, stored, registered, infos, sink, error, always, ever, statements>>

\* HiveMultiFileList::ListPartitions once every directory of the batch is
\* listed: files of a partition nested inside another are left to its listing.
ListPartitions(s) ==
    /\ error = None /\ lists[s].st = "listing" /\ DOMAIN lists[s].listed = Batch(s)
    /\ LET batch == Batch(s)
           parts == Parts(s)
           listed == lists[s].listed
           owner(p, f) == OwningPartition(parts, f, AtOrBelow(Glue(p).dir))
           shared == \E p \in batch : \E f \in listed[p] :
                        ThrowsIfLocationShared(parts, owner(p, f), batch)
           mine == UNION {{<<f, p>> : f \in {g \in listed[p] : owner(p, g) = p}} : p \in batch}
       IN  IF shared
           THEN Fail(s, "shared") /\ UNCHANGED <<lists, infos>>
           ELSE /\ AddFiles(s, [f \in {m[1] : m \in mine} |->
                                   (CHOOSE m \in mine : m[1] = f)[2]])
                /\ UNCHANGED error
    /\ UNCHANGED <<case, stored, registered, query, connListings, sink, always, ever, statements>>

(***************************************************************************)
(* Reading the files.                                                      *)
(***************************************************************************)
Unread(s) == lists[s].files \ DOMAIN lists[s].rows

\* HiveMultiFileReader::FinalizeBind: the next file is opened, with the value
\* Glue stores for the file's partition as its partition column.
FinalizeBind(s) ==
    /\ error = None /\ lists[s].st \in {"scanning", "listing", "done"} /\ Unread(s) # {}
    /\ LET f == Lowest(Unread(s))
           p == IF case.partitioned THEN Info(s).fileOf[f] ELSE None
           undeclared == p # None /\ Info(s).table /\ Info(s).whole /\ ~Glue(p).readable
           raises == \E c \in lists[s].left \cap KeyFilters :
                        p # None /\ KeyAnswer[c][Glue(p).value] = "error"
       IN  IF f \notin stored THEN Fail(s, "gone") /\ UNCHANGED lists
           ELSE IF undeclared THEN Fail(s, "column") /\ UNCHANGED lists
           ELSE IF p # None /\ Glue(p).value = Bad THEN Fail(s, "cast") /\ UNCHANGED lists
           ELSE IF raises THEN Fail(s, "filter") /\ UNCHANGED lists
           ELSE lists' = [lists EXCEPT ![s].rows = Extended(@, [g \in {f} |-> p])]
                /\ UNCHANGED error
    /\ UNCHANGED <<case, stored, registered, query, connListings, infos, sink,
                   always, ever, statements>>

(***************************************************************************)
(* The statement: its INSERT, its end, and other clients.                  *)
(***************************************************************************)
Finished(s) == lists[s].st = "done" /\ Unread(s) = {}
Idle == \A s \in Scans : lists[s].st = "free" \/ Finished(s)

NewWindow == always' = stored /\ ever' = stored

\* The INSERT of the statement writes a data file into the table.
WriteFile(f) ==
    /\ error = None /\ sink # "written" /\ f \notin stored
    /\ stored' = stored \cup {f} /\ ever' = ever \cup {f} /\ sink' = "writing"
    /\ UNCHANGED <<case, registered, query, connListings, infos, lists, error,
                   always, statements>>

\* GlueHiveInsert::Finalize: GlueTransactionCache::Invalidate empties the
\* connection's listings (ClearHiveListingCache).
FinalizeInsert ==
    /\ error = None /\ sink = "writing" /\ Idle
    /\ sink' = "written" /\ connListings' = NoListings
    /\ IF case.cacheListings THEN NewWindow ELSE UNCHANGED <<always, ever>>
    /\ UNCHANGED <<case, stored, registered, query, infos, lists, error, statements>>

\* The slip in which a commit keeps the listings in transaction scope too.
SlipListingsKept(committed) ==
    IF ~case.cacheListings \/ error # None THEN NoListings ELSE connListings

\* The connection's listings at the end of a statement: emptied by QueryEnd
\* without glue_cache_listings, by TransactionCommit in transaction scope, and
\* by TransactionRollback.
ListingsKept(committed) ==
    IF ~case.cacheListings \/ error # None \/ (committed /\ ~case.connectionScoped)
    THEN NoListings ELSE connListings

\* The statement ends: HiveQueryCache::QueryEnd, and the end of its transaction
\* unless it is one of several; a scan that failed rolls back.
QueryEnd ==
    /\ error # None \/ (Idle /\ sink # "writing")
    /\ sink = "written" \/ \E s \in Scans : lists[s].st # "free"
    /\ \E committed \in BOOLEAN :
          /\ connListings' = ListingsKept(committed)
          /\ IF \/ ~case.cacheListings \/ error # None
                \/ (committed /\ ~case.connectionScoped)
             THEN NewWindow ELSE UNCHANGED <<always, ever>>
    /\ query' = EmptyQuery
    /\ lists' = [s \in Scans |-> NoScan] /\ infos' = [s \in Scans |-> NoInfo]
    /\ sink' = "none" /\ error' = None /\ statements' = statements + 1
    /\ UNCHANGED <<case, stored, registered>>

\* Another client adds or removes an object.
OtherWrites(f) ==
    /\ stored' = (stored \cup {f}) \ (stored \cap {f})
    /\ always' = always \ {f} /\ ever' = ever \cup {f}
    /\ UNCHANGED <<case, registered, query, connListings, infos, lists, sink,
                   error, statements>>

\* Another client registers a partition.
OtherRegisters(p) ==
    /\ p \notin registered /\ case.partitioned /\ registered' = registered \cup {p}
    /\ UNCHANGED <<case, stored, query, connListings, infos, lists, sink, error,
                   always, ever, statements>>

Init ==
    /\ case \in Cases
    /\ registered \in SUBSET Partitions
    /\ stored \in SUBSET Files
    /\ query = EmptyQuery /\ connListings = NoListings
    /\ infos = [s \in Scans |-> NoInfo] /\ lists = [s \in Scans |-> NoScan]
    /\ sink = "none" /\ error = None /\ statements = 0
    /\ always = stored /\ ever = stored

Next ==
    \/ \E s \in Scans :
          \/ BindHiveScan(s) \/ LoadPartitions(s) \/ ComplexFilterPushdown(s)
          \/ HiveScanCardinality(s) \/ HivePartitionStatistics(s)
          \/ DynamicFilterPushdown(s) \/ ExpandNextPath(s)
          \/ ListPartitions(s) \/ FinalizeBind(s)
          \/ \E p \in Partitions : ListPartitionTask(s, p)
          \/ \E t \in Scans : CopyList(s, t) \/ RestoreScan(s, t)
    \/ \E f \in Files : WriteFile(f) \/ OtherWrites(f)
    \/ \E p \in Partitions : OtherRegisters(p)
    \/ FinalizeInsert \/ QueryEnd

Spec == Init /\ [][Next]_vars

-----------------------------------------------------------------------------
(***************************************************************************)
(* Properties.                                                             *)
(***************************************************************************)
ListingSet == [got : SUBSET Files, at : Nat, done : BOOLEAN]
PartialFunction(f, D, R) == DOMAIN f \subseteq D /\ Range(f) \subseteq R

\* The types of the state; every file a scan is given has a partition, which
\* the lookup of its partition values relies on.
ScanTypeOK ==
    /\ case \in Cases /\ case \in CaseSet
    /\ ever \in SUBSET Files /\ always \subseteq stored \cap ever /\ stored \subseteq ever
    /\ registered \subseteq Partitions
    /\ query.partitions = None \/ query.partitions \subseteq registered
    /\ PartialFunction(query.listings, Dirs, ListingSet)
    /\ PartialFunction(connListings, Dirs, ListingSet)
    /\ sink \in {"none", "writing", "written"} /\ statements \in Nat
    /\ error = None \/ (error.scan \in Scans
                        /\ error.why \in {"cast", "format", "shared", "gone", "column", "filter"})
    /\ \A s \in Scans : lists[s].st # "free" =>
          /\ lists[s].st \in {"planning", "scanning", "listing", "done"}
          /\ lists[s].info \in Scans /\ lists[s].next \in Nat \ {0}
          /\ lists[s].left \subseteq lists[s].asked
          /\ lists[s].asked \subseteq Filters /\ lists[s].joined \subseteq JoinFilters
          /\ DOMAIN lists[s].rows \subseteq lists[s].files
          /\ PartialFunction(Info(s).fileOf, Files, Partitions \cup {None})
          /\ lists[s].files \subseteq DOMAIN Info(s).fileOf

\* The rows of a file of partition p satisfy the filters.
Satisfies(filters, p, f) ==
    \A c \in filters : IF c \in KeyFilters THEN KeyAnswer[c][Glue(p).value] = "true"
                       ELSE f \in DataAnswer[c]

\* The partition a data file of the table belongs to: the one registered at the
\* deepest location above it; None for the files of an unpartitioned table.
TablePartition(f) ==
    IF case.partitioned THEN OwningPartition(query.partitions, f, Dirs) ELSE None

\* The files a query must read, by the documents: below the location of a
\* partition, data files as seen from there, and satisfying every filter.
BelongsToTable(f) ==
    IF case.partitioned
    THEN TablePartition(f) # None /\ IsDataFile(f, Glue(TablePartition(f)).dir)
    ELSE IsDataFile(f, Root)
Wanted(s, f) == /\ BelongsToTable(f)
                /\ Satisfies(lists[s].asked \cup lists[s].joined, TablePartition(f), f)

\* The rows the plan gets: of the files read, those the filters left in the plan
\* and the join accept.
Result(s) == {f \in DOMAIN lists[s].rows :
                 Satisfies(lists[s].left \cup lists[s].joined, lists[s].rows[f], f)}

\* A partition registered in a hidden directory below the root: the root
\* listing leaves its files out, its own listing does not.
HiddenLocation(f) ==
    /\ case.partitioned
    /\ LET d == Glue(TablePartition(f)).dir
       IN  d \in Below(Root) /\ (Above[d] \ Above[Root]) \cap Hidden # {}

\* A copy restored without a partition registered at or inside the location of
\* one it kept: it cannot tell their files apart.
Blurred(s) ==
    /\ case.partitioned
    /\ \E p \in Parts(s), r \in query.partitions \ Parts(s) :
          Glue(p).dir \in Above[Glue(r).dir]

\* Every scan that ends reads the rows of the table that satisfy its filters,
\* each file once and with the value of the partition at its deepest location,
\* whichever way it listed them, whichever filters pruning took out of the plan,
\* and whether it is the scan bound or a copy: all files stored since its
\* listings were last emptied (by a write of the connection at the latest), and
\* none that was not stored since (HiveMultiFileList, ComplexFilterPushdown,
\* HiveListingCache). The scans of an INSERT are judged before it finalizes,
\* which empties the listings for the statements that follow.
Answer ==
    \A s \in Scans : (lists[s].st # "free" /\ error = None /\ sink # "written") =>
        (Finished(s) /\ ~Blurred(s) =>
            /\ \A f \in Result(s) : /\ f \in ever /\ Wanted(s, f)
                                    /\ case.partitioned => lists[s].rows[f] = TablePartition(f)
            /\ \A f \in always : Wanted(s, f) => (f \in Result(s) \/ HiddenLocation(f)))

\* The partitions registered where the file belongs, when they are several.
SharingOf(f) ==
    LET sharing == RegisteredAt(query.partitions, Glue(TablePartition(f)).dir)
    IN  IF Cardinality(sharing) > 1 THEN sharing ELSE {}

\* A location several partitions are registered at is refused exactly when it
\* holds data files and a partition there is read, by whichever listing comes
\* first (ThrowIfLocationShared). A blurred copy takes the files of a partition
\* it does not know for those of the enclosing location, and may refuse that.
SharedRefused ==
    case.partitioned =>
        /\ \A s \in Scans : (lists[s].st # "free" /\ error = None /\ sink # "written") =>
              (Finished(s) /\ ~Blurred(s) =>
                  \A f \in always : BelongsToTable(f) =>
                     (SharingOf(f) \cap PartitionIndexes(s) = {} \/ HiddenLocation(f)))
        /\ (error # None /\ error.why = "shared" /\ ~Blurred(error.scan)) =>
              \E f \in ever : /\ TablePartition(f) # None
                              /\ SharingOf(f) \cap PartitionIndexes(error.scan) # {}

\* No file is read, and none measured, with a reader or a type that is not its
\* partition's, but in a copy of a scan; and only a partition the scan reads
\* fails it (VerifyConsistentPartitionSerDe, CheckPartitionColumns).
OneFormat ==
    case.partitioned =>
        /\ \A s \in Scans : lists[s].st # "free" =>
              \A f \in DOMAIN lists[s].rows :
                 \/ ~Info(s).whole
                 \/ Glue(lists[s].rows[f]).sameFormat /\ Glue(lists[s].rows[f]).readable
        /\ \A table \in BOOLEAN : LET sample == query.samples[table] IN
              (sample # None /\ sample.measured # None) =>
                 (infos[sample.info].whole => Glue(TablePartition(sample.measured)).sameFormat)
        /\ error # None /\ error.why \in {"format", "column"} =>
              \E p \in PartitionIndexes(error.scan) : ~(Glue(p).sameFormat /\ Glue(p).readable)

\* No other partition is registered at or inside the location of p.
Alone(p) == \A r \in query.partitions \ {p} : Glue(p).dir \notin Above[Glue(r).dir]

\* The scan numbers the partitions as Glue returned them. A copy restored after pruning has
\* only those left and numbers them anew (HiveScanDeserialize).
GlueNumbers(i) == infos[i].parts = query.partitions

\* What planning was told holds of the rows read: the statistics of the
\* partition column cover every value; the sample of a root listing holds every
\* file of the partitions it counts (SampleRootPartitions); and when it counts
\* every partition read and no file changes, the estimate is the number of files
\* read (HiveScanCardinality). The statistics are right in every copy; the sample
\* and the estimate only of partitions no other is nested in (Alone), and only
\* when the scan and the one that took the sample number the partitions alike:
\* SampleTable keeps a sample under the name of the table, with the files counted
\* by partition number, so a copy restored after pruning, and a scan that uses its
\* sample, may be told of other partitions' files.
EstimateHolds ==
    \A s \in Scans : (lists[s].st # "free" /\ case.partitioned /\ Loaded(s)) =>
        LET sample == query.samples[Info(s).table]
            number(p) == Index(lists[s].info, p)
            counted == {p \in PartitionIndexes(s) : number(p) \in DOMAIN sample.sizes}
            estimate == lists[s].estimate
        IN  /\ lists[s].stats # None =>
                  \A f \in DOMAIN lists[s].rows : Glue(lists[s].rows[f]).value \in lists[s].stats
            /\ (sample # None /\ GlueNumbers(lists[s].info) /\ GlueNumbers(sample.info)) =>
                  /\ (sample.root /\ Root \in DOMAIN KeptListings(s)) =>
                        \A f \in KeptListings(s)[Root].got, p \in counted :
                           (IsDataFile(f, Root) /\ TablePartition(f) = p /\ Alone(p))
                              => f \in sample.sizes[number(p)]
                  /\ (/\ estimate # None /\ error = None /\ Finished(s) /\ sink # "written"
                      /\ estimate.idx = PartitionIndexes(s) /\ counted = PartitionIndexes(s)
                      /\ always = ever /\ \A p \in counted : Alone(p)) =>
                        estimate.files = estimate.of * Cardinality(lists[s].files)
=============================================================================
