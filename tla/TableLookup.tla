---------------------------- MODULE TableLookup ----------------------------
(***************************************************************************)
(* Looking up a table of a Glue database (GlueTableSet).                   *)
(*                                                                         *)
(* The set of entries is shared by all connections; what an entry has to   *)
(* agree with is the definition in the cache of the connection that looks  *)
(* it up (MetadataCache).  GetEntry holds the set's entry_lock only to     *)
(* look at the set before and after it asks the cache, so other lookups,   *)
(* writes and scans of the set come in between.  From the second lookup    *)
(* that costs a request on, one GetTables page fills the cache instead;    *)
(* that request is made with entry_lock held.                              *)
(*                                                                         *)
(* One attached catalog, one database: RetireEntry is EntryLifetime's.     *)
(***************************************************************************)
EXTENDS MetadataCache

CONSTANTS
  FirstPage,       \* the tables of the database on the first GetTables page
  MaxRoundTrips    \* bound: lookups that cost a request of their own in a run

ASSUME FirstPageKeys == FirstPage \subseteq Key
ASSUME MaxRoundTripsNat == MaxRoundTrips \in Nat
ASSUME CatalogAttached == MaxAttach # 0

VARIABLES
  entries,               \* entries[k]: the definition the entry was built from, or Null
  entry_lock,
  is_loaded,
  direct_lookups,        \* round trips of misses since the last bulk request
  bulk_loaded_cache_id,  \* the cache the last bulk request filled; 0 for none
  batch_forbidden,       \* GetTables was denied
  lookup,                \* what a thread does in the set
  round_trips,           \* all round trips of misses
  bulk_requests,         \* GetTables requests made to save lookups
  returned               \* the definitions of the entries a transaction got for a key

bulkVars  == <<direct_lookups, bulk_loaded_cache_id, batch_forbidden, bulk_requests>>
setVars   == <<entries, entry_lock, is_loaded, bulkVars, round_trips>>
lookupVars == <<vars, setVars, lookup, returned>>

This == CHOOSE o \in Oid : TRUE     \* the attached catalog

NoLookup == [step |-> "none"]
Page     == [Key -> Definition \cup {Null}]

\* In GetEntry: before and after the cache is asked, filling it from a page; in Scan:
\* filling the set from a page; in a statement that wrote: replacing the entry.
Lookup ==
  [step : {"warm", "ask", "wait"}, key : Key, cached : BOOLEAN, asked : BOOLEAN,
   page : Page, todo : SUBSET Key]
  \cup [step : {"scan"}, page : Page, todo : SUBSET Key]
  \cup [step : {"write", "written"}, key : Key, drop : BOOLEAN]
  \cup [step : {"install"}, key : Key, entry : Definition]

LookupTypeOK ==
  /\ entries \in [Key -> Definition \cup {Null}]
  /\ entry_lock \in Thread \cup {Unlocked}
  /\ is_loaded \in BOOLEAN
  /\ direct_lookups \in Nat
  /\ bulk_loaded_cache_id \in Cache \cup {0}
  /\ batch_forbidden \in BOOLEAN
  /\ lookup \in [Thread -> Lookup \cup {NoLookup}]
  /\ round_trips \in Nat
  /\ bulk_requests \in Nat
  /\ returned \in [Conn -> [Key -> SUBSET Definition]]

LookupInit ==
  /\ Init
  /\ entries = [k \in Key |-> Null]
  /\ entry_lock = Unlocked
  /\ is_loaded = FALSE
  /\ direct_lookups = 0
  /\ bulk_loaded_cache_id = 0
  /\ batch_forbidden = FALSE
  /\ lookup = [t \in Thread |-> NoLookup]
  /\ round_trips = 0
  /\ bulk_requests = 0
  /\ returned = [c \in Conn |-> [k \in Key |-> {}]]

CacheOf(t) == transaction[ConnOf[t]][This]    \* the cache instance; 0 without transaction

\* Lookups are made while a statement is bound, and one statement at a time is bound or
\* executed on a connection: no other thread of it is writing.
Others(t) == ThreadsOf(ConnOf[t]) \ {t}
Free(t) ==
  /\ lookup[t] = NoLookup /\ call[t] = Idle
  /\ CacheOf(t) # 0
  /\ \A u \in Others(t) : lookup[u].step \notin {"write", "written", "install"}

-----------------------------------------------------------------------------
(* GetEntry before it asks the cache *)

MayLookUp(t) == Free(t) /\ entry_lock = Unlocked /\ round_trips < MaxRoundTrips

\* A miss of a cache that has had no page, and not the first one since the last try.
BulkPays(t, k) ==
  /\ entries[k] = Null
  /\ ~batch_forbidden
  /\ CacheOf(t) # bulk_loaded_cache_id
  /\ direct_lookups > 0

Asking(k, cached) ==
  [step |-> "ask", key |-> k, cached |-> cached, asked |-> FALSE,
   page |-> [j \in Key |-> Null], todo |-> {}]

\* The look at the set, without a bulk request (glue_batch_table_lookup may be off).
Enter(t, k, batch) ==
  /\ MayLookUp(t)
  /\ ~(batch /\ BulkPays(t, k))
  /\ lookup' = [lookup EXCEPT ![t] = Asking(k, entries[k] # Null)]
  /\ UNCHANGED <<vars, setVars, returned>>

SlipNoReset(t)     == UNCHANGED <<direct_lookups, entry_lock>>  \* tried again at once
SlipUnderflow(t)   == direct_lookups' = direct_lookups - 2 /\ UNCHANGED entry_lock
SlipLeaveLocked(t) == direct_lookups' = 0 /\ entry_lock' = t   \* the catch returns early

\* What a failure leaves: the next attempt waits for another direct lookup.
GiveUp(t) == direct_lookups' = 0 /\ UNCHANGED entry_lock

\* BulkLoadTableInfo, when GetTables fails: denied for good, or throttled; anything that
\* is not an answer of Glue (no credentials) fails the lookup.
BulkFails(t, k) ==
  /\ MayLookUp(t)
  /\ BulkPays(t, k)
  /\ bulk_requests' = bulk_requests + 1
  /\ GiveUp(t)
  /\ \/ /\ batch_forbidden' \in BOOLEAN
        /\ lookup' = [lookup EXCEPT ![t] = Asking(k, FALSE)]
     \/ UNCHANGED <<batch_forbidden, lookup>>
  /\ UNCHANGED <<vars, entries, is_loaded, bulk_loaded_cache_id, round_trips, returned>>

\* What GetTables returns of the tables ks.
PageOf(ks) == [k \in Key |-> IF k \in ks THEN Answer(This, k) ELSE Null]
Listed(ks) == {k \in ks : Answer(This, k) # Null}

\* BulkLoadTableInfo, when it gets the page, which then goes to the cache.
BulkLoad(t, k) ==
  /\ MayLookUp(t)
  /\ BulkPays(t, k)
  /\ bulk_requests' = bulk_requests + 1
  /\ direct_lookups' = 0
  /\ bulk_loaded_cache_id' = CacheOf(t)
  /\ entry_lock' = t
  /\ lookup' = [lookup EXCEPT ![t] =
       [Asking(k, FALSE) EXCEPT !.step = "warm", !.page = PageOf(FirstPage),
                                !.todo = Listed(FirstPage)]]
  /\ UNCHANGED <<vars, entries, is_loaded, batch_forbidden, round_trips, returned>>

-----------------------------------------------------------------------------
(* Filling the cache from a page, for GetEntry or Scan, under entry_lock *)

\* cache.GetTable of a table of the page: its slot, as in any lookup.
WarmFind(t) ==
  /\ lookup[t].step \in {"warm", "scan"}
  /\ \E k \in lookup[t].todo : Reference(t, This, k)
  /\ UNCHANGED <<setVars, lookup, returned>>

SlipAnyVersion(e, d) == e # Null /\ d # Null     \* takes whatever entry is there
SameVersion(e, d)    == e # Null /\ e = d        \* GlueTableInfo::IsSameVersion

\* Its load, which asks nobody: a value already there stays. A scan goes on to make an
\* entry of the table unless the set has this version of it.
WarmResolve(t) ==
  LET s == call[t].slot
      k == call[t].key
      d == lookup[t].page[k]
  IN  /\ lookup[t].step \in {"warm", "scan"}
      /\ call[t].step = "resolve"
      /\ load_lock[s] = Unlocked
      /\ call' = [call EXCEPT ![t] = Idle]
      /\ UNCHANGED <<transaction, caches>>
      /\ Settle(tables, IF value[s] = Null THEN [value EXCEPT ![s] = d] ELSE value)
      /\ lookup' = [lookup EXCEPT ![t].todo = @ \ {k}]
      /\ entries' = IF lookup[t].step = "scan" /\ ~SameVersion(entries[k], d)
                    THEN [entries EXCEPT ![k] = d] ELSE entries
      /\ UNCHANGED <<definition, attached, attachment, scope, next_id, load_lock, floor,
                     cleared, fetched, entry_lock, is_loaded, bulkVars, round_trips, returned>>

WarmDone(t) ==
  /\ lookup[t].step \in {"warm", "scan"}
  /\ lookup[t].todo = {} /\ call[t] = Idle
  /\ entry_lock' = Unlocked
  /\ IF lookup[t].step = "scan"
     THEN lookup' = [lookup EXCEPT ![t] = NoLookup] /\ is_loaded' = TRUE
     ELSE lookup' = [lookup EXCEPT ![t].step = "ask"] /\ UNCHANGED is_loaded
  /\ UNCHANGED <<vars, entries, bulkVars, round_trips, returned>>

\* Scan, the first time: LoadEntries reads all pages. A failed request leaves nothing
\* behind, and later scans only read the set.
Scan(t) ==
  /\ Free(t)
  /\ entry_lock = Unlocked
  /\ ~is_loaded
  /\ entry_lock' = t
  /\ lookup' = [lookup EXCEPT ![t] =
       [step |-> "scan", page |-> PageOf(Key), todo |-> Listed(Key)]]
  /\ UNCHANGED <<vars, entries, is_loaded, bulkVars, round_trips, returned>>

-----------------------------------------------------------------------------
(* GetEntry while and after it asks the cache *)

Ask(t) ==
  /\ lookup[t].step = "ask"
  /\ Reference(t, This, lookup[t].key)
  /\ lookup' = [lookup EXCEPT ![t].step = "wait"]
  /\ UNCHANGED <<setVars, returned>>

AskHit(t)   == lookup[t].step = "wait" /\ Hit(t) /\ UNCHANGED <<setVars, lookup, returned>>
AskStore(t) == lookup[t].step = "wait" /\ Store(t) /\ UNCHANGED <<setVars, lookup, returned>>

AskLoad(t) ==
  /\ lookup[t].step = "wait"
  /\ Load(t)
  /\ lookup' = [lookup EXCEPT ![t].asked = TRUE]
  /\ UNCHANGED <<setVars, returned>>

AskFails(t) ==
  /\ LoadFails(t)
  /\ lookup' = [lookup EXCEPT ![t] = NoLookup]
  /\ UNCHANGED <<setVars, returned>>

\* GetEntry with the cache's answer: nothing, the entry of this version, or a new entry.
Finish(t) ==
  LET k == lookup[t].key
      d == call[t].got
      c == ConnOf[t]
      miss == ~lookup[t].cached /\ lookup[t].asked
  IN  /\ lookup[t].step = "wait"
      /\ entry_lock = Unlocked
      /\ Return(t)
      /\ direct_lookups' = IF miss THEN direct_lookups + 1 ELSE direct_lookups
      /\ round_trips' = IF miss THEN round_trips + 1 ELSE round_trips
      /\ entries' = IF SameVersion(entries[k], d) THEN entries
                    ELSE [entries EXCEPT ![k] = d]
      /\ lookup' = [lookup EXCEPT ![t] = NoLookup]
      /\ returned' = IF d # Null /\ call[t].current
                     THEN [returned EXCEPT ![c][k] = @ \cup {entries'[k]}] ELSE returned
      /\ UNCHANGED <<entry_lock, is_loaded, bulk_loaded_cache_id, batch_forbidden,
                     bulk_requests>>

-----------------------------------------------------------------------------
(* CREATE, ALTER and DROP of a table, once it is known what to do *)

WriteTable(t, k, drop) ==
  /\ Free(t)
  /\ \A u \in Others(t) : lookup[u] = NoLookup
  /\ drop => definition[RemoteOf(This)][k].exists
  /\ Write(t, This, k, TRUE, ~drop)
  /\ lookup' = [lookup EXCEPT ![t] = [step |-> "write", key |-> k, drop |-> drop]]
  /\ UNCHANGED <<setVars, returned>>

WriteReturns(t) ==
  /\ Invalidate(t)
  /\ lookup' = [lookup EXCEPT ![t].step = "written"]
  /\ returned' = [returned EXCEPT ![ConnOf[t]] = [k \in Key |-> {}]]
  /\ UNCHANGED setVars

\* RefreshTable, and CreateTableInternal: what Glue stored is fetched, past the cache;
\* it is an error when it is gone already.
Refetch(t) ==
  /\ lookup[t].step = "written" /\ ~lookup[t].drop
  /\ LET d == Answer(This, lookup[t].key)
     IN  lookup' = [lookup EXCEPT ![t] = IF d = Null THEN NoLookup
                      ELSE [step |-> "install", key |-> lookup[t].key, entry |-> d]]
  /\ UNCHANGED <<vars, setVars, returned>>

\* CreateEntry of the set.
CreateEntry(t) ==
  /\ lookup[t].step = "install"
  /\ entry_lock = Unlocked
  /\ entries' = [entries EXCEPT ![lookup[t].key] = lookup[t].entry]
  /\ lookup' = [lookup EXCEPT ![t] = NoLookup]
  /\ UNCHANGED <<vars, entry_lock, is_loaded, bulkVars, round_trips, returned>>

\* RemoveEntry of the set.
RemoveEntry(t) ==
  /\ lookup[t].step = "written" /\ lookup[t].drop
  /\ entry_lock = Unlocked
  /\ entries' = [entries EXCEPT ![lookup[t].key] = Null]
  /\ lookup' = [lookup EXCEPT ![t] = NoLookup]
  /\ UNCHANGED <<vars, entry_lock, is_loaded, bulkVars, round_trips, returned>>

-----------------------------------------------------------------------------

Around ==       \* what goes on outside of the set
  /\ \/ \E r \in Remote, k \in Key, exists \in BOOLEAN : ChangeElsewhere(r, k, exists)
     \/ \E a \in Alias, r \in Remote : Attach(a, r)
     \/ \E c \in Conn : StartTransaction(c, This)
  /\ UNCHANGED <<setVars, lookup, returned>>

End(c, rollback) ==
  /\ \A t \in ThreadsOf(c) : lookup[t] = NoLookup
  /\ EndTransaction(c, rollback)
  /\ returned' = [returned EXCEPT ![c] = [k \in Key |-> {}]]
  /\ UNCHANGED <<setVars, lookup>>

GetEntry(t) ==
  \/ \E k \in Key, batch \in BOOLEAN : Enter(t, k, batch)
  \/ \E k \in Key : BulkFails(t, k) \/ BulkLoad(t, k)
  \/ Ask(t) \/ AskHit(t) \/ AskLoad(t) \/ AskStore(t) \/ AskFails(t) \/ Finish(t)

Warm(t) == WarmFind(t) \/ WarmResolve(t) \/ WarmDone(t)

WriteEntry(t) ==
  \/ \E k \in Key, drop \in BOOLEAN : WriteTable(t, k, drop)
  \/ WriteReturns(t) \/ Refetch(t) \/ CreateEntry(t) \/ RemoveEntry(t)

LookupNext ==
  \/ Around
  \/ \E c \in Conn, rollback \in BOOLEAN : End(c, rollback)
  \/ \E t \in Thread : GetEntry(t) \/ Scan(t) \/ Warm(t) \/ WriteEntry(t)

LookupSpec == LookupInit /\ [][LookupNext]_lookupVars

\* A thread whose mutex is released again and again gets it at last, a request to Glue
\* returns or fails (the HTTP client has a timeout), and a thread does not stop.
LookupFairSpec ==
  /\ LookupSpec
  /\ \A t \in Thread :
       /\ WF_lookupVars(Ask(t) \/ AskStore(t) \/ AskFails(t) \/ WriteReturns(t) \/ Refetch(t))
       /\ WF_lookupVars(WarmFind(t) \/ WarmDone(t))
       /\ SF_lookupVars(AskHit(t) \/ AskLoad(t))
       /\ SF_lookupVars(WarmResolve(t))
       /\ SF_lookupVars(Finish(t))
       /\ SF_lookupVars(CreateEntry(t) \/ RemoveEntry(t))

-----------------------------------------------------------------------------
(* Properties *)

\* Within a transaction every lookup of a table gives an entry of the same definition,
\* whatever entries other connections put into the set in the meantime, until the
\* connection itself writes (GetEntry compares the set's entry with the transaction's
\* definition and not with Glue's).
RepeatableLookup ==
  \A c \in Conn, k \in Key : Cardinality(returned[c][k]) <= 1

\* No entry a transaction gets is older than what its connection has to see: its start
\* under the scope 'transaction', else the last event that clears the connection's cache,
\* and its own writes, although the set still has entries from before.
FreshLookup ==
  \A c \in Conn, k \in Key : \A d \in returned[c][k] : d.version >= floor[c][This][k]

\* A throttled or failing GetTables costs at most one extra request per direct lookup
\* (BulkLoadTableInfo resets direct_lookups whatever the outcome).
BulkCost == bulk_requests <= round_trips

\* A lookup, a scan and the update of an entry after a write come to an end: the
\* entry_lock and the load_locks, which a bulk load and a scan hold together, never
\* block each other, and no failure leaves with one of them.
SetCallEnds == \A t \in Thread : lookup[t] # NoLookup ~> lookup[t] = NoLookup
=============================================================================
