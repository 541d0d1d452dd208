--------------------------- MODULE MetadataCache ---------------------------
(***************************************************************************)
(* The cache of Glue metadata a transaction reads through.                 *)
(*                                                                         *)
(* GlueTransactionCache keeps the table definitions and the partition      *)
(* lists a transaction has fetched, so that they are fetched once and stay *)
(* the same while it runs.  With glue_metadata_cache_scope = 'connection'  *)
(* the cache belongs to the connection (GlueMetadataCacheState, one cache  *)
(* per attached catalog) and outlives the transaction; then a write        *)
(* through the connection, a rollback or DETACH has to clear it.           *)
(*                                                                         *)
(* A cache maps keys to slots it shares with the threads that resolve      *)
(* them: the map lock is held to find a slot, the slot's load_lock across  *)
(* the request to Glue, and Clear drops the slots and not their values.    *)
(***************************************************************************)
EXTENDS Naturals, FiniteSets

CONSTANTS
  Thread,       \* threads that resolve metadata or run a statement that changes it
  Conn,         \* connections
  ConnOf,       \* the connection a thread works for
  Key,          \* a table's definition or its partition list
  Alias,        \* names a Glue catalog is attached under
  Remote,       \* Glue catalogs
  Slot,         \* CacheEntry objects
  Null,         \* no definition, no slot
  Unlocked,     \* nobody holds the load_lock
  MaxCache,     \* bound: cache instances created in a run
  MaxAttach,    \* bound: ATTACH statements in a run
  MaxVersion    \* bound: changes of one definition in a run

ASSUME ThreadsOfConnections == ConnOf \in [Thread -> Conn]
ASSUME Bounds == {MaxCache, MaxAttach, MaxVersion} \subseteq Nat
ASSUME NullDistinct == Null \notin Slot \cup [alias : Alias, remote : Remote]
ASSUME UnlockedIsNoThread == Unlocked \notin Thread
\* A slot is in a map or in the hands of a thread.
ASSUME EnoughSlots ==
  Cardinality(Slot) >= MaxCache * Cardinality(Key) + Cardinality(Thread)

Cache == 1 .. MaxCache      \* GlueTransactionCache::Id
Oid   == 1 .. MaxAttach     \* AttachedDatabase::oid

\* A definition as fetched: the catalog it is from, and which of its versions.
Definition == [remote : Remote, version : 0 .. MaxVersion]

VARIABLES
  definition,   \* what Glue holds: definition[r][k]
  attached,     \* the oid an alias is attached as; 0 when it is not
  attachment,   \* the alias and the Glue catalog of an oid; Null before its ATTACH
  scope,        \* glue_metadata_cache_scope of a connection
  transaction,  \* the cache of a connection's transaction on an oid; 0 when none runs
  caches,       \* GlueMetadataCacheState: caches[c][a] is [attach_oid, cache]
  next_id,      \* GlueTransactionCache::NextId
  tables,       \* tables[i][k]: the slot of key k in cache i, or Null
  value,        \* the definition in a slot, or Null
  load_lock,    \* who resolves a slot
  call,         \* what a thread is doing
  floor,        \* the oldest version a lookup that starts now may see
  cleared,      \* the oldest version a cache the connection keeps may hold
  fetched       \* successful requests for a key in this transaction, since its last write

cacheVars == <<transaction, caches, next_id, tables, value, load_lock>>
vars == <<definition, attached, attachment, scope, cacheVars, call, floor, cleared, fetched>>

NoCaches == [a \in Alias |-> [attach_oid |-> 0, cache |-> 0]]
NoSlots  == [k \in Key |-> Null]
NoFetch  == [o \in Oid |-> [k \in Key |-> 0]]
Idle     == [step |-> "idle"]

Step == {"resolve", "load", "answered", "write"}
Call == [step : Step, oid : Oid, key : Key, slot : Slot \cup {Null},
         got : Definition \cup {Null}, floor : 0 .. MaxVersion, current : BOOLEAN]

TypeOK ==
  /\ definition \in [Remote -> [Key -> [version : 0 .. MaxVersion, exists : BOOLEAN]]]
  /\ attached \in [Alias -> Oid \cup {0}]
  /\ attachment \in [Oid -> [alias : Alias, remote : Remote] \cup {Null}]
  /\ scope \in [Conn -> {"transaction", "connection"}]
  /\ transaction \in [Conn -> [Oid -> Cache \cup {0}]]
  /\ caches \in [Conn -> [Alias -> [attach_oid : Oid \cup {0}, cache : Cache \cup {0}]]]
  /\ next_id \in Cache \cup {0}
  /\ tables \in [Cache -> [Key -> Slot \cup {Null}]]
  /\ value \in [Slot -> Definition \cup {Null}]
  /\ load_lock \in [Slot -> Thread \cup {Unlocked}]
  /\ call \in [Thread -> Call \cup {Idle}]
  /\ floor \in [Conn -> [Oid -> [Key -> 0 .. MaxVersion]]]
  /\ cleared \in [Conn -> [Oid -> [Key -> 0 .. MaxVersion]]]
  /\ fetched \in [Conn -> [Oid -> [Key -> Nat]]]

Init ==
  /\ definition \in [Remote -> [Key -> [version : {0}, exists : BOOLEAN]]]
  /\ attached = [a \in Alias |-> 0]
  /\ attachment = [o \in Oid |-> Null]
  /\ scope \in [Conn -> {"transaction", "connection"}]
  /\ transaction = [c \in Conn |-> [o \in Oid |-> 0]]
  /\ caches = [c \in Conn |-> NoCaches]
  /\ next_id = 0
  /\ tables = [i \in Cache |-> NoSlots]
  /\ value = [s \in Slot |-> Null]
  /\ load_lock = [s \in Slot |-> Unlocked]
  /\ call = [t \in Thread |-> Idle]
  /\ floor = [c \in Conn |-> [o \in Oid |-> [k \in Key |-> 0]]]
  /\ cleared = floor
  /\ fetched = [c \in Conn |-> NoFetch]

ThreadsOf(c)  == {t \in Thread : ConnOf[t] = c}
AtRest(c)     == \A t \in ThreadsOf(c) : call[t] = Idle
RemoteOf(o)   == attachment[o].remote
Known         == {o \in Oid : attachment[o] # Null}
Newest(o, k)  == definition[RemoteOf(o)][k].version
Higher(m, n)  == IF m > n THEN m ELSE n

-----------------------------------------------------------------------------
(* Shared ownership: a cache lives while a transaction or a connection's     *)
(* state has it, a slot while a live cache or a thread has it.               *)

InUse(tr, cs) ==
  {tr[c][o] : c \in Conn, o \in Oid} \cup {cs[c][a].cache : c \in Conn, a \in Alias}

Held(tb, cl) ==
  {tb[i][k] : i \in Cache, k \in Key} \cup {cl[t].slot : t \in {u \in Thread : cl[u] # Idle}}

\* make_shared_ptr of a slot: any that is not in use, so one is enough.
NewSlot ==
  LET unused == Slot \ Held(tables, call)
  IN  IF unused = {} THEN {} ELSE {CHOOSE s \in unused : TRUE}

\* The maps become tb and the values v, without what nobody has a pointer to.
Settle(tb, v) ==
  /\ LET live == InUse(transaction', caches')
     IN  tables' = [i \in Cache |-> IF i \in live THEN tb[i] ELSE NoSlots]
  /\ LET held == Held(tables', call')
     IN  value' = [s \in Slot |-> IF s \in held THEN v[s] ELSE Null]

\* Clear of the caches in which: the slots leave the maps, their values stay.
SlipClearValues(which) == Settle(tables,     \* the values go, the slots stay
  [s \in Slot |-> IF \E i \in which, k \in Key : tables[i][k] = s THEN Null ELSE value[s]])

Clear(which) == Settle([i \in Cache |-> IF i \in which THEN NoSlots ELSE tables[i]], value)

SlipNoCaches(c) == {}      \* the hook does nothing
StateCaches(c)  == {caches[c][a].cache : a \in Alias} \ {0}

-----------------------------------------------------------------------------
(* Glue, and the user's settings *)

\* Another client changes, creates or drops a table.
ChangeElsewhere(r, k, exists) ==
  /\ definition[r][k].version < MaxVersion
  /\ definition' = [definition EXCEPT ![r][k] =
       [version |-> definition[r][k].version + 1, exists |-> exists]]
  /\ UNCHANGED <<attached, attachment, scope, cacheVars, call, floor, cleared, fetched>>

\* SET glue_metadata_cache_scope: takes effect for transactions that start later.
SetScope(c, s) ==
  /\ AtRest(c)
  /\ scope[c] # s
  /\ scope' = [scope EXCEPT ![c] = s]
  /\ UNCHANGED <<definition, attached, attachment, cacheVars, call, floor, cleared, fetched>>

\* ATTACH, to any Glue catalog: nothing from before it may be seen through it.
Attach(a, r) ==
  /\ attached[a] = 0
  /\ \E o \in Oid :
       /\ \A p \in Oid : p < o <=> attachment[p] # Null
       /\ attached' = [attached EXCEPT ![a] = o]
       /\ attachment' = [attachment EXCEPT ![o] = [alias |-> a, remote |-> r]]
       /\ cleared' = [c \in Conn |-> [cleared[c] EXCEPT ![o] =
            [k \in Key |-> definition[r][k].version]]]
  /\ UNCHANGED <<definition, scope, cacheVars, call, floor, fetched>>

\* DETACH by a connection, of which OnDetach reaches the own cache state only
\* (EraseCache); Null is a connection that does nothing else. A transaction that uses
\* the catalog keeps it alive.
Detach(c, a) ==
  /\ c # Null => AtRest(c)
  /\ attached[a] # 0
  /\ attached' = [attached EXCEPT ![a] = 0]
  /\ caches' = IF c # Null /\ caches[c][a].attach_oid = attached[a]
               THEN [caches EXCEPT ![c][a] = [attach_oid |-> 0, cache |-> 0]]
               ELSE caches
  /\ UNCHANGED <<transaction, call>>
  /\ Settle(tables, value)
  /\ UNCHANGED <<definition, attachment, scope, next_id, load_lock, floor, cleared, fetched>>

-----------------------------------------------------------------------------
(* Transactions *)

SlipByAlias(c, o) ==       \* keyed by the alias alone
  LET a == attachment[o].alias
  IN  IF caches[c][a].cache # 0 THEN {caches[c][a].cache} ELSE {next_id + 1}

\* GetCache: the connection's cache for this attach, or a new one in its place.
GetCache(c, o) ==
  LET a == attachment[o].alias
  IN  IF caches[c][a].cache # 0 /\ caches[c][a].attach_oid = o
      THEN {caches[c][a].cache} ELSE {next_id + 1}

\* GlueTransaction: its cache is its own, or under the connection scope the
\* connection's.
StartTransaction(c, o) ==
  /\ \E a \in Alias : attached[a] = o
  /\ transaction[c][o] = 0
  /\ \E i \in IF scope[c] = "connection" THEN GetCache(c, o) ELSE {next_id + 1} :
       /\ i \in Cache
       /\ next_id' = Higher(next_id, i)
       /\ transaction' = [transaction EXCEPT ![c][o] = i]
       /\ caches' = IF scope[c] = "connection"
                    THEN [caches EXCEPT ![c][attachment[o].alias] =
                            [attach_oid |-> o, cache |-> i]]
                    ELSE caches
  /\ floor' = [floor EXCEPT ![c][o] = [k \in Key |->
                  IF scope[c] = "connection" THEN cleared[c][o][k] ELSE Newest(o, k)]]
  /\ UNCHANGED call
  /\ Settle(tables, value)
  /\ UNCHANGED <<definition, attached, attachment, scope, load_lock, cleared, fetched>>

\* The end of a transaction, on all the catalogs it used. A rollback clears what the
\* connection keeps (TransactionRollback).
EndTransaction(c, rollback) ==
  /\ AtRest(c)
  /\ \E o \in Oid : transaction[c][o] # 0
  /\ transaction' = [transaction EXCEPT ![c] = [o \in Oid |-> 0]]
  /\ UNCHANGED <<caches, call>>
  /\ Clear(IF rollback THEN StateCaches(c) ELSE {})
  /\ cleared' = IF rollback
                THEN [cleared EXCEPT ![c] = [o \in Oid |-> IF o \in Known
                        THEN [k \in Key |-> Newest(o, k)] ELSE cleared[c][o]]]
                ELSE cleared
  /\ floor' = [floor EXCEPT ![c] = [o \in Oid |-> [k \in Key |-> 0]]]
  /\ fetched' = [fetched EXCEPT ![c] = NoFetch]
  /\ UNCHANGED <<definition, attached, attachment, scope, next_id, load_lock>>

-----------------------------------------------------------------------------
(* Lookups *)

\* GetTable, GetPartitions: find or create the slot, under the cache's map lock.
Reference(t, o, k) ==
  LET c == ConnOf[t]
      i == transaction[c][o]
  IN  /\ call[t] = Idle
      /\ i # 0
      /\ \E s \in IF tables[i][k] # Null THEN {tables[i][k]} ELSE NewSlot :
           /\ call' = [call EXCEPT ![t] =
                [step |-> "resolve", oid |-> o, key |-> k, slot |-> s, got |-> Null,
                 floor |-> floor[c][o][k], current |-> TRUE]]
           /\ UNCHANGED <<transaction, caches>>
           /\ Settle([tables EXCEPT ![i][k] = s], value)
      /\ UNCHANGED <<definition, attached, attachment, scope, next_id, load_lock,
                     floor, cleared, fetched>>

\* Resolve, when the slot has a value.
Hit(t) ==
  /\ call[t].step = "resolve"
  /\ load_lock[call[t].slot] = Unlocked
  /\ value[call[t].slot] # Null
  /\ call' = [call EXCEPT ![t].step = "answered", ![t].got = value[call[t].slot],
                          ![t].slot = Null]
  /\ UNCHANGED <<transaction, caches>>
  /\ Settle(tables, value)
  /\ UNCHANGED <<definition, attached, attachment, scope, next_id, load_lock, floor, cleared, fetched>>

\* What Glue answers to a request for k: nothing when it has no such table.
Answer(o, k) ==
  IF definition[RemoteOf(o)][k].exists
  THEN [remote |-> RemoteOf(o), version |-> Newest(o, k)] ELSE Null

SlipNoRecheck(s) == TRUE      \* whatever the slot got while the thread waited
NeedsLoad(s)     == value[s] = Null

\* Resolve, when it has none: Glue is asked, with the load_lock held.
Load(t) ==
  /\ call[t].step = "resolve"
  /\ load_lock[call[t].slot] = Unlocked
  /\ NeedsLoad(call[t].slot)
  /\ load_lock' = [load_lock EXCEPT ![call[t].slot] = t]
  /\ call' = [call EXCEPT ![t].step = "load", ![t].got = Answer(call[t].oid, call[t].key)]
  /\ UNCHANGED <<definition, attached, attachment, scope, transaction, caches, next_id,
                 tables, value, floor, cleared, fetched>>

SlipLostLock(s) == load_lock' = [load_lock EXCEPT ![s] = Null]   \* moved from
Unlock(s)       == load_lock' = [load_lock EXCEPT ![s] = Unlocked]

\* The answer arrives and is kept; that there is no such table is not.
Store(t) ==
  LET s == call[t].slot
      c == ConnOf[t]
  IN  /\ call[t].step = "load"
      /\ call' = [call EXCEPT ![t].step = "answered", ![t].slot = Null]
      /\ Unlock(s)
      /\ UNCHANGED <<transaction, caches>>
      /\ Settle(tables, [value EXCEPT ![s] = call[t].got])
      /\ fetched' = IF call[t].current /\ call[t].got # Null
                    THEN [fetched EXCEPT ![c][call[t].oid][call[t].key] = @ + 1] ELSE fetched
      /\ UNCHANGED <<definition, attached, attachment, scope, next_id, floor, cleared>>

\* The request fails: an exception leaves Resolve, and the slot stays empty.
LoadFails(t) ==
  /\ call[t].step = "load"
  /\ call' = [call EXCEPT ![t] = Idle]
  /\ Unlock(call[t].slot)
  /\ UNCHANGED <<transaction, caches>>
  /\ Settle(tables, value)
  /\ UNCHANGED <<definition, attached, attachment, scope, next_id, floor, cleared, fetched>>

\* The caller has its answer.
Return(t) ==
  /\ call[t].step = "answered"
  /\ call' = [call EXCEPT ![t] = Idle]
  /\ UNCHANGED <<definition, attached, attachment, scope, cacheVars, floor, cleared, fetched>>

-----------------------------------------------------------------------------
(* Writes *)

\* A mutation of GlueAPI reaches Glue, or fails before it does (version stays).
Write(t, o, k, done, exists) ==
  LET c == ConnOf[t]
      r == RemoteOf(o)
  IN  /\ call[t] = Idle
      /\ transaction[c][o] # 0
      /\ definition[r][k].version < MaxVersion
      /\ definition' = IF done THEN [definition EXCEPT ![r][k] =
                           [version |-> definition[r][k].version + 1, exists |-> exists]]
                       ELSE definition
      /\ call' = [call EXCEPT ![t] =
           [step |-> "write", oid |-> o, key |-> k, slot |-> Null, got |-> Null,
            floor |-> definition'[r][k].version, current |-> TRUE]]
      /\ UNCHANGED <<attached, attachment, scope, cacheVars, floor, cleared, fetched>>

\* The version w of key k is the oldest one to be seen through o.
Raise(bound, c, which, k, w) ==
  [bound EXCEPT ![c] = [o \in Oid |-> IF o \in which
     THEN [bound[c][o] EXCEPT ![k] = Higher(@, w)] ELSE bound[c][o]]]

Aliases(o) == {p \in Known : RemoteOf(p) = RemoteOf(o)}

SlipOwnCache(t)   == {transaction[ConnOf[t]][call[t].oid]}
SlipStateOnly(t)  == StateCaches(ConnOf[t])
Invalidated(t)    == {transaction[ConnOf[t]][call[t].oid]} \cup StateCaches(ConnOf[t])

\* InvalidateOnExit: the transaction's cache and every cache of the connection. From
\* here on the connection sees its write; lookups already on their way may not.
Invalidate(t) ==
  LET c == ConnOf[t]
      w == call[t]
  IN  /\ w.step = "write"
      /\ call' = [u \in Thread |-> IF u = t \/ ConnOf[u] # c \/ call[u] = Idle
                                   THEN IF u = t THEN Idle ELSE call[u]
                                   ELSE [call[u] EXCEPT !.current = FALSE]]
      /\ UNCHANGED <<transaction, caches>>
      /\ Clear(Invalidated(t))
      /\ floor' = Raise(floor, c, {w.oid}, w.key, w.floor)
      /\ cleared' = Raise(cleared, c, Aliases(w.oid), w.key, w.floor)
      /\ fetched' = [fetched EXCEPT ![c] = NoFetch]
      /\ UNCHANGED <<definition, attached, attachment, scope, next_id, load_lock>>

-----------------------------------------------------------------------------

Settings ==
  \/ \E r \in Remote, k \in Key, exists \in BOOLEAN : ChangeElsewhere(r, k, exists)
  \/ \E c \in Conn, s \in {"transaction", "connection"} : SetScope(c, s)
  \/ \E a \in Alias, r \in Remote : Attach(a, r)
  \/ \E c \in Conn \cup {Null}, a \in Alias : Detach(c, a)

Transactions ==
  \/ \E c \in Conn, o \in Oid : StartTransaction(c, o)
  \/ \E c \in Conn, rollback \in BOOLEAN : EndTransaction(c, rollback)

Lookups ==
  \/ \E t \in Thread, o \in Oid, k \in Key : Reference(t, o, k)
  \/ \E t \in Thread : Hit(t) \/ Load(t) \/ Store(t) \/ LoadFails(t) \/ Return(t)

Writes ==
  \/ \E t \in Thread, o \in Oid, k \in Key, done, exists \in BOOLEAN :
       Write(t, o, k, done, exists)
  \/ \E t \in Thread : Invalidate(t)

Next == Settings \/ Transactions \/ Lookups \/ Writes

Spec == Init /\ [][Next]_vars

-----------------------------------------------------------------------------
(* Properties *)

\* A lookup never answers with something older than the last of: the start of its
\* transaction (under the scope 'transaction'), the connection's own write of the key,
\* its last rollback, and the ATTACH it looks through; nor with a definition of another
\* Glue catalog that had the same alias. (GlueTransactionCache::Invalidate, the
\* attach_oid of GetCache, TransactionRollback, and the scope in GlueTransaction's
\* constructor each clear or replace a cache for this.)
Fresh ==
  \A t \in Thread : call[t].step = "answered" /\ call[t].got # Null =>
    /\ call[t].got.remote = RemoteOf(call[t].oid)
    /\ call[t].got.version >= call[t].floor

\* Within a transaction a table's definition is fetched from Glue once and reused, also
\* by lookups that reach for it at the same time, until the connection writes
\* (GlueTransactionCache::Resolve).
FetchedOnce ==
  \A c \in Conn, o \in Oid, k \in Key : fetched[c][o][k] <= 1
=============================================================================
