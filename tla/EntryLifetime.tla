--------------------------- MODULE EntryLifetime ---------------------------
(***************************************************************************)
(* Lifetime of catalog entries in an attached Glue catalog.                *)
(*                                                                         *)
(* A lookup hands out a plain pointer to a GlueSchemaEntry or a GlueTable, *)
(* and another connection may replace or remove that entry at any moment.  *)
(* The entry is not destroyed then: the sets (GlueSchemaSet, GlueTableSet) *)
(* give it to the GlueTransactionManager, which frees it once no           *)
(* transaction older than the replacement is running.                      *)
(*                                                                         *)
(* One step is what the code does without another thread seeing it half    *)
(* done: everything under transaction_lock is one step, while an operation *)
(* on a set takes several steps between taking and leaving its entry_lock. *)
(***************************************************************************)
EXTENDS Naturals, FiniteSets

CONSTANTS
  Conn,         \* connections; each runs at most one Glue transaction at a time
  Name,         \* names of databases and of tables
  SchemaObj,    \* GlueSchemaEntry objects; each owns the GlueTableSet of its tables
  TableObj,     \* GlueTable and GlueView objects
  Root,         \* the GlueSchemaSet of the catalog
  Empty,        \* no entry under this name
  Moved,        \* the null unique_ptr RetireEntry leaves behind until the erase
  Unlocked,     \* nobody holds the entry_lock
  MaxSequence   \* bound: transactions started in a run

ASSUME ObjectsDistinct ==
  /\ SchemaObj \cap TableObj = {}
  /\ Root \notin SchemaObj \cup TableObj
  /\ {Empty, Moved} \cap (SchemaObj \cup TableObj) = {}
  /\ Empty # Moved
  /\ Empty # Root
  /\ Unlocked \notin Conn

ASSUME MaxSequenceNat == MaxSequence \in Nat

Obj  == SchemaObj \cup TableObj
Sets == {Root} \cup SchemaObj   \* a schema object stands for the table set it owns

\* What a set can hold: the schema set holds schemas, a schema's set holds tables.
Members(s) == IF s = Root THEN SchemaObj ELSE TableObj

VARIABLES
  transactions,          \* the connections with a running Glue transaction
  transaction_sequence,  \* the order they started in
  next_sequence,
  retired_entries,       \* records [retired_at, entry]
  entries,               \* entries[s][n]: what set s holds under name n
  owner,                 \* the set an object was built for; Empty before that
  freed,                 \* destroyed objects
  loaded,                \* the sets LoadEntries has filled (is_loaded)
  entry_lock,            \* who holds the lock of a set
  call,                  \* the set operation a connection is in
  bound                  \* the objects a connection's transaction has pointers to

managerVars == <<transactions, transaction_sequence, next_sequence, retired_entries>>
setVars     == <<entries, owner, loaded, entry_lock>>
vars        == <<managerVars, setVars, freed, call, bound>>

\* No operation on a set is going on.
Idle == [set |-> Root, todo |-> {}, result |-> {}]

Call == [set    : Sets,
         todo   : SUBSET Name,     \* names whose entry is still to be replaced
         result : SUBSET Name]     \* names whose entries the caller gets

TypeOK ==
  /\ transactions \subseteq Conn
  /\ transaction_sequence \in [Conn -> Nat]
  /\ next_sequence \in Nat
  /\ retired_entries \subseteq [retired_at : Nat, entry : Obj]
  /\ entries \in [Sets -> [Name -> Obj \cup {Empty, Moved}]]
  /\ owner \in [Obj -> Sets \cup {Empty}]
  /\ freed \subseteq Obj
  /\ loaded \subseteq Sets
  /\ entry_lock \in [Sets -> Conn \cup {Unlocked}]
  /\ call \in [Conn -> Call]
  /\ bound \in [Conn -> SUBSET Obj]

Init ==
  /\ transactions = {}
  /\ transaction_sequence = [c \in Conn |-> 0]
  /\ next_sequence = 0
  /\ retired_entries = {}
  /\ entries = [s \in Sets |-> [n \in Name |-> Empty]]
  /\ owner = [o \in Obj |-> Empty]
  /\ freed = {}
  /\ loaded = {}
  /\ entry_lock = [s \in Sets |-> Unlocked]
  /\ call = [c \in Conn |-> Idle]
  /\ bound = [c \in Conn |-> {}]

-----------------------------------------------------------------------------
(* GlueTransactionManager *)

\* (Operators whose name starts with Slip are variants of the operator after them
\* with a mistake in them: they show which property such a mistake would break.)
SlipStartEarly(c) ==
  /\ c \notin transactions
  /\ next_sequence < MaxSequence
  /\ transactions' = transactions \cup {c}
  /\ transaction_sequence' = [transaction_sequence EXCEPT ![c] = next_sequence - 1]
  /\ next_sequence' = next_sequence + 1
  /\ UNCHANGED <<retired_entries, setVars, freed, call, bound>>

\* Transaction::Get of a statement that has no Glue transaction yet.
StartTransaction(c) ==
  /\ c \notin transactions
  /\ next_sequence < MaxSequence
  /\ transactions' = transactions \cup {c}
  /\ transaction_sequence' = [transaction_sequence EXCEPT ![c] = next_sequence]
  /\ next_sequence' = next_sequence + 1
  /\ UNCHANGED <<retired_entries, setVars, freed, call, bound>>

SlipNewestRunning(running) ==   \* the newest running transaction, not the oldest
  {r \in retired_entries :
     running = {} \/ \E c \in running : r.retired_at <= transaction_sequence[c]}

SlipStrictly(running) ==        \* < for <=
  {r \in retired_entries : \A c \in running : r.retired_at < transaction_sequence[c]}

\* The retired entries no transaction in running started before.
Unneeded(running) ==
  {r \in retired_entries : \A c \in running : r.retired_at <= transaction_sequence[c]}

\* Destroying a schema destroys the table set it owns, and what that set holds.
Destroyed(objs) ==
  objs \cup {o \in Obj : \E s \in objs \cap SchemaObj, n \in Name : entries[s][n] = o}

\* CommitTransaction and RollbackTransaction: both leave the maps, then free.
EndTransaction(c) ==
  /\ c \in transactions
  /\ call[c] = Idle
  /\ LET gone == Unneeded(transactions \ {c})
     IN  /\ retired_entries' = retired_entries \ gone
         /\ freed' = freed \cup Destroyed({r.entry : r \in gone})
  /\ transactions' = transactions \ {c}
  /\ transaction_sequence' = [transaction_sequence EXCEPT ![c] = 0]
  /\ bound' = [bound EXCEPT ![c] = {}]
  /\ UNCHANGED <<next_sequence, setVars, call>>

-----------------------------------------------------------------------------
(* GlueSchemaSet and GlueTableSet *)

\* Bound: entries are built only while unused objects are left for all of them.
HeapRoom(s, building) ==
  Cardinality({p \in Conn \X Name :
                 /\ p[2] \in call[p[1]].todo \cap call[p[1]].result
                 /\ Members(call[p[1]].set) = Members(s)}) + Cardinality(building)
    <= Cardinality({o \in Members(s) : owner[o] = Empty})

SlipNoTransaction(c, s) ==      \* a lookup that does not start the transaction first
  /\ call[c] = Idle
  /\ s = Root \/ s \in bound[c]
  /\ entry_lock[s] = Unlocked

\* A set operation runs in a transaction started before entry_lock is taken. A
\* table set is reached through a schema entry the transaction has looked up.
MayEnter(c, s) ==
  /\ c \in transactions
  /\ call[c] = Idle
  /\ s = Root \/ s \in bound[c]
  /\ entry_lock[s] = Unlocked

\* Nothing to replace: the caller gets the entries it asked for.
Find(c, s, result) ==
  /\ MayEnter(c, s)
  /\ bound' = [bound EXCEPT ![c] = @ \cup ({entries[s][n] : n \in result} \cap Obj)]
  /\ UNCHANGED <<managerVars, entries, owner, entry_lock, freed, call>>

\* The names in todo get a new entry, or none where the caller gets none.
Replace(c, s, todo, result) ==
  /\ MayEnter(c, s)
  /\ HeapRoom(s, todo \cap result)
  /\ entry_lock' = [entry_lock EXCEPT ![s] = c]
  /\ call' = [call EXCEPT ![c] = [set |-> s, todo |-> todo, result |-> result]]
  /\ UNCHANGED <<managerVars, entries, owner, freed, bound>>

\* GetEntry: the entry is as Glue has it; or it is built, anew where Glue has
\* another version (a schema entry is never checked against Glue); or Glue no
\* longer has the table, or its definition cannot be turned into an entry.
GetEntry(c, s, n) ==
  /\ \/ Find(c, s, {n})
     \/ /\ s = Root => entries[s][n] = Empty
        /\ Replace(c, s, {n}, {n})
     \/ /\ s # Root
        /\ Replace(c, s, {n}, {})
  /\ UNCHANGED loaded

\* CreateEntry: CREATE and ALTER install the definition they fetched back.
CreateEntry(c, s, n) == Replace(c, s, {n}, {n}) /\ UNCHANGED loaded

\* RemoveEntry: DROP.
RemoveEntry(c, s, n) == Replace(c, s, {n}, {}) /\ UNCHANGED loaded

\* Scan shows the callback every entry, under the lock. The first one loads:
\* it replaces table entries Glue has other versions of, and adds missing schemas.
Scan(c, s) ==
  /\ \/ Find(c, s, Name)
     \/ /\ s \notin loaded
        /\ \E todo \in (SUBSET Name) \ {{}} :
             /\ s = Root => \A n \in todo : entries[s][n] = Empty
             /\ Replace(c, s, todo, Name)
  /\ loaded' = loaded \cup {s}

SlipOwnSequence(c, n) ==        \* stamped with the sequence of the retiring transaction
  LET s == call[c].set
  IN  /\ n \in call[c].todo
      /\ entries[s][n] \in Obj
      /\ retired_entries' = retired_entries \cup
           {[retired_at |-> transaction_sequence[c], entry |-> entries[s][n]]}
      /\ entries' = [entries EXCEPT ![s][n] = Moved]
      /\ UNCHANGED <<transactions, transaction_sequence, next_sequence,
                     owner, loaded, entry_lock, freed, call, bound>>

SlipNotMoved(c, n) ==           \* the set keeps the entry it retires
  LET s == call[c].set
  IN  /\ n \in call[c].todo
      /\ entries[s][n] \in Obj
      /\ retired_entries' = retired_entries \cup
           {[retired_at |-> next_sequence, entry |-> entries[s][n]]}
      /\ UNCHANGED <<transactions, transaction_sequence, next_sequence, entries,
                     owner, loaded, entry_lock, freed, call, bound>>

\* RetireEntry hands the object to the transaction manager, under transaction_lock;
\* the slot, now a null pointer, is erased only after that.
RetireEntry(c, n) ==
  LET s == call[c].set
  IN  /\ n \in call[c].todo
      /\ entries[s][n] \in Obj
      /\ retired_entries' = retired_entries \cup
           {[retired_at |-> next_sequence, entry |-> entries[s][n]]}
      /\ entries' = [entries EXCEPT ![s][n] = Moved]
      /\ UNCHANGED <<transactions, transaction_sequence, next_sequence,
                     owner, loaded, entry_lock, freed, call, bound>>

\* Name n is done. With the last one the operation leaves entry_lock, and the
\* caller gets the entries it asked for.
Leave(c, n) ==
  LET s == call[c].set
  IN  IF call[c].todo = {n}
      THEN /\ call' = [call EXCEPT ![c] = Idle]
           /\ entry_lock' = [entry_lock EXCEPT ![s] = Unlocked]
           /\ bound' = [bound EXCEPT ![c] =
                          @ \cup ({entries'[s][m] : m \in call[c].result} \cap Obj)]
      ELSE /\ call' = [call EXCEPT ![c].todo = @ \ {n}]
           /\ UNCHANGED <<entry_lock, bound>>

\* The slot is erased if there was an entry, and the new one is emplaced.
EmplaceEntry(c, n, o) ==
  LET s == call[c].set
  IN  /\ n \in call[c].todo \cap call[c].result
      /\ entries[s][n] \in {Empty, Moved}
      /\ o \in Members(s)
      /\ owner[o] = Empty
      /\ entries' = [entries EXCEPT ![s][n] = o]
      /\ owner' = [owner EXCEPT ![o] = s]
      /\ Leave(c, n)
      /\ UNCHANGED <<managerVars, loaded, freed>>

SlipNotErased(c, n) ==          \* the null pointer stays in the map
  LET s == call[c].set
  IN  /\ n \in call[c].todo \ call[c].result
      /\ entries[s][n] \in {Empty, Moved}
      /\ UNCHANGED entries
      /\ Leave(c, n)
      /\ UNCHANGED <<managerVars, owner, loaded, freed>>

\* The slot is erased and the name stays without an entry.
EraseEntry(c, n) ==
  LET s == call[c].set
  IN  /\ n \in call[c].todo \ call[c].result
      /\ entries[s][n] \in {Empty, Moved}
      /\ entries' = [entries EXCEPT ![s][n] = Empty]
      /\ Leave(c, n)
      /\ UNCHANGED <<managerVars, owner, loaded, freed>>

-----------------------------------------------------------------------------
Operate(c) ==
  \E s \in Sets :
    \/ \E n \in Name : GetEntry(c, s, n) \/ CreateEntry(c, s, n) \/ RemoveEntry(c, s, n)
    \/ Scan(c, s)

Progress(c) ==
  \E n \in Name :
    \/ RetireEntry(c, n)
    \/ EraseEntry(c, n)
    \/ \E o \in Obj : EmplaceEntry(c, n, o)

Next == \E c \in Conn :
          StartTransaction(c) \/ EndTransaction(c) \/ Operate(c) \/ Progress(c)

Spec == Init /\ [][Next]_vars

-----------------------------------------------------------------------------
(* Properties *)

\* A running transaction never holds a pointer to a destroyed entry, nor works in
\* the table set of a destroyed schema, whatever other connections replace, drop
\* or free meanwhile (GlueTransactionManager::RetireEntry, FreeRetiredEntries).
NoUseAfterFree ==
  \A c \in transactions :
    /\ bound[c] \cap freed = {}
    /\ call[c].set \notin freed

\* The schema of a table a transaction holds is alive too: a table entry refers
\* to the schema entry it was built for, which may be retired on its own.
SchemaOutlivesTables ==
  \A c \in transactions : \A o \in bound[c] : owner[o] \notin freed

\* Nothing is destroyed twice or handed out after its owner let go of it: an
\* object is under one name of one set, or retired once, and never both.
SingleOwner ==
  /\ \A s1, s2 \in Sets, n1, n2 \in Name :
       entries[s1][n1] = entries[s2][n2] /\ entries[s1][n1] \in Obj
         => s1 = s2 /\ n1 = n2
  /\ \A r \in retired_entries :
       /\ r.entry \notin freed
       /\ \A s \in Sets, n \in Name : entries[s][n] # r.entry
       /\ \A q \in retired_entries : q.entry = r.entry => q = r
  /\ \A o \in freed, s \in Sets \ freed, n \in Name : entries[s][n] # o

\* Only the holder of entry_lock is between RetireEntry and the erase, so that no
\* lookup dereferences the null pointer left in the map.
NullSlotHidden ==
  \A s \in Sets, n \in Name :
    entries[s][n] = Moved =>
      /\ entry_lock[s] \in Conn
      /\ call[entry_lock[s]].set = s
      /\ n \in call[entry_lock[s]].todo

\* A retired entry is kept only while a transaction older than its retirement is
\* running: the end of the last of them frees it, so nothing piles up.
NoRetiredLeak ==
  \A r \in retired_entries :
    \E c \in transactions : transaction_sequence[c] < r.retired_at

\* What the manager and the sets promise together: memory is reclaimed once, and
\* only when nobody holds it (module SafeReclamation).
Reclamation == INSTANCE SafeReclamation WITH
  Reader <- Conn,
  built <- {o \in Obj : owner[o] # Empty},
  reclaimed <- freed,
  pinned <- bound

ImplementsReclamation == Reclamation!Spec
=============================================================================
