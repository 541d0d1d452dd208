------------------------ MODULE MetadataCacheProofs ------------------------
(***************************************************************************)
(* The properties of MetadataCache for any number of threads, connections, *)
(* keys, aliases, catalogs, caches and versions.                           *)
(*                                                                         *)
(* IInv strengthens TypeOK: whose a cache is (OwnerInv), what a thread     *)
(* works for (CallInv), that no bound is ahead of Glue (BoundInv), which   *)
(* key of which cache a slot is for (SlotInv), how old what a slot has or  *)
(* is about to get may be (ValueInv), and who loads it (LoadInv).          *)
(***************************************************************************)
EXTENDS MetadataCache, TLAPS

\* Cache i is what the connection c reads catalog o through.
Uses(i, c, o) ==
  /\ i # 0
  /\ \/ transaction[c][o] = i
     \/ \E a \in Alias : caches[c][a].cache = i /\ caches[c][a].attach_oid = o

\* A cache is of one connection and one attached catalog as long as it is used; what is
\* not used is empty.
OwnerInv ==
  /\ \A a \in Alias : attached[a] # 0 => attached[a] \in Known
  /\ \A c \in Conn, o \in Oid :
       transaction[c][o] # 0 => o \in Known /\ transaction[c][o] <= next_id
  /\ \A c \in Conn, a \in Alias :
       caches[c][a].cache # 0 => caches[c][a].attach_oid \in Known /\ caches[c][a].cache <= next_id
  /\ \A i \in Cache, c, d \in Conn, o, p \in Oid : Uses(i, c, o) /\ Uses(i, d, p) => c = d /\ o = p
  /\ \A i \in Cache, k \in Key : tables[i][k] # Null => \E c \in Conn, o \in Oid : Uses(i, c, o)

\* Nothing that has to be visible is newer than what Glue has.
BoundInv ==
  \A c \in Conn, o \in Oid, k \in Key :
    /\ transaction[c][o] = 0 => floor[c][o][k] = 0
    /\ o \in Known => floor[c][o][k] <= Newest(o, k) /\ cleared[c][o][k] <= Newest(o, k)

Resolving(t) == call[t].step \in {"resolve", "load"}

\* A thread works within a transaction, and has a slot while it resolves it.
CallInv ==
  \A t \in Thread : call[t] # Idle =>
    /\ transaction[ConnOf[t]][call[t].oid] # 0
    /\ call[t].floor <= Newest(call[t].oid, call[t].key)
    /\ Resolving(t) <=> call[t].slot # Null

\* A slot is for one key of one cache, also for the threads that still have it when it
\* is in no map any more.
SlotInv ==
  /\ \A i, j \in Cache, k, l \in Key :
       tables[i][k] # Null /\ tables[i][k] = tables[j][l] => i = j /\ k = l
  /\ \A t \in Thread, i \in Cache, k \in Key : Resolving(t) /\ tables[i][k] = call[t].slot =>
       /\ k = call[t].key
       /\ \A c \in Conn, o \in Oid : Uses(i, c, o) => c = ConnOf[t] /\ o = call[t].oid
  /\ \A t, u \in Thread : Resolving(t) /\ Resolving(u) /\ call[t].slot = call[u].slot =>
       ConnOf[t] = ConnOf[u] /\ call[t].oid = call[u].oid /\ call[t].key = call[u].key

\* The slot has the definition, or a thread is about to put it there.
HasOrGets(s, d) ==
  /\ d # Null
  /\ \/ value[s] = d
     \/ \E u \in Thread : call[u].step = "load" /\ call[u].slot = s /\ call[u].got = d

\* A definition of the right catalog, and not older than the readers of a slot may see:
\* those that have the slot, and those that find it in the map later.
Fits(s, d) ==
  /\ \A t \in Thread : Resolving(t) /\ call[t].slot = s =>
       d.remote = RemoteOf(call[t].oid) /\ d.version >= call[t].floor
  /\ \A i \in Cache, k \in Key, c \in Conn, o \in Oid : tables[i][k] = s /\ Uses(i, c, o) =>
       /\ d.remote = RemoteOf(o)
       /\ transaction[c][o] = i => d.version >= floor[c][o][k]
       /\ \A a \in Alias : caches[c][a].cache = i => d.version >= cleared[c][o][k]

\* What is in a slot fits it, and somebody has the slot.
ValueInv ==
  /\ \A s \in Slot : value[s] # Null =>
       \/ \E i \in Cache, k \in Key : tables[i][k] = s
       \/ \E t \in Thread : Resolving(t) /\ call[t].slot = s
  /\ \A s \in Slot, d \in Definition : HasOrGets(s, d) => Fits(s, d)

\* A slot is loaded by one thread, and only while it is empty; a lookup since which the
\* connection has not written has the slot that is in the map.
LoadInv ==
  /\ \A t \in Thread : call[t].step = "load" =>
       load_lock[call[t].slot] = t /\ value[call[t].slot] = Null
  /\ \A t \in Thread : Resolving(t) /\ call[t].current =>
       tables[transaction[ConnOf[t]][call[t].oid]][call[t].key] = call[t].slot
  /\ \A c \in Conn, o \in Oid, k \in Key : fetched[c][o][k] # 0 =>
       /\ fetched[c][o][k] = 1
       /\ transaction[c][o] # 0
       /\ tables[transaction[c][o]][k] # Null
       /\ value[tables[transaction[c][o]][k]] # Null

IInv ==
  /\ TypeOK /\ OwnerInv /\ BoundInv /\ CallInv /\ SlotInv /\ ValueInv /\ LoadInv
  /\ Fresh

-----------------------------------------------------------------------------
(* Types *)

USE Bounds, ThreadsOfConnections, NullDistinct, UnlockedIsNoThread

Tables == [Cache -> [Key -> Slot \cup {Null}]]
Values == [Slot -> Definition \cup {Null}]

\* What a thread is doing: nothing, or a call with all of its fields.
LEMMA CallFacts ==
  ASSUME TypeOK, NEW t \in Thread
  PROVE  /\ call[t] = Idle => call[t].step = "idle"
         /\ call[t] # Idle =>
              /\ call[t] \in Call
              /\ call[t].step \in Step /\ call[t].oid \in Oid /\ call[t].key \in Key
              /\ call[t].slot \in Slot \cup {Null} /\ call[t].got \in Definition \cup {Null}
              /\ call[t].floor \in 0 .. MaxVersion /\ call[t].current \in BOOLEAN
              /\ call[t].step # "idle"
         /\ Resolving(t) => call[t] # Idle
  BY DEF TypeOK, Call, Idle, Step, Resolving

\* It works for an attached catalog.
LEMMA KnownCalls ==
  ASSUME IInv, NEW t \in Thread, call[t] # Idle \/ Resolving(t)
  PROVE  call[t].oid \in Known /\ call[t].oid \in Oid
<1>1. call[t] # Idle /\ call[t].oid \in Oid
  BY CallFacts DEF IInv
<1>2. transaction[ConnOf[t]][call[t].oid] # 0 /\ ConnOf[t] \in Conn
  BY <1>1 DEF IInv, CallInv
<1>3. QED
  BY <1>1, <1>2 DEF IInv, OwnerInv

\* What Settle leaves: less than it is given, but all that somebody has a pointer to.
LEMMA SettleFacts ==
  ASSUME NEW tb \in Tables, NEW v \in Values, Settle(tb, v)
  PROVE  /\ tables' \in Tables /\ value' \in Values
         /\ \A i \in Cache, k \in Key : tables'[i][k] \in {tb[i][k], Null}
         /\ \A i \in Cache, k \in Key : tables'[i][k] # Null =>
              \/ \E c \in Conn, o \in Oid : transaction'[c][o] = i
              \/ \E c \in Conn, a \in Alias : caches'[c][a].cache = i
         /\ \A i \in Cache :
              \/ \E c \in Conn, o \in Oid : transaction'[c][o] = i
              \/ \E c \in Conn, a \in Alias : caches'[c][a].cache = i
              => tables'[i] = tb[i]
         /\ \A s \in Slot : value'[s] \in {v[s], Null}
         /\ \A s \in Slot :
              \/ \E i \in Cache, k \in Key : tables'[i][k] = s
              \/ \E t \in Thread : call'[t] # Idle /\ call'[t].slot = s
              => value'[s] = v[s]
         /\ \A s \in Slot : value'[s] # Null =>
              \/ \E i \in Cache, k \in Key : tables'[i][k] = s
              \/ \E t \in Thread : call'[t] # Idle /\ call'[t].slot = s
<1> DEFINE live == InUse(transaction', caches')
           held == Held(tables', call')
<1>1. /\ tables' = [i \in Cache |-> IF i \in live THEN tb[i] ELSE NoSlots]
      /\ value' = [s \in Slot |-> IF s \in held THEN v[s] ELSE Null]
  BY DEF Settle
<1>2. \A i : i \in live <=> \/ \E c \in Conn, o \in Oid : transaction'[c][o] = i
                            \/ \E c \in Conn, a \in Alias : caches'[c][a].cache = i
  BY DEF InUse
<1>3. \A s : s \in held <=> \/ \E i \in Cache, k \in Key : tables'[i][k] = s
                            \/ \E t \in Thread : call'[t] # Idle /\ call'[t].slot = s
  BY DEF Held
<1>4. NoSlots \in [Key -> Slot \cup {Null}] /\ \A k \in Key : NoSlots[k] = Null
  BY DEF NoSlots
<1> HIDE DEF live, held
<1>5. /\ tables' \in Tables /\ value' \in Values
  BY <1>1, <1>4 DEF Tables, Values
<1>6. \A i \in Cache, k \in Key : tables'[i][k] = IF i \in live THEN tb[i][k] ELSE Null
  BY <1>1, <1>4
<1>7. \A i \in Cache : i \in live => tables'[i] = tb[i]
  BY <1>1
<1>8. \A s \in Slot : value'[s] = IF s \in held THEN v[s] ELSE Null
  BY <1>1
<1>9. QED
  BY <1>2, <1>3, <1>5, <1>6, <1>7, <1>8

\* A slot that nobody has is empty, and loaded by nobody.
LEMMA NewSlotFacts ==
  ASSUME IInv, NEW s \in NewSlot
  PROVE  /\ s \in Slot
         /\ \A i \in Cache, k \in Key : tables[i][k] # s
         /\ \A t \in Thread : Resolving(t) => call[t].slot # s
         /\ value[s] = Null
<1> DEFINE unused == Slot \ Held(tables, call)
<1>1. s \in unused
  BY DEF NewSlot
<1>2. s \notin Held(tables, call) /\ s \in Slot
  BY <1>1
<1>3. /\ \A i \in Cache, k \in Key : tables[i][k] # s
      /\ \A t \in Thread : call[t] # Idle => call[t].slot # s
  BY <1>2 DEF Held
<1>4. \A t \in Thread : Resolving(t) => call[t].slot # s
  BY <1>3, CallFacts DEF IInv
<1>5. value[s] = Null
  BY <1>2, <1>3, <1>4 DEF IInv, ValueInv, Fits
<1>6. QED
  BY <1>2, <1>3, <1>4, <1>5

-----------------------------------------------------------------------------
(* What most steps leave as it was *)

\* Slots leave the maps and threads are done with theirs, but none is added.
Shrinks ==
  /\ \A i \in Cache, k \in Key : tables'[i][k] \in {tables[i][k], Null}
  /\ \A i \in Cache, k \in Key, c \in Conn, o \in Oid :
       tables'[i][k] # Null /\ Uses(i, c, o)' => Uses(i, c, o)
  /\ \A t \in Thread : Resolving(t)' =>
       /\ Resolving(t)
       /\ call'[t].slot = call[t].slot /\ call'[t].oid = call[t].oid
       /\ call'[t].key = call[t].key /\ call'[t].floor = call[t].floor

\* What a cache that is still used may hold is not raised.
BoundsKept ==
  \A i \in Cache, k \in Key, c \in Conn, o \in Oid : tables'[i][k] # Null /\ Uses(i, c, o) =>
    /\ transaction'[c][o] = i =>
         \/ transaction[c][o] = i /\ floor'[c][o][k] <= floor[c][o][k]
         \/ /\ \E a \in Alias : caches[c][a].cache = i
            /\ floor'[c][o][k] <= cleared[c][o][k]
    /\ \A a \in Alias : caches'[c][a].cache = i =>
         (\E b \in Alias : caches[c][b].cache = i) /\ cleared'[c][o][k] <= cleared[c][o][k]

\* Nothing gets into a slot that does not fit it.
NothingNew == \A s \in Slot, d \in Definition : HasOrGets(s, d)' => Fits(s, d)

SameRemotes == \A o \in Known : RemoteOf(o)' = RemoteOf(o)

\* SlotInv is kept by steps that add no slot.
LEMMA SlotFrame ==
  ASSUME IInv, Shrinks
  PROVE  SlotInv'
<1>1. \A i, j \in Cache, k, l \in Key :
        tables'[i][k] # Null /\ tables'[i][k] = tables'[j][l] => i = j /\ k = l
  BY DEF IInv, SlotInv, Shrinks
<1>2. ASSUME NEW t \in Thread, NEW i \in Cache, NEW k \in Key, Resolving(t)',
             tables'[i][k] = call'[t].slot, call'[t].slot # Null
      PROVE  /\ k = call'[t].key
             /\ \A c \in Conn, o \in Oid : Uses(i, c, o)' => c = ConnOf[t] /\ o = call'[t].oid
  BY <1>2 DEF IInv, SlotInv, Shrinks
<1>3. \A t \in Thread : Resolving(t)' => call'[t].slot # Null
  BY CallFacts DEF IInv, CallInv, Shrinks
<1>4. \A t, u \in Thread : Resolving(t)' /\ Resolving(u)' /\ call'[t].slot = call'[u].slot =>
        ConnOf[t] = ConnOf[u] /\ call'[t].oid = call'[u].oid /\ call'[t].key = call'[u].key
  BY DEF IInv, SlotInv, Shrinks
<1>5. QED
  BY <1>1, <1>2, <1>3, <1>4 DEF SlotInv

\* So is what ValueInv says of the definitions, if no bound is raised.
LEMMA ValueFrame ==
  ASSUME IInv, TypeOK', Shrinks, BoundsKept, NothingNew, SameRemotes,
         NEW s \in Slot, NEW d \in Definition, HasOrGets(s, d)'
  PROVE  /\ \A t \in Thread : Resolving(t)' /\ call'[t].slot = s =>
              d.remote = RemoteOf(call[t].oid)' /\ d.version >= call'[t].floor
         /\ \A i \in Cache, k \in Key, c \in Conn, o \in Oid :
              tables'[i][k] = s /\ Uses(i, c, o)' =>
                /\ d.remote = RemoteOf(o)'
                /\ transaction'[c][o] = i => d.version >= floor'[c][o][k]
                /\ \A a \in Alias : caches'[c][a].cache = i => d.version >= cleared'[c][o][k]
<1>1. Fits(s, d)
  BY DEF NothingNew
<1>2. ASSUME NEW t \in Thread, Resolving(t)', call'[t].slot = s
      PROVE  d.remote = RemoteOf(call[t].oid)' /\ d.version >= call'[t].floor
  <2>1. /\ Resolving(t) /\ call[t].slot = s
        /\ call'[t].oid = call[t].oid /\ call'[t].floor = call[t].floor
    BY <1>2 DEF Shrinks
  <2>2. call[t].oid \in Known
    BY <2>1, KnownCalls
  <2>3. QED
    BY <1>1, <2>1, <2>2 DEF Fits, SameRemotes, RemoteOf
<1>3. ASSUME NEW i \in Cache, NEW k \in Key, NEW c \in Conn, NEW o \in Oid,
             tables'[i][k] = s, Uses(i, c, o)'
      PROVE  /\ d.remote = RemoteOf(o)'
             /\ transaction'[c][o] = i => d.version >= floor'[c][o][k]
             /\ \A a \in Alias : caches'[c][a].cache = i => d.version >= cleared'[c][o][k]
  <2>1. tables[i][k] = s /\ tables'[i][k] # Null /\ Uses(i, c, o)
    BY <1>3 DEF Shrinks
  <2>2. o \in Known
    BY <2>1 DEF IInv, OwnerInv, Uses
  <2>3. /\ d.remote = RemoteOf(o)
        /\ transaction[c][o] = i => d.version >= floor[c][o][k]
        /\ \A a \in Alias : caches[c][a].cache = i => d.version >= cleared[c][o][k]
    BY <1>1, <2>1 DEF Fits
  <2>4. /\ d.version \in Nat /\ floor[c][o][k] \in Nat /\ floor'[c][o][k] \in Nat
        /\ cleared[c][o][k] \in Nat /\ cleared'[c][o][k] \in Nat
    BY DEF IInv, TypeOK, Definition
  <2>5. transaction'[c][o] = i => d.version >= floor'[c][o][k]
    BY <2>1, <2>3, <2>4 DEF BoundsKept
  <2>6. \A a \in Alias : caches'[c][a].cache = i => d.version >= cleared'[c][o][k]
    BY <2>1, <2>3, <2>4 DEF BoundsKept
  <2>7. QED
    BY <2>2, <2>3, <2>5, <2>6 DEF SameRemotes
<1>4. QED
  BY <1>2, <1>3

\* A cache that is live is one of a connection and a catalog.
LEMMA LiveUses ==
  ASSUME IInv, NEW i \in Cache,
         \/ \E c \in Conn, o \in Oid : transaction[c][o] = i
         \/ \E c \in Conn, a \in Alias : caches[c][a].cache = i
  PROVE  \E c \in Conn, o \in Oid : Uses(i, c, o)
<1>1. i # 0
  BY DEF Cache
<1>2. CASE \E c \in Conn, o \in Oid : transaction[c][o] = i
  BY <1>1, <1>2 DEF Uses
<1>3. CASE \E c \in Conn, a \in Alias : caches[c][a].cache = i
  <2>1. PICK c \in Conn, a \in Alias : caches[c][a].cache = i
    BY <1>3
  <2>2. caches[c][a].attach_oid \in Oid
    BY <1>1, <2>1 DEF IInv, OwnerInv, Known
  <2>3. QED
    BY <1>1, <2>1, <2>2 DEF Uses
<1>4. QED
  BY <1>2, <1>3

\* A step that leaves Glue, the attachments, the transactions and whose the caches are.
Steady ==
  UNCHANGED <<definition, attached, attachment, scope, transaction, caches, next_id, floor, cleared>>

\* Such a step needs a look at the slots only.
LEMMA SteadyFrame ==
  ASSUME IInv, Steady,
         \A i \in Cache, k \in Key : tables'[i][k] # Null =>
           \/ tables[i][k] # Null
           \/ \E c \in Conn, o \in Oid : transaction'[c][o] = i
           \/ \E c \in Conn, a \in Alias : caches'[c][a].cache = i
  PROVE  /\ OwnerInv' /\ BoundInv' /\ SameRemotes /\ BoundsKept
         /\ \A i, c, o : Uses(i, c, o)' = Uses(i, c, o)
         /\ \A o, k : RemoteOf(o)' = RemoteOf(o) /\ Newest(o, k)' = Newest(o, k)
<1>1. \A i, c, o : Uses(i, c, o)' = Uses(i, c, o)
  BY DEF Steady, Uses
<1>2. Known' = Known /\ \A o, k : RemoteOf(o)' = RemoteOf(o) /\ Newest(o, k)' = Newest(o, k)
  BY DEF Steady, Known, RemoteOf, Newest
<1>3. \A i \in Cache, k \in Key : tables'[i][k] # Null => \E c \in Conn, o \in Oid : Uses(i, c, o)
  BY LiveUses DEF IInv, OwnerInv, Steady
<1>4. OwnerInv'
  BY <1>1, <1>2, <1>3 DEF IInv, OwnerInv, Steady
<1>5. BoundInv'
  BY <1>2 DEF IInv, BoundInv, Steady
<1>6. SameRemotes
  BY <1>2 DEF SameRemotes
<1>7. BoundsKept
  <2>1. \A c \in Conn, o \in Oid, k \in Key :
          floor[c][o][k] <= floor[c][o][k] /\ cleared[c][o][k] <= cleared[c][o][k]
    BY DEF IInv, TypeOK
  <2>2. QED
    BY <2>1 DEF BoundsKept, Steady
<1>8. QED
  BY <1>1, <1>2, <1>4, <1>5, <1>6, <1>7

-----------------------------------------------------------------------------
(* Lookups *)

\* The thread t goes on, and the others do what they did.
Goes(t) == \A u \in Thread \ {t} : call'[u] = call[u]

\* A thread that is done with its slot: whatever it was told, the others keep theirs.
LEMMA DoneFrame ==
  ASSUME IInv, TypeOK', NEW t \in Thread, Goes(t), Resolving(t), Steady,
         ~Resolving(t)', call'[t] = Idle \/ call'[t].slot = Null,
         NEW v \in Values, Settle(tables, v),
         \A s \in Slot : v[s] # Null =>
           \/ v[s] = value[s]
           \/ call[t].step = "load" /\ s = call[t].slot /\ v[s] = call[t].got
           \/ load_lock[s] = Unlocked /\ Fits(s, v[s]),
         \A s \in Slot : v[s] = Null => value[s] = Null,
         \A u \in Thread \ {t} : call[u].step = "load" =>
           load_lock'[call[u].slot] = load_lock[call[u].slot]
  PROVE  /\ OwnerInv' /\ BoundInv' /\ SlotInv' /\ ValueInv'
         /\ \A u \in Thread : call'[u].step = "load" =>
              load_lock'[call'[u].slot] = u /\ value'[call'[u].slot] = Null
         /\ \A u \in Thread : Resolving(u)' /\ call'[u].current =>
              tables'[transaction'[ConnOf[u]][call'[u].oid]][call'[u].key] = call'[u].slot
         /\ \A i \in Cache, c \in Conn, o \in Oid : transaction[c][o] = i => tables'[i] = tables[i]
         /\ \A i \in Cache, k \in Key : tables'[i][k] \in Slot =>
              value'[tables'[i][k]] = v[tables'[i][k]]
<1>1. tables \in Tables
  BY DEF IInv, TypeOK, Tables
<1>2. /\ \A i \in Cache, k \in Key : tables'[i][k] \in {tables[i][k], Null}
      /\ \A i \in Cache, c \in Conn, o \in Oid : transaction[c][o] = i => tables'[i] = tables[i]
      /\ \A s \in Slot : value'[s] \in {v[s], Null}
      /\ \A s \in Slot :
           \/ \E i \in Cache, k \in Key : tables'[i][k] = s
           \/ \E u \in Thread : call'[u] # Idle /\ call'[u].slot = s
           => value'[s] = v[s]
      /\ \A s \in Slot : value'[s] # Null =>
           \/ \E i \in Cache, k \in Key : tables'[i][k] = s
           \/ \E u \in Thread : call'[u] # Idle /\ call'[u].slot = s
  BY <1>1, SettleFacts DEF Steady
<1>3. /\ OwnerInv' /\ BoundInv' /\ SameRemotes /\ BoundsKept
      /\ \A i, c, o : Uses(i, c, o)' = Uses(i, c, o)
  BY <1>2, SteadyFrame
<1>4. Shrinks
  BY <1>2, <1>3 DEF Shrinks, Goes, Resolving
<1>5. NothingNew
  <2> SUFFICES ASSUME NEW s \in Slot, NEW d \in Definition, HasOrGets(s, d)'
               PROVE  Fits(s, d)
    BY DEF NothingNew
  <2>1. CASE value'[s] = d
    <3>1. d = v[s] /\ d # Null
      BY <1>2, <2>1 DEF HasOrGets
    <3>2. HasOrGets(s, d) \/ Fits(s, d)
      BY <3>1 DEF HasOrGets
    <3>3. QED
      BY <3>2 DEF IInv, ValueInv
  <2>2. CASE \E u \in Thread : call'[u].step = "load" /\ call'[u].slot = s /\ call'[u].got = d
    <3>1. HasOrGets(s, d)
      BY <2>2 DEF HasOrGets, Goes, Resolving
    <3>2. QED
      BY <3>1 DEF IInv, ValueInv
  <2>3. QED
    BY <2>1, <2>2 DEF HasOrGets
<1>6. SlotInv'
  BY <1>4, SlotFrame
<1>7. ValueInv'
  <2>1. \A s \in Slot : value'[s] # Null =>
          \/ \E i \in Cache, k \in Key : tables'[i][k] = s
          \/ \E u \in Thread : Resolving(u)' /\ call'[u].slot = s
    <3>1. \A u \in Thread : call'[u] # Idle /\ call'[u].slot \in Slot => Resolving(u)'
      BY CallFacts DEF IInv, CallInv, Goes, Resolving
    <3>2. QED
      BY <1>2, <3>1
  <2>2. QED
    <3>1. ASSUME NEW s \in Slot, NEW d \in Definition, HasOrGets(s, d)'
          PROVE  /\ \A u \in Thread : Resolving(u)' /\ call'[u].slot = s =>
                      d.remote = RemoteOf(call[u].oid)' /\ d.version >= call'[u].floor
                 /\ \A i \in Cache, k \in Key, c \in Conn, o \in Oid :
                      tables'[i][k] = s /\ Uses(i, c, o)' =>
                        /\ d.remote = RemoteOf(o)'
                        /\ transaction'[c][o] = i => d.version >= floor'[c][o][k]
                        /\ \A a \in Alias : caches'[c][a].cache = i =>
                             d.version >= cleared'[c][o][k]
      BY <1>3, <1>4, <1>5, <3>1, ValueFrame
    <3>2. QED
      BY <2>1, <3>1 DEF ValueInv, Fits
<1>8. ASSUME NEW u \in Thread, call'[u].step = "load"
      PROVE  load_lock'[call'[u].slot] = u /\ value'[call'[u].slot] = Null
  <2> u # t /\ call'[u] = call[u] /\ call[u].step = "load"
    BY <1>8 DEF Goes, Resolving
  <2>1. load_lock[call[u].slot] = u /\ value[call[u].slot] = Null
    BY <1>8 DEF IInv, LoadInv
  <2>2. call[u].slot \in Slot
    BY <1>8, CallFacts DEF IInv, CallInv, Resolving
  <2>3. call[t].step = "load" => call[t].slot # call[u].slot
    BY <2>1 DEF IInv, LoadInv
  <2>4. v[call[u].slot] = Null
    BY <2>1, <2>2, <2>3
  <2>5. QED
    BY <1>2, <1>8, <2>1, <2>2, <2>4
<1>9. ASSUME NEW u \in Thread, Resolving(u)', call'[u].current
      PROVE  tables'[transaction'[ConnOf[u]][call'[u].oid]][call'[u].key] = call'[u].slot
  <2>1. u # t /\ call'[u] = call[u] /\ Resolving(u) /\ call[u].current
    BY <1>9 DEF Goes, Resolving
  <2>2. tables[transaction[ConnOf[u]][call[u].oid]][call[u].key] = call[u].slot
    BY <2>1 DEF IInv, LoadInv
  <2>3. ConnOf[u] \in Conn /\ call[u].oid \in Oid /\ transaction[ConnOf[u]][call[u].oid] \in Cache
    BY <2>1, CallFacts DEF IInv, CallInv, TypeOK
  <2>4. QED
    BY <1>2, <2>1, <2>2, <2>3 DEF Steady
<1>10. \A i \in Cache, k \in Key : tables'[i][k] \in Slot => value'[tables'[i][k]] = v[tables'[i][k]]
  BY <1>2
<1>11. QED
  BY <1>2, <1>3, <1>6, <1>7, <1>8, <1>9, <1>10

\* What was fetched in a transaction stays in its cache.
LEMMA FetchedFrame ==
  ASSUME IInv, UNCHANGED <<fetched, transaction>>,
         \A i \in Cache, c \in Conn, o \in Oid : transaction[c][o] = i => tables'[i] = tables[i],
         \A i \in Cache, k \in Key : tables'[i][k] \in Slot /\ value[tables'[i][k]] # Null =>
           value'[tables'[i][k]] # Null
  PROVE  \A c \in Conn, o \in Oid, k \in Key : fetched'[c][o][k] # 0 =>
           /\ fetched'[c][o][k] = 1
           /\ transaction'[c][o] # 0
           /\ tables'[transaction'[c][o]][k] # Null
           /\ value'[tables'[transaction'[c][o]][k]] # Null
<1> SUFFICES ASSUME NEW c \in Conn, NEW o \in Oid, NEW k \in Key, fetched[c][o][k] # 0
             PROVE  /\ fetched[c][o][k] = 1
                    /\ transaction[c][o] # 0
                    /\ tables'[transaction[c][o]][k] # Null
                    /\ value'[tables'[transaction[c][o]][k]] # Null
  OBVIOUS
<1>1. /\ fetched[c][o][k] = 1
      /\ transaction[c][o] # 0
      /\ tables[transaction[c][o]][k] # Null
      /\ value[tables[transaction[c][o]][k]] # Null
  BY DEF IInv, LoadInv
<1>2. transaction[c][o] \in Cache
  BY <1>1 DEF IInv, TypeOK
<1>3. tables'[transaction[c][o]] = tables[transaction[c][o]]
  BY <1>2
<1>4. tables[transaction[c][o]][k] \in Slot
  BY <1>1, <1>2 DEF IInv, TypeOK
<1>5. QED
  BY <1>1, <1>2, <1>3, <1>4

\* What the other threads do needs no second look.
LEMMA CallFrame ==
  ASSUME IInv, NEW t \in Thread, Goes(t), Steady,
         call'[t] # Idle =>
           /\ transaction[ConnOf[t]][call'[t].oid] # 0
           /\ call'[t].floor <= Newest(call'[t].oid, call'[t].key)
           /\ Resolving(t)' <=> call'[t].slot # Null
  PROVE  CallInv'
<1>1. \A o, k : Newest(o, k)' = Newest(o, k)
  BY DEF Steady, Newest, RemoteOf
<1>2. ASSUME NEW u \in Thread, call'[u] # Idle
      PROVE  /\ transaction'[ConnOf[u]][call'[u].oid] # 0
             /\ call'[u].floor <= Newest(call'[u].oid, call'[u].key)
             /\ Resolving(u)' <=> call'[u].slot # Null
  <2>1. CASE u = t
    BY <1>2, <2>1 DEF Steady
  <2>2. CASE u # t
    BY <1>2, <2>2 DEF IInv, CallInv, Goes, Resolving, Steady
  <2>3. QED
    BY <2>1, <2>2
<1>3. QED
  BY <1>1, <1>2 DEF CallInv, Newest, RemoteOf, Steady

\* Resolve finds a value, which is not older than what the lookup may see.
LEMMA HitIInv ==
  ASSUME IInv, NEW t \in Thread, Hit(t)
  PROVE  IInv'
<1> DEFINE s == call[t].slot
           new == [call[t] EXCEPT !.step = "answered", !.got = value[s], !.slot = Null]
<1>1. /\ call[t].step = "resolve" /\ value[s] # Null /\ Settle(tables, value) /\ Steady
      /\ UNCHANGED <<load_lock, fetched>>
  BY DEF Hit, Steady
<1>2. /\ Resolving(t) /\ call[t] # Idle /\ call[t] \in Call /\ s \in Slot
      /\ value[s] \in Definition
  BY <1>1, CallFacts DEF IInv, CallInv, Resolving, TypeOK
<1>3. new \in Call
  BY <1>2 DEF Call, Step
<1>4. /\ call' = [call EXCEPT ![t] = new] /\ call' \in [Thread -> Call \cup {Idle}]
      /\ call'[t] = new /\ Goes(t)
  BY <1>2, <1>3 DEF Hit, IInv, TypeOK, Call, Goes
<1>5. /\ new.step = "answered" /\ new.slot = Null /\ new.got = value[s]
      /\ new.oid = call[t].oid /\ new.key = call[t].key /\ new.floor = call[t].floor
  BY <1>2 DEF Call
<1> HIDE DEF new, s
<1>6. tables \in Tables /\ value \in Values
  BY DEF IInv, TypeOK, Tables, Values
<1>7. TypeOK'
  BY <1>1, <1>4, <1>6, SettleFacts DEF IInv, TypeOK, Steady, Tables, Values
<1>8. ~Resolving(t)'
  BY <1>4, <1>5 DEF Resolving
<1>9. /\ OwnerInv' /\ BoundInv' /\ SlotInv' /\ ValueInv'
      /\ \A u \in Thread : call'[u].step = "load" =>
           load_lock'[call'[u].slot] = u /\ value'[call'[u].slot] = Null
      /\ \A u \in Thread : Resolving(u)' /\ call'[u].current =>
           tables'[transaction'[ConnOf[u]][call'[u].oid]][call'[u].key] = call'[u].slot
      /\ \A i \in Cache, c \in Conn, o \in Oid : transaction[c][o] = i => tables'[i] = tables[i]
      /\ \A i \in Cache, k \in Key : tables'[i][k] \in Slot =>
           value'[tables'[i][k]] = value[tables'[i][k]]
  BY <1>1, <1>2, <1>4, <1>5, <1>6, <1>7, <1>8, DoneFrame
<1>10. CallInv'
  <2>1. /\ transaction[ConnOf[t]][call'[t].oid] # 0
        /\ call'[t].floor <= Newest(call'[t].oid, call'[t].key)
    BY <1>2, <1>4, <1>5 DEF IInv, CallInv
  <2>2. Resolving(t)' <=> call'[t].slot # Null
    BY <1>4, <1>5, <1>8
  <2>3. QED
    BY <1>1, <1>4, <2>1, <2>2, CallFrame
<1>11. LoadInv'
  <2>1. UNCHANGED <<fetched, transaction>>
    BY <1>1 DEF Steady
  <2>2. QED
    BY <1>9, <2>1, FetchedFrame DEF LoadInv
<1>12. Fresh'
  <2>1. HasOrGets(s, value[s])
    BY <1>1, <1>2 DEF HasOrGets, s
  <2>2. value[s].remote = RemoteOf(call[t].oid) /\ value[s].version >= call[t].floor
    BY <1>2, <2>1 DEF IInv, ValueInv, Fits, s
  <2>3. QED
    BY <1>1, <1>4, <1>5, <2>2 DEF IInv, Fresh, Goes, Steady, RemoteOf
<1>13. QED
  BY <1>7, <1>9, <1>10, <1>11, <1>12 DEF IInv

\* The answer of Glue is kept in the slot, and what it counts for.
LEMMA StoreIInv ==
  ASSUME IInv, NEW t \in Thread, Store(t)
  PROVE  IInv'
<1> DEFINE s == call[t].slot
           c == ConnOf[t]
           new == [call[t] EXCEPT !.step = "answered", !.slot = Null]
           v == [value EXCEPT ![s] = call[t].got]
<1>1. /\ call[t].step = "load" /\ Settle(tables, v) /\ Steady
      /\ load_lock' = [load_lock EXCEPT ![s] = Unlocked]
      /\ fetched' = IF call[t].current /\ call[t].got # Null
                    THEN [fetched EXCEPT ![c][call[t].oid][call[t].key] = @ + 1] ELSE fetched
  BY DEF Store, Steady, Unlock
<1>2. /\ Resolving(t) /\ call[t] # Idle /\ call[t] \in Call /\ s \in Slot
      /\ call[t].got \in Definition \cup {Null} /\ call[t].oid \in Oid /\ call[t].key \in Key
      /\ c \in Conn
  BY <1>1, CallFacts DEF IInv, CallInv, Resolving, TypeOK
<1>3. new \in Call
  BY <1>2 DEF Call, Step
<1>4. /\ call' = [call EXCEPT ![t] = new] /\ call' \in [Thread -> Call \cup {Idle}]
      /\ call'[t] = new /\ Goes(t)
  BY <1>2, <1>3 DEF Store, IInv, TypeOK, Call, Goes
<1>5. /\ new.step = "answered" /\ new.slot = Null /\ new.got = call[t].got
      /\ new.oid = call[t].oid /\ new.key = call[t].key /\ new.floor = call[t].floor
  BY <1>2 DEF Call
<1>6. /\ tables \in Tables /\ v \in Values /\ v[s] = call[t].got
      /\ \A r \in Slot \ {s} : v[r] = value[r]
  BY <1>2 DEF IInv, TypeOK, Tables, Values
<1>7. value[s] = Null /\ load_lock[s] = t
  BY <1>1 DEF IInv, LoadInv
<1> HIDE DEF new, s, v
<1>8. TypeOK'
  <2>1. fetched' \in [Conn -> [Oid -> [Key -> Nat]]]
    BY <1>1, <1>2 DEF IInv, TypeOK
  <2>2. load_lock' \in [Slot -> Thread \cup {Unlocked}]
    BY <1>1, <1>2 DEF IInv, TypeOK
  <2>3. tables' \in Tables /\ value' \in Values
    BY <1>1, <1>6, SettleFacts
  <2>4. QED
    BY <1>1, <1>4, <2>1, <2>2, <2>3 DEF IInv, TypeOK, Steady, Tables, Values
<1>9. ~Resolving(t)'
  BY <1>4, <1>5 DEF Resolving
<1>10. \A u \in Thread \ {t} : call[u].step = "load" =>
         load_lock'[call[u].slot] = load_lock[call[u].slot]
  <2> SUFFICES ASSUME NEW u \in Thread \ {t}, call[u].step = "load"
               PROVE  load_lock'[call[u].slot] = load_lock[call[u].slot]
    OBVIOUS
  <2>1. call[u].slot \in Slot /\ load_lock[call[u].slot] = u
    BY CallFacts DEF IInv, CallInv, LoadInv, Resolving
  <2>2. QED
    BY <1>1, <1>7, <2>1 DEF IInv, TypeOK
<1>11. /\ OwnerInv' /\ BoundInv' /\ SlotInv' /\ ValueInv'
       /\ \A u \in Thread : call'[u].step = "load" =>
            load_lock'[call'[u].slot] = u /\ value'[call'[u].slot] = Null
       /\ \A u \in Thread : Resolving(u)' /\ call'[u].current =>
            tables'[transaction'[ConnOf[u]][call'[u].oid]][call'[u].key] = call'[u].slot
       /\ \A i \in Cache, d \in Conn, o \in Oid : transaction[d][o] = i => tables'[i] = tables[i]
       /\ \A i \in Cache, k \in Key : tables'[i][k] \in Slot =>
            value'[tables'[i][k]] = v[tables'[i][k]]
  <2>1. \A r \in Slot : v[r] # Null =>
          \/ v[r] = value[r]
          \/ call[t].step = "load" /\ r = call[t].slot /\ v[r] = call[t].got
    BY <1>1, <1>6 DEF s
  <2>2. \A r \in Slot : v[r] = Null => value[r] = Null
    BY <1>6, <1>7
  <2>3. QED
    BY <1>1, <1>2, <1>4, <1>5, <1>6, <1>8, <1>9, <1>10, <2>1, <2>2, DoneFrame
<1>12. CallInv'
  <2>1. /\ transaction[ConnOf[t]][call'[t].oid] # 0
        /\ call'[t].floor <= Newest(call'[t].oid, call'[t].key)
    BY <1>2, <1>4, <1>5 DEF IInv, CallInv
  <2>2. Resolving(t)' <=> call'[t].slot # Null
    BY <1>4, <1>5, <1>9
  <2>3. QED
    BY <1>1, <1>4, <2>1, <2>2, CallFrame
<1>13. LoadInv'
  <2> SUFFICES ASSUME NEW d \in Conn, NEW o \in Oid, NEW k \in Key, fetched'[d][o][k] # 0
               PROVE  /\ fetched'[d][o][k] = 1
                      /\ transaction'[d][o] # 0
                      /\ tables'[transaction'[d][o]][k] # Null
                      /\ value'[tables'[transaction'[d][o]][k]] # Null
    BY <1>11 DEF LoadInv
  <2>1. transaction' = transaction
    BY <1>1 DEF Steady
  <2>2. CASE fetched'[d][o][k] = fetched[d][o][k]
    <3>1. /\ fetched[d][o][k] = 1 /\ transaction[d][o] # 0
          /\ tables[transaction[d][o]][k] # Null
          /\ value[tables[transaction[d][o]][k]] # Null
      BY <2>2 DEF IInv, LoadInv
    <3>2. transaction[d][o] \in Cache
      BY <3>1 DEF IInv, TypeOK
    <3>3. tables'[transaction[d][o]] = tables[transaction[d][o]]
      BY <1>11, <3>2
    <3>4. tables[transaction[d][o]][k] \in Slot
      BY <3>1, <3>2 DEF IInv, TypeOK
    <3>5. v[tables[transaction[d][o]][k]] # Null
      BY <1>6, <1>7, <3>1, <3>4
    <3>6. QED
      BY <1>11, <2>1, <2>2, <3>1, <3>2, <3>3, <3>4, <3>5
  <2>3. CASE fetched'[d][o][k] # fetched[d][o][k]
    <3>1. /\ d = c /\ o = call[t].oid /\ k = call[t].key /\ call[t].current
          /\ call[t].got # Null /\ fetched'[d][o][k] = fetched[d][o][k] + 1
      BY <1>1, <1>2, <2>3 DEF IInv, TypeOK
    <3>2. transaction[d][o] # 0 /\ transaction[d][o] \in Cache
      BY <1>2, <3>1 DEF IInv, CallInv, TypeOK
    <3>3. tables[transaction[d][o]][k] = s
      BY <1>2, <3>1 DEF IInv, LoadInv, s
    <3>4. fetched[d][o][k] = 0
      BY <1>7, <3>3 DEF IInv, LoadInv
    <3>5. tables'[transaction[d][o]][k] = s
      BY <1>11, <3>2, <3>3
    <3>6. value'[s] = call[t].got
      BY <1>2, <1>6, <1>11, <3>2, <3>5
    <3>7. s # Null
      BY <1>2
    <3>8. QED
      BY <2>1, <3>1, <3>2, <3>4, <3>5, <3>6, <3>7
  <2>4. QED
    BY <2>2, <2>3
<1>14. Fresh'
  <2>1. call[t].got # Null => HasOrGets(s, call[t].got)
    BY <1>1 DEF HasOrGets, s
  <2>2. call[t].got # Null =>
          call[t].got.remote = RemoteOf(call[t].oid) /\ call[t].got.version >= call[t].floor
    BY <1>2, <2>1 DEF IInv, ValueInv, Fits, s
  <2>3. QED
    BY <1>1, <1>4, <1>5, <2>2 DEF IInv, Fresh, Goes, Steady, RemoteOf
<1>15. QED
  BY <1>8, <1>11, <1>12, <1>13, <1>14 DEF IInv

\* The request fails.
LEMMA LoadFailsIInv ==
  ASSUME IInv, NEW t \in Thread, LoadFails(t)
  PROVE  IInv'
<1> DEFINE s == call[t].slot
<1>1. /\ call[t].step = "load" /\ Settle(tables, value) /\ Steady
      /\ load_lock' = [load_lock EXCEPT ![s] = Unlocked]
      /\ UNCHANGED fetched
      /\ call' = [call EXCEPT ![t] = Idle]
  BY DEF LoadFails, Steady, Unlock
<1>2. /\ Resolving(t) /\ s \in Slot
  BY <1>1, CallFacts DEF IInv, CallInv, Resolving, TypeOK
<1>3. /\ call' \in [Thread -> Call \cup {Idle}]
      /\ call'[t] = Idle /\ Goes(t) /\ ~Resolving(t)'
  BY <1>1 DEF IInv, TypeOK, Goes, Resolving, Idle
<1>4. tables \in Tables /\ value \in Values
  BY DEF IInv, TypeOK, Tables, Values
<1>5. load_lock[s] = t
  BY <1>1 DEF IInv, LoadInv
<1> HIDE DEF s
<1>6. TypeOK'
  <2>1. load_lock' \in [Slot -> Thread \cup {Unlocked}]
    BY <1>1, <1>2 DEF IInv, TypeOK
  <2>2. tables' \in Tables /\ value' \in Values
    BY <1>1, <1>4, SettleFacts
  <2>3. QED
    BY <1>1, <1>3, <2>1, <2>2 DEF IInv, TypeOK, Steady, Tables, Values
<1>7. \A u \in Thread \ {t} : call[u].step = "load" =>
        load_lock'[call[u].slot] = load_lock[call[u].slot]
  <2> SUFFICES ASSUME NEW u \in Thread \ {t}, call[u].step = "load"
               PROVE  load_lock'[call[u].slot] = load_lock[call[u].slot]
    OBVIOUS
  <2>1. call[u].slot \in Slot /\ load_lock[call[u].slot] = u
    BY CallFacts DEF IInv, CallInv, LoadInv, Resolving
  <2>2. QED
    BY <1>1, <1>5, <2>1 DEF IInv, TypeOK
<1>8. /\ OwnerInv' /\ BoundInv' /\ SlotInv' /\ ValueInv'
      /\ \A u \in Thread : call'[u].step = "load" =>
           load_lock'[call'[u].slot] = u /\ value'[call'[u].slot] = Null
      /\ \A u \in Thread : Resolving(u)' /\ call'[u].current =>
           tables'[transaction'[ConnOf[u]][call'[u].oid]][call'[u].key] = call'[u].slot
      /\ \A i \in Cache, c \in Conn, o \in Oid : transaction[c][o] = i => tables'[i] = tables[i]
      /\ \A i \in Cache, k \in Key : tables'[i][k] \in Slot =>
           value'[tables'[i][k]] = value[tables'[i][k]]
  BY <1>1, <1>2, <1>3, <1>4, <1>6, <1>7, DoneFrame
<1>9. CallInv'
  BY <1>1, <1>3, CallFrame
<1>10. LoadInv'
  <2>1. UNCHANGED <<fetched, transaction>>
    BY <1>1 DEF Steady
  <2>2. QED
    BY <1>8, <2>1, FetchedFrame DEF LoadInv
<1>11. Fresh'
  BY <1>1, <1>3 DEF IInv, Fresh, Goes, Steady, RemoteOf, Idle
<1>12. QED
  BY <1>6, <1>8, <1>9, <1>10, <1>11 DEF IInv

\* The thread t starts a lookup, with the slot in the map or with a new one.
LEMMA ReferenceIInv ==
  ASSUME IInv, NEW t \in Thread, NEW o \in Oid, NEW k \in Key, Reference(t, o, k)
  PROVE  IInv'
<1> DEFINE c == ConnOf[t]
           i == transaction[c][o]
<1>1. PICK s \in IF tables[i][k] # Null THEN {tables[i][k]} ELSE NewSlot :
        /\ call' = [call EXCEPT ![t] =
             [step |-> "resolve", oid |-> o, key |-> k, slot |-> s, got |-> Null,
              floor |-> floor[c][o][k], current |-> TRUE]]
        /\ Settle([tables EXCEPT ![i][k] = s], value)
  BY DEF Reference
<1>2. /\ call[t] = Idle /\ i # 0 /\ Steady /\ UNCHANGED <<load_lock, fetched>>
      /\ c \in Conn /\ i \in Cache
  BY DEF Reference, Steady, IInv, TypeOK
<1>3. ~Resolving(t)
  BY <1>2 DEF Idle, Resolving
<1>4. /\ s \in Slot /\ s # Null
      /\ \/ tables[i][k] = s
         \/ /\ tables[i][k] = Null
            /\ value[s] = Null
            /\ \A j \in Cache, l \in Key : tables[j][l] # s
            /\ \A u \in Thread : Resolving(u) => call[u].slot # s
  <2>1. CASE tables[i][k] # Null
    BY <1>1, <1>2, <2>1 DEF IInv, TypeOK
  <2>2. CASE tables[i][k] = Null
    BY <1>1, <2>2, NewSlotFacts
  <2>3. QED
    BY <2>1, <2>2
<1> DEFINE new == [step |-> "resolve", oid |-> o, key |-> k, slot |-> s, got |-> Null,
                   floor |-> floor[c][o][k], current |-> TRUE]
           tb == [tables EXCEPT ![i][k] = s]
<1>5. /\ new \in Call /\ new.step = "resolve" /\ new.oid = o /\ new.key = k /\ new.slot = s
      /\ new.floor = floor[c][o][k] /\ new # Idle
  BY <1>2, <1>4 DEF Call, Step, IInv, TypeOK, Idle
<1>6. /\ call' \in [Thread -> Call \cup {Idle}] /\ call'[t] = new /\ Goes(t)
  BY <1>1, <1>5 DEF IInv, TypeOK, Goes
<1>7. /\ tb \in Tables /\ value \in Values
      /\ \A j \in Cache, l \in Key : tb[j][l] = IF j = i /\ l = k THEN s ELSE tables[j][l]
  BY <1>2, <1>4 DEF IInv, TypeOK, Tables, Values
<1>8. Settle(tb, value)
  BY <1>1
<1> HIDE DEF new, tb
<1>9. \A j \in Cache, l \in Key : tables'[j][l] = IF j = i /\ l = k THEN s ELSE tables[j][l]
  <2>1. \A j \in Cache : j # i => \A l \in Key : tables[j][l] # Null =>
          \/ \E d \in Conn, p \in Oid : transaction'[d][p] = j
          \/ \E d \in Conn, a \in Alias : caches'[d][a].cache = j
    BY <1>2 DEF IInv, OwnerInv, Uses, Steady
  <2>2. \E d \in Conn, p \in Oid : transaction'[d][p] = i
    BY <1>2 DEF Steady
  <2>3. /\ \A j \in Cache, l \in Key : tables'[j][l] \in {tb[j][l], Null}
        /\ \A j \in Cache :
             \/ \E d \in Conn, p \in Oid : transaction'[d][p] = j
             \/ \E d \in Conn, a \in Alias : caches'[d][a].cache = j
             => tables'[j] = tb[j]
    BY <1>7, <1>8, SettleFacts
  <2>4. QED
    BY <1>2, <1>7, <2>1, <2>2, <2>3
<1>10. /\ tables' \in Tables /\ value' \in Values
       /\ \A r \in Slot : value'[r] = value[r]
  <2>1. /\ tables' \in Tables /\ value' \in Values
        /\ \A r \in Slot : value'[r] \in {value[r], Null}
        /\ \A r \in Slot :
             \/ \E j \in Cache, l \in Key : tables'[j][l] = r
             \/ \E u \in Thread : call'[u] # Idle /\ call'[u].slot = r
             => value'[r] = value[r]
    BY <1>7, <1>8, SettleFacts
  <2>2. \A r \in Slot : value[r] # Null =>
          \/ \E j \in Cache, l \in Key : tables'[j][l] = r
          \/ \E u \in Thread : call'[u] # Idle /\ call'[u].slot = r
    <3> SUFFICES ASSUME NEW r \in Slot, value[r] # Null
                 PROVE  \/ \E j \in Cache, l \in Key : tables'[j][l] = r
                        \/ \E u \in Thread : call'[u] # Idle /\ call'[u].slot = r
      OBVIOUS
    <3>1. CASE \E j \in Cache, l \in Key : tables[j][l] = r
      <4>1. PICK j \in Cache, l \in Key : tables[j][l] = r
        BY <3>1
      <4>2. tables'[j][l] = r
        BY <1>4, <1>9, <4>1
      <4>3. QED
        BY <4>2
    <3>2. CASE \E u \in Thread : Resolving(u) /\ call[u].slot = r
      BY <1>3, <1>6, <3>2, CallFacts DEF Goes, IInv
    <3>3. QED
      BY <3>1, <3>2 DEF IInv, ValueInv, Fits
  <2>3. QED
    BY <2>1, <2>2
<1>11. TypeOK'
  BY <1>2, <1>6, <1>10 DEF IInv, TypeOK, Steady, Tables, Values
<1>12. /\ OwnerInv' /\ BoundInv'
       /\ \A j, d, p : Uses(j, d, p)' = Uses(j, d, p)
       /\ \A p, l : RemoteOf(p)' = RemoteOf(p) /\ Newest(p, l)' = Newest(p, l)
  <2>1. \A j \in Cache, l \in Key : tables'[j][l] # Null =>
          \/ tables[j][l] # Null
          \/ \E d \in Conn, p \in Oid : transaction'[d][p] = j
          \/ \E d \in Conn, a \in Alias : caches'[d][a].cache = j
    BY <1>2, <1>9 DEF Steady
  <2>2. QED
    BY <1>2, <2>1, SteadyFrame
<1>13. /\ Uses(i, c, o) /\ o \in Known /\ floor[c][o][k] <= Newest(o, k)
       /\ \A d \in Conn, p \in Oid : Uses(i, d, p) => d = c /\ p = o
  BY <1>2 DEF IInv, OwnerInv, BoundInv, Uses
<1>14. \A u \in Thread : Resolving(u)' <=> u = t \/ Resolving(u)
  BY <1>3, <1>5, <1>6 DEF Resolving, Goes
<1>15. \A u \in Thread : Resolving(u) => u # t /\ call'[u] = call[u]
  BY <1>3, <1>6 DEF Goes
<1>16. \A u \in Thread : Resolving(u) => call[u].slot # Null
  BY CallFacts DEF IInv, CallInv
<1>17. CallInv'
  BY <1>2, <1>4, <1>5, <1>6, <1>13, <1>14, CallFrame
<1>18. SlotInv'
  <2>1. \A j, m \in Cache, l, n \in Key :
          tables'[j][l] # Null /\ tables'[j][l] = tables'[m][n] => j = m /\ l = n
    BY <1>2, <1>4, <1>9 DEF IInv, SlotInv
  <2>2. ASSUME NEW u \in Thread, NEW j \in Cache, NEW l \in Key,
               Resolving(u)', tables'[j][l] = call'[u].slot
        PROVE  /\ l = call'[u].key
               /\ \A d \in Conn, p \in Oid : Uses(j, d, p)' => d = ConnOf[u] /\ p = call'[u].oid
    <3>1. CASE u = t
      <4>1. j = i /\ l = k
        BY <1>2, <1>4, <1>5, <1>6, <1>9, <2>2, <3>1 DEF IInv, SlotInv
      <4>2. QED
        BY <1>5, <1>6, <1>12, <1>13, <3>1, <4>1
    <3>2. CASE u # t
      <4>1. Resolving(u) /\ call'[u] = call[u]
        BY <1>14, <1>15, <2>2, <3>2
      <4>2. tables[j][l] = call[u].slot
        BY <1>4, <1>9, <2>2, <4>1
      <4>3. QED
        BY <1>12, <4>1, <4>2 DEF IInv, SlotInv
    <3>3. QED
      BY <3>1, <3>2
  <2>3. \A u \in Thread : Resolving(u) /\ call[u].slot = s =>
          ConnOf[u] = c /\ call[u].oid = o /\ call[u].key = k
    BY <1>2, <1>4, <1>13 DEF IInv, SlotInv
  <2>4. ASSUME NEW u \in Thread, NEW w \in Thread,
               Resolving(u)', Resolving(w)', call'[u].slot = call'[w].slot
        PROVE  /\ ConnOf[u] = ConnOf[w]
               /\ call'[u].oid = call'[w].oid /\ call'[u].key = call'[w].key
    BY <1>5, <1>6, <1>14, <1>15, <2>3, <2>4 DEF IInv, SlotInv
  <2>5. QED
    BY <2>1, <2>2, <2>4 DEF SlotInv
<1>19. ValueInv'
  <2>1. ASSUME NEW r \in Slot, value'[r] # Null
        PROVE  \/ \E j \in Cache, l \in Key : tables'[j][l] = r
               \/ \E u \in Thread : Resolving(u)' /\ call'[u].slot = r
    <3>1. CASE \E j \in Cache, l \in Key : tables[j][l] = r
      <4>1. PICK j \in Cache, l \in Key : tables[j][l] = r
        BY <3>1
      <4>2. tables'[j][l] = r
        BY <1>4, <1>9, <4>1
      <4>3. QED
        BY <4>2
    <3>2. CASE \E u \in Thread : Resolving(u) /\ call[u].slot = r
      BY <1>14, <1>15, <3>2
    <3>3. QED
      BY <1>10, <2>1, <3>1, <3>2 DEF IInv, ValueInv, Fits
  <2>2. ASSUME NEW r \in Slot, NEW d \in Definition, HasOrGets(r, d)'
        PROVE  /\ \A u \in Thread : Resolving(u)' /\ call'[u].slot = r =>
                    d.remote = RemoteOf(call[u].oid)' /\ d.version >= call'[u].floor
               /\ \A j \in Cache, l \in Key, e \in Conn, p \in Oid :
                    tables'[j][l] = r /\ Uses(j, e, p)' =>
                      /\ d.remote = RemoteOf(p)'
                      /\ transaction'[e][p] = j => d.version >= floor'[e][p][l]
                      /\ \A a \in Alias : caches'[e][a].cache = j =>
                           d.version >= cleared'[e][p][l]
    <3>1. HasOrGets(r, d)
      BY <1>5, <1>6, <1>10, <2>2 DEF HasOrGets, Goes
    <3>2. r = s => tables[i][k] = s
      <4> SUFFICES ASSUME r = s, value[s] = Null, \A u \in Thread : Resolving(u) => call[u].slot # s
                   PROVE  FALSE
        BY <1>4
      <4>1. QED
        BY <3>1 DEF HasOrGets, Resolving
    <3>3. \A j \in Cache, l \in Key : tables'[j][l] = r => tables[j][l] = r
      BY <1>9, <3>2
    <3>4. ASSUME NEW u \in Thread, Resolving(u)', call'[u].slot = r
          PROVE  d.remote = RemoteOf(call'[u].oid) /\ d.version >= call'[u].floor
      <4>1. CASE u = t
        BY <1>2, <1>5, <1>6, <1>13, <3>1, <3>2, <3>4, <4>1 DEF IInv, ValueInv, Fits
      <4>2. CASE u # t
        BY <1>14, <1>15, <3>1, <3>4, <4>2 DEF IInv, ValueInv, Fits
      <4>3. QED
        BY <4>1, <4>2
    <3>5. ASSUME NEW u \in Thread, Resolving(u)', call'[u].slot = r
          PROVE  d.remote = RemoteOf(call[u].oid)' /\ d.version >= call'[u].floor
      BY <1>2, <3>4, <3>5 DEF RemoteOf, Steady
    <3>6. ASSUME NEW j \in Cache, NEW l \in Key, NEW e \in Conn, NEW p \in Oid,
                 tables'[j][l] = r, Uses(j, e, p)'
          PROVE  /\ d.remote = RemoteOf(p)'
                 /\ transaction'[e][p] = j => d.version >= floor'[e][p][l]
                 /\ \A a \in Alias : caches'[e][a].cache = j => d.version >= cleared'[e][p][l]
      <4>1. tables[j][l] = r /\ Uses(j, e, p)
        BY <1>12, <3>3, <3>6
      <4>2. /\ d.remote = RemoteOf(p)
            /\ transaction[e][p] = j => d.version >= floor[e][p][l]
            /\ \A a \in Alias : caches[e][a].cache = j => d.version >= cleared[e][p][l]
        BY <3>1, <4>1 DEF IInv, ValueInv, Fits
      <4>3. QED
        BY <1>2, <1>12, <4>2 DEF Steady
    <3>7. QED
      BY <3>5, <3>6
  <2>3. QED
    BY <2>1, <2>2 DEF ValueInv, Fits
<1>20. LoadInv'
  <2>1. ASSUME NEW u \in Thread, call'[u].step = "load"
        PROVE  load_lock'[call'[u].slot] = u /\ value'[call'[u].slot] = Null
    <3>1. u # t /\ call'[u] = call[u] /\ Resolving(u)
      BY <1>5, <1>6, <2>1 DEF Goes, Resolving
    <3>2. call[u].slot \in Slot
      BY <1>16, <3>1, CallFacts DEF IInv
    <3>3. QED
      BY <1>2, <1>10, <2>1, <3>1, <3>2 DEF IInv, LoadInv
  <2>2. ASSUME NEW u \in Thread, Resolving(u)', call'[u].current
        PROVE  tables'[transaction'[ConnOf[u]][call'[u].oid]][call'[u].key] = call'[u].slot
    <3>1. transaction' = transaction
      BY <1>2 DEF Steady
    <3>2. CASE u = t
      BY <1>2, <1>5, <1>6, <1>9, <3>1, <3>2
    <3>3. CASE u # t
      <4>1. Resolving(u) /\ call'[u] = call[u]
        BY <1>14, <1>15, <2>2, <3>3
      <4>2. /\ transaction[ConnOf[u]][call[u].oid] \in Cache /\ call[u].key \in Key
            /\ call[u].slot # Null
        BY <1>16, <4>1, CallFacts DEF IInv, CallInv, TypeOK
      <4>3. tables[transaction[ConnOf[u]][call[u].oid]][call[u].key] = call[u].slot
        BY <2>2, <4>1 DEF IInv, LoadInv
      <4>4. QED
        BY <1>4, <1>9, <3>1, <4>1, <4>2, <4>3
    <3>4. QED
      BY <3>2, <3>3
  <2>3. ASSUME NEW d \in Conn, NEW p \in Oid, NEW l \in Key, fetched'[d][p][l] # 0
        PROVE  /\ fetched'[d][p][l] = 1
               /\ transaction'[d][p] # 0
               /\ tables'[transaction'[d][p]][l] # Null
               /\ value'[tables'[transaction'[d][p]][l]] # Null
    <3>1. fetched' = fetched /\ transaction' = transaction
      BY <1>2 DEF Steady
    <3>2. /\ fetched[d][p][l] = 1
          /\ transaction[d][p] # 0
          /\ tables[transaction[d][p]][l] # Null
          /\ value[tables[transaction[d][p]][l]] # Null
      BY <2>3, <3>1 DEF IInv, LoadInv
    <3>3. transaction[d][p] \in Cache
      BY <3>2 DEF IInv, TypeOK
    <3>4. tables'[transaction[d][p]][l] = tables[transaction[d][p]][l]
      BY <1>4, <1>9, <3>2, <3>3
    <3>5. tables[transaction[d][p]][l] \in Slot
      BY <3>2, <3>3 DEF IInv, TypeOK
    <3>6. QED
      BY <1>10, <3>1, <3>2, <3>4, <3>5
  <2>4. QED
    BY <2>1, <2>2, <2>3 DEF LoadInv
<1>21. Fresh'
  BY <1>2, <1>5, <1>6 DEF IInv, Fresh, Goes, Steady, RemoteOf
<1>22. QED
  BY <1>11, <1>12, <1>17, <1>18, <1>19, <1>20, <1>21 DEF IInv

\* Glue answers with what it has.
LEMMA AnswerFacts ==
  ASSUME IInv, NEW o \in Known, NEW k \in Key
  PROVE  /\ Answer(o, k) \in Definition \cup {Null}
         /\ Answer(o, k) # Null =>
              Answer(o, k).remote = RemoteOf(o) /\ Answer(o, k).version = Newest(o, k)
<1>1. attachment[o] \in [alias : Alias, remote : Remote]
  BY DEF IInv, TypeOK, Known
<1>2. RemoteOf(o) \in Remote /\ Newest(o, k) \in 0 .. MaxVersion
  BY <1>1 DEF IInv, TypeOK, RemoteOf, Newest
<1>3. QED
  BY <1>2 DEF Answer, Definition

\* Glue is asked: what it answers is as new as can be.
LEMMA LoadIInv ==
  ASSUME IInv, NEW t \in Thread, Load(t)
  PROVE  IInv'
<1> DEFINE s == call[t].slot
           o == call[t].oid
           k == call[t].key
           d == Answer(o, k)
           new == [call[t] EXCEPT !.step = "load", !.got = d]
<1>1. /\ call[t].step = "resolve" /\ value[s] = Null /\ load_lock[s] = Unlocked
      /\ load_lock' = [load_lock EXCEPT ![s] = t]
      /\ Steady /\ UNCHANGED <<tables, value, fetched>>
  BY DEF Load, NeedsLoad, Steady
<1>2. /\ Resolving(t) /\ call[t] # Idle /\ call[t] \in Call /\ s \in Slot
      /\ o \in Oid /\ k \in Key /\ o \in Known
  BY <1>1, CallFacts, KnownCalls DEF IInv, CallInv, Resolving
<1>3. /\ d \in Definition \cup {Null}
      /\ d # Null => d.remote = RemoteOf(o) /\ d.version = Newest(o, k)
  BY <1>2, AnswerFacts
<1>4. /\ new \in Call /\ new.step = "load" /\ new.slot = s /\ new.oid = o /\ new.key = k
      /\ new.got = d /\ new.floor = call[t].floor /\ new.current = call[t].current
  BY <1>2, <1>3 DEF Call, Step
<1>5. /\ call' \in [Thread -> Call \cup {Idle}] /\ call'[t] = new /\ Goes(t)
  BY <1>2, <1>4 DEF Load, IInv, TypeOK, Call, Goes
<1> HIDE DEF new, d, s
<1>6. TypeOK'
  <2>1. load_lock' \in [Slot -> Thread \cup {Unlocked}]
    BY <1>1, <1>2 DEF IInv, TypeOK
  <2>2. QED
    BY <1>1, <1>5, <2>1 DEF IInv, TypeOK, Steady
<1>7. /\ OwnerInv' /\ BoundInv' /\ SameRemotes /\ BoundsKept
      /\ \A j, e, p : Uses(j, e, p)' = Uses(j, e, p)
      /\ \A p, l : RemoteOf(p)' = RemoteOf(p) /\ Newest(p, l)' = Newest(p, l)
  BY <1>1, SteadyFrame
<1>8. \A u \in Thread :
        /\ Resolving(u)' = Resolving(u)
        /\ Resolving(u) =>
             /\ call'[u].slot = call[u].slot /\ call'[u].oid = call[u].oid
             /\ call'[u].key = call[u].key /\ call'[u].floor = call[u].floor
             /\ call'[u].current = call[u].current
  BY <1>2, <1>4, <1>5 DEF Goes, Resolving, s
<1>9. Shrinks
  BY <1>1, <1>7, <1>8 DEF Shrinks
<1>10. SlotInv'
  BY <1>9, SlotFrame
<1>11. CallInv'
  <2>1. call'[t] # Idle =>
          /\ transaction[ConnOf[t]][call'[t].oid] # 0
          /\ call'[t].floor <= Newest(call'[t].oid, call'[t].key)
    BY <1>2, <1>4, <1>5 DEF IInv, CallInv
  <2>2. Resolving(t)' <=> call'[t].slot # Null
    BY <1>2, <1>4, <1>5, <1>8
  <2>3. QED
    BY <1>1, <1>5, <2>1, <2>2, CallFrame
<1>12. ValueInv'
  <2>1. \A r \in Slot : value'[r] # Null =>
          \/ \E j \in Cache, l \in Key : tables'[j][l] = r
          \/ \E u \in Thread : Resolving(u)' /\ call'[u].slot = r
    BY <1>1, <1>8 DEF IInv, ValueInv, Fits
  <2>2. ASSUME NEW r \in Slot, NEW e \in Definition, HasOrGets(r, e)', ~HasOrGets(r, e)
        PROVE  r = s /\ e = d /\ d # Null
    BY <1>1, <1>4, <1>5, <2>2 DEF HasOrGets, Goes
  <2>3. ASSUME NEW r \in Slot, NEW e \in Definition, HasOrGets(r, e)',
               NEW u \in Thread, Resolving(u)', call'[u].slot = r
        PROVE  e.remote = RemoteOf(call'[u].oid) /\ e.version >= call'[u].floor
    <3>1. CASE HasOrGets(r, e)
      BY <1>8, <2>3, <3>1 DEF IInv, ValueInv, Fits
    <3>2. CASE ~HasOrGets(r, e)
      <4>1. r = s /\ e = d /\ d # Null
        BY <2>2, <2>3, <3>2
      <4>2. call[u].oid = o /\ call[u].key = k
        BY <1>2, <1>8, <2>3, <4>1 DEF IInv, SlotInv, s
      <4>3. call[u].floor <= Newest(o, k)
        BY <1>8, <2>3, <4>2, CallFacts DEF IInv, CallInv
      <4>4. e.version \in Nat /\ call[u].floor \in Nat
        BY <1>8, <2>3, CallFacts DEF IInv, Definition
      <4>5. QED
        BY <1>3, <1>8, <2>3, <4>1, <4>2, <4>3, <4>4
    <3>3. QED
      BY <3>1, <3>2
  <2>4. ASSUME NEW r \in Slot, NEW e \in Definition, HasOrGets(r, e)',
               NEW u \in Thread, Resolving(u)', call'[u].slot = r
        PROVE  e.remote = RemoteOf(call[u].oid)' /\ e.version >= call'[u].floor
    BY <1>1, <2>3, <2>4 DEF RemoteOf, Steady
  <2>5. ASSUME NEW r \in Slot, NEW e \in Definition, HasOrGets(r, e)', NEW j \in Cache,
               NEW l \in Key, NEW c \in Conn, NEW p \in Oid, tables[j][l] = r, Uses(j, c, p)
        PROVE  /\ e.remote = RemoteOf(p)
               /\ transaction[c][p] = j => e.version >= floor[c][p][l]
               /\ \A a \in Alias : caches[c][a].cache = j => e.version >= cleared[c][p][l]
    <3>1. CASE HasOrGets(r, e)
      BY <2>5, <3>1 DEF IInv, ValueInv, Fits
    <3>2. CASE ~HasOrGets(r, e)
      <4>1. r = s /\ e = d /\ d # Null
        BY <2>2, <2>5, <3>2
      <4>2. l = k /\ p = o
        BY <1>2, <2>5, <4>1 DEF IInv, SlotInv, s
      <4>3. floor[c][o][k] <= Newest(o, k) /\ cleared[c][o][k] <= Newest(o, k)
        BY <1>2 DEF IInv, BoundInv
      <4>4. e.version \in Nat /\ floor[c][o][k] \in Nat /\ cleared[c][o][k] \in Nat
        BY <1>2 DEF IInv, TypeOK, Definition
      <4>5. QED
        BY <1>3, <4>1, <4>2, <4>3, <4>4
    <3>3. QED
      BY <3>1, <3>2
  <2>6. ASSUME NEW r \in Slot, NEW e \in Definition, HasOrGets(r, e)', NEW j \in Cache,
               NEW l \in Key, NEW c \in Conn, NEW p \in Oid, tables'[j][l] = r, Uses(j, c, p)'
        PROVE  /\ e.remote = RemoteOf(p)'
               /\ transaction'[c][p] = j => e.version >= floor'[c][p][l]
               /\ \A a \in Alias : caches'[c][a].cache = j => e.version >= cleared'[c][p][l]
    BY <1>1, <1>7, <2>5, <2>6 DEF Steady
  <2>7. QED
    BY <2>1, <2>4, <2>6 DEF ValueInv, Fits
<1>13. LoadInv'
  <2>1. ASSUME NEW u \in Thread, call'[u].step = "load"
        PROVE  load_lock'[call'[u].slot] = u /\ value'[call'[u].slot] = Null
    <3>1. CASE u = t
      BY <1>1, <1>2, <1>4, <1>5, <3>1 DEF IInv, TypeOK
    <3>2. CASE u # t
      <4>1. call'[u] = call[u] /\ Resolving(u)
        BY <1>5, <2>1, <3>2 DEF Goes, Resolving
      <4>2. call[u].slot \in Slot
        BY <4>1, CallFacts DEF IInv, CallInv
      <4>3. load_lock[call[u].slot] = u /\ value[call[u].slot] = Null
        BY <2>1, <4>1 DEF IInv, LoadInv
      <4>4. QED
        BY <1>1, <4>1, <4>2, <4>3 DEF IInv, TypeOK
    <3>3. QED
      BY <3>1, <3>2
  <2>2. QED
    BY <1>1, <1>8, <2>1 DEF IInv, LoadInv, Steady
<1>14. Fresh'
  BY <1>1, <1>4, <1>5 DEF IInv, Fresh, Goes, Steady, RemoteOf
<1>15. QED
  BY <1>6, <1>7, <1>10, <1>11, <1>12, <1>13, <1>14 DEF IInv

\* A thread that has no slot does something else: nothing changes for the others.
LEMMA IdleFrame ==
  ASSUME IInv, TypeOK', NEW t \in Thread, Goes(t), ~Resolving(t), ~Resolving(t)',
         UNCHANGED <<attached, attachment, scope, transaction, caches, next_id, tables, value,
                     load_lock, floor, cleared, fetched>>
  PROVE  /\ OwnerInv' /\ SlotInv' /\ ValueInv' /\ LoadInv'
         /\ \A o : RemoteOf(o)' = RemoteOf(o)
<1>1. /\ \A i, c, o : Uses(i, c, o)' = Uses(i, c, o)
      /\ \A o : RemoteOf(o)' = RemoteOf(o)
      /\ Known' = Known
  BY DEF Uses, RemoteOf, Known
<1>2. \A u \in Thread : /\ Resolving(u)' = Resolving(u)
                        /\ Resolving(u) => call'[u] = call[u]
  BY DEF Goes, Resolving
<1>3. OwnerInv'
  BY <1>1 DEF IInv, OwnerInv
<1>4. SlotInv'
  BY <1>1, <1>2 DEF IInv, SlotInv
<1>5. \A s, d : HasOrGets(s, d)' => HasOrGets(s, d)
  BY DEF HasOrGets, Goes, Resolving
<1>6. ValueInv'
  <2>1. \A s \in Slot : value'[s] # Null =>
          \/ \E j \in Cache, l \in Key : tables'[j][l] = s
          \/ \E u \in Thread : Resolving(u)' /\ call'[u].slot = s
    BY <1>2 DEF IInv, ValueInv, Fits
  <2>2. ASSUME NEW s \in Slot, NEW d \in Definition, HasOrGets(s, d)',
               NEW u \in Thread, Resolving(u)', call'[u].slot = s
        PROVE  d.remote = RemoteOf(call'[u].oid) /\ d.version >= call'[u].floor
    BY <1>2, <1>5, <2>2 DEF IInv, ValueInv, Fits
  <2>3. ASSUME NEW s \in Slot, NEW d \in Definition, HasOrGets(s, d)',
               NEW u \in Thread, Resolving(u)', call'[u].slot = s
        PROVE  d.remote = RemoteOf(call[u].oid)' /\ d.version >= call'[u].floor
    BY <2>2, <2>3 DEF RemoteOf
  <2>4. ASSUME NEW s \in Slot, NEW d \in Definition, HasOrGets(s, d)', NEW j \in Cache,
               NEW l \in Key, NEW c \in Conn, NEW p \in Oid, tables'[j][l] = s, Uses(j, c, p)'
        PROVE  /\ d.remote = RemoteOf(p)'
               /\ transaction'[c][p] = j => d.version >= floor'[c][p][l]
               /\ \A a \in Alias : caches'[c][a].cache = j => d.version >= cleared'[c][p][l]
    BY <1>1, <1>5, <2>4 DEF IInv, ValueInv, Fits
  <2>5. QED
    BY <2>1, <2>3, <2>4 DEF ValueInv, Fits
<1>7. LoadInv'
  <2>1. \A u \in Thread : call'[u].step = "load" =>
          load_lock'[call'[u].slot] = u /\ value'[call'[u].slot] = Null
    BY <1>2 DEF IInv, LoadInv, Resolving
  <2>2. QED
    BY <1>2, <2>1 DEF IInv, LoadInv
<1>8. QED
  BY <1>1, <1>3, <1>4, <1>6, <1>7

\* The caller has its answer.
LEMMA ReturnIInv ==
  ASSUME IInv, NEW t \in Thread, Return(t)
  PROVE  IInv'
<1>1. /\ call'[t] = Idle /\ call' \in [Thread -> Call \cup {Idle}] /\ Goes(t)
      /\ ~Resolving(t) /\ ~Resolving(t)'
  BY DEF Return, IInv, TypeOK, Goes, Resolving, Idle
<1>2. Steady /\ UNCHANGED <<tables, value, load_lock, fetched>>
  BY DEF Return, cacheVars, Steady
<1>3. TypeOK'
  BY <1>1, <1>2 DEF IInv, TypeOK, Steady
<1>4. BoundInv'
  BY <1>2, SteadyFrame
<1>5. CallInv'
  BY <1>1, <1>2, CallFrame
<1>6. /\ OwnerInv' /\ SlotInv' /\ ValueInv' /\ LoadInv'
      /\ \A o : RemoteOf(o)' = RemoteOf(o)
  BY <1>1, <1>2, <1>3, IdleFrame DEF Steady
<1>7. Fresh'
  BY <1>1, <1>6 DEF IInv, Fresh, Goes, Idle
<1>8. QED
  BY <1>3, <1>4, <1>5, <1>6, <1>7 DEF IInv

-----------------------------------------------------------------------------
(* Glue, the user's settings, and writes *)

\* Another client changes a table: what Glue has gets newer.
LEMMA ChangeElsewhereIInv ==
  ASSUME IInv, NEW r \in Remote, NEW k \in Key, NEW exists \in BOOLEAN,
         ChangeElsewhere(r, k, exists)
  PROVE  IInv'
<1>1. /\ definition[r][k].version < MaxVersion
      /\ definition' = [definition EXCEPT ![r][k] =
           [version |-> definition[r][k].version + 1, exists |-> exists]]
      /\ UNCHANGED <<attached, attachment, scope, transaction, caches, next_id, tables, value,
                     load_lock, call, floor, cleared, fetched>>
  BY DEF ChangeElsewhere, cacheVars
<1>2. definition[r][k].version + 1 \in 0 .. MaxVersion
  BY <1>1 DEF IInv, TypeOK
<1>3. TypeOK'
  BY <1>1, <1>2 DEF IInv, TypeOK
<1>4. \A o \in Known, l \in Key : Newest(o, l) <= Newest(o, l)' /\ Newest(o, l)' \in Nat
  <2> SUFFICES ASSUME NEW o \in Known, NEW l \in Key
               PROVE  Newest(o, l) <= Newest(o, l)' /\ Newest(o, l)' \in Nat
    OBVIOUS
  <2>1. RemoteOf(o) \in Remote
    BY DEF IInv, TypeOK, Known, RemoteOf
  <2>2. definition'[RemoteOf(o)][l].version >= definition[RemoteOf(o)][l].version
    BY <1>1, <2>1 DEF IInv, TypeOK
  <2>3. definition'[RemoteOf(o)][l].version \in Nat /\ definition[RemoteOf(o)][l].version \in Nat
    BY <1>3, <2>1 DEF IInv, TypeOK
  <2>4. Newest(o, l)' = definition'[RemoteOf(o)][l].version
    BY <1>1 DEF Newest, RemoteOf
  <2>5. QED
    BY <2>2, <2>3, <2>4 DEF Newest
<1>5. /\ \A i, c, o : Uses(i, c, o)' = Uses(i, c, o)
      /\ \A o : RemoteOf(o)' = RemoteOf(o)
      /\ Known' = Known
      /\ \A t : Resolving(t)' = Resolving(t)
      /\ \A s, d : HasOrGets(s, d)' = HasOrGets(s, d)
  BY <1>1 DEF Uses, RemoteOf, Known, Resolving, HasOrGets
<1>6. OwnerInv' /\ SlotInv' /\ LoadInv' /\ Fresh'
  BY <1>1, <1>5 DEF IInv, OwnerInv, SlotInv, LoadInv, Fresh
<1>7. ValueInv'
  BY <1>1, <1>5 DEF IInv, ValueInv, Fits
<1>8. BoundInv'
  <2> SUFFICES ASSUME NEW c \in Conn, NEW o \in Oid, NEW l \in Key
               PROVE  /\ transaction[c][o] = 0 => floor[c][o][l] = 0
                      /\ o \in Known => /\ floor[c][o][l] <= Newest(o, l)'
                                        /\ cleared[c][o][l] <= Newest(o, l)'
    BY <1>1, <1>5 DEF BoundInv
  <2>1. o \in Known => Newest(o, l) \in Nat
    BY DEF IInv, TypeOK, Known, RemoteOf, Newest
  <2>2. floor[c][o][l] \in Nat /\ cleared[c][o][l] \in Nat
    BY DEF IInv, TypeOK
  <2>3. QED
    BY <1>4, <2>1, <2>2 DEF IInv, BoundInv
<1>9. CallInv'
  <2> SUFFICES ASSUME NEW t \in Thread, call[t] # Idle
               PROVE  call[t].floor <= Newest(call[t].oid, call[t].key)'
    BY <1>1, <1>5 DEF IInv, CallInv
  <2>1. call[t].oid \in Known /\ call[t].key \in Key /\ call[t].floor \in Nat
    BY CallFacts, KnownCalls DEF IInv
  <2>2. Newest(call[t].oid, call[t].key) \in Nat
    BY <2>1 DEF IInv, TypeOK, Known, RemoteOf, Newest
  <2>3. call[t].floor <= Newest(call[t].oid, call[t].key)
    BY DEF IInv, CallInv
  <2>4. QED
    BY <1>1, <1>4, <2>1, <2>2, <2>3
<1>10. QED
  BY <1>3, <1>6, <1>7, <1>8, <1>9 DEF IInv

\* The setting counts for later transactions.
LEMMA SetScopeIInv ==
  ASSUME IInv, NEW c \in Conn, NEW s \in {"transaction", "connection"}, SetScope(c, s)
  PROVE  IInv'
<1>1. UNCHANGED <<definition, attached, attachment, transaction, caches, next_id, tables, value,
                  load_lock, call, floor, cleared, fetched>>
  BY DEF SetScope, cacheVars
<1>2. TypeOK'
  BY <1>1 DEF SetScope, IInv, TypeOK
<1>3. /\ \A i, d, o : Uses(i, d, o)' = Uses(i, d, o)
      /\ \A o : RemoteOf(o)' = RemoteOf(o)
      /\ \A o, k : Newest(o, k)' = Newest(o, k)
      /\ Known' = Known
      /\ \A t : Resolving(t)' = Resolving(t)
      /\ \A r, d : HasOrGets(r, d)' = HasOrGets(r, d)
  BY <1>1 DEF Uses, RemoteOf, Newest, Known, Resolving, HasOrGets
<1>4. OwnerInv' /\ BoundInv' /\ CallInv' /\ SlotInv'
  BY <1>1, <1>3 DEF IInv, OwnerInv, BoundInv, CallInv, SlotInv, Newest, RemoteOf, Resolving
<1>5. LoadInv' /\ Fresh'
  BY <1>1, <1>3 DEF IInv, LoadInv, Fresh
<1>6. ValueInv'
  BY <1>1, <1>3 DEF IInv, ValueInv, Fits
<1>7. QED
  BY <1>2, <1>4, <1>5, <1>6 DEF IInv

\* ATTACH: the new attachment has no cache yet.
LEMMA AttachIInv ==
  ASSUME IInv, NEW a \in Alias, NEW r \in Remote, Attach(a, r)
  PROVE  IInv'
<1>1. PICK o \in Oid :
        /\ attachment[o] = Null
        /\ attached' = [attached EXCEPT ![a] = o]
        /\ attachment' = [attachment EXCEPT ![o] = [alias |-> a, remote |-> r]]
        /\ cleared' = [c \in Conn |-> [cleared[c] EXCEPT ![o] =
             [k \in Key |-> definition[r][k].version]]]
  <2>1. PICK o \in Oid :
          /\ \A p \in Oid : p < o <=> attachment[p] # Null
          /\ attached' = [attached EXCEPT ![a] = o]
          /\ attachment' = [attachment EXCEPT ![o] = [alias |-> a, remote |-> r]]
          /\ cleared' = [c \in Conn |-> [cleared[c] EXCEPT ![o] =
               [k \in Key |-> definition[r][k].version]]]
    BY DEF Attach
  <2>2. attachment[o] = Null
    BY <2>1 DEF Oid
  <2>3. QED
    BY <2>1, <2>2
<1>2. UNCHANGED <<definition, scope, transaction, caches, next_id, tables, value, load_lock,
                  call, floor, fetched>>
  BY DEF Attach, cacheVars
<1>3. [alias |-> a, remote |-> r] # Null
  OBVIOUS
<1>4. /\ o \notin Known /\ Known' = Known \cup {o}
      /\ RemoteOf(o)' = r
      /\ \A p \in Known : RemoteOf(p)' = RemoteOf(p)
      /\ \A p \in Known, k \in Key : Newest(p, k)' = Newest(p, k)
      /\ \A k \in Key : Newest(o, k)' = definition[r][k].version
  BY <1>1, <1>2, <1>3 DEF IInv, TypeOK, Known, RemoteOf, Newest
<1>5. \A r2 \in Remote, k \in Key : definition[r2][k].version \in 0 .. MaxVersion
  BY DEF IInv, TypeOK
<1>6. TypeOK'
  <2>1. attached' \in [Alias -> Oid \cup {0}]
    BY <1>1 DEF IInv, TypeOK
  <2>2. attachment' \in [Oid -> [alias : Alias, remote : Remote] \cup {Null}]
    BY <1>1 DEF IInv, TypeOK
  <2>3. cleared' \in [Conn -> [Oid -> [Key -> 0 .. MaxVersion]]]
    BY <1>1, <1>5 DEF IInv, TypeOK
  <2>4. QED
    BY <1>2, <2>1, <2>2, <2>3 DEF IInv, TypeOK
<1>7. /\ \A i, c, p : Uses(i, c, p)' = Uses(i, c, p)
      /\ \A t : Resolving(t)' = Resolving(t)
      /\ \A s, d : HasOrGets(s, d)' = HasOrGets(s, d)
  BY <1>2 DEF Uses, Resolving, HasOrGets
<1>8. \A c \in Conn, p \in Oid, k \in Key :
        cleared'[c][p][k] = IF p = o THEN definition[r][k].version ELSE cleared[c][p][k]
  BY <1>1 DEF IInv, TypeOK
<1>9. OwnerInv'
  BY <1>1, <1>2, <1>4, <1>7 DEF IInv, OwnerInv, TypeOK
<1>10. BoundInv'
  <2> SUFFICES ASSUME NEW c \in Conn, NEW p \in Oid, NEW k \in Key
               PROVE  /\ transaction[c][p] = 0 => floor[c][p][k] = 0
                      /\ p \in Known' => /\ floor[c][p][k] <= Newest(p, k)'
                                         /\ cleared'[c][p][k] <= Newest(p, k)'
    BY <1>2 DEF BoundInv
  <2>1. CASE p = o
    <3>1. transaction[c][p] = 0 /\ floor[c][p][k] = 0
      BY <1>4, <2>1 DEF IInv, OwnerInv, BoundInv
    <3>2. QED
      BY <1>4, <1>5, <1>8, <2>1, <3>1
  <2>2. CASE p # o
    BY <1>4, <1>8, <2>2 DEF IInv, BoundInv
  <2>3. QED
    BY <2>1, <2>2
<1>11. CallInv'
  BY <1>2, <1>4, <1>7, CallFacts, KnownCalls DEF IInv, CallInv
<1>12. Shrinks
  BY <1>2, <1>7 DEF Shrinks, IInv, TypeOK
<1>13. SlotInv'
  BY <1>12, SlotFrame
<1>14. BoundsKept
  <2> SUFFICES ASSUME NEW i \in Cache, NEW k \in Key, NEW c \in Conn, NEW p \in Oid,
                      Uses(i, c, p)
               PROVE  floor[c][p][k] <= floor[c][p][k] /\ cleared'[c][p][k] <= cleared[c][p][k]
    BY <1>2 DEF BoundsKept
  <2>1. p # o
    BY <1>4 DEF IInv, OwnerInv, Uses
  <2>2. floor[c][p][k] \in Nat /\ cleared[c][p][k] \in Nat
    BY DEF IInv, TypeOK
  <2>3. QED
    BY <1>8, <2>1, <2>2
<1>15. NothingNew /\ SameRemotes
  BY <1>4, <1>7 DEF NothingNew, SameRemotes, IInv, ValueInv
<1>16. ValueInv'
  <2>1. \A s \in Slot : value'[s] # Null =>
          \/ \E j \in Cache, l \in Key : tables'[j][l] = s
          \/ \E u \in Thread : Resolving(u)' /\ call'[u].slot = s
    BY <1>2, <1>7 DEF IInv, ValueInv, Fits
  <2>2. ASSUME NEW s \in Slot, NEW d \in Definition, HasOrGets(s, d)'
        PROVE  /\ \A t \in Thread : Resolving(t)' /\ call'[t].slot = s =>
                    d.remote = RemoteOf(call[t].oid)' /\ d.version >= call'[t].floor
               /\ \A i \in Cache, k \in Key, c \in Conn, p \in Oid :
                    tables'[i][k] = s /\ Uses(i, c, p)' =>
                      /\ d.remote = RemoteOf(p)'
                      /\ transaction'[c][p] = i => d.version >= floor'[c][p][k]
                      /\ \A b \in Alias : caches'[c][b].cache = i => d.version >= cleared'[c][p][k]
    BY <1>6, <1>12, <1>14, <1>15, <2>2, ValueFrame
  <2>3. QED
    BY <2>1, <2>2 DEF ValueInv, Fits
<1>17. LoadInv'
  BY <1>2, <1>7 DEF IInv, LoadInv
<1>18. Fresh'
  <2> SUFFICES ASSUME NEW t \in Thread, call[t].step = "answered", call[t].got # Null
               PROVE  /\ call[t].got.remote = RemoteOf(call[t].oid)'
                      /\ call[t].got.version >= call[t].floor
    BY <1>2 DEF Fresh, RemoteOf
  <2>1. call[t].oid \in Known
    BY CallFacts, KnownCalls DEF IInv
  <2>2. QED
    BY <1>2, <1>4, <2>1 DEF IInv, Fresh
<1>19. QED
  BY <1>6, <1>9, <1>10, <1>11, <1>13, <1>16, <1>17, <1>18 DEF IInv

\* A mutation reaches Glue, or fails; its thread had no slot.
LEMMA WriteIInv ==
  ASSUME IInv, NEW t \in Thread, NEW o \in Oid, NEW k \in Key, NEW done \in BOOLEAN,
         NEW exists \in BOOLEAN, Write(t, o, k, done, exists)
  PROVE  IInv'
<1> DEFINE r == RemoteOf(o)
           new == [step |-> "write", oid |-> o, key |-> k, slot |-> Null, got |-> Null,
                   floor |-> definition'[r][k].version, current |-> TRUE]
<1>1. /\ call[t] = Idle /\ transaction[ConnOf[t]][o] # 0 /\ definition[r][k].version < MaxVersion
      /\ definition' = IF done THEN [definition EXCEPT ![r][k] =
                           [version |-> definition[r][k].version + 1, exists |-> exists]]
                       ELSE definition
      /\ call' = [call EXCEPT ![t] = new]
      /\ UNCHANGED <<attached, attachment, scope, transaction, caches, next_id, tables, value,
                     load_lock, floor, cleared, fetched>>
  BY DEF Write, cacheVars
<1>2. o \in Known /\ r \in Remote
  BY <1>1 DEF IInv, OwnerInv, TypeOK, Known, RemoteOf
<1>3. definition' \in [Remote -> [Key -> [version : 0 .. MaxVersion, exists : BOOLEAN]]]
  <2>1. definition[r][k].version + 1 \in 0 .. MaxVersion
    BY <1>1, <1>2 DEF IInv, TypeOK
  <2>2. QED
    BY <1>1, <1>2, <2>1 DEF IInv, TypeOK
<1>4. /\ new \in Call /\ new.step = "write" /\ new.slot = Null /\ new.oid = o /\ new.key = k
      /\ new.floor = definition'[r][k].version
  BY <1>2, <1>3 DEF Call, Step
<1> HIDE DEF new
<1>5. /\ call' \in [Thread -> Call \cup {Idle}] /\ call'[t] = new /\ Goes(t)
      /\ ~Resolving(t) /\ ~Resolving(t)'
  BY <1>1, <1>4 DEF IInv, TypeOK, Goes, Resolving, Idle
<1>6. TypeOK'
  BY <1>1, <1>3, <1>5 DEF IInv, TypeOK
<1>7. /\ OwnerInv' /\ SlotInv' /\ ValueInv' /\ LoadInv'
      /\ \A p : RemoteOf(p)' = RemoteOf(p)
  BY <1>1, <1>5, <1>6, IdleFrame
<1>8. \A p \in Known, l \in Key : /\ Newest(p, l)' \in Nat /\ Newest(p, l) \in Nat
                                  /\ Newest(p, l) <= Newest(p, l)'
  <2> SUFFICES ASSUME NEW p \in Known, NEW l \in Key
               PROVE  /\ Newest(p, l)' \in Nat /\ Newest(p, l) \in Nat
                      /\ Newest(p, l) <= Newest(p, l)'
    OBVIOUS
  <2>1. RemoteOf(p) \in Remote
    BY DEF IInv, TypeOK, Known, RemoteOf
  <2>2. /\ definition'[RemoteOf(p)][l].version >= definition[RemoteOf(p)][l].version
        /\ definition[RemoteOf(p)][l].version \in Nat
    BY <1>1, <1>2, <2>1 DEF IInv, TypeOK
  <2>3. definition'[RemoteOf(p)][l].version \in Nat
    BY <1>3, <2>1
  <2>4. Newest(p, l)' = definition'[RemoteOf(p)][l].version
    BY <1>7 DEF Newest
  <2>5. QED
    BY <2>2, <2>3, <2>4 DEF Newest
<1>9. Known' = Known
  BY <1>1 DEF Known
<1>10. BoundInv'
  <2> SUFFICES ASSUME NEW c \in Conn, NEW p \in Oid, NEW l \in Key
               PROVE  /\ transaction[c][p] = 0 => floor[c][p][l] = 0
                      /\ p \in Known => /\ floor[c][p][l] <= Newest(p, l)'
                                        /\ cleared[c][p][l] <= Newest(p, l)'
    BY <1>1, <1>9 DEF BoundInv
  <2>1. floor[c][p][l] \in Nat /\ cleared[c][p][l] \in Nat
    BY DEF IInv, TypeOK
  <2>2. QED
    BY <1>8, <2>1 DEF IInv, BoundInv
<1>11. CallInv'
  <2> SUFFICES ASSUME NEW u \in Thread, call'[u] # Idle
               PROVE  /\ transaction[ConnOf[u]][call'[u].oid] # 0
                      /\ call'[u].floor <= definition'[RemoteOf(call'[u].oid)][call'[u].key].version
                      /\ Resolving(u)' <=> call'[u].slot # Null
    BY <1>1 DEF CallInv, Newest, RemoteOf
  <2>1. CASE u = t
    <3>1. definition'[r][k].version \in Nat
      BY <1>2, <1>3
    <3>2. QED
      BY <1>1, <1>4, <1>5, <2>1, <3>1
  <2>2. CASE u # t
    <3>1. call'[u] = call[u] /\ Resolving(u)' = Resolving(u)
      BY <1>5, <2>2 DEF Goes, Resolving
    <3>2. call[u].oid \in Known /\ call[u].key \in Key /\ call[u].floor \in Nat
      BY <3>1, CallFacts, KnownCalls DEF IInv
    <3>3. call[u].floor <= Newest(call[u].oid, call[u].key)
      BY <3>1 DEF IInv, CallInv
    <3>4. call[u].floor <= Newest(call[u].oid, call[u].key)'
      <4>1. /\ Newest(call[u].oid, call[u].key)' = definition'[RemoteOf(call[u].oid)][call[u].key].version
        BY <1>7, <3>1 DEF Newest
      <4>2. definition'[RemoteOf(call[u].oid)][call[u].key].version \in Nat
            /\ definition'[RemoteOf(call[u].oid)][call[u].key].version >= Newest(call[u].oid, call[u].key)
            /\ Newest(call[u].oid, call[u].key) \in Nat
        <5>1. ASSUME NEW p \in Known, NEW l \in Key
              PROVE  Newest(p, l)' = definition'[RemoteOf(p)][l].version
          BY <1>7 DEF Newest
        <5>2. QED
          BY <1>8, <3>2, <5>1
      <4>3. QED
        BY <3>2, <3>3, <4>1, <4>2
    <3>5. QED
      BY <1>7, <3>1, <3>4 DEF IInv, CallInv, Newest
  <2>3. QED
    BY <2>1, <2>2
<1>12. Fresh'
  BY <1>4, <1>5, <1>7 DEF IInv, Fresh, Goes
<1>13. QED
  BY <1>6, <1>7, <1>10, <1>11, <1>12 DEF IInv

-----------------------------------------------------------------------------
(* Transactions, and what clears a cache *)

\* Every thread does what it did, but what it does may count for less.
KeepsOn ==
  \A t \in Thread :
    /\ Resolving(t)' = Resolving(t)
    /\ Resolving(t) =>
         /\ call'[t].step = call[t].step /\ call'[t].slot = call[t].slot
         /\ call'[t].oid = call[t].oid /\ call'[t].key = call[t].key
         /\ call'[t].got = call[t].got /\ call'[t].floor = call[t].floor
         /\ call'[t].current => call[t].current

\* Slots leave the maps; their values stay with those that have them.
LEMMA ClearFrame ==
  ASSUME IInv, TypeOK', CallInv', KeepsOn, UNCHANGED load_lock,
         NEW tb \in Tables, Settle(tb, value),
         \A i \in Cache, k \in Key : tb[i][k] \in {tables[i][k], Null},
         \A i \in Cache, k \in Key, c \in Conn, o \in Oid :
           tables'[i][k] # Null /\ Uses(i, c, o)' => Uses(i, c, o),
         BoundsKept, SameRemotes
  PROVE  /\ SlotInv' /\ ValueInv'
         /\ \A t \in Thread : call'[t].step = "load" =>
              load_lock'[call'[t].slot] = t /\ value'[call'[t].slot] = Null
<1>1. value \in Values
  BY DEF IInv, TypeOK, Values
<1>2. /\ \A i \in Cache, k \in Key : tables'[i][k] \in {tb[i][k], Null}
      /\ \A s \in Slot : value'[s] \in {value[s], Null}
      /\ \A s \in Slot : value'[s] # Null =>
           \/ \E i \in Cache, k \in Key : tables'[i][k] = s
           \/ \E t \in Thread : call'[t] # Idle /\ call'[t].slot = s
  BY <1>1, SettleFacts
<1>3. Shrinks
  BY <1>2 DEF Shrinks, KeepsOn
<1>4. SlotInv'
  BY <1>3, SlotFrame
<1>5. NothingNew
  <2> SUFFICES ASSUME NEW s \in Slot, NEW d \in Definition, HasOrGets(s, d)'
               PROVE  HasOrGets(s, d)
    BY DEF NothingNew, IInv, ValueInv
  <2>1. CASE value'[s] = d
    BY <1>2, <2>1 DEF HasOrGets
  <2>2. CASE \E u \in Thread : call'[u].step = "load" /\ call'[u].slot = s /\ call'[u].got = d
    BY <2>2 DEF HasOrGets, KeepsOn, Resolving
  <2>3. QED
    BY <2>1, <2>2 DEF HasOrGets
<1>6. ValueInv'
  <2>1. \A s \in Slot : value'[s] # Null =>
          \/ \E i \in Cache, k \in Key : tables'[i][k] = s
          \/ \E u \in Thread : Resolving(u)' /\ call'[u].slot = s
    BY <1>2 DEF CallInv
  <2>2. ASSUME NEW s \in Slot, NEW d \in Definition, HasOrGets(s, d)'
        PROVE  /\ \A t \in Thread : Resolving(t)' /\ call'[t].slot = s =>
                    d.remote = RemoteOf(call[t].oid)' /\ d.version >= call'[t].floor
               /\ \A i \in Cache, k \in Key, c \in Conn, o \in Oid :
                    tables'[i][k] = s /\ Uses(i, c, o)' =>
                      /\ d.remote = RemoteOf(o)'
                      /\ transaction'[c][o] = i => d.version >= floor'[c][o][k]
                      /\ \A a \in Alias : caches'[c][a].cache = i => d.version >= cleared'[c][o][k]
    BY <1>3, <1>5, <2>2, ValueFrame
  <2>3. QED
    BY <2>1, <2>2 DEF ValueInv, Fits
<1>7. ASSUME NEW t \in Thread, call'[t].step = "load"
      PROVE  load_lock'[call'[t].slot] = t /\ value'[call'[t].slot] = Null
  <2>1. call[t].step = "load" /\ call'[t].slot = call[t].slot /\ Resolving(t)
    BY <1>7 DEF KeepsOn, Resolving
  <2>2. call[t].slot \in Slot
    BY <2>1, CallFacts DEF IInv, CallInv
  <2>3. QED
    BY <1>2, <2>1, <2>2 DEF IInv, LoadInv
<1>8. QED
  BY <1>4, <1>6, <1>7

\* A transaction has the cache it had.
Keeps(tb, c, o) ==
  /\ transaction'[c][o] = transaction[c][o]
  /\ transaction[c][o] # 0 => tb[transaction[c][o]] = tables[transaction[c][o]]

\* What it may forget when it has not.
Forgets(c, o) ==
  /\ \A k \in Key : fetched'[c][o][k] = 0
  /\ \A t \in Thread : ConnOf[t] = c /\ Resolving(t)' /\ call'[t].oid = o => ~call'[t].current

\* A transaction keeps its cache, or what was said of it is forgotten.
LEMMA LoadFrame ==
  ASSUME IInv, TypeOK', KeepsOn, NEW tb \in Tables, Settle(tb, value),
         \A c \in Conn, o \in Oid : Keeps(tb, c, o) \/ transaction[c][o] = 0 \/ Forgets(c, o),
         \A c \in Conn, o \in Oid, k \in Key : fetched'[c][o][k] \in {fetched[c][o][k], 0},
         \A t \in Thread : call'[t].step = "load" =>
           load_lock'[call'[t].slot] = t /\ value'[call'[t].slot] = Null
  PROVE  LoadInv'
<1>1. value \in Values
  BY DEF IInv, TypeOK, Values
<1>2. /\ \A i \in Cache :
           \/ \E c \in Conn, o \in Oid : transaction'[c][o] = i
           \/ \E c \in Conn, a \in Alias : caches'[c][a].cache = i
           => tables'[i] = tb[i]
      /\ \A s \in Slot :
           \/ \E i \in Cache, k \in Key : tables'[i][k] = s
           \/ \E t \in Thread : call'[t] # Idle /\ call'[t].slot = s
           => value'[s] = value[s]
  BY <1>1, SettleFacts
<1>3. ASSUME NEW c \in Conn, NEW o \in Oid, transaction[c][o] # 0, Keeps(tb, c, o)
      PROVE  /\ transaction'[c][o] = transaction[c][o] /\ transaction[c][o] \in Cache
             /\ tables'[transaction[c][o]] = tables[transaction[c][o]]
  <2>1. /\ transaction'[c][o] = transaction[c][o] /\ transaction[c][o] \in Cache
        /\ tb[transaction[c][o]] = tables[transaction[c][o]]
    BY <1>3 DEF Keeps, IInv, TypeOK
  <2>2. QED
    BY <1>2, <2>1
<1>4. ASSUME NEW t \in Thread, Resolving(t)', call'[t].current
      PROVE  tables'[transaction'[ConnOf[t]][call'[t].oid]][call'[t].key] = call'[t].slot
  <2>1. /\ Resolving(t) /\ call[t].current /\ call'[t].slot = call[t].slot
        /\ call'[t].oid = call[t].oid /\ call'[t].key = call[t].key
    BY <1>4 DEF KeepsOn
  <2>2. /\ ConnOf[t] \in Conn /\ call[t].oid \in Oid /\ transaction[ConnOf[t]][call[t].oid] # 0
        /\ tables[transaction[ConnOf[t]][call[t].oid]][call[t].key] = call[t].slot
    BY <2>1, CallFacts DEF IInv, CallInv, LoadInv
  <2>3. Keeps(tb, ConnOf[t], call[t].oid)
    BY <1>4, <2>1, <2>2 DEF Forgets
  <2>4. QED
    BY <1>3, <2>1, <2>2, <2>3
<1>5. ASSUME NEW c \in Conn, NEW o \in Oid, NEW k \in Key, fetched'[c][o][k] # 0
      PROVE  /\ fetched'[c][o][k] = 1
             /\ transaction'[c][o] # 0
             /\ tables'[transaction'[c][o]][k] # Null
             /\ value'[tables'[transaction'[c][o]][k]] # Null
  <2>1. /\ fetched'[c][o][k] = 1
        /\ transaction[c][o] # 0
        /\ tables[transaction[c][o]][k] # Null
        /\ value[tables[transaction[c][o]][k]] # Null
    BY <1>5 DEF IInv, LoadInv
  <2>2. Keeps(tb, c, o)
    BY <1>5, <2>1 DEF Forgets
  <2>3. /\ transaction'[c][o] = transaction[c][o] /\ transaction[c][o] \in Cache
        /\ tables'[transaction[c][o]] = tables[transaction[c][o]]
    BY <1>3, <2>1, <2>2
  <2>4. tables[transaction[c][o]][k] \in Slot
    BY <2>1, <2>3 DEF IInv, TypeOK
  <2>5. tables'[transaction[c][o]][k] = tables[transaction[c][o]][k]
    BY <2>3
  <2>6. value'[tables[transaction[c][o]][k]] = value[tables[transaction[c][o]][k]]
    BY <1>2, <2>3, <2>4, <2>5
  <2>7. QED
    BY <2>1, <2>3, <2>5, <2>6
<1>6. QED
  BY <1>4, <1>5 DEF LoadInv

\* A cache that has slots after the step is one of a connection and a catalog.
LEMMA SettledUses ==
  ASSUME TypeOK', NEW tb \in Tables, NEW v \in Values, Settle(tb, v),
         \A c \in Conn, a \in Alias :
           caches'[c][a].cache # 0 => caches'[c][a].attach_oid \in Oid,
         NEW i \in Cache, NEW k \in Key, tables'[i][k] # Null
  PROVE  \E c \in Conn, o \in Oid : Uses(i, c, o)'
<1>1. \/ \E c \in Conn, o \in Oid : transaction'[c][o] = i
      \/ \E c \in Conn, a \in Alias : caches'[c][a].cache = i
  BY SettleFacts
<1>2. i # 0
  BY DEF Cache
<1>3. CASE \E c \in Conn, o \in Oid : transaction'[c][o] = i
  BY <1>2, <1>3 DEF Uses
<1>4. CASE \E c \in Conn, a \in Alias : caches'[c][a].cache = i
  BY <1>2, <1>4 DEF Uses
<1>5. QED
  BY <1>1, <1>3, <1>4

\* DETACH takes a cache from the connection that says it.
LEMMA DetachIInv ==
  ASSUME IInv, NEW c \in Conn \cup {Null}, NEW a \in Alias, Detach(c, a)
  PROVE  IInv'
<1>1. /\ attached' = [attached EXCEPT ![a] = 0]
      /\ caches' = IF c # Null /\ caches[c][a].attach_oid = attached[a]
                   THEN [caches EXCEPT ![c][a] = [attach_oid |-> 0, cache |-> 0]]
                   ELSE caches
      /\ Settle(tables, value)
      /\ UNCHANGED <<definition, attachment, scope, transaction, next_id, load_lock, call, floor,
                     cleared, fetched>>
  BY DEF Detach
<1>2. /\ caches' \in [Conn -> [Alias -> [attach_oid : Oid \cup {0}, cache : Cache \cup {0}]]]
      /\ \A d \in Conn, b \in Alias :
           caches'[d][b] \in {caches[d][b], [attach_oid |-> 0, cache |-> 0]}
  BY <1>1 DEF IInv, TypeOK
<1>3. tables \in Tables /\ value \in Values
  BY DEF IInv, TypeOK, Tables, Values
<1>4. TypeOK'
  <2>1. tables' \in Tables /\ value' \in Values
    BY <1>1, <1>3, SettleFacts
  <2>2. attached' \in [Alias -> Oid \cup {0}]
    BY <1>1 DEF IInv, TypeOK
  <2>3. QED
    BY <1>1, <1>2, <2>1, <2>2 DEF IInv, TypeOK, Tables, Values
<1>5. \A i \in Cache, d \in Conn, b \in Alias : caches'[d][b].cache = i => caches'[d][b] = caches[d][b]
  BY <1>2 DEF Cache
<1>6. /\ Known' = Known /\ \A o : RemoteOf(o)' = RemoteOf(o)
      /\ \A o, k : Newest(o, k)' = Newest(o, k)
      /\ \A t : Resolving(t)' = Resolving(t)
  BY <1>1 DEF Known, RemoteOf, Newest, Resolving
<1>7. \A i \in Cache, d \in Conn, o \in Oid : Uses(i, d, o)' => Uses(i, d, o)
  BY <1>1, <1>5 DEF Uses
<1>8. OwnerInv'
  <2>1. \A b \in Alias : attached'[b] # 0 => attached'[b] \in Known'
    BY <1>1, <1>6 DEF IInv, OwnerInv, TypeOK
  <2>2. \A d \in Conn, o \in Oid :
          transaction'[d][o] # 0 => o \in Known' /\ transaction'[d][o] <= next_id'
    BY <1>1, <1>6 DEF IInv, OwnerInv
  <2>3. \A d \in Conn, b \in Alias : caches'[d][b].cache # 0 =>
          caches'[d][b].attach_oid \in Known' /\ caches'[d][b].cache <= next_id'
    BY <1>1, <1>2, <1>6 DEF IInv, OwnerInv
  <2>4. \A i \in Cache, d, e \in Conn, o, p \in Oid :
          Uses(i, d, o)' /\ Uses(i, e, p)' => d = e /\ o = p
    BY <1>7 DEF IInv, OwnerInv
  <2>5. \A i \in Cache, k \in Key : tables'[i][k] # Null => \E d \in Conn, o \in Oid : Uses(i, d, o)'
    BY <1>1, <1>3, <1>4, <2>3, SettledUses DEF Known
  <2>6. QED
    BY <2>1, <2>2, <2>3, <2>4, <2>5 DEF OwnerInv
<1>9. BoundInv' /\ CallInv' /\ Fresh'
  BY <1>1, <1>6 DEF IInv, BoundInv, CallInv, Fresh
<1>10. KeepsOn /\ SameRemotes
  BY <1>1, <1>6 DEF KeepsOn, SameRemotes
<1>11. BoundsKept
  <2>1. \A d \in Conn, o \in Oid, k \in Key :
          floor[d][o][k] <= floor[d][o][k] /\ cleared[d][o][k] <= cleared[d][o][k]
    BY DEF IInv, TypeOK
  <2>2. QED
    BY <1>1, <1>5, <2>1 DEF BoundsKept
<1>12. \A i \in Cache, k \in Key : tables[i][k] \in {tables[i][k], Null}
  OBVIOUS
<1>13. /\ SlotInv' /\ ValueInv'
       /\ \A t \in Thread : call'[t].step = "load" =>
            load_lock'[call'[t].slot] = t /\ value'[call'[t].slot] = Null
  BY <1>1, <1>3, <1>4, <1>7, <1>9, <1>10, <1>11, <1>12, ClearFrame
<1>14. LoadInv'
  <2>1. \A d \in Conn, o \in Oid : Keeps(tables, d, o)
    BY <1>1 DEF Keeps
  <2>2. \A d \in Conn, o \in Oid, k \in Key : fetched'[d][o][k] \in {fetched[d][o][k], 0}
    BY <1>1
  <2>3. QED
    BY <1>1, <1>3, <1>4, <1>10, <1>13, <2>1, <2>2, LoadFrame
<1>15. QED
  BY <1>4, <1>8, <1>9, <1>13, <1>14 DEF IInv

\* A transaction starts with an empty cache, or with the one the connection keeps.
LEMMA StartTransactionIInv ==
  ASSUME IInv, NEW c \in Conn, NEW o \in Oid, StartTransaction(c, o)
  PROVE  IInv'
<1> DEFINE b == attachment[o].alias
           kept == scope[c] = "connection"
<1>1. PICK i \in IF kept THEN GetCache(c, o) ELSE {next_id + 1} :
        /\ i \in Cache
        /\ next_id' = Higher(next_id, i)
        /\ transaction' = [transaction EXCEPT ![c][o] = i]
        /\ caches' = IF kept THEN [caches EXCEPT ![c][b] = [attach_oid |-> o, cache |-> i]]
                     ELSE caches
  BY DEF StartTransaction
<1>2. /\ transaction[c][o] = 0
      /\ floor' = [floor EXCEPT ![c][o] = [k \in Key |->
                      IF kept THEN cleared[c][o][k] ELSE Newest(o, k)]]
      /\ Settle(tables, value)
      /\ UNCHANGED <<definition, attached, attachment, scope, load_lock, call, cleared, fetched>>
  BY DEF StartTransaction
<1>3. o \in Known /\ b \in Alias /\ \A k \in Key : Newest(o, k) \in 0 .. MaxVersion
  <2>1. o # 0
    BY DEF Oid
  <2>2. o \in Known
    BY <2>1 DEF StartTransaction, IInv, OwnerInv
  <2>3. QED
    BY <2>2 DEF IInv, TypeOK, Known, Newest, RemoteOf
<1>4. \/ i = next_id + 1
      \/ kept /\ caches[c][b].cache = i /\ caches[c][b].attach_oid = o
  BY <1>1 DEF GetCache
<1>5. i # 0 /\ i \in Nat /\ next_id \in Nat
  BY <1>1 DEF IInv, TypeOK, Cache
<1> HIDE DEF b, kept
<1>6. /\ \A d \in Conn, p \in Oid :
           transaction'[d][p] = IF d = c /\ p = o THEN i ELSE transaction[d][p]
      /\ \A d \in Conn, a \in Alias :
           caches'[d][a] = IF kept /\ d = c /\ a = b THEN [attach_oid |-> o, cache |-> i]
                           ELSE caches[d][a]
      /\ \A d \in Conn, p \in Oid, k \in Key :
           floor'[d][p][k] = IF d = c /\ p = o
                             THEN IF kept THEN cleared[c][o][k] ELSE Newest(o, k)
                             ELSE floor[d][p][k]
  BY <1>1, <1>2 DEF IInv, TypeOK
<1>7. tables \in Tables /\ value \in Values
  BY DEF IInv, TypeOK, Tables, Values
<1>8. TypeOK'
  <2>1. tables' \in Tables /\ value' \in Values
    BY <1>2, <1>7, SettleFacts
  <2>2. transaction' \in [Conn -> [Oid -> Cache \cup {0}]]
    BY <1>1 DEF IInv, TypeOK
  <2>3. caches' \in [Conn -> [Alias -> [attach_oid : Oid \cup {0}, cache : Cache \cup {0}]]]
    BY <1>1, <1>3 DEF IInv, TypeOK
  <2>4. floor' \in [Conn -> [Oid -> [Key -> 0 .. MaxVersion]]]
    BY <1>2, <1>3 DEF IInv, TypeOK
  <2>5. next_id' \in Cache \cup {0}
    BY <1>1 DEF Higher, IInv, TypeOK
  <2>6. QED
    BY <1>2, <2>1, <2>2, <2>3, <2>4, <2>5 DEF IInv, TypeOK, Tables, Values
<1>9. /\ Known' = Known /\ \A p : RemoteOf(p)' = RemoteOf(p)
      /\ \A p, k : Newest(p, k)' = Newest(p, k)
      /\ \A t : Resolving(t)' = Resolving(t)
  BY <1>2 DEF Known, RemoteOf, Newest, Resolving
<1>10. ASSUME i = next_id + 1
       PROVE  /\ \A d \in Conn, p \in Oid : ~Uses(i, d, p)
              /\ \A k \in Key : tables[i][k] = Null
  <2>1. \A d \in Conn, p \in Oid : ~Uses(i, d, p)
    <3> SUFFICES ASSUME NEW d \in Conn, NEW p \in Oid, Uses(i, d, p) PROVE FALSE
      OBVIOUS
    <3>1. i <= next_id
      BY <1>5 DEF IInv, OwnerInv, Uses
    <3>2. QED
      BY <1>5, <1>10, <3>1
  <2>2. QED
    BY <1>1, <2>1 DEF IInv, OwnerInv
<1>11. kept /\ caches[c][b].cache = i /\ caches[c][b].attach_oid = o => Uses(i, c, o)
  BY <1>3, <1>5 DEF Uses
<1>12. \A j \in Cache, d \in Conn, p \in Oid :
         Uses(j, d, p)' => Uses(j, d, p) \/ (j = i /\ d = c /\ p = o)
  BY <1>6 DEF Uses
<1>13. \A d \in Conn, p \in Oid : Uses(i, d, p) => d = c /\ p = o
  BY <1>1, <1>4, <1>10, <1>11 DEF IInv, OwnerInv
<1>14. \A j \in Cache, k \in Key, d \in Conn, p \in Oid :
         tables'[j][k] # Null /\ Uses(j, d, p)' => Uses(j, d, p)
  <2>1. \A j \in Cache, k \in Key : tables'[j][k] # Null => tables[j][k] # Null
    BY <1>2, <1>7, SettleFacts
  <2>2. QED
    BY <1>1, <1>4, <1>10, <1>11, <1>12, <2>1
<1>15. OwnerInv'
  <2>1. \A a \in Alias : attached'[a] # 0 => attached'[a] \in Known'
    BY <1>2, <1>9 DEF IInv, OwnerInv
  <2>2. next_id <= next_id' /\ i <= next_id' /\ next_id' \in Nat
    BY <1>1, <1>5 DEF Higher
  <2>3. \A d \in Conn, p \in Oid :
          transaction'[d][p] # 0 => p \in Known' /\ transaction'[d][p] <= next_id'
    <3> SUFFICES ASSUME NEW d \in Conn, NEW p \in Oid, transaction'[d][p] # 0
                 PROVE  p \in Known /\ transaction'[d][p] <= next_id'
      BY <1>9
    <3>1. CASE d = c /\ p = o
      BY <1>3, <1>6, <2>2, <3>1
    <3>2. CASE ~(d = c /\ p = o)
      <4>1. /\ transaction'[d][p] = transaction[d][p] /\ p \in Known
            /\ transaction[d][p] <= next_id
        BY <1>6, <3>2 DEF IInv, OwnerInv
      <4>2. transaction[d][p] \in Nat
        BY DEF IInv, TypeOK, Cache
      <4>3. QED
        BY <1>5, <2>2, <4>1, <4>2
    <3>3. QED
      BY <3>1, <3>2
  <2>4. \A d \in Conn, a \in Alias : caches'[d][a].cache # 0 =>
          caches'[d][a].attach_oid \in Known' /\ caches'[d][a].cache <= next_id'
    <3> SUFFICES ASSUME NEW d \in Conn, NEW a \in Alias, caches'[d][a].cache # 0
                 PROVE  caches'[d][a].attach_oid \in Known /\ caches'[d][a].cache <= next_id'
      BY <1>9
    <3>1. CASE kept /\ d = c /\ a = b
      BY <1>3, <1>6, <2>2, <3>1
    <3>2. CASE ~(kept /\ d = c /\ a = b)
      <4>1. /\ caches'[d][a] = caches[d][a] /\ caches[d][a].attach_oid \in Known
            /\ caches[d][a].cache <= next_id
        BY <1>6, <3>2 DEF IInv, OwnerInv
      <4>2. caches[d][a].cache \in Nat
        BY DEF IInv, TypeOK, Cache
      <4>3. QED
        BY <1>5, <2>2, <4>1, <4>2
    <3>3. QED
      BY <3>1, <3>2
  <2>5. \A j \in Cache, d, e \in Conn, p, q \in Oid :
          Uses(j, d, p)' /\ Uses(j, e, q)' => d = e /\ p = q
    BY <1>12, <1>13 DEF IInv, OwnerInv
  <2>6. \A j \in Cache, k \in Key : tables'[j][k] # Null => \E d \in Conn, p \in Oid : Uses(j, d, p)'
    BY <1>2, <1>7, <1>8, <2>4, SettledUses DEF Known
  <2>7. QED
    BY <2>1, <2>3, <2>4, <2>5, <2>6 DEF OwnerInv
<1>16. BoundInv'
  <2> SUFFICES ASSUME NEW d \in Conn, NEW p \in Oid, NEW k \in Key
               PROVE  /\ transaction'[d][p] = 0 => floor'[d][p][k] = 0
                      /\ p \in Known => /\ floor'[d][p][k] <= Newest(p, k)
                                        /\ cleared[d][p][k] <= Newest(p, k)
    BY <1>2, <1>9 DEF BoundInv
  <2>1. CASE d = c /\ p = o
    BY <1>3, <1>5, <1>6, <2>1 DEF IInv, BoundInv
  <2>2. CASE ~(d = c /\ p = o)
    BY <1>6, <2>2 DEF IInv, BoundInv
  <2>3. QED
    BY <2>1, <2>2
<1>17. CallInv'
  <2>1. \A t \in Thread : call[t] # Idle => transaction'[ConnOf[t]][call[t].oid] # 0
    BY <1>5, <1>6, CallFacts DEF IInv, CallInv
  <2>2. QED
    BY <1>2, <1>9, <2>1 DEF IInv, CallInv
<1>18. KeepsOn /\ SameRemotes /\ Fresh'
  BY <1>2, <1>9 DEF KeepsOn, SameRemotes, IInv, Fresh
<1>19. BoundsKept
  <2> SUFFICES ASSUME NEW j \in Cache, NEW k \in Key, NEW d \in Conn, NEW p \in Oid,
                      tables'[j][k] # Null, Uses(j, d, p)
               PROVE  /\ transaction'[d][p] = j =>
                           \/ transaction[d][p] = j /\ floor'[d][p][k] <= floor[d][p][k]
                           \/ /\ \E a \in Alias : caches[d][a].cache = j
                              /\ floor'[d][p][k] <= cleared[d][p][k]
                      /\ \A a \in Alias : caches'[d][a].cache = j =>
                           \E e \in Alias : caches[d][e].cache = j
    BY <1>2 DEF BoundsKept, IInv, TypeOK
  <2>1. floor[d][p][k] \in Nat /\ cleared[d][p][k] \in Nat
    BY DEF IInv, TypeOK
  <2>2. tables[j][k] # Null
    BY <1>2, <1>7, SettleFacts
  <2>3. j = i => kept /\ caches[c][b].cache = i
    BY <1>4, <1>10, <2>2
  <2>4. CASE d = c /\ p = o
    BY <1>3, <1>6, <2>1, <2>3, <2>4
  <2>5. CASE ~(d = c /\ p = o)
    <3>1. transaction'[d][p] = transaction[d][p] /\ floor'[d][p][k] <= floor[d][p][k]
      BY <1>6, <2>1, <2>5
    <3>2. QED
      BY <1>3, <1>6, <2>3, <3>1
  <2>6. QED
    BY <2>4, <2>5
<1>20. \A j \in Cache, k \in Key : tables[j][k] \in {tables[j][k], Null}
  OBVIOUS
<1>21. /\ SlotInv' /\ ValueInv'
       /\ \A t \in Thread : call'[t].step = "load" =>
            load_lock'[call'[t].slot] = t /\ value'[call'[t].slot] = Null
  BY <1>2, <1>7, <1>8, <1>14, <1>17, <1>18, <1>19, <1>20, ClearFrame
<1>22. LoadInv'
  <2>1. \A d \in Conn, p \in Oid : Keeps(tables, d, p) \/ transaction[d][p] = 0
    BY <1>2, <1>6 DEF Keeps
  <2>2. \A d \in Conn, p \in Oid, k \in Key : fetched'[d][p][k] \in {fetched[d][p][k], 0}
    BY <1>2
  <2>3. QED
    BY <1>2, <1>7, <1>8, <1>18, <1>21, <2>1, <2>2, LoadFrame
<1>23. QED
  BY <1>8, <1>15, <1>16, <1>17, <1>18, <1>21, <1>22 DEF IInv

\* A cache that two connections read through is none.
LEMMA StateCacheUses ==
  ASSUME IInv, NEW c \in Conn, NEW i \in StateCaches(c)
  PROVE  /\ i \in Cache /\ i # 0
         /\ \A d \in Conn, o \in Oid : Uses(i, d, o) => d = c
<1>1. PICK a \in Alias : caches[c][a].cache = i /\ i # 0
  BY DEF StateCaches
<1>2. i \in Cache /\ caches[c][a].attach_oid \in Oid
  BY <1>1 DEF IInv, TypeOK, OwnerInv, Known
<1>3. Uses(i, c, caches[c][a].attach_oid)
  BY <1>1 DEF Uses
<1>4. QED
  BY <1>1, <1>2, <1>3 DEF IInv, OwnerInv

\* The transactions of a connection end; a rollback clears what it keeps.
LEMMA EndTransactionIInv ==
  ASSUME IInv, NEW c \in Conn, NEW rollback \in BOOLEAN, EndTransaction(c, rollback)
  PROVE  IInv'
<1> DEFINE which == IF rollback THEN StateCaches(c) ELSE {}
           tb == [i \in Cache |-> IF i \in which THEN NoSlots ELSE tables[i]]
<1>1. /\ transaction' = [transaction EXCEPT ![c] = [o \in Oid |-> 0]]
      /\ Settle(tb, value)
      /\ cleared' = IF rollback
                    THEN [cleared EXCEPT ![c] = [o \in Oid |-> IF o \in Known
                            THEN [k \in Key |-> Newest(o, k)] ELSE cleared[c][o]]]
                    ELSE cleared
      /\ floor' = [floor EXCEPT ![c] = [o \in Oid |-> [k \in Key |-> 0]]]
      /\ fetched' = [fetched EXCEPT ![c] = NoFetch]
      /\ UNCHANGED <<definition, attached, attachment, scope, caches, next_id, load_lock, call>>
  BY DEF EndTransaction, Clear
<1>2. \A t \in Thread : ConnOf[t] = c => call[t] = Idle
  BY DEF EndTransaction, AtRest, ThreadsOf
<1>3. /\ \A d \in Conn, o \in Oid :
           transaction'[d][o] = IF d = c THEN 0 ELSE transaction[d][o]
      /\ \A d \in Conn, o \in Oid, k \in Key :
           /\ floor'[d][o][k] = IF d = c THEN 0 ELSE floor[d][o][k]
           /\ fetched'[d][o][k] = IF d = c THEN 0 ELSE fetched[d][o][k]
           /\ cleared'[d][o][k] = IF rollback /\ d = c /\ o \in Known
                                  THEN Newest(o, k) ELSE cleared[d][o][k]
  BY <1>1 DEF IInv, TypeOK, NoFetch
<1>4. /\ tb \in Tables /\ value \in Values
      /\ \A i \in Cache, k \in Key : tb[i][k] \in {tables[i][k], Null}
      /\ \A i \in Cache : i \notin which => tb[i] = tables[i]
      /\ \A i \in Cache, k \in Key : i \in which => tb[i][k] = Null
  BY DEF IInv, TypeOK, Tables, Values, NoSlots
<1> HIDE DEF tb
<1>5. \A i \in which : i \in Cache /\ \A d \in Conn, o \in Oid : Uses(i, d, o) => d = c
  BY StateCacheUses
<1>6. rollback => \A a \in Alias, i \in Cache : caches[c][a].cache = i => i \in which
  BY DEF StateCaches, Cache
<1> HIDE DEF which
<1>7. \A o \in Known, k \in Key : Newest(o, k) \in 0 .. MaxVersion
  BY DEF IInv, TypeOK, Known, Newest, RemoteOf
<1>8. \A i \in Cache, k \in Key : tables'[i][k] \in {tb[i][k], Null}
  BY <1>1, <1>4, SettleFacts
<1>9. TypeOK'
  <2>1. tables' \in Tables /\ value' \in Values
    BY <1>1, <1>4, SettleFacts
  <2>2. transaction' \in [Conn -> [Oid -> Cache \cup {0}]]
    BY <1>1 DEF IInv, TypeOK
  <2>3. floor' \in [Conn -> [Oid -> [Key -> 0 .. MaxVersion]]]
    BY <1>1 DEF IInv, TypeOK
  <2>4. cleared' \in [Conn -> [Oid -> [Key -> 0 .. MaxVersion]]]
    BY <1>1, <1>7 DEF IInv, TypeOK
  <2>5. fetched' \in [Conn -> [Oid -> [Key -> Nat]]]
    BY <1>1 DEF IInv, TypeOK, NoFetch
  <2>6. QED
    BY <1>1, <2>1, <2>2, <2>3, <2>4, <2>5 DEF IInv, TypeOK, Tables, Values
<1>10. /\ Known' = Known /\ \A o : RemoteOf(o)' = RemoteOf(o)
       /\ \A o, k : Newest(o, k)' = Newest(o, k)
       /\ \A t : Resolving(t)' = Resolving(t)
  BY <1>1 DEF Known, RemoteOf, Newest, Resolving
<1>11. \A i \in Cache, d \in Conn, o \in Oid : Uses(i, d, o)' => Uses(i, d, o)
  BY <1>1, <1>3 DEF Uses, Cache
<1>12. OwnerInv'
  <2>1. \A a \in Alias : attached'[a] # 0 => attached'[a] \in Known'
    BY <1>1, <1>10 DEF IInv, OwnerInv
  <2>2. \A d \in Conn, o \in Oid :
          transaction'[d][o] # 0 => o \in Known' /\ transaction'[d][o] <= next_id'
    BY <1>1, <1>3, <1>10 DEF IInv, OwnerInv
  <2>3. \A d \in Conn, a \in Alias : caches'[d][a].cache # 0 =>
          caches'[d][a].attach_oid \in Known' /\ caches'[d][a].cache <= next_id'
    BY <1>1, <1>10 DEF IInv, OwnerInv
  <2>4. \A i \in Cache, d, e \in Conn, o, p \in Oid :
          Uses(i, d, o)' /\ Uses(i, e, p)' => d = e /\ o = p
    BY <1>11 DEF IInv, OwnerInv
  <2>5. \A i \in Cache, k \in Key : tables'[i][k] # Null => \E d \in Conn, o \in Oid : Uses(i, d, o)'
    BY <1>1, <1>4, <1>9, <2>3, SettledUses DEF Known
  <2>6. QED
    BY <2>1, <2>2, <2>3, <2>4, <2>5 DEF OwnerInv
<1>13. BoundInv'
  <2> SUFFICES ASSUME NEW d \in Conn, NEW o \in Oid, NEW k \in Key
               PROVE  /\ transaction'[d][o] = 0 => floor'[d][o][k] = 0
                      /\ o \in Known => /\ floor'[d][o][k] <= Newest(o, k)
                                        /\ cleared'[d][o][k] <= Newest(o, k)
    BY <1>10 DEF BoundInv
  <2>1. o \in Known => Newest(o, k) \in Nat
    BY <1>7
  <2>2. QED
    BY <1>3, <2>1 DEF IInv, BoundInv
<1>14. CallInv'
  <2>1. \A t \in Thread : call[t] # Idle => transaction'[ConnOf[t]][call[t].oid] # 0
    BY <1>2, <1>3, CallFacts DEF IInv, CallInv
  <2>2. QED
    BY <1>1, <1>10, <2>1 DEF IInv, CallInv
<1>15. KeepsOn /\ SameRemotes /\ Fresh'
  BY <1>1, <1>10 DEF KeepsOn, SameRemotes, IInv, Fresh
<1>16. BoundsKept
  <2> SUFFICES ASSUME NEW i \in Cache, NEW k \in Key, NEW d \in Conn, NEW o \in Oid,
                      tables'[i][k] # Null
               PROVE  /\ transaction'[d][o] = i =>
                           transaction[d][o] = i /\ floor'[d][o][k] <= floor[d][o][k]
                      /\ \A a \in Alias : caches[d][a].cache = i =>
                           cleared'[d][o][k] <= cleared[d][o][k]
    BY <1>1 DEF BoundsKept
  <2>1. floor[d][o][k] \in Nat /\ cleared[d][o][k] \in Nat
    BY DEF IInv, TypeOK
  <2>2. i \notin which
    BY <1>4, <1>8
  <2>3. i # 0
    BY DEF Cache
  <2>4. QED
    BY <1>3, <1>6, <2>1, <2>2, <2>3
<1>17. /\ SlotInv' /\ ValueInv'
       /\ \A t \in Thread : call'[t].step = "load" =>
            load_lock'[call'[t].slot] = t /\ value'[call'[t].slot] = Null
  BY <1>1, <1>4, <1>9, <1>11, <1>14, <1>15, <1>16, ClearFrame
<1>18. LoadInv'
  <2>1. ASSUME NEW d \in Conn, NEW o \in Oid
        PROVE  Keeps(tb, d, o) \/ transaction[d][o] = 0 \/ Forgets(d, o)
    <3>1. CASE d = c
      <4>1. \A t \in Thread : ConnOf[t] = c => ~Resolving(t)'
        BY <1>2, <1>10 DEF Resolving, Idle
      <4>2. QED
        BY <1>3, <3>1, <4>1 DEF Forgets
    <3>2. CASE d # c /\ transaction[d][o] # 0
      <4>1. Uses(transaction[d][o], d, o) /\ transaction[d][o] \in Cache
        BY <3>2 DEF Uses, IInv, TypeOK
      <4>2. QED
        BY <1>3, <1>4, <1>5, <3>2, <4>1 DEF Keeps
    <3>3. QED
      BY <3>1, <3>2
  <2>2. \A d \in Conn, o \in Oid, k \in Key : fetched'[d][o][k] \in {fetched[d][o][k], 0}
    BY <1>3
  <2>3. QED
    BY <1>1, <1>4, <1>9, <1>15, <1>17, <2>1, <2>2, LoadFrame
<1>19. QED
  BY <1>9, <1>12, <1>13, <1>14, <1>15, <1>17, <1>18 DEF IInv

\* The write has to be seen from now on: the caches it could hide in are cleared.
LEMMA InvalidateIInv ==
  ASSUME IInv, NEW t \in Thread, Invalidate(t)
  PROVE  IInv'
<1>a. call[t].step = "write" /\ call[t] # Idle /\ ~Resolving(t)
  BY CallFacts DEF Invalidate, IInv, Resolving
<1>b. PICK c \in Conn, o \in Oid, k \in Key, w \in 0 .. MaxVersion :
        c = ConnOf[t] /\ o = call[t].oid /\ k = call[t].key /\ w = call[t].floor
  BY <1>a, CallFacts DEF IInv
<1> DEFINE which == Invalidated(t)
           tb == [i \in Cache |-> IF i \in which THEN NoSlots ELSE tables[i]]
<1>1. /\ call' = [u \in Thread |-> IF u = t \/ ConnOf[u] # c \/ call[u] = Idle
                                   THEN IF u = t THEN Idle ELSE call[u]
                                   ELSE [call[u] EXCEPT !.current = FALSE]]
      /\ Settle(tb, value)
      /\ floor' = Raise(floor, c, {o}, k, w)
      /\ cleared' = Raise(cleared, c, Aliases(o), k, w)
      /\ fetched' = [fetched EXCEPT ![c] = NoFetch]
      /\ UNCHANGED <<definition, attached, attachment, scope, transaction, caches, next_id,
                     load_lock>>
  BY <1>b DEF Invalidate, Clear
<1>2. /\ o \in Known /\ w <= Newest(o, k)
      /\ transaction[c][o] # 0 /\ transaction[c][o] \in Cache
  BY <1>a, <1>b, KnownCalls DEF IInv, CallInv, TypeOK
<1>3. /\ floor' \in [Conn -> [Oid -> [Key -> 0 .. MaxVersion]]]
      /\ cleared' \in [Conn -> [Oid -> [Key -> 0 .. MaxVersion]]]
      /\ \A d \in Conn, p \in Oid, l \in Key :
           /\ \/ floor'[d][p][l] = floor[d][p][l]
              \/ d = c /\ p = o /\ l = k /\ floor'[d][p][l] \in {floor[d][p][l], w}
           /\ \/ cleared'[d][p][l] = cleared[d][p][l]
              \/ /\ d = c /\ p \in Aliases(o) /\ l = k
                 /\ cleared'[d][p][l] \in {cleared[d][p][l], w}
  <2>0. floor' = Raise(floor, c, {o}, k, w) /\ cleared' = Raise(cleared, c, Aliases(o), k, w)
    BY <1>1
  <2>1. Aliases(o) \in SUBSET Oid /\ {o} \in SUBSET Oid
    BY <1>2 DEF Aliases, Known
  <2>2. /\ floor \in [Conn -> [Oid -> [Key -> 0 .. MaxVersion]]]
        /\ cleared \in [Conn -> [Oid -> [Key -> 0 .. MaxVersion]]]
    BY DEF IInv, TypeOK
  <2>3. /\ floor' \in [Conn -> [Oid -> [Key -> 0 .. MaxVersion]]]
        /\ \A d \in Conn, p \in Oid, l \in Key :
             \/ floor'[d][p][l] = floor[d][p][l]
             \/ d = c /\ p \in {o} /\ l = k /\ floor'[d][p][l] \in {floor[d][p][l], w}
    BY <2>0, <2>1, <2>2 DEF Raise, Higher
  <2>4. /\ cleared' \in [Conn -> [Oid -> [Key -> 0 .. MaxVersion]]]
        /\ \A d \in Conn, p \in Oid, l \in Key :
             \/ cleared'[d][p][l] = cleared[d][p][l]
             \/ d = c /\ p \in Aliases(o) /\ l = k /\ cleared'[d][p][l] \in {cleared[d][p][l], w}
    BY <2>0, <2>1, <2>2 DEF Raise, Higher
  <2>5. QED
    BY <2>3, <2>4
<1>4. \A d \in Conn, p \in Oid, l \in Key :
        fetched'[d][p][l] = IF d = c THEN 0 ELSE fetched[d][p][l]
  BY <1>1 DEF IInv, TypeOK, NoFetch
<1>5. /\ tb \in Tables /\ value \in Values
      /\ \A i \in Cache, l \in Key : tb[i][l] \in {tables[i][l], Null}
      /\ \A i \in Cache : i \notin which => tb[i] = tables[i]
      /\ \A i \in Cache, l \in Key : i \in which => tb[i][l] = Null
  BY DEF IInv, TypeOK, Tables, Values, NoSlots
<1> HIDE DEF tb
<1>6. \A i \in which, d \in Conn, p \in Oid : i \in Cache /\ (Uses(i, d, p) => d = c)
  <2> SUFFICES ASSUME NEW i \in which, NEW d \in Conn, NEW p \in Oid
               PROVE  i \in Cache /\ (Uses(i, d, p) => d = c)
    OBVIOUS
  <2>1. CASE i \in StateCaches(c)
    BY <1>2, <2>1, StateCacheUses
  <2>2. CASE i = transaction[c][o]
    BY <1>2, <2>2 DEF IInv, OwnerInv, Uses
  <2>3. QED
    BY <1>b, <2>1, <2>2 DEF Invalidated
<1>7. /\ transaction[c][o] \in which
      /\ \A a \in Alias, i \in Cache : caches[c][a].cache = i => i \in which
  BY <1>b DEF Invalidated, StateCaches, Cache
<1> HIDE DEF which
<1>8. \A i \in Cache, l \in Key : tables'[i][l] \in {tb[i][l], Null}
  BY <1>1, <1>5, SettleFacts
<1>9. /\ call' \in [Thread -> Call \cup {Idle}] /\ call'[t] = Idle
      /\ \A u \in Thread : u # t /\ call[u] # Idle =>
           /\ call'[u] # Idle
           /\ call'[u].step = call[u].step /\ call'[u].slot = call[u].slot
           /\ call'[u].oid = call[u].oid /\ call'[u].key = call[u].key
           /\ call'[u].got = call[u].got /\ call'[u].floor = call[u].floor
           /\ call'[u].current => call[u].current /\ ConnOf[u] # c
      /\ \A u \in Thread : call[u] = Idle => call'[u] = Idle
  <2>1. \A u \in Thread : call[u] # Idle => call[u] \in Call
    BY CallFacts DEF IInv
  <2>2. \A w2 \in Call : /\ [w2 EXCEPT !.current = FALSE] \in Call
                         /\ [w2 EXCEPT !.current = FALSE] # Idle
                         /\ [w2 EXCEPT !.current = FALSE].step = w2.step
                         /\ [w2 EXCEPT !.current = FALSE].slot = w2.slot
                         /\ [w2 EXCEPT !.current = FALSE].oid = w2.oid
                         /\ [w2 EXCEPT !.current = FALSE].key = w2.key
                         /\ [w2 EXCEPT !.current = FALSE].got = w2.got
                         /\ [w2 EXCEPT !.current = FALSE].floor = w2.floor
                         /\ [w2 EXCEPT !.current = FALSE].current = FALSE
    BY DEF Call, Idle
  <2>3. \A u \in Thread : call'[u] = IF u = t THEN Idle
                                     ELSE IF ConnOf[u] # c \/ call[u] = Idle THEN call[u]
                                     ELSE [call[u] EXCEPT !.current = FALSE]
    BY <1>1
  <2>4. call' \in [Thread -> Call \cup {Idle}]
    BY <1>1, <2>1, <2>2
  <2>5. ASSUME NEW u \in Thread, u # t, call[u] # Idle
        PROVE  /\ call'[u] # Idle
               /\ call'[u].step = call[u].step /\ call'[u].slot = call[u].slot
               /\ call'[u].oid = call[u].oid /\ call'[u].key = call[u].key
               /\ call'[u].got = call[u].got /\ call'[u].floor = call[u].floor
               /\ call'[u].current => call[u].current /\ ConnOf[u] # c
    <3>1. CASE ConnOf[u] # c
      <4>1. call'[u] = call[u]
        BY <2>3, <2>5, <3>1
      <4>2. QED
        BY <2>5, <3>1, <4>1
    <3>2. CASE ConnOf[u] = c
      <4>1. call'[u] = [call[u] EXCEPT !.current = FALSE]
        BY <2>3, <2>5, <3>2
      <4>2. QED
        BY <2>1, <2>2, <2>5, <4>1
    <3>3. QED
      BY <3>1, <3>2
  <2>6. \A u \in Thread : call[u] = Idle => call'[u] = Idle
    BY <2>3
  <2>7. call'[t] = Idle
    BY <2>3
  <2>8. QED
    BY <2>4, <2>5, <2>6, <2>7
<1>10. TypeOK'
  <2>1. tables' \in Tables /\ value' \in Values
    BY <1>1, <1>5, SettleFacts
  <2>2. fetched' \in [Conn -> [Oid -> [Key -> Nat]]]
    BY <1>1 DEF IInv, TypeOK, NoFetch
  <2>3. QED
    BY <1>1, <1>3, <1>9, <2>1, <2>2 DEF IInv, TypeOK, Tables, Values
<1>11. /\ Known' = Known /\ \A p : RemoteOf(p)' = RemoteOf(p)
       /\ \A p, l : Newest(p, l)' = Newest(p, l)
       /\ \A i, d, p : Uses(i, d, p)' = Uses(i, d, p)
  BY <1>1 DEF Known, RemoteOf, Newest, Uses
<1>12. \A u \in Thread : Resolving(u)' = Resolving(u)
  <2>1. ASSUME NEW u \in Thread, u # t, call[u] # Idle PROVE Resolving(u)' = Resolving(u)
    BY <1>9, <2>1 DEF Resolving
  <2>2. ASSUME NEW u \in Thread, call[u] = Idle PROVE Resolving(u)' = Resolving(u)
    BY <1>9, <2>2 DEF Resolving
  <2>3. Resolving(t)' = Resolving(t)
    BY <1>a, <1>9 DEF Resolving, Idle
  <2>4. QED
    BY <2>1, <2>2, <2>3
<1>13. OwnerInv'
  <2>1. \A i \in Cache, l \in Key : tables'[i][l] # Null => tables[i][l] # Null
    BY <1>5, <1>8
  <2>2. QED
    BY <1>1, <1>11, <2>1 DEF IInv, OwnerInv
<1>14. BoundInv'
  <2> SUFFICES ASSUME NEW d \in Conn, NEW p \in Oid, NEW l \in Key
               PROVE  /\ transaction[d][p] = 0 => floor'[d][p][l] = 0
                      /\ p \in Known => /\ floor'[d][p][l] <= Newest(p, l)
                                        /\ cleared'[d][p][l] <= Newest(p, l)
    BY <1>1, <1>11 DEF BoundInv
  <2>1. /\ transaction[d][p] = 0 => floor[d][p][l] = 0
        /\ p \in Known => floor[d][p][l] <= Newest(p, l) /\ cleared[d][p][l] <= Newest(p, l)
    BY DEF IInv, BoundInv
  <2>2. p \in Aliases(o) => Newest(p, l) = Newest(o, l)
    BY DEF Aliases, Newest
  <2>3. ASSUME transaction[d][p] = 0 PROVE floor'[d][p][l] = 0
    <3>1. ~(d = c /\ p = o)
      BY <1>2, <2>3
    <3>2. floor'[d][p][l] = floor[d][p][l]
      BY <1>3, <3>1
    <3>3. QED
      BY <2>1, <2>3, <3>2
  <2>4. ASSUME p \in Known PROVE floor'[d][p][l] <= Newest(p, l)
    <3>1. CASE floor'[d][p][l] = floor[d][p][l]
      BY <2>1, <2>4, <3>1
    <3>2. CASE p = o /\ l = k /\ floor'[d][p][l] = w
      BY <1>2, <3>2
    <3>3. QED
      BY <1>3, <3>1, <3>2
  <2>5. ASSUME p \in Known PROVE cleared'[d][p][l] <= Newest(p, l)
    <3>1. CASE cleared'[d][p][l] = cleared[d][p][l]
      BY <2>1, <2>5, <3>1
    <3>2. CASE p \in Aliases(o) /\ l = k /\ cleared'[d][p][l] = w
      BY <1>2, <2>2, <3>2
    <3>3. QED
      BY <1>3, <3>1, <3>2
  <2>6. QED
    BY <2>3, <2>4, <2>5
<1>15. CallInv'
  <2> SUFFICES ASSUME NEW u \in Thread, call'[u] # Idle
               PROVE  /\ transaction[ConnOf[u]][call'[u].oid] # 0
                      /\ call'[u].floor <= definition[RemoteOf(call'[u].oid)][call'[u].key].version
                      /\ Resolving(u)' <=> call'[u].slot # Null
    BY <1>1 DEF CallInv, Newest, RemoteOf
  <2>1. u # t /\ call[u] # Idle
    BY <1>9
  <2>2. QED
    BY <1>9, <1>12, <2>1 DEF IInv, CallInv, Newest
<1>16. KeepsOn /\ SameRemotes
  <2>1. \A u \in Thread : Resolving(u) => u # t /\ call[u] # Idle
    BY <1>a, CallFacts DEF IInv
  <2>2. QED
    BY <1>9, <1>11, <1>12, <2>1 DEF KeepsOn, SameRemotes
<1>17. BoundsKept
  <2>1. ASSUME NEW i \in Cache, NEW l \in Key, NEW d \in Conn, NEW p \in Oid,
               tables'[i][l] # Null
        PROVE  /\ transaction[d][p] = i => floor'[d][p][l] <= floor[d][p][l]
               /\ \A a \in Alias : caches[d][a].cache = i =>
                    cleared'[d][p][l] <= cleared[d][p][l]
    <3>1. floor[d][p][l] \in Nat /\ cleared[d][p][l] \in Nat
      BY DEF IInv, TypeOK
    <3>2. i \notin which
      BY <1>5, <1>8, <2>1
    <3>3. ASSUME transaction[d][p] = i PROVE floor'[d][p][l] <= floor[d][p][l]
      <4>1. ~(d = c /\ p = o)
        BY <1>7, <3>2, <3>3
      <4>2. floor'[d][p][l] = floor[d][p][l]
        BY <1>3, <4>1
      <4>3. QED
        BY <3>1, <4>2
    <3>4. ASSUME NEW a \in Alias, caches[d][a].cache = i
          PROVE  cleared'[d][p][l] <= cleared[d][p][l]
      <4>1. d # c
        BY <1>7, <3>2, <3>4
      <4>2. cleared'[d][p][l] = cleared[d][p][l]
        BY <1>3, <4>1
      <4>3. QED
        BY <3>1, <4>2
    <3>5. QED
      BY <3>3, <3>4
  <2>2. transaction' = transaction /\ caches' = caches
    BY <1>1
  <2>3. QED
    BY <2>1, <2>2 DEF BoundsKept
<1>18. \A i \in Cache, l \in Key, d \in Conn, p \in Oid :
         tables'[i][l] # Null /\ Uses(i, d, p)' => Uses(i, d, p)
  BY <1>11
<1>19. /\ SlotInv' /\ ValueInv'
       /\ \A u \in Thread : call'[u].step = "load" =>
            load_lock'[call'[u].slot] = u /\ value'[call'[u].slot] = Null
  BY <1>1, <1>5, <1>10, <1>15, <1>16, <1>17, <1>18, ClearFrame
<1>20. LoadInv'
  <2>1. ASSUME NEW d \in Conn, NEW p \in Oid
        PROVE  Keeps(tb, d, p) \/ transaction[d][p] = 0 \/ Forgets(d, p)
    <3>1. CASE d = c
      <4>1. \A u \in Thread : ConnOf[u] = c /\ Resolving(u)' => ~call'[u].current
        BY <1>a, <1>9, <1>12, CallFacts DEF IInv
      <4>2. QED
        BY <1>4, <3>1, <4>1 DEF Forgets
    <3>2. CASE d # c /\ transaction[d][p] # 0
      <4>1. Uses(transaction[d][p], d, p) /\ transaction[d][p] \in Cache
        BY <3>2 DEF Uses, IInv, TypeOK
      <4>2. QED
        BY <1>1, <1>5, <1>6, <3>2, <4>1 DEF Keeps
    <3>3. QED
      BY <3>1, <3>2
  <2>2. \A d \in Conn, p \in Oid, l \in Key : fetched'[d][p][l] \in {fetched[d][p][l], 0}
    BY <1>4
  <2>3. QED
    BY <1>1, <1>5, <1>10, <1>16, <1>19, <2>1, <2>2, LoadFrame
<1>21. Fresh'
  <2> SUFFICES ASSUME NEW u \in Thread, call'[u].step = "answered", call'[u].got # Null
               PROVE  /\ call'[u].got.remote = RemoteOf(call'[u].oid)
                      /\ call'[u].got.version >= call'[u].floor
    BY <1>1 DEF Fresh, RemoteOf
  <2>1. u # t /\ call[u] # Idle
    BY <1>9 DEF Idle
  <2>2. QED
    BY <1>9, <2>1 DEF IInv, Fresh
<1>22. QED
  BY <1>10, <1>13, <1>14, <1>15, <1>19, <1>20, <1>21 DEF IInv

-----------------------------------------------------------------------------
(* The invariant *)

LEMMA InitIInv == Init => IInv
<1> SUFFICES ASSUME Init PROVE IInv
  OBVIOUS
<1>1. TypeOK
  BY DEF Init, TypeOK, NoCaches, NoSlots, NoFetch, Cache, Oid, Idle
<1>2. /\ \A t \in Thread : call[t] = Idle /\ ~Resolving(t) /\ call[t].step = "idle"
      /\ \A i \in Cache, k \in Key : tables[i][k] = Null
      /\ \A s \in Slot : value[s] = Null
      /\ \A i \in Cache, c \in Conn, o \in Oid : ~Uses(i, c, o)
      /\ Known = {}
  BY DEF Init, Resolving, Idle, NoSlots, NoCaches, Uses, Known, Cache
<1>3. OwnerInv
  BY <1>2 DEF Init, OwnerInv, NoCaches
<1>4. BoundInv
  BY <1>2 DEF Init, BoundInv
<1>5. CallInv /\ SlotInv /\ Fresh
  BY <1>2 DEF CallInv, SlotInv, Fresh
<1>6. ValueInv
  BY <1>2 DEF ValueInv, Fits, HasOrGets
<1>7. LoadInv
  BY <1>2 DEF LoadInv, Init, NoFetch
<1>8. QED
  BY <1>1, <1>3, <1>4, <1>5, <1>6, <1>7 DEF IInv

LEMMA StutterIInv == IInv /\ UNCHANGED vars => IInv'
<1> SUFFICES ASSUME IInv, UNCHANGED vars PROVE IInv'
  OBVIOUS
<1>1. UNCHANGED <<definition, attached, attachment, scope, transaction, caches, next_id, tables,
                  value, load_lock, call, floor, cleared, fetched>>
  BY DEF vars, cacheVars
<1>2. TypeOK'
  BY <1>1 DEF IInv, TypeOK
<1>3. /\ \A i, d, o : Uses(i, d, o)' = Uses(i, d, o)
      /\ \A o : RemoteOf(o)' = RemoteOf(o)
      /\ \A o, k : Newest(o, k)' = Newest(o, k)
      /\ Known' = Known
      /\ \A t : Resolving(t)' = Resolving(t)
      /\ \A r, d : HasOrGets(r, d)' = HasOrGets(r, d)
  BY <1>1 DEF Uses, RemoteOf, Newest, Known, Resolving, HasOrGets
<1>4. OwnerInv' /\ BoundInv' /\ CallInv' /\ SlotInv'
  BY <1>1, <1>3 DEF IInv, OwnerInv, BoundInv, CallInv, SlotInv, Newest, RemoteOf, Resolving
<1>5. LoadInv' /\ Fresh'
  BY <1>1, <1>3 DEF IInv, LoadInv, Fresh
<1>6. ValueInv'
  BY <1>1, <1>3 DEF IInv, ValueInv, Fits
<1>7. QED
  BY <1>2, <1>4, <1>5, <1>6 DEF IInv

LEMMA NextIInv == IInv /\ Next => IInv'
<1> SUFFICES ASSUME IInv, Next PROVE IInv'
  OBVIOUS
<1>1. CASE Settings
  BY <1>1, ChangeElsewhereIInv, SetScopeIInv, AttachIInv, DetachIInv DEF Settings
<1>2. CASE Transactions
  BY <1>2, StartTransactionIInv, EndTransactionIInv DEF Transactions
<1>3. CASE Lookups
  BY <1>3, ReferenceIInv, HitIInv, LoadIInv, StoreIInv, LoadFailsIInv, ReturnIInv DEF Lookups
<1>4. CASE Writes
  BY <1>4, WriteIInv, InvalidateIInv DEF Writes
<1>5. QED
  BY <1>1, <1>2, <1>3, <1>4 DEF Next

\* IInv is inductive: the cache keeps it through every step.
THEOREM Invariance == Spec => []IInv
<1>1. Init => IInv
  BY InitIInv
<1>2. IInv /\ [Next]_vars => IInv'
  BY NextIInv, StutterIInv
<1>3. QED
  BY <1>1, <1>2, PTL DEF Spec

\* Every variable has its type.
THEOREM TypeCorrectness == Spec => []TypeOK
<1>1. IInv => TypeOK
  BY DEF IInv
<1>2. QED
  BY <1>1, Invariance, PTL

\* No lookup answers with a definition older than its transaction, its connection's own
\* writes, rollbacks and the ATTACH require, or with one of another Glue catalog: what
\* GlueTransactionCache::Invalidate, the attach_oid that GetCache compares and
\* TransactionRollback are for.
THEOREM Freshness == Spec => []Fresh
<1>1. IInv => Fresh
  BY DEF IInv
<1>2. QED
  BY <1>1, Invariance, PTL

\* Within a transaction Glue is asked once for a definition it has, until the connection
\* writes: GlueTransactionCache::Resolve holds the slot's load_lock across the request.
THEOREM SingleFetch == Spec => []FetchedOnce
<1>1. IInv => FetchedOnce
  <2> SUFFICES ASSUME IInv, NEW c \in Conn, NEW o \in Oid, NEW k \in Key
               PROVE  fetched[c][o][k] <= 1
    BY DEF FetchedOnce
  <2>1. fetched[c][o][k] = 0 \/ fetched[c][o][k] = 1
    BY DEF IInv, LoadInv
  <2>2. QED
    BY <2>1
<1>2. QED
  BY <1>1, Invariance, PTL

=============================================================================
