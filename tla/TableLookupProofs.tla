------------------------- MODULE TableLookupProofs -------------------------
(***************************************************************************)
(* The properties of TableLookup for any number of threads, connections,   *)
(* tables and versions.                                                    *)
(*                                                                         *)
(* TableLookup drives the cache of MetadataCache, whose invariant IInv is  *)
(* kept also by the pages that fill it: a page fits (PageInv) because no   *)
(* other thread of the connection writes while one of them has it          *)
(* (ExclusiveInv).  What a transaction has been given is still what its    *)
(* cache has (GivenInv), so it is fresh and the same each time.            *)
(***************************************************************************)
EXTENDS TableLookup, MetadataCacheProofs, FiniteSetTheorems

Warming(t) == lookup[t].step \in {"warm", "scan"}
Writing(t) == lookup[t].step \in {"write", "written", "install"}

\* What a thread does in the set goes with what it does in the cache.
LinkOf(t) ==
  /\ lookup[t].step = "write" <=> call[t].step = "write"
  /\ call[t].step = "resolve" => Warming(t) \/ lookup[t].step = "wait"
  /\ call[t].step \in {"load", "answered"} => lookup[t].step = "wait"
  /\ lookup[t].step = "wait" => call[t] # Idle /\ call[t].key = lookup[t].key
  /\ call[t] # Idle => call[t].oid = This
  /\ Warming(t) /\ call[t] # Idle => call[t].key \in lookup[t].todo
  /\ lookup[t] # NoLookup => CacheOf(t) # 0

LinkInv == \A t \in Thread : LinkOf(t)

\* A thread that writes is alone on its connection.
ExclusiveInv ==
  \A t, u \in Thread : t # u /\ ConnOf[t] = ConnOf[u] /\ Writing(t) => lookup[u] = NoLookup

\* A page is of this catalog, and not older than the cache it goes to may hold; nor do
\* the lookups that wait for a slot expect more than the cache does.
PageFits(t) ==
  /\ Warming(t) => \A k \in Key :
       /\ k \in lookup[t].todo => lookup[t].page[k] # Null
       /\ lookup[t].page[k] # Null =>
            /\ lookup[t].page[k].remote = RemoteOf(This)
            /\ lookup[t].page[k].version >= floor[ConnOf[t]][This][k]
            /\ lookup[t].page[k].version >= cleared[ConnOf[t]][This][k]
  /\ Resolving(t) => call[t].floor <= floor[ConnOf[t]][This][call[t].key]

PageInv == \A t \in Thread : PageFits(t)

\* The cache of a transaction has definition d of key k.
Has(c, k, d) ==
  /\ transaction[c][This] # 0
  /\ tables[transaction[c][This]][k] # Null
  /\ value[tables[transaction[c][This]][k]] = d
  /\ d # Null

\* What a transaction has been given, or is about to be, since its connection wrote.
GivenInv ==
  /\ \A c \in Conn, k \in Key : \A d \in returned[c][k] : Has(c, k, d)
  /\ \A t \in Thread : call[t].step = "answered" /\ call[t].current /\ call[t].got # Null =>
       Has(ConnOf[t], call[t].key, call[t].got)

\* A lookup that paid for a request of its own is yet to be spent on a page.
CostInv == bulk_requests <= round_trips /\ (direct_lookups # 0 => bulk_requests < round_trips)

LInv == IInv /\ LookupTypeOK /\ LinkInv /\ ExclusiveInv /\ PageInv /\ GivenInv /\ CostInv

-----------------------------------------------------------------------------
(* Types *)

USE Bounds, ThreadsOfConnections, NullDistinct, UnlockedIsNoThread

LEMMA ThisKnown ==
  ASSUME IInv, NEW c \in Conn
  PROVE  /\ This \in Oid
         /\ transaction[c][This] # 0 => This \in Known /\ transaction[c][This] \in Cache
<1>1. 1 \in Oid
  BY CatalogAttached DEF Oid
<1>2. This \in Oid
  BY <1>1 DEF This
<1>3. QED
  BY <1>2 DEF IInv, TypeOK, OwnerInv

\* What a thread does in the set: nothing, or one of four things with their fields.
LEMMA LookupFacts ==
  ASSUME LookupTypeOK, NEW t \in Thread
  PROVE  /\ lookup[t] = NoLookup <=> lookup[t].step = "none"
         /\ lookup[t] # NoLookup => lookup[t] \in Lookup
         /\ lookup[t].step \in {"none", "warm", "ask", "wait", "scan", "write", "written", "install"}
         /\ lookup[t].step \in {"warm", "ask", "wait"} =>
              lookup[t] \in [step : {"warm", "ask", "wait"}, key : Key, cached : BOOLEAN,
                             asked : BOOLEAN, page : Page, todo : SUBSET Key]
         /\ lookup[t].step = "scan" =>
              lookup[t] \in [step : {"scan"}, page : Page, todo : SUBSET Key]
         /\ lookup[t].step \in {"write", "written"} =>
              lookup[t] \in [step : {"write", "written"}, key : Key, drop : BOOLEAN]
         /\ lookup[t].step = "install" =>
              lookup[t] \in [step : {"install"}, key : Key, entry : Definition]
<1>1. lookup[t] \in Lookup \cup {NoLookup}
  BY DEF LookupTypeOK
<1>2. CASE lookup[t] = NoLookup
  BY <1>2 DEF NoLookup
<1>3. CASE lookup[t] \in [step : {"warm", "ask", "wait"}, key : Key, cached : BOOLEAN,
                          asked : BOOLEAN, page : Page, todo : SUBSET Key]
  BY <1>3 DEF NoLookup, Lookup
<1>4. CASE lookup[t] \in [step : {"scan"}, page : Page, todo : SUBSET Key]
  BY <1>4 DEF NoLookup, Lookup
<1>5. CASE lookup[t] \in [step : {"write", "written"}, key : Key, drop : BOOLEAN]
  BY <1>5 DEF NoLookup, Lookup
<1>6. CASE lookup[t] \in [step : {"install"}, key : Key, entry : Definition]
  BY <1>6 DEF NoLookup, Lookup
<1>7. QED
  BY <1>1, <1>2, <1>3, <1>4, <1>5, <1>6 DEF Lookup

\* A page has what Glue answers.
LEMMA PageFacts ==
  ASSUME IInv, NEW ks \in SUBSET Key, NEW c \in Conn, transaction[c][This] # 0
  PROVE  /\ PageOf(ks) \in Page /\ Listed(ks) \in SUBSET Key
         /\ \A k \in Key :
              /\ k \in Listed(ks) => PageOf(ks)[k] # Null
              /\ PageOf(ks)[k] # Null =>
                   /\ PageOf(ks)[k].remote = RemoteOf(This)
                   /\ PageOf(ks)[k].version >= floor[c][This][k]
                   /\ PageOf(ks)[k].version >= cleared[c][This][k]
<1>1. This \in Known /\ This \in Oid
  BY ThisKnown
<1>2. \A k \in Key : /\ Answer(This, k) \in Definition \cup {Null}
                     /\ Answer(This, k) # Null =>
                          /\ Answer(This, k).remote = RemoteOf(This)
                          /\ Answer(This, k).version = Newest(This, k)
  BY <1>1, AnswerFacts
<1>3. PageOf(ks) \in Page /\ Listed(ks) \in SUBSET Key
  BY <1>2 DEF PageOf, Page, Listed
<1>4. ASSUME NEW k \in Key
      PROVE  /\ k \in Listed(ks) => PageOf(ks)[k] # Null
             /\ PageOf(ks)[k] # Null => PageOf(ks)[k] = Answer(This, k)
  BY <1>4 DEF PageOf, Listed
<1>5. ASSUME NEW k \in Key, PageOf(ks)[k] # Null
      PROVE  /\ PageOf(ks)[k].remote = RemoteOf(This)
             /\ PageOf(ks)[k].version >= floor[c][This][k]
             /\ PageOf(ks)[k].version >= cleared[c][This][k]
  <2>1. PageOf(ks)[k].remote = RemoteOf(This) /\ PageOf(ks)[k].version = Newest(This, k)
    BY <1>2, <1>4, <1>5
  <2>2. floor[c][This][k] <= Newest(This, k) /\ cleared[c][This][k] <= Newest(This, k)
    BY <1>1 DEF IInv, BoundInv
  <2>3. /\ floor[c][This][k] \in Nat /\ cleared[c][This][k] \in Nat
        /\ PageOf(ks)[k].version \in Nat
    BY <1>1, <1>2, <1>4, <1>5 DEF IInv, TypeOK, Definition
  <2>4. QED
    BY <2>1, <2>2, <2>3
<1>6. QED
  BY <1>3, <1>4, <1>5

-----------------------------------------------------------------------------
(* What most steps leave as it was *)

\* Only the thread t does something.
Moves(t) == \A u \in Thread \ {t} : lookup'[u] = lookup[u] /\ call'[u] = call[u]

\* The other threads need no second look when t moves.
LEMMA MoveFrame ==
  ASSUME LInv, NEW t \in Thread, Moves(t), UNCHANGED <<attachment, transaction>>,
         \A u \in Thread \ {t} : Warming(u) \/ Resolving(u) =>
           /\ floor'[ConnOf[u]][This] = floor[ConnOf[u]][This]
           /\ cleared'[ConnOf[u]][This] = cleared[ConnOf[u]][This],
         LinkOf(t)', PageFits(t)',
         Writing(t)' => Writing(t) \/ \A u \in Others(t) : lookup[u] = NoLookup,
         lookup'[t] # NoLookup => lookup[t] # NoLookup \/ \A u \in Others(t) : ~Writing(u)
  PROVE  LinkInv' /\ ExclusiveInv' /\ PageInv'
<1>1. LinkInv'
  <2> SUFFICES ASSUME NEW u \in Thread, u # t PROVE LinkOf(u)'
    BY DEF LinkInv
  <2>1. LinkOf(u)
    BY DEF LInv, LinkInv
  <2>2. QED
    BY <2>1 DEF Moves, LinkOf, Warming, CacheOf
<1>2. ExclusiveInv'
  <2> SUFFICES ASSUME NEW u \in Thread, NEW w \in Thread, u # w, ConnOf[u] = ConnOf[w],
                      Writing(u)'
               PROVE  lookup'[w] = NoLookup
    BY DEF ExclusiveInv
  <2>1. CASE u = t
    <3>1. w \in Others(t) /\ lookup'[w] = lookup[w]
      BY <2>1 DEF Others, ThreadsOf, Moves
    <3>2. QED
      BY <2>1, <3>1 DEF LInv, ExclusiveInv
  <2>2. CASE w = t
    <3>1. u \in Others(t) /\ Writing(u)
      BY <2>2 DEF Others, ThreadsOf, Moves, Writing
    <3>2. lookup[t] = NoLookup
      BY <2>2, <3>1 DEF LInv, ExclusiveInv
    <3>3. QED
      BY <2>2, <3>1, <3>2
  <2>3. CASE u # t /\ w # t
    BY <2>3 DEF LInv, ExclusiveInv, Moves, Writing
  <2>4. QED
    BY <2>1, <2>2, <2>3
<1>3. PageInv'
  <2> SUFFICES ASSUME NEW u \in Thread, u # t PROVE PageFits(u)'
    BY DEF PageInv
  <2>1. /\ Warming(u)' = Warming(u) /\ Resolving(u)' = Resolving(u)
        /\ lookup'[u] = lookup[u] /\ call'[u] = call[u]
        /\ RemoteOf(This)' = RemoteOf(This)
    BY DEF Moves, Warming, Resolving, RemoteOf
  <2>2. PageFits(u)
    BY DEF LInv, PageInv
  <2>3. QED
    BY <2>1, <2>2 DEF PageFits
<1>4. QED
  BY <1>1, <1>2, <1>3

\* No thread needs one when none moves, and the transactions with a lookup go on.
LEMMA StayFrame ==
  ASSUME LInv, UNCHANGED <<lookup, call>>,
         \A u \in Thread : lookup[u] # NoLookup =>
           /\ RemoteOf(This)' = RemoteOf(This)
           /\ transaction'[ConnOf[u]][This] = transaction[ConnOf[u]][This]
           /\ floor'[ConnOf[u]][This] = floor[ConnOf[u]][This]
           /\ cleared'[ConnOf[u]][This] = cleared[ConnOf[u]][This]
  PROVE  LinkInv' /\ ExclusiveInv' /\ PageInv'
<1>1. \A u \in Thread : Warming(u)' = Warming(u) /\ Writing(u)' = Writing(u)
  BY DEF Warming, Writing
<1>2. \A u \in Thread : Resolving(u)' = Resolving(u)
  BY DEF Resolving
<1>3. LinkInv'
  <2> SUFFICES ASSUME NEW u \in Thread PROVE LinkOf(u)'
    BY DEF LinkInv
  <2>1. LinkOf(u)
    BY DEF LInv, LinkInv
  <2>2. QED
    BY <1>1, <2>1 DEF LinkOf, CacheOf
<1>4. ExclusiveInv'
  BY <1>1 DEF LInv, ExclusiveInv
<1>5. PageInv'
  <2> SUFFICES ASSUME NEW u \in Thread PROVE PageFits(u)'
    BY DEF PageInv
  <2>1. PageFits(u) /\ LinkOf(u)
    BY DEF LInv, PageInv, LinkInv
  <2>2. Warming(u) \/ Resolving(u) => lookup[u] # NoLookup
    BY <2>1 DEF LinkOf, Warming, Resolving, NoLookup
  <2>3. QED
    BY <1>1, <1>2, <2>1, <2>2 DEF PageFits
<1>6. QED
  BY <1>3, <1>4, <1>5

\* A cache that keeps its slots and their values has what it had.
LEMMA HasFrame ==
  ASSUME IInv, NEW c \in Conn, NEW tb \in Tables, NEW v \in Values, Settle(tb, v),
         transaction[c][This] # 0 => transaction'[c][This] = transaction[c][This],
         \A k \in Key : transaction[c][This] # 0 /\ tables[transaction[c][This]][k] # Null =>
           tb[transaction[c][This]][k] = tables[transaction[c][This]][k],
         \A s \in Slot : value[s] # Null => v[s] = value[s],
         NEW k \in Key, NEW d, Has(c, k, d)
  PROVE  Has(c, k, d)'
<1>1. /\ transaction[c][This] # 0 /\ transaction[c][This] \in Cache /\ This \in Oid
      /\ transaction'[c][This] = transaction[c][This]
  BY ThisKnown DEF Has
<1>2. PICK i \in Cache : i = transaction[c][This]
  BY <1>1
<1>3. /\ tables[i][k] \in Slot /\ value[tables[i][k]] = d /\ d # Null
      /\ tb[i][k] = tables[i][k]
  BY <1>2 DEF Has, IInv, TypeOK
<1>4. PICK s \in Slot : s = tables[i][k]
  BY <1>3
<1>5. tables'[i] = tb[i]
  BY <1>1, <1>2, SettleFacts
<1>6. tables'[i][k] = s
  BY <1>3, <1>4, <1>5
<1>7. value'[s] = v[s]
  BY <1>6, SettleFacts
<1>8. value'[s] = d
  BY <1>3, <1>4, <1>7
<1>9. s # Null
  OBVIOUS
<1>10. QED
  BY <1>1, <1>2, <1>3, <1>6, <1>8, <1>9 DEF Has

\* What was given stays given.
LEMMA GivenFrame ==
  ASSUME LInv, NEW t \in Thread, Moves(t),
         \A c \in Conn, k \in Key : \A d \in returned'[c][k] : Has(c, k, d)',
         call'[t].step = "answered" /\ call'[t].current /\ call'[t].got # Null =>
           Has(ConnOf[t], call[t].key, call[t].got)',
         \A u \in Thread \ {t}, k \in Key, d \in Definition :
           call[u].step = "answered" /\ Has(ConnOf[u], k, d) => Has(ConnOf[u], k, d)'
  PROVE  GivenInv'
<1>1. ASSUME NEW u \in Thread \ {t}, call'[u].step = "answered", call'[u].current,
             call'[u].got # Null
      PROVE  Has(ConnOf[u], call[u].key, call[u].got)'
  <2>1. call'[u] = call[u]
    BY DEF Moves
  <2>2. PICK k \in Key, d \in Definition : k = call[u].key /\ d = call[u].got
    BY <1>1, <2>1, CallFacts DEF LInv, IInv
  <2>3. Has(ConnOf[u], k, d)
    BY <1>1, <2>1, <2>2 DEF LInv, GivenInv
  <2>4. Has(ConnOf[u], k, d)'
    BY <1>1, <2>1, <2>3
  <2>5. k = call'[u].key /\ d = call'[u].got
    BY <2>1, <2>2
  <2>6. QED
    BY <2>4, <2>5
<1>2. QED
  BY <1>1 DEF GivenInv

\* A step of t that leaves the caches keeps LInv, ...
LEMMA SetFrame ==
  ASSUME LInv, NEW t \in Thread, Moves(t),
         UNCHANGED <<attachment, transaction, tables, value, floor, cleared>>,
         IInv', LookupTypeOK', CostInv', LinkOf(t)', PageFits(t)',
         Writing(t)' => Writing(t) \/ \A u \in Others(t) : lookup[u] = NoLookup,
         lookup'[t] # NoLookup => lookup[t] # NoLookup \/ \A u \in Others(t) : ~Writing(u),
         \A c \in Conn, k \in Key : \A d \in returned'[c][k] : Has(c, k, d),
         call'[t].step = "answered" => call'[t] = call[t]
  PROVE  LInv'
<1>1. LinkInv' /\ ExclusiveInv' /\ PageInv'
  BY MoveFrame
<1>2. \A c, k, d : Has(c, k, d) => Has(c, k, d)'
  BY DEF Has
<1>3. call'[t].step = "answered" /\ call'[t].current /\ call'[t].got # Null =>
        Has(ConnOf[t], call[t].key, call[t].got)'
  <2> SUFFICES ASSUME call'[t].step = "answered", call'[t].current, call'[t].got # Null
               PROVE  Has(ConnOf[t], call[t].key, call[t].got)'
    OBVIOUS
  <2>1. PICK k, d : k = call[t].key /\ d = call[t].got
    OBVIOUS
  <2>2. Has(ConnOf[t], k, d)'
    BY <1>2, <2>1 DEF LInv, GivenInv
  <2>3. QED
    BY <2>1, <2>2
<1>4. GivenInv'
  BY <1>2, <1>3, GivenFrame
<1>5. QED
  BY <1>1, <1>4 DEF LInv

\* ... and one that adds to the caches.
LEMMA CacheFrame ==
  ASSUME LInv, NEW t \in Thread, Moves(t), Steady, UNCHANGED returned,
         NEW tb \in Tables, NEW v \in Values, Settle(tb, v),
         \A i \in Cache, k \in Key : tables[i][k] # Null => tb[i][k] = tables[i][k],
         \A s \in Slot : value[s] # Null => v[s] = value[s],
         IInv', LookupTypeOK', CostInv', LinkOf(t)', PageFits(t)',
         Writing(t)' => Writing(t), lookup'[t] # NoLookup => lookup[t] # NoLookup,
         call'[t].step = "answered" /\ call'[t].current /\ call'[t].got # Null =>
           Has(ConnOf[t], call[t].key, call[t].got)'
  PROVE  LInv'
<1>1. LinkInv' /\ ExclusiveInv' /\ PageInv'
  BY MoveFrame DEF Steady
<1>2. ASSUME NEW c \in Conn, NEW k \in Key, NEW d, Has(c, k, d)
      PROVE  Has(c, k, d)'
  <2>1. transaction[c][This] # 0 => transaction'[c][This] = transaction[c][This]
    BY DEF Steady
  <2>2. \A l \in Key : transaction[c][This] # 0 /\ tables[transaction[c][This]][l] # Null =>
          tb[transaction[c][This]][l] = tables[transaction[c][This]][l]
    BY ThisKnown DEF LInv
  <2>3. QED
    BY <1>2, <2>1, <2>2, HasFrame DEF LInv
<1>3. \A c \in Conn, k \in Key : \A d \in returned'[c][k] : Has(c, k, d)'
  BY <1>2 DEF LInv, GivenInv
<1>4. \A u \in Thread \ {t}, k \in Key, d \in Definition :
        call[u].step = "answered" /\ Has(ConnOf[u], k, d) => Has(ConnOf[u], k, d)'
  BY <1>2
<1>5. GivenInv'
  BY <1>3, <1>4, GivenFrame
<1>6. QED
  BY <1>1, <1>5 DEF LInv

-----------------------------------------------------------------------------
(* GetEntry before it asks the cache, and Scan *)

\* A thread that is free may start something.
LEMMA FreeFacts ==
  ASSUME LInv, NEW t \in Thread, Free(t)
  PROVE  /\ lookup[t] = NoLookup /\ call[t] = Idle /\ call[t].step = "idle" /\ CacheOf(t) # 0
         /\ \A u \in Others(t) : ~Writing(u)
         /\ ConnOf[t] \in Conn /\ transaction[ConnOf[t]][This] # 0
BY DEF Free, Idle, CacheOf, Writing

\* It does so by itself.
LEMMA StartFrame ==
  ASSUME LInv, NEW t \in Thread, Free(t), UNCHANGED <<vars, returned>>,
         NEW l \in Lookup, lookup' = [lookup EXCEPT ![t] = l],
         LookupTypeOK', CostInv',
         l.step \in {"ask", "warm", "scan"},
         l.step # "ask" => \E ks \in SUBSET Key : l.page = PageOf(ks) /\ l.todo = Listed(ks)
  PROVE  LInv'
<1>1. /\ lookup[t] = NoLookup /\ call[t] = Idle /\ call[t].step = "idle" /\ CacheOf(t) # 0
      /\ \A u \in Others(t) : ~Writing(u)
      /\ ConnOf[t] \in Conn /\ transaction[ConnOf[t]][This] # 0
  BY FreeFacts
<1>2. lookup'[t] = l /\ \A u \in Thread \ {t} : lookup'[u] = lookup[u]
  BY DEF LInv, LookupTypeOK
<1>3. IInv'
  BY StutterIInv DEF LInv
<1>4. Moves(t) /\ call'[t] = Idle /\ call' = call
  BY <1>1, <1>2 DEF Moves, vars
<1>5. LinkOf(t)'
  BY <1>1, <1>2, <1>4 DEF LinkOf, Warming, Idle, CacheOf, vars, cacheVars
<1>6. PageFits(t)'
  <2>1. ~Resolving(t)'
    BY <1>1, <1>4 DEF Resolving
  <2>2. ASSUME l.step # "ask" PROVE PageFits(t)'
    <3>1. PICK ks \in SUBSET Key : l.page = PageOf(ks) /\ l.todo = Listed(ks)
      BY <2>2
    <3>2. \A k \in Key :
              /\ k \in Listed(ks) => PageOf(ks)[k] # Null
              /\ PageOf(ks)[k] # Null =>
                   /\ PageOf(ks)[k].remote = RemoteOf(This)
                   /\ PageOf(ks)[k].version >= floor[ConnOf[t]][This][k]
                   /\ PageOf(ks)[k].version >= cleared[ConnOf[t]][This][k]
      BY <1>1, PageFacts DEF LInv
    <3>3. \A k \in Key :
              /\ k \in l.todo => l.page[k] # Null
              /\ l.page[k] # Null =>
                   /\ l.page[k].remote = RemoteOf(This)
                   /\ l.page[k].version >= floor[ConnOf[t]][This][k]
                   /\ l.page[k].version >= cleared[ConnOf[t]][This][k]
      BY <3>1, <3>2
    <3>4. RemoteOf(This)' = RemoteOf(This) /\ floor' = floor /\ cleared' = cleared
      BY DEF vars, RemoteOf
    <3>5. QED
      BY <1>2, <2>1, <3>3, <3>4 DEF PageFits
  <2>3. l.step = "ask" => ~Warming(t)'
    BY <1>2 DEF Warming
  <2>4. QED
    BY <2>1, <2>2, <2>3 DEF PageFits
<1>7. ~Writing(t)'
  BY <1>2 DEF Writing
<1>8. /\ UNCHANGED <<attachment, transaction, tables, value, floor, cleared>>
      /\ \A c \in Conn, k \in Key : \A d \in returned'[c][k] : Has(c, k, d)
      /\ call'[t].step = "answered" => call'[t] = call[t]
  BY DEF vars, cacheVars, LInv, GivenInv
<1>9. QED
  BY <1>1, <1>3, <1>4, <1>5, <1>6, <1>7, <1>8, SetFrame

LEMMA AskingFacts ==
  ASSUME NEW k \in Key, NEW cached \in BOOLEAN
  PROVE  Asking(k, cached) \in Lookup /\ Asking(k, cached).step = "ask"
BY DEF Asking, Lookup, Page

LEMMA EnterLInv ==
  ASSUME LInv, NEW t \in Thread, NEW k \in Key, NEW batch \in BOOLEAN, Enter(t, k, batch)
  PROVE  LInv'
<1>1. PICK l : l = Asking(k, entries[k] # Null)
  OBVIOUS
<1>2. /\ Free(t) /\ UNCHANGED <<vars, setVars, returned>>
      /\ lookup' = [lookup EXCEPT ![t] = l]
  BY <1>1 DEF Enter, MayLookUp
<1>3. l \in Lookup /\ l.step = "ask"
  BY <1>1, AskingFacts
<1>4. LookupTypeOK'
  BY <1>2, <1>3 DEF LInv, LookupTypeOK, setVars, bulkVars
<1>5. CostInv'
  BY <1>2 DEF LInv, CostInv, setVars, bulkVars
<1>6. QED
  BY <1>2, <1>3, <1>4, <1>5, StartFrame

LEMMA BulkFailsLInv ==
  ASSUME LInv, NEW t \in Thread, NEW k \in Key, BulkFails(t, k)
  PROVE  LInv'
<1>1. /\ Free(t) /\ direct_lookups > 0 /\ bulk_requests' = bulk_requests + 1
      /\ direct_lookups' = 0 /\ UNCHANGED <<vars, entry_lock, entries, is_loaded,
                                            bulk_loaded_cache_id, round_trips, returned>>
  BY DEF BulkFails, MayLookUp, BulkPays, GiveUp
<1>2. \/ batch_forbidden' \in BOOLEAN /\ lookup' = [lookup EXCEPT ![t] = Asking(k, FALSE)]
      \/ UNCHANGED <<batch_forbidden, lookup>>
  BY DEF BulkFails
<1>3. CostInv' /\ bulk_requests' \in Nat
  BY <1>1 DEF LInv, CostInv, LookupTypeOK
<1>4. CASE batch_forbidden' \in BOOLEAN /\ lookup' = [lookup EXCEPT ![t] = Asking(k, FALSE)]
  <2>1. PICK l : l = Asking(k, FALSE)
    OBVIOUS
  <2>2. l \in Lookup /\ l.step = "ask" /\ lookup' = [lookup EXCEPT ![t] = l]
    BY <1>4, <2>1, AskingFacts
  <2>3. LookupTypeOK'
    BY <1>1, <1>3, <1>4, <2>2 DEF LInv, LookupTypeOK
  <2>4. QED
    BY <1>1, <1>3, <2>2, <2>3, StartFrame
<1>5. CASE UNCHANGED <<batch_forbidden, lookup>>
  <2>1. LookupTypeOK'
    BY <1>1, <1>3, <1>5 DEF LInv, LookupTypeOK
  <2>2. IInv'
    BY <1>1, StutterIInv DEF LInv
  <2>3. Moves(t) /\ lookup' = lookup /\ call' = call
    BY <1>1, <1>5 DEF Moves, vars
  <2>4. LinkInv' /\ ExclusiveInv' /\ PageInv'
    BY <1>1, <2>3, StayFrame DEF vars, cacheVars, RemoteOf
  <2>5. \A c, j, d : Has(c, j, d)' = Has(c, j, d)
    BY <1>1 DEF Has, vars, cacheVars
  <2>6. GivenInv'
    BY <1>1, <2>3, <2>5 DEF LInv, GivenInv
  <2>7. QED
    BY <1>3, <2>1, <2>2, <2>4, <2>6 DEF LInv
<1>6. QED
  BY <1>2, <1>4, <1>5

LEMMA BulkLoadLInv ==
  ASSUME LInv, NEW t \in Thread, NEW k \in Key, BulkLoad(t, k)
  PROVE  LInv'
<1>1. PICK l : l = [Asking(k, FALSE) EXCEPT !.step = "warm", !.page = PageOf(FirstPage),
                                            !.todo = Listed(FirstPage)]
  OBVIOUS
<1>2. /\ Free(t) /\ direct_lookups > 0 /\ bulk_requests' = bulk_requests + 1
      /\ direct_lookups' = 0 /\ entry_lock' = t /\ bulk_loaded_cache_id' = CacheOf(t)
      /\ UNCHANGED <<vars, entries, is_loaded, batch_forbidden, round_trips, returned>>
      /\ lookup' = [lookup EXCEPT ![t] = l]
  BY <1>1 DEF BulkLoad, MayLookUp, BulkPays
<1>3. CostInv' /\ bulk_requests' \in Nat
  BY <1>2 DEF LInv, CostInv, LookupTypeOK
<1>4. transaction[ConnOf[t]][This] # 0 /\ CacheOf(t) \in Cache
  BY <1>2, FreeFacts, ThisKnown DEF LInv, CacheOf
<1>5. PageOf(FirstPage) \in Page /\ Listed(FirstPage) \in SUBSET Key
  BY <1>4, PageFacts, FirstPageKeys DEF LInv
<1>6. l = [step |-> "warm", key |-> k, cached |-> FALSE, asked |-> FALSE,
           page |-> PageOf(FirstPage), todo |-> Listed(FirstPage)]
  BY <1>1 DEF Asking
<1>7. /\ l \in Lookup /\ l.step = "warm"
      /\ l.page = PageOf(FirstPage) /\ l.todo = Listed(FirstPage)
  BY <1>5, <1>6 DEF Lookup
<1>8. LookupTypeOK'
  BY <1>2, <1>3, <1>4, <1>7 DEF LInv, LookupTypeOK
<1>9. QED
  BY <1>2, <1>3, <1>7, <1>8, FirstPageKeys, StartFrame

LEMMA ScanLInv ==
  ASSUME LInv, NEW t \in Thread, Scan(t)
  PROVE  LInv'
<1>1. PICK l : l = [step |-> "scan", page |-> PageOf(Key), todo |-> Listed(Key)]
  OBVIOUS
<1>2. /\ Free(t) /\ entry_lock' = t
      /\ UNCHANGED <<vars, entries, is_loaded, bulkVars, round_trips, returned>>
      /\ lookup' = [lookup EXCEPT ![t] = l]
  BY <1>1 DEF Scan
<1>3. transaction[ConnOf[t]][This] # 0
  BY <1>2, FreeFacts
<1>4. PageOf(Key) \in Page /\ Listed(Key) \in SUBSET Key
  BY <1>3, PageFacts DEF LInv
<1>5. l \in Lookup /\ l.step = "scan" /\ l.page = PageOf(Key) /\ l.todo = Listed(Key)
  BY <1>1, <1>4 DEF Lookup
<1>6. LookupTypeOK'
  BY <1>2, <1>5 DEF LInv, LookupTypeOK, bulkVars
<1>7. CostInv'
  BY <1>2 DEF LInv, CostInv, bulkVars
<1>8. QED
  BY <1>2, <1>5, <1>6, <1>7, StartFrame

\* A step of a lookup under way that leaves the cache alone.
LEMMA GoOnFrame ==
  ASSUME LInv, NEW t \in Thread, lookup[t] # NoLookup, UNCHANGED <<vars, returned>>,
         ~Warming(t)', call[t] = Idle,
         NEW l \in Lookup \cup {NoLookup}, lookup' = [lookup EXCEPT ![t] = l],
         l.step \in {"none", "ask", "install"}, l.step = "install" => Writing(t),
         LookupTypeOK', CostInv'
  PROVE  LInv'
<1>1. lookup'[t] = l /\ \A u \in Thread \ {t} : lookup'[u] = lookup[u]
  BY DEF LInv, LookupTypeOK
<1>2. IInv'
  BY StutterIInv DEF LInv
<1>3. Moves(t) /\ call' = call /\ call'[t].step = "idle"
  BY <1>1 DEF Moves, vars, Idle
<1>4. LinkOf(t)'
  <2>1. CacheOf(t) # 0
    BY DEF LInv, LinkInv, LinkOf
  <2>2. QED
    BY <1>1, <1>3, <2>1 DEF LinkOf, CacheOf, Idle, vars, cacheVars
<1>5. PageFits(t)'
  <2>1. ~Resolving(t)'
    BY <1>3 DEF Resolving
  <2>2. QED
    BY <2>1 DEF PageFits
<1>6. Writing(t)' => Writing(t)
  BY <1>1 DEF Writing
<1>7. /\ UNCHANGED <<attachment, transaction, tables, value, floor, cleared>>
      /\ \A c \in Conn, k \in Key : \A d \in returned'[c][k] : Has(c, k, d)
      /\ call'[t].step = "answered" => call'[t] = call[t]
  BY DEF vars, cacheVars, LInv, GivenInv
<1>8. QED
  BY <1>2, <1>3, <1>4, <1>5, <1>6, <1>7, SetFrame

LEMMA WarmDoneLInv ==
  ASSUME LInv, NEW t \in Thread, WarmDone(t)
  PROVE  LInv'
<1>1. /\ lookup[t].step \in {"warm", "scan"} /\ call[t] = Idle /\ entry_lock' = Unlocked
      /\ UNCHANGED <<vars, entries, bulkVars, round_trips, returned>>
  BY DEF WarmDone
<1>2. CostInv'
  BY <1>1 DEF LInv, CostInv, bulkVars
<1>3. lookup[t] # NoLookup
  BY <1>1 DEF NoLookup
<1>4. CASE lookup[t].step = "scan"
  <2>1. lookup' = [lookup EXCEPT ![t] = NoLookup] /\ is_loaded' = TRUE
    BY <1>4 DEF WarmDone
  <2>2. LookupTypeOK'
    BY <1>1, <2>1 DEF LInv, LookupTypeOK, bulkVars
  <2>3. ~Warming(t)'
    BY <2>1 DEF LInv, LookupTypeOK, Warming, NoLookup
  <2>4. NoLookup.step = "none"
    BY DEF NoLookup
  <2>5. QED
    BY <1>1, <1>2, <1>3, <2>1, <2>2, <2>3, <2>4, GoOnFrame
<1>5. CASE lookup[t].step = "warm"
  <2>1. PICK l : l = [lookup[t] EXCEPT !.step = "ask"]
    OBVIOUS
  <2>2. lookup' = [lookup EXCEPT ![t] = l] /\ UNCHANGED is_loaded
    BY <1>5, <2>1 DEF WarmDone
  <2>3. l \in Lookup /\ l.step = "ask"
    BY <1>5, <2>1, LookupFacts DEF LInv, Lookup
  <2>4. LookupTypeOK'
    BY <1>1, <2>2, <2>3 DEF LInv, LookupTypeOK, bulkVars
  <2>5. ~Warming(t)'
    BY <2>2, <2>3 DEF LInv, LookupTypeOK, Warming
  <2>6. QED
    BY <1>1, <1>2, <1>3, <2>2, <2>3, <2>4, <2>5, GoOnFrame
<1>6. QED
  BY <1>1, <1>4, <1>5

-----------------------------------------------------------------------------
(* The entry of a table that was written *)

LEMMA WrittenIdle ==
  ASSUME LInv, NEW t \in Thread, lookup[t].step \in {"written", "install"}
  PROVE  call[t] = Idle /\ lookup[t] # NoLookup /\ Writing(t)
<1>1. LinkOf(t) /\ lookup[t] # NoLookup
  BY DEF LInv, LinkInv, NoLookup
<1>2. call[t].step \notin Step
  BY <1>1 DEF LinkOf, Warming, Step
<1>3. QED
  BY <1>1, <1>2, CallFacts DEF LInv, IInv, Writing

LEMMA RefetchLInv ==
  ASSUME LInv, NEW t \in Thread, Refetch(t)
  PROVE  LInv'
<1>1. PICK d : d = Answer(This, lookup[t].key)
  OBVIOUS
<1>2. PICK l : l = IF d = Null THEN NoLookup
                   ELSE [step |-> "install", key |-> lookup[t].key, entry |-> d]
  OBVIOUS
<1>3. /\ lookup[t].step = "written" /\ lookup' = [lookup EXCEPT ![t] = l]
      /\ UNCHANGED <<vars, setVars, returned>>
  BY <1>1, <1>2 DEF Refetch
<1>4. call[t] = Idle /\ lookup[t] # NoLookup /\ Writing(t) /\ lookup[t].key \in Key
  BY <1>3, WrittenIdle, LookupFacts DEF LInv
<1>5. transaction[ConnOf[t]][This] # 0 /\ ConnOf[t] \in Conn
  BY <1>4 DEF LInv, LinkInv, LinkOf, CacheOf
<1>6. d \in Definition \cup {Null}
  BY <1>1, <1>4, <1>5, ThisKnown, AnswerFacts DEF LInv
<1>7. l \in Lookup \cup {NoLookup} /\ l.step \in {"none", "install"}
  BY <1>2, <1>4, <1>6 DEF Lookup, NoLookup
<1>8. LookupTypeOK'
  BY <1>3, <1>7 DEF LInv, LookupTypeOK, setVars, bulkVars
<1>9. ~Warming(t)'
  BY <1>3, <1>7 DEF LInv, LookupTypeOK, Warming
<1>10. CostInv'
  BY <1>3 DEF LInv, CostInv, setVars, bulkVars
<1>11. UNCHANGED <<vars, returned>>
  BY <1>3
<1>12. QED
  BY <1>3, <1>4, <1>7, <1>8, <1>9, <1>10, <1>11, GoOnFrame

LEMMA InstallLInv ==
  ASSUME LInv, NEW t \in Thread, CreateEntry(t) \/ RemoveEntry(t)
  PROVE  LInv'
<1>1. /\ lookup[t].step \in {"written", "install"}
      /\ lookup' = [lookup EXCEPT ![t] = NoLookup]
      /\ UNCHANGED <<vars, entry_lock, is_loaded, bulkVars, round_trips, returned>>
  BY DEF CreateEntry, RemoveEntry
<1>2. call[t] = Idle /\ lookup[t] # NoLookup
  BY <1>1, WrittenIdle
<1>3. entries' \in [Key -> Definition \cup {Null}]
  BY LookupFacts DEF CreateEntry, RemoveEntry, LInv, LookupTypeOK
<1>4. LookupTypeOK'
  BY <1>1, <1>3 DEF LInv, LookupTypeOK, bulkVars
<1>5. ~Warming(t)' /\ NoLookup.step = "none"
  BY <1>1 DEF LInv, LookupTypeOK, Warming, NoLookup
<1>6. CostInv'
  BY <1>1 DEF LInv, CostInv, bulkVars
<1>7. UNCHANGED <<vars, returned>>
  BY <1>1
<1>8. QED
  BY <1>1, <1>2, <1>4, <1>5, <1>6, <1>7, GoOnFrame

-----------------------------------------------------------------------------
(* Filling the cache *)

\* The slot in the map, or a new one.
LEMMA ReferenceFacts ==
  ASSUME IInv, NEW t \in Thread, NEW k \in Key, Reference(t, This, k)
  PROVE  /\ Steady /\ Goes(t) /\ call[t] = Idle
         /\ call'[t].step = "resolve" /\ call'[t].oid = This /\ call'[t].key = k
         /\ call'[t].floor = floor[ConnOf[t]][This][k] /\ call'[t] # Idle
         /\ \E tb \in Tables, v \in Values :
              /\ Settle(tb, v)
              /\ \A i \in Cache, l \in Key : tables[i][l] # Null => tb[i][l] = tables[i][l]
              /\ \A s \in Slot : value[s] # Null => v[s] = value[s]
<1> DEFINE c == ConnOf[t]
           i == transaction[c][This]
<1>1. PICK s \in IF tables[i][k] # Null THEN {tables[i][k]} ELSE NewSlot :
        /\ call' = [call EXCEPT ![t] =
             [step |-> "resolve", oid |-> This, key |-> k, slot |-> s, got |-> Null,
              floor |-> floor[c][This][k], current |-> TRUE]]
        /\ Settle([tables EXCEPT ![i][k] = s], value)
  BY DEF Reference
<1>2. call[t] = Idle /\ i # 0 /\ Steady /\ c \in Conn
  BY DEF Reference, Steady
<1>3. i \in Cache
  BY <1>2, ThisKnown
<1>4. s \in Slot /\ (tables[i][k] # Null => s = tables[i][k])
  BY <1>1, <1>3, NewSlotFacts DEF IInv, TypeOK
<1>5. PICK n \in Cache : n = i
  BY <1>3
<1>6. PICK tb : tb = [tables EXCEPT ![n][k] = s]
  OBVIOUS
<1>7. PICK z : z = [step |-> "resolve", oid |-> This, key |-> k, slot |-> s, got |-> Null,
                    floor |-> floor[c][This][k], current |-> TRUE]
  OBVIOUS
<1>8. call' = [call EXCEPT ![t] = z] /\ Settle(tb, value)
  BY <1>1, <1>5, <1>6, <1>7
<1> HIDE DEF i, c
<1>9. tb \in Tables /\ value \in Values
  BY <1>4, <1>6 DEF IInv, TypeOK, Tables, Values
<1>10. \A j \in Cache, l \in Key : tables[j][l] # Null => tb[j][l] = tables[j][l]
  BY <1>4, <1>5, <1>6 DEF IInv, TypeOK
<1>11. call'[t] = z /\ \A u \in Thread \ {t} : call'[u] = call[u]
  BY <1>8 DEF IInv, TypeOK
<1>12. z # Idle /\ z.floor = floor[ConnOf[t]][This][k]
  BY <1>7 DEF Idle, c
<1>13. QED
  BY <1>2, <1>7, <1>8, <1>9, <1>10, <1>11, <1>12 DEF Goes

LEMMA WarmFindLInv ==
  ASSUME LInv, NEW t \in Thread, WarmFind(t)
  PROVE  LInv'
<1>1. /\ lookup[t].step \in {"warm", "scan"} /\ lookup[t] # NoLookup
      /\ UNCHANGED <<setVars, lookup, returned>>
  BY DEF WarmFind, NoLookup
<1>2. PICK k \in lookup[t].todo : Reference(t, This, k)
  BY DEF WarmFind
<1>3. k \in Key
  BY <1>1, LookupFacts DEF LInv
<1>4. /\ Steady /\ Goes(t) /\ call[t] = Idle
      /\ call'[t].step = "resolve" /\ call'[t].oid = This /\ call'[t].key = k
      /\ call'[t].floor = floor[ConnOf[t]][This][k] /\ call'[t] # Idle
  BY <1>2, <1>3, ReferenceFacts DEF LInv
<1>5. PICK tb \in Tables, v \in Values :
        /\ Settle(tb, v)
        /\ \A i \in Cache, l \in Key : tables[i][l] # Null => tb[i][l] = tables[i][l]
        /\ \A s \in Slot : value[s] # Null => v[s] = value[s]
  BY <1>2, <1>3, ReferenceFacts DEF LInv
<1>6. This \in Oid
  BY ThisKnown DEF LInv
<1>7. IInv'
  BY <1>2, <1>3, <1>6, ReferenceIInv DEF LInv
<1>8. Moves(t) /\ lookup'[t] = lookup[t] /\ UNCHANGED returned
  BY <1>1, <1>4 DEF Moves, Goes
<1>9. LookupTypeOK' /\ CostInv'
  BY <1>1 DEF LInv, LookupTypeOK, CostInv, setVars, bulkVars
<1>10. LinkOf(t)'
  <2>1. CacheOf(t)' = CacheOf(t) /\ CacheOf(t) # 0
    BY <1>1, <1>4 DEF LInv, LinkInv, LinkOf, CacheOf, Steady
  <2>2. QED
    BY <1>1, <1>2, <1>4, <1>8, <2>1 DEF LinkOf, Warming
<1>11. PageFits(t)'
  <2>1. /\ floor' = floor /\ cleared' = cleared /\ RemoteOf(This)' = RemoteOf(This)
        /\ floor[ConnOf[t]][This][k] \in Nat
    BY <1>3, <1>4, <1>6 DEF Steady, RemoteOf, LInv, IInv, TypeOK
  <2>2. PageFits(t) /\ Warming(t)' = Warming(t)
    BY <1>8 DEF LInv, PageInv, Warming
  <2>3. floor[ConnOf[t]][This][k] <= floor[ConnOf[t]][This][k]
    BY <2>1
  <2>4. call'[t].floor <= floor'[ConnOf[t]][This][call'[t].key]
    BY <1>4, <2>1, <2>3
  <2>5. QED
    BY <1>8, <2>1, <2>2, <2>4 DEF PageFits
<1>12. Writing(t)' = Writing(t) /\ call'[t].step # "answered"
  BY <1>4, <1>8 DEF Writing
<1>13. QED
  BY <1>1, <1>4, <1>5, <1>7, <1>8, <1>9, <1>10, <1>11, <1>12, CacheFrame

\* What a page has of a table fits the slot that is to be filled from it.
LEMMA PageFitsSlot ==
  ASSUME LInv, NEW t \in Thread, lookup[t].step \in {"warm", "scan"}, call[t].step = "resolve"
  PROVE  /\ Resolving(t) /\ call[t].slot \in Slot /\ call[t].key \in Key /\ call[t].oid = This
         /\ call[t].key \in lookup[t].todo
         /\ lookup[t].page[call[t].key] \in Definition
         /\ lookup[t].page[call[t].key] # Null
         /\ Fits(call[t].slot, lookup[t].page[call[t].key])
<1>1. /\ Resolving(t) /\ call[t] # Idle /\ Warming(t) /\ call[t].slot \in Slot
      /\ ConnOf[t] \in Conn
  BY CallFacts DEF Resolving, Idle, Warming, LInv, IInv, CallInv
<1>2. call[t].oid = This /\ call[t].key \in lookup[t].todo /\ This \in Oid
  BY <1>1, ThisKnown DEF LInv, LinkInv, LinkOf
<1>3. lookup[t].page \in Page /\ lookup[t].todo \in SUBSET Key
  BY <1>1, LookupFacts DEF LInv
<1>4. PICK s \in Slot, k \in Key, c \in Conn, d \in Definition \cup {Null} :
        s = call[t].slot /\ k = call[t].key /\ c = ConnOf[t] /\ d = lookup[t].page[k]
  BY <1>1, <1>2, <1>3 DEF Page
<1>5. /\ d # Null /\ d.remote = RemoteOf(This)
      /\ d.version >= floor[c][This][k] /\ d.version >= cleared[c][This][k]
  BY <1>1, <1>2, <1>4 DEF LInv, PageInv, PageFits
<1>6. d \in Definition /\ d.version \in Nat /\ floor[c][This][k] \in Nat
  BY <1>2, <1>5 DEF Definition, LInv, IInv, TypeOK
<1>7. ASSUME NEW u \in Thread, Resolving(u), call[u].slot = s
      PROVE  d.remote = RemoteOf(call[u].oid) /\ d.version >= call[u].floor
  <2>1. ConnOf[u] = c /\ call[u].oid = This /\ call[u].key = k
    BY <1>1, <1>2, <1>4, <1>7 DEF LInv, IInv, SlotInv
  <2>2. call[u].floor <= floor[c][This][k]
    BY <1>7, <2>1 DEF LInv, PageInv, PageFits
  <2>3. call[u].floor \in Nat
    BY <1>7, CallFacts DEF LInv, IInv
  <2>4. d.version >= call[u].floor
    BY <1>5, <1>6, <2>2, <2>3
  <2>5. QED
    BY <1>5, <2>1, <2>4
<1>8. ASSUME NEW i \in Cache, NEW l \in Key, NEW e \in Conn, NEW o \in Oid,
             tables[i][l] = s, Uses(i, e, o)
      PROVE  l = k /\ e = c /\ o = This
  BY <1>1, <1>2, <1>4, <1>8 DEF LInv, IInv, SlotInv
<1>9. Fits(s, d)
  BY <1>5, <1>7, <1>8 DEF Fits
<1>10. QED
  BY <1>1, <1>2, <1>4, <1>5, <1>6, <1>9

LEMMA WarmResolveLInv ==
  ASSUME LInv, NEW t \in Thread, WarmResolve(t)
  PROVE  LInv'
<1>1. lookup[t].step \in {"warm", "scan"} /\ call[t].step = "resolve" /\ lookup[t] # NoLookup
  BY DEF WarmResolve, NoLookup
<1>2. PICK s \in Slot, k \in Key, d \in Definition :
        /\ s = call[t].slot /\ k = call[t].key /\ d = lookup[t].page[k]
        /\ d # Null /\ Fits(s, d) /\ k \in lookup[t].todo
  BY <1>1, PageFitsSlot
<1>3. Resolving(t) /\ call[t].oid = This
  BY <1>1, PageFitsSlot
<1>4. PICK v : v = IF value[s] = Null THEN [value EXCEPT ![s] = d] ELSE value
  OBVIOUS
<1>5. /\ load_lock[s] = Unlocked
      /\ call' = [call EXCEPT ![t] = Idle]
      /\ Steady /\ Settle(tables, v)
      /\ lookup' = [lookup EXCEPT ![t].todo = @ \ {k}]
      /\ entries' \in {entries, [entries EXCEPT ![k] = d]}
      /\ UNCHANGED <<load_lock, fetched, entry_lock, is_loaded, bulkVars, round_trips, returned>>
  BY <1>2, <1>4 DEF WarmResolve, Steady
<1>6. v \in Values /\ tables \in Tables
  BY <1>4 DEF LInv, IInv, TypeOK, Values, Tables
<1>7. \A x \in Slot : value[x] # Null => v[x] = value[x]
  BY <1>4 DEF LInv, IInv, TypeOK
<1>8. /\ call' \in [Thread -> Call \cup {Idle}]
      /\ call'[t] = Idle /\ Goes(t) /\ ~Resolving(t)' /\ call'[t].step = "idle"
  BY <1>5 DEF LInv, IInv, TypeOK, Goes, Resolving, Idle
<1>9. TypeOK'
  <2>1. tables' \in Tables /\ value' \in Values
    BY <1>5, <1>6, SettleFacts
  <2>2. QED
    BY <1>5, <1>8, <2>1 DEF LInv, IInv, TypeOK, Steady, Tables, Values
<1>10. \A x \in Slot : v[x] # Null =>
         \/ v[x] = value[x]
         \/ call[t].step = "load" /\ x = call[t].slot /\ v[x] = call[t].got
         \/ load_lock[x] = Unlocked /\ Fits(x, v[x])
  BY <1>2, <1>4, <1>5 DEF LInv, IInv, TypeOK
<1>11. \A x \in Slot : v[x] = Null => value[x] = Null
  BY <1>7
<1>12. \A u \in Thread \ {t} : call[u].step = "load" =>
         load_lock'[call[u].slot] = load_lock[call[u].slot]
  BY <1>5
<1>13. /\ OwnerInv' /\ BoundInv' /\ SlotInv' /\ ValueInv'
       /\ \A u \in Thread : call'[u].step = "load" =>
            load_lock'[call'[u].slot] = u /\ value'[call'[u].slot] = Null
       /\ \A u \in Thread : Resolving(u)' /\ call'[u].current =>
            tables'[transaction'[ConnOf[u]][call'[u].oid]][call'[u].key] = call'[u].slot
       /\ \A i \in Cache, c \in Conn, o \in Oid : transaction[c][o] = i => tables'[i] = tables[i]
       /\ \A i \in Cache, l \in Key : tables'[i][l] \in Slot =>
            value'[tables'[i][l]] = v[tables'[i][l]]
  BY <1>3, <1>5, <1>6, <1>8, <1>9, <1>10, <1>11, <1>12, DoneFrame DEF LInv
<1>14. IInv'
  <2>1. CallInv'
    BY <1>5, <1>8, CallFrame DEF LInv
  <2>2. UNCHANGED <<fetched, transaction>>
    BY <1>5 DEF Steady
  <2>3. \A i \in Cache, l \in Key : tables'[i][l] \in Slot /\ value[tables'[i][l]] # Null =>
          value'[tables'[i][l]] # Null
    BY <1>7, <1>13
  <2>4. LoadInv'
    BY <1>13, <2>2, <2>3, FetchedFrame DEF LInv, LoadInv
  <2>5. Fresh'
    BY <1>5, <1>8 DEF LInv, IInv, Fresh, Goes, Steady, RemoteOf, Idle
  <2>6. QED
    BY <1>9, <1>13, <2>1, <2>4, <2>5 DEF IInv
<1>15. PICK l : l = [lookup[t] EXCEPT !.todo = @ \ {k}]
  OBVIOUS
<1>16. /\ lookup'[t] = l /\ \A u \in Thread \ {t} : lookup'[u] = lookup[u]
       /\ lookup' = [lookup EXCEPT ![t] = l]
  BY <1>5, <1>15 DEF LInv, LookupTypeOK
<1>17. /\ l \in Lookup /\ l.step = lookup[t].step /\ l.page = lookup[t].page
       /\ l.todo = lookup[t].todo \ {k}
  BY <1>1, <1>15, LookupFacts DEF LInv, Lookup
<1>18. LookupTypeOK'
  <2>1. entries' \in [Key -> Definition \cup {Null}]
    BY <1>5 DEF LInv, LookupTypeOK
  <2>2. QED
    BY <1>5, <1>16, <1>17, <2>1 DEF LInv, LookupTypeOK, bulkVars
<1>19. CostInv'
  BY <1>5 DEF LInv, CostInv, bulkVars
<1>20. Warming(t)' /\ Warming(t)
  BY <1>1, <1>16, <1>17 DEF Warming
<1>21. LinkOf(t)'
  <2>1. CacheOf(t)' = CacheOf(t) /\ CacheOf(t) # 0
    BY <1>1, <1>5 DEF LInv, LinkInv, LinkOf, CacheOf, Steady
  <2>2. lookup'[t].step \in {"warm", "scan"}
    BY <1>1, <1>16, <1>17
  <2>3. QED
    BY <1>8, <1>20, <2>1, <2>2 DEF LinkOf
<1>22. PageFits(t)'
  <2>1. floor' = floor /\ cleared' = cleared /\ RemoteOf(This)' = RemoteOf(This)
    BY <1>5 DEF Steady, RemoteOf
  <2>2. PageFits(t)
    BY DEF LInv, PageInv
  <2>3. QED
    BY <1>8, <1>16, <1>17, <1>20, <2>1, <2>2 DEF PageFits
<1>23. ~Writing(t)' /\ Moves(t) /\ UNCHANGED returned
  BY <1>1, <1>5, <1>8, <1>16, <1>17 DEF Writing, Moves, Goes
<1>24. QED
  BY <1>1, <1>5, <1>6, <1>7, <1>8, <1>14, <1>18, <1>19, <1>21, <1>22, <1>23, CacheFrame

-----------------------------------------------------------------------------
(* GetEntry when it asks the cache *)

\* What a lookup finds in its slot is what the cache has, unless its connection wrote.
LEMMA GotHas ==
  ASSUME IInv, NEW t \in Thread, Resolving(t), call[t].current, call[t].oid = This, Steady,
         NEW v \in Values, Settle(tables, v), NEW k \in Key, k = call[t].key,
         NEW d, d = v[call[t].slot], d # Null
  PROVE  Has(ConnOf[t], k, d)'
<1>1. /\ call[t] # Idle /\ call[t].slot \in Slot /\ ConnOf[t] \in Conn
      /\ transaction[ConnOf[t]][This] # 0
  BY CallFacts DEF IInv, CallInv
<1>2. PICK c \in Conn, s \in Slot, i \in Cache :
        c = ConnOf[t] /\ s = call[t].slot /\ i = transaction[c][This]
  BY <1>1, ThisKnown
<1>3. tables[i][k] = s
  BY <1>2 DEF IInv, LoadInv
<1>4. This \in Oid /\ transaction'[c][This] = i /\ i # 0
  BY <1>1, <1>2, ThisKnown DEF Steady
<1>5. tables \in Tables
  BY DEF IInv, TypeOK, Tables
<1>6. tables'[i] = tables[i]
  BY <1>4, <1>5, SettleFacts
<1>7. tables'[i][k] = s
  BY <1>3, <1>6
<1>8. value'[s] = d
  BY <1>2, <1>5, <1>7, SettleFacts
<1>9. s # Null
  OBVIOUS
<1>10. QED
  BY <1>2, <1>4, <1>7, <1>8, <1>9 DEF Has

LEMMA AskLInv ==
  ASSUME LInv, NEW t \in Thread, Ask(t)
  PROVE  LInv'
<1>1. PICK k \in Key : k = lookup[t].key
  BY LookupFacts DEF Ask, LInv
<1>2. PICK l : l = [lookup[t] EXCEPT !.step = "wait"]
  OBVIOUS
<1>3. /\ lookup[t].step = "ask" /\ lookup[t] # NoLookup /\ Reference(t, This, k)
      /\ lookup' = [lookup EXCEPT ![t] = l]
      /\ UNCHANGED <<setVars, returned>>
  BY <1>1, <1>2 DEF Ask, NoLookup
<1>4. l \in Lookup /\ l.step = "wait" /\ l.key = k
  BY <1>1, <1>2, <1>3, LookupFacts DEF LInv, Lookup
<1>5. /\ Steady /\ Goes(t) /\ call[t] = Idle
      /\ call'[t].step = "resolve" /\ call'[t].oid = This /\ call'[t].key = k
      /\ call'[t].floor = floor[ConnOf[t]][This][k] /\ call'[t] # Idle
  BY <1>3, ReferenceFacts DEF LInv
<1>6. PICK tb \in Tables, v \in Values :
        /\ Settle(tb, v)
        /\ \A i \in Cache, j \in Key : tables[i][j] # Null => tb[i][j] = tables[i][j]
        /\ \A s \in Slot : value[s] # Null => v[s] = value[s]
  BY <1>3, ReferenceFacts DEF LInv
<1>7. This \in Oid
  BY ThisKnown DEF LInv
<1>8. IInv'
  BY <1>3, <1>7, ReferenceIInv DEF LInv
<1>9. Moves(t) /\ lookup'[t] = l /\ UNCHANGED returned
  BY <1>3, <1>5 DEF Moves, Goes, LInv, LookupTypeOK
<1>10. LookupTypeOK' /\ CostInv'
  BY <1>3, <1>4 DEF LInv, LookupTypeOK, CostInv, setVars, bulkVars
<1>11. LinkOf(t)'
  <2>1. CacheOf(t)' = CacheOf(t) /\ CacheOf(t) # 0
    BY <1>3, <1>5 DEF LInv, LinkInv, LinkOf, CacheOf, Steady
  <2>2. QED
    BY <1>4, <1>5, <1>9, <2>1 DEF LinkOf, Warming
<1>12. PageFits(t)'
  <2>1. floor' = floor /\ floor[ConnOf[t]][This][k] \in Nat
    BY <1>5, <1>7 DEF Steady, LInv, IInv, TypeOK
  <2>2. floor[ConnOf[t]][This][k] <= floor[ConnOf[t]][This][k]
    BY <2>1
  <2>3. call'[t].floor <= floor'[ConnOf[t]][This][call'[t].key]
    BY <1>5, <2>1, <2>2
  <2>4. ~Warming(t)'
    BY <1>4, <1>9 DEF Warming
  <2>5. QED
    BY <2>3, <2>4 DEF PageFits
<1>13. ~Writing(t)' /\ call'[t].step # "answered"
  BY <1>4, <1>5, <1>9 DEF Writing
<1>14. QED
  BY <1>3, <1>5, <1>6, <1>8, <1>9, <1>10, <1>11, <1>12, <1>13, CacheFrame

\* The slot has the definition, or it has just arrived.
LEMMA AskedLInv ==
  ASSUME LInv, NEW t \in Thread, lookup[t].step = "wait", Resolving(t), IInv',
         Steady, Goes(t), NEW v \in Values, Settle(tables, v),
         \A s \in Slot : value[s] # Null => v[s] = value[s],
         call' = [call EXCEPT ![t].step = "answered", ![t].got = v[call[t].slot],
                              ![t].slot = Null],
         UNCHANGED <<setVars, lookup, returned>>
  PROVE  LInv'
<1>key. PICK k \in Key : k = call[t].key
  BY CallFacts DEF LInv, IInv
<1>1. PICK d : k = call[t].key /\ d = v[call[t].slot]
  BY <1>key
<1>2. /\ call[t] # Idle /\ call[t] \in Call /\ call[t].oid = This /\ lookup[t].key = k
      /\ lookup[t] # NoLookup
  BY <1>1, CallFacts DEF LInv, IInv, LinkInv, LinkOf, NoLookup
<1>3. PICK z : z = [call[t] EXCEPT !.step = "answered", !.got = d, !.slot = Null]
  OBVIOUS
<1>4. /\ z.step = "answered" /\ z.oid = This /\ z.key = k /\ z.got = d
      /\ z.current = call[t].current /\ z # Idle
  BY <1>1, <1>2, <1>3 DEF Call, Idle
<1>5. call'[t] = z
  BY <1>1, <1>3 DEF LInv, IInv, TypeOK
<1>6. z.current /\ z.got # Null => Has(ConnOf[t], k, d)'
  BY <1>1, <1>2, <1>4, GotHas DEF LInv
<1>7. Moves(t) /\ UNCHANGED returned
  BY DEF Moves, Goes
<1>8. LookupTypeOK' /\ CostInv'
  BY DEF LInv, LookupTypeOK, CostInv, setVars, bulkVars
<1>9. LinkOf(t)'
  <2>1. CacheOf(t)' = CacheOf(t) /\ CacheOf(t) # 0
    BY <1>2 DEF LInv, LinkInv, LinkOf, CacheOf, Steady
  <2>2. QED
    BY <1>2, <1>4, <1>5, <2>1 DEF LinkOf, Warming
<1>10. PageFits(t)'
  BY <1>4, <1>5 DEF PageFits, Warming, Resolving
<1>11. ~Writing(t)' /\ lookup[t] # NoLookup
  BY <1>2 DEF Writing
<1>12. call'[t].step = "answered" /\ call'[t].current /\ call'[t].got # Null =>
         Has(ConnOf[t], call[t].key, call[t].got)'
  BY <1>4, <1>5, <1>6
<1>13. tables \in Tables /\ \A i \in Cache, j \in Key : tables[i][j] # Null => tables[i][j] = tables[i][j]
  BY DEF LInv, IInv, TypeOK, Tables
<1>14. QED
  BY <1>7, <1>8, <1>9, <1>10, <1>11, <1>12, <1>13, CacheFrame

LEMMA AskHitLInv ==
  ASSUME LInv, NEW t \in Thread, AskHit(t)
  PROVE  LInv'
<1>1. /\ lookup[t].step = "wait" /\ Hit(t) /\ UNCHANGED <<setVars, lookup, returned>>
  BY DEF AskHit
<1>2. IInv'
  BY <1>1, HitIInv DEF LInv
<1>3. /\ Resolving(t) /\ Steady /\ Settle(tables, value)
      /\ call' = [call EXCEPT ![t].step = "answered", ![t].got = value[call[t].slot],
                              ![t].slot = Null]
  BY <1>1 DEF Hit, Resolving, Steady
<1>4. Goes(t) /\ value \in Values
  BY <1>3 DEF Goes, LInv, IInv, TypeOK, Values
<1>5. QED
  BY <1>1, <1>2, <1>3, <1>4, AskedLInv

LEMMA AskStoreLInv ==
  ASSUME LInv, NEW t \in Thread, AskStore(t)
  PROVE  LInv'
<1>1. /\ lookup[t].step = "wait" /\ Store(t) /\ UNCHANGED <<setVars, lookup, returned>>
  BY DEF AskStore
<1>2. IInv'
  BY <1>1, StoreIInv DEF LInv
<1>3. PICK v : v = [value EXCEPT ![call[t].slot] = call[t].got]
  OBVIOUS
<1>4. /\ call[t].step = "load" /\ Resolving(t) /\ Steady /\ Settle(tables, v)
      /\ call' = [call EXCEPT ![t].step = "answered", ![t].slot = Null]
  BY <1>1, <1>3 DEF Store, Resolving, Steady
<1>5. /\ call[t] \in Call /\ call[t].slot \in Slot /\ call[t].got \in Definition \cup {Null}
      /\ value[call[t].slot] = Null
  BY <1>4, CallFacts DEF LInv, IInv, CallInv, LoadInv, Resolving
<1>6. v \in Values /\ v[call[t].slot] = call[t].got /\ \A s \in Slot : value[s] # Null => v[s] = value[s]
  BY <1>3, <1>5 DEF LInv, IInv, TypeOK, Values
<1>7. [call[t] EXCEPT !.step = "answered", !.slot = Null]
        = [call[t] EXCEPT !.step = "answered", !.got = v[call[t].slot], !.slot = Null]
  BY <1>5, <1>6 DEF Call
<1>8. call' = [call EXCEPT ![t].step = "answered", ![t].got = v[call[t].slot], ![t].slot = Null]
  BY <1>4, <1>7 DEF LInv, IInv, TypeOK
<1>9. Goes(t)
  BY <1>4 DEF Goes, LInv, IInv, TypeOK
<1>10. QED
  BY <1>1, <1>2, <1>4, <1>6, <1>8, <1>9, AskedLInv

LEMMA AskLoadLInv ==
  ASSUME LInv, NEW t \in Thread, AskLoad(t)
  PROVE  LInv'
<1>1. PICK l : l = [lookup[t] EXCEPT !.asked = TRUE]
  OBVIOUS
<1>2. /\ lookup[t].step = "wait" /\ Load(t) /\ lookup[t] # NoLookup
      /\ lookup' = [lookup EXCEPT ![t] = l]
      /\ UNCHANGED <<setVars, returned>>
  BY <1>1 DEF AskLoad, NoLookup
<1>3. l \in Lookup /\ l.step = "wait" /\ l.key = lookup[t].key
  BY <1>1, <1>2, LookupFacts DEF LInv, Lookup
<1>4. IInv'
  BY <1>2, LoadIInv DEF LInv
<1>5. /\ call[t].step = "resolve" /\ call[t] # Idle /\ call[t] \in Call
      /\ call' = [call EXCEPT ![t].step = "load", ![t].got = Answer(call[t].oid, call[t].key)]
      /\ UNCHANGED <<attachment, transaction, tables, value, floor, cleared>>
  BY <1>2, CallFacts DEF Load, LInv, IInv, Idle
<1>6. PICK z : z = [call[t] EXCEPT !.step = "load", !.got = Answer(call[t].oid, call[t].key)]
  OBVIOUS
<1>7. /\ z.step = "load" /\ z.oid = call[t].oid /\ z.key = call[t].key /\ z # Idle
      /\ z.floor = call[t].floor
  BY <1>5, <1>6 DEF Call, Idle
<1>8. call'[t] = z /\ lookup'[t] = l /\ Moves(t)
  BY <1>2, <1>5, <1>6 DEF LInv, IInv, TypeOK, LookupTypeOK, Moves
<1>9. LookupTypeOK' /\ CostInv'
  BY <1>2, <1>3 DEF LInv, LookupTypeOK, CostInv, setVars, bulkVars
<1>10. LinkOf(t)'
  <2>1. LinkOf(t)
    BY DEF LInv, LinkInv
  <2>2. CacheOf(t)' = CacheOf(t) /\ CacheOf(t) # 0
    BY <1>2, <1>5, <2>1 DEF LinkOf, CacheOf
  <2>3. QED
    BY <1>2, <1>3, <1>5, <1>7, <1>8, <2>1, <2>2 DEF LinkOf, Warming
<1>11. PageFits(t)'
  <2>1. call[t].floor <= floor[ConnOf[t]][This][call[t].key]
    BY <1>5 DEF LInv, PageInv, PageFits, Resolving
  <2>2. ~Warming(t)'
    BY <1>3, <1>8 DEF Warming
  <2>3. QED
    BY <1>5, <1>7, <1>8, <2>1, <2>2 DEF PageFits
<1>12. ~Writing(t)' /\ call'[t].step # "answered"
  BY <1>3, <1>7, <1>8 DEF Writing
<1>13. \A c \in Conn, k \in Key : \A d \in returned'[c][k] : Has(c, k, d)
  BY <1>2 DEF LInv, GivenInv
<1>14. QED
  BY <1>2, <1>4, <1>5, <1>8, <1>9, <1>10, <1>11, <1>12, <1>13, SetFrame

LEMMA AskFailsLInv ==
  ASSUME LInv, NEW t \in Thread, AskFails(t)
  PROVE  LInv'
<1>1. /\ LoadFails(t) /\ lookup' = [lookup EXCEPT ![t] = NoLookup]
      /\ UNCHANGED <<setVars, returned>>
  BY DEF AskFails
<1>2. IInv'
  BY <1>1, LoadFailsIInv DEF LInv
<1>3. /\ call[t].step = "load" /\ Steady /\ Settle(tables, value)
      /\ call' = [call EXCEPT ![t] = Idle]
  BY <1>1 DEF LoadFails, Steady
<1>4. lookup[t].step = "wait"
  BY <1>3 DEF LInv, LinkInv, LinkOf
<1>5. /\ call'[t] = Idle /\ call'[t].step = "idle" /\ lookup'[t] = NoLookup
      /\ lookup'[t].step = "none" /\ lookup[t] # NoLookup /\ Moves(t)
  BY <1>1, <1>3, <1>4 DEF LInv, IInv, TypeOK, LookupTypeOK, Moves, Idle, NoLookup
<1>6. LookupTypeOK' /\ CostInv'
  BY <1>1 DEF LInv, LookupTypeOK, CostInv, setVars, bulkVars
<1>7. LinkOf(t)' /\ PageFits(t)' /\ ~Writing(t)'
  BY <1>5 DEF LinkOf, PageFits, Writing, Warming, Resolving
<1>8. tables \in Tables /\ value \in Values /\ UNCHANGED returned
  BY <1>1 DEF LInv, IInv, TypeOK, Tables, Values
<1>9. QED
  BY <1>2, <1>3, <1>5, <1>6, <1>7, <1>8, CacheFrame

LEMMA FinishLInv ==
  ASSUME LInv, NEW t \in Thread, Finish(t)
  PROVE  LInv'
<1>1. /\ lookup[t].step = "wait" /\ call[t].step = "answered" /\ call[t] # Idle
      /\ lookup[t] # NoLookup
  BY DEF Finish, Return, Idle, NoLookup
<1>2. PICK k \in Key, c \in Conn, d \in Definition \cup {Null} :
        k = lookup[t].key /\ c = ConnOf[t] /\ d = call[t].got
  BY <1>1, CallFacts, LookupFacts DEF LInv, IInv
<1>3. PICK miss \in BOOLEAN : miss = (~lookup[t].cached /\ lookup[t].asked)
  OBVIOUS
<1>4. /\ Return(t)
      /\ direct_lookups' = IF miss THEN direct_lookups + 1 ELSE direct_lookups
      /\ round_trips' = IF miss THEN round_trips + 1 ELSE round_trips
      /\ entries' = IF SameVersion(entries[k], d) THEN entries ELSE [entries EXCEPT ![k] = d]
      /\ lookup' = [lookup EXCEPT ![t] = NoLookup]
      /\ returned' = IF d # Null /\ call[t].current
                     THEN [returned EXCEPT ![c][k] = @ \cup {entries'[k]}] ELSE returned
      /\ UNCHANGED <<entry_lock, is_loaded, bulk_loaded_cache_id, batch_forbidden, bulk_requests>>
  <2>1. /\ Return(t) /\ lookup' = [lookup EXCEPT ![t] = NoLookup]
        /\ UNCHANGED <<entry_lock, is_loaded, bulk_loaded_cache_id, batch_forbidden,
                       bulk_requests>>
    BY DEF Finish
  <2>2. /\ direct_lookups' = IF miss THEN direct_lookups + 1 ELSE direct_lookups
        /\ round_trips' = IF miss THEN round_trips + 1 ELSE round_trips
    BY <1>3 DEF Finish
  <2>3. entries' = IF SameVersion(entries[k], d) THEN entries ELSE [entries EXCEPT ![k] = d]
    BY <1>2 DEF Finish
  <2>4. returned' = IF d # Null /\ call[t].current
                    THEN [returned EXCEPT ![c][k] = @ \cup {entries'[k]}] ELSE returned
    BY <1>2 DEF Finish
  <2>5. QED
    BY <2>1, <2>2, <2>3, <2>4
<1>5. entries' \in [Key -> Definition \cup {Null}] /\ entries'[k] = d
  BY <1>2, <1>4 DEF LInv, LookupTypeOK, SameVersion
<1>6. CostInv' /\ direct_lookups' \in Nat /\ round_trips' \in Nat
  BY <1>4 DEF LInv, CostInv, LookupTypeOK
<1>7. returned' \in [Conn -> [Key -> SUBSET Definition]]
  BY <1>2, <1>4, <1>5 DEF LInv, LookupTypeOK
<1>8. LookupTypeOK'
  BY <1>4, <1>5, <1>6, <1>7 DEF LInv, LookupTypeOK
<1>9. IInv'
  BY <1>4, ReturnIInv DEF LInv
<1>10. /\ call'[t] = Idle /\ call'[t].step = "idle" /\ lookup'[t] = NoLookup
       /\ lookup'[t].step = "none" /\ Moves(t)
       /\ UNCHANGED <<attachment, transaction, tables, value, floor, cleared>>
  BY <1>4 DEF Return, LInv, IInv, TypeOK, LookupTypeOK, Moves, Idle, NoLookup, cacheVars
<1>11. LinkOf(t)' /\ PageFits(t)' /\ ~Writing(t)'
  BY <1>10 DEF LinkOf, PageFits, Writing, Warming, Resolving
<1>12. ASSUME NEW e \in Conn, NEW j \in Key, NEW f \in returned'[e][j]
       PROVE  Has(e, j, f)
  <2>1. CASE f \in returned[e][j]
    BY <2>1 DEF LInv, GivenInv
  <2>2. CASE f \notin returned[e][j]
    <3>1. e = c /\ j = k /\ f = d /\ d # Null /\ call[t].current
      BY <1>2, <1>4, <1>5, <1>12, <2>2 DEF LInv, LookupTypeOK
    <3>2. call[t].key = k
      BY <1>1, <1>2 DEF LInv, LinkInv, LinkOf
    <3>3. QED
      BY <1>1, <1>2, <3>1, <3>2 DEF LInv, GivenInv
  <2>3. QED
    BY <2>1, <2>2
<1>13. QED
  BY <1>1, <1>6, <1>8, <1>9, <1>10, <1>11, <1>12, SetFrame

-----------------------------------------------------------------------------
(* Writes *)

LEMMA WriteTableLInv ==
  ASSUME LInv, NEW t \in Thread, NEW k \in Key, NEW drop \in BOOLEAN, WriteTable(t, k, drop)
  PROVE  LInv'
<1>1. PICK l : l = [step |-> "write", key |-> k, drop |-> drop]
  OBVIOUS
<1>2. /\ Free(t) /\ \A u \in Others(t) : lookup[u] = NoLookup
      /\ Write(t, This, k, TRUE, ~drop)
      /\ lookup' = [lookup EXCEPT ![t] = l] /\ UNCHANGED <<setVars, returned>>
  BY <1>1 DEF WriteTable
<1>3. /\ lookup[t] = NoLookup /\ call[t] = Idle /\ CacheOf(t) # 0
      /\ \A u \in Others(t) : ~Writing(u)
  BY <1>2, FreeFacts
<1>4. l \in Lookup /\ l.step = "write" /\ l # NoLookup
  BY <1>1 DEF Lookup, NoLookup
<1>5. IInv'
  <2>1. This \in Oid
    BY ThisKnown DEF LInv
  <2>2. PICK exists \in BOOLEAN : exists = ~drop
    OBVIOUS
  <2>3. Write(t, This, k, TRUE, exists)
    BY <1>2, <2>2
  <2>4. QED
    BY <2>1, <2>3, WriteIInv DEF LInv
<1>6. UNCHANGED <<attachment, transaction, tables, value, floor, cleared>>
  BY <1>2 DEF Write, cacheVars
<1>7. PICK z : z = [step |-> "write", oid |-> This, key |-> k, slot |-> Null, got |-> Null,
                    floor |-> definition'[RemoteOf(This)][k].version, current |-> TRUE]
  OBVIOUS
<1>8. call' = [call EXCEPT ![t] = z]
  BY <1>2, <1>7 DEF Write
<1>9. z.step = "write" /\ z.oid = This /\ z # Idle
  BY <1>7 DEF Idle
<1>10. call'[t] = z /\ lookup'[t] = l /\ Moves(t)
  BY <1>2, <1>8 DEF Moves, LInv, IInv, TypeOK, LookupTypeOK
<1>11. LookupTypeOK' /\ CostInv'
  BY <1>2, <1>4 DEF LInv, LookupTypeOK, CostInv, setVars, bulkVars
<1>12. LinkOf(t)' /\ PageFits(t)'
  <2>1. CacheOf(t)' # 0
    BY <1>3, <1>6 DEF CacheOf
  <2>2. QED
    BY <1>4, <1>9, <1>10, <2>1 DEF LinkOf, PageFits, Warming, Resolving
<1>13. \A c \in Conn, j \in Key : \A d \in returned'[c][j] : Has(c, j, d)
  BY <1>2 DEF LInv, GivenInv
<1>14. call'[t].step # "answered"
  BY <1>9, <1>10
<1>15. QED
  BY <1>2, <1>3, <1>5, <1>6, <1>10, <1>11, <1>12, <1>13, <1>14, SetFrame

\* Who does nothing in the set does nothing in the cache.
LEMMA NoLookupIdle ==
  ASSUME LInv, NEW t \in Thread, lookup[t] = NoLookup
  PROVE  call[t] = Idle /\ ~Warming(t) /\ ~Resolving(t)
<1>1. LinkOf(t) /\ lookup[t].step = "none"
  BY DEF LInv, LinkInv, NoLookup
<1>2. call[t].step \notin Step /\ ~Warming(t)
  BY <1>1 DEF LinkOf, Warming, Step
<1>3. call[t] = Idle
  BY <1>2, CallFacts DEF LInv, IInv
<1>4. QED
  BY <1>2, <1>3 DEF Resolving, Idle

\* Only the caches of one connection are cleared.
LEMMA ClearHas ==
  ASSUME IInv, NEW c \in Conn, NEW which, Clear(which),
         \A i \in which : i # 0 => \A d \in Conn, o \in Oid : Uses(i, d, o) => d = c,
         NEW e \in Conn \ {c}, transaction'[e][This] = transaction[e][This],
         NEW k \in Key, NEW d, Has(e, k, d)
  PROVE  Has(e, k, d)'
<1>1. PICK tb : tb = [i \in Cache |-> IF i \in which THEN NoSlots ELSE tables[i]]
  OBVIOUS
<1>2. Settle(tb, value)
  BY <1>1 DEF Clear
<1>3. tb \in Tables /\ value \in Values
  BY <1>1 DEF Tables, Values, NoSlots, IInv, TypeOK
<1>4. \A l \in Key : transaction[e][This] # 0 /\ tables[transaction[e][This]][l] # Null =>
        tb[transaction[e][This]][l] = tables[transaction[e][This]][l]
  <2> SUFFICES ASSUME transaction[e][This] # 0
               PROVE  tb[transaction[e][This]] = tables[transaction[e][This]]
    OBVIOUS
  <2>1. PICK i \in Cache : i = transaction[e][This] /\ i # 0
    BY ThisKnown
  <2>2. This \in Oid
    BY ThisKnown
  <2>3. Uses(i, e, This)
    BY <2>1 DEF Uses
  <2>4. i \notin which
    BY <2>1, <2>2, <2>3
  <2>5. QED
    BY <1>1, <2>1, <2>4
<1>5. QED
  BY <1>2, <1>3, <1>4, HasFrame

LEMMA WriteReturnsLInv ==
  ASSUME LInv, NEW t \in Thread, WriteReturns(t)
  PROVE  LInv'
<1>1. PICK l : l = [lookup[t] EXCEPT !.step = "written"]
  OBVIOUS
<1>2. PICK c \in Conn : c = ConnOf[t]
  OBVIOUS
<1>3. /\ Invalidate(t) /\ lookup' = [lookup EXCEPT ![t] = l]
      /\ returned' = [returned EXCEPT ![c] = [k \in Key |-> {}]]
      /\ UNCHANGED setVars
  BY <1>1, <1>2 DEF WriteReturns
<1>4. /\ call[t].step = "write" /\ lookup[t].step = "write" /\ call[t] # Idle
      /\ call[t].oid = This /\ Writing(t) /\ lookup[t] # NoLookup
  BY <1>3 DEF Invalidate, LInv, LinkInv, LinkOf, Idle, Writing, NoLookup
<1>5. l \in Lookup /\ l.step = "written"
  BY <1>1, <1>4, LookupFacts DEF LInv, Lookup
<1>6. \A u \in Thread \ {t} : ConnOf[u] = c =>
        lookup[u] = NoLookup /\ call[u] = Idle /\ ~Warming(u) /\ ~Resolving(u)
  BY <1>2, <1>4, NoLookupIdle DEF LInv, ExclusiveInv
<1>7. IInv'
  BY <1>3, InvalidateIInv DEF LInv
<1>8. /\ call'[t] = Idle /\ call'[t].step = "idle" /\ lookup'[t] = l
      /\ \A u \in Thread \ {t} : call'[u] = call[u] /\ lookup'[u] = lookup[u]
  BY <1>2, <1>3, <1>6 DEF Invalidate, Idle, LInv, LookupTypeOK
<1>9. Moves(t) /\ UNCHANGED <<attachment, transaction>>
  BY <1>3, <1>8 DEF Moves, Invalidate
<1>10. \A e \in Conn \ {c} : floor'[e] = floor[e] /\ cleared'[e] = cleared[e]
  BY <1>2, <1>3 DEF Invalidate, Raise, LInv, IInv, TypeOK
<1>11. LinkOf(t)' /\ PageFits(t)'
  <2>1. CacheOf(t)' # 0
    BY <1>4, <1>9 DEF LInv, LinkInv, LinkOf, CacheOf
  <2>2. QED
    BY <1>5, <1>8, <2>1 DEF LinkOf, PageFits, Warming, Resolving
<1>12. \A u \in Thread \ {t} : Warming(u) \/ Resolving(u) =>
         /\ floor'[ConnOf[u]][This] = floor[ConnOf[u]][This]
         /\ cleared'[ConnOf[u]][This] = cleared[ConnOf[u]][This]
  <2> SUFFICES ASSUME NEW u \in Thread \ {t}, Warming(u) \/ Resolving(u)
               PROVE  floor'[ConnOf[u]] = floor[ConnOf[u]] /\ cleared'[ConnOf[u]] = cleared[ConnOf[u]]
    OBVIOUS
  <2>1. ConnOf[u] \in Conn \ {c}
    BY <1>6
  <2>2. QED
    BY <1>10, <2>1
<1>13. LinkInv' /\ ExclusiveInv' /\ PageInv'
  BY <1>4, <1>9, <1>11, <1>12, MoveFrame
<1>14. ASSUME NEW e \in Conn \ {c}, NEW k \in Key, NEW d, Has(e, k, d)
       PROVE  Has(e, k, d)'
  <2>1. \A i \in Invalidated(t) : i # 0 => \A f \in Conn, o \in Oid : Uses(i, f, o) => f = c
    <3> SUFFICES ASSUME NEW i \in Invalidated(t), i # 0, NEW f \in Conn, NEW o \in Oid,
                        Uses(i, f, o)
                 PROVE  f = c
      OBVIOUS
    <3>1. CASE i \in StateCaches(c)
      BY <3>1, StateCacheUses DEF LInv
    <3>2. CASE i = transaction[c][This]
      <4>1. This \in Oid /\ i \in Cache
        BY <3>2, ThisKnown DEF LInv
      <4>2. Uses(i, c, This)
        BY <3>2 DEF Uses
      <4>3. QED
        BY <4>1, <4>2 DEF LInv, IInv, OwnerInv
    <3>3. QED
      BY <1>2, <1>4, <3>1, <3>2 DEF Invalidated
  <2>2. Clear(Invalidated(t)) /\ transaction'[e][This] = transaction[e][This]
    BY <1>3, <1>9 DEF Invalidate
  <2>3. QED
    BY <1>14, <2>1, <2>2, ClearHas DEF LInv
<1>15. GivenInv'
  <2>1. \A e \in Conn, k \in Key : \A d \in returned'[e][k] : Has(e, k, d)'
    <3> SUFFICES ASSUME NEW e \in Conn, NEW k \in Key, NEW d \in returned'[e][k]
                 PROVE  Has(e, k, d)'
      OBVIOUS
    <3>1. e # c /\ d \in returned[e][k]
      BY <1>3 DEF LInv, LookupTypeOK
    <3>2. Has(e, k, d)
      BY <3>1 DEF LInv, GivenInv
    <3>3. QED
      BY <1>14, <3>1, <3>2
  <2>2. \A u \in Thread \ {t}, k \in Key, d \in Definition :
          call[u].step = "answered" /\ Has(ConnOf[u], k, d) => Has(ConnOf[u], k, d)'
    <3> SUFFICES ASSUME NEW u \in Thread \ {t}, NEW k \in Key, NEW d \in Definition,
                        call[u].step = "answered", Has(ConnOf[u], k, d)
                 PROVE  Has(ConnOf[u], k, d)'
      OBVIOUS
    <3>1. ConnOf[u] \in Conn \ {c}
      BY <1>6 DEF Idle
    <3>2. QED
      BY <1>14, <3>1
  <2>3. call'[t].step # "answered"
    BY <1>8
  <2>4. QED
    BY <1>9, <2>1, <2>2, <2>3, GivenFrame
<1>16. returned' \in [Conn -> [Key -> SUBSET Definition]]
  BY <1>3 DEF LInv, LookupTypeOK
<1>17. LookupTypeOK' /\ CostInv'
  BY <1>3, <1>5, <1>16 DEF LInv, LookupTypeOK, CostInv, setVars, bulkVars
<1>18. QED
  BY <1>7, <1>13, <1>15, <1>17 DEF LInv

-----------------------------------------------------------------------------
(* What goes on around the set *)

\* A step of no thread of the set.
LEMMA AroundFrame ==
  ASSUME LInv, IInv', UNCHANGED <<setVars, lookup, call>>,
         \A u \in Thread : lookup[u] # NoLookup =>
           /\ RemoteOf(This)' = RemoteOf(This)
           /\ transaction'[ConnOf[u]][This] = transaction[ConnOf[u]][This]
           /\ floor'[ConnOf[u]][This] = floor[ConnOf[u]][This]
           /\ cleared'[ConnOf[u]][This] = cleared[ConnOf[u]][This],
         returned' \in [Conn -> [Key -> SUBSET Definition]],
         \A c \in Conn, k \in Key : \A d \in returned'[c][k] : Has(c, k, d)',
         \A u \in Thread, k \in Key, d \in Definition :
           lookup[u] # NoLookup /\ Has(ConnOf[u], k, d) => Has(ConnOf[u], k, d)'
  PROVE  LInv'
<1>1. LinkInv' /\ ExclusiveInv' /\ PageInv'
  BY StayFrame
<1>2. LookupTypeOK' /\ CostInv'
  BY DEF LInv, LookupTypeOK, CostInv, setVars, bulkVars
<1>3. GivenInv'
  <2>1. ASSUME NEW u \in Thread, call[u].step = "answered", call[u].current, call[u].got # Null
        PROVE  Has(ConnOf[u], call[u].key, call[u].got)'
    <3>1. PICK k \in Key, d \in Definition : k = call[u].key /\ d = call[u].got
      BY <2>1, CallFacts DEF LInv, IInv
    <3>2. lookup[u] # NoLookup /\ Has(ConnOf[u], k, d)
      BY <2>1, <3>1, NoLookupIdle DEF LInv, GivenInv, Idle
    <3>3. Has(ConnOf[u], k, d)'
      BY <3>2
    <3>4. k = call'[u].key /\ d = call'[u].got
      BY <3>1
    <3>5. QED
      BY <3>3, <3>4
  <2>2. QED
    BY <2>1 DEF GivenInv
<1>4. QED
  BY <1>1, <1>2, <1>3 DEF LInv

\* A lookup goes on within a transaction on the catalog.
LEMMA LookupKnown ==
  ASSUME LInv, NEW t \in Thread, lookup[t] # NoLookup
  PROVE  ConnOf[t] \in Conn /\ transaction[ConnOf[t]][This] # 0 /\ This \in Known
<1>1. ConnOf[t] \in Conn /\ transaction[ConnOf[t]][This] # 0
  BY DEF LInv, LinkInv, LinkOf, CacheOf
<1>2. QED
  BY <1>1, ThisKnown DEF LInv

LEMMA AroundLInv ==
  ASSUME LInv, Around
  PROVE  LInv'
<1>1. UNCHANGED <<setVars, lookup, returned>>
  BY DEF Around
<1>2. returned' \in [Conn -> [Key -> SUBSET Definition]]
  BY <1>1 DEF LInv, LookupTypeOK
<1>3. ASSUME NEW r \in Remote, NEW k \in Key, NEW exists \in BOOLEAN, ChangeElsewhere(r, k, exists)
      PROVE  LInv'
  <2>1. IInv'
    BY <1>3, ChangeElsewhereIInv DEF LInv
  <2>2. UNCHANGED <<attachment, transaction, tables, value, call, floor, cleared>>
    BY <1>3 DEF ChangeElsewhere, cacheVars
  <2>3. \A c, j, d : Has(c, j, d) => Has(c, j, d)'
    BY <2>2 DEF Has
  <2>4. \A c \in Conn, j \in Key : \A d \in returned'[c][j] : Has(c, j, d)'
    BY <1>1, <2>3 DEF LInv, GivenInv
  <2>5. RemoteOf(This)' = RemoteOf(This)
    BY <2>2 DEF RemoteOf
  <2>6. QED
    BY <1>1, <1>2, <2>1, <2>2, <2>3, <2>4, <2>5, AroundFrame
<1>4. ASSUME NEW a \in Alias, NEW r \in Remote, Attach(a, r)
      PROVE  LInv'
  <2>1. IInv'
    BY <1>4, AttachIInv DEF LInv
  <2>2. UNCHANGED <<transaction, tables, value, call, floor>>
    BY <1>4 DEF Attach, cacheVars
  <2>3. PICK o \in Oid :
          /\ \A p \in Oid : p < o <=> attachment[p] # Null
          /\ attachment' = [attachment EXCEPT ![o] = [alias |-> a, remote |-> r]]
          /\ cleared' = [c \in Conn |-> [cleared[c] EXCEPT ![o] =
               [k \in Key |-> definition[r][k].version]]]
    BY <1>4 DEF Attach
  <2>4. attachment[o] = Null
    <3>1. ~(o < o)
      BY DEF Oid
    <3>2. QED
      BY <2>3, <3>1
  <2>5. ASSUME NEW u \in Thread, lookup[u] # NoLookup
        PROVE  RemoteOf(This)' = RemoteOf(This) /\ cleared'[ConnOf[u]][This] = cleared[ConnOf[u]][This]
    <3>1. This \in Oid /\ This # o /\ ConnOf[u] \in Conn
      BY <2>4, <2>5, LookupKnown DEF Known
    <3>2. attachment'[This] = attachment[This]
      BY <2>3, <3>1 DEF LInv, IInv, TypeOK
    <3>3. cleared'[ConnOf[u]][This] = cleared[ConnOf[u]][This]
      BY <2>3, <3>1 DEF LInv, IInv, TypeOK
    <3>4. QED
      BY <3>2, <3>3 DEF RemoteOf
  <2>6. \A c, j, d : Has(c, j, d) => Has(c, j, d)'
    BY <2>2 DEF Has
  <2>7. \A c \in Conn, j \in Key : \A d \in returned'[c][j] : Has(c, j, d)'
    BY <1>1, <2>6 DEF LInv, GivenInv
  <2>8. QED
    BY <1>1, <1>2, <2>1, <2>2, <2>5, <2>6, <2>7, AroundFrame
<1>5. ASSUME NEW c \in Conn, StartTransaction(c, This)
      PROVE  LInv'
  <2>1. IInv' /\ This \in Oid
    BY <1>5, ThisKnown, StartTransactionIInv DEF LInv
  <2>2. /\ transaction[c][This] = 0 /\ Settle(tables, value)
        /\ UNCHANGED <<attachment, call, cleared>>
    BY <1>5 DEF StartTransaction
  <2>3. \A e \in Conn \ {c} : transaction'[e] = transaction[e] /\ floor'[e] = floor[e]
    BY <1>5 DEF StartTransaction, LInv, IInv, TypeOK
  <2>4. ASSUME NEW u \in Thread, lookup[u] # NoLookup
        PROVE  /\ RemoteOf(This)' = RemoteOf(This)
               /\ transaction'[ConnOf[u]][This] = transaction[ConnOf[u]][This]
               /\ floor'[ConnOf[u]][This] = floor[ConnOf[u]][This]
               /\ cleared'[ConnOf[u]][This] = cleared[ConnOf[u]][This]
    <3>1. ConnOf[u] \in Conn \ {c}
      BY <2>2, <2>4, LookupKnown
    <3>2. QED
      BY <2>2, <2>3, <3>1 DEF RemoteOf
  <2>5. ASSUME NEW e \in Conn, NEW k \in Key, NEW d, Has(e, k, d)
        PROVE  Has(e, k, d)'
    <3>1. e \in Conn \ {c}
      BY <2>2, <2>5 DEF Has
    <3>2. transaction'[e][This] = transaction[e][This]
      BY <2>3, <3>1
    <3>3. tables \in Tables /\ value \in Values
      BY DEF LInv, IInv, TypeOK, Tables, Values
    <3>4. QED
      BY <2>2, <2>5, <3>2, <3>3, HasFrame DEF LInv
  <2>6. \A e \in Conn, j \in Key : \A d \in returned'[e][j] : Has(e, j, d)'
    BY <1>1, <2>5 DEF LInv, GivenInv
  <2>7. \A u \in Thread, k \in Key, d \in Definition :
          lookup[u] # NoLookup /\ Has(ConnOf[u], k, d) => Has(ConnOf[u], k, d)'
    BY <2>5
  <2>8. UNCHANGED call
    BY <2>2
  <2>9. QED
    BY <1>1, <1>2, <2>1, <2>4, <2>6, <2>7, <2>8, AroundFrame
<1>6. QED
  BY <1>3, <1>4, <1>5 DEF Around

LEMMA EndLInv ==
  ASSUME LInv, NEW c \in Conn, NEW rollback \in BOOLEAN, End(c, rollback)
  PROVE  LInv'
<1>1. /\ \A t \in ThreadsOf(c) : lookup[t] = NoLookup
      /\ EndTransaction(c, rollback)
      /\ returned' = [returned EXCEPT ![c] = [k \in Key |-> {}]]
      /\ UNCHANGED <<setVars, lookup>>
  BY DEF End
<1>2. IInv'
  BY <1>1, EndTransactionIInv DEF LInv
<1>3. PICK which : which = IF rollback THEN StateCaches(c) ELSE {}
  OBVIOUS
<1>4. Clear(which) /\ UNCHANGED <<attachment, call>>
  BY <1>1, <1>3 DEF EndTransaction
<1>5. \A e \in Conn \ {c} :
        transaction'[e] = transaction[e] /\ floor'[e] = floor[e] /\ cleared'[e] = cleared[e]
  BY <1>1 DEF EndTransaction, LInv, IInv, TypeOK
<1>6. ASSUME NEW u \in Thread, lookup[u] # NoLookup
      PROVE  /\ ConnOf[u] \in Conn \ {c}
             /\ RemoteOf(This)' = RemoteOf(This)
             /\ transaction'[ConnOf[u]][This] = transaction[ConnOf[u]][This]
             /\ floor'[ConnOf[u]][This] = floor[ConnOf[u]][This]
             /\ cleared'[ConnOf[u]][This] = cleared[ConnOf[u]][This]
  <2>1. ConnOf[u] \in Conn \ {c}
    BY <1>1, <1>6 DEF ThreadsOf
  <2>2. QED
    BY <1>4, <1>5, <2>1 DEF RemoteOf
<1>7. ASSUME NEW e \in Conn \ {c}, NEW k \in Key, NEW d, Has(e, k, d)
      PROVE  Has(e, k, d)'
  <2>1. \A i \in which : i # 0 => \A f \in Conn, o \in Oid : Uses(i, f, o) => f = c
    BY <1>3, StateCacheUses DEF LInv
  <2>2. transaction'[e][This] = transaction[e][This]
    BY <1>5
  <2>3. QED
    BY <1>4, <1>7, <2>1, <2>2, ClearHas DEF LInv
<1>8. returned' \in [Conn -> [Key -> SUBSET Definition]]
  BY <1>1 DEF LInv, LookupTypeOK
<1>9. \A e \in Conn, k \in Key : \A d \in returned'[e][k] : Has(e, k, d)'
  <2> SUFFICES ASSUME NEW e \in Conn, NEW k \in Key, NEW d \in returned'[e][k]
               PROVE  Has(e, k, d)'
    OBVIOUS
  <2>1. e # c /\ d \in returned[e][k]
    BY <1>1 DEF LInv, LookupTypeOK
  <2>2. Has(e, k, d)
    BY <2>1 DEF LInv, GivenInv
  <2>3. QED
    BY <1>7, <2>1, <2>2
<1>10. \A u \in Thread, k \in Key, d \in Definition :
         lookup[u] # NoLookup /\ Has(ConnOf[u], k, d) => Has(ConnOf[u], k, d)'
  BY <1>6, <1>7
<1>11. QED
  BY <1>1, <1>2, <1>4, <1>6, <1>8, <1>9, <1>10, AroundFrame

-----------------------------------------------------------------------------
(* The theorems *)

LEMMA InitLInv == LookupInit => LInv
<1> SUFFICES ASSUME LookupInit PROVE LInv
  OBVIOUS
<1>1. IInv
  BY InitIInv DEF LookupInit
<1>2. /\ call = [t \in Thread |-> Idle] /\ lookup = [t \in Thread |-> NoLookup]
      /\ returned = [c \in Conn |-> [k \in Key |-> {}]]
  BY DEF LookupInit, Init
<1>3. LookupTypeOK /\ CostInv
  <2>1. /\ entries = [k \in Key |-> Null] /\ entry_lock = Unlocked /\ is_loaded = FALSE
        /\ direct_lookups = 0 /\ bulk_loaded_cache_id = 0 /\ batch_forbidden = FALSE
        /\ round_trips = 0 /\ bulk_requests = 0
    BY DEF LookupInit
  <2>2. entries \in [Key -> Definition \cup {Null}]
    BY <2>1
  <2>3. lookup \in [Thread -> Lookup \cup {NoLookup}]
    BY <1>2
  <2>4. returned \in [Conn -> [Key -> SUBSET Definition]]
    BY <1>2
  <2>5. is_loaded \in BOOLEAN /\ batch_forbidden \in BOOLEAN
    BY <2>1
  <2>6. /\ direct_lookups \in Nat /\ round_trips \in Nat /\ bulk_requests \in Nat
        /\ bulk_loaded_cache_id \in Cache \cup {0} /\ entry_lock \in Thread \cup {Unlocked}
    BY <2>1
  <2>7. CostInv
    BY <2>1 DEF CostInv
  <2>8. QED
    BY <2>2, <2>3, <2>4, <2>5, <2>6, <2>7 DEF LookupTypeOK
<1>4. LinkInv /\ ExclusiveInv /\ PageInv /\ GivenInv
  BY <1>2 DEF LinkInv, LinkOf, ExclusiveInv, PageInv, PageFits, GivenInv, Warming, Writing,
     Resolving, Idle, NoLookup
<1>5. QED
  BY <1>1, <1>3, <1>4 DEF LInv

LEMMA NextLInv == LInv /\ [LookupNext]_lookupVars => LInv'
<1> SUFFICES ASSUME LInv, [LookupNext]_lookupVars PROVE LInv'
  OBVIOUS
<1>1. CASE Around
  BY <1>1, AroundLInv
<1>2. ASSUME NEW c \in Conn, NEW rollback \in BOOLEAN, End(c, rollback) PROVE LInv'
  BY <1>2, EndLInv
<1>3. ASSUME NEW t \in Thread, GetEntry(t) PROVE LInv'
  BY <1>3, EnterLInv, BulkFailsLInv, BulkLoadLInv, AskLInv, AskHitLInv, AskLoadLInv,
     AskStoreLInv, AskFailsLInv, FinishLInv DEF GetEntry
<1>4. ASSUME NEW t \in Thread, Scan(t) \/ Warm(t) PROVE LInv'
  BY <1>4, ScanLInv, WarmFindLInv, WarmResolveLInv, WarmDoneLInv DEF Warm
<1>5. ASSUME NEW t \in Thread, WriteEntry(t) PROVE LInv'
  BY <1>5, WriteTableLInv, WriteReturnsLInv, RefetchLInv, InstallLInv DEF WriteEntry
<1>6. CASE UNCHANGED lookupVars
  <2>1. IInv' /\ UNCHANGED <<vars, setVars, lookup, returned>>
    BY <1>6, StutterIInv DEF LInv, lookupVars
  <2>2. \A c, k, d : Has(c, k, d) => Has(c, k, d)'
    BY <2>1 DEF Has, vars, cacheVars
  <2>3. \A c \in Conn, k \in Key : \A d \in returned'[c][k] : Has(c, k, d)'
    BY <2>1, <2>2 DEF LInv, GivenInv
  <2>4. /\ RemoteOf(This)' = RemoteOf(This)
        /\ UNCHANGED <<transaction, floor, cleared, call>>
    BY <2>1 DEF RemoteOf, vars, cacheVars
  <2>5. returned' \in [Conn -> [Key -> SUBSET Definition]]
    BY <2>1 DEF LInv, LookupTypeOK
  <2>6. QED
    BY <2>1, <2>2, <2>3, <2>4, <2>5, AroundFrame
<1>7. QED
  BY <1>1, <1>2, <1>3, <1>4, <1>5, <1>6 DEF LookupNext

\* LInv is an invariant of lookups, scans and writes through a shared table set, whatever
\* goes on around them (GlueTableSet over GlueTransactionCache).
THEOREM LookupInvariance == LookupSpec => []LInv
<1>1. LookupInit => LInv
  BY InitLInv
<1>2. LInv /\ [LookupNext]_lookupVars => LInv'
  BY NextLInv
<1>3. QED
  BY <1>1, <1>2, PTL DEF LookupSpec

\* The variables of the table set keep their types.
THEOREM LookupTypeCorrectness == LookupSpec => []LookupTypeOK
<1>1. LInv => LookupTypeOK
  BY DEF LInv
<1>2. QED
  BY <1>1, LookupInvariance, PTL

\* The cache stays fresh, and fetches once, also when it is filled from pages and read
\* through the table set (GlueTransactionCache::Resolve as BulkLoadTableInfo uses it).
THEOREM CacheOfLookups == LookupSpec => [](Fresh /\ FetchedOnce)
<1>1. LInv => Fresh /\ FetchedOnce
  <2>1. LInv => Fresh
    BY DEF LInv, IInv
  <2>2. ASSUME LInv, NEW c \in Conn, NEW o \in Oid, NEW k \in Key
        PROVE  fetched[c][o][k] <= 1
    BY <2>2 DEF LInv, IInv, LoadInv
  <2>3. QED
    BY <2>1, <2>2 DEF FetchedOnce
<1>2. QED
  BY <1>1, LookupInvariance, PTL

\* No entry a transaction gets from the set is older than what its connection has to see,
\* although the set still has entries from before (GetEntry's comparison by IsSameVersion).
THEOREM LookupFreshness == LookupSpec => []FreshLookup
<1>1. LInv => FreshLookup
  <2> SUFFICES ASSUME LInv, NEW c \in Conn, NEW k \in Key, NEW d \in returned[c][k]
               PROVE  d.version >= floor[c][This][k]
    BY DEF FreshLookup
  <2>1. Has(c, k, d) /\ d \in Definition
    BY DEF LInv, GivenInv, LookupTypeOK
  <2>2. PICK i \in Cache : i = transaction[c][This] /\ i # 0
    BY <2>1, ThisKnown DEF Has, LInv
  <2>3. This \in Oid /\ Uses(i, c, This)
    BY <2>2, ThisKnown DEF LInv, Uses
  <2>4. PICK s \in Slot : s = tables[i][k] /\ value[s] = d /\ d # Null
    BY <2>1, <2>2 DEF Has, LInv, IInv, TypeOK
  <2>5. Fits(s, d)
    BY <2>1, <2>4 DEF LInv, IInv, ValueInv, HasOrGets
  <2>6. QED
    BY <2>2, <2>3, <2>4, <2>5 DEF Fits
<1>2. QED
  BY <1>1, LookupInvariance, PTL

\* Within a transaction every lookup of a table gives the same definition until the
\* connection writes (GetEntry goes by the transaction's cache, not by the set).
THEOREM LookupRepeatable == LookupSpec => []RepeatableLookup
<1>1. LInv => RepeatableLookup
  <2> SUFFICES ASSUME LInv, NEW c \in Conn, NEW k \in Key
               PROVE  Cardinality(returned[c][k]) <= 1
    BY DEF RepeatableLookup
  <2>1. \A d, e \in returned[c][k] : d = e
    BY DEF LInv, GivenInv, Has
  <2>2. CASE returned[c][k] = {}
    BY <2>2, FS_EmptySet
  <2>3. CASE returned[c][k] # {}
    <3>1. PICK d : returned[c][k] = {d}
      BY <2>1, <2>3
    <3>2. Cardinality({d}) = 1
      BY FS_Singleton
    <3>3. QED
      BY <3>1, <3>2
  <2>4. QED
    BY <2>2, <2>3
<1>2. QED
  BY <1>1, LookupInvariance, PTL

\* GetTables costs at most one request per lookup that paid for one of its own
\* (BulkLoadTableInfo resets direct_lookups whatever the outcome).
THEOREM LookupCost == LookupSpec => []BulkCost
<1>1. LInv => BulkCost
  BY DEF LInv, CostInv, BulkCost
<1>2. QED
  BY <1>1, LookupInvariance, PTL

=============================================================================
