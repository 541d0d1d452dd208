--------------------------- MODULE TableDDLProofs ---------------------------
(***************************************************************************)
(* The properties of TableDDL for any number of connections and changes.   *)
(*                                                                         *)
(* IInv is built in five layers, each inductive with those before it:      *)
(* types (TypeInv), whose the schema entries are (ObjInv), what the set    *)
(* says of the database (InfoInv), what an old definition still says of    *)
(* the table (VersionInv) and what a statement knows of the table that it  *)
(* deletes or replaces (KindInv).                                          *)
(***************************************************************************)
EXTENDS TableDDL, FiniteSetTheorems, SequenceTheorems, TLAPS

OneInSet(objs) == \A i, j \in InSet(objs) : i = j

\* DdlTypeOK, with the set's one entry said without its cardinality; what is sent back was
\* read before.
TypeInv ==
  /\ database \in Database \cup {Null}
  /\ table \in Definition \cup {Null}
  /\ made \in [id : Nat, second : Nat]
  /\ objects \in Seq(Entry) /\ OneInSet(objects)
  /\ is_loaded \in BOOLEAN
  /\ cached \in [Conn -> Definition \cup {Null, Unread}]
  /\ s \in [Conn -> Statement]
  /\ unseen \in BOOLEAN
  /\ changes \in 0 .. MaxChanges
  /\ \A c \in Conn : /\ At(c, "update") => s[c].bound # Null
                     /\ At(c, "update database") => s[c].info # Null

\* The statement has a schema entry of its own.
Private == {"private", "add", "confirm"}

\* The statement goes on with a schema entry that is or was in the set.
Holds(c) ==
  \/ s[c].step \in {"entry", "found", "info", "create", "write", "delete"}
  \/ At(c, "raced") /\ s[c].do # "create schema"
  \/ s[c].entry # Null /\ s[c].step \notin {"add", "end"}

ObjInvOf(c) ==
  /\ s[c].step \in Private =>
       /\ s[c].obj \in DOMAIN objects /\ objects[s[c].obj].state = "private"
       /\ \A d \in Conn \ {c} : s[d].step \in Private => s[d].obj # s[c].obj
  /\ Holds(c) => s[c].obj \in DOMAIN objects /\ objects[s[c].obj].state \in {"set", "retired"}
  /\ s[c].step \in {"start", "private", "confirm", "schema"} => s[c].entry = Null
  /\ At(c, "create database") => s[c].do = "create schema"

ObjInv == \A c \in Conn : ObjInvOf(c)

\* Nothing is known of the database in an entry that is not in the set yet; what an ALTER
\* SCHEMA has read is what Glue has.
InfoInv ==
  /\ \A i \in DOMAIN objects : objects[i].state = "private" => objects[i].info = Null
  /\ \A c \in Conn : s[c].step \in {"update database", "install"} =>
                       unseen \/ s[c].info = database
  /\ SchemaInfoFresh

\* An old definition of the table that Glue has is an earlier version, or the same.
IsEarlier(d) ==
  d \notin {Null, Unread} =>
    /\ d.id <= made.id
    /\ (table # Null /\ d.id = table.id /\ ~table.mixed) =>
         /\ d.kind = table.kind
         /\ d.version <= table.version
         /\ d.version = table.version => d.edits = table.edits

VersionInv ==
  /\ table # Null => table.id \in 1 .. made.id
  /\ \A c \in Conn : IsEarlier(cached[c]) /\ IsEarlier(s[c].entry) /\ IsEarlier(s[c].bound)

\* d is what there was when the statement asked Glue, if that is still there.
Saw(c, d) ==
  table # Null /\ table.id <= s[c].at => d # Null /\ d.id = table.id

KindInvOf(c) ==
  /\ s[c].at <= made.id
  /\ cached[c] = Unread \/ Saw(c, cached[c])
  /\ \/ s[c].step \in {"add", "found", "write", "delete"}
     \/ At(c, "update") /\ s[c].do = "create view"
     => Saw(c, s[c].entry)
  /\ s[c].step \in {"write", "update"} /\ s[c].do = "create view" =>
       s[c].entry # Null /\ s[c].entry.kind = "duckdb view"
  /\ At(c, "delete") =>
       /\ s[c].entry # Null
       /\ \/ s[c].do = "drop table" /\ s[c].entry.kind = "table"
          \/ s[c].do = "drop view" /\ s[c].entry.kind = "duckdb view"
  /\ At(c, "start") \/ At(c, "private") => s[c].at = 0
  /\ At(c, "check empty") => s[c].do = "drop schema"
  /\ At(c, "delete database") =>
       s[c].do = "drop schema" /\ (s[c].force \/ ~(table # Null /\ table.id <= s[c].at))

KindInv == KindKept /\ \A c \in Conn : KindInvOf(c)

IInv == TypeInv /\ ObjInv /\ InfoInv /\ VersionInv /\ KindInv

-----------------------------------------------------------------------------
(* Types *)

USE DEF At

Statements == [Conn -> Statement]

\* Only the statement c changes; it goes to the step.
Goes(c, step) ==
  /\ s' \in Statements /\ s'[c].step = step
  /\ s'[c].do = s[c].do /\ s'[c].force = s[c].force
  /\ \A d \in Conn \ {c} : s'[d] = s[d]

\* What To does to the statement.
LEMMA ToFacts ==
  ASSUME s \in Statements, NEW c \in Conn, NEW step \in Step, To(c, step)
  PROVE  Goes(c, step) /\ s'[c] = [s[c] EXCEPT !.step = step]
<1>1. [s[c] EXCEPT !.step = step] \in Statement
  BY DEF Statements, Statement
<1>2. QED
  BY <1>1 DEF To, Goes, Statements, Statement

\* What a lookup does to it.
LEMMA FindFacts ==
  ASSUME TypeInv, NEW c \in Conn, NEW step \in Step, FindTable(c, step)
  PROVE  /\ Goes(c, step)
         /\ s'[c].obj = s[c].obj /\ s'[c].bound = s[c].bound /\ s'[c].info = s[c].info
         /\ s'[c].entry = LookUp(c)
         /\ s'[c].at = IF cached[c] = Unread THEN made.id ELSE s[c].at
         /\ cached' = [cached EXCEPT ![c] = LookUp(c)] /\ cached'[c] = LookUp(c)
         /\ UNCHANGED <<glue, schemas, histories>>
<1> DEFINE at == IF cached[c] = Unread THEN made.id ELSE s[c].at
           new == [s[c] EXCEPT !.step = step, !.entry = LookUp(c), !.at = at]
<1>1. s \in Statements /\ made.id \in Nat
  BY DEF TypeInv, Statements
<1>2. LookUp(c) \in Definition \cup {Null}
  BY DEF TypeInv, LookUp
<1>3. s[c] \in Statement /\ at \in Nat
  BY <1>1 DEF Statements, Statement
<1>4. new \in Statement
  BY <1>2, <1>3 DEF Statement
<1>5. s' = [s EXCEPT ![c] = new]
  BY <1>1, <1>3 DEF FindTable, Statements, Statement
<1>6. s' \in Statements /\ s'[c] = new /\ \A d \in Conn \ {c} : s'[d] = s[d]
  BY <1>1, <1>4, <1>5 DEF Statements
<1>7. /\ new.step = step /\ new.do = s[c].do /\ new.force = s[c].force
      /\ new.obj = s[c].obj /\ new.bound = s[c].bound /\ new.info = s[c].info
      /\ new.entry = LookUp(c) /\ new.at = at
  BY <1>3 DEF Statement
<1>8. cached' = [cached EXCEPT ![c] = LookUp(c)] /\ cached'[c] = LookUp(c)
  BY DEF FindTable, TypeInv
<1>9. QED
  BY <1>6, <1>7, <1>8 DEF Goes, FindTable

\* The set has one entry: its cardinality.
LEMMA OneEntry ==
  ASSUME NEW objs, OneInSet(objs)
  PROVE  Cardinality(InSet(objs)) <= 1
<1>1. CASE InSet(objs) = {}
  BY <1>1, FS_EmptySet
<1>2. CASE InSet(objs) # {}
  <2>1. PICK i : i \in InSet(objs)
    BY <1>2
  <2>2. InSet(objs) = {i}
    BY <2>1 DEF OneInSet
  <2>3. QED
    BY <2>2, FS_Singleton
<1>3. QED
  BY <1>1, <1>2

\* Adding an entry that is in the set, or one that is not.
LEMMA AppendFacts ==
  ASSUME NEW objs \in Seq(Entry), NEW e \in Entry, OneInSet(objs),
         e.state = "set" => InSet(objs) = {}
  PROVE  /\ Append(objs, e) \in Seq(Entry) /\ OneInSet(Append(objs, e))
         /\ Len(objs) \in Nat
         /\ DOMAIN objs = 1 .. Len(objs)
         /\ DOMAIN Append(objs, e) = 1 .. Len(objs) + 1
         /\ \A i \in DOMAIN objs : Append(objs, e)[i] = objs[i]
         /\ Append(objs, e)[Len(objs) + 1] = e
<1>1. Len(objs) \in Nat /\ DOMAIN objs = 1 .. Len(objs)
  BY LenProperties
<1>2. /\ Append(objs, e) \in Seq(Entry)
      /\ Len(Append(objs, e)) = Len(objs) + 1
      /\ \A i \in 1 .. Len(objs) : Append(objs, e)[i] = objs[i]
      /\ Append(objs, e)[Len(objs) + 1] = e
  BY AppendProperties
<1>3. DOMAIN Append(objs, e) = 1 .. Len(objs) + 1
  BY <1>2, LenProperties
<1>4. OneInSet(Append(objs, e))
  BY <1>1, <1>2, <1>3 DEF OneInSet, InSet
<1>5. QED
  BY <1>1, <1>2, <1>3, <1>4

\* What GetEntry leaves in the set.
LEMMA GetEntryFacts ==
  ASSUME TypeInv
  PROVE  /\ GetEntry \in Seq(Entry) /\ OneInSet(GetEntry)
         /\ DOMAIN objects \subseteq DOMAIN GetEntry
         /\ \A i \in DOMAIN objects : GetEntry[i] = objects[i]
         /\ \A i \in DOMAIN GetEntry \ DOMAIN objects :
              GetEntry[i] = Loaded(database) /\ database # Null
<1>1. CASE InSet(objects) # {} \/ database = Null
  BY <1>1 DEF TypeInv, GetEntry
<1>2. CASE ~(InSet(objects) # {} \/ database = Null)
  <2>1. GetEntry = Append(objects, Loaded(database))
    BY <1>2 DEF GetEntry
  <2>2. Loaded(database) \in Entry /\ objects \in Seq(Entry) /\ OneInSet(objects)
    BY DEF TypeInv, Loaded, Entry
  <2>3. QED
    BY <1>2, <2>1, <2>2, AppendFacts
<1>3. QED
  BY <1>1, <1>2

\* The entry that is in the set, if there is one.
LEMMA CachedEntryFacts ==
  ASSUME NEW objs \in Seq(Entry)
  PROVE  /\ GetCachedEntry(objs) \in Nat
         /\ GetCachedEntry(objs) # 0 => GetCachedEntry(objs) \in InSet(objs)
  BY DEF GetCachedEntry, InSet

\* The state of one entry changes.
LEMMA EntryChanges ==
  ASSUME NEW objs \in Seq(Entry), NEW i, NEW state \in {"private", "set", "retired", "gone"}
  PROVE  /\ [objs EXCEPT ![i].state = state] \in Seq(Entry)
         /\ DOMAIN [objs EXCEPT ![i].state = state] = DOMAIN objs
         /\ \A j \in DOMAIN objs : [objs EXCEPT ![i].state = state][j] =
              IF j = i THEN [objs[i] EXCEPT !.state = state] ELSE objs[j]
<1> DEFINE new == [objs EXCEPT ![i].state = state]
<1>1. Len(objs) \in Nat /\ DOMAIN objs = 1 .. Len(objs) /\ \A j \in DOMAIN objs : objs[j] \in Entry
  BY LenProperties
<1>2. CASE i \in DOMAIN objs
  <2>1. [objs[i] EXCEPT !.state = state] \in Entry
    BY <1>1, <1>2 DEF Entry
  <2>2. new = [objs EXCEPT ![i] = [objs[i] EXCEPT !.state = state]]
    BY <1>1, <1>2
  <2>3. QED
    BY <1>1, <1>2, <2>1, <2>2, ExceptSeq
<1>3. CASE i \notin DOMAIN objs
  <2>1. new = objs
    BY <1>1, <1>3
  <2>2. QED
    BY <1>1, <1>3, <2>1
<1>4. QED
  BY <1>2, <1>3

\* Retiring the entry in the set.
LEMMA RetireFacts ==
  ASSUME NEW objs \in Seq(Entry)
  PROVE  /\ RetireEntry(objs) \in Seq(Entry)
         /\ DOMAIN RetireEntry(objs) = DOMAIN objs
         /\ InSet(RetireEntry(objs)) = {}
         /\ \A i \in DOMAIN objs :
              /\ RetireEntry(objs)[i].info = objs[i].info
              /\ RetireEntry(objs)[i].state =
                   IF objs[i].state = "set" THEN "retired" ELSE objs[i].state
<1> DEFINE e(i) == IF objs[i].state = "set" THEN [objs[i] EXCEPT !.state = "retired"] ELSE objs[i]
<1>1. Len(objs) \in Nat /\ DOMAIN objs = 1 .. Len(objs) /\ \A j \in DOMAIN objs : objs[j] \in Entry
  BY LenProperties
<1>2. \A i \in 1 .. Len(objs) : e(i) \in Entry
  BY <1>1 DEF Entry
<1>3. RetireEntry(objs) = [i \in 1 .. Len(objs) |-> e(i)]
  BY <1>1 DEF RetireEntry
<1>4. RetireEntry(objs) \in Seq(Entry)
  <2> HIDE DEF e
  <2>1. QED
    BY <1>1, <1>2, <1>3, IsASeq
<1>5. QED
  BY <1>1, <1>3, <1>4 DEF InSet, Entry

\* A listing fills in what was not known.
LEMMA ScanFacts ==
  ASSUME TypeInv, NEW c \in Conn, Scan(c)
  PROVE  /\ objects' \in Seq(Entry) /\ OneInSet(objects')
         /\ DOMAIN objects \subseteq DOMAIN objects'
         /\ \A i \in DOMAIN objects : /\ objects'[i].state = objects[i].state
                                      /\ objects'[i].info # objects[i].info =>
                                           objects[i].state = "set" /\ objects'[i].info = database
         /\ \A i \in DOMAIN objects' \ DOMAIN objects : objects'[i] = Loaded(database)
<1>1. CASE is_loaded
  BY <1>1 DEF Scan, TypeInv
<1>2. CASE ~is_loaded
  <2> DEFINE e(i) == IF GetEntry[i] = Unloaded THEN Loaded(database) ELSE GetEntry[i]
  <2>1. /\ GetEntry \in Seq(Entry) /\ OneInSet(GetEntry)
        /\ DOMAIN objects \subseteq DOMAIN GetEntry
        /\ \A i \in DOMAIN objects : GetEntry[i] = objects[i]
        /\ \A i \in DOMAIN GetEntry \ DOMAIN objects : GetEntry[i] = Loaded(database)
    BY GetEntryFacts
  <2>2. /\ Len(GetEntry) \in Nat /\ DOMAIN GetEntry = 1 .. Len(GetEntry)
        /\ \A j \in DOMAIN GetEntry : GetEntry[j] \in Entry
    BY <2>1, LenProperties
  <2>3. \A i \in 1 .. Len(GetEntry) : e(i) \in Entry /\ e(i).state = GetEntry[i].state
    <3>1. Loaded(database) \in Entry /\ Loaded(database).state = "set" /\ Unloaded.state = "set"
      BY DEF TypeInv, Loaded, Unloaded, Entry
    <3>2. QED
      BY <2>2, <3>1
  <2>4. objects' = [i \in 1 .. Len(GetEntry) |-> e(i)]
    BY <1>2, <2>2 DEF Scan
  <2>5. objects' \in Seq(Entry)
    <3> HIDE DEF e
    <3>1. QED
      BY <2>2, <2>3, <2>4, IsASeq
  <2>6. OneInSet(objects')
    BY <2>1, <2>2, <2>3, <2>4 DEF OneInSet, InSet
  <2>7. \A i \in DOMAIN objects : objects'[i].info # objects[i].info =>
                                    objects[i].state = "set" /\ objects'[i].info = database
    BY <2>1, <2>2, <2>4 DEF Loaded, Unloaded
  <2>8. \A i \in DOMAIN objects' \ DOMAIN objects : objects'[i] = Loaded(database)
    BY <2>1, <2>2, <2>4
  <2>9. QED
    BY <2>1, <2>2, <2>3, <2>4, <2>5, <2>6, <2>7, <2>8
<1>3. QED
  BY <1>1, <1>2 DEF TypeInv

-----------------------------------------------------------------------------
(* The schema entries *)

\* What a step of the statement c leaves as it was: an entry that is or was in the set
\* stays one of those, and a private one is changed by the statement it belongs to.
Evolve(c) ==
  /\ objects' \in Seq(Entry) /\ OneInSet(objects')
  /\ DOMAIN objects \subseteq DOMAIN objects'
  /\ \A i \in DOMAIN objects :
       /\ objects[i].state \in {"set", "retired"} => objects'[i].state \in {"set", "retired"}
       /\ objects[i].state = "private" =>
            \/ objects'[i].state = "private"
            \/ s[c].step \in Private /\ s[c].obj = i

\* The entries stay as they are, or the set asks Glue for the schema.
LEMMA SameEvolve ==
  ASSUME TypeInv, NEW c \in Conn, objects' = objects \/ objects' = GetEntry
  PROVE  Evolve(c)
<1>1. CASE objects' = objects
  BY <1>1 DEF TypeInv, Evolve
<1>2. CASE objects' = GetEntry
  BY <1>2, GetEntryFacts DEF Evolve
<1>3. QED
  BY <1>1, <1>2

\* A listing.
LEMMA ScanEvolve ==
  ASSUME TypeInv, NEW c \in Conn, Scan(c)
  PROVE  Evolve(c)
BY ScanFacts DEF Evolve

\* An entry that a table lookup creates for itself.
LEMMA PrivateEvolve ==
  ASSUME TypeInv, NEW c \in Conn,
         objects' = Append(objects, [Unloaded EXCEPT !.state = "private"])
  PROVE  /\ Evolve(c) /\ Len(objects) + 1 \in DOMAIN objects' \ DOMAIN objects
         /\ Len(objects) + 1 \in Nat
         /\ \A i \in DOMAIN objects : objects'[i] = objects[i]
         /\ objects'[Len(objects) + 1] = [state |-> "private", info |-> Null]
         /\ DOMAIN objects' = DOMAIN objects \cup {Len(objects) + 1}
<1> DEFINE e == [Unloaded EXCEPT !.state = "private"]
<1>1. e \in Entry /\ e = [state |-> "private", info |-> Null]
  BY DEF Unloaded, Entry
<1>2. objects \in Seq(Entry) /\ OneInSet(objects)
  BY DEF TypeInv
<1>3. /\ objects' \in Seq(Entry) /\ OneInSet(objects')
      /\ Len(objects) \in Nat /\ DOMAIN objects = 1 .. Len(objects)
      /\ DOMAIN objects' = 1 .. Len(objects) + 1
      /\ \A i \in DOMAIN objects : objects'[i] = objects[i]
      /\ objects'[Len(objects) + 1] = e
  BY <1>1, <1>2, AppendFacts
<1>4. QED
  BY <1>1, <1>3 DEF Evolve

\* The entry that the statement had for itself.
LEMMA OwnEvolve ==
  ASSUME TypeInv, ObjInv, NEW c \in Conn, s[c].step \in Private,
         NEW state \in {"set", "gone"}, NEW objs \in {objects, GetEntry},
         state = "set" => objs = objects /\ InSet(objects) = {},
         objects' = [objs EXCEPT ![s[c].obj].state = state]
  PROVE  /\ Evolve(c)
         /\ \A i \in DOMAIN objects :
              objects'[i] = IF i = s[c].obj THEN [objects[i] EXCEPT !.state = state]
                                            ELSE objects[i]
         /\ \A i \in DOMAIN objects' \ DOMAIN objects : objects'[i] = Loaded(database)
<1> DEFINE o == s[c].obj
<1>1. o \in DOMAIN objects /\ objects[o].state = "private"
  BY DEF ObjInv, ObjInvOf
<1>2. /\ objs \in Seq(Entry) /\ OneInSet(objs) /\ DOMAIN objects \subseteq DOMAIN objs
      /\ \A i \in DOMAIN objects : objs[i] = objects[i]
      /\ \A i \in DOMAIN objs \ DOMAIN objects : objs[i] = Loaded(database)
  BY GetEntryFacts DEF TypeInv
<1>3. state \in {"private", "set", "retired", "gone"}
  OBVIOUS
<1>4. /\ objects' \in Seq(Entry)
      /\ DOMAIN objects' = DOMAIN objs
      /\ \A j \in DOMAIN objs :
           objects'[j] = IF j = o THEN [objs[o] EXCEPT !.state = state] ELSE objs[j]
  BY <1>2, <1>3, EntryChanges
<1>5. objs[o] \in Entry
  BY <1>1, <1>2, LenProperties
<1>6. objects'[o].state = state
  BY <1>1, <1>2, <1>4, <1>5 DEF Entry
<1>7. OneInSet(objects')
  BY <1>2, <1>4, <1>6 DEF OneInSet, InSet
<1>8. QED
  BY <1>1, <1>2, <1>4, <1>6, <1>7 DEF Evolve

\* A new entry for the schema in the place of the old one, or none.
LEMMA ReplaceEvolve ==
  ASSUME TypeInv, NEW c \in Conn, NEW info \in Database \cup {Null},
         objects' = RetireEntry(objects) \/ objects' = CreateEntry(info)
  PROVE  /\ Evolve(c)
         /\ \A i \in DOMAIN objects : /\ objects'[i].info = objects[i].info
                                      /\ objects'[i].state # "set"
                                      /\ objects'[i].state = "private" =>
                                           objects[i].state = "private"
         /\ \A i \in DOMAIN objects' \ DOMAIN objects : objects'[i] = Loaded(info)
         /\ objects' = RetireEntry(objects) => DOMAIN objects' = DOMAIN objects
<1> DEFINE objs == RetireEntry(objects)
<1>1. objects \in Seq(Entry)
  BY DEF TypeInv
<1>2. /\ objs \in Seq(Entry) /\ DOMAIN objs = DOMAIN objects /\ InSet(objs) = {}
      /\ \A i \in DOMAIN objects :
           /\ objs[i].info = objects[i].info
           /\ objs[i].state = IF objects[i].state = "set" THEN "retired" ELSE objects[i].state
  BY <1>1, RetireFacts
<1>3. OneInSet(objs)
  BY <1>2 DEF OneInSet
<1>4. CASE objects' = objs
  BY <1>2, <1>3, <1>4 DEF Evolve
<1>5. CASE objects' = CreateEntry(info)
  <2>1. Loaded(info) \in Entry
    BY DEF Loaded, Entry
  <2>2. objects' = Append(objs, Loaded(info))
    BY <1>5 DEF CreateEntry
  <2>3. /\ objects' \in Seq(Entry) /\ OneInSet(objects')
        /\ Len(objs) \in Nat
        /\ DOMAIN objs = 1 .. Len(objs)
        /\ DOMAIN objects' = 1 .. Len(objs) + 1
        /\ \A i \in DOMAIN objs : objects'[i] = objs[i]
        /\ objects'[Len(objs) + 1] = Loaded(info)
    <3> HIDE DEF objs
    <3>1. QED
      BY <1>2, <1>3, <2>1, <2>2, AppendFacts
  <2>5. \A i \in DOMAIN objects : objs[i].state # "set"
    BY <1>2 DEF InSet
  <2>6. \A i \in DOMAIN objects' \ DOMAIN objects : objects'[i] = Loaded(info)
    BY <1>2, <2>3
  <2>7. \A i \in DOMAIN objects : objects'[i] = objs[i]
    BY <1>2, <2>3
  <2>8. DOMAIN objects \subseteq DOMAIN objects'
    BY <1>2, <2>3
  <2>9. Evolve(c)
    BY <1>2, <2>3, <2>7, <2>8 DEF Evolve
  <2>10. objects' = objs => DOMAIN objects' = DOMAIN objs
    OBVIOUS
  <2>11. QED
    BY <1>2, <2>5, <2>6, <2>7, <2>9, <2>10
<1>6. QED
  BY <1>4, <1>5

\* What a statement without a location of its own asks for is kept in its entry.
LEMMA InfoEvolve ==
  ASSUME TypeInv, NEW c \in Conn, NEW o, database # Null,
         objects' = [objects EXCEPT ![o].info = database]
  PROVE  /\ Evolve(c) /\ DOMAIN objects' = DOMAIN objects
         /\ \A i \in DOMAIN objects : /\ objects'[i].state = objects[i].state
                                      /\ i # o => objects'[i] = objects[i]
                                      /\ i = o => objects'[i].info = database
<1>1. /\ objects \in Seq(Entry) /\ OneInSet(objects) /\ database \in Database
      /\ Len(objects) \in Nat /\ DOMAIN objects = 1 .. Len(objects)
      /\ \A i \in DOMAIN objects : objects[i] \in Entry
  <2>1. objects \in Seq(Entry) /\ OneInSet(objects) /\ database \in Database
    BY DEF TypeInv
  <2>2. QED
    BY <2>1, LenProperties
<1>2. CASE o \in DOMAIN objects
  <2> DEFINE e == [objects[o] EXCEPT !.info = database]
  <2>1. e \in Entry /\ e.state = objects[o].state /\ e.info = database
    BY <1>1, <1>2 DEF Entry
  <2>2. objects' = [objects EXCEPT ![o] = e]
    BY <1>1, <1>2
  <2>3. /\ objects' \in Seq(Entry) /\ DOMAIN objects' = DOMAIN objects
        /\ \A j \in DOMAIN objects : objects'[j] = IF j = o THEN e ELSE objects[j]
    BY <1>1, <1>2, <2>1, <2>2, ExceptSeq
  <2>4. OneInSet(objects')
    BY <1>1, <2>1, <2>3 DEF OneInSet, InSet
  <2>5. QED
    BY <2>1, <2>3, <2>4 DEF Evolve
<1>3. CASE o \notin DOMAIN objects
  <2>1. objects' = objects
    BY <1>1, <1>3
  <2>2. QED
    BY <1>1, <1>3, <2>1 DEF Evolve
<1>4. QED
  BY <1>2, <1>3

-----------------------------------------------------------------------------
(* What keeps each layer of the invariant *)

\* One statement goes on, by definitions and entries that have their types.
LEMMA TypeFrame ==
  ASSUME TypeInv, NEW c \in Conn, NEW step \in Step, Goes(c, step), Evolve(c),
         step = "update" => s'[c].bound # Null,
         step = "update database" => s'[c].info # Null,
         database' \in Database \cup {Null}, table' \in Definition \cup {Null},
         made' \in [id : Nat, second : Nat], is_loaded' \in BOOLEAN,
         cached' \in [Conn -> Definition \cup {Null, Unread}],
         unseen' \in BOOLEAN, changes' = changes
  PROVE  TypeInv'
<1>1. \A d \in Conn : /\ s'[d].step = "update" => s'[d].bound # Null
                      /\ s'[d].step = "update database" => s'[d].info # Null
  BY DEF TypeInv, Goes
<1>2. objects' \in Seq(Entry) /\ OneInSet(objects)'
  BY DEF Evolve, OneInSet, InSet
<1>3. QED
  BY <1>1, <1>2 DEF TypeInv, Goes, Statements

\* The entries of the other statements are left alone.
LEMMA ObjFrame ==
  ASSUME TypeInv, ObjInv, NEW c \in Conn, Evolve(c), \A d \in Conn \ {c} : s'[d] = s[d],
         s'[c].step \in Private =>
           /\ s'[c].obj \in DOMAIN objects' /\ objects'[s'[c].obj].state = "private"
           /\ \/ s'[c].obj \notin DOMAIN objects
              \/ s[c].step \in Private /\ s[c].obj = s'[c].obj,
         Holds(c)' =>
           s'[c].obj \in DOMAIN objects' /\ objects'[s'[c].obj].state \in {"set", "retired"},
         s'[c].step \in {"start", "private", "confirm", "schema"} => s'[c].entry = Null,
         s'[c].step = "create database" => s'[c].do = "create schema"
  PROVE  ObjInv'
<1>1. ASSUME NEW d \in Conn \ {c}
      PROVE  ObjInvOf(d)'
  <2>1. s'[d] = s[d] /\ ObjInvOf(d) /\ ObjInvOf(c)
    BY <1>1 DEF ObjInv
  <2>2. ASSUME s'[d].step \in Private
        PROVE  /\ s'[d].obj \in DOMAIN objects' /\ objects'[s'[d].obj].state = "private"
               /\ \A e \in Conn \ {d} : s'[e].step \in Private => s'[e].obj # s'[d].obj
    <3>1. s[d].obj \in DOMAIN objects /\ objects[s[d].obj].state = "private"
      BY <2>1, <2>2 DEF ObjInvOf
    <3>2. ~(s[c].step \in Private /\ s[c].obj = s[d].obj)
      BY <1>1, <2>1, <2>2 DEF ObjInvOf
    <3>3. s[d].obj \in DOMAIN objects' /\ objects'[s[d].obj].state = "private"
      BY <3>1, <3>2 DEF Evolve
    <3>4. s'[c].step \in Private => s'[c].obj # s[d].obj
      BY <3>1, <3>2
    <3>5. ASSUME NEW e \in Conn \ {c, d}, s[e].step \in Private
          PROVE  s[e].obj # s[d].obj
      BY <1>1, <2>1, <2>2, <3>5 DEF ObjInvOf
    <3>6. QED
      BY <1>1, <2>1, <3>3, <3>4, <3>5
  <2>3. ASSUME Holds(d)
        PROVE  s[d].obj \in DOMAIN objects' /\ objects'[s[d].obj].state \in {"set", "retired"}
    BY <2>1, <2>3 DEF ObjInvOf, Evolve
  <2>4. Holds(d)' => Holds(d)
    BY <2>1 DEF Holds
  <2>5. /\ s'[d].step \in {"start", "private", "confirm", "schema"} => s'[d].entry = Null
        /\ s'[d].step = "create database" => s'[d].do = "create schema"
    BY <2>1 DEF ObjInvOf
  <2>6. QED
    BY <2>1, <2>2, <2>3, <2>4, <2>5 DEF ObjInvOf
<1>2. ObjInvOf(c)'
  <2>1. ASSUME s'[c].step \in Private, NEW d \in Conn \ {c}, s'[d].step \in Private
        PROVE  s'[d].obj # s'[c].obj
    <3>1. s'[d] = s[d] /\ ObjInvOf(d)
      BY <2>1 DEF ObjInv
    <3>2. s[d].obj \in DOMAIN objects
      BY <2>1, <3>1 DEF ObjInvOf
    <3>3. s[c].step \in Private => s[c].obj # s[d].obj
      BY <2>1, <3>1 DEF ObjInvOf
    <3>4. QED
      BY <2>1, <3>1, <3>2, <3>3
  <2>2. QED
    BY <2>1 DEF ObjInvOf
<1>3. QED
  BY <1>1, <1>2 DEF ObjInv

\* The database stays as it is and what gets into the set is true of it.
LEMMA InfoFrame ==
  ASSUME InfoInv, NEW c \in Conn, \A d \in Conn \ {c} : s'[d] = s[d],
         database' = database, unseen => unseen',
         \A i \in DOMAIN objects' :
           /\ objects'[i].state = "private" => objects'[i].info = Null
           /\ objects'[i].state = "set" =>
                \/ objects'[i].info \in {Null, database} \/ unseen'
                \/ /\ i \in DOMAIN objects /\ objects[i].state = "set"
                   /\ objects'[i].info = objects[i].info,
         \/ unseen' \/ s'[c].step \in {"fetch", "install", "remove"}
         \/ s[c].step \notin {"fetch", "install", "remove"}
         \/ \A i \in InSet(objects)' : objects'[i].info = database,
         s'[c].step \in {"update database", "install"} => unseen' \/ s'[c].info = database
  PROVE  InfoInv'
<1>1. \A d \in Conn : s'[d].step \in {"update database", "install"} =>
                        unseen' \/ s'[d].info = database'
  BY DEF InfoInv
<1>2. SchemaInfoFresh'
  <2> SUFFICES ASSUME NEW i \in InSet(objects)', objects'[i].info \notin {Null, database},
                      ~unseen'
               PROVE  \E d \in Conn : s'[d].step \in {"fetch", "install", "remove"}
    BY DEF SchemaInfoFresh
  <2>1. i \in DOMAIN objects' /\ objects'[i].state = "set"
    BY DEF InSet
  <2>2. i \in InSet(objects) /\ objects[i].info = objects'[i].info
    BY <2>1 DEF InSet
  <2>3. PICK d \in Conn : s[d].step \in {"fetch", "install", "remove"}
    BY <2>2 DEF InfoInv, SchemaInfoFresh
  <2>4. CASE d # c
    BY <2>3, <2>4
  <2>5. CASE d = c
    BY <2>3, <2>5
  <2>6. QED
    BY <2>4, <2>5
<1>3. QED
  BY <1>1, <1>2 DEF InfoInv

\* A request of the statement c changes the database.
LEMMA InfoChanged ==
  ASSUME InfoInv, NEW c \in Conn, NEW step \in {"fetch", "remove"},
         objects' = objects, \A d \in Conn \ {c} : s'[d] = s[d],
         \/ s'[c].step = step /\ unseen' = (unseen \/ Overlaps(c))
         \/ s'[c].step = "end" /\ unseen' = TRUE
  PROVE  InfoInv'
<1>1. unseen' \/ s'[c].step \in {"fetch", "install", "remove"}
  OBVIOUS
<1>2. ASSUME NEW d \in Conn, s'[d].step \in {"update database", "install"}
      PROVE  unseen'
  <2>1. CASE d = c
    BY <1>2, <2>1
  <2>2. CASE d # c
    BY <1>2, <2>2 DEF Overlaps
  <2>3. QED
    BY <2>1, <2>2
<1>3. QED
  BY <1>1, <1>2 DEF InfoInv, SchemaInfoFresh

\* The table stays as it is: what is learnt of it was known, or is as it is now.
LEMMA VersionFrame ==
  ASSUME TypeInv, VersionInv, table' = table, made'.id \in Nat, made'.id >= made.id,
         \A d \in Conn :
           /\ cached'[d] \in {cached[d], table, Null, Unread}
           /\ s'[d].entry \in {s[d].entry, cached[d], table, Null}
           /\ s'[d].bound \in {s[d].bound, s[d].entry, table}
  PROVE  VersionInv'
<1>1. made.id \in Nat /\ (table # Null => table \in Definition)
  BY DEF TypeInv
<1>2. IsEarlier(table)
  BY <1>1 DEF VersionInv, IsEarlier, Definition
<1>3. ASSUME NEW d, IsEarlier(d), d \notin {Null, Unread} => d.id \in Nat
      PROVE  IsEarlier(d)'
  BY <1>1, <1>3 DEF IsEarlier
<1>4. \A c \in Conn : /\ cached[c] \in Definition \cup {Null, Unread}
                      /\ s[c].entry \in Definition \cup {Null}
                      /\ s[c].bound \in Definition \cup {Null}
  BY DEF TypeInv, Statement
<1>5. \A d \in Definition : d.id \in Nat
  BY DEF Definition
<1>6. ASSUME NEW c \in Conn, NEW d \in {cached[c], s[c].entry, s[c].bound, table, Null, Unread}
      PROVE  IsEarlier(d)'
  <2>1. IsEarlier(d)
    BY <1>2, <1>6 DEF VersionInv, IsEarlier
  <2>2. d \notin {Null, Unread} => d.id \in Nat
    BY <1>1, <1>4, <1>5, <1>6
  <2>3. QED
    BY <1>3, <2>1, <2>2
<1>7. table' # Null => table'.id \in 1 .. made'.id
  BY <1>1 DEF VersionInv, Definition
<1>8. ASSUME NEW c \in Conn
      PROVE  IsEarlier(cached[c])' /\ IsEarlier(s[c].entry)' /\ IsEarlier(s[c].bound)'
  BY <1>6, <1>8 DEF IsEarlier
<1>9. QED
  BY <1>7, <1>8 DEF VersionInv

\* What a request does to the table: it is deleted, created, or another version of it is
\* stored.
Deletes == table' = Null /\ made' = made
Creates ==
  /\ table' \in Definition /\ table'.id = made.id + 1
  /\ made' \in [id : Nat, second : Nat] /\ made'.id = made.id + 1
Stores ==
  /\ table # Null /\ table' \in Definition /\ made' = made
  /\ table'.id = table.id /\ table'.version = table.version + 1
  /\ table'.mixed \/ (~table.mixed /\ table'.kind = table.kind)

\* No definition is later than the table that Glue has then.
LEMMA VersionChanged ==
  ASSUME TypeInv, VersionInv, Deletes \/ Creates \/ Stores,
         \A d \in Conn : /\ cached'[d] \in {cached[d], Unread}
                         /\ s'[d].entry = s[d].entry /\ s'[d].bound = s[d].bound
  PROVE  VersionInv'
<1>1. /\ made.id \in Nat /\ (table # Null => table.id \in Nat /\ table.version \in Nat)
      /\ \A c \in Conn : /\ cached[c] \in Definition \cup {Null, Unread}
                         /\ s[c].entry \in Definition \cup {Null}
                         /\ s[c].bound \in Definition \cup {Null}
  BY DEF TypeInv, Statement, Definition
<1>2. \A d \in Definition : d.id \in Nat /\ d.version \in Nat
  BY DEF Definition
<1>3. ASSUME NEW d \in Definition \cup {Null, Unread}, IsEarlier(d)
      PROVE  IsEarlier(d)'
  <2>1. CASE Deletes
    BY <1>3, <2>1 DEF IsEarlier, Deletes
  <2>2. CASE Creates
    BY <1>1, <1>2, <1>3, <2>2 DEF IsEarlier, Creates
  <2>3. CASE Stores
    BY <1>1, <1>2, <1>3, <2>3 DEF IsEarlier, Stores
  <2>4. QED
    BY <2>1, <2>2, <2>3
<1>4. ASSUME NEW c \in Conn
      PROVE  IsEarlier(cached[c])' /\ IsEarlier(s[c].entry)' /\ IsEarlier(s[c].bound)'
  <2>1. IsEarlier(cached[c]) /\ IsEarlier(s[c].entry) /\ IsEarlier(s[c].bound)
    BY DEF VersionInv
  <2>2. \A d \in {cached[c], s[c].entry, s[c].bound} : IsEarlier(d)'
    BY <1>1, <1>3, <2>1
  <2>3. QED
    BY <2>2 DEF IsEarlier
<1>5. table' # Null => table'.id \in 1 .. made'.id
  BY <1>1 DEF VersionInv, Deletes, Creates, Stores
<1>6. QED
  BY <1>4, <1>5 DEF VersionInv

\* A table that was there earlier is the same one, under the name.
SameOrLater ==
  table' # Null => (table # Null /\ table'.id = table.id) \/ table'.id > made.id

\* What a request does leaves it the same, or a later one.
LEMMA ChangedLater ==
  ASSUME TypeInv, table' = table \/ Deletes \/ Creates \/ Stores
  PROVE  SameOrLater
<1>1. made.id \in Nat
  BY DEF TypeInv
<1>2. QED
  BY <1>1 DEF SameOrLater, Deletes, Creates, Stores

\* What the other statements know is still so; what is lost need not be known.
LEMMA KindFrame ==
  ASSUME TypeInv, VersionInv, KindInv, SameOrLater,
         made'.id \in Nat, made'.id >= made.id, table' \in Definition \cup {Null},
         \A d \in Conn : KindInvOf(d)' \/ (s'[d] = s[d] /\ cached'[d] = cached[d]),
         \A l \in lost' : l \in lost \/ ~l.known \/ IsAbout(l)
  PROVE  KindInv'
<1>1. made.id \in Nat /\ \A d \in Conn : s[d].at \in Nat
  BY DEF TypeInv, Statement
<1>2. table' # Null => table'.id \in Nat
  BY DEF Definition
<1>3. ASSUME NEW d \in Conn, s'[d] = s[d], cached'[d] = cached[d]
      PROVE  KindInvOf(d)'
  <2>1. KindInvOf(d) /\ s[d].at <= made.id
    BY DEF KindInv, KindInvOf
  <2>2. table' # Null /\ table'.id <= s[d].at =>
          table # Null /\ table.id <= s[d].at /\ table'.id = table.id
    BY <1>1, <1>2, <2>1 DEF SameOrLater
  <2>3. \A x : Saw(d, x) => (table' # Null /\ table'.id <= s[d].at => x # Null /\ x.id = table'.id)
    BY <2>2 DEF Saw
  <2>4. s'[d].at <= made'.id
    BY <1>1, <1>3, <2>1
  <2>5. cached'[d] = Unread \/ Saw(d, cached[d])'
    BY <1>3, <2>1, <2>3 DEF KindInvOf, Saw
  <2>6. Saw(d, s[d].entry) => Saw(d, s[d].entry)'
    BY <1>3, <2>3 DEF Saw
  <2>7. QED
    BY <1>3, <2>1, <2>2, <2>4, <2>5, <2>6 DEF KindInvOf
<1>4. KindKept'
  BY DEF KindInv, KindKept, IsAbout
<1>5. QED
  BY <1>3, <1>4 DEF KindInv

-----------------------------------------------------------------------------
(* Steps that leave Glue as it is *)

\* What SchemaInfoFresh needs of an entry in the set: it says what is so, or what it said.
InfoStays(i) ==
  \/ objects'[i].info \in {Null, database} \/ unseen'
  \/ i \in DOMAIN objects /\ objects[i].state = "set" /\ objects'[i].info = objects[i].info

\* Glue has the table that it had.
LEMMA SameGlue ==
  ASSUME TypeInv, made' = made, table' = table
  PROVE  /\ made'.id \in Nat /\ made'.id >= made.id
         /\ table' \in Definition \cup {Null} /\ SameOrLater
<1>1. made.id \in Nat /\ table \in Definition \cup {Null}
  BY DEF TypeInv
<1>2. made'.id >= made.id
  BY <1>1
<1>3. QED
  BY <1>1, <1>2 DEF SameOrLater

\* Only the statement c has to be looked at.
LEMMA StatementIInv ==
  ASSUME IInv, NEW c \in Conn, NEW step \in Step, Goes(c, step), Evolve(c),
         UNCHANGED <<glue, lost, changes>>,
         is_loaded' \in BOOLEAN, unseen' \in BOOLEAN, unseen => unseen',
         cached' \in [Conn -> Definition \cup {Null, Unread}],
         cached'[c] \in {cached[c], table, Unread},
         \A e \in Conn \ {c} : cached'[e] = cached[e],
         s'[c].entry \in {s[c].entry, cached[c], table, Null},
         s'[c].bound \in {s[c].bound, s[c].entry, table},
         step = "update" => s'[c].bound # Null,
         step = "update database" => s'[c].info # Null,
         step \in Private =>
           /\ s'[c].obj \in DOMAIN objects' /\ objects'[s'[c].obj].state = "private"
           /\ \/ s'[c].obj \notin DOMAIN objects
              \/ s[c].step \in Private /\ s[c].obj = s'[c].obj,
         Holds(c)' =>
           s'[c].obj \in DOMAIN objects' /\ objects'[s'[c].obj].state \in {"set", "retired"},
         step \in {"start", "private", "confirm", "schema"} => s'[c].entry = Null,
         step = "create database" => s[c].do = "create schema",
         \A i \in DOMAIN objects' :
           /\ objects'[i].state = "private" => objects'[i].info = Null
           /\ objects'[i].state = "set" => InfoStays(i),
         \/ unseen' \/ step \in {"fetch", "install", "remove"}
         \/ s[c].step \notin {"fetch", "install", "remove"}
         \/ \A i \in InSet(objects)' : objects'[i].info = database,
         step \in {"update database", "install"} => unseen' \/ s'[c].info = database,
         KindInvOf(c)'
  PROVE  IInv'
<1>1. /\ TypeInv /\ ObjInv /\ InfoInv /\ VersionInv /\ KindInv /\ table' = table
      /\ made' = made /\ database' = database
  BY DEF IInv, glue
<1>2. \A e \in Conn \ {c} : s'[e] = s[e] /\ cached'[e] = cached[e]
  BY DEF Goes
<1>4. TypeInv'
  BY <1>1, TypeFrame DEF TypeInv
<1>5. ObjInv'
  BY <1>1, <1>2, ObjFrame DEF Goes
<1>6. InfoInv'
  BY <1>1, <1>2, InfoFrame DEF InfoStays, Goes
<1>7. VersionInv'
  <2>1. made'.id \in Nat /\ made'.id >= made.id
    BY <1>1, SameGlue
  <2>2. \A e \in Conn :
          /\ cached'[e] \in {cached[e], table, Null, Unread}
          /\ s'[e].entry \in {s[e].entry, cached[e], table, Null}
          /\ s'[e].bound \in {s[e].bound, s[e].entry, table}
    BY <1>2
  <2>3. QED
    BY <1>1, <2>1, <2>2, VersionFrame
<1>8. KindInv'
  <2>1. \A e \in Conn : KindInvOf(e)' \/ (s'[e] = s[e] /\ cached'[e] = cached[e])
    BY <1>2
  <2>2. QED
    BY <1>1, <2>1, SameGlue, KindFrame
<1>9. QED
  BY <1>4, <1>5, <1>6, <1>7, <1>8 DEF IInv

\* The statement uses the schema entry it had, if any, and nothing else changes.
LEMMA QuietIInv ==
  ASSUME IInv, NEW c \in Conn, NEW step \in Step \ Private, Goes(c, step),
         UNCHANGED <<glue, schemas, cached, histories>>,
         s'[c].obj = s[c].obj,
         s'[c].entry = s[c].entry,
         s'[c].bound \in {s[c].bound, s[c].entry, table},
         step = "update" => s'[c].bound # Null,
         step = "update database" => s'[c].info # Null,
         Holds(c)' => Holds(c),
         step \notin {"start", "create database"}, step = "schema" => s[c].entry = Null,
         s[c].step \notin {"fetch", "install", "remove"},
         step \in {"update database", "install"} => s'[c].info = database,
         KindInvOf(c)'
  PROVE  IInv'
<1>1. TypeInv /\ ObjInv /\ InfoInv /\ objects' = objects /\ cached' = cached
      /\ is_loaded' = is_loaded /\ unseen' = unseen
  BY DEF IInv, schemas, histories
<1>2. Evolve(c)
  BY <1>1, SameEvolve
<1>3. cached' \in [Conn -> Definition \cup {Null, Unread}]
  BY <1>1 DEF TypeInv
<1>4. is_loaded' \in BOOLEAN /\ unseen' \in BOOLEAN
  BY <1>1 DEF TypeInv
<1>5. Holds(c) => s[c].obj \in DOMAIN objects /\ objects[s[c].obj].state \in {"set", "retired"}
  BY <1>1 DEF ObjInv, ObjInvOf
<1>6. \A i \in DOMAIN objects' :
           /\ objects'[i].state = "private" => objects'[i].info = Null
           /\ objects'[i].state = "set" => InfoStays(i)
  BY <1>1 DEF InfoInv, InfoStays
<1>7. s'[c].step = step
  BY DEF Goes
<1>8. UNCHANGED <<glue, lost, changes>>
  BY DEF histories
<1>9. Holds(c)' =>
        s'[c].obj \in DOMAIN objects' /\ objects'[s'[c].obj].state \in {"set", "retired"}
  BY <1>1, <1>5
<1>10. step \in {"start", "private", "confirm", "schema"} => s'[c].entry = Null
  BY DEF Private
<1>11. step \in {"update database", "install"} => unseen' \/ s'[c].info = database
  OBVIOUS
<1>12. step # "create database"
  OBVIOUS
<1>13. QED
  BY <1>1, <1>2, <1>3, <1>4, <1>6, <1>7, <1>8, <1>9, <1>10, <1>11, <1>12, StatementIInv

\* What the statement knows lasts as long as it does not look anything up.
LEMMA KindStays ==
  ASSUME TypeInv, VersionInv, KindInv, NEW c \in Conn, SameOrLater,
         made'.id \in Nat, made'.id >= made.id, table' \in Definition \cup {Null},
         cached'[c] \in {cached[c], Unread},
         s'[c].at = s[c].at
  PROVE  /\ s'[c].at <= made'.id
         /\ cached'[c] = Unread \/ Saw(c, cached[c])'
         /\ s'[c].entry = s[c].entry /\ Saw(c, s[c].entry) => Saw(c, s[c].entry)'
         /\ table' # Null /\ table'.id <= s'[c].at => table # Null /\ table.id <= s[c].at
<1>1. made.id \in Nat /\ s[c].at \in Nat /\ KindInvOf(c)
  BY DEF TypeInv, Statement, KindInv
<1>2. table' # Null => table'.id \in Nat
  BY DEF Definition
<1>3. s[c].at <= made.id
  BY <1>1 DEF KindInvOf
<1>4. table' # Null /\ table'.id <= s[c].at =>
        table # Null /\ table.id <= s[c].at /\ table'.id = table.id
  BY <1>1, <1>2, <1>3 DEF SameOrLater
<1>5. cached'[c] = Unread \/ Saw(c, cached[c])'
  BY <1>1, <1>4 DEF KindInvOf, Saw
<1>6. s'[c].entry = s[c].entry /\ Saw(c, s[c].entry) => Saw(c, s[c].entry)'
  BY <1>4 DEF Saw
<1>7. s'[c].at <= made'.id
  BY <1>1, <1>3
<1>8. QED
  BY <1>4, <1>5, <1>6, <1>7

\* A statement that goes on by To.
LEMMA PassIInv ==
  ASSUME IInv, NEW c \in Conn, NEW step \in Step \ Private, To(c, step),
         UNCHANGED <<glue, schemas, cached, histories>>,
         step \notin {"start", "update", "create database", "update database", "install"},
         Holds(c)' => Holds(c),
         step = "schema" => s[c].entry = Null,
         s[c].step \notin {"fetch", "install", "remove"},
         step \in {"add", "found", "write", "delete"} => s[c].step = "found",
         step = "write" /\ s[c].do = "create view" =>
           s[c].entry # Null /\ s[c].entry.kind = "duckdb view",
         step = "delete" =>
           /\ s[c].entry # Null
           /\ \/ s[c].do = "drop table" /\ s[c].entry.kind = "table"
              \/ s[c].do = "drop view" /\ s[c].entry.kind = "duckdb view",
         step \notin {"check empty", "delete database"}
  PROVE  IInv'
<1>1. TypeInv /\ VersionInv /\ KindInv /\ KindInvOf(c) /\ table' = table /\ made' = made
      /\ cached' = cached
  BY DEF IInv, KindInv, glue
<1>2. s \in Statements
  BY <1>1 DEF TypeInv, Statements
<1>3. Goes(c, step) /\ s'[c] = [s[c] EXCEPT !.step = step]
  BY <1>2, ToFacts
<1>4. /\ s'[c].obj = s[c].obj /\ s'[c].entry = s[c].entry /\ s'[c].bound = s[c].bound
      /\ s'[c].at = s[c].at /\ s'[c].do = s[c].do /\ s'[c].step = step
  BY <1>2, <1>3 DEF Statements, Statement, Goes
<1>5. made'.id \in Nat /\ made'.id >= made.id /\ table' \in Definition \cup {Null} /\ SameOrLater
  BY <1>1, SameGlue
<1>6. KindInvOf(c)'
  <2>1. /\ s'[c].at <= made'.id
        /\ cached'[c] = Unread \/ Saw(c, cached[c])'
        /\ Saw(c, s[c].entry) => Saw(c, s[c].entry)'
    BY <1>1, <1>4, <1>5, KindStays
  <2>2. s[c].step = "found" => Saw(c, s[c].entry)
    BY <1>1 DEF KindInvOf
  <2>3. QED
    BY <1>4, <2>1, <2>2 DEF KindInvOf, Private
<1>7. QED
  BY <1>3, <1>4, <1>6, QuietIInv

\* A statement that ends without having changed anything.
LEMMA EndIInv ==
  ASSUME IInv, NEW c \in Conn, End(c), UNCHANGED <<glue, schemas, cached, histories>>,
         s[c].step \notin {"fetch", "install", "remove"}
  PROVE  IInv'
<1>1. To(c, "end") /\ "end" \in Step \ Private /\ s \in Statements
  BY DEF End, Step, Private, IInv, TypeInv, Statements
<1>2. ~Holds(c)'
  BY <1>1, ToFacts DEF Holds, Goes
<1>3. QED
  BY <1>1, <1>2, PassIInv

\* The statements that look for the schema first.
LEMMA LookupSchemaIInv ==
  ASSUME IInv, NEW c \in Conn, LookupSchema(c)
  PROVE  IInv'
<1>1. To(c, "schema") /\ "schema" \in Step \ Private /\ s \in Statements /\ s[c].step = "start"
  BY DEF LookupSchema, Step, Private, IInv, TypeInv, Statements
<1>2. s[c].entry = Null
  BY <1>1 DEF IInv, ObjInv, ObjInvOf
<1>3. s'[c].step = "schema" /\ s'[c].entry = Null
  <2>1. s'[c] = [s[c] EXCEPT !.step = "schema"]
    BY <1>1, ToFacts
  <2>2. QED
    BY <1>1, <1>2, <2>1 DEF Statements, Statement
<1>4. ~Holds(c)'
  BY <1>3 DEF Holds
<1>5. QED
  BY <1>1, <1>2, <1>4, PassIInv DEF LookupSchema

\* Where a statement goes on with the table it has found.
LEMMA FoundIInv ==
  ASSUME IInv, NEW c \in Conn,
         \/ CreateTableInternal(c) \/ CreateView(c) \/ Alter(c) \/ DropEntry(c) \/ EndQuery(c)
  PROVE  IInv'
<1>1. s[c].step = "found" /\ UNCHANGED <<glue, schemas, cached, histories>> /\ s \in Statements
  BY DEF CreateTableInternal, CreateView, Alter, DropEntry, EndQuery, Finds, GoesTo, IInv,
         TypeInv, Statements
<1>2. \E step \in {"end", "info", "create", "write", "delete"} :
        /\ To(c, step)
        /\ step = "write" /\ s[c].do = "create view" =>
             s[c].entry # Null /\ s[c].entry.kind = "duckdb view"
        /\ step = "delete" =>
             /\ s[c].entry # Null
             /\ \/ s[c].do = "drop table" /\ s[c].entry.kind = "table"
                \/ s[c].do = "drop view" /\ s[c].entry.kind = "duckdb view"
  <2>1. CASE CreateTableInternal(c) \/ EndQuery(c)
    BY <2>1 DEF CreateTableInternal, EndQuery, GoesTo, End
  <2>2. CASE CreateView(c)
    BY <2>2 DEF CreateView, GoesTo, FoundKind, ReplacesExistingView
  <2>3. CASE Alter(c)
    BY <2>3 DEF Alter, GoesTo, Finds
  <2>4. CASE DropEntry(c)
    <3>1. PICK do \in {"drop table", "drop view"} : Finds(c, do)
      BY <2>4 DEF DropEntry
    <3>2. s[c].do = do
      BY <3>1 DEF Finds
    <3>3. CASE To(c, "end")
      BY <3>3
    <3>4. CASE To(c, "delete") /\ FoundKind(c) /\ s[c].entry.kind # "view"
      <4>1. s[c].entry # Null /\ s[c].entry.kind \in Kind
        BY <3>4, <1>1 DEF FoundKind, Statements, Statement, Definition
      <4>2. (s[c].entry.kind = "table") = (s[c].do = "drop table")
        BY <3>2, <3>4 DEF FoundKind, CheckEntryType, AboutView
      <4>3. QED
        BY <3>2, <3>4, <4>1, <4>2 DEF Kind
    <3>5. QED
      BY <2>4, <3>3, <3>4 DEF DropEntry, GoesTo
  <2>5. QED
    BY <2>1, <2>2, <2>3, <2>4
<1>3. PICK step \in {"end", "info", "create", "write", "delete"} :
        /\ To(c, step)
        /\ step = "write" /\ s[c].do = "create view" =>
             s[c].entry # Null /\ s[c].entry.kind = "duckdb view"
        /\ step = "delete" =>
             /\ s[c].entry # Null
             /\ \/ s[c].do = "drop table" /\ s[c].entry.kind = "table"
                \/ s[c].do = "drop view" /\ s[c].entry.kind = "duckdb view"
  BY <1>2
<1>4. step \in Step \ Private
  BY DEF Step, Private
<1>5. Holds(c)
  BY <1>1 DEF Holds
<1>6. QED
  BY <1>1, <1>3, <1>4, <1>5, PassIInv

\* What Writes does to the statement.
LEMMA WritesFacts ==
  ASSUME s \in Statements, NEW c \in Conn, NEW def \in Definition \cup {Null}, Writes(c, def)
  PROVE  /\ Goes(c, "update")
         /\ s'[c] = [s[c] EXCEPT !.step = "update", !.bound = def]
<1> DEFINE new == [s[c] EXCEPT !.step = "update", !.bound = def]
<1>1. new \in Statement
  BY DEF Statements, Statement, Step
<1>2. s' = [s EXCEPT ![c] = new]
  BY DEF Writes, Statements, Statement
<1>3. QED
  BY <1>1, <1>2 DEF Goes, Statements, Statement

\* A definition that was read is sent back next; that of a view to replace is still of one.
LEMMA WritesIInv ==
  ASSUME IInv, NEW c \in Conn, NEW def \in {s[c].entry, table}, def # Null, Writes(c, def),
         UNCHANGED <<glue, schemas, cached, histories>>,
         \/ s[c].step = "write"
         \/ s[c].step = "start" /\ s[c].do # "create view"
  PROVE  IInv'
<1>1. TypeInv /\ VersionInv /\ KindInv /\ KindInvOf(c) /\ ObjInvOf(c) /\ table' = table
      /\ made' = made /\ cached' = cached
  BY DEF IInv, KindInv, ObjInv, glue
<1>2. s \in Statements /\ def \in Definition \cup {Null}
  BY <1>1 DEF TypeInv, Statements, Statement
<1>3. Goes(c, "update") /\ s'[c] = [s[c] EXCEPT !.step = "update", !.bound = def]
  BY <1>2, WritesFacts
<1>4. /\ s'[c].obj = s[c].obj /\ s'[c].entry = s[c].entry /\ s'[c].bound = def
      /\ s'[c].at = s[c].at /\ s'[c].do = s[c].do /\ s'[c].step = "update"
  BY <1>2, <1>3 DEF Statements, Statement
<1>5. /\ s'[c].at <= made'.id
      /\ cached'[c] = Unread \/ Saw(c, cached[c])'
      /\ Saw(c, s[c].entry) => Saw(c, s[c].entry)'
  BY <1>1, <1>4, SameGlue, KindStays
<1>6. KindInvOf(c)'
  BY <1>1, <1>4, <1>5 DEF KindInvOf
<1>7. Holds(c)' => Holds(c)
  BY <1>1, <1>4 DEF Holds, ObjInvOf
<1>8. "update" \in Step \ Private
  BY DEF Step, Private
<1>9. QED
  BY <1>3, <1>4, <1>6, <1>7, <1>8, QuietIInv

\* Fetching the definition to send back, and binding a function.
LEMMA BindIInv ==
  ASSUME IInv, NEW c \in Conn, DefinitionForWrite(c) \/ ResolveGlueTable(c)
  PROVE  IInv'
<1>1. UNCHANGED <<glue, schemas, cached, histories>>
  BY DEF DefinitionForWrite, ResolveGlueTable
<1>2. s[c].step \in {"write", "start"}
  BY DEF DefinitionForWrite, ResolveGlueTable
<1>3. CASE End(c)
  BY <1>1, <1>2, <1>3, EndIInv
<1>4. CASE ~End(c) /\ DefinitionForWrite(c)
  <2>1. Current(c) # Null /\ Writes(c, Current(c)) /\ s[c].step = "write"
    BY <1>4 DEF DefinitionForWrite, ChecksColumns
  <2>2. Current(c) \in {s[c].entry, table}
    BY DEF Current
  <2>3. QED
    BY <1>1, <2>1, <2>2, WritesIInv
<1>5. CASE ~End(c) /\ ResolveGlueTable(c)
  <2>1. table # Null /\ Writes(c, table) /\ s[c].step = "start" /\ s[c].do = "columns"
    BY <1>5 DEF ResolveGlueTable, ReplaceColumnsBind
  <2>2. QED
    BY <1>1, <2>1, WritesIInv
<1>6. QED
  BY <1>3, <1>4, <1>5

\* A lookup of the table: what it finds was there when Glue was asked.
LEMMA FindKind ==
  ASSUME TypeInv, VersionInv, KindInv, NEW c \in Conn, NEW step \in Step, FindTable(c, step)
  PROVE  /\ s'[c].at <= made'.id
         /\ cached'[c] = Unread \/ Saw(c, cached[c])'
         /\ Saw(c, s[c].entry)'
<1>1. /\ s'[c].entry = LookUp(c) /\ cached'[c] = LookUp(c)
      /\ s'[c].at = IF cached[c] = Unread THEN made.id ELSE s[c].at
      /\ table' = table /\ made' = made
  BY FindFacts DEF glue
<1>2. KindInvOf(c) /\ made.id \in Nat
  BY DEF KindInv, TypeInv
<1>3. table' # Null /\ table'.id <= s'[c].at => LookUp(c) # Null /\ LookUp(c).id = table'.id
  BY <1>1, <1>2 DEF Saw, LookUp, KindInvOf
<1>4. s'[c].at <= made'.id
  <2>1. made'.id >= made.id
    BY <1>1, SameGlue
  <2>2. QED
    BY <1>1, <1>2, <2>1 DEF KindInvOf
<1>5. Saw(c, s[c].entry)' /\ Saw(c, cached[c])'
  BY <1>1, <1>3 DEF Saw
<1>6. QED
  BY <1>4, <1>5

\* A lookup in a schema entry that the statement has.
LEMMA FindIInv ==
  ASSUME IInv, NEW c \in Conn, NEW step \in {"confirm", "add", "found", "write", "end"},
         FindTable(c, step),
         step \in {"confirm", "add"} => s[c].step = "private",
         step = "confirm" => LookUp(c) = Null,
         step \in {"found", "write"} => Holds(c),
         step = "write" =>
           /\ s[c].do = "create view" => LookUp(c) # Null /\ LookUp(c).kind = "duckdb view",
         s[c].step \notin {"fetch", "install", "remove"}
  PROVE  IInv'
<1>1. /\ TypeInv /\ ObjInv /\ InfoInv /\ VersionInv /\ KindInv /\ KindInvOf(c) /\ ObjInvOf(c)
      /\ step \in Step
  BY DEF IInv, KindInv, ObjInv, Step
<1>2. Goes(c, step) /\ cached' = [cached EXCEPT ![c] = LookUp(c)]
      /\ UNCHANGED <<glue, schemas, histories>>
  BY <1>1, FindFacts
<1>3. /\ s'[c].obj = s[c].obj /\ s'[c].bound = s[c].bound /\ s'[c].entry = LookUp(c)
      /\ s'[c].do = s[c].do /\ s'[c].step = step /\ s'[c].info = s[c].info
  BY <1>1, FindFacts DEF Goes
<1>4. objects' = objects /\ is_loaded' = is_loaded /\ unseen' = unseen
      /\ UNCHANGED <<glue, lost, changes>>
  BY <1>2 DEF schemas, histories
<1>5. is_loaded' \in BOOLEAN /\ unseen' \in BOOLEAN
  BY <1>1, <1>4 DEF TypeInv
<1>6. Evolve(c)
  BY <1>1, <1>4, SameEvolve
<1>7. LookUp(c) \in {cached[c], table, Unread}
  BY DEF LookUp
<1>8. KindInvOf(c)'
  <2>1. /\ s'[c].at <= made'.id
        /\ cached'[c] = Unread \/ Saw(c, cached[c])'
        /\ Saw(c, s[c].entry)'
    BY <1>1, FindKind
  <2>2. QED
    BY <1>3, <2>1 DEF KindInvOf
<1>9. \A i \in DOMAIN objects' :
           /\ objects'[i].state = "private" => objects'[i].info = Null
           /\ objects'[i].state = "set" => InfoStays(i)
  BY <1>1, <1>4 DEF InfoInv, InfoStays
<1>10. step \in Private =>
         /\ s'[c].obj \in DOMAIN objects' /\ objects'[s'[c].obj].state = "private"
         /\ s[c].step \in Private /\ s[c].obj = s'[c].obj
  BY <1>1, <1>3, <1>4 DEF Private, ObjInvOf
<1>11. Holds(c)' =>
         s'[c].obj \in DOMAIN objects' /\ objects'[s'[c].obj].state \in {"set", "retired"}
  BY <1>1, <1>3, <1>4 DEF Holds, ObjInvOf
<1>12. s'[c].entry \in {s[c].entry, cached[c], table, Null}
  BY <1>3 DEF LookUp
<1>13. step \in {"start", "private", "confirm", "schema"} => s'[c].entry = Null
  BY <1>3
<1>14. step \notin {"update", "create database", "update database", "install"}
  OBVIOUS
<1>15. s'[c].bound \in {s[c].bound, s[c].entry, table}
  BY <1>3
<1>16. step \in Private =>
         /\ s'[c].obj \in DOMAIN objects' /\ objects'[s'[c].obj].state = "private"
         /\ \/ s'[c].obj \notin DOMAIN objects
            \/ s[c].step \in Private /\ s[c].obj = s'[c].obj
  BY <1>10
<1>17. cached'[c] \in {cached[c], table, Unread}
  BY <1>1, <1>7, FindFacts
<1>18. /\ cached' \in [Conn -> Definition \cup {Null, Unread}]
       /\ \A e \in Conn \ {c} : cached'[e] = cached[e]
  BY <1>1, <1>2, <1>7 DEF TypeInv
<1>19. unseen => unseen'
  BY <1>4
<1>20. QED
  BY <1>1, <1>2, <1>4, <1>5, <1>6, <1>8, <1>9, <1>11, <1>12, <1>13, <1>14, <1>15,
     <1>16, <1>17, <1>18, <1>19, StatementIInv

\* The three lookups of a statement.
LEMMA LookupTableIInv ==
  ASSUME IInv, NEW c \in Conn, LookupPrivate(c) \/ LookupEntry(c) \/ Raced(c)
  PROVE  IInv'
<1>1. CASE LookupPrivate(c)
  BY <1>1, FindIInv DEF LookupPrivate
<1>2. CASE LookupEntry(c)
  BY <1>2, FindIInv DEF LookupEntry, Holds
<1>3. CASE Raced(c)
  <2>1. s[c].step = "raced" /\ s[c].do # "create schema" /\ Holds(c)
    BY <1>3 DEF Raced, Holds
  <2>2. CASE FindTable(c, "end")
    BY <2>1, <2>2, FindIInv
  <2>3. CASE FindTable(c, "write") /\ LookUp(c) # Null /\ LookUp(c).kind = "duckdb view"
    BY <2>1, <2>3, FindIInv
  <2>4. QED
    BY <1>3, <2>2, <2>3 DEF Raced, ReplacesExistingView
<1>4. QED
  BY <1>1, <1>2, <1>3

-----------------------------------------------------------------------------
(* Steps that change the set of schemas *)

\* What gets into the set is true of the database, or was known.
InfoKept ==
  \A i \in DOMAIN objects' : /\ objects'[i].state = "private" => objects'[i].info = Null
                             /\ objects'[i].state = "set" => InfoStays(i)

\* The set asks Glue for the schema, or not.
LEMMA GetEntryInfo ==
  ASSUME TypeInv, InfoInv, objects' = objects \/ objects' = GetEntry
  PROVE  InfoKept
<1>1. CASE objects' = objects
  BY <1>1 DEF InfoInv, InfoKept, InfoStays
<1>2. CASE objects' = GetEntry
  <2>1. /\ DOMAIN objects \subseteq DOMAIN objects'
        /\ \A i \in DOMAIN objects : objects'[i] = objects[i]
        /\ \A i \in DOMAIN objects' \ DOMAIN objects : objects'[i] = Loaded(database)
    BY <1>2, GetEntryFacts
  <2>2. Loaded(database).info = database /\ Loaded(database).state = "set"
    BY DEF Loaded
  <2>3. QED
    BY <2>1, <2>2 DEF InfoInv, InfoKept, InfoStays
<1>3. QED
  BY <1>1, <1>2

\* A statement that goes on by To, with the set as it leaves it.
LEMMA ObjectsIInv ==
  ASSUME IInv, NEW c \in Conn, NEW step \in {"end", "found", "create"}, To(c, step),
         Evolve(c), UNCHANGED <<glue, cached, histories>>, is_loaded' \in BOOLEAN,
         step = "found" => s[c].step = "add",
         step # "end" =>
           s[c].obj \in DOMAIN objects' /\ objects'[s[c].obj].state \in {"set", "retired"},
         InfoKept,
         \/ s[c].step \notin {"fetch", "install", "remove"} \/ unseen
         \/ \A i \in InSet(objects)' : objects'[i].info = database
  PROVE  IInv'
<1>1. /\ TypeInv /\ VersionInv /\ KindInv /\ KindInvOf(c) /\ table' = table /\ made' = made
      /\ cached' = cached /\ unseen' = unseen /\ UNCHANGED <<lost, changes>>
  BY DEF IInv, KindInv, glue, histories
<1>2. s \in Statements /\ step \in Step
  BY <1>1 DEF TypeInv, Statements, Step
<1>3. Goes(c, step) /\ s'[c] = [s[c] EXCEPT !.step = step]
  BY <1>2, ToFacts
<1>4. /\ s'[c].obj = s[c].obj /\ s'[c].entry = s[c].entry /\ s'[c].bound = s[c].bound
      /\ s'[c].at = s[c].at /\ s'[c].do = s[c].do /\ s'[c].step = step
  BY <1>2, <1>3 DEF Statements, Statement, Goes
<1>5. KindInvOf(c)'
  <2>1. /\ s'[c].at <= made'.id
        /\ cached'[c] = Unread \/ Saw(c, cached[c])'
        /\ Saw(c, s[c].entry) => Saw(c, s[c].entry)'
    BY <1>1, <1>4, SameGlue, KindStays
  <2>2. s[c].step = "add" => Saw(c, s[c].entry)
    BY <1>1 DEF KindInvOf
  <2>3. QED
    BY <1>4, <2>1, <2>2 DEF KindInvOf
<1>6. /\ cached' \in [Conn -> Definition \cup {Null, Unread}]
      /\ unseen' \in BOOLEAN /\ (unseen => unseen')
  BY <1>1 DEF TypeInv
<1>7. Holds(c)' =>
        s'[c].obj \in DOMAIN objects' /\ objects'[s'[c].obj].state \in {"set", "retired"}
  <2>1. step = "end" => ~Holds(c)'
    BY <1>4 DEF Holds
  <2>2. QED
    BY <1>4, <2>1
<1>8. \A i \in DOMAIN objects' : /\ objects'[i].state = "private" => objects'[i].info = Null
                                 /\ objects'[i].state = "set" => InfoStays(i)
  BY DEF InfoKept
<1>9. step \notin Private \cup {"update", "update database", "install", "start", "schema"}
  BY DEF Private
<1>10. UNCHANGED <<glue, lost, changes>>
  BY <1>1
<1>11. step \notin {"start", "private", "confirm", "schema", "create database"}
  OBVIOUS
<1>12. \/ unseen' \/ step \in {"fetch", "install", "remove"}
       \/ s[c].step \notin {"fetch", "install", "remove"}
       \/ \A i \in InSet(objects)' : objects'[i].info = database
  BY <1>1
<1>13. cached'[c] \in {cached[c], table, Unread} /\ \A e \in Conn \ {c} : cached'[e] = cached[e]
  BY <1>1
<1>14. /\ s'[c].entry \in {s[c].entry, cached[c], table, Null}
       /\ s'[c].bound \in {s[c].bound, s[c].entry, table}
  BY <1>4
<1>15. QED
  BY <1>2, <1>3, <1>5, <1>6, <1>7, <1>8, <1>9, <1>10, <1>11, <1>12, <1>13, <1>14,
     StatementIInv

\* Lookups of the schema: the set is as it was, or has asked Glue.
LEMMA AskSchemaIInv ==
  ASSUME IInv, NEW c \in Conn, Stored(c) \/ RacedSchema(c)
  PROVE  IInv'
<1>1. TypeInv /\ InfoInv /\ (objects' = objects \/ objects' = GetEntry)
  BY DEF IInv, Stored, RacedSchema
<1>2. Evolve(c) /\ InfoKept
  BY <1>1, SameEvolve, GetEntryInfo
<1>3. /\ To(c, "end") /\ UNCHANGED <<glue, cached, histories>>
      /\ s[c].step \in {"stored", "raced"} /\ is_loaded' = is_loaded
  BY DEF Stored, RacedSchema, End
<1>4. is_loaded' \in BOOLEAN
  BY <1>1, <1>3 DEF TypeInv
<1>5. QED
  BY <1>2, <1>3, <1>4, ObjectsIInv

\* A listing.
LEMMA ScanIInv ==
  ASSUME IInv, NEW c \in Conn, Scan(c)
  PROVE  IInv'
<1>1. TypeInv /\ InfoInv /\ Loaded(database).state = "set" /\ Loaded(database).info = database
  BY DEF IInv, Loaded
<1>2. Evolve(c)
  BY <1>1, ScanEvolve
<1>3. InfoKept
  BY <1>1, ScanFacts DEF InfoKept, InfoStays, InfoInv
<1>4. /\ To(c, "end") /\ UNCHANGED <<glue, cached, histories>> /\ s[c].step = "start"
      /\ is_loaded' \in BOOLEAN
  BY DEF Scan, End
<1>5. QED
  BY <1>2, <1>3, <1>4, ObjectsIInv

\* The end of a private entry, in the set or not at all.
LEMMA OwnInfo ==
  ASSUME TypeInv, ObjInv, InfoInv, NEW c \in Conn, s[c].step \in Private,
         NEW state \in {"set", "gone"}, NEW objs \in {objects, GetEntry},
         state = "set" => objs = objects /\ InSet(objects) = {},
         objects' = [objs EXCEPT ![s[c].obj].state = state]
  PROVE  Evolve(c) /\ InfoKept
<1>1. /\ Evolve(c)
      /\ \A i \in DOMAIN objects :
           objects'[i] = IF i = s[c].obj THEN [objects[i] EXCEPT !.state = state] ELSE objects[i]
      /\ \A i \in DOMAIN objects' \ DOMAIN objects : objects'[i] = Loaded(database)
  BY OwnEvolve
<1>2. s[c].obj \in DOMAIN objects /\ objects[s[c].obj].state = "private"
  BY DEF ObjInv, ObjInvOf
<1>3. objects[s[c].obj].info = Null /\ objects[s[c].obj] \in Entry
  <2>1. objects[s[c].obj].info = Null
    BY <1>2 DEF InfoInv
  <2>2. objects \in Seq(Entry)
    BY DEF TypeInv
  <2>3. QED
    BY <1>2, <2>1, <2>2, LenProperties
<1>4. ASSUME NEW i \in DOMAIN objects'
      PROVE  /\ objects'[i].state = "private" => objects'[i].info = Null
             /\ objects'[i].state = "set" => InfoStays(i)
  <2>1. CASE i \notin DOMAIN objects
    BY <1>1, <1>4, <2>1 DEF Loaded, InfoStays
  <2>2. CASE i = s[c].obj
    <3>1. objects'[i].info = Null /\ objects'[i].state # "private"
      BY <1>1, <1>2, <1>3, <2>2 DEF Entry
    <3>2. QED
      BY <3>1 DEF InfoStays
  <2>3. CASE i \in DOMAIN objects /\ i # s[c].obj
    BY <1>1, <2>3 DEF InfoInv, InfoStays
  <2>4. QED
    BY <2>1, <2>2, <2>3
<1>5. QED
  BY <1>1, <1>4 DEF InfoKept

\* The table is missing and the private entry with it.
LEMMA ConfirmIInv ==
  ASSUME IInv, NEW c \in Conn, Confirm(c)
  PROVE  IInv'
<1>1. TypeInv /\ ObjInv /\ InfoInv /\ s[c].step = "confirm" /\ s[c].step \in Private
  BY DEF IInv, Confirm, Private
<1>2. objects' = [GetEntry EXCEPT ![s[c].obj].state = "gone"]
  BY DEF Confirm
<1>3. Evolve(c) /\ InfoKept
  BY <1>1, <1>2, OwnInfo
<1>4. /\ To(c, "end") /\ UNCHANGED <<glue, cached, histories>> /\ is_loaded' \in BOOLEAN
  BY <1>1 DEF Confirm, End, TypeInv
<1>5. QED
  BY <1>1, <1>3, <1>4, ObjectsIInv

\* What LookUpAgain does to the statement.
LEMMA AgainFacts ==
  ASSUME s \in Statements, NEW c \in Conn, LookUpAgain(c)
  PROVE  /\ Goes(c, "schema")
         /\ s'[c].obj = s[c].obj /\ s'[c].bound = s[c].bound /\ s'[c].info = s[c].info
         /\ s'[c].entry = Null /\ s'[c].at = s[c].at
<1> DEFINE new == [s[c] EXCEPT !.step = "schema", !.entry = Null]
<1>1. s[c] \in Statement
  BY DEF Statements
<1>2. new \in Statement
  BY <1>1 DEF Statement, Step
<1>3. s' = [s EXCEPT ![c] = new]
  BY <1>1 DEF LookUpAgain, Statements, Statement
<1>4. s' \in Statements /\ s'[c] = new /\ \A d \in Conn \ {c} : s'[d] = s[d]
  BY <1>2, <1>3 DEF Statements
<1>5. /\ new.step = "schema" /\ new.do = s[c].do /\ new.force = s[c].force
      /\ new.obj = s[c].obj /\ new.bound = s[c].bound /\ new.info = s[c].info
      /\ new.entry = Null /\ new.at = s[c].at
  BY <1>1 DEF Statement
<1>6. QED
  BY <1>4, <1>5 DEF Goes

\* The private entry gets into the set, or the table is looked up in the one that did.
LEMMA AddIInv ==
  ASSUME IInv, NEW c \in Conn, AddEntryIfAbsent(c)
  PROVE  IInv'
<1>1. /\ TypeInv /\ ObjInv /\ InfoInv /\ VersionInv /\ KindInv /\ KindInvOf(c)
      /\ s[c].step = "add" /\ s[c].step \in Private
      /\ UNCHANGED <<glue, is_loaded, cached, histories>>
  BY DEF IInv, KindInv, AddEntryIfAbsent, Private
<1>2. s[c].obj \in DOMAIN objects /\ is_loaded' \in BOOLEAN /\ s \in Statements
  BY <1>1 DEF ObjInv, ObjInvOf, TypeInv, Statements
<1>3. CASE Absent
  <2>1. objects' = [objects EXCEPT ![s[c].obj].state = "set"] /\ To(c, "found")
    BY <1>3 DEF AddEntryIfAbsent
  <2>2. Evolve(c) /\ InfoKept
    BY <1>1, <1>3, <2>1, OwnInfo DEF Absent
  <2>3. objects'[s[c].obj].state = "set" /\ s[c].obj \in DOMAIN objects'
    <3>1. objects \in Seq(Entry)
      BY <1>1 DEF TypeInv
    <3>2. objects[s[c].obj] \in Entry
      BY <1>2, <3>1, LenProperties
    <3>3. objects'[s[c].obj] = [objects[s[c].obj] EXCEPT !.state = "set"]
      BY <1>2, <2>1, <3>1, EntryChanges
    <3>4. QED
      BY <1>2, <2>2, <3>2, <3>3 DEF Entry, Evolve
  <2>4. QED
    BY <1>1, <1>2, <2>1, <2>2, <2>3, ObjectsIInv
<1>4. CASE ~Absent
  <2>1. objects' = [objects EXCEPT ![s[c].obj].state = "gone"] /\ LookUpAgain(c)
    BY <1>4 DEF AddEntryIfAbsent
  <2>2. Evolve(c) /\ InfoKept
    BY <1>1, <2>1, OwnInfo
  <2>3. /\ Goes(c, "schema")
        /\ s'[c].obj = s[c].obj /\ s'[c].bound = s[c].bound /\ s'[c].info = s[c].info
        /\ s'[c].entry = Null /\ s'[c].at = s[c].at
    BY <1>2, <2>1, AgainFacts
  <2>4. s'[c].step = "schema"
    BY <2>3 DEF Goes
  <2>5. KindInvOf(c)'
    <3>1. cached' = cached /\ table' = table /\ made' = made
      BY <1>1 DEF glue
    <3>2. s'[c].at <= made'.id /\ (cached'[c] = Unread \/ Saw(c, cached[c])')
      BY <1>1, <2>3, <3>1, SameGlue, KindStays
    <3>3. QED
      BY <2>3, <2>4, <3>2 DEF KindInvOf
  <2>6. ~Holds(c)'
    BY <2>3, <2>4 DEF Holds
  <2>7. "schema" \in Step /\ "schema" \notin Private
    BY DEF Step, Private
  <2>8. /\ cached' \in [Conn -> Definition \cup {Null, Unread}]
        /\ unseen' \in BOOLEAN /\ (unseen => unseen') /\ UNCHANGED <<glue, lost, changes>>
        /\ cached'[c] \in {cached[c], table, Unread}
        /\ \A e \in Conn \ {c} : cached'[e] = cached[e]
    BY <1>1 DEF TypeInv, histories
  <2>9. \A i \in DOMAIN objects' : /\ objects'[i].state = "private" => objects'[i].info = Null
                                   /\ objects'[i].state = "set" => InfoStays(i)
    BY <2>2 DEF InfoKept
  <2>10. QED
    BY <1>1, <1>2, <2>2, <2>3, <2>5, <2>6, <2>7, <2>8, <2>9, StatementIInv
<1>5. QED
  BY <1>3, <1>4

\* What a statement without a location asks for.
LEMMA BuildTableInfoIInv ==
  ASSUME IInv, NEW c \in Conn, BuildTableInfo(c)
  PROVE  IInv'
<1> DEFINE o == s[c].obj
<1>1. /\ TypeInv /\ ObjInv /\ InfoInv /\ s[c].step = "info"
      /\ UNCHANGED <<glue, cached, histories>> /\ is_loaded' = is_loaded
  BY DEF IInv, BuildTableInfo
<1>2. o \in DOMAIN objects /\ objects[o].state \in {"set", "retired"} /\ is_loaded' \in BOOLEAN
  BY <1>1 DEF ObjInv, ObjInvOf, Holds, TypeInv
<1>3. CASE objects' = objects /\ (To(c, "create") \/ End(c))
  <2>1. Evolve(c) /\ InfoKept
    BY <1>1, <1>3, SameEvolve, GetEntryInfo
  <2>2. PICK step \in {"create", "end"} : To(c, step)
    BY <1>3 DEF End
  <2>3. QED
    BY <1>1, <1>2, <1>3, <2>1, <2>2, ObjectsIInv
<1>4. CASE /\ database # Null /\ objects' = [objects EXCEPT ![o].info = database]
           /\ To(c, "create")
  <2>1. /\ Evolve(c) /\ DOMAIN objects' = DOMAIN objects
        /\ \A i \in DOMAIN objects : /\ objects'[i].state = objects[i].state
                                     /\ i # o => objects'[i] = objects[i]
                                     /\ i = o => objects'[i].info = database
    BY <1>1, <1>4, InfoEvolve
  <2>2. ASSUME NEW i \in DOMAIN objects'
        PROVE  /\ objects'[i].state = "private" => objects'[i].info = Null
               /\ objects'[i].state = "set" => InfoStays(i)
    <3>1. i \in DOMAIN objects /\ objects'[i].state = objects[i].state
      BY <2>1, <2>2
    <3>2. CASE i = o
      <4>1. objects'[i].info = database /\ objects'[i].state # "private"
        BY <1>2, <2>1, <3>1, <3>2
      <4>2. QED
        BY <4>1 DEF InfoStays
    <3>3. CASE i # o
      BY <1>1, <2>1, <3>1, <3>3 DEF InfoInv, InfoStays
    <3>4. QED
      BY <3>2, <3>3
  <2>3. o \in DOMAIN objects' /\ objects'[o].state \in {"set", "retired"}
    BY <1>2, <2>1
  <2>4. InfoKept
    BY <2>2 DEF InfoKept
  <2>5. QED
    BY <1>1, <1>2, <1>4, <2>1, <2>3, <2>4, ObjectsIInv
<1>5. QED
  BY <1>3, <1>4 DEF BuildTableInfo

\* The database as it was fetched gets into the set, or the schema is taken out of it.
LEMMA InstallIInv ==
  ASSUME IInv, NEW c \in Conn, Install(c) \/ RemoveEntry(c)
  PROVE  IInv'
<1>1. /\ TypeInv /\ InfoInv /\ UNCHANGED <<glue, cached, histories>> /\ is_loaded' \in BOOLEAN
      /\ To(c, "end") /\ database' = database
  BY DEF IInv, Install, RemoveEntry, TypeInv, End, glue
<1>2. s[c].info \in Database \cup {Null}
  BY <1>1 DEF TypeInv, Statement
<1>3. objects' = RetireEntry(objects) \/ objects' = CreateEntry(s[c].info)
  BY DEF Install, RemoveEntry
<1>4. /\ Evolve(c)
      /\ \A i \in DOMAIN objects : /\ objects'[i].info = objects[i].info
                                   /\ objects'[i].state # "set"
                                   /\ objects'[i].state = "private" =>
                                        objects[i].state = "private"
      /\ \A i \in DOMAIN objects' \ DOMAIN objects : objects'[i] = Loaded(s[c].info)
      /\ objects' = RetireEntry(objects) => DOMAIN objects' = DOMAIN objects
  BY <1>1, <1>2, <1>3, ReplaceEvolve
<1>5. Loaded(s[c].info).info = s[c].info /\ Loaded(s[c].info).state = "set"
  BY DEF Loaded
<1>6. unseen \/ \A i \in DOMAIN objects' : objects'[i].state = "set" => objects'[i].info = database
  <2>1. CASE Install(c)
    <3>1. unseen \/ s[c].info = database
      BY <1>1, <2>1 DEF Install, InfoInv
    <3>2. QED
      BY <1>4, <1>5, <3>1
  <2>2. CASE RemoveEntry(c)
    <3>1. objects' = RetireEntry(objects)
      BY <2>2 DEF RemoveEntry
    <3>2. QED
      BY <1>4, <3>1
  <2>3. QED
    BY <2>1, <2>2
<1>7. unseen' = unseen
  BY <1>1 DEF histories
<1>8. InfoKept
  <2>1. ASSUME NEW i \in DOMAIN objects', objects'[i].state = "private"
        PROVE  objects'[i].info = Null
    BY <1>1, <1>4, <1>5, <2>1 DEF InfoInv
  <2>2. QED
    BY <1>6, <1>7, <2>1 DEF InfoKept, InfoStays
<1>9. unseen \/ \A i \in InSet(objects)' : objects'[i].info = database
  BY <1>6 DEF InSet
<1>10. QED
  BY <1>1, <1>4, <1>8, <1>9, ObjectsIInv

\* A statement that goes on with something it has just learnt.
LEMMA NewFacts ==
  ASSUME s \in Statements, NEW c \in Conn, NEW new \in Statement, s' = [s EXCEPT ![c] = new],
         new.do = s[c].do, new.force = s[c].force
  PROVE  Goes(c, new.step) /\ s'[c] = new
BY DEF Statements, Goes

\* The table is looked up before the schema, in a new entry, unless the set has the schema.
LEMMA TryLookupIInv ==
  ASSUME IInv, NEW c \in Conn, TryLookupTableBeforeSchema(c)
  PROVE  IInv'
<1>1. /\ TypeInv /\ ObjInv /\ InfoInv /\ VersionInv /\ KindInv /\ KindInvOf(c) /\ ObjInvOf(c)
      /\ s \in Statements /\ s[c] \in Statement /\ s[c].step = "start"
      /\ UNCHANGED <<glue, is_loaded, cached, histories>>
  BY DEF IInv, KindInv, ObjInv, TypeInv, Statements, TryLookupTableBeforeSchema
<1>2. s[c].entry = Null /\ s[c].at = 0
  BY <1>1 DEF ObjInvOf, KindInvOf
<1>3. CASE InSet(objects) # {}
  <2>1. To(c, "schema") /\ "schema" \in Step \ Private /\ UNCHANGED schemas
    BY <1>1, <1>3 DEF TryLookupTableBeforeSchema, Step, Private, schemas
  <2>2. s'[c].step = "schema" /\ s'[c].entry = Null
    <3>1. s'[c] = [s[c] EXCEPT !.step = "schema"]
      BY <1>1, <2>1, ToFacts
    <3>2. QED
      BY <1>1, <1>2, <3>1 DEF Statement
  <2>3. ~Holds(c)'
    BY <2>2 DEF Holds
  <2>4. QED
    BY <1>1, <1>2, <2>1, <2>3, PassIInv
<1>4. CASE InSet(objects) = {}
  <2> DEFINE new == [s[c] EXCEPT !.step = "private", !.obj = Len(objects) + 1]
  <2>1. objects' = Append(objects, [Unloaded EXCEPT !.state = "private"])
    BY <1>4 DEF TryLookupTableBeforeSchema
  <2>2. /\ Evolve(c) /\ Len(objects) + 1 \in DOMAIN objects' \ DOMAIN objects
        /\ Len(objects) + 1 \in Nat
        /\ \A i \in DOMAIN objects : objects'[i] = objects[i]
        /\ objects'[Len(objects) + 1] = [state |-> "private", info |-> Null]
        /\ DOMAIN objects' = DOMAIN objects \cup {Len(objects) + 1}
    BY <1>1, <2>1, PrivateEvolve
  <2>3. /\ new \in Statement /\ new.step = "private" /\ new.obj = Len(objects) + 1
        /\ new.do = s[c].do /\ new.force = s[c].force
        /\ new.entry = s[c].entry /\ new.bound = s[c].bound /\ new.at = s[c].at
    BY <1>1, <2>2 DEF Statement, Step
  <2>4. s' = [s EXCEPT ![c] = new]
    BY <1>1, <1>4 DEF TryLookupTableBeforeSchema, Statements, Statement
  <2>5. Goes(c, "private") /\ s'[c] = new
    <3> HIDE DEF new
    <3>1. QED
      BY <1>1, <2>3, <2>4, NewFacts
  <2>6. /\ s'[c].obj = Len(objects) + 1 /\ s'[c].entry = Null /\ s'[c].bound = s[c].bound
        /\ s'[c].at = s[c].at /\ s'[c].step = "private"
    BY <1>2, <2>3, <2>5
  <2>7. KindInvOf(c)'
    <3>1. cached' = cached /\ table' = table /\ made' = made
      BY <1>1 DEF glue
    <3>2. s'[c].at <= made'.id /\ (cached'[c] = Unread \/ Saw(c, cached[c])')
      BY <1>1, <2>6, <3>1, SameGlue, KindStays
    <3>3. QED
      BY <1>2, <2>6, <3>2 DEF KindInvOf
  <2>8. ~Holds(c)'
    BY <2>6 DEF Holds
  <2>9. /\ s'[c].obj \in DOMAIN objects' /\ objects'[s'[c].obj].state = "private"
        /\ s'[c].obj \notin DOMAIN objects
    BY <2>2, <2>6
  <2>10. ASSUME NEW i \in DOMAIN objects'
         PROVE  /\ objects'[i].state = "private" => objects'[i].info = Null
                /\ objects'[i].state = "set" => InfoStays(i)
    <3>1. CASE i \in DOMAIN objects
      BY <1>1, <2>2, <3>1 DEF InfoInv, InfoStays
    <3>2. CASE i = Len(objects) + 1
      BY <2>2, <3>2
    <3>3. QED
      BY <2>2, <2>10, <3>1, <3>2
  <2>11. "private" \in Step
    BY DEF Step
  <2>12. /\ cached' \in [Conn -> Definition \cup {Null, Unread}] /\ is_loaded' \in BOOLEAN
         /\ unseen' \in BOOLEAN /\ (unseen => unseen') /\ UNCHANGED <<glue, lost, changes>>
         /\ cached'[c] \in {cached[c], table, Unread}
         /\ \A e \in Conn \ {c} : cached'[e] = cached[e]
    BY <1>1 DEF TypeInv, histories
  <2>13. s[c].step \notin {"fetch", "install", "remove"}
    BY <1>1
  <2>14. QED
    BY <2>2, <2>5, <2>6, <2>7, <2>8, <2>9, <2>10, <2>11, <2>12, <2>13, StatementIInv
<1>5. QED
  BY <1>3, <1>4

\* The statement has the schema, and goes on with it or without.
LEMMA GetSchemaIInv ==
  ASSUME IInv, NEW c \in Conn, GetSchema(c)
  PROVE  IInv'
<1> DEFINE obj  == GetCachedEntry(GetEntry)
           step == IF obj # 0 THEN WithSchema(s[c].do, s[c].force)
                   ELSE IF s[c].do = "create schema" THEN "create database" ELSE "end"
           new  == [s[c] EXCEPT !.obj = obj, !.step = step]
<1>1. /\ TypeInv /\ ObjInv /\ InfoInv /\ VersionInv /\ KindInv /\ KindInvOf(c) /\ ObjInvOf(c)
      /\ s \in Statements /\ s[c] \in Statement /\ s[c].step = "schema"
      /\ UNCHANGED <<glue, is_loaded, cached, histories>> /\ objects' = GetEntry
  BY DEF IInv, KindInv, ObjInv, TypeInv, Statements, GetSchema
<1>2. s[c].entry = Null
  BY <1>1 DEF ObjInvOf
<1>3. /\ Evolve(c) /\ InfoKept /\ obj \in Nat
      /\ obj # 0 => obj \in DOMAIN objects' /\ objects'[obj].state = "set"
  <2>1. Evolve(c) /\ InfoKept
    BY <1>1, SameEvolve, GetEntryInfo
  <2>2. GetEntry \in Seq(Entry)
    BY <1>1, GetEntryFacts
  <2>3. QED
    BY <1>1, <2>1, <2>2, CachedEntryFacts DEF InSet
<1>4. /\ step \in {"end", "create database", "delete database", "check empty", "read", "entry"}
      /\ step = "entry" => obj # 0
      /\ step = "create database" => s[c].do = "create schema"
      /\ step = "check empty" => s[c].do = "drop schema"
      /\ step = "delete database" => s[c].do = "drop schema" /\ s[c].force
  BY DEF WithSchema
<1>5. step \in Step \ Private
  BY <1>4 DEF Step, Private
<1>6. /\ new \in Statement /\ new.step = step /\ new.obj = obj
      /\ new.do = s[c].do /\ new.force = s[c].force
      /\ new.entry = s[c].entry /\ new.bound = s[c].bound /\ new.at = s[c].at
  <2> HIDE DEF obj, step
  <2>1. QED
    BY <1>1, <1>3, <1>5 DEF Statement
<1>7. s' = [s EXCEPT ![c] = new]
  BY <1>1 DEF GetSchema, Statements, Statement
<1> HIDE DEF obj, step, new
<1>8. Goes(c, step) /\ s'[c] = new
  BY <1>1, <1>6, <1>7, NewFacts
<1>9. /\ s'[c].obj = obj /\ s'[c].entry = Null /\ s'[c].bound = s[c].bound
      /\ s'[c].at = s[c].at /\ s'[c].step = step /\ s'[c].do = s[c].do
      /\ s'[c].force = s[c].force
  BY <1>2, <1>6, <1>8
<1>10. KindInvOf(c)'
  <2>1. cached' = cached /\ table' = table /\ made' = made
    BY <1>1 DEF glue
  <2>2. s'[c].at <= made'.id /\ (cached'[c] = Unread \/ Saw(c, cached[c])')
    BY <1>1, <1>9, <2>1, SameGlue, KindStays
  <2>3. QED
    BY <1>4, <1>9, <2>2 DEF KindInvOf
<1>11. Holds(c)' =>
         s'[c].obj \in DOMAIN objects' /\ objects'[s'[c].obj].state \in {"set", "retired"}
  BY <1>3, <1>4, <1>9 DEF Holds
<1>12. step \notin {"update", "update database", "install", "start", "private", "confirm", "schema"}
  BY <1>4
<1>13. \A i \in DOMAIN objects' : /\ objects'[i].state = "private" => objects'[i].info = Null
                                  /\ objects'[i].state = "set" => InfoStays(i)
  BY <1>3 DEF InfoKept
<1>14. /\ cached' \in [Conn -> Definition \cup {Null, Unread}] /\ is_loaded' \in BOOLEAN
       /\ unseen' \in BOOLEAN /\ (unseen => unseen') /\ UNCHANGED <<glue, lost, changes>>
       /\ cached'[c] \in {cached[c], table, Unread}
       /\ \A e \in Conn \ {c} : cached'[e] = cached[e]
  BY <1>1 DEF TypeInv, histories
<1>15. s[c].step \notin {"fetch", "install", "remove"}
  BY <1>1
<1>16. QED
  BY <1>3, <1>4, <1>5, <1>8, <1>9, <1>10, <1>11, <1>12, <1>13, <1>14, <1>15, StatementIInv

\* The database is read, to be changed or to get into the set, or it could not be.
LEMMA ReadIInv ==
  ASSUME IInv, NEW c \in Conn, ReadDatabase(c) \/ FetchDatabase(c)
  PROVE  IInv'
<1>1. /\ TypeInv /\ ObjInv /\ InfoInv /\ VersionInv /\ KindInv /\ KindInvOf(c) /\ ObjInvOf(c)
      /\ s \in Statements /\ s[c] \in Statement /\ s[c].step \in {"read", "fetch"}
      /\ UNCHANGED <<glue, schemas, cached, lost, changes>> /\ objects' = objects
      /\ table' = table /\ made' = made /\ cached' = cached
  BY DEF IInv, KindInv, ObjInv, TypeInv, Statements, ReadDatabase, FetchDatabase, schemas,
         histories, glue
<1>2. CASE \E step \in {"update database", "install"} :
             /\ database # Null /\ unseen' = unseen
             /\ step = "install" \/ s[c].step = "read"
             /\ s' = [s EXCEPT ![c].step = step, ![c].info = database]
  <2>1. PICK step \in {"update database", "install"} :
             /\ database # Null /\ unseen' = unseen
             /\ step = "install" \/ s[c].step = "read"
             /\ s' = [s EXCEPT ![c].step = step, ![c].info = database]
    BY <1>2
  <2> DEFINE new == [s[c] EXCEPT !.step = step, !.info = database]
  <2>2. step \in Step \ Private /\ database \in Database
    BY <1>1, <2>1 DEF Step, Private, TypeInv
  <2>3. /\ new \in Statement /\ new.step = step /\ new.info = database
        /\ new.do = s[c].do /\ new.force = s[c].force /\ new.obj = s[c].obj
        /\ new.entry = s[c].entry /\ new.bound = s[c].bound /\ new.at = s[c].at
    BY <1>1, <2>2 DEF Statement
  <2>4. s' = [s EXCEPT ![c] = new]
    BY <1>1, <2>1 DEF Statements, Statement
  <2>5. Goes(c, step) /\ s'[c] = new
    <3> HIDE DEF new
    <3>1. QED
      BY <1>1, <2>3, <2>4, NewFacts
  <2>6. /\ s'[c].obj = s[c].obj /\ s'[c].entry = s[c].entry /\ s'[c].bound = s[c].bound
        /\ s'[c].at = s[c].at /\ s'[c].step = step /\ s'[c].info = database
    BY <2>3, <2>5
  <2>7. KindInvOf(c)'
    <3>1. s'[c].at <= made'.id /\ (cached'[c] = Unread \/ Saw(c, cached[c])')
      BY <1>1, <2>6, SameGlue, KindStays
    <3>2. QED
      BY <2>6, <3>1 DEF KindInvOf
  <2>8. Evolve(c)
    BY <1>1, SameEvolve
  <2>9. Holds(c)' =>
          s'[c].obj \in DOMAIN objects' /\ objects'[s'[c].obj].state \in {"set", "retired"}
    BY <1>1, <2>6 DEF Holds, ObjInvOf
  <2>10. \A i \in DOMAIN objects' : /\ objects'[i].state = "private" => objects'[i].info = Null
                                    /\ objects'[i].state = "set" => InfoStays(i)
    BY <1>1 DEF InfoInv, InfoStays
  <2>11. s[c].step = "fetch" => step = "install"
    BY <2>1
  <2>12. /\ cached' \in [Conn -> Definition \cup {Null, Unread}] /\ is_loaded' \in BOOLEAN
         /\ unseen' \in BOOLEAN /\ (unseen => unseen') /\ UNCHANGED <<glue, lost, changes>>
         /\ cached'[c] \in {cached[c], table, Unread}
         /\ \A e \in Conn \ {c} : cached'[e] = cached[e]
    BY <1>1, <2>1 DEF TypeInv, schemas
  <2>13. /\ step = "update database" => s'[c].info # Null
         /\ step \notin {"update", "start", "private", "confirm", "schema", "create database"}
         /\ step \notin Private
    BY <2>1, <2>2, <2>6
  <2>14. \/ unseen' \/ step \in {"fetch", "install", "remove"}
         \/ s[c].step \notin {"fetch", "install", "remove"}
    BY <1>1, <2>11
  <2>15. QED
    BY <2>2, <2>5, <2>6, <2>7, <2>8, <2>9, <2>10, <2>12, <2>13, <2>14, StatementIInv
<1>3. CASE /\ To(c, "end") /\ unseen' \in BOOLEAN /\ (unseen => unseen')
           /\ unseen' \/ s[c].step # "fetch"
  <2>1. Goes(c, "end") /\ s'[c] = [s[c] EXCEPT !.step = "end"] /\ "end" \in Step \ Private
    BY <1>1, <1>3, ToFacts DEF Step, Private
  <2>2. /\ s'[c].obj = s[c].obj /\ s'[c].entry = s[c].entry /\ s'[c].bound = s[c].bound
        /\ s'[c].at = s[c].at /\ s'[c].step = "end"
    BY <1>1, <2>1 DEF Statement
  <2>3. KindInvOf(c)'
    <3>1. s'[c].at <= made'.id /\ (cached'[c] = Unread \/ Saw(c, cached[c])')
      BY <1>1, <2>2, SameGlue, KindStays
    <3>2. QED
      BY <2>2, <3>1 DEF KindInvOf
  <2>4. Evolve(c) /\ ~Holds(c)'
    BY <1>1, <2>2, SameEvolve DEF Holds
  <2>5. \A i \in DOMAIN objects' : /\ objects'[i].state = "private" => objects'[i].info = Null
                                   /\ objects'[i].state = "set" => InfoStays(i)
    BY <1>1 DEF InfoInv, InfoStays
  <2>6. /\ cached' \in [Conn -> Definition \cup {Null, Unread}] /\ is_loaded' \in BOOLEAN
        /\ UNCHANGED <<glue, lost, changes>>
        /\ cached'[c] \in {cached[c], table, Unread}
        /\ \A e \in Conn \ {c} : cached'[e] = cached[e]
    BY <1>1 DEF TypeInv, schemas
  <2>7. unseen' \/ s[c].step \notin {"fetch", "install", "remove"}
    BY <1>1, <1>3
  <2>8. QED
    BY <1>3, <2>1, <2>2, <2>3, <2>4, <2>5, <2>6, <2>7, StatementIInv
<1>4. CASE ReadDatabase(c)
  <2>1. unseen' = unseen /\ unseen \in BOOLEAN /\ s[c].step = "read"
    BY <1>1, <1>4 DEF ReadDatabase, histories, TypeInv
  <2>2. CASE End(c)
    BY <1>3, <2>1, <2>2 DEF End
  <2>3. CASE ~End(c)
    <3>1. /\ database # Null
          /\ s' = [s EXCEPT ![c].step = "update database", ![c].info = database]
      BY <1>4, <2>3 DEF ReadDatabase, DefinitionRead
    <3>2. QED
      BY <1>2, <2>1, <3>1
  <2>4. QED
    BY <2>2, <2>3
<1>5. CASE FetchDatabase(c)
  <2>1. CASE End(c) /\ unseen' = TRUE
    BY <1>3, <2>1 DEF End
  <2>2. CASE /\ database # Null /\ UNCHANGED unseen
             /\ s' = [s EXCEPT ![c].step = "install", ![c].info = database]
    BY <1>2, <2>2
  <2>3. QED
    BY <1>5, <2>1, <2>2 DEF FetchDatabase
<1>6. QED
  BY <1>4, <1>5

\* The database has no table at this time.
LEMMA CheckEmptyIInv ==
  ASSUME IInv, NEW c \in Conn, CheckEmpty(c)
  PROVE  IInv'
<1>1. /\ TypeInv /\ ObjInv /\ VersionInv /\ KindInv /\ KindInvOf(c) /\ ObjInvOf(c)
      /\ s \in Statements /\ s[c] \in Statement /\ s[c].step = "check empty"
      /\ UNCHANGED <<glue, schemas, cached, histories>> /\ made.id \in Nat
      /\ table' = table /\ made' = made /\ cached' = cached
  BY DEF IInv, KindInv, ObjInv, TypeInv, Statements, CheckEmpty, glue
<1>2. CASE End(c)
  BY <1>1, <1>2, EndIInv
<1>3. CASE table = Null /\ s' = [s EXCEPT ![c].step = "delete database", ![c].at = made.id]
  <2> DEFINE new == [s[c] EXCEPT !.step = "delete database", !.at = made.id]
  <2>1. "delete database" \in Step \ Private
    BY DEF Step, Private
  <2>2. /\ new \in Statement /\ new.step = "delete database" /\ new.at = made.id
        /\ new.do = s[c].do /\ new.force = s[c].force /\ new.obj = s[c].obj
        /\ new.entry = s[c].entry /\ new.bound = s[c].bound
    BY <1>1, <2>1 DEF Statement
  <2>3. s' = [s EXCEPT ![c] = new]
    BY <1>1, <1>3 DEF Statements, Statement
  <2>4. Goes(c, "delete database") /\ s'[c] = new
    <3> HIDE DEF new
    <3>1. QED
      BY <1>1, <2>2, <2>3, NewFacts
  <2>5. /\ s'[c].obj = s[c].obj /\ s'[c].entry = s[c].entry /\ s'[c].bound = s[c].bound
        /\ s'[c].at = made.id /\ s'[c].step = "delete database" /\ s'[c].do = s[c].do
    BY <2>2, <2>4
  <2>6. KindInvOf(c)'
    <3>1. s[c].do = "drop schema"
      BY <1>1 DEF KindInvOf
    <3>2. table' = Null /\ s'[c].at <= made'.id
      BY <1>1, <1>3, <2>5, SameGlue
    <3>3. QED
      BY <2>5, <3>1, <3>2 DEF KindInvOf, Saw
  <2>7. Holds(c)' => Holds(c)
    BY <1>1, <2>5 DEF Holds
  <2>8. QED
    BY <1>1, <2>1, <2>4, <2>5, <2>6, <2>7, QuietIInv
<1>4. QED
  BY <1>2, <1>3 DEF CheckEmpty

-----------------------------------------------------------------------------
(* Requests that change Glue *)

\* The statement has made a request, and its connection's cache is empty.
LEMMA RequestIInv ==
  ASSUME IInv, NEW c \in Conn, NEW step \in {"stored", "raced", "end", "fetch", "remove"},
         To(c, step), Invalidate(c), UNCHANGED <<schemas, changes>>,
         database' \in Database \cup {Null}, table' \in Definition \cup {Null},
         made' \in [id : Nat, second : Nat], made'.id >= made.id, unseen' \in BOOLEAN,
         s[c].step \notin {"add", "end"},
         step = "raced" => Holds(c) \/ s[c].do = "create schema",
         InfoInv',
         table' = table \/ Deletes \/ Creates \/ Stores,
         \A l \in lost' : l \in lost \/ ~l.known \/ IsAbout(l)
  PROVE  IInv'
<1>1. /\ TypeInv /\ ObjInv /\ VersionInv /\ KindInv /\ ObjInvOf(c) /\ KindInvOf(c)
      /\ s \in Statements /\ s[c] \in Statement /\ step \in Step
      /\ objects' = objects /\ is_loaded' = is_loaded
  BY DEF IInv, KindInv, ObjInv, TypeInv, Statements, Step, schemas
<1>2. Goes(c, step) /\ s'[c] = [s[c] EXCEPT !.step = step]
  BY <1>1, ToFacts
<1>3. /\ s'[c].obj = s[c].obj /\ s'[c].entry = s[c].entry /\ s'[c].bound = s[c].bound
      /\ s'[c].at = s[c].at /\ s'[c].step = step /\ s'[c].do = s[c].do
  BY <1>1, <1>2 DEF Statement, Goes
<1>4. /\ cached' \in [Conn -> Definition \cup {Null, Unread}]
      /\ cached'[c] = Unread /\ \A d \in Conn \ {c} : cached'[d] = cached[d]
  BY <1>1 DEF Invalidate, TypeInv
<1>5. Evolve(c) /\ \A d \in Conn \ {c} : s'[d] = s[d]
  BY <1>1, <1>2, SameEvolve DEF Goes
<1>6. TypeInv'
  <2>1. is_loaded' \in BOOLEAN /\ changes' = changes
    BY <1>1 DEF TypeInv
  <2>2. step \notin {"update", "update database"}
    OBVIOUS
  <2>3. QED
    BY <1>1, <1>2, <1>4, <1>5, <2>1, <2>2, TypeFrame
<1>7. ObjInv'
  <2>1. Holds(c)' =>
          s'[c].obj \in DOMAIN objects' /\ objects'[s'[c].obj].state \in {"set", "retired"}
    <3>1. Holds(c)' => Holds(c)
      BY <1>3 DEF Holds
    <3>2. QED
      BY <1>1, <1>3, <3>1 DEF ObjInvOf
  <2>2. s'[c].step \notin Private \cup {"start", "schema", "confirm", "create database"}
    BY <1>3 DEF Private
  <2>3. QED
    BY <1>1, <1>5, <2>1, <2>2, ObjFrame DEF Private
<1>8. VersionInv'
  <2>1. \A d \in Conn : /\ cached'[d] \in {cached[d], Unread}
                        /\ s'[d].entry = s[d].entry /\ s'[d].bound = s[d].bound
    BY <1>3, <1>4, <1>5
  <2>2. CASE table' = table
    <3>1. \A d \in Conn : /\ cached'[d] \in {cached[d], table, Null, Unread}
                          /\ s'[d].entry \in {s[d].entry, cached[d], table, Null}
                          /\ s'[d].bound \in {s[d].bound, s[d].entry, table}
      BY <2>1
    <3>2. made'.id \in Nat
      OBVIOUS
    <3>3. QED
      BY <1>1, <2>2, <3>1, <3>2, VersionFrame
  <2>3. CASE Deletes \/ Creates \/ Stores
    BY <1>1, <2>1, <2>3, VersionChanged
  <2>4. QED
    BY <2>2, <2>3
<1>9. SameOrLater
  BY <1>1, ChangedLater
<1>10. KindInv'
  <2>1. made'.id \in Nat
    OBVIOUS
  <2>2. s'[c].at <= made'.id
    BY <1>1, <1>3, <1>4, <1>9, <2>1, KindStays
  <2>3. KindInvOf(c)'
    BY <1>3, <1>4, <2>2 DEF KindInvOf
  <2>4. \A d \in Conn : KindInvOf(d)' \/ (s'[d] = s[d] /\ cached'[d] = cached[d])
    BY <1>4, <1>5, <2>3
  <2>5. QED
    BY <1>1, <1>9, <2>1, <2>4, KindFrame
<1>11. QED
  BY <1>6, <1>7, <1>8, <1>10 DEF IInv

\* What the database and the set say of each other is not changed by the other requests.
LEMMA InfoRequest ==
  ASSUME IInv, NEW c \in Conn, NEW step \in {"stored", "raced", "end"}, To(c, step),
         UNCHANGED <<schemas, database, unseen>>,
         s[c].step \notin {"fetch", "install", "remove"}
  PROVE  InfoInv'
<1>1. InfoInv /\ TypeInv /\ s \in Statements /\ step \in Step /\ objects' = objects
  BY DEF IInv, TypeInv, Statements, Step, schemas
<1>2. Goes(c, step)
  BY <1>1, ToFacts
<1>3. \A i \in DOMAIN objects' :
        /\ objects'[i].state = "private" => objects'[i].info = Null
        /\ objects'[i].state = "set" =>
             \/ objects'[i].info \in {Null, database} \/ unseen'
             \/ /\ i \in DOMAIN objects /\ objects[i].state = "set"
                /\ objects'[i].info = objects[i].info
  BY <1>1 DEF InfoInv
<1>4. \A d \in Conn \ {c} : s'[d] = s[d]
  BY <1>2 DEF Goes
<1>5. s'[c].step \notin {"update database", "install"}
  BY <1>2 DEF Goes
<1>6. QED
  BY <1>1, <1>3, <1>4, <1>5, InfoFrame

\* What Glue makes of a new object.
LEMMA CreateFacts ==
  ASSUME TypeInv, NEW kind \in Kind, Create(kind, {})
  PROVE  Creates
<1>1. PICK second \in {made.second, made.second + 1} :
        /\ table' = New(kind, made.id + 1, second, {})
        /\ made' = [id |-> made.id + 1, second |-> second]
  BY DEF Create
<1>2. made.id \in Nat /\ made.second \in Nat
  BY DEF TypeInv
<1>3. second \in Nat /\ made.id + 1 \in Nat
  BY <1>1, <1>2
<1>4. table' \in Definition
  BY <1>1, <1>3 DEF New, Definition, Client
<1>5. QED
  BY <1>1, <1>3, <1>4 DEF Creates, New

\* The table is created, or is there already.
LEMMA CreateTableIInv ==
  ASSUME IInv, NEW c \in Conn, CreateTable(c)
  PROVE  IInv'
<1>1. /\ TypeInv /\ s[c].step = "create" /\ Invalidate(c)
      /\ UNCHANGED <<database, schemas, histories>> /\ Holds(c)
  BY DEF IInv, CreateTable, Holds
<1>2. /\ UNCHANGED <<schemas, changes>> /\ unseen' = unseen /\ lost' = lost
      /\ database' \in Database \cup {Null} /\ unseen' \in BOOLEAN
  BY <1>1 DEF histories, TypeInv
<1>3. PICK step \in {"stored", "raced", "end"} : To(c, step)
  BY DEF CreateTable, End
<1>4. InfoInv'
  BY <1>1, <1>2, <1>3, InfoRequest
<1>5. /\ table' \in Definition \cup {Null} /\ made' \in [id : Nat, second : Nat]
      /\ made'.id >= made.id
      /\ table' = table \/ Creates
  <2>1. CASE Create(IF s[c].do = "create view" THEN "duckdb view" ELSE "table", {})
    <3>1. Creates
      BY <1>1, <2>1, CreateFacts DEF Kind
    <3>2. made.id \in Nat
      BY <1>1 DEF TypeInv
    <3>3. QED
      BY <3>1, <3>2 DEF Creates
  <2>2. CASE UNCHANGED <<table, made>>
    BY <1>1, <2>2, SameGlue DEF TypeInv
  <2>3. QED
    BY <2>1, <2>2 DEF CreateTable
<1>6. QED
  BY <1>1, <1>2, <1>3, <1>4, <1>5, RequestIInv

\* A view is replaced, or a table or view dropped: the statement asked for that kind, if the
\* table was there when it asked.
LEMMA LossIsAbout ==
  ASSUME TypeInv, VersionInv, KindInv, NEW c \in Conn, table # Null, Loses(c),
         \/ s[c].step = "update" /\ s[c].do = "create view"
         \/ s[c].step = "delete"
         \/ s[c].step = "delete database"
  PROVE  \A l \in lost' : l \in lost \/ ~l.known \/ IsAbout(l)
<1> DEFINE new == [by |-> c, do |-> s[c].do, force |-> s[c].force, kind |-> table.kind,
                   known |-> table.id <= s[c].at /\ ~table.mixed]
<1>1. /\ KindInvOf(c) /\ table \in Definition /\ IsEarlier(s[c].entry)
      /\ s[c].entry \in Definition \cup {Null}
  BY DEF KindInv, TypeInv, VersionInv, Statement
<1>2. ASSUME table.id <= s[c].at, ~table.mixed
      PROVE  IsAbout(new)
  <2>1. CASE s[c].step = "delete database"
    BY <1>1, <1>2, <2>1 DEF KindInvOf, IsAbout
  <2>2. CASE s[c].step \in {"update", "delete"}
    <3>1. Saw(c, s[c].entry)
      BY <1>1, <2>2 DEF KindInvOf
    <3>2. s[c].entry # Null /\ s[c].entry.id = table.id
      BY <1>2, <3>1 DEF Saw
    <3>3. s[c].entry.kind = table.kind
      BY <1>1, <1>2, <3>2, UnreadIsNoDefinition DEF IsEarlier
    <3>4. CASE s[c].step = "update"
      BY <1>1, <3>3, <3>4 DEF KindInvOf, IsAbout
    <3>5. CASE s[c].step = "delete"
      BY <1>1, <3>3, <3>5 DEF KindInvOf, IsAbout
    <3>6. QED
      BY <2>2, <3>4, <3>5
  <2>3. QED
    BY <2>1, <2>2
<1>3. new.known = (table.id <= s[c].at /\ ~table.mixed) /\ lost' = lost \cup {new}
  BY DEF Loses
<1> HIDE DEF new
<1>4. ~new.known \/ IsAbout(new)
  BY <1>2, <1>3
<1>5. QED
  BY <1>3, <1>4

\* What UpdateTable stores is a new version of the table.
LEMMA RewrittenFacts ==
  ASSUME TypeInv, NEW c \in Conn, s[c].step = "update", table # Null,
         table' = Rewritten(c), made' = made
  PROVE  Stores
<1>1. s[c].bound \in Definition /\ table \in Definition /\ made.id \in Nat
  BY DEF TypeInv, Statement
<1>2. Edited(c) \in SUBSET Client /\ NewKind(c) \in Kind
  BY <1>1 DEF Edited, NewKind, Definition, Kind, Client
<1>3. /\ table.id \in Nat /\ table.second \in Nat /\ table.version + 1 \in Nat
      /\ table.mixed \in BOOLEAN
  BY <1>1 DEF Definition
<1> DEFINE mixed == table.mixed \/ s[c].bound.id # table.id \/ NewKind(c) # table.kind
<1>4. mixed \in BOOLEAN
  BY <1>3
<1>5. table' = [s[c].bound EXCEPT !.kind = NewKind(c), !.id = table.id, !.second = table.second,
                                  !.version = table.version + 1, !.edits = Edited(c),
                                  !.mixed = mixed]
  BY DEF Rewritten
<1>6. mixed \/ (~table.mixed /\ NewKind(c) = table.kind)
  OBVIOUS
<1> HIDE DEF mixed
<1>7. /\ table' \in Definition /\ table'.id = table.id
      /\ table'.version = table.version + 1 /\ table'.mixed = mixed
      /\ table'.kind = NewKind(c)
  BY <1>1, <1>2, <1>3, <1>4, <1>5 DEF Definition
<1>8. QED
  BY <1>6, <1>7 DEF Stores

\* The table is stored, unless it is another version by now.
LEMMA UpdateIInv ==
  ASSUME IInv, NEW c \in Conn, UpdateGlueTable(c)
  PROVE  IInv'
<1>1. /\ TypeInv /\ VersionInv /\ KindInv /\ s[c].step = "update" /\ Invalidate(c)
      /\ UNCHANGED <<database, made, schemas, unseen, changes>>
  BY DEF IInv, UpdateGlueTable
<1>2. /\ UNCHANGED <<schemas, changes>> /\ made' = made
      /\ database' \in Database \cup {Null} /\ unseen' \in BOOLEAN
      /\ made' \in [id : Nat, second : Nat] /\ table \in Definition \cup {Null}
  BY <1>1 DEF TypeInv
<1>3. PICK step \in {"stored", "end"} : To(c, step)
  BY DEF UpdateGlueTable, End
<1>4. InfoInv'
  BY <1>1, <1>3, InfoRequest
<1>5. made'.id >= made.id
  <2>1. made.id \in Nat
    BY <1>1 DEF TypeInv
  <2>2. QED
    BY <1>2, <2>1
<1>6. /\ table' \in Definition \cup {Null}
      /\ table' = table \/ Stores
      /\ \A l \in lost' : l \in lost \/ ~l.known \/ IsAbout(l)
  <2>1. CASE SameVersion(c) /\ table' = Rewritten(c)
    <3>1. Stores
      BY <1>1, <1>2, <2>1, RewrittenFacts DEF SameVersion
    <3>2. table # Null
      BY <2>1 DEF SameVersion
    <3>3. UNCHANGED lost \/ (s[c].do = "create view" /\ Loses(c))
      BY <2>1 DEF UpdateGlueTable
    <3>4. \A l \in lost' : l \in lost \/ ~l.known \/ IsAbout(l)
      BY <1>1, <3>2, <3>3, LossIsAbout
    <3>5. QED
      BY <3>1, <3>4 DEF Stores
  <2>2. CASE UNCHANGED <<table, lost>>
    BY <1>2, <2>2
  <2>3. QED
    BY <2>1, <2>2 DEF UpdateGlueTable
<1>7. QED
  BY <1>1, <1>2, <1>3, <1>4, <1>5, <1>6, RequestIInv

\* The table is deleted by its name.
LEMMA DeleteTableIInv ==
  ASSUME IInv, NEW c \in Conn, DeleteTable(c)
  PROVE  IInv'
<1>1. /\ TypeInv /\ VersionInv /\ KindInv /\ s[c].step = "delete" /\ Invalidate(c)
      /\ UNCHANGED <<database, made, schemas, unseen, changes>> /\ To(c, "end")
  BY DEF IInv, DeleteTable, End
<1>2. /\ UNCHANGED <<schemas, changes>> /\ made' = made
      /\ database' \in Database \cup {Null} /\ unseen' \in BOOLEAN
      /\ made' \in [id : Nat, second : Nat] /\ table \in Definition \cup {Null}
  BY <1>1 DEF TypeInv
<1>3. InfoInv'
  BY <1>1, InfoRequest
<1>4. made'.id >= made.id
  <2>1. made.id \in Nat
    BY <1>1 DEF TypeInv
  <2>2. QED
    BY <1>2, <2>1
<1>5. /\ table' \in Definition \cup {Null}
      /\ table' = table \/ Deletes
      /\ \A l \in lost' : l \in lost \/ ~l.known \/ IsAbout(l)
  <2>1. CASE table # Null /\ table' = Null /\ Loses(c)
    BY <1>1, <1>2, <2>1, LossIsAbout DEF Deletes
  <2>2. CASE UNCHANGED <<table, lost>>
    BY <1>2, <2>2
  <2>3. QED
    BY <2>1, <2>2 DEF DeleteTable
<1>6. QED
  BY <1>1, <1>2, <1>3, <1>4, <1>5, RequestIInv

\* A request that changes the database, as its statement sees it.
LEMMA InfoDatabase ==
  ASSUME IInv, NEW c \in Conn, NEW next \in {"fetch", "remove"}, DatabaseChanged(c, next),
         UNCHANGED schemas
  PROVE  InfoInv' /\ unseen' \in BOOLEAN /\ \E step \in {next, "end"} : To(c, step)
<1>1. InfoInv /\ TypeInv /\ s \in Statements /\ objects' = objects /\ next \in Step
      /\ "end" \in Step
  BY DEF IInv, TypeInv, Statements, Step, schemas
<1>2. CASE To(c, next) /\ unseen' = (unseen \/ Overlaps(c))
  <2>1. Goes(c, next)
    BY <1>1, <1>2, ToFacts
  <2>2. InfoInv'
    BY <1>1, <1>2, <2>1, InfoChanged DEF Goes
  <2>3. unseen' \in BOOLEAN
    BY <1>2
  <2>4. QED
    BY <1>2, <2>2, <2>3
<1>3. CASE To(c, "end") /\ unseen' = TRUE
  <2>1. Goes(c, "end")
    BY <1>1, <1>3, ToFacts
  <2>2. InfoInv'
    BY <1>1, <1>3, <2>1, InfoChanged DEF Goes
  <2>3. QED
    BY <1>3, <2>2
<1>4. QED
  BY <1>2, <1>3 DEF DatabaseChanged, End

\* The database is created, or is there already.
LEMMA CreateDatabaseIInv ==
  ASSUME IInv, NEW c \in Conn, CreateDatabase(c)
  PROVE  IInv'
<1>1. /\ TypeInv /\ s[c].step = "create database" /\ Invalidate(c)
      /\ UNCHANGED <<table, schemas, lost, changes>> /\ s[c].do = "create schema"
  BY DEF IInv, CreateDatabase, ObjInv, ObjInvOf
<1>2. made.id \in Nat /\ made \in [id : Nat, second : Nat] /\ table \in Definition \cup {Null}
  BY <1>1 DEF TypeInv
<1>3. CASE /\ database' = [id |-> made.id + 1, edits |-> {}]
           /\ made' = [made EXCEPT !.id = @ + 1]
           /\ DatabaseChanged(c, "fetch")
  <2>1. /\ database' \in Database /\ made' \in [id : Nat, second : Nat]
        /\ made'.id = made.id + 1 /\ made'.id >= made.id
    BY <1>2, <1>3 DEF Database
  <2>2. InfoInv' /\ unseen' \in BOOLEAN /\ \E step \in {"fetch", "end"} : To(c, step)
    BY <1>1, <1>3, InfoDatabase
  <2>3. PICK step \in {"fetch", "end"} : To(c, step)
    BY <2>2
  <2>4. QED
    BY <1>1, <1>2, <2>1, <2>2, <2>3, RequestIInv
<1>4. CASE UNCHANGED <<database, made, unseen>> /\ (End(c) \/ To(c, "raced"))
  <2>1. PICK step \in {"raced", "end"} : To(c, step)
    BY <1>4 DEF End
  <2>2. InfoInv'
    BY <1>1, <1>4, <2>1, InfoRequest
  <2>3. /\ database' \in Database \cup {Null} /\ made' \in [id : Nat, second : Nat]
        /\ made'.id >= made.id /\ unseen' \in BOOLEAN
    BY <1>1, <1>2, <1>4, SameGlue DEF TypeInv
  <2>4. QED
    BY <1>1, <1>2, <2>1, <2>2, <2>3, RequestIInv
<1>5. QED
  BY <1>3, <1>4 DEF CreateDatabase

\* The database is written back as it was read.
LEMMA UpdateDatabaseIInv ==
  ASSUME IInv, NEW c \in Conn, UpdateDatabase(c)
  PROVE  IInv'
<1>1. /\ TypeInv /\ s[c].step = "update database" /\ Invalidate(c) /\ made' = made
      /\ UNCHANGED <<table, schemas, lost, changes>>
  BY DEF IInv, UpdateDatabase
<1>2. /\ made' \in [id : Nat, second : Nat] /\ table \in Definition \cup {Null}
      /\ made'.id >= made.id
  BY <1>1, SameGlue DEF TypeInv
<1>3. CASE /\ database # Null
           /\ database' = [database EXCEPT !.edits = s[c].info.edits \cup {c}]
           /\ DatabaseChanged(c, "fetch")
  <2>1. database \in Database /\ s[c].info \in Database /\ c \in Client
    BY <1>1, <1>3 DEF TypeInv, Statement, Client
  <2>2. s[c].info.edits \cup {c} \in SUBSET Client
    BY <2>1 DEF Database
  <2>3. database' \in Database
    BY <1>3, <2>1, <2>2 DEF Database
  <2>4. InfoInv' /\ unseen' \in BOOLEAN /\ \E step \in {"fetch", "end"} : To(c, step)
    BY <1>1, <1>3, InfoDatabase
  <2>5. PICK step \in {"fetch", "end"} : To(c, step)
    BY <2>4
  <2>6. QED
    BY <1>1, <1>2, <2>3, <2>4, <2>5, RequestIInv
<1>4. CASE UNCHANGED <<database, unseen>> /\ End(c)
  <2>1. To(c, "end")
    BY <1>4 DEF End
  <2>2. InfoInv'
    BY <1>1, <1>4, <2>1, InfoRequest
  <2>3. database' \in Database \cup {Null} /\ unseen' \in BOOLEAN
    BY <1>1, <1>4 DEF TypeInv
  <2>4. QED
    BY <1>1, <1>2, <2>1, <2>2, <2>3, RequestIInv
<1>5. QED
  BY <1>3, <1>4 DEF UpdateDatabase

\* The database is deleted with its table.
LEMMA DeleteDatabaseIInv ==
  ASSUME IInv, NEW c \in Conn, DeleteDatabase(c)
  PROVE  IInv'
<1>1. /\ TypeInv /\ VersionInv /\ KindInv /\ s[c].step = "delete database" /\ Invalidate(c)
      /\ UNCHANGED <<made, schemas, changes>> /\ made' = made
  BY DEF IInv, DeleteDatabase
<1>2. made' \in [id : Nat, second : Nat] /\ made'.id >= made.id
  <2>1. made.id \in Nat /\ made \in [id : Nat, second : Nat]
    BY <1>1 DEF TypeInv
  <2>2. made.id >= made.id
    BY <2>1
  <2>3. QED
    BY <1>1, <2>1, <2>2
<1>3. CASE /\ database' = Null /\ table' = Null
           /\ IF table # Null THEN Loses(c) ELSE UNCHANGED lost
           /\ DatabaseChanged(c, "remove")
  <2>1. \A l \in lost' : l \in lost \/ ~l.known \/ IsAbout(l)
    BY <1>1, <1>3, LossIsAbout
  <2>2. InfoInv' /\ unseen' \in BOOLEAN /\ \E step \in {"remove", "end"} : To(c, step)
    BY <1>1, <1>3, InfoDatabase
  <2>3. PICK step \in {"remove", "end"} : To(c, step)
    BY <2>2
  <2>4. QED
    BY <1>1, <1>2, <1>3, <2>1, <2>2, <2>3, RequestIInv DEF Deletes
<1>4. CASE UNCHANGED <<database, table, lost, unseen>> /\ End(c)
  <2>1. To(c, "end")
    BY <1>4 DEF End
  <2>2. InfoInv'
    BY <1>1, <1>4, <2>1, InfoRequest
  <2>3. /\ database' \in Database \cup {Null} /\ unseen' \in BOOLEAN
        /\ table' \in Definition \cup {Null} /\ table' = table /\ lost' = lost
    BY <1>1, <1>4 DEF TypeInv
  <2>4. QED
    BY <1>1, <1>2, <2>1, <2>2, <2>3, RequestIInv
<1>5. QED
  BY <1>3, <1>4 DEF DeleteDatabase

\* A change by another client: no statement sees it.
LEMMA OthersIInv ==
  ASSUME IInv, Others, InfoInv',
         database' \in Database \cup {Null}, table' \in Definition \cup {Null},
         made' \in [id : Nat, second : Nat], made'.id >= made.id, unseen' \in BOOLEAN,
         table' = table \/ Deletes \/ Creates \/ Stores
  PROVE  IInv'
<1>1. /\ TypeInv /\ ObjInv /\ VersionInv /\ KindInv
      /\ objects' = objects /\ is_loaded' = is_loaded /\ cached' = cached /\ s' = s
      /\ lost' = lost
  BY DEF IInv, Others, schemas
<1>2. changes' \in 0 .. MaxChanges
  <2>1. changes \in 0 .. MaxChanges
    BY <1>1 DEF TypeInv
  <2>2. changes < MaxChanges /\ changes' = changes + 1
    BY DEF Others
  <2>3. QED
    BY <2>1, <2>2, ChangesType
<1>3. TypeInv'
  BY <1>1, <1>2 DEF TypeInv, OneInSet, InSet
<1>4. ObjInv'
  BY <1>1 DEF ObjInv, ObjInvOf, Holds
<1>5. VersionInv'
  <2>1. CASE table' = table
    <3>1. made'.id \in Nat
      OBVIOUS
    <3>2. QED
      BY <1>1, <2>1, <3>1, VersionFrame
  <2>2. CASE Deletes \/ Creates \/ Stores
    BY <1>1, <2>2, VersionChanged
  <2>3. QED
    BY <2>1, <2>2
<1>6. KindInv'
  <2>1. SameOrLater /\ made'.id \in Nat
    BY <1>1, ChangedLater
  <2>2. QED
    BY <1>1, <2>1, KindFrame
<1>7. QED
  BY <1>3, <1>4, <1>5, <1>6 DEF IInv

\* Other clients create, delete and change the table.
LEMMA OthersChangeTableIInv ==
  ASSUME IInv, OthersChangeTable
  PROVE  IInv'
<1>1. /\ TypeInv /\ Others /\ database' = database /\ unseen' = unseen
      /\ objects' = objects /\ s' = s
  BY DEF IInv, OthersChangeTable, Others, schemas
<1>2. /\ made.id \in Nat /\ made \in [id : Nat, second : Nat]
      /\ database' \in Database \cup {Null} /\ unseen' \in BOOLEAN
  BY <1>1 DEF TypeInv
<1>3. made.id >= made.id
  BY <1>2
<1>4. InfoInv'
  BY <1>1 DEF IInv, InfoInv, SchemaInfoFresh, InSet
<1>5. \/ Deletes \/ Creates \/ Stores
  <2>1. ASSUME NEW kind \in Kind, Create(kind, {})
        PROVE  Creates
    BY <1>1, <2>1, CreateFacts
  <2>2. ASSUME table # Null, made' = made,
               table' = [table EXCEPT !.version = @ + 1, !.edits = @ \cup {Other}]
        PROVE  Stores
    <3>1. table \in Definition /\ table.version \in Nat /\ table.edits \in SUBSET Client
          /\ table.mixed \in BOOLEAN
      BY <1>1, <2>2 DEF TypeInv, Definition
    <3>2. table.version + 1 \in Nat /\ table.edits \cup {Other} \in SUBSET Client
      BY <3>1 DEF Client
    <3>3. /\ table' \in Definition /\ table'.id = table.id
          /\ table'.version = table.version + 1
          /\ table'.mixed = table.mixed /\ table'.kind = table.kind
      BY <2>2, <3>1, <3>2 DEF Definition
    <3>4. QED
      BY <2>2, <3>1, <3>3 DEF Stores
  <2>3. QED
    BY <2>1, <2>2 DEF OthersChangeTable, Deletes
<1>6. /\ table' \in Definition \cup {Null} /\ made' \in [id : Nat, second : Nat]
      /\ made'.id >= made.id
  BY <1>2, <1>3, <1>5 DEF Deletes, Creates, Stores
<1>7. QED
  BY <1>1, <1>2, <1>4, <1>5, <1>6, OthersIInv

\* Other clients create, delete and change the database.
LEMMA OthersChangeDatabaseIInv ==
  ASSUME IInv, OthersChangeDatabase
  PROVE  IInv'
<1>1. TypeInv /\ Others /\ unseen' = TRUE /\ objects' = objects
  BY DEF IInv, OthersChangeDatabase, Others, schemas
<1>2. /\ made.id \in Nat /\ made \in [id : Nat, second : Nat]
      /\ table \in Definition \cup {Null} /\ database \in Database \cup {Null}
  BY <1>1 DEF TypeInv
<1>3. made.id >= made.id
  BY <1>2
<1>4. InfoInv'
  BY <1>1 DEF IInv, InfoInv, SchemaInfoFresh
<1>5. /\ database' \in Database \cup {Null} /\ made' \in [id : Nat, second : Nat]
      /\ made'.id >= made.id
      /\ table' = table \/ Deletes
  <2>1. CASE /\ database' = [id |-> made.id + 1, edits |-> {}]
             /\ made' = [made EXCEPT !.id = @ + 1] /\ table' = table
    BY <1>2, <2>1 DEF Database
  <2>2. CASE database' = Null /\ table' = Null /\ made' = made
    BY <1>2, <1>3, <2>2 DEF Deletes
  <2>3. CASE /\ database # Null /\ database' = [database EXCEPT !.edits = @ \cup {Other}]
             /\ table' = table /\ made' = made
    <3>1. database \in Database /\ database.edits \cup {Other} \in SUBSET Client
      BY <1>2, <2>3 DEF Database, Client
    <3>2. database' \in Database
      BY <2>3, <3>1 DEF Database
    <3>3. QED
      BY <1>2, <1>3, <2>3, <3>2
  <2>4. QED
    BY <2>1, <2>2, <2>3 DEF OthersChangeDatabase
<1>6. table' \in Definition \cup {Null}
  BY <1>2, <1>5 DEF Deletes
<1>7. QED
  BY <1>1, <1>4, <1>5, <1>6, OthersIInv

-----------------------------------------------------------------------------
(* The theorems *)

\* The statements start with nothing of the table, and the set with what Glue has.
LEMMA InitIInv == Init => IInv
<1> SUFFICES ASSUME Init
             PROVE  IInv
  OBVIOUS
<1>1. /\ s \in [Conn -> Statement]
      /\ \A c \in Conn : /\ s[c].step = "start" /\ s[c].entry = Null /\ s[c].bound = Null
                         /\ s[c].at = 0
  <2>1. s \in [Conn -> {Started(do, force) : do \in Do, force \in BOOLEAN}]
    BY DEF Init
  <2>2. ASSUME NEW do \in Do, NEW force \in BOOLEAN
        PROVE  /\ Started(do, force) \in Statement
               /\ Started(do, force).step = "start" /\ Started(do, force).entry = Null
               /\ Started(do, force).bound = Null /\ Started(do, force).at = 0
    BY DEF Started, Statement, Step
  <2>3. QED
    BY <2>1, <2>2
<1>2. database \in Database \cup {Null}
  BY DEF Init, Database, Client
<1>3. table \in Definition \cup {Null} /\ (table # Null => table.id = 1)
  <2>1. CASE table = Null
    BY <2>1
  <2>2. CASE table # Null
    <3>1. PICK k \in Kind : table = New(k, 1, 0, {})
      BY <2>2 DEF Init
    <3>2. New(k, 1, 0, {}) \in Definition /\ New(k, 1, 0, {}).id = 1
      BY DEF New, Definition
    <3>3. QED
      BY <3>1, <3>2
  <2>3. QED
    BY <2>1, <2>2
<1>4. made \in [id : Nat, second : Nat] /\ made.id = 1
  BY DEF Init
<1>5. /\ objects \in Seq(Entry)
      /\ \A i \in DOMAIN objects :
           i = 1 /\ objects[i].state = "set" /\ objects[i].info \in {Null, database}
  <2>1. CASE objects = <<>>
    BY <2>1
  <2>2. CASE objects # <<>>
    <3>1. PICK info \in {Null, database} : objects = <<[state |-> "set", info |-> info]>>
      BY <2>2 DEF Init
    <3>2. [state |-> "set", info |-> info] \in Entry
      BY <1>2, <3>1 DEF Entry
    <3>3. QED
      BY <3>1, <3>2
  <2>3. QED
    BY <2>1, <2>2
<1>6. /\ cached \in [Conn -> Definition \cup {Null, Unread}]
      /\ \A c \in Conn : cached[c] \in {Unread, table}
  BY <1>3 DEF Init
<1>7. TypeInv
  <2>1. is_loaded \in BOOLEAN /\ unseen \in BOOLEAN /\ changes \in 0 .. MaxChanges
    <3>1. is_loaded \in BOOLEAN /\ unseen \in BOOLEAN /\ changes = 0
      BY DEF Init
    <3>2. 0 \in 0 .. MaxChanges
      BY ChangesType
    <3>3. QED
      BY <3>1, <3>2
  <2>2. OneInSet(objects)
    BY <1>5 DEF OneInSet, InSet
  <2>3. \A c \in Conn : s[c].step \notin {"update", "update database"}
    BY <1>1
  <2>4. QED
    BY <1>1, <1>2, <1>3, <1>4, <1>5, <1>6, <2>1, <2>2, <2>3 DEF TypeInv
<1>8. ObjInv
  BY <1>1 DEF ObjInv, ObjInvOf, Holds, Private
<1>9. InfoInv
  BY <1>1, <1>5 DEF InfoInv, SchemaInfoFresh, InSet
<1>10. VersionInv
  <2>1. table # Null => table.id \in 1 .. made.id
    <3>1. 1 \in 1 .. 1
      OBVIOUS
    <3>2. QED
      BY <1>3, <1>4, <3>1
  <2>2. IsEarlier(Null) /\ IsEarlier(Unread)
    BY DEF IsEarlier
  <2>3. IsEarlier(table)
    <3>1. 1 <= 1 /\ \A n \in Nat : n <= n
      OBVIOUS
    <3>2. table # Null => table.version \in Nat
      BY <1>3 DEF Definition
    <3>3. QED
      BY <1>3, <1>4, <3>1, <3>2 DEF IsEarlier
  <2>4. QED
    BY <1>1, <1>6, <2>1, <2>2, <2>3 DEF VersionInv
<1>11. KindInv
  <2>1. KindKept
    BY DEF Init, KindKept
  <2>2. ASSUME NEW c \in Conn
        PROVE  KindInvOf(c)
    <3>1. s[c].at <= made.id
      <4>1. 0 <= 1
        OBVIOUS
      <4>2. QED
        BY <1>1, <1>4, <4>1
    <3>2. cached[c] = Unread \/ Saw(c, cached[c])
      BY <1>6 DEF Saw
    <3>3. QED
      BY <1>1, <3>1, <3>2 DEF KindInvOf
  <2>3. QED
    BY <2>1, <2>2 DEF KindInv
<1>12. QED
  BY <1>7, <1>8, <1>9, <1>10, <1>11 DEF IInv

\* Every step keeps the invariant.
LEMMA NextIInv == IInv /\ [Next]_vars => IInv'
<1> SUFFICES ASSUME IInv, [Next]_vars
             PROVE  IInv'
  OBVIOUS
<1>1. CASE UNCHANGED vars
  <2>1. /\ database' = database /\ table' = table /\ made' = made /\ objects' = objects
        /\ is_loaded' = is_loaded /\ cached' = cached /\ s' = s /\ lost' = lost
        /\ unseen' = unseen /\ changes' = changes
    BY <1>1 DEF vars, glue, schemas, histories
  <2>2. TypeInv'
    BY <2>1 DEF IInv, TypeInv, OneInSet, InSet
  <2>3. ObjInv'
    BY <2>1 DEF IInv, ObjInv, ObjInvOf, Holds
  <2>4. InfoInv' /\ VersionInv'
    BY <2>1 DEF IInv, InfoInv, SchemaInfoFresh, InSet, VersionInv, IsEarlier
  <2>5. KindInv'
    BY <2>1 DEF IInv, KindInv, KindInvOf, Saw, KindKept, IsAbout
  <2>6. QED
    BY <2>2, <2>3, <2>4, <2>5 DEF IInv
<1>2. ASSUME NEW c \in Conn, StatementStep(c)
      PROVE  IInv'
  <2>1. CASE \/ Scan(c) \/ TryLookupTableBeforeSchema(c) \/ LookupSchema(c) \/ LookupPrivate(c)
             \/ Confirm(c) \/ AddEntryIfAbsent(c) \/ GetSchema(c) \/ LookupEntry(c)
    BY <2>1, ScanIInv, TryLookupIInv, LookupSchemaIInv, LookupTableIInv, ConfirmIInv, AddIInv,
       GetSchemaIInv
  <2>2. CASE \/ EndQuery(c) \/ CreateTableInternal(c) \/ CreateView(c) \/ Alter(c)
             \/ DropEntry(c) \/ BuildTableInfo(c) \/ CreateTable(c) \/ Raced(c)
    BY <2>2, FoundIInv, BuildTableInfoIInv, CreateTableIInv, LookupTableIInv
  <2>3. CASE \/ DefinitionForWrite(c) \/ ResolveGlueTable(c) \/ UpdateGlueTable(c) \/ Stored(c)
             \/ DeleteTable(c)
    BY <2>3, BindIInv, UpdateIInv, AskSchemaIInv, DeleteTableIInv
  <2>4. CASE \/ CreateDatabase(c) \/ RacedSchema(c) \/ ReadDatabase(c) \/ UpdateDatabase(c)
             \/ FetchDatabase(c) \/ Install(c) \/ CheckEmpty(c) \/ DeleteDatabase(c)
             \/ RemoveEntry(c)
    BY <2>4, CreateDatabaseIInv, AskSchemaIInv, ReadIInv, UpdateDatabaseIInv, InstallIInv,
       CheckEmptyIInv, DeleteDatabaseIInv
  <2>5. QED
    BY <1>2, <2>1, <2>2, <2>3, <2>4 DEF StatementStep
<1>3. QED
  BY <1>1, <1>2, OthersChangeTableIInv, OthersChangeDatabaseIInv DEF Next

\* The invariant holds in every state.
THEOREM Invariance == Spec => []IInv
BY InitIInv, NextIInv, PTL DEF Spec

\* The variables have their types, and the set has one entry for the schema: whatever two
\* lookups, listings and ALTER SCHEMA add and replace at the same time.
THEOREM TypeCorrectness == Spec => []DdlTypeOK
<1>1. IInv => DdlTypeOK
  BY OneEntry DEF IInv, TypeInv, DdlTypeOK
<1>2. QED
  BY <1>1, Invariance, PTL

\* A statement never holds a table of a schema entry that is gone: the loser of two
\* lookups that both created the schema looks its table up again (AddEntryIfAbsent).
THEOREM EntryOutlivesUse == Spec => []SchemaOfEntry
<1>1. IInv => SchemaOfEntry
  BY DEF IInv, ObjInv, ObjInvOf, Holds, Private, SchemaOfEntry
<1>2. QED
  BY <1>1, Invariance, PTL

\* What the set says of the database is what Glue has, unless it changed behind its back.
THEOREM SetIsFresh == Spec => []SchemaInfoFresh
<1>1. IInv => SchemaInfoFresh
  BY DEF IInv, InfoInv
<1>2. QED
  BY <1>1, Invariance, PTL

\* A statement drops or replaces only what it names: no table as a view, no view of another
\* engine, and no table with its database without CASCADE, if it was there when the
\* statement asked Glue.
THEOREM DropsItsKind == Spec => []KindKept
<1>1. IInv => KindKept
  BY DEF IInv, KindInv
<1>2. QED
  BY <1>1, Invariance, PTL

\* The parts of EditsStay, as facts of a step.
TableEditsStay ==
  (table # Null /\ table' # Null /\ table'.id = table.id /\ ~table'.mixed) =>
    table.edits \subseteq table'.edits

DatabaseEditsStay ==
  (database # Null /\ database' # Null /\ database'.id = database.id /\ ~unseen') =>
    database.edits \subseteq database'.edits

\* A definition that Glue takes back has all the edits of the one it has: they have the
\* same version, and one is not of an object that was there before.
LEMMA UpdateKeepsEdits ==
  ASSUME IInv, NEW c \in Conn, UpdateGlueTable(c)
  PROVE  TableEditsStay
<1>1. CASE table' = table
  BY <1>1 DEF TableEditsStay
<1>2. CASE SameVersion(c) /\ table' = Rewritten(c)
  <2> SUFFICES ASSUME ~table'.mixed
               PROVE  table.edits \subseteq table'.edits
    BY DEF TableEditsStay
  <2>1. s[c].bound \in Definition /\ table \in Definition /\ table # Null /\ s[c].bound # Null
    <3>1. s[c] \in Statement /\ s[c].bound # Null
      BY DEF IInv, TypeInv, UpdateGlueTable
    <3>2. QED
      BY <1>2, <3>1 DEF IInv, TypeInv, SameVersion, Statement
  <2>2. s[c].bound # Unread
    BY <2>1, UnreadIsNoDefinition
  <2>3. /\ table'.edits = s[c].bound.edits \cup {c}
        /\ table'.mixed = (table.mixed \/ s[c].bound.id # table.id \/ NewKind(c) # table.kind)
    BY <1>2, <2>1 DEF Rewritten, Edited, Definition
  <2>4. s[c].bound.id = table.id /\ ~table.mixed /\ s[c].bound.version = table.version
    BY <1>2, <2>3 DEF SameVersion
  <2>5. IsEarlier(s[c].bound)
    BY DEF IInv, VersionInv
  <2>6. s[c].bound.edits = table.edits
    BY <2>1, <2>2, <2>4, <2>5 DEF IsEarlier
  <2>7. QED
    BY <2>3, <2>6
<1>3. QED
  BY <1>1, <1>2 DEF UpdateGlueTable

\* Nor does ALTER SCHEMA lose any: unless the database changed behind its back, it read
\* what Glue has.
LEMMA AlterKeepsEdits ==
  ASSUME IInv, NEW c \in Conn, UpdateDatabase(c)
  PROVE  DatabaseEditsStay
<1>1. CASE database' = database
  BY <1>1 DEF DatabaseEditsStay
<1>2. CASE /\ database # Null
           /\ database' = [database EXCEPT !.edits = s[c].info.edits \cup {c}]
           /\ DatabaseChanged(c, "fetch")
  <2> SUFFICES ASSUME ~unseen'
               PROVE  database.edits \subseteq database'.edits
    BY DEF DatabaseEditsStay
  <2>1. ~unseen
    BY <1>2 DEF DatabaseChanged
  <2>2. s[c].info = database
    BY <2>1 DEF IInv, InfoInv, UpdateDatabase
  <2>3. database \in Database
    BY <1>2 DEF IInv, TypeInv
  <2>4. database'.edits = database.edits \cup {c}
    BY <1>2, <2>2, <2>3 DEF Database
  <2>5. QED
    BY <2>4
<1>3. QED
  BY <1>1, <1>2 DEF UpdateDatabase

\* Other clients add to the table and to the database.
LEMMA OthersKeepEdits ==
  ASSUME IInv, OthersChangeTable \/ OthersChangeDatabase
  PROVE  TableEditsStay /\ DatabaseEditsStay
<1>1. CASE OthersChangeTable
  <2>1. CASE table = Null \/ table' = Null
    BY <1>1, <2>1 DEF OthersChangeTable, TableEditsStay, DatabaseEditsStay
  <2>2. CASE table # Null /\ table' # Null
    <3>1. table' = [table EXCEPT !.version = @ + 1, !.edits = @ \cup {Other}]
      BY <1>1, <2>2 DEF OthersChangeTable
    <3>2. table \in Definition
      BY <2>2 DEF IInv, TypeInv
    <3>3. table'.edits = table.edits \cup {Other}
      BY <3>1, <3>2 DEF Definition
    <3>4. QED
      BY <1>1, <3>3 DEF OthersChangeTable, TableEditsStay, DatabaseEditsStay
  <2>3. QED
    BY <2>1, <2>2
<1>2. CASE OthersChangeDatabase
  BY <1>2 DEF OthersChangeDatabase, TableEditsStay, DatabaseEditsStay
<1>3. QED
  BY <1>1, <1>2

\* No step takes a change back.
LEMMA StepKeepsEdits ==
  ASSUME IInv, Next
  PROVE  TableEditsStay /\ DatabaseEditsStay
<1>1. ASSUME NEW c \in Conn, StatementStep(c)
      PROVE  TableEditsStay /\ DatabaseEditsStay
  <2>1. CASE table' = table /\ database' = database
    BY <2>1 DEF TableEditsStay, DatabaseEditsStay
  <2>2. CASE CreateTable(c)
    BY <2>2 DEF CreateTable, TableEditsStay, DatabaseEditsStay
  <2>3. CASE UpdateGlueTable(c)
    <3>1. database' = database
      BY <2>3 DEF UpdateGlueTable
    <3>2. QED
      BY <2>3, <3>1, UpdateKeepsEdits DEF DatabaseEditsStay
  <2>4. CASE DeleteTable(c)
    BY <2>4 DEF DeleteTable, TableEditsStay, DatabaseEditsStay
  <2>5. CASE CreateDatabase(c)
    BY <2>5 DEF CreateDatabase, TableEditsStay, DatabaseEditsStay
  <2>6. CASE UpdateDatabase(c)
    <3>1. table' = table
      BY <2>6 DEF UpdateDatabase
    <3>2. QED
      BY <2>6, <3>1, AlterKeepsEdits DEF TableEditsStay
  <2>7. CASE DeleteDatabase(c)
    BY <2>7 DEF DeleteDatabase, TableEditsStay, DatabaseEditsStay
  <2>8. CASE \/ Scan(c) \/ TryLookupTableBeforeSchema(c) \/ LookupSchema(c) \/ LookupPrivate(c)
             \/ Confirm(c) \/ AddEntryIfAbsent(c) \/ GetSchema(c) \/ LookupEntry(c)
             \/ EndQuery(c) \/ Raced(c)
    BY <2>1, <2>8
       DEF Scan, TryLookupTableBeforeSchema, LookupSchema, LookupPrivate, FindTable, Confirm,
           AddEntryIfAbsent, GetSchema, LookupEntry, EndQuery, Raced, glue
  <2>9. CASE \/ CreateTableInternal(c) \/ CreateView(c) \/ Alter(c) \/ DropEntry(c)
             \/ BuildTableInfo(c) \/ DefinitionForWrite(c) \/ ResolveGlueTable(c) \/ Stored(c)
    BY <2>1, <2>9
       DEF CreateTableInternal, CreateView, Alter, DropEntry, GoesTo, BuildTableInfo,
           DefinitionForWrite, ResolveGlueTable, Stored, glue
  <2>10. CASE \/ RacedSchema(c) \/ ReadDatabase(c) \/ FetchDatabase(c) \/ Install(c)
              \/ CheckEmpty(c) \/ RemoveEntry(c)
    BY <2>1, <2>10
       DEF RacedSchema, ReadDatabase, FetchDatabase, Install, CheckEmpty, RemoveEntry, glue
  <2>11. QED
    BY <1>1, <2>2, <2>3, <2>4, <2>5, <2>6, <2>7, <2>8, <2>9, <2>10 DEF StatementStep
<1>2. QED
  BY <1>1, OthersKeepEdits DEF Next

\* No statement undoes a change of another one, or of another client, to the table it
\* changes, nor to the database if the two do not overlap (UpdateGlueTable, AlterSchema).
THEOREM ChangesStay == Spec => EditsStay
<1>1. IInv /\ [Next]_vars => [TableEditsStay /\ DatabaseEditsStay]_vars
  BY StepKeepsEdits
<1>2. Spec => [][TableEditsStay /\ DatabaseEditsStay]_vars
  BY <1>1, Invariance, PTL DEF Spec
<1>3. QED
  BY <1>2, PTL DEF EditsStay, TableEditsStay, DatabaseEditsStay

=============================================================================
