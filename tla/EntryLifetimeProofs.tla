------------------------ MODULE EntryLifetimeProofs ------------------------
(***************************************************************************)
(* The properties of EntryLifetime for any connections, names and objects, *)
(* and any bound on the number of transactions.                            *)
(*                                                                         *)
(* IInv strengthens TypeOK: a transaction's sequence is behind the         *)
(* manager's (SequenceInv); an operation in progress holds the lock of its *)
(* set (CallInv); what a set holds was built for it and is there once      *)
(* (LinkedInv); a retired object left its set once (RetiredInv), a freed   *)
(* one is in no set still in use (FreedInv), and whatever a transaction    *)
(* holds is in its set or was retired after the transaction started        *)
(* (HeldInv).  Each step has a lemma of its own; NextIInv combines them,   *)
(* and the theorems follow from IInv.  The refinement of SafeReclamation   *)
(* comes last, step by step under IInv.                                    *)
(***************************************************************************)
EXTENDS EntryLifetime, TLAPS

\* A running transaction started before the next one will; the others hold nothing.
SequenceInv ==
  /\ \A c \in transactions : transaction_sequence[c] < next_sequence
  /\ \A c \in Conn \ transactions : bound[c] = {} /\ call[c] = Idle

\* An operation in progress holds the lock of its set, and it reached that set.
CallInv ==
  /\ \A c \in Conn :
       /\ call[c].set = Root \/ call[c].set \in bound[c]
       /\ call[c].todo # {} => entry_lock[call[c].set] = c
       /\ call[c].todo = {} => call[c] = Idle
  /\ \A s \in Sets : entry_lock[s] \in Conn =>
       call[entry_lock[s]].set = s /\ call[entry_lock[s]].todo # {}

\* What a set holds was built for it, and is there under one name.
LinkedInv ==
  \A s \in Sets, n \in Name : entries[s][n] \in Obj =>
    /\ owner[entries[s][n]] = s
    /\ \A m \in Name : entries[s][m] = entries[s][n] => m = n

Linked(o) == \E n \in Name : entries[owner[o]][n] = o

\* A retired entry left its set, once, and is not destroyed.
RetiredInv ==
  \A r \in retired_entries :
    /\ owner[r.entry] # Empty
    /\ ~ Linked(r.entry)
    /\ r.entry \notin freed
    /\ \A q \in retired_entries : q.entry = r.entry => q = r

\* A destroyed object is in no set but one that was destroyed with it.
FreedInv ==
  \A o \in freed : owner[o] # Empty /\ (Linked(o) => owner[o] \in freed)

\* Why a held object is alive: it is in its set or was retired after the holder's
\* transaction started, and the holder also holds the schema of that set.
HeldInv ==
  \A c \in transactions : \A o \in bound[c] :
    /\ owner[o] # Empty
    /\ owner[o] = Root \/ owner[o] \in bound[c]
    /\ \/ Linked(o)
       \/ \E r \in retired_entries :
            r.entry = o /\ transaction_sequence[c] < r.retired_at

NotFreedInv == \A c \in transactions : bound[c] \cap freed = {}

IInv == /\ TypeOK /\ SequenceInv /\ CallInv /\ LinkedInv /\ RetiredInv
        /\ FreedInv /\ HeldInv /\ NotFreedInv /\ NullSlotHidden /\ NoRetiredLeak

-----------------------------------------------------------------------------
USE ObjectsDistinct DEF Obj, Sets, Members

\* The invariant holds of an attached catalog that nobody has used yet.
LEMMA InitIInv == Init => IInv
<1>1. Init => TypeOK
  BY MaxSequenceNat DEF Init, TypeOK, Call, Idle
<1>2. Init => IInv
  BY <1>1 DEF Init, IInv, SequenceInv, CallInv, LinkedInv, Linked, RetiredInv,
     FreedInv, HeldInv, NotFreedInv, NullSlotHidden, NoRetiredLeak, Idle
<1>3. QED
  BY <1>2

\* A transaction that starts is the youngest: it changes no entry, and holds none.
LEMMA StartIInv ==
  ASSUME IInv, NEW c \in Conn, StartTransaction(c)
  PROVE  IInv'
<1> USE DEF StartTransaction, setVars
<1>1. TypeOK /\ SequenceInv /\ NoRetiredLeak /\ HeldInv
  BY DEF IInv
<1>2. /\ transactions' = transactions \cup {c}
      /\ next_sequence' = next_sequence + 1
      /\ bound[c] = {}
      /\ \A d \in transactions : transaction_sequence'[d] = transaction_sequence[d]
      /\ transaction_sequence'[c] = next_sequence
  BY <1>1 DEF TypeOK, SequenceInv
<1>3. TypeOK'
  BY <1>1 DEF TypeOK
<1>4. SequenceInv'
  BY <1>1, <1>2 DEF TypeOK, SequenceInv
<1>5. HeldInv' /\ NotFreedInv'
  BY <1>1, <1>2 DEF IInv, HeldInv, NotFreedInv, Linked
<1>6. NoRetiredLeak'
  BY <1>1, <1>2 DEF NoRetiredLeak
<1>7. (CallInv /\ LinkedInv /\ RetiredInv /\ FreedInv /\ NullSlotHidden)'
  BY DEF IInv, CallInv, LinkedInv, RetiredInv, FreedInv, NullSlotHidden, Linked
<1>8. QED
  BY <1>3, <1>4, <1>5, <1>6, <1>7 DEF IInv

\* What the end of a transaction frees is out of every set and older than all transactions
\* left, so none of them holds it (FreeRetiredEntries).
LEMMA EndIInv ==
  ASSUME IInv, NEW c \in Conn, EndTransaction(c)
  PROVE  IInv'
<1> DEFINE gone == Unneeded(transactions \ {c})
           dead == {r.entry : r \in gone}
<1> USE DEF setVars
<1>1. /\ TypeOK /\ SequenceInv /\ CallInv /\ LinkedInv /\ RetiredInv
      /\ FreedInv /\ HeldInv /\ NotFreedInv /\ NullSlotHidden /\ NoRetiredLeak
  BY DEF IInv
<1>2. /\ c \in transactions /\ call[c] = Idle
      /\ transactions' = transactions \ {c}
      /\ retired_entries' = retired_entries \ gone
      /\ freed' = freed \cup Destroyed(dead)
      /\ bound' = [bound EXCEPT ![c] = {}]
      /\ transaction_sequence' = [transaction_sequence EXCEPT ![c] = 0]
      /\ UNCHANGED <<next_sequence, entries, owner, loaded, entry_lock, call>>
  BY DEF EndTransaction
<1>3. gone \subseteq retired_entries /\ dead \subseteq Obj
  BY <1>1 DEF Unneeded, TypeOK
<1>4. /\ Destroyed(dead) \subseteq Obj
      /\ \A o \in Destroyed(dead) :
           o \in dead \/ \E p \in dead \cap SchemaObj, n \in Name : entries[p][n] = o
  BY <1>3 DEF Destroyed
<1>5. TypeOK'
  BY <1>1, <1>2, <1>4 DEF TypeOK
<1>6. \A d \in transactions' : /\ d \in transactions /\ d # c
                               /\ bound'[d] = bound[d]
                               /\ transaction_sequence'[d] = transaction_sequence[d]
  BY <1>1, <1>2 DEF TypeOK
<1>7. SequenceInv' /\ CallInv' /\ LinkedInv' /\ NullSlotHidden'
  <2>1. bound'[c] = {} /\ \A d \in Conn \ {c} : bound'[d] = bound[d]
    BY <1>1, <1>2 DEF TypeOK
  <2>2. SequenceInv'
    BY <1>1, <1>2, <1>6, <2>1 DEF SequenceInv
  <2>3. CallInv'
    BY <1>1, <1>2, <2>1 DEF CallInv, Idle
  <2>4. LinkedInv' /\ NullSlotHidden'
    BY <1>1, <1>2 DEF LinkedInv, NullSlotHidden
  <2>5. QED
    BY <2>2, <2>3, <2>4
<1>8. \A o \in dead : ~ Linked(o) /\ o \notin freed /\ owner[o] # Empty
  BY <1>1, <1>3 DEF RetiredInv
<1>9. \A p \in dead \cap SchemaObj, n \in Name :
        entries[p][n] \in Obj =>
          /\ owner[entries[p][n]] = p
          /\ entries[p][n] \notin dead
          /\ \A r \in retired_entries : r.entry # entries[p][n]
  <2> SUFFICES ASSUME NEW p \in dead \cap SchemaObj, NEW n \in Name,
                      entries[p][n] \in Obj
               PROVE  /\ owner[entries[p][n]] = p
                      /\ entries[p][n] \notin dead
                      /\ \A r \in retired_entries : r.entry # entries[p][n]
    OBVIOUS
  <2>1. owner[entries[p][n]] = p
    BY <1>1 DEF LinkedInv
  <2>2. \A r \in retired_entries : r.entry # entries[p][n]
    BY <1>1, <2>1 DEF RetiredInv, Linked
  <2>3. entries[p][n] \notin dead
    BY <1>3, <2>2
  <2>4. QED
    BY <2>1, <2>2, <2>3
<1> HIDE DEF gone, dead
<1>10. RetiredInv'
  <2> SUFFICES ASSUME NEW r \in retired_entries'
               PROVE  /\ owner[r.entry] # Empty
                      /\ ~ Linked(r.entry)
                      /\ r.entry \notin freed'
                      /\ \A q \in retired_entries' : q.entry = r.entry => q = r
    BY <1>2 DEF RetiredInv, Linked
  <2>1. r \in retired_entries /\ r \notin gone
    BY <1>2
  <2>2. /\ owner[r.entry] # Empty /\ ~ Linked(r.entry) /\ r.entry \notin freed
        /\ \A q \in retired_entries : q.entry = r.entry => q = r
    BY <1>1, <2>1 DEF RetiredInv
  <2>3. r.entry \notin dead
    BY <1>3, <2>1, <2>2 DEF dead
  <2>4. r.entry \in Obj
    BY <1>1, <2>1 DEF TypeOK
  <2>5. r.entry \notin Destroyed(dead)
    BY <1>4, <1>9, <2>1, <2>3, <2>4
  <2>6. QED
    BY <1>2, <2>1, <2>2, <2>5
<1>11. FreedInv'
  <2> SUFFICES ASSUME NEW o \in freed'
               PROVE  owner[o] # Empty /\ (Linked(o) => owner[o] \in freed')
    BY <1>2 DEF FreedInv, Linked
  <2>1. CASE o \in freed
    BY <1>1, <1>2, <2>1 DEF FreedInv
  <2>2. CASE o \in dead
    BY <1>8, <2>2
  <2>3. ASSUME NEW p \in dead \cap SchemaObj, NEW n \in Name, entries[p][n] = o
        PROVE  owner[o] # Empty /\ owner[o] \in freed'
    <3>1. o \in Obj
      BY <1>1, <1>2, <1>4 DEF TypeOK
    <3>2. owner[o] = p
      BY <1>9, <2>3, <3>1
    <3>3. p \in freed'
      BY <1>2 DEF Destroyed
    <3>4. QED
      BY <3>2, <3>3
  <2>4. QED
    BY <1>2, <1>4, <2>1, <2>2, <2>3
\* What the others hold is neither freed directly nor along with its schema.
<1>12. ASSUME NEW d \in transactions', NEW o \in bound[d]
       PROVE  o \notin dead
  <2>1. d \in transactions /\ d \in transactions \ {c}
    BY <1>2
  <2>2. CASE Linked(o)
    BY <1>8, <2>2
  <2>3. ASSUME NEW r \in retired_entries, r.entry = o,
               transaction_sequence[d] < r.retired_at
        PROVE  o \notin dead
    <3>1. r \notin gone
      BY <1>1, <2>1, <2>3 DEF gone, Unneeded, TypeOK
    <3>2. QED
      BY <1>1, <1>3, <2>3, <3>1 DEF dead, RetiredInv
  <2>4. QED
    BY <1>1, <2>1, <2>2, <2>3 DEF HeldInv
<1>13. NotFreedInv'
  <2> SUFFICES ASSUME NEW d \in transactions', NEW o \in bound[d]
               PROVE  o \notin freed'
    BY <1>6 DEF NotFreedInv
  <2>1. d \in transactions /\ o \in Obj /\ o \notin freed
    BY <1>1, <1>2 DEF TypeOK, NotFreedInv
  <2>2. owner[o] = Root \/ owner[o] \in bound[d]
    BY <1>1, <2>1 DEF HeldInv
  <2>3. ASSUME NEW p \in dead \cap SchemaObj, NEW n \in Name, entries[p][n] = o
        PROVE  FALSE
    <3>1. owner[o] = p
      BY <1>9, <2>1, <2>3
    <3>2. p # Root
      OBVIOUS
    <3>3. QED
      BY <1>12, <2>2, <3>1, <3>2
  <2>4. QED
    BY <1>2, <1>4, <1>12, <2>1, <2>3
<1>14. HeldInv'
  <2> SUFFICES ASSUME NEW d \in transactions', NEW o \in bound[d]
               PROVE  /\ owner[o] # Empty
                      /\ owner[o] = Root \/ owner[o] \in bound[d]
                      /\ \/ Linked(o)
                         \/ \E r \in retired_entries' :
                              r.entry = o /\ transaction_sequence[d] < r.retired_at
    BY <1>2, <1>6 DEF HeldInv, Linked
  <2>1. \A r \in retired_entries : r.entry = o => r \in retired_entries'
    BY <1>2, <1>12 DEF dead
  <2>2. QED
    BY <1>1, <1>2, <2>1 DEF HeldInv
<1>15. NoRetiredLeak'
  <2> SUFFICES ASSUME NEW r \in retired_entries'
               PROVE  \E d \in transactions' : transaction_sequence'[d] < r.retired_at
    BY DEF NoRetiredLeak
  <2>1. r \in retired_entries /\ r \notin gone
    BY <1>2
  <2>2. PICK d \in transactions \ {c} : ~ (r.retired_at <= transaction_sequence[d])
    BY <2>1 DEF gone, Unneeded
  <2>3. transaction_sequence[d] < r.retired_at
    BY <1>1, <2>1, <2>2 DEF TypeOK
  <2>4. QED
    BY <1>2, <1>6, <2>2, <2>3
<1>16. QED
  BY <1>5, <1>7, <1>10, <1>11, <1>13, <1>14, <1>15 DEF IInv

\* What a transaction reaches in a set it may use is alive and in that set.
LEMMA Reachable ==
  ASSUME IInv, NEW c \in transactions, NEW s \in Sets, s = Root \/ s \in bound[c],
         NEW n \in Name, entries[s][n] \in Obj
  PROVE  /\ owner[entries[s][n]] = s
         /\ Linked(entries[s][n])
         /\ s \notin freed
         /\ entries[s][n] \notin freed
<1>1. owner[entries[s][n]] = s
  BY DEF IInv, LinkedInv
<1>2. Linked(entries[s][n])
  BY <1>1 DEF Linked
<1>3. s \notin freed
  BY DEF IInv, NotFreedInv, TypeOK
<1>4. entries[s][n] \notin freed
  BY <1>1, <1>2, <1>3 DEF IInv, FreedInv
<1>5. QED
  BY <1>1, <1>2, <1>3, <1>4

\* A lookup that replaces nothing hands out entries of the set it looked in.
LEMMA FindIInv ==
  ASSUME IInv, NEW c \in Conn, NEW s \in Sets, NEW result \in SUBSET Name,
         Find(c, s, result), loaded' \subseteq Sets
  PROVE  IInv'
<1> DEFINE given == {entries[s][n] : n \in result} \cap Obj
<1>1. /\ TypeOK /\ SequenceInv /\ CallInv /\ LinkedInv /\ RetiredInv
      /\ FreedInv /\ HeldInv /\ NotFreedInv /\ NullSlotHidden /\ NoRetiredLeak
  BY DEF IInv
<1>2. /\ c \in transactions
      /\ s = Root \/ s \in bound[c]
      /\ bound' = [bound EXCEPT ![c] = @ \cup given]
      /\ UNCHANGED <<transactions, transaction_sequence, next_sequence, retired_entries,
                     entries, owner, entry_lock, freed, call>>
  BY DEF Find, MayEnter, managerVars
<1>3. \A o \in given : owner[o] = s /\ Linked(o) /\ o \notin freed
  BY <1>2, Reachable
<1> HIDE DEF given
<1>4. given \subseteq Obj
  BY DEF given
<1>5. /\ bound'[c] = bound[c] \cup given
      /\ \A d \in Conn \ {c} : bound'[d] = bound[d]
  BY <1>1, <1>2 DEF TypeOK
<1>6. TypeOK' /\ SequenceInv' /\ CallInv'
  BY <1>1, <1>2, <1>4, <1>5 DEF TypeOK, SequenceInv, CallInv
<1>7. LinkedInv' /\ RetiredInv' /\ FreedInv' /\ NullSlotHidden' /\ NoRetiredLeak'
  BY <1>1, <1>2 DEF LinkedInv, RetiredInv, FreedInv, NullSlotHidden, NoRetiredLeak, Linked
<1>8. NotFreedInv'
  BY <1>1, <1>2, <1>3, <1>5 DEF NotFreedInv, TypeOK
<1>9. HeldInv'
  <2> SUFFICES ASSUME NEW d \in transactions, NEW o \in bound'[d]
               PROVE  /\ owner[o] # Empty
                      /\ owner[o] = Root \/ owner[o] \in bound'[d]
                      /\ \/ Linked(o)
                         \/ \E r \in retired_entries :
                              r.entry = o /\ transaction_sequence[d] < r.retired_at
    BY <1>2 DEF HeldInv, Linked
  <2>1. CASE o \in bound[d]
    BY <1>1, <1>5, <2>1 DEF HeldInv, TypeOK
  <2>2. CASE o \notin bound[d]
    <3>1. d = c /\ o \in given
      BY <1>1, <1>5, <2>2 DEF TypeOK
    <3>2. s # Empty
      OBVIOUS
    <3>3. QED
      BY <1>2, <1>3, <1>5, <3>1, <3>2
  <2>3. QED
    BY <2>1, <2>2
<1>10. QED
  BY <1>6, <1>7, <1>8, <1>9 DEF IInv

\* An operation that will replace entries takes the lock of its set.
LEMMA ReplaceIInv ==
  ASSUME IInv, NEW c \in Conn, NEW s \in Sets,
         NEW todo \in SUBSET Name, NEW result \in SUBSET Name, todo # {},
         Replace(c, s, todo, result), loaded' \subseteq Sets
  PROVE  IInv'
<1>1. /\ TypeOK /\ SequenceInv /\ CallInv /\ LinkedInv /\ RetiredInv
      /\ FreedInv /\ HeldInv /\ NotFreedInv /\ NullSlotHidden /\ NoRetiredLeak
  BY DEF IInv
<1>2. /\ c \in transactions
      /\ call[c] = Idle
      /\ entry_lock[s] = Unlocked
      /\ s = Root \/ s \in bound[c]
      /\ entry_lock' = [entry_lock EXCEPT ![s] = c]
      /\ call' = [call EXCEPT ![c] = [set |-> s, todo |-> todo, result |-> result]]
      /\ UNCHANGED <<transactions, transaction_sequence, next_sequence, retired_entries,
                     entries, owner, freed, bound>>
  BY DEF Replace, MayEnter, managerVars
<1>3. /\ call'[c].set = s /\ call'[c].todo = todo
      /\ \A d \in Conn \ {c} : call'[d] = call[d]
      /\ entry_lock'[s] = c
      /\ \A q \in Sets \ {s} : entry_lock'[q] = entry_lock[q]
  BY <1>1, <1>2 DEF TypeOK
<1>4. TypeOK'
  BY <1>1, <1>2 DEF TypeOK, Call
<1>5. SequenceInv'
  BY <1>1, <1>2, <1>3 DEF SequenceInv
<1>6. CallInv'
  <2>1. \A d \in Conn \ {c} : call[d].todo # {} => call[d].set # s
    BY <1>1, <1>2 DEF CallInv
  <2>2. \A q \in Sets \ {s} : entry_lock[q] # c
    BY <1>1, <1>2 DEF CallInv, Idle
  <2>3. \A d \in Conn : call[d].set \in Sets
    BY <1>1 DEF TypeOK, Call
  <2>4. QED
    BY <1>1, <1>2, <1>3, <2>1, <2>2, <2>3 DEF CallInv
<1>7. LinkedInv' /\ RetiredInv' /\ FreedInv' /\ HeldInv' /\ NotFreedInv' /\ NoRetiredLeak'
  BY <1>1, <1>2 DEF LinkedInv, RetiredInv, FreedInv, HeldInv, NotFreedInv, NoRetiredLeak,
     Linked
<1>8. NullSlotHidden'
  <2>1. \A q \in Sets, n \in Name : entries[q][n] = Moved => q # s /\ entry_lock[q] # c
    BY <1>1, <1>2 DEF NullSlotHidden, Idle
  <2>2. QED
    BY <1>1, <1>2, <1>3, <2>1 DEF NullSlotHidden
<1>9. QED
  BY <1>4, <1>5, <1>6, <1>7, <1>8 DEF IInv

\* Where an operation in progress stands.
LEMMA InSet ==
  ASSUME IInv, NEW c \in Conn, NEW n \in call[c].todo
  PROVE  /\ c \in transactions
         /\ n \in Name
         /\ call[c].set \in Sets
         /\ call[c].set = Root \/ call[c].set \in bound[c]
         /\ call[c].set \notin freed
         /\ entry_lock[call[c].set] = c
         /\ call[c].result \subseteq Name
<1>1. c \in transactions
  BY DEF IInv, SequenceInv, Idle
<1>2. n \in Name /\ call[c].set \in Sets /\ call[c].result \subseteq Name
  BY DEF IInv, TypeOK, Call
<1>3. call[c].set = Root \/ call[c].set \in bound[c]
  BY DEF IInv, CallInv
<1>4. call[c].set \notin freed
  BY <1>1, <1>3 DEF IInv, NotFreedInv, TypeOK
<1>5. entry_lock[call[c].set] = c
  BY DEF IInv, CallInv
<1>6. QED
  BY <1>1, <1>2, <1>3, <1>4, <1>5

\* A retired entry leaves its set with the current sequence, which no running transaction has
\* reached (RetireEntry).
LEMMA RetireIInv ==
  ASSUME IInv, NEW c \in Conn, NEW n \in Name, RetireEntry(c, n)
  PROVE  IInv'
<1>0. /\ n \in call[c].todo
      /\ entries[call[c].set][n] \in Obj
  BY DEF RetireEntry
<1> PICK s \in Sets : s = call[c].set
  BY <1>0, InSet
<1> PICK e \in Obj : e = entries[s][n]
  BY <1>0
<1> PICK new : new = [retired_at |-> next_sequence, entry |-> e]
  OBVIOUS
<1>1. /\ TypeOK /\ SequenceInv /\ CallInv /\ LinkedInv /\ RetiredInv
      /\ FreedInv /\ HeldInv /\ NotFreedInv /\ NullSlotHidden /\ NoRetiredLeak
  BY DEF IInv
<1>2. /\ n \in call[c].todo
      /\ e \in Obj
      /\ retired_entries' = retired_entries \cup {new}
      /\ entries' = [entries EXCEPT ![s][n] = Moved]
      /\ UNCHANGED <<transactions, transaction_sequence, next_sequence,
                     owner, loaded, entry_lock, freed, call, bound>>
  BY DEF RetireEntry
<1>3. /\ c \in transactions
      /\ s \in Sets
      /\ s = Root \/ s \in bound[c]
      /\ entry_lock[s] = c
  BY <1>2, InSet
<1>4. owner[e] = s /\ Linked(e) /\ e \notin freed
  BY <1>2, <1>3, Reachable
<1>5. \A r \in retired_entries : r.entry # e
  BY <1>1, <1>4 DEF RetiredInv
<1>6. new.retired_at = next_sequence /\ new.entry = e
  OBVIOUS
<1>7. \A q \in Sets, m \in Name :
        entries'[q][m] = IF q = s /\ m = n THEN Moved ELSE entries[q][m]
  BY <1>1, <1>2, <1>3 DEF TypeOK
<1>8. new \in [retired_at : Nat, entry : Obj]
  BY <1>1, <1>2 DEF TypeOK
<1>9. TypeOK'
  BY <1>1, <1>2, <1>8 DEF TypeOK
<1>10. SequenceInv' /\ CallInv'
  BY <1>1, <1>2 DEF SequenceInv, CallInv
<1>11. LinkedInv'
  BY <1>1, <1>2, <1>7 DEF LinkedInv
\* Only e leaves its set.
<1>12. \A o \in Obj : owner[o] # Empty =>
         /\ o # e => (Linked(o)' <=> Linked(o))
         /\ ~ Linked(e)'
  <2>1. \A o \in Obj : owner[o] # Empty => owner[o] \in Sets
    BY <1>1 DEF TypeOK
  <2>2. ~ Linked(e)'
    <3>1. \A m \in Name \ {n} : entries[s][m] # e
      BY <1>1, <1>2, <1>3 DEF LinkedInv
    <3>2. \A m \in Name : entries'[s][m] # e
      BY <1>2, <1>3, <1>7, <3>1
    <3>3. owner'[e] = s
      BY <1>2, <1>4
    <3>4. QED
      BY <3>2, <3>3 DEF Linked
  <2>3. ASSUME NEW o \in Obj, owner[o] \in Sets, o # e
        PROVE  Linked(o)' <=> Linked(o)
    <3>1. \A m \in Name : owner[o] = s /\ m = n => entries[owner[o]][m] # o
      BY <2>3
    <3>2. \A m \in Name : entries'[owner[o]][m] = o <=> entries[owner[o]][m] = o
      BY <1>7, <2>3, <3>1
    <3>3. owner'[o] = owner[o]
      BY <1>2
    <3>4. QED
      BY <3>2, <3>3 DEF Linked
  <2>4. QED
    BY <2>1, <2>2, <2>3
<1>13. s # Empty
  BY <1>3
<1>14. RetiredInv'
  <2> SUFFICES ASSUME NEW r \in retired_entries'
               PROVE  /\ owner[r.entry] # Empty
                      /\ ~ Linked(r.entry)'
                      /\ r.entry \notin freed
                      /\ \A q \in retired_entries' : q.entry = r.entry => q = r
    BY <1>2 DEF RetiredInv
  <2>1. CASE r = new
    <3>1. r.entry = e /\ owner[e] # Empty /\ ~ Linked(e)' /\ e \notin freed
      BY <1>2, <1>4, <1>6, <1>12, <1>13, <2>1
    <3>2. \A q \in retired_entries' : q.entry = e => q = r
      BY <1>2, <1>5, <2>1
    <3>3. QED
      BY <3>1, <3>2
  <2>2. CASE r \in retired_entries
    <3>1. r.entry \in Obj /\ r.entry # e
      BY <1>1, <1>5, <2>2 DEF TypeOK
    <3>2. QED
      BY <1>1, <1>2, <1>6, <1>12, <2>2, <3>1 DEF RetiredInv
  <2>3. QED
    BY <1>2, <2>1, <2>2
<1>15. FreedInv'
  <2>1. \A o \in freed : o \in Obj /\ o # e
    BY <1>1, <1>4 DEF TypeOK
  <2>2. QED
    BY <1>1, <1>2, <1>12, <2>1 DEF FreedInv
<1>16. HeldInv'
  <2> SUFFICES ASSUME NEW d \in transactions, NEW o \in bound[d]
               PROVE  /\ owner[o] # Empty
                      /\ owner[o] = Root \/ owner[o] \in bound[d]
                      /\ \/ Linked(o)'
                         \/ \E r \in retired_entries' :
                              r.entry = o /\ transaction_sequence[d] < r.retired_at
    BY <1>2 DEF HeldInv
  <2>1. o \in Obj
    BY <1>1 DEF TypeOK
  <2>2. CASE o = e
    BY <1>1, <1>2, <1>6, <2>2 DEF HeldInv, SequenceInv
  <2>3. CASE o # e
    BY <1>1, <1>2, <1>12, <2>1, <2>3 DEF HeldInv
  <2>4. QED
    BY <2>2, <2>3
<1>17. NotFreedInv'
  BY <1>1, <1>2 DEF NotFreedInv
<1>18. NullSlotHidden'
  BY <1>1, <1>2, <1>3, <1>7 DEF NullSlotHidden
<1>19. NoRetiredLeak'
  BY <1>1, <1>2, <1>3, <1>6 DEF NoRetiredLeak, SequenceInv
<1>20. QED
  BY <1>9, <1>10, <1>11, <1>14, <1>15, <1>16, <1>17, <1>18, <1>19 DEF IInv

\* Filling an empty slot of a set in use with a new object, or with none: what
\* EmplaceEntry and EraseEntry have in common up to the change of owner.
LEMMA LeaveIInv ==
  ASSUME IInv, NEW c \in Conn, NEW n \in call[c].todo, Leave(c, n),
         NEW s \in Sets, s = call[c].set, entries[s][n] \in {Empty, Moved},
         NEW o \in Members(s) \cup {Empty},
         o # Empty => o \in Obj /\ owner[o] = Empty,
         entries' = [entries EXCEPT ![s][n] = o],
         owner' = IF o = Empty THEN owner ELSE [owner EXCEPT ![o] = s],
         UNCHANGED <<managerVars, loaded, freed>>
  PROVE  IInv'
<1> USE DEF managerVars
<1>1. /\ TypeOK /\ SequenceInv /\ CallInv /\ LinkedInv /\ RetiredInv
      /\ FreedInv /\ HeldInv /\ NotFreedInv /\ NullSlotHidden /\ NoRetiredLeak
  BY DEF IInv
<1>2. /\ c \in transactions /\ n \in Name
      /\ s = Root \/ s \in bound[c]
      /\ s \notin freed
      /\ entry_lock[s] = c
      /\ call[c].result \subseteq Name
  BY InSet
<1>3. \A q \in Sets, m \in Name :
        entries'[q][m] = IF q = s /\ m = n THEN o ELSE entries[q][m]
  BY <1>1, <1>2 DEF TypeOK
<1>4. \A p \in Obj : owner'[p] = IF p = o THEN s ELSE owner[p]
  BY <1>1 DEF TypeOK
<1>5. /\ \A q \in Sets, m \in Name : o \in Obj => entries[q][m] # o
      /\ \A r \in retired_entries : o \in Obj => r.entry # o
      /\ o \notin freed
      /\ \A d \in transactions : o \in Obj => o \notin bound[d]
  <2>1. \A q \in Sets : q # Empty
    OBVIOUS
  <2>2. \A q \in Sets, m \in Name : o \in Obj => entries[q][m] # o
    BY <1>1, <2>1 DEF LinkedInv
  <2>3. \A r \in retired_entries : o \in Obj => r.entry # o
    BY <1>1 DEF RetiredInv
  <2>4. o \notin freed
    BY <1>1 DEF FreedInv, TypeOK
  <2>5. \A d \in transactions : o \in Obj => o \notin bound[d]
    BY <1>1 DEF HeldInv
  <2>6. QED
    BY <2>2, <2>3, <2>4, <2>5
\* An object in place before is still in place, and its owner is the same.
<1>6. \A p \in Obj : p # o /\ owner[p] # Empty =>
        owner'[p] = owner[p] /\ (Linked(p)' <=> Linked(p))
  <2> SUFFICES ASSUME NEW p \in Obj, p # o, owner[p] # Empty
               PROVE  owner'[p] = owner[p] /\ (Linked(p)' <=> Linked(p))
    OBVIOUS
  <2>1. owner'[p] = owner[p] /\ owner[p] \in Sets
    BY <1>1, <1>4 DEF TypeOK
  <2>2. \A m \in Name : entries'[owner[p]][m] = p <=> entries[owner[p]][m] = p
    BY <1>3, <2>1
  <2>3. QED
    BY <2>1, <2>2 DEF Linked
<1>7. LinkedInv'
  <2> SUFFICES ASSUME NEW q \in Sets, NEW m \in Name, entries'[q][m] \in Obj
               PROVE  /\ owner'[entries'[q][m]] = q
                      /\ \A k \in Name : entries'[q][k] = entries'[q][m] => k = m
    BY DEF LinkedInv
  <2>1. CASE q = s /\ m = n
    BY <1>2, <1>3, <1>4, <1>5, <2>1
  <2>2. CASE ~ (q = s /\ m = n)
    <3>1. entries'[q][m] = entries[q][m] /\ entries[q][m] # o
      BY <1>3, <1>5, <2>2
    <3>2. QED
      BY <1>1, <1>3, <1>4, <1>5, <3>1 DEF LinkedInv
  <2>3. QED
    BY <2>1, <2>2
\* What the operation gives its caller when it is through.
<1> DEFINE given == {entries'[s][m] : m \in call[c].result} \cap Obj
<1>8. /\ bound'[c] \subseteq bound[c] \cup given
      /\ bound[c] \subseteq bound'[c]
      /\ \A d \in Conn \ {c} : bound'[d] = bound[d]
      /\ bound' \in [Conn -> SUBSET Obj]
  BY <1>1 DEF Leave, TypeOK
<1>9. \A p \in given : p \in Obj /\ owner'[p] = s /\ Linked(p)' /\ p \notin freed
  <2> SUFFICES ASSUME NEW m \in Name, NEW p \in Obj, p = entries'[s][m]
               PROVE  owner'[p] = s /\ Linked(p)' /\ p \notin freed
    BY <1>2
  <2>1. owner'[p] = s
    BY <1>7 DEF LinkedInv
  <2>2. Linked(p)'
    BY <2>1 DEF Linked
  <2>3. p \notin freed
    <3>1. CASE p = o
      BY <1>5, <3>1
    <3>2. CASE p # o
      <4>1. entries[s][m] = p
        BY <1>3, <3>2
      <4>2. QED
        BY <1>2, <4>1, Reachable
    <3>3. QED
      BY <3>1, <3>2
  <2>4. QED
    BY <2>1, <2>2, <2>3
<1> HIDE DEF given
<1>10. /\ \A d \in Conn \ {c} : call'[d] = call[d]
       /\ \A q \in Sets \ {s} : entry_lock'[q] = entry_lock[q]
       /\ \/ call'[c] = Idle /\ entry_lock'[s] = Unlocked
          \/ /\ call'[c].set = s /\ call'[c].todo = call[c].todo \ {n}
             /\ call'[c].todo # {} /\ entry_lock'[s] = c
  <2>1. call \in [Conn -> Call] /\ entry_lock \in [Sets -> Conn \cup {Unlocked}]
    BY <1>1 DEF TypeOK
  <2>2. CASE call[c].todo = {n}
    BY <1>2, <2>1, <2>2 DEF Leave
  <2>3. CASE call[c].todo # {n}
    <3>1. call' = [call EXCEPT ![c].todo = @ \ {n}] /\ entry_lock' = entry_lock
      BY <2>3 DEF Leave
    <3>2. call[c].todo \ {n} # {}
      BY <2>3
    <3>3. call'[c] = [call[c] EXCEPT !.todo = @ \ {n}]
      BY <2>1, <3>1
    <3>4. call'[c].set = call[c].set /\ call'[c].todo = call[c].todo \ {n}
      BY <2>1, <3>3 DEF Call
    <3>5. QED
      BY <1>2, <2>1, <3>1, <3>2, <3>4
  <2>4. QED
    BY <2>2, <2>3
<1>11. call' \in [Conn -> Call] /\ entry_lock' \in [Sets -> Conn \cup {Unlocked}]
  <2>1. Idle \in Call
    BY DEF Idle, Call
  <2>2. call[c] \in Call /\ [call[c] EXCEPT !.todo = @ \ {n}] \in Call
    BY <1>1 DEF TypeOK, Call
  <2>3. \/ call' = [call EXCEPT ![c] = Idle]
        \/ call' = [call EXCEPT ![c].todo = @ \ {n}]
    BY DEF Leave
  <2>4. call' \in [Conn -> Call]
    <3>1. \E x \in Call : call' = [call EXCEPT ![c] = x]
      BY <2>1, <2>2, <2>3
    <3>2. call \in [Conn -> Call]
      BY <1>1 DEF TypeOK
    <3>3. QED
      BY <3>1, <3>2
  <2>5. entry_lock' \in [Sets -> Conn \cup {Unlocked}]
    BY <1>1 DEF Leave, TypeOK
  <2>6. QED
    BY <2>4, <2>5
<1>12. TypeOK'
  <2>1. entries' \in [Sets -> [Name -> Obj \cup {Empty, Moved}]]
    BY <1>1, <1>2 DEF TypeOK
  <2>2. owner' \in [Obj -> Sets \cup {Empty}]
    BY <1>1 DEF TypeOK
  <2>3. QED
    BY <1>1, <1>8, <1>11, <2>1, <2>2 DEF TypeOK
<1>13. SequenceInv'
  BY <1>1, <1>2, <1>8, <1>10 DEF SequenceInv
<1>14. CallInv'
  <2>1. \A d \in Conn \ {c} : call[d].todo # {} => call[d].set # s
    BY <1>1, <1>2 DEF CallInv
  <2>2. \A q \in Sets \ {s} : entry_lock[q] # c
    BY <1>1 DEF CallInv
  <2>3. \A d \in Conn : call[d].set \in Sets
    BY <1>1 DEF TypeOK, Call
  <2>4. Idle.set = Root /\ Idle.todo = {}
    BY DEF Idle
  <2>5. \A d \in Conn : call'[d].set = Root \/ call'[d].set \in bound'[d]
    BY <1>1, <1>2, <1>8, <1>10, <2>4 DEF CallInv
  <2>6. \A d \in Conn : /\ call'[d].todo # {} => entry_lock'[call'[d].set] = d
                        /\ call'[d].todo = {} => call'[d] = Idle
    BY <1>1, <1>10, <2>1, <2>3, <2>4 DEF CallInv
  <2>7. \A q \in Sets : entry_lock'[q] \in Conn =>
          call'[entry_lock'[q]].set = q /\ call'[entry_lock'[q]].todo # {}
    BY <1>1, <1>10, <2>2 DEF CallInv
  <2>8. QED
    BY <2>5, <2>6, <2>7 DEF CallInv
<1>15. RetiredInv'
  <2>1. \A r \in retired_entries : r.entry \in Obj /\ r.entry # o
    BY <1>1, <1>5 DEF TypeOK
  <2>2. QED
    BY <1>1, <1>6, <2>1 DEF RetiredInv
<1>16. FreedInv'
  BY <1>1, <1>5, <1>6 DEF FreedInv, TypeOK
<1>17. NotFreedInv'
  BY <1>1, <1>2, <1>8, <1>9 DEF NotFreedInv, TypeOK
<1>18. HeldInv'
  <2> SUFFICES ASSUME NEW d \in transactions, NEW p \in bound'[d]
               PROVE  /\ owner'[p] # Empty
                      /\ owner'[p] = Root \/ owner'[p] \in bound'[d]
                      /\ \/ Linked(p)'
                         \/ \E r \in retired_entries :
                              r.entry = p /\ transaction_sequence[d] < r.retired_at
    BY DEF HeldInv
  <2>1. CASE p \in bound[d]
    <3>1. p \in Obj /\ p # o
      BY <1>1, <1>5, <2>1 DEF TypeOK
    <3>2. bound[d] \subseteq bound'[d]
      BY <1>1, <1>8 DEF TypeOK
    <3>3. QED
      BY <1>1, <1>6, <2>1, <3>1, <3>2 DEF HeldInv
  <2>2. CASE p \notin bound[d]
    <3>1. d = c /\ p \in given
      BY <1>1, <1>8, <2>2 DEF TypeOK
    <3>2. s # Empty
      OBVIOUS
    <3>3. QED
      BY <1>2, <1>8, <1>9, <3>1, <3>2
  <2>3. QED
    BY <2>1, <2>2
<1>19. NullSlotHidden'
  <2> SUFFICES ASSUME NEW q \in Sets, NEW m \in Name, entries'[q][m] = Moved
               PROVE  /\ entry_lock'[q] \in Conn
                      /\ call'[entry_lock'[q]].set = q
                      /\ m \in call'[entry_lock'[q]].todo
    BY DEF NullSlotHidden
  <2>1. ~ (q = s /\ m = n) /\ entries[q][m] = Moved
    BY <1>2, <1>3
  <2>2. /\ entry_lock[q] \in Conn
        /\ call[entry_lock[q]].set = q
        /\ m \in call[entry_lock[q]].todo
    BY <1>1, <2>1 DEF NullSlotHidden
  <2>3. CASE q # s
    BY <1>1, <1>10, <2>2, <2>3
  <2>4. CASE q = s
    <3>1. m # n /\ m \in call[c].todo
      BY <1>2, <2>1, <2>2, <2>4
    <3>2. call'[c].set = s /\ call'[c].todo = call[c].todo \ {n} /\ entry_lock'[s] = c
      BY <1>1, <1>2, <3>1 DEF Leave, TypeOK, Call
    <3>3. QED
      BY <2>4, <3>1, <3>2
  <2>5. QED
    BY <2>3, <2>4
<1>20. NoRetiredLeak'
  BY <1>1 DEF NoRetiredLeak
<1>21. QED
  BY <1>7, <1>12, <1>13, <1>14, <1>15, <1>16, <1>17, <1>18, <1>19, <1>20 DEF IInv

\* A new entry takes an empty slot of the set whose lock its thread holds.
LEMMA EmplaceIInv ==
  ASSUME IInv, NEW c \in Conn, NEW n \in Name, NEW o \in Obj, EmplaceEntry(c, n, o)
  PROVE  IInv'
<1>1. n \in call[c].todo /\ call[c].set \in Sets /\ o \in Members(call[c].set)
  BY InSet DEF EmplaceEntry
<1>2. o # Empty
  OBVIOUS
<1>3. QED
  BY <1>1, <1>2, LeaveIInv DEF EmplaceEntry

\* The null slot of a dropped entry is erased by the thread that moved the entry out.
LEMMA EraseIInv ==
  ASSUME IInv, NEW c \in Conn, NEW n \in Name, EraseEntry(c, n)
  PROVE  IInv'
<1>1. n \in call[c].todo /\ call[c].set \in Sets
  BY InSet DEF EraseEntry
<1>2. QED
  BY <1>1, LeaveIInv DEF EraseEntry

\* Every step preserves the invariant.
LEMMA NextIInv == IInv /\ [Next]_vars => IInv'
<1> SUFFICES ASSUME IInv, [Next]_vars
             PROVE  IInv'
  OBVIOUS
<1>1. ASSUME NEW c \in Conn, Operate(c)
      PROVE  IInv'
  <2>1. loaded \subseteq Sets
    BY DEF IInv, TypeOK
  <2>2. ASSUME NEW s \in Sets, NEW n \in Name, GetEntry(c, s, n)
        PROVE  IInv'
    <3>1. {n} \in SUBSET Name /\ {} \in SUBSET Name /\ {n} # {} /\ loaded' = loaded
      BY <2>2 DEF GetEntry
    <3>2. CASE Find(c, s, {n})
      BY <2>1, <3>1, <3>2, FindIInv
    <3>3. CASE Replace(c, s, {n}, {n})
      BY <2>1, <3>1, <3>3, ReplaceIInv
    <3>4. CASE Replace(c, s, {n}, {})
      BY <2>1, <3>1, <3>4, ReplaceIInv
    <3>5. QED
      BY <2>2, <3>2, <3>3, <3>4 DEF GetEntry
  <2>3. ASSUME NEW s \in Sets, NEW n \in Name, CreateEntry(c, s, n)
        PROVE  IInv'
    BY <2>1, <2>3, ReplaceIInv DEF CreateEntry
  <2>4. ASSUME NEW s \in Sets, NEW n \in Name, RemoveEntry(c, s, n)
        PROVE  IInv'
    BY <2>1, <2>4, ReplaceIInv DEF RemoveEntry
  <2>5. ASSUME NEW s \in Sets, Scan(c, s)
        PROVE  IInv'
    <3>1. loaded' \subseteq Sets
      BY <2>1, <2>5 DEF Scan
    <3>2. CASE Find(c, s, Name)
      BY <3>1, <3>2, FindIInv
    <3>3. ASSUME NEW todo \in (SUBSET Name) \ {{}}, Replace(c, s, todo, Name)
          PROVE  IInv'
      BY <3>1, <3>3, ReplaceIInv
    <3>4. QED
      BY <2>5, <3>2, <3>3 DEF Scan
  <2>6. QED
    BY <1>1, <2>2, <2>3, <2>4, <2>5 DEF Operate
<1>2. ASSUME NEW c \in Conn, Progress(c)
      PROVE  IInv'
  BY <1>2, RetireIInv, EmplaceIInv, EraseIInv DEF Progress
<1>3. CASE UNCHANGED vars
  BY <1>3 DEF IInv, TypeOK, SequenceInv, CallInv, LinkedInv, RetiredInv, FreedInv, HeldInv,
     NotFreedInv, NullSlotHidden, NoRetiredLeak, Linked, vars, managerVars, setVars
<1>4. QED
  BY <1>1, <1>2, <1>3, StartIInv, EndIInv DEF Next

\* The invariant holds of every behaviour, for any sets of connections, names and
\* objects and any bound on the transactions.
THEOREM Invariance == Spec => []IInv
  BY InitIInv, NextIInv, PTL DEF Spec

-----------------------------------------------------------------------------
\* The entries, the retired list, the locks and the calls keep their types.
THEOREM TypeCorrectness == Spec => []TypeOK
<1>1. IInv => TypeOK
  BY DEF IInv
<1>2. QED
  BY <1>1, Invariance, PTL

\* No transaction ever holds a pointer to a destroyed catalog entry.
THEOREM UseAfterFreeFreedom == Spec => []NoUseAfterFree
<1>1. IInv => NoUseAfterFree
  BY DEF IInv, NoUseAfterFree, NotFreedInv, CallInv, TypeOK
<1>2. QED
  BY <1>1, Invariance, PTL

\* A table that a transaction holds still has its schema.
THEOREM SchemaSurvival == Spec => []SchemaOutlivesTables
<1>1. IInv => SchemaOutlivesTables
  BY DEF IInv, SchemaOutlivesTables, NotFreedInv, HeldInv, TypeOK
<1>2. QED
  BY <1>1, Invariance, PTL

\* A catalog entry has one owner at a time, and is destroyed once.
THEOREM Ownership == Spec => []SingleOwner
<1>1. IInv => SingleOwner
  <2> SUFFICES ASSUME IInv
               PROVE  SingleOwner
    OBVIOUS
  <2>1. \A s1, s2 \in Sets, n1, n2 \in Name :
          entries[s1][n1] = entries[s2][n2] /\ entries[s1][n1] \in Obj
            => s1 = s2 /\ n1 = n2
    BY DEF IInv, LinkedInv
  <2>2. \A o \in Obj, s \in Sets, n \in Name : entries[s][n] = o => owner[o] = s /\ Linked(o)
    BY DEF IInv, LinkedInv, Linked
  <2>3. \A r \in retired_entries :
          /\ r.entry \notin freed
          /\ \A s \in Sets, n \in Name : entries[s][n] # r.entry
          /\ \A q \in retired_entries : q.entry = r.entry => q = r
    BY <2>2 DEF IInv, RetiredInv, TypeOK
  <2>4. \A o \in freed, s \in Sets \ freed, n \in Name : entries[s][n] # o
    BY <2>2 DEF IInv, FreedInv, TypeOK
  <2>5. QED
    BY <2>1, <2>3, <2>4 DEF SingleOwner
<1>2. QED
  BY <1>1, Invariance, PTL

\* Nobody but the thread that is replacing it sees the slot of a retired entry.
THEOREM NullSlots == Spec => []NullSlotHidden
<1>1. IInv => NullSlotHidden
  BY DEF IInv
<1>2. QED
  BY <1>1, Invariance, PTL

\* The manager keeps a retired entry only as long as somebody may use it.
THEOREM NoLeak == Spec => []NoRetiredLeak
<1>1. IInv => NoRetiredLeak
  BY DEF IInv
<1>2. QED
  BY <1>1, Invariance, PTL

-----------------------------------------------------------------------------
(* The refinement: each step gives, releases or does neither. *)

built == {o \in Obj : owner[o] # Empty}

\* Nothing is retired or freed at first, in both specifications.
LEMMA InitReclamation == Init => Reclamation!Init
  BY DEF Init, Reclamation!Init

\* The end of a transaction frees retired entries no reader of the abstract specification holds.
LEMMA EndReclamation ==
  ASSUME IInv, NEW c \in Conn, EndTransaction(c)
  PROVE  Reclamation!Next
<1> DEFINE dead == {r.entry : r \in Unneeded(transactions \ {c})}
           gone == freed' \ freed
<1>1. IInv' /\ TypeOK /\ TypeOK'
  BY EndIInv DEF IInv
<1>2. gone \subseteq built \ freed
  BY <1>1 DEF IInv, FreedInv, TypeOK, EndTransaction, setVars, built
<1>3. ASSUME NEW d \in Conn \ {c}
      PROVE  bound[d] \cap gone = {}
  <2>1. bound'[d] = bound[d]
    BY <1>1 DEF EndTransaction, TypeOK
  <2>2. CASE d \in transactions
    BY <1>1, <2>1, <2>2 DEF IInv, NotFreedInv, EndTransaction
  <2>3. CASE d \notin transactions
    BY <2>3 DEF IInv, SequenceInv
  <2>4. QED
    BY <2>2, <2>3
<1>4. freed' = freed \cup gone
  BY DEF EndTransaction
<1>5. owner' = owner /\ bound' = [bound EXCEPT ![c] = {}]
  BY DEF EndTransaction, setVars
<1> HIDE DEF gone
<1>6. Reclamation!Release(c, gone)
  BY <1>2, <1>3, <1>4, <1>5 DEF Reclamation!Release, built
<1>7. gone \in SUBSET Obj
  BY <1>2 DEF built
<1>8. QED
  BY <1>6, <1>7 DEF Reclamation!Next

\* A step that builds new objects and gives the caller some that exist.
LEMMA GiveReclamation ==
  ASSUME NEW c \in Conn, NEW new \in SUBSET Obj, NEW given \in SUBSET Obj,
         new \cap built = {}, built' = built \cup new,
         given \subseteq (built \cup new) \ freed,
         bound' = [bound EXCEPT ![c] = @ \cup given], freed' = freed
  PROVE  Reclamation!Next
<1>1. Reclamation!Give(c, new, given)
  BY DEF Reclamation!Give, built
<1>2. QED
  BY <1>1 DEF Reclamation!Next

\* What a lookup hands out was built, and is not freed.
LEMMA FindReclamation ==
  ASSUME IInv, NEW c \in Conn, NEW s \in Sets, NEW result \in SUBSET Name,
         Find(c, s, result)
  PROVE  Reclamation!Next
<1> DEFINE given == {entries[s][n] : n \in result} \cap Obj
<1>1. \A o \in given : o \notin freed /\ owner[o] = s
  BY Reachable DEF Find, MayEnter
<1>2. given \subseteq (built \cup {}) \ freed
  BY <1>1 DEF built
<1>3. built' = built \cup {}
  BY DEF Find, built
<1>4. bound' = [bound EXCEPT ![c] = @ \cup given] /\ freed' = freed
  BY DEF Find
<1>5. given \in SUBSET Obj /\ {} \in SUBSET Obj
  OBVIOUS
<1> HIDE DEF given
<1>6. QED
  BY <1>2, <1>3, <1>4, <1>5, GiveReclamation

\* The end of a replacement: the new object, if any, was not built before.
LEMMA LeaveReclamation ==
  ASSUME IInv, IInv', NEW c \in Conn, NEW n \in call[c].todo, Leave(c, n),
         NEW new \in SUBSET Obj, new \cap built = {}, built' = built \cup new,
         freed' = freed
  PROVE  Reclamation!Next
<1> DEFINE given == bound'[c] \ bound[c]
<1>1. bound' = [bound EXCEPT ![c] = @ \cup given]
  BY DEF Leave, IInv, TypeOK
<1>2. c \in transactions
  BY InSet
<1>3. /\ bound'[c] \subseteq Obj
      /\ \A d \in Conn \ {c} : bound'[d] = bound[d]
  BY DEF Leave, IInv, TypeOK
<1>4. c \in transactions' \/ bound'[c] = {}
  BY DEF IInv, SequenceInv
<1>5. \A o \in bound'[c] : owner'[o] # Empty /\ o \notin freed'
  BY <1>4 DEF IInv, HeldInv, NotFreedInv
<1>6. given \subseteq (built \cup new) \ freed
  <2>1. given \subseteq built'
    BY <1>3, <1>5 DEF built
  <2>2. QED
    BY <1>5, <2>1
<1>7. given \in SUBSET Obj
  BY <1>3
<1> HIDE DEF given
<1>8. QED
  BY <1>1, <1>6, <1>7, GiveReclamation

\* Every step is a step of SafeReclamation, or leaves its variables alone.
LEMMA NextReclamation ==
  IInv /\ IInv' /\ [Next]_vars => [Reclamation!Next]_(Reclamation!vars)
<1> SUFFICES ASSUME IInv, IInv', [Next]_vars
             PROVE  Reclamation!Next \/ UNCHANGED Reclamation!vars
  OBVIOUS
<1>1. \A c \in Conn, s \in Sets, todo, result \in SUBSET Name :
        Replace(c, s, todo, result) => UNCHANGED Reclamation!vars
  BY DEF Replace, Reclamation!vars
<1>2. ASSUME NEW c \in Conn, NEW s \in Sets, NEW n \in Name,
             GetEntry(c, s, n) \/ CreateEntry(c, s, n) \/ RemoveEntry(c, s, n)
      PROVE  Reclamation!Next \/ UNCHANGED Reclamation!vars
  <2>1. {n} \in SUBSET Name /\ {} \in SUBSET Name
    OBVIOUS
  <2>2. CASE Find(c, s, {n})
    BY <2>1, <2>2, FindReclamation
  <2>3. CASE Replace(c, s, {n}, {n}) \/ Replace(c, s, {n}, {})
    BY <1>1, <2>1, <2>3
  <2>4. QED
    BY <1>2, <2>2, <2>3 DEF GetEntry, CreateEntry, RemoveEntry
<1>3. ASSUME NEW c \in Conn, NEW s \in Sets, Scan(c, s)
      PROVE  Reclamation!Next \/ UNCHANGED Reclamation!vars
  <2>1. CASE Find(c, s, Name)
    BY <2>1, FindReclamation
  <2>2. CASE \E todo \in (SUBSET Name) \ {{}} : Replace(c, s, todo, Name)
    BY <1>1, <2>2
  <2>3. QED
    BY <1>3, <2>1, <2>2 DEF Scan
<1>4. ASSUME NEW c \in Conn, NEW n \in Name, NEW o \in Obj, EmplaceEntry(c, n, o)
      PROVE  Reclamation!Next
  <2>1. n \in call[c].todo /\ Leave(c, n) /\ freed' = freed /\ owner[o] = Empty
    BY <1>4 DEF EmplaceEntry
  <2>2. call[c].set \in Sets
    BY <2>1, InSet
  <2>3. owner' = [owner EXCEPT ![o] = call[c].set] /\ call[c].set # Empty
    BY <1>4, <2>2 DEF EmplaceEntry
  <2>4. {o} \cap built = {} /\ built' = built \cup {o}
    BY <2>1, <2>3 DEF built, IInv, TypeOK
  <2>5. {o} \in SUBSET Obj
    OBVIOUS
  <2>6. QED
    BY <2>1, <2>4, <2>5, LeaveReclamation
<1>5. ASSUME NEW c \in Conn, NEW n \in Name, EraseEntry(c, n)
      PROVE  Reclamation!Next
  <2>1. n \in call[c].todo /\ Leave(c, n) /\ freed' = freed
    BY <1>5 DEF EraseEntry
  <2>2. {} \cap built = {} /\ built' = built \cup {} /\ {} \in SUBSET Obj
    BY <1>5 DEF built, EraseEntry
  <2>3. QED
    BY <2>1, <2>2, LeaveReclamation
<1>6. ASSUME NEW c \in Conn, NEW n \in Name, RetireEntry(c, n)
      PROVE  UNCHANGED Reclamation!vars
  BY <1>6 DEF RetireEntry, Reclamation!vars
<1>7. ASSUME NEW c \in Conn, StartTransaction(c)
      PROVE  UNCHANGED Reclamation!vars
  BY <1>7 DEF StartTransaction, setVars, Reclamation!vars
<1>8. CASE UNCHANGED vars
  BY <1>8 DEF vars, setVars, Reclamation!vars
<1>9. QED
  BY <1>2, <1>3, <1>4, <1>5, <1>6, <1>7, <1>8, EndReclamation
  DEF Next, Operate, Progress

\* The grace period of the transaction manager implements safe reclamation: what it
\* frees was built, is freed once, and is held by nobody.
THEOREM Refinement == Spec => ImplementsReclamation
<1>1. Spec => Reclamation!Spec
  BY InitReclamation, NextReclamation, Invariance, PTL DEF Spec, Reclamation!Spec
<1>2. QED
  BY <1>1 DEF ImplementsReclamation
=============================================================================
