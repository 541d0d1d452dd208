------------------------ MODULE CreateTableAsProofs ------------------------
(***************************************************************************)
(* The properties of CreateTableAs for any number of statements, names,    *)
(* locations and tables of other clients.                                  *)
(*                                                                         *)
(* IInv strengthens TypeOK: where a statement's table can be (TableInv),   *)
(* what is recorded for the rollback (RecordInv), whose files are where    *)
(* and since when (FileInv), which of the files listed for removal are of  *)
(* no table any more (RemoveInv), that the location holds nothing from     *)
(* before (CleanInv) and that the rows written are there (RowsInv).        *)
(***************************************************************************)
EXTENDS CreateTableAs, TLAPS

\* The steps before the table is created.
Early == {"start", "listed", "remove", "lookup", "create"}
\* The steps after the location was found or made empty.
Clean == {"lookup", "create", "created", "query", "finalize", "done"}

\* A statement's table has its name and location, and outlives a rollback only for one
\* of three reasons.
TableInv ==
  \A c \in Ctas, n \in Name : IsAt(c, n) =>
    /\ n = statement[c].name
    /\ table[n].loc = statement[c].loc
    /\ statement[c].step \notin Early
    /\ statement[c].step = "fail" =>
         statement[c].created \/ statement[c].why \in {"reply", "fetch"}
    /\ statement[c].step = "rolled_back" => statement[c].why \in {"reply", "fetch", "drop"}

\* A table that was created is there until it is rolled back, unless somebody dropped it.
RecordInv ==
  \A c \in Ctas :
    /\ statement[c].step \in Early \cup {"created"} => ~statement[c].created
    /\ statement[c].step \in {"query", "finalize"} => statement[c].created
    /\ /\ statement[c].step = "created" \/ statement[c].created
       /\ statement[c].step # "rolled_back"
       => IsAt(c, statement[c].name) \/ c \in gone

\* A statement has files at its location only, and none before it has created its table.
FileInv ==
  \A c \in Ctas, l \in Loc :
    /\ [loc |-> l, by |-> c] \in files =>
         l = statement[c].loc /\ statement[c].step \notin Early
    /\ \A d \in Ctas : [loc |-> l, by |-> c] \in statement[d].listed =>
         /\ l = statement[c].loc /\ l = statement[d].loc
         /\ statement[c].step \notin Early

\* The files about to be removed are not of a table that exists.
RemoveInv ==
  \A c, d \in Ctas, l \in Loc :
    statement[d].step = "remove" /\ [loc |-> l, by |-> c] \in statement[d].listed => ~Holds(c)

\* What is at the location is to be removed, was written since, or is the statement's.
CleanInv ==
  \A c \in Ctas : \A f \in files : f.loc = statement[c].loc =>
    /\ statement[c].step \in {"listed", "remove"} =>
         f \in statement[c].listed \/ f.by \in since[c]
    /\ statement[c].step \in Clean => f.by = c \/ f.by \in since[c]

\* The rows written are there as long as the table is.
RowsInv ==
  \A c \in Ctas : statement[c].step \in {"finalize", "done"} /\ Holds(c) =>
    [loc |-> statement[c].loc, by |-> c] \in files

IInv == TypeOK /\ TableInv /\ RecordInv /\ FileInv /\ RemoveInv /\ CleanInv /\ RowsInv

-----------------------------------------------------------------------------
USE WritersDistinct, NullIsNoTable DEF Id, Writer, Table, File

\* No statement has done anything at first.
LEMMA InitIInv == Init => IInv
<1> SUFFICES ASSUME Init
             PROVE  IInv
  OBVIOUS
<1>1. TypeOK
  BY DEF Init, TypeOK, Step, Reason
<1>2. \A c \in Ctas : /\ statement[c].step = "start"
                      /\ statement[c].created = FALSE
                      /\ statement[c].listed = {}
  BY DEF Init
<1>3. TableInv /\ RemoveInv /\ RecordInv
  BY <1>2 DEF Init, TableInv, RemoveInv, RecordInv, IsAt, Early
<1>4. FileInv /\ CleanInv /\ RowsInv
  BY <1>1, <1>2 DEF Init, FileInv, CleanInv, RowsInv, TypeOK, Clean
<1>5. QED
  BY <1>1, <1>3, <1>4 DEF IInv

-----------------------------------------------------------------------------
(* Steps that change nothing but what the statement has done *)

Typed == [Ctas -> [step : Step, name : Name, loc : Loc, overwrite : BOOLEAN,
                   listed : SUBSET File, created : BOOLEAN, why : Reason]]

\* Nothing but step, listed, created and why of statement c changes.
SameBut(c) ==
  /\ \A d \in Ctas \ {c} : statement'[d] = statement[d]
  /\ statement'[c].name = statement[c].name
  /\ statement'[c].loc = statement[c].loc

\* What Go does to the statement.
LEMMA GoFacts ==
  ASSUME TypeOK, NEW c \in Ctas, NEW step \in Step, Go(c, step)
  PROVE  /\ statement' \in Typed /\ SameBut(c)
         /\ statement'[c].step = step
         /\ statement'[c].listed = statement[c].listed
         /\ statement'[c].created = statement[c].created
         /\ statement'[c].why = statement[c].why
  BY DEF TypeOK, Go, SameBut, Typed

\* What Fail does to it.
LEMMA FailFacts ==
  ASSUME TypeOK, NEW c \in Ctas, NEW why \in Reason, Fail(c, why)
  PROVE  /\ statement' \in Typed /\ SameBut(c)
         /\ statement'[c].step = "fail"
         /\ statement'[c].listed = statement[c].listed
         /\ statement'[c].created = statement[c].created
         /\ statement'[c].why = why
<1>1. statement \in Typed
  BY DEF TypeOK, Typed
<1>2. statement' = [statement EXCEPT ![c] = [statement[c] EXCEPT !.step = "fail", !.why = why]]
  BY <1>1 DEF Fail, Typed
<1>3. [statement[c] EXCEPT !.step = "fail", !.why = why] \in
        [step : Step, name : Name, loc : Loc, overwrite : BOOLEAN,
         listed : SUBSET File, created : BOOLEAN, why : Reason]
  BY <1>1 DEF Typed, Step
<1>4. QED
  BY <1>1, <1>2, <1>3 DEF Typed, SameBut

\* Files that are taken away, and statements that go on, leave FileInv as it is.
LEMMA FileFrame ==
  ASSUME FileInv, files' \subseteq files,
         \A d \in Ctas : /\ statement'[d].loc = statement[d].loc
                         /\ statement'[d].listed = statement[d].listed
                         /\ statement'[d].step \in Early => statement[d].step \in Early
  PROVE  FileInv'
<1> SUFFICES ASSUME NEW b \in Ctas, NEW l \in Loc
             PROVE  /\ [loc |-> l, by |-> b] \in files' =>
                         l = statement'[b].loc /\ statement'[b].step \notin Early
                    /\ \A d \in Ctas : [loc |-> l, by |-> b] \in statement'[d].listed =>
                         /\ l = statement'[b].loc /\ l = statement'[d].loc
                         /\ statement'[b].step \notin Early
  BY DEF FileInv
<1>1. ASSUME [loc |-> l, by |-> b] \in files'
      PROVE  l = statement'[b].loc /\ statement'[b].step \notin Early
  BY <1>1 DEF FileInv
<1>2. ASSUME NEW d \in Ctas, [loc |-> l, by |-> b] \in statement'[d].listed
      PROVE  /\ l = statement'[b].loc /\ l = statement'[d].loc
             /\ statement'[b].step \notin Early
  <2>1. [loc |-> l, by |-> b] \in statement[d].listed
    BY <1>2
  <2>2. /\ l = statement[b].loc /\ l = statement[d].loc
        /\ statement[b].step \notin Early
    BY <2>1 DEF FileInv
  <2>3. QED
    BY <2>2
<1>3. QED
  BY <1>1, <1>2

\* A statement whose table is in Glue or recorded fails or goes on, with its files as they
\* are. In a step like this one only the statement itself needs to be looked at.
LEMMA QuietIInv ==
  ASSUME IInv, NEW c \in Ctas, UNCHANGED <<table, files, gone, since>>,
         statement' \in Typed, SameBut(c),
         statement'[c].step \in Early => statement[c].step \in Early,
         \A n \in Name : IsAt(c, n) =>
           /\ statement'[c].step = "fail" =>
                statement'[c].created \/ statement'[c].why \in {"reply", "fetch"}
           /\ statement'[c].step = "rolled_back" =>
                statement'[c].why \in {"reply", "fetch", "drop"},
         statement'[c].step \in Early \cup {"created"} => ~statement'[c].created,
         statement'[c].step \in {"query", "finalize"} => statement'[c].created,
         statement'[c].step = "created" \/ statement'[c].created =>
           /\ statement[c].step = "created" \/ statement[c].created
           /\ statement[c].step # "rolled_back",
         statement'[c].listed = statement[c].listed,
         statement'[c].step # "listed",
         statement'[c].step = "remove" => ~InUse(statement[c].loc),
         statement'[c].step = "remove" => statement[c].step = "listed",
         statement'[c].step \in Clean =>
           statement[c].step \in Clean \/ FilesAt(statement[c].loc) = {},
         statement'[c].step \in {"finalize", "done"} =>
           statement[c].step \in {"finalize", "done"}
  PROVE  IInv'
<1>1. /\ TypeOK /\ TableInv /\ RecordInv /\ FileInv /\ RemoveInv /\ CleanInv /\ RowsInv
      /\ table' = table /\ files' = files /\ gone' = gone /\ since' = since
  BY DEF IInv
<1>2. TypeOK'
  BY <1>1 DEF TypeOK, Typed
<1>3. \A d \in Ctas, n \in Name : IsAt(d, n)' <=> IsAt(d, n)
  BY <1>1 DEF IsAt
<1>4. \A d \in Ctas : Holds(d)' <=> Holds(d)
  BY <1>1, <1>3 DEF Holds
<1>5. \A d \in Ctas : /\ statement'[d].name = statement[d].name
                      /\ statement'[d].loc = statement[d].loc
                      /\ statement'[d].listed = statement[d].listed
                      /\ statement[d].loc \in Loc
                      /\ d # c => statement'[d] = statement[d]
  BY <1>1 DEF SameBut, TypeOK
<1>6. TableInv'
  BY <1>1, <1>3, <1>5 DEF TableInv
<1>7. RecordInv'
  <2>1. \A d \in Ctas \ {c} : statement'[d] = statement[d]
    BY <1>5
  <2>2. \A d \in Ctas : IsAt(d, statement[d].name)' <=> IsAt(d, statement[d].name)
    BY <1>1, <1>5 DEF IsAt
  <2>3. QED
    BY <1>1, <1>5, <2>1, <2>2 DEF RecordInv
<1>8. FileInv'
  <2>1. \A d \in Ctas : statement'[d].step \in Early => statement[d].step \in Early
    BY <1>5
  <2>2. QED
    BY <1>1, <1>5, <2>1, FileFrame
<1>9. RemoveInv'
  <2> SUFFICES ASSUME NEW b \in Ctas, NEW d \in Ctas, NEW l \in Loc,
                      statement'[d].step = "remove",
                      [loc |-> l, by |-> b] \in statement[d].listed
               PROVE  ~Holds(b)
    BY <1>4, <1>5 DEF RemoveInv
  <2>1. CASE d # c
    BY <2>1, <1>1, <1>5 DEF RemoveInv
  <2>2. CASE d = c
    <3>1. l = statement[c].loc /\ l = statement[b].loc
      BY <2>2, <1>1 DEF FileInv
    <3>2. \A n \in Name : table[n] # Null => table[n].loc # l
      BY <2>2, <3>1 DEF InUse
    <3>3. QED
      BY <1>1, <3>1, <3>2 DEF Holds, IsAt, TableInv
  <2>3. QED
    BY <2>1, <2>2
<1>10. CleanInv'
  BY <1>1, <1>5 DEF CleanInv, FilesAt
<1>11. RowsInv'
  BY <1>1, <1>4, <1>5 DEF RowsInv
<1>12. QED
  BY <1>2, <1>6, <1>7, <1>8, <1>9, <1>10, <1>11 DEF IInv

\* A statement that has no table yet fails, or finds nothing at its location.
LEMMA EarlyFacts ==
  ASSUME IInv, NEW c \in Ctas, statement[c].step \in Early
  PROVE  ~statement[c].created /\ \A n \in Name : ~IsAt(c, n)
  BY DEF IInv, RecordInv, TableInv

\* An early statement fails: it has nothing to leave behind.
LEMMA FailEarlyIInv ==
  ASSUME IInv, NEW c \in Ctas, statement[c].step \in Early, Fail(c, "before"),
         UNCHANGED <<table, files, gone, since>>
  PROVE  IInv'
<1>1. TypeOK /\ "before" \in Reason
  BY DEF IInv, Reason
<1>2. ~statement[c].created /\ \A n \in Name : ~IsAt(c, n)
  BY EarlyFacts
<1>3. QED
  BY <1>1, <1>2, FailFacts, QuietIInv DEF Early, Clean

\* ThrowIfLocationInUse keeps the invariant: files of a table that exists stop it.
LEMMA CheckUseIInv ==
  ASSUME IInv, NEW c \in Ctas, CheckUse(c)
  PROVE  IInv'
<1>1. TypeOK /\ statement[c].step = "listed" /\ UNCHANGED <<table, files, gone, since>>
  BY DEF IInv, CheckUse
<1>2. CASE InUse(statement[c].loc)
  BY <1>1, <1>2, FailEarlyIInv DEF CheckUse, Early
<1>3. CASE ~InUse(statement[c].loc)
  <2>1. Go(c, "remove") /\ "remove" \in Step
    BY <1>3 DEF CheckUse, Step
  <2>2. ~statement[c].created /\ \A n \in Name : ~IsAt(c, n)
    BY <1>1, EarlyFacts DEF Early
  <2>3. QED
    BY <1>1, <1>3, <2>1, <2>2, GoFacts, QuietIInv DEF Early, Clean
<1>4. QED
  BY <1>2, <1>3

\* The look for a table of the name keeps it.
LEMMA LookupIInv ==
  ASSUME IInv, NEW c \in Ctas, Lookup(c)
  PROVE  IInv'
<1>1. TypeOK /\ statement[c].step = "lookup" /\ UNCHANGED <<table, files, gone, since>>
  BY DEF IInv, Lookup
<1>2. CASE Fail(c, "before")
  BY <1>1, <1>2, FailEarlyIInv DEF Early
<1>3. CASE Go(c, "create")
  <2>1. "create" \in Step
    BY DEF Step
  <2>2. ~statement[c].created /\ \A n \in Name : ~IsAt(c, n)
    BY <1>1, EarlyFacts DEF Early
  <2>3. QED
    BY <1>1, <1>3, <2>1, <2>2, GoFacts, QuietIInv DEF Early, Clean
<1>4. QED
  BY <1>2, <1>3 DEF Lookup

\* Recording the created table, or failing to fetch it, keeps it.
LEMMA FetchIInv ==
  ASSUME IInv, NEW c \in Ctas, Fetch(c)
  PROVE  IInv'
<1>1. TypeOK /\ statement[c].step = "created" /\ UNCHANGED <<table, files, gone, since>>
  BY DEF IInv, Fetch
<1>2. ~statement[c].created
  BY <1>1 DEF IInv, RecordInv
<1>3. CASE AddCreatedTable(c)
  <2>1. statement \in Typed
    BY <1>1 DEF TypeOK, Typed
  <2>2. statement' = [statement EXCEPT ![c] =
                        [statement[c] EXCEPT !.step = "query", !.created = TRUE]]
    BY <1>3, <2>1 DEF AddCreatedTable, Typed
  <2>3. [statement[c] EXCEPT !.step = "query", !.created = TRUE] \in
          [step : Step, name : Name, loc : Loc, overwrite : BOOLEAN,
           listed : SUBSET File, created : BOOLEAN, why : Reason]
    BY <2>1 DEF Typed, Step
  <2>4. /\ statement' \in Typed /\ SameBut(c)
        /\ statement'[c].step = "query"
        /\ statement'[c].listed = statement[c].listed
        /\ statement'[c].created
    BY <2>1, <2>2, <2>3 DEF Typed, SameBut
  <2>5. QED
    BY <1>1, <2>4, QuietIInv DEF Early, Clean
<1>4. CASE Fail(c, "fetch")
  <2>1. "fetch" \in Reason
    BY DEF Reason
  <2>2. QED
    BY <1>1, <1>2, <1>4, <2>1, FailFacts, QuietIInv DEF Early, Clean
<1>5. QED
  BY <1>3, <1>4 DEF Fetch

\* The end of the process keeps it.
LEMMA CrashIInv ==
  ASSUME IInv, NEW c \in Ctas, Crash(c)
  PROVE  IInv'
<1>1. TypeOK /\ statement[c].step # "rolled_back" /\ Go(c, "crashed")
      /\ UNCHANGED <<table, files, gone, since>>
  BY DEF IInv, Crash
<1>2. "crashed" \in Step
  BY DEF Step
<1>3. /\ statement' \in Typed /\ SameBut(c)
      /\ statement'[c].step = "crashed"
      /\ statement'[c].listed = statement[c].listed
      /\ statement'[c].created = statement[c].created
  BY <1>1, <1>2, GoFacts
<1>4. QED
  BY <1>1, <1>3, QuietIInv DEF Early, Clean

-----------------------------------------------------------------------------
(* Steps that change tables or files *)

\* A table is created where there was none, for a statement or for another client; what
\* others have stays where it is.
LEMMA CreateIInv ==
  ASSUME IInv, NEW c \in Ctas, Create(c)
  PROVE  IInv'
<1> DEFINE s == statement[c]
           own == [table EXCEPT ![s.name] = NewTable(c)]
<1>1. /\ TypeOK /\ TableInv /\ RecordInv /\ FileInv /\ RemoveInv /\ CleanInv /\ RowsInv
      /\ s.step = "create" /\ files' = files /\ gone' = gone /\ since' = since
  BY DEF IInv, Create
<1>2. ~s.created /\ \A n \in Name : ~IsAt(c, n)
  BY <1>1, EarlyFacts DEF Early
<1>3. CASE UNCHANGED table
  <2>1. Fail(c, "before") \/ (table' = own /\ table[s.name] = Null)
    BY <1>3 DEF Create, Raced
  <2>2. s.name \in Name /\ s.loc \in Loc
    BY <1>1 DEF TypeOK
  <2>3. ~(table' = own /\ table[s.name] = Null)
    BY <1>1, <1>3, <2>2 DEF TypeOK, NewTable
  <2>4. QED
    BY <1>1, <1>3, <2>1, <2>3, FailEarlyIInv DEF Early
<1>4. CASE table' = own /\ table[s.name] = Null /\ (Go(c, "created") \/ Fail(c, "reply"))
  <2>1. "created" \in Step /\ "reply" \in Reason
    BY DEF Step, Reason
  <2>2. /\ statement' \in Typed /\ SameBut(c)
        /\ statement'[c].listed = s.listed
        /\ ~statement'[c].created
        /\ \/ statement'[c].step = "created"
           \/ statement'[c].step = "fail" /\ statement'[c].why = "reply"
    BY <1>1, <1>2, <1>4, <2>1, GoFacts, FailFacts
  <2>3. /\ s.name \in Name /\ s.loc \in Loc
        /\ table' \in [Name -> Table \cup {Null}]
        /\ table'[s.name] = [id |-> c, loc |-> s.loc] /\ table'[s.name] # Null
        /\ \A n \in Name \ {s.name} : table'[n] = table[n]
    BY <1>1, <1>4 DEF TypeOK, NewTable
  <2>4. /\ \A n \in Name : IsAt(c, n)' <=> n = s.name
        /\ \A d \in Ctas \ {c}, n \in Name : IsAt(d, n)' <=> IsAt(d, n)
    BY <1>2, <1>4, <2>3 DEF IsAt
  <2>5. \A d \in Ctas \ {c} : Holds(d)' <=> Holds(d)
    BY <2>4 DEF Holds
  <2>6. \A d \in Ctas : /\ statement'[d].name = statement[d].name
                        /\ statement'[d].loc = statement[d].loc
                        /\ statement'[d].listed = statement[d].listed
                        /\ d # c => statement'[d] = statement[d]
                        /\ statement[d].name \in Name
    BY <1>1, <2>2 DEF SameBut, TypeOK
  <2>7. TypeOK'
    BY <1>1, <2>2, <2>3 DEF TypeOK, Typed
  <2>8. TableInv'
    <3> SUFFICES ASSUME NEW d \in Ctas, NEW n \in Name, IsAt(d, n)'
                 PROVE  /\ n = statement'[d].name
                        /\ table'[n].loc = statement'[d].loc
                        /\ statement'[d].step \notin Early
                        /\ statement'[d].step = "fail" =>
                             statement'[d].created \/ statement'[d].why \in {"reply", "fetch"}
                        /\ statement'[d].step = "rolled_back" =>
                             statement'[d].why \in {"reply", "fetch", "drop"}
      BY DEF TableInv
    <3>1. CASE d = c
      BY <3>1, <2>2, <2>3, <2>4, <2>6 DEF Early
    <3>2. CASE d # c
      <4>1. IsAt(d, n) /\ n # s.name
        BY <3>2, <2>3, <2>4, <1>4 DEF IsAt
      <4>2. QED
        BY <3>2, <4>1, <1>1, <2>3, <2>6 DEF TableInv
    <3>3. QED
      BY <3>1, <3>2
  <2>9. RecordInv'
    <3>1. \A d \in Ctas \ {c} : IsAt(d, statement[d].name)' <=> IsAt(d, statement[d].name)
      <4> SUFFICES ASSUME NEW d \in Ctas \ {c}
                   PROVE  IsAt(d, statement[d].name)' <=> IsAt(d, statement[d].name)
        OBVIOUS
      <4>1. PICK n \in Name : n = statement[d].name
        BY <2>6
      <4>2. IsAt(d, n)' <=> IsAt(d, n)
        BY <2>4
      <4>3. QED
        BY <4>1, <4>2, <2>6 DEF IsAt
    <3>2. IsAt(c, statement[c].name)'
      BY <2>3, <2>6 DEF IsAt
    <3>3. QED
      BY <1>1, <2>2, <2>6, <3>1, <3>2 DEF RecordInv, Early
  <2>10. FileInv'
    <3>1. \A d \in Ctas : statement'[d].step \in Early => statement[d].step \in Early
      BY <2>2, <2>6 DEF Early
    <3>2. QED
      BY <1>1, <2>6, <3>1, FileFrame
  <2>11. RemoveInv'
    <3> SUFFICES ASSUME NEW b \in Ctas, NEW d \in Ctas, NEW l \in Loc,
                        statement'[d].step = "remove",
                        [loc |-> l, by |-> b] \in statement'[d].listed
                 PROVE  ~Holds(b)'
      BY DEF RemoveInv
    <3>1. d # c /\ [loc |-> l, by |-> b] \in statement[d].listed /\ statement[d].step = "remove"
      BY <2>2, <2>6
    <3>2. b # c
      BY <1>1, <3>1 DEF FileInv, Early
    <3>3. QED
      BY <1>1, <2>5, <3>1, <3>2 DEF RemoveInv
  <2>12. CleanInv'
    BY <1>1, <2>2, <2>6 DEF CleanInv, Clean
  <2>13. RowsInv'
    BY <1>1, <2>2, <2>5, <2>6 DEF RowsInv
  <2>14. QED
    BY <2>7, <2>8, <2>9, <2>10, <2>11, <2>12, <2>13 DEF IInv
<1>5. QED
  BY <1>3, <1>4 DEF Create

\* Another client's table takes a free name too; its files are no statement's.
LEMMA CreateElsewhereIInv ==
  ASSUME IInv, NEW e \in Elsewhere, NEW m \in Name, NEW l \in Loc, CreateElsewhere(e, m, l)
  PROVE  IInv'
<1>1. /\ TypeOK /\ TableInv /\ RecordInv /\ FileInv /\ RemoveInv /\ CleanInv /\ RowsInv
      /\ table[m] = Null
      /\ table' = [table EXCEPT ![m] = [id |-> e, loc |-> l]]
      /\ files' = files \cup {[loc |-> l, by |-> e]}
      /\ statement' = statement /\ gone' = gone
      /\ since' = [c \in Ctas |-> IF c # e /\ statement[c].loc = l /\ statement[c].step # "start"
                                  THEN since[c] \cup {e} ELSE since[c]]
  BY DEF IInv, CreateElsewhere, Wrote
<1>2. TypeOK'
  BY <1>1 DEF TypeOK
<1>3. \A d \in Ctas, n \in Name : /\ IsAt(d, n)' <=> IsAt(d, n)
                                  /\ IsAt(d, n) => table'[n] = table[n]
  BY <1>1 DEF IsAt, TypeOK
<1>4. \A d \in Ctas : Holds(d)' <=> Holds(d)
  BY <1>3 DEF Holds
<1>5. TableInv'
  BY <1>1, <1>3 DEF TableInv
<1>6. RecordInv'
  <2>1. \A d \in Ctas : statement[d].name \in Name
    BY <1>1 DEF TypeOK
  <2>2. \A d \in Ctas : IsAt(d, statement[d].name)' <=> IsAt(d, statement[d].name)
    BY <1>1, <1>3, <2>1 DEF IsAt
  <2>3. QED
    BY <1>1, <2>2 DEF RecordInv
<1>7. FileInv'
  <2>1. \A d \in Ctas, k \in Loc : [loc |-> k, by |-> d] # [loc |-> l, by |-> e]
    OBVIOUS
  <2>2. QED
    BY <1>1, <2>1 DEF FileInv
<1>8. RemoveInv'
  BY <1>1, <1>4 DEF RemoveInv
<1>9. CleanInv'
  BY <1>1 DEF CleanInv, Clean, TypeOK
<1>10. RowsInv'
  BY <1>1, <1>4 DEF RowsInv
<1>11. QED
  BY <1>2, <1>5, <1>6, <1>7, <1>8, <1>9, <1>10 DEF IInv

\* A table that is dropped by another client is one less; what was its statement's is
\* known to be gone.
LEMMA DropTableIInv ==
  ASSUME IInv, NEW m \in Name, DropTable(m)
  PROVE  IInv'
<1>1. /\ TypeOK /\ TableInv /\ RecordInv /\ FileInv /\ RemoveInv /\ CleanInv /\ RowsInv
      /\ table[m] # Null /\ table' = [table EXCEPT ![m] = Null]
      /\ gone' = gone \cup {table[m].id}
      /\ files' = files /\ statement' = statement /\ since' = since
  BY DEF IInv, DropTable
<1>2. TypeOK'
  BY <1>1 DEF TypeOK
<1>3. \A d \in Ctas, n \in Name : /\ IsAt(d, n)' => IsAt(d, n) /\ table'[n] = table[n]
                                  /\ IsAt(d, n) => IsAt(d, n)' \/ d \in gone'
  BY <1>1 DEF IsAt, TypeOK
<1>4. \A d \in Ctas : Holds(d)' => Holds(d)
  BY <1>3 DEF Holds
<1>5. TableInv'
  BY <1>1, <1>3 DEF TableInv
<1>6. RecordInv'
  <2>1. \A d \in Ctas : statement[d].name \in Name
    BY <1>1 DEF TypeOK
  <2>2. \A d \in Ctas : IsAt(d, statement[d].name) => IsAt(d, statement[d].name)' \/ d \in gone'
    BY <1>1, <1>3, <2>1 DEF IsAt
  <2>3. QED
    BY <1>1, <2>2 DEF RecordInv
<1>7. FileInv' /\ CleanInv'
  BY <1>1 DEF FileInv, CleanInv
<1>8. RemoveInv'
  BY <1>1, <1>4 DEF RemoveInv
<1>9. RowsInv'
  BY <1>1, <1>4 DEF RowsInv
<1>10. QED
  BY <1>2, <1>5, <1>6, <1>7, <1>8, <1>9 DEF IInv

\* Steps of a statement that leave all tables: what they have to show.
LEMMA FilesIInv ==
  ASSUME IInv, NEW c \in Ctas, UNCHANGED <<table, gone>>,
         statement' \in Typed, SameBut(c), files' \subseteq File,
         since' \in [Ctas -> SUBSET Writer],
         statement'[c].created = statement[c].created,
         statement[c].step # "created",
         statement'[c].step \in Early => statement[c].step \in Early,
         \A n \in Name : IsAt(c, n) /\ statement'[c].step = "fail" => statement[c].created,
         statement'[c].step \notin {"created", "remove", "rolled_back"},
         statement'[c].step \in {"query", "finalize"} => statement[c].created,
         statement'[c].created => statement[c].step # "rolled_back",
         FileInv', CleanInv', RowsInv',
         \A d \in Ctas \ {c} : statement'[d].listed = statement[d].listed
  PROVE  IInv'
<1>1. /\ TypeOK /\ TableInv /\ RecordInv /\ FileInv /\ RemoveInv
      /\ table' = table /\ gone' = gone
  BY DEF IInv
<1>2. TypeOK'
  BY <1>1 DEF TypeOK, Typed
<1>3. \A d \in Ctas, n \in Name : IsAt(d, n)' <=> IsAt(d, n)
  BY <1>1 DEF IsAt
<1>4. \A d \in Ctas : Holds(d)' <=> Holds(d)
  BY <1>1, <1>3 DEF Holds
<1>5. \A d \in Ctas : /\ statement'[d].name = statement[d].name
                      /\ statement'[d].loc = statement[d].loc
                      /\ d # c => statement'[d] = statement[d]
  BY <1>1 DEF SameBut, TypeOK
<1>6. TableInv'
  BY <1>1, <1>3, <1>5 DEF TableInv
<1>7. RecordInv'
  <2>1. \A d \in Ctas : IsAt(d, statement[d].name)' <=> IsAt(d, statement[d].name)
    BY <1>1, <1>5 DEF IsAt
  <2>2. ASSUME NEW d \in Ctas \ {c}
        PROVE  statement'[d] = statement[d]
    BY <1>5
  <2>3. statement'[c].step \in Early \cup {"created"} => ~statement[c].created
    BY <1>1 DEF RecordInv
  <2>4. QED
    BY <1>1, <1>5, <2>1, <2>2, <2>3 DEF RecordInv
<1>8. RemoveInv'
  BY <1>1, <1>4, <1>5 DEF RemoveInv
<1>9. QED
  BY <1>2, <1>6, <1>7, <1>8 DEF IInv

\* ClearLocation lists the files: every file of the location is among them.
LEMMA ListIInv ==
  ASSUME IInv, NEW c \in Ctas, List(c)
  PROVE  IInv'
<1> DEFINE found == FilesAt(statement[c].loc)
<1>1. /\ TypeOK /\ RecordInv /\ FileInv /\ CleanInv /\ RowsInv
      /\ statement[c].step = "start" /\ UNCHANGED <<table, files, gone, since>>
  BY DEF IInv, List
<1>2. ~statement[c].created /\ \A n \in Name : ~IsAt(c, n)
  BY <1>1, EarlyFacts DEF Early
<1>3. CASE found = {}
  <2>1. Go(c, "lookup") /\ "lookup" \in Step
    BY <1>3 DEF List, Step
  <2>2. /\ statement' \in Typed /\ SameBut(c)
        /\ statement'[c].step = "lookup"
        /\ statement'[c].listed = statement[c].listed
        /\ ~statement'[c].created
    BY <1>1, <1>2, <2>1, GoFacts
  <2>3. QED
    BY <1>1, <1>2, <1>3, <2>2, QuietIInv DEF Early, Clean
<1>4. CASE found # {} /\ Fail(c, "before")
  BY <1>1, <1>4, FailEarlyIInv DEF Early
<1>5. CASE statement' = [statement EXCEPT ![c].step = "listed", ![c].listed = found]
  <2>1. statement \in Typed /\ found \in SUBSET File
    BY <1>1 DEF TypeOK, Typed, FilesAt
  <2>2. statement' = [statement EXCEPT ![c] =
                        [statement[c] EXCEPT !.step = "listed", !.listed = found]]
    BY <1>5, <2>1 DEF Typed
  <2>3. [statement[c] EXCEPT !.step = "listed", !.listed = found] \in
          [step : Step, name : Name, loc : Loc, overwrite : BOOLEAN,
           listed : SUBSET File, created : BOOLEAN, why : Reason]
    BY <2>1 DEF Typed, Step
  <2>4. /\ statement' \in Typed /\ SameBut(c)
        /\ statement'[c].step = "listed"
        /\ statement'[c].listed = found
        /\ statement'[c].created = statement[c].created
    BY <2>1, <2>2, <2>3 DEF Typed, SameBut
  <2>5. \A d \in Ctas : /\ statement'[d].loc = statement[d].loc
                        /\ d # c => statement'[d] = statement[d]
    BY <2>4 DEF SameBut
  <2>6. FileInv'
    <3> SUFFICES ASSUME NEW b \in Ctas, NEW l \in Loc
                 PROVE  /\ [loc |-> l, by |-> b] \in files' =>
                             l = statement'[b].loc /\ statement'[b].step \notin Early
                        /\ \A d \in Ctas : [loc |-> l, by |-> b] \in statement'[d].listed =>
                             /\ l = statement'[b].loc /\ l = statement'[d].loc
                             /\ statement'[b].step \notin Early
      BY DEF FileInv
    <3>1. statement'[b].loc = statement[b].loc
          /\ (statement'[b].step \in Early => statement[b].step \in Early)
      BY <1>1, <2>4, <2>5 DEF Early
    <3>2. [loc |-> l, by |-> b] \in files =>
             l = statement'[b].loc /\ statement'[b].step \notin Early
      BY <1>1, <3>1 DEF FileInv
    <3>3. ASSUME NEW d \in Ctas, [loc |-> l, by |-> b] \in statement'[d].listed
          PROVE  /\ l = statement'[b].loc /\ l = statement'[d].loc
                 /\ statement'[b].step \notin Early
      <4>1. CASE d = c
        <5>1. [loc |-> l, by |-> b] \in files /\ l = statement[c].loc
          BY <4>1, <3>3, <2>4 DEF FilesAt
        <5>2. QED
          BY <4>1, <5>1, <3>2, <2>5
      <4>2. CASE d # c
        <5>1. [loc |-> l, by |-> b] \in statement[d].listed
          BY <4>2, <3>3, <2>5
        <5>2. /\ l = statement[b].loc /\ l = statement[d].loc
              /\ statement[b].step \notin Early
          BY <5>1, <1>1 DEF FileInv
        <5>3. QED
          BY <5>2, <3>1, <2>5
      <4>3. QED
        BY <4>1, <4>2
    <3>4. QED
      BY <3>2, <3>3, <1>1
  <2>7. CleanInv'
    BY <1>1, <2>4, <2>5 DEF CleanInv, Clean, FilesAt
  <2>8. RowsInv'
    <3>1. \A d \in Ctas : Holds(d)' <=> Holds(d)
      BY <1>1 DEF Holds, IsAt
    <3>2. QED
      BY <1>1, <2>4, <2>5, <3>1 DEF RowsInv
  <2>9. files' \subseteq File /\ since' \in [Ctas -> SUBSET Writer]
    BY <1>1 DEF TypeOK
  <2>10. QED
    BY <1>1, <1>2, <2>4, <2>5, <2>6, <2>7, <2>8, <2>9, FilesIInv DEF Early
<1>6. QED
  BY <1>3, <1>4, <1>5 DEF List

\* RemoveFiles: the files that go are not of a table that exists, and what was listed is
\* gone when the statement goes on.
LEMMA RemoveIInv ==
  ASSUME IInv, NEW c \in Ctas, Remove(c)
  PROVE  IInv'
<1>1. /\ TypeOK /\ FileInv /\ RemoveInv /\ CleanInv /\ RowsInv
      /\ statement[c].step = "remove" /\ UNCHANGED <<table, gone, since>>
  BY DEF IInv, Remove
<1>2. ~statement[c].created /\ \A n \in Name : ~IsAt(c, n)
  BY <1>1, EarlyFacts DEF Early
<1>3. PICK some \in SUBSET statement[c].listed :
        /\ files' = files \ some
        /\ \/ some = statement[c].listed /\ Go(c, "lookup")
           \/ Fail(c, "before")
  BY DEF Remove, DataFiles, NotCleared
<1>4. /\ statement' \in Typed /\ SameBut(c)
      /\ statement'[c].listed = statement[c].listed
      /\ statement'[c].created = statement[c].created
      /\ \/ some = statement[c].listed /\ statement'[c].step = "lookup"
         \/ statement'[c].step = "fail"
  <2>1. "lookup" \in Step /\ "before" \in Reason
    BY DEF Step, Reason
  <2>2. QED
    BY <1>1, <1>2, <1>3, <2>1, GoFacts, FailFacts
<1>5. \A d \in Ctas : /\ statement'[d].loc = statement[d].loc
                      /\ statement'[d].listed = statement[d].listed
                      /\ d # c => statement'[d] = statement[d]
  BY <1>4 DEF SameBut
<1>6. FileInv'
  <2>1. \A d \in Ctas : statement'[d].step \in Early => statement[d].step \in Early
    BY <1>1, <1>5 DEF Early
  <2>2. QED
    BY <1>1, <1>3, <1>5, <2>1, FileFrame
<1>7. CleanInv'
  <2> SUFFICES ASSUME NEW d \in Ctas, NEW f \in files', f.loc = statement'[d].loc
               PROVE  /\ statement'[d].step \in {"listed", "remove"} =>
                           f \in statement'[d].listed \/ f.by \in since'[d]
                      /\ statement'[d].step \in Clean => f.by = d \/ f.by \in since'[d]
    BY DEF CleanInv
  <2>1. f \in files /\ f \notin some /\ f.loc = statement[d].loc
    BY <1>3, <1>5
  <2>2. CASE d = c
    BY <2>1, <2>2, <1>1, <1>4 DEF CleanInv, Clean
  <2>3. CASE d # c
    BY <2>1, <2>3, <1>1, <1>5 DEF CleanInv
  <2>4. QED
    BY <2>2, <2>3
<1>8. RowsInv'
  <2> SUFFICES ASSUME NEW d \in Ctas, statement'[d].step \in {"finalize", "done"}, Holds(d)'
               PROVE  [loc |-> statement'[d].loc, by |-> d] \in files'
    BY DEF RowsInv
  <2>1. d # c /\ statement'[d] = statement[d]
    BY <1>4, <1>5
  <2>2. Holds(d) /\ statement[d].loc \in Loc
    BY <1>1 DEF Holds, IsAt, TypeOK
  <2>3. [loc |-> statement[d].loc, by |-> d] \in files
    BY <1>1, <2>1, <2>2 DEF RowsInv
  <2>4. [loc |-> statement[d].loc, by |-> d] \notin some
    BY <1>1, <2>2 DEF RemoveInv
  <2>5. QED
    BY <1>3, <2>1, <2>3, <2>4
<1>9. files' \subseteq File /\ since' \in [Ctas -> SUBSET Writer]
  BY <1>1, <1>3 DEF TypeOK
<1>10. QED
  BY <1>1, <1>2, <1>4, <1>5, <1>6, <1>7, <1>8, <1>9, FilesIInv DEF Early

\* Who writes at l is known to the other statements of the location that have looked there.
LEMMA WroteFacts ==
  ASSUME TypeOK, NEW w \in Writer, NEW l \in Loc, Wrote(w, l)
  PROVE  /\ since' \in [Ctas -> SUBSET Writer]
         /\ \A d \in Ctas : since[d] \subseteq since'[d]
         /\ \A d \in Ctas : d # w /\ statement[d].loc = l /\ statement[d].step # "start"
              => w \in since'[d]
  BY DEF TypeOK, Wrote

\* The query writes files at the statement's location, and goes on or fails.
LEMMA WritesIInv ==
  ASSUME IInv, NEW c \in Ctas, statement[c].step = "query", UNCHANGED <<table, gone>>,
         files' = files \cup {[loc |-> statement[c].loc, by |-> c]},
         Wrote(c, statement[c].loc),
         Go(c, "finalize") \/ Fail(c, "query")
  PROVE  IInv'
<1> DEFINE new == [loc |-> statement[c].loc, by |-> c]
<1>1. /\ TypeOK /\ FileInv /\ CleanInv /\ RowsInv
      /\ statement[c].created /\ statement[c].loc \in Loc
  BY DEF IInv, RecordInv, TypeOK
<1>2. /\ since' \in [Ctas -> SUBSET Writer]
      /\ \A d \in Ctas : since[d] \subseteq since'[d]
      /\ \A d \in Ctas : d # c /\ statement[d].loc = statement[c].loc
                          /\ statement[d].step # "start" => c \in since'[d]
  BY <1>1, WroteFacts
<1>3. /\ statement' \in Typed /\ SameBut(c)
      /\ statement'[c].listed = statement[c].listed
      /\ statement'[c].created
      /\ statement'[c].step \in {"finalize", "fail"}
  <2>1. "finalize" \in Step /\ "query" \in Reason
    BY DEF Step, Reason
  <2>2. QED
    BY <1>1, <2>1, GoFacts, FailFacts
<1>4. \A d \in Ctas : /\ statement'[d].loc = statement[d].loc
                      /\ statement'[d].listed = statement[d].listed
                      /\ d # c => statement'[d] = statement[d]
  BY <1>3 DEF SameBut
<1>5. FileInv'
  <2> SUFFICES ASSUME NEW b \in Ctas, NEW l \in Loc
               PROVE  /\ [loc |-> l, by |-> b] \in files' =>
                           l = statement'[b].loc /\ statement'[b].step \notin Early
                      /\ \A d \in Ctas : [loc |-> l, by |-> b] \in statement'[d].listed =>
                           /\ l = statement'[b].loc /\ l = statement'[d].loc
                           /\ statement'[b].step \notin Early
    BY DEF FileInv
  <2>1. statement'[b].loc = statement[b].loc
        /\ (statement'[b].step \in Early => statement[b].step \in Early)
    BY <1>3, <1>4 DEF Early
  <2>2. ASSUME [loc |-> l, by |-> b] \in files'
        PROVE  l = statement'[b].loc /\ statement'[b].step \notin Early
    <3>1. CASE [loc |-> l, by |-> b] \in files
      BY <3>1, <2>1, <1>1 DEF FileInv
    <3>2. CASE [loc |-> l, by |-> b] = new
      <4>1. l = statement[c].loc /\ b = c
        BY <3>2
      <4>2. QED
        BY <4>1, <1>3, <2>1 DEF Early
    <3>3. QED
      BY <2>2, <3>1, <3>2
  <2>3. ASSUME NEW d \in Ctas, [loc |-> l, by |-> b] \in statement'[d].listed
        PROVE  /\ l = statement'[b].loc /\ l = statement'[d].loc
               /\ statement'[b].step \notin Early
    <3>1. [loc |-> l, by |-> b] \in statement[d].listed
      BY <2>3, <1>4
    <3>2. /\ l = statement[b].loc /\ l = statement[d].loc
          /\ statement[b].step \notin Early
      BY <3>1, <1>1 DEF FileInv
    <3>3. QED
      BY <3>2, <2>1, <1>4
  <2>4. QED
    BY <2>2, <2>3
<1>6. CleanInv'
  <2> SUFFICES ASSUME NEW d \in Ctas, NEW f \in files', f.loc = statement'[d].loc
               PROVE  /\ statement'[d].step \in {"listed", "remove"} =>
                           f \in statement'[d].listed \/ f.by \in since'[d]
                      /\ statement'[d].step \in Clean => f.by = d \/ f.by \in since'[d]
    BY DEF CleanInv
  <2>1. f.loc = statement[d].loc
    BY <1>4
  <2>2. CASE f = new
    BY <2>1, <2>2, <1>2, <1>3, <1>4 DEF Clean
  <2>3. CASE f \in files
    <3>1. CASE d = c
      BY <2>1, <2>3, <3>1, <1>1, <1>2, <1>3 DEF CleanInv, Clean
    <3>2. CASE d # c
      BY <2>1, <2>3, <3>2, <1>1, <1>2, <1>4 DEF CleanInv
    <3>3. QED
      BY <3>1, <3>2
  <2>4. QED
    BY <2>2, <2>3
<1>7. RowsInv'
  <2>1. \A d \in Ctas : Holds(d)' <=> Holds(d)
    BY DEF Holds, IsAt
  <2>2. QED
    BY <1>1, <1>3, <1>4, <2>1 DEF RowsInv
<1>8. files' \subseteq File
  BY <1>1 DEF TypeOK
<1>9. QED
  BY <1>1, <1>2, <1>3, <1>4, <1>5, <1>6, <1>7, <1>8, FilesIInv DEF Early

\* A statement whose table is recorded fails with its files as they are.
LEMMA FailRecordedIInv ==
  ASSUME IInv, NEW c \in Ctas, statement[c].step \in {"query", "finalize"},
         Fail(c, "query"), UNCHANGED <<table, files, gone, since>>
  PROVE  IInv'
<1>1. TypeOK /\ statement[c].created /\ "query" \in Reason
  BY DEF IInv, RecordInv, Reason
<1>2. QED
  BY <1>1, FailFacts, QuietIInv DEF Early, Clean

\* The end of the copy: the rows are kept, or they are deleted as far as possible.
LEMMA FinalizeIInv ==
  ASSUME IInv, NEW c \in Ctas, Finalize(c)
  PROVE  IInv'
<1>1. /\ TypeOK /\ FileInv /\ CleanInv /\ RowsInv
      /\ statement[c].step = "finalize" /\ statement[c].created
      /\ UNCHANGED <<table, gone, since>>
  BY DEF IInv, RecordInv, Finalize
<1>2. CASE Go(c, "done") /\ UNCHANGED files
  <2>1. "done" \in Step
    BY DEF Step
  <2>2. QED
    BY <1>1, <1>2, <2>1, GoFacts, QuietIInv DEF Early, Clean
<1>3. CASE Fail(c, "query") /\ UNCHANGED files
  BY <1>1, <1>3, FailRecordedIInv
<1>4. CASE /\ Fail(c, "query")
           /\ files' = files \ [loc : {statement[c].loc}, by : {c}]
  <2>1. "query" \in Reason
    BY DEF Reason
  <2>2. /\ statement' \in Typed /\ SameBut(c)
        /\ statement'[c].step = "fail"
        /\ statement'[c].listed = statement[c].listed
        /\ statement'[c].created = statement[c].created
    BY <1>1, <1>4, <2>1, FailFacts
  <2>3. \A d \in Ctas : /\ statement'[d].loc = statement[d].loc
                        /\ statement'[d].listed = statement[d].listed
                        /\ d # c => statement'[d] = statement[d]
    BY <2>2 DEF SameBut
  <2>4. FileInv'
    <3>1. \A d \in Ctas : statement'[d].step \in Early => statement[d].step \in Early
      BY <2>2, <2>3 DEF Early
    <3>2. QED
      BY <1>1, <1>4, <2>3, <3>1, FileFrame
  <2>5. CleanInv'
    <3> SUFFICES ASSUME NEW d \in Ctas, NEW f \in files', f.loc = statement'[d].loc
                 PROVE  /\ statement'[d].step \in {"listed", "remove"} =>
                             f \in statement'[d].listed \/ f.by \in since'[d]
                        /\ statement'[d].step \in Clean => f.by = d \/ f.by \in since'[d]
      BY DEF CleanInv
    <3>1. f \in files /\ f.loc = statement[d].loc
      BY <1>4, <2>3
    <3>2. QED
      BY <1>1, <2>2, <2>3, <3>1 DEF CleanInv, Clean
  <2>6. RowsInv'
    <3> SUFFICES ASSUME NEW d \in Ctas, statement'[d].step \in {"finalize", "done"}, Holds(d)'
                 PROVE  [loc |-> statement'[d].loc, by |-> d] \in files'
      BY DEF RowsInv
    <3>1. d # c /\ statement'[d] = statement[d]
      BY <2>2, <2>3
    <3>2. Holds(d)
      BY <1>1 DEF Holds, IsAt
    <3>3. [loc |-> statement[d].loc, by |-> d] \in files
      BY <1>1, <3>1, <3>2 DEF RowsInv
    <3>4. QED
      BY <1>4, <3>1, <3>3
  <2>7. files' \subseteq File /\ since' \in [Ctas -> SUBSET Writer]
    BY <1>1, <1>4 DEF TypeOK
  <2>8. QED
    BY <1>1, <2>2, <2>3, <2>4, <2>5, <2>6, <2>7, FilesIInv DEF Early
<1>5. QED
  BY <1>2, <1>3, <1>4 DEF Finalize

\* The rollback: the table recorded goes, whosever it is by now, or the drop fails.
LEMMA RollbackIInv ==
  ASSUME IInv, NEW c \in Ctas, Rollback(c)
  PROVE  IInv'
<1> DEFINE s == statement[c]
<1>1. /\ TypeOK /\ TableInv /\ RecordInv /\ FileInv /\ RemoveInv /\ CleanInv /\ RowsInv
      /\ s.step = "fail" /\ s.name \in Name /\ UNCHANGED <<files, since>>
  BY DEF IInv, Rollback, TypeOK
<1>2. "rolled_back" \in Step /\ "drop" \in Reason
  BY DEF Step, Reason
<1>3. CASE /\ s.created /\ UNCHANGED <<table, gone>>
           /\ statement' = [statement EXCEPT ![c].step = "rolled_back", ![c].why = "drop"]
  <2>1. statement \in Typed
    BY <1>1 DEF TypeOK, Typed
  <2>2. statement' = [statement EXCEPT ![c] =
                        [statement[c] EXCEPT !.step = "rolled_back", !.why = "drop"]]
    BY <1>3, <2>1 DEF Typed
  <2>3. [statement[c] EXCEPT !.step = "rolled_back", !.why = "drop"] \in
          [step : Step, name : Name, loc : Loc, overwrite : BOOLEAN,
           listed : SUBSET File, created : BOOLEAN, why : Reason]
    BY <1>2, <2>1 DEF Typed
  <2>4. /\ statement' \in Typed /\ SameBut(c)
        /\ statement'[c].step = "rolled_back" /\ statement'[c].why = "drop"
        /\ statement'[c].listed = s.listed
        /\ statement'[c].created
    BY <1>3, <2>1, <2>2, <2>3 DEF Typed, SameBut
  <2>5. QED
    BY <1>1, <1>3, <2>4, QuietIInv DEF Early, Clean
<1>4. CASE /\ ~s.created /\ table' = table /\ gone' = gone \cup {}
           /\ Go(c, "rolled_back")
  <2>1. /\ statement' \in Typed /\ SameBut(c)
        /\ statement'[c].step = "rolled_back" /\ statement'[c].why = s.why
        /\ statement'[c].listed = s.listed
        /\ ~statement'[c].created
    BY <1>1, <1>2, <1>4, GoFacts
  <2>2. \A n \in Name : IsAt(c, n) => s.why \in {"reply", "fetch"}
    BY <1>1, <1>4 DEF TableInv
  <2>3. QED
    BY <1>1, <1>4, <2>1, <2>2, QuietIInv DEF Early, Clean
<1>5. CASE /\ s.created /\ table' = [table EXCEPT ![s.name] = Null]
           /\ gone' = gone \cup {e \in Id \ {c} : IsAt(e, s.name)}
           /\ Go(c, "rolled_back")
  <2>1. /\ statement' \in Typed /\ SameBut(c)
        /\ statement'[c].step = "rolled_back"
        /\ statement'[c].listed = s.listed
        /\ statement'[c].created
    BY <1>1, <1>2, <1>5, GoFacts
  <2>2. TypeOK'
    BY <1>1, <1>5, <2>1 DEF TypeOK, Typed
  <2>3. \A d \in Ctas : /\ statement'[d].name = statement[d].name
                        /\ statement'[d].loc = statement[d].loc
                        /\ statement'[d].listed = statement[d].listed
                        /\ statement[d].name \in Name
                        /\ d # c => statement'[d] = statement[d]
    BY <1>1, <2>1 DEF SameBut, TypeOK
  <2>4. \A d \in Ctas, n \in Name :
          /\ IsAt(d, n)' => IsAt(d, n) /\ table'[n] = table[n] /\ n # s.name
          /\ d # c /\ IsAt(d, n) => IsAt(d, n)' \/ d \in gone'
    <3> SUFFICES ASSUME NEW d \in Ctas, NEW n \in Name
                 PROVE  /\ IsAt(d, n)' => IsAt(d, n) /\ table'[n] = table[n] /\ n # s.name
                        /\ d # c /\ IsAt(d, n) => IsAt(d, n)' \/ d \in gone'
      OBVIOUS
    <3>1. table'[n] = IF n = s.name THEN Null ELSE table[n]
      BY <1>1, <1>5 DEF TypeOK
    <3>2. QED
      BY <1>5, <3>1 DEF IsAt
  <2>5. \A d \in Ctas : Holds(d)' => Holds(d)
    BY <2>4 DEF Holds
  <2>6. \A n \in Name : ~IsAt(c, n)'
    BY <1>1, <2>4 DEF TableInv
  <2>7. TableInv'
    <3> SUFFICES ASSUME NEW d \in Ctas, NEW n \in Name, IsAt(d, n)'
                 PROVE  /\ n = statement'[d].name
                        /\ table'[n].loc = statement'[d].loc
                        /\ statement'[d].step \notin Early
                        /\ statement'[d].step = "fail" =>
                             statement'[d].created \/ statement'[d].why \in {"reply", "fetch"}
                        /\ statement'[d].step = "rolled_back" =>
                             statement'[d].why \in {"reply", "fetch", "drop"}
      BY DEF TableInv
    <3>1. d # c /\ IsAt(d, n) /\ table'[n] = table[n] /\ statement'[d] = statement[d]
      BY <2>3, <2>4, <2>6
    <3>2. QED
      BY <1>1, <3>1 DEF TableInv
  <2>8. RecordInv'
    <3>1. ASSUME NEW d \in Ctas \ {c}, IsAt(d, statement[d].name)
          PROVE  IsAt(d, statement[d].name)' \/ d \in gone'
      <4>1. PICK n \in Name : n = statement[d].name
        BY <2>3
      <4>2. IsAt(d, n)' \/ d \in gone'
        BY <3>1, <4>1, <2>4
      <4>3. QED
        BY <4>1, <4>2, <2>3 DEF IsAt
    <3>2. gone \subseteq gone'
      BY <1>5
    <3>3. QED
      BY <1>1, <2>1, <2>3, <3>1, <3>2 DEF RecordInv, Early
  <2>9. FileInv'
    <3>1. \A d \in Ctas : statement'[d].step \in Early => statement[d].step \in Early
      BY <2>1, <2>3 DEF Early
    <3>2. QED
      BY <1>1, <2>3, <3>1, FileFrame
  <2>10. RemoveInv'
    BY <1>1, <2>1, <2>3, <2>5 DEF RemoveInv
  <2>11. CleanInv'
    BY <1>1, <2>1, <2>3 DEF CleanInv, Clean
  <2>12. RowsInv'
    BY <1>1, <2>1, <2>3, <2>5 DEF RowsInv
  <2>13. QED
    BY <2>2, <2>7, <2>8, <2>9, <2>10, <2>11, <2>12 DEF IInv
<1>6. QED
  <2>1. CASE s.created
    BY <2>1, <1>3, <1>5 DEF Rollback
  <2>2. CASE ~s.created
    BY <2>2, <1>3, <1>4 DEF Rollback
  <2>3. QED
    BY <2>1, <2>2

-----------------------------------------------------------------------------
(* The theorems *)

\* Every step keeps the invariant.
LEMMA NextIInv == IInv /\ [Next]_vars => IInv'
<1> SUFFICES ASSUME IInv, [Next]_vars
             PROVE  IInv'
  OBVIOUS
<1>1. CASE UNCHANGED vars
  BY <1>1 DEF vars, IInv, TypeOK, TableInv, RecordInv, FileInv, RemoveInv, CleanInv, RowsInv,
              IsAt, Holds
<1>2. ASSUME NEW e \in Elsewhere, NEW n \in Name, NEW l \in Loc, CreateElsewhere(e, n, l)
      PROVE  IInv'
  BY <1>2, CreateElsewhereIInv
<1>3. ASSUME NEW n \in Name, DropTable(n)
      PROVE  IInv'
  BY <1>3, DropTableIInv
<1>4. ASSUME NEW c \in Ctas, Query(c)
      PROVE  IInv'
  BY <1>4, WritesIInv DEF Query
<1>5. ASSUME NEW c \in Ctas, QueryFails(c)
      PROVE  IInv'
  BY <1>5, WritesIInv, FailRecordedIInv DEF QueryFails
<1>6. ASSUME NEW c \in Ctas,
             \/ List(c) \/ CheckUse(c) \/ Remove(c) \/ Lookup(c) \/ Create(c) \/ Fetch(c)
             \/ Finalize(c) \/ Rollback(c) \/ Crash(c)
      PROVE  IInv'
  BY <1>6, ListIInv, CheckUseIInv, RemoveIInv, LookupIInv, CreateIInv, FetchIInv,
     FinalizeIInv, RollbackIInv, CrashIInv
<1>7. QED
  BY <1>1, <1>2, <1>3, <1>4, <1>5, <1>6 DEF Next

\* The invariant holds in every state.
THEOREM Invariance == Spec => []IInv
BY InitIInv, NextIInv, PTL DEF Spec

\* The variables have their types: whoever writes, drops or creates is one of the
\* statements or of the other clients.
THEOREM TypeCorrectness == Spec => []TypeOK
<1>1. IInv => TypeOK
  BY DEF IInv
<1>2. QED
  BY <1>1, Invariance, PTL

\* A failed statement leaves no table behind unless it could not know of it or drop it
\* (GlueTransaction::Rollback).
THEOREM FailureLeavesNothing == Spec => []NothingLeft
<1>1. IInv => NothingLeft
  BY DEF IInv, TableInv, NothingLeft, Holds
<1>2. QED
  BY <1>1, Invariance, PTL

\* A statement that succeeded has none of the files in its table which were at the
\* location before (ClearLocation and CheckEmptyLocation).
THEOREM SuccessReadsOwnRows == Spec => []OwnRowsOnly
<1>1. IInv => OwnRowsOnly
  BY DEF IInv, CleanInv, Clean, OwnRowsOnly, FilesAt
<1>2. QED
  BY <1>1, Invariance, PTL

\* Its rows are there as long as its table is: ThrowIfLocationInUse, between the listing
\* and the removal, keeps the files of every table.
THEOREM SuccessKeepsRows == Spec => []RowsStay
<1>1. IInv => RowsStay
  BY DEF IInv, RowsInv, RowsStay
<1>2. QED
  BY <1>1, Invariance, PTL

\* A rollback drops no table but the statement's, unless somebody else dropped that one.
THEOREM RollbackIsOwn == Spec => RollbackDropsOwn
<1> DEFINE Own == \A c \in Ctas, n \in Name : RollsBack(c) /\ Drops(n) =>
                    table[n].id = c \/ c \in gone
<1>1. ASSUME IInv, [Next]_vars, NEW c \in Ctas, NEW n \in Name, RollsBack(c), Drops(n)
      PROVE  table[n].id = c \/ c \in gone
  <2>1. TypeOK /\ RecordInv
    BY <1>1 DEF IInv
  <2>2. Rollback(c)
    <3>1. PICK d \in Ctas : \/ List(d) \/ CheckUse(d) \/ Remove(d) \/ Lookup(d) \/ Create(d)
                           \/ Fetch(d) \/ Query(d) \/ QueryFails(d) \/ Finalize(d)
                           \/ Rollback(d) \/ Crash(d)
      BY <1>1 DEF Next, vars, RollsBack, CreateElsewhere, DropTable
    <3>2. ~UNCHANGED table
      BY <1>1 DEF Drops
    <3>3. Create(d) \/ Rollback(d)
      BY <3>1, <3>2 DEF List, CheckUse, Remove, Lookup, Fetch, Query, QueryFails, Finalize, Crash
    <3>4. ~Create(d)
      <4>1. SUFFICES ASSUME Create(d)
                     PROVE  FALSE
        OBVIOUS
      <4>2. table' = [table EXCEPT ![statement[d].name] = NewTable(d)]
            /\ table[statement[d].name] = Null
        BY <4>1, <3>2 DEF Create
      <4>3. QED
        BY <4>2, <1>1, <2>1 DEF Drops, TypeOK
    <3>5. Rollback(d) /\ (Go(d, "rolled_back") \/
            statement' = [statement EXCEPT ![d].step = "rolled_back", ![d].why = "drop"])
      BY <3>3, <3>4 DEF Rollback
    <3>6. d = c
      BY <3>5, <1>1, <2>1 DEF RollsBack, Go, TypeOK
    <3>7. QED
      BY <3>5, <3>6
  <2>3. statement[c].name \in Name
    BY <2>1 DEF TypeOK
  <2>4. statement[c].created /\ n = statement[c].name
    BY <1>1, <2>1, <2>2, <2>3 DEF Rollback, Drops, TypeOK
  <2>5. IsAt(c, statement[c].name) \/ c \in gone
    BY <1>1, <2>1, <2>4 DEF RecordInv, RollsBack
  <2>6. QED
    BY <2>4, <2>5 DEF IsAt
<1>2. IInv /\ [Next]_vars => [Own]_vars
  BY <1>1
<1>3. QED
  BY <1>2, Invariance, PTL DEF Spec, RollbackDropsOwn

=============================================================================
