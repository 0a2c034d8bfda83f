--------------------------- MODULE StoreOpenProofs ---------------------------
(***************************************************************************)
(* For any processes, builds, tables, columns and files: whoever stamps a  *)
(* file has completed it, and an open Store has its columns.  The argument *)
(* is that columns only ever come (ColumnsStay), so what one process has   *)
(* seen of a table stays true whatever the others do.                      *)
(***************************************************************************)
EXTENDS StoreOpen, TLAPS

USE DEF file, opener

-----------------------------------------------------------------------------
\* A table that the build has is in the file.
Created(o, t) == Mine(o)[t] # {} => cols[t] # {}

\* What a process knows about the file from where it is in __init__.
Knows(o) ==
  /\ pc[o] = "tables" => \A t \in Tables \ left[o] : Created(o, t)
  /\ pc[o] \in {"columns", "adding"} => \A t \in Tables : Created(o, t)
  /\ pc[o] = "columns" => \A t \in Tables \ left[o] : Mine(o)[t] \subseteq cols[t]
  /\ pc[o] = "adding" =>
       /\ table[o] \in Tables
       /\ have[o] \subseteq cols[table[o]]
       /\ \A t \in Tables \ (left[o] \cup {table[o]}) : Mine(o)[t] \subseteq cols[t]
  /\ pc[o] \in {"stamp", "drop", "create", "open"} => Complete(cols, Build[o])
  /\ pc[o] \in {"columns", "adding"} /\ found[o] = Build[o] => Complete(cols, Build[o])

OpenInv == TypeOK /\ StampMeansComplete /\ \A o \in Openers : Knows(o)

-----------------------------------------------------------------------------
\* Every step keeps the types.
LEMMA TypeStep ==
  ASSUME OpenAssumption, OpenInv, [Next]_vars
  PROVE  TypeOK'
<1>0. TypeOK /\ \A o \in Openers : Knows(o)
  BY DEF OpenInv
<1>1. CASE UNCHANGED vars
  BY <1>0, <1>1 DEF vars, TypeOK
<1>2. ASSUME NEW o \in Openers, Step(o)
      PROVE  TypeOK'
  <2>0. /\ Build[o] \in Nat
        /\ \A t \in Tables : Mine(o)[t] \in SUBSET Columns
    BY DEF OpenAssumption, Mine, Builds, Layouts
  <2>1. CASE Open(o) \/ Refuse(o) \/ ReadVersion(o)
    BY <1>0, <2>1 DEF TypeOK, Open, Refuse, ReadVersion, GiveUp, Places, Outcomes
  <2>2. CASE CreateTable(o)
    <3>1. PICK t \in left[o] :
            /\ cols' = [cols EXCEPT ![t] = IF @ = {} THEN Mine(o)[t] ELSE @]
            /\ left' = [left EXCEPT ![o] = @ \ {t}]
      BY <2>2 DEF CreateTable
    <3>2. t \in Tables
      BY <1>0 DEF TypeOK
    <3>3. cols' \in Layouts
      BY <1>0, <2>0, <3>1, <3>2 DEF TypeOK, Layouts
    <3> QED
      BY <1>0, <2>2, <3>1, <3>3 DEF TypeOK, CreateTable
  <2>3. CASE ReadColumns(o)
    <3>1. PICK t \in left[o] :
            /\ table' = [table EXCEPT ![o] = t]
            /\ have' = [have EXCEPT ![o] = cols[t]]
            /\ left' = [left EXCEPT ![o] = @ \ {t}]
            /\ pc' = [pc EXCEPT ![o] = IF cols[t] = {} THEN @ ELSE "adding"]
      BY <2>3 DEF ReadColumns
    <3>2. t \in Tables /\ cols[t] \in SUBSET Columns
      BY <1>0 DEF TypeOK, Layouts
    <3> QED
      BY <1>0, <2>3, <3>1, <3>2 DEF TypeOK, ReadColumns, Places
  <2>4. CASE AddColumn(o)
    <3>1. PICK c \in Missing(o) \ (cols[table[o]] \cup Unaddable) :
            /\ cols' = [cols EXCEPT ![table[o]] = @ \cup {c}]
            /\ have' = [have EXCEPT ![o] = @ \cup {c}]
      BY <2>4 DEF AddColumn
    <3>2. table[o] \in Tables
      BY <1>0, <2>4 DEF Knows, AddColumn
    <3>3. c \in Columns
      BY <2>0, <3>1, <3>2 DEF Missing
    <3>4. cols' \in Layouts
      BY <1>0, <3>1, <3>3 DEF TypeOK, Layouts
    <3> QED
      BY <1>0, <2>4, <3>1, <3>3, <3>4 DEF TypeOK, AddColumn
  <2>5. CASE RefuseColumn(o) \/ DuplicateColumn(o) \/ TableDone(o) \/ TablesDone(o)
    BY <1>0, <2>5 DEF TypeOK, RefuseColumn, DuplicateColumn, TableDone, TablesDone, GiveUp,
       Places, Outcomes
  <2>6. CASE Stamp(o) \/ DropView(o) \/ CreateView(o) \/ ViewExists(o)
    BY <1>0, <2>0, <2>6 DEF TypeOK, Stamp, DropView, CreateView, ViewExists, GiveUp, Places,
       Outcomes
  <2>7. CASE Fail(o) \/ Close(o)
    BY <1>0, <2>7 DEF TypeOK, Fail, Close, GiveUp, Places, Outcomes
  <2> QED
    BY <1>2, <2>1, <2>2, <2>3, <2>4, <2>5, <2>6, <2>7 DEF Step
<1> QED
  BY <1>1, <1>2 DEF Next

\* No step takes a column away.
LEMMA ColumnsStay ==
  ASSUME OpenInv, [Next]_vars
  PROVE  \A t \in Tables : cols[t] \subseteq cols'[t]
<1>1. CASE UNCHANGED vars
  BY <1>1 DEF vars
<1>2. ASSUME NEW o \in Openers, Step(o)
      PROVE  \A t \in Tables : cols[t] \subseteq cols'[t]
  <2>1. CASE CreateTable(o)
    BY <2>1 DEF OpenInv, TypeOK, Layouts, CreateTable
  <2>2. CASE AddColumn(o)
    BY <2>2 DEF OpenInv, TypeOK, Layouts, AddColumn
  <2>3. CASE ~CreateTable(o) /\ ~AddColumn(o)
    BY <1>2, <2>3 DEF Step, Open, Refuse, ReadVersion, ReadColumns, RefuseColumn,
       DuplicateColumn, TableDone, TablesDone, Stamp, DropView, CreateView, ViewExists,
       Fail, Close, GiveUp
  <2> QED
    BY <2>1, <2>2, <2>3
<1> QED
  BY <1>1, <1>2 DEF Next

\* What another process does leaves a process's knowledge true.
LEMMA KnowledgeStays ==
  ASSUME NEW o \in Openers, Knows(o), \A t \in Tables : cols[t] \subseteq cols'[t],
         pc'[o] = pc[o], left'[o] = left[o], table'[o] = table[o], have'[o] = have[o],
         found'[o] = found[o]
  PROVE  Knows(o)'
<1>1. Mine(o)' = Mine(o)
  BY DEF Mine
<1>2. \A t \in Tables : Created(o, t) => Created(o, t)'
  BY <1>1 DEF Created
<1>3. Complete(cols, Build[o]) => Complete(cols, Build[o])'
  BY DEF Complete
<1>4. \A t \in Tables : Mine(o)[t] \subseteq cols[t] => Mine(o)[t] \subseteq cols'[t]
  OBVIOUS
<1>5. table[o] \in Tables /\ have[o] \subseteq cols[table[o]] => have[o] \subseteq cols'[table[o]]
  OBVIOUS
<1> QED
  BY <1>1, <1>2, <1>3, <1>4, <1>5 DEF Knows

\* A step of a process leaves it with knowledge that is true.
LEMMA KnowledgeGained ==
  ASSUME OpenAssumption, OpenInv, NEW o \in Openers, Step(o),
         \A t \in Tables : cols[t] \subseteq cols'[t]
  PROVE  Knows(o)'
<1>0. Knows(o) /\ TypeOK /\ StampMeansComplete
  BY DEF OpenInv
<1>m. Mine(o)' = Mine(o) /\ Complete(cols, Build[o]) = (\A t \in Tables : Mine(o)[t] \subseteq cols[t])
      /\ Complete(cols, Build[o])' = (\A t \in Tables : Mine(o)[t] \subseteq cols'[t])
  BY DEF Mine, Complete
<1>1. CASE Open(o)
  BY <1>0, <1>1 DEF Open, Knows, TypeOK
<1>2. CASE CreateTable(o)
  <2>1. PICK t \in left[o] :
          /\ cols' = [cols EXCEPT ![t] = IF @ = {} THEN Mine(o)[t] ELSE @]
          /\ left' = [left EXCEPT ![o] = @ \ {t}]
    BY <1>2 DEF CreateTable
  <2>2. Created(o, t)'
    BY <1>0, <1>m, <2>1 DEF Created, TypeOK, Layouts
  <2>3. \A u \in Tables : Created(o, u) => Created(o, u)'
    BY <1>m DEF Created
  <2>4. \A u \in Tables \ left'[o] : Created(o, u)'
    BY <1>0, <1>2, <2>1, <2>2, <2>3 DEF Knows, TypeOK, CreateTable
  <2> QED
    BY <1>0, <1>2, <2>4 DEF Knows, TypeOK, CreateTable
<1>3. CASE ReadVersion(o)
  <2>1. \A t \in Tables : Created(o, t)'
    BY <1>0, <1>3, <1>m DEF ReadVersion, Knows, Created
  <2>2. Build[o] \in Builds
    BY DEF Builds
  <2>3. version = Build[o] => Complete(cols, Build[o])'
    BY <1>0, <1>3, <2>2 DEF StampMeansComplete, ReadVersion
  <2> QED
    BY <1>0, <1>3, <2>1, <2>3 DEF ReadVersion, Knows, TypeOK
<1>4. CASE ReadColumns(o)
  <2>1. PICK t \in left[o] :
          /\ table' = [table EXCEPT ![o] = t]
          /\ have' = [have EXCEPT ![o] = cols[t]]
          /\ left' = [left EXCEPT ![o] = @ \ {t}]
          /\ pc' = [pc EXCEPT ![o] = IF cols[t] = {} THEN @ ELSE "adding"]
    BY <1>4 DEF ReadColumns
  <2>2. /\ cols' = cols /\ found' = found /\ t \in Tables /\ pc[o] = "columns"
        /\ table'[o] = t /\ have'[o] = cols[t] /\ left'[o] = left[o] \ {t}
        /\ pc'[o] = IF cols[t] = {} THEN "columns" ELSE "adding"
    BY <1>0, <1>4, <2>1 DEF ReadColumns, TypeOK
  <2>3. \A u \in Tables : Created(o, u) /\ Created(o, u)'
    BY <1>0, <1>m, <2>2 DEF Knows, Created
  <2>4. \A u \in Tables \ left[o] : Mine(o)[u] \subseteq cols[u]
    BY <1>0, <2>2 DEF Knows
  <2>5. cols[t] = {} => Mine(o)[t] \subseteq cols[t]
    BY <2>2, <2>3 DEF Created
  <2>6. found[o] = Build[o] => Complete(cols, Build[o])'
    BY <1>0, <2>2 DEF Knows, Complete
  <2>7. CASE cols[t] = {}
    BY <1>m, <2>2, <2>3, <2>4, <2>5, <2>6, <2>7 DEF Knows
  <2>8. CASE cols[t] # {}
    BY <1>m, <2>2, <2>3, <2>4, <2>6, <2>8 DEF Knows
  <2> QED
    BY <2>7, <2>8
<1>5. CASE AddColumn(o)
  <2>1. PICK c \in Missing(o) \ (cols[table[o]] \cup Unaddable) :
          /\ cols' = [cols EXCEPT ![table[o]] = @ \cup {c}]
          /\ have' = [have EXCEPT ![o] = @ \cup {c}]
    BY <1>5 DEF AddColumn
  <2>2. /\ pc'[o] = "adding" /\ pc[o] = "adding" /\ table'[o] = table[o]
        /\ left'[o] = left[o] /\ found'[o] = found[o] /\ table[o] \in Tables
        /\ have[o] \subseteq cols[table[o]]
    BY <1>0, <1>5 DEF AddColumn, Knows
  <2>3. have'[o] \subseteq cols'[table[o]]
    BY <1>0, <2>1, <2>2 DEF TypeOK, Layouts
  <2>4. \A u \in Tables : Created(o, u)'
    BY <1>0, <1>m, <2>2 DEF Knows, Created
  <2>5. \A u \in Tables \ (left[o] \cup {table[o]}) : Mine(o)[u] \subseteq cols'[u]
    BY <1>0, <2>2 DEF Knows
  <2>6. found[o] = Build[o] => Complete(cols, Build[o])'
    BY <1>0, <1>m, <2>2 DEF Knows
  <2> QED
    BY <1>m, <2>2, <2>3, <2>4, <2>5, <2>6 DEF Knows
<1>6. CASE TableDone(o)
  <2>1. /\ pc'[o] = "columns" /\ pc[o] = "adding" /\ cols' = cols /\ left' = left
        /\ found' = found /\ Mine(o)[table[o]] \subseteq cols[table[o]]
    BY <1>0, <1>6 DEF TableDone, Knows, TypeOK, Missing
  <2>2. \A u \in Tables : Created(o, u)'
    BY <1>0, <1>m, <2>1 DEF Knows, Created
  <2> QED
    BY <1>0, <1>m, <2>1, <2>2 DEF Knows
<1>7. CASE TablesDone(o)
  <2>1. pc'[o] = "stamp" /\ Complete(cols, Build[o])'
    BY <1>0, <1>7, <1>m DEF TablesDone, Knows, TypeOK
  <2> QED
    BY <2>1 DEF Knows
<1>8. CASE Stamp(o) \/ DropView(o) \/ CreateView(o)
  <2>1. pc'[o] \in {"drop", "create", "open"} /\ Complete(cols, Build[o])'
    BY <1>0, <1>8, <1>m DEF Stamp, DropView, CreateView, Knows, TypeOK
  <2> QED
    BY <2>1 DEF Knows
<1>9. CASE Refuse(o) \/ RefuseColumn(o) \/ DuplicateColumn(o) \/ ViewExists(o) \/ Fail(o)
           \/ Close(o)
  <2>1. pc'[o] = "closed"
    BY <1>0, <1>9 DEF Refuse, RefuseColumn, DuplicateColumn, ViewExists, Fail, Close, GiveUp,
       TypeOK
  <2> QED
    BY <2>1 DEF Knows
<1> QED
  BY <1>1, <1>2, <1>3, <1>4, <1>5, <1>6, <1>7, <1>8, <1>9 DEF Step

\* A step of one process touches nothing of another's.
LEMMA OthersAlone ==
  ASSUME TypeOK, NEW o \in Openers, NEW p \in Openers, p # o, Step(o)
  PROVE  /\ pc'[p] = pc[p] /\ left'[p] = left[p] /\ table'[p] = table[p]
         /\ have'[p] = have[p] /\ found'[p] = found[p]
BY DEF Step, TypeOK, Open, CreateTable, Refuse, ReadVersion, ReadColumns, AddColumn,
   RefuseColumn, DuplicateColumn, TableDone, TablesDone, Stamp, DropView, CreateView,
   ViewExists, Fail, Close, GiveUp

\* Only Stamp writes user_version, over a complete schema.
LEMMA StampStep ==
  ASSUME OpenInv, [Next]_vars, \A t \in Tables : cols[t] \subseteq cols'[t]
  PROVE  StampMeansComplete'
<1>1. CASE version' = version
  BY <1>1 DEF OpenInv, StampMeansComplete, Complete
<1>2. ASSUME NEW o \in Openers, Stamp(o)
      PROVE  StampMeansComplete'
  <2>1. Complete(cols, Build[o]) /\ (version' = version \/ version' = Build[o])
    BY <1>2 DEF OpenInv, Knows, Stamp
  <2> QED
    BY <1>1, <2>1 DEF StampMeansComplete, Complete
<1>3. version' = version \/ \E o \in Openers : Stamp(o)
  BY DEF Next, vars, Step, Open, CreateTable, Refuse, ReadVersion, ReadColumns, AddColumn,
     RefuseColumn, DuplicateColumn, TableDone, TablesDone, DropView, CreateView,
     ViewExists, Fail, Close, GiveUp
<1> QED
  BY <1>1, <1>2, <1>3

\* The invariant is inductive.
LEMMA OpenInvHolds == Spec => []OpenInv
<1>1. OpenAssumption
  BY OpenAssumption
<1>2. Init => OpenInv
  <2> SUFFICES ASSUME Init PROVE OpenInv
    OBVIOUS
  <2>1. PICK f \in Files : cols = f.cols /\ version = f.version /\ view = f.view
    BY DEF Init
  <2>2. f \in Shapes /\ (f.version \in Builds => Complete(f.cols, f.version))
    BY <1>1 DEF OpenAssumption
  <2>3. TypeOK
    BY <2>1, <2>2 DEF Init, TypeOK, Shapes, Places, Outcomes
  <2>4. StampMeansComplete
    BY <2>1, <2>2 DEF StampMeansComplete
  <2>5. \A o \in Openers : Knows(o)
    BY DEF Init, Knows
  <2> QED
    BY <2>3, <2>4, <2>5 DEF OpenInv
<1>3. OpenInv /\ [Next]_vars => OpenInv'
  <2> SUFFICES ASSUME OpenInv, [Next]_vars PROVE OpenInv'
    OBVIOUS
  <2>1. \A t \in Tables : cols[t] \subseteq cols'[t]
    BY ColumnsStay
  <2>2. TypeOK' /\ StampMeansComplete'
    BY <1>1, <2>1, TypeStep, StampStep DEF OpenInv
  <2>3. ASSUME NEW p \in Openers PROVE Knows(p)'
    <3>1. CASE UNCHANGED vars
      BY <2>1, <3>1, KnowledgeStays DEF vars, OpenInv
    <3>2. ASSUME NEW o \in Openers, Step(o), o # p PROVE Knows(p)'
      BY <2>1, <3>2, OthersAlone, KnowledgeStays DEF OpenInv
    <3>3. CASE Step(p)
      BY <1>1, <2>1, <3>3, KnowledgeGained
    <3> QED
      BY <3>1, <3>2, <3>3 DEF Next
  <2> QED
    BY <2>2, <2>3 DEF OpenInv
<1> QED
  BY <1>2, <1>3, PTL DEF Spec

-----------------------------------------------------------------------------
\* user_version is never ahead of the schema: an upgrade that was killed, failed
\* or refused half way leaves a file the next open upgrades the rest of.
THEOREM StampIsHonest == Spec => []StampMeansComplete
<1>1. OpenInv => StampMeansComplete
  BY DEF OpenInv
<1> QED
  BY <1>1, OpenInvHolds, PTL

\* Every open Store has the columns its INSERTs fill, whatever other processes
\* of whatever builds do to the same file (store.py:434-452).
THEOREM OpenStoreUsable == Spec => []OpenMeansUsable
<1>1. OpenInv => OpenMeansUsable
  BY DEF OpenInv, OpenMeansUsable, Knows
<1> QED
  BY <1>1, OpenInvHolds, PTL

\* A process that reads its own build's stamp alters no table.
THEOREM ReopenIsNoOp == Spec => ReopenAltersNothing
<1>1. OpenInv /\ [Next]_vars => [\A o \in Openers : AddColumn(o) => found[o] # Build[o]]_vars
  <2> SUFFICES ASSUME OpenInv, NEW o \in Openers, AddColumn(o), found[o] = Build[o]
               PROVE  FALSE
    OBVIOUS
  <2>1. PICK c \in Missing(o) : c \notin cols[table[o]]
    BY DEF AddColumn
  <2>2. pc[o] = "adding" /\ table[o] \in Tables /\ Complete(cols, Build[o])
    BY DEF OpenInv, Knows, AddColumn
  <2>3. c \in Schema[Build[o]][table[o]]
    BY <2>1 DEF Missing, Mine
  <2> QED
    BY <2>1, <2>2, <2>3 DEF Complete
<1> QED
  BY <1>1, OpenInvHolds, PTL DEF Spec, ReopenAltersNothing
-----------------------------------------------------------------------------
\* At a statement of __init__ or _migrate.
Opening(o) == pc[o] \notin {"closed", "open"}

\* No two processes are opening the file at once.
OneAtATime == \A o, p \in Openers : Opening(o) /\ Opening(p) => o = p

\* What a process has read of the file is what the file holds.
UpToDate(o) ==
  /\ pc[o] = "adding" => have[o] = cols[table[o]]
  /\ pc[o] = "create" => view = NoView
  /\ outcome[o] # "raced"

\* A process that opens alone has read what is there, and does not race.
LEMMA AloneStep ==
  ASSUME OpenInv, OneAtATime, \A o \in Openers : UpToDate(o), [Next]_vars,
         NEW o \in Openers
  PROVE  UpToDate(o)'
<1>0. TypeOK /\ Knows(o) /\ UpToDate(o)
  BY DEF OpenInv
<1>1. CASE UNCHANGED vars
  BY <1>0, <1>1 DEF vars, UpToDate
<1>2. ASSUME NEW p \in Openers, p # o, Step(p)
      PROVE  UpToDate(o)'
  <2>1. /\ pc'[o] = pc[o] /\ table'[o] = table[o] /\ have'[o] = have[o]
    BY <1>0, <1>2, OthersAlone
  <2>2. outcome'[o] = outcome[o]
    BY <1>0, <1>2 DEF Step, TypeOK, Open, CreateTable, Refuse, ReadVersion, ReadColumns, AddColumn,
       RefuseColumn, DuplicateColumn, TableDone, TablesDone, Stamp, DropView, CreateView,
       ViewExists, Fail, Close, GiveUp
  <2>3. CASE Opening(o)
    <3>1. ~Opening(p)
      BY <1>2, <2>3 DEF OneAtATime
    <3>2. Open(p) \/ Close(p)
      BY <1>2, <3>1 DEF Opening, Step, CreateTable, Refuse, ReadVersion, ReadColumns, AddColumn,
         RefuseColumn, DuplicateColumn, TableDone, TablesDone, Stamp, DropView, CreateView,
         ViewExists, Fail
    <3>3. cols' = cols /\ view' = view
      BY <3>2 DEF Open, Close
    <3> QED
      BY <1>0, <2>1, <2>2, <3>3 DEF UpToDate
  <2>4. CASE ~Opening(o)
    BY <1>0, <2>1, <2>2, <2>4 DEF UpToDate, Opening
  <2> QED
    BY <2>3, <2>4
<1>3. CASE Step(o)
  <2>1. CASE ReadColumns(o)
    <3>1. PICK t \in left[o] :
            /\ table' = [table EXCEPT ![o] = t]
            /\ have' = [have EXCEPT ![o] = cols[t]]
            /\ pc' = [pc EXCEPT ![o] = IF cols[t] = {} THEN @ ELSE "adding"]
      BY <2>1 DEF ReadColumns
    <3>2. /\ cols' = cols /\ outcome' = outcome /\ table'[o] = t /\ have'[o] = cols[t]
          /\ pc'[o] # "create"
      BY <1>0, <2>1, <3>1 DEF ReadColumns, TypeOK
    <3> QED
      BY <1>0, <3>2 DEF UpToDate
  <2>2. CASE AddColumn(o)
    <3>1. PICK c \in Missing(o) \ (cols[table[o]] \cup Unaddable) :
            /\ cols' = [cols EXCEPT ![table[o]] = @ \cup {c}]
            /\ have' = [have EXCEPT ![o] = @ \cup {c}]
      BY <2>2 DEF AddColumn
    <3>2. /\ pc[o] = "adding" /\ pc' = pc /\ table' = table /\ outcome' = outcome
          /\ table[o] \in Tables
      BY <1>0, <2>2 DEF AddColumn, Knows
    <3>3. have'[o] = have[o] \cup {c} /\ cols'[table[o]] = cols[table[o]] \cup {c}
      BY <1>0, <3>1, <3>2 DEF TypeOK, Layouts
    <3> QED
      BY <1>0, <3>2, <3>3 DEF UpToDate
  <2>3. CASE DropView(o) \/ CreateView(o)
    BY <1>0, <2>3 DEF DropView, CreateView, UpToDate, TypeOK
  <2>4. ~DuplicateColumn(o)
    BY <1>0 DEF DuplicateColumn, UpToDate, Missing
  <2>5. ~ViewExists(o)
    BY <1>0 DEF ViewExists, UpToDate
  <2>6. CASE Open(o) \/ CreateTable(o) \/ Refuse(o) \/ ReadVersion(o) \/ RefuseColumn(o)
             \/ TableDone(o) \/ TablesDone(o) \/ Stamp(o) \/ Fail(o) \/ Close(o)
    <3>1. pc'[o] \notin {"adding", "create"} /\ outcome'[o] # "raced"
      BY <1>0, <2>6 DEF Open, CreateTable, Refuse, ReadVersion, RefuseColumn, TableDone, TablesDone,
         Stamp, Fail, Close, GiveUp, UpToDate, TypeOK
    <3> QED
      BY <3>1 DEF UpToDate
  <2> QED
    BY <1>3, <2>1, <2>2, <2>3, <2>4, <2>5, <2>6 DEF Step
<1> QED
  BY <1>1, <1>2, <1>3 DEF Next

\* store.py:338 of the test, "a migration that runs twice would mean ALTER TABLE
\* errors": opens that do not overlap in time never race, over files of any build and
\* layout, half-upgraded ones and ones that others hold open included.  What open_race
\* finds takes two processes between the same two statements.
THEOREM AloneNeverRaces == Spec /\ []OneAtATime => []NoOpenRaces
<1> DEFINE Alone == \A o \in Openers : UpToDate(o)
<1>1. Init => Alone
  BY DEF Init, UpToDate
<1>2. OpenInv /\ OneAtATime /\ Alone /\ [Next]_vars => Alone'
  BY AloneStep
<1>3. Alone => NoOpenRaces
  BY DEF UpToDate, NoOpenRaces
<1> HIDE DEF Alone
<1> QED
  BY <1>1, <1>2, <1>3, OpenInvHolds, PTL DEF Spec
=============================================================================
