------------------------------ MODULE StoreOpen ------------------------------
(***************************************************************************)
(* Store.__init__ and _migrate (prefetch_core/store.py): several processes *)
(* open one database file, each creating the tables it misses, adding the  *)
(* columns an older build did not have, stamping its schema version and    *)
(* rebuilding the `timeline` view.                                         *)
(*                                                                         *)
(* isolation_level is None here and executescript commits, so every        *)
(* statement is a transaction of its own: another process, a kill or a     *)
(* failure may come between any two of them.                               *)
(***************************************************************************)
EXTENDS Naturals

CONSTANTS
  Openers,       \* processes
  Build,         \* opener -> SCHEMA_VERSION of the build it runs
  Tables, Columns,
  Schema,        \* build -> table -> its columns, {} if it has no such table
  Unaddable,     \* columns declared NOT NULL without a default
  Files,         \* databases that may be there: columns, stamp, view
  NoView, NoTable,
  MaxOpens,      \* bound on the opens
  Faults         \* may a statement fail (disk full, busy) or a process be killed?

Builds  == {Build[o] : o \in Openers}
Layouts == [Tables -> SUBSET Columns]
Shapes  == [cols : Layouts, version : Nat, view : Nat \cup {NoView}]

\* A file has every column a build with this version number declares.
Complete(cols, b) == \A t \in Tables : Schema[b][t] \subseteq cols[t]

ASSUME OpenAssumption ==
  /\ Build \in [Openers -> Nat \ {0}]
  /\ \A b \in Builds : Schema[b] \in Layouts
  /\ NoTable \notin Tables
  /\ Files \subseteq Shapes
  /\ \A f \in Files : f.version \in Builds => Complete(f.cols, f.version)
  /\ MaxOpens \in Nat /\ Faults \in BOOLEAN

VARIABLES
  cols,      \* table -> columns it has in the file; {} if there is no table
  version,   \* PRAGMA user_version
  view,      \* build whose `timeline` view is in the file, or NoView
  pc,        \* opener -> where in Store.__init__ it is
  left,      \* opener -> tables the current loop has still to visit
  table,     \* opener -> table being migrated
  have,      \* opener -> columns read (and added) for that table
  found,     \* opener -> user_version as read
  outcome,   \* opener -> how its last open ended
  opens      \* opens begun (bounded)

file   == <<cols, version, view>>
opener == <<pc, left, table, have, found, outcome>>
vars   == <<file, opener, opens>>

Places   == {"closed", "tables", "version", "columns", "adding", "stamp", "drop",
             "create", "open"}
Outcomes == {"none", "ok", "refused", "raced", "failed"}

Init ==
  /\ \E f \in Files : cols = f.cols /\ version = f.version /\ view = f.view
  /\ pc = [o \in Openers |-> "closed"]
  /\ left = [o \in Openers |-> {}]
  /\ table = [o \in Openers |-> NoTable]
  /\ have = [o \in Openers |-> {}]
  /\ found = [o \in Openers |-> 0]
  /\ outcome = [o \in Openers |-> "none"]
  /\ opens = 0

Mine(o) == Schema[Build[o]]

\* The open is over: the exception leaves __init__, or the process is gone.
GiveUp(o, how) ==
  /\ pc' = [pc EXCEPT ![o] = "closed"]
  /\ outcome' = [outcome EXCEPT ![o] = how]
  /\ UNCHANGED <<left, table, have, found>>

Open(o) ==
  /\ pc[o] = "closed"
  /\ opens < MaxOpens
  /\ opens' = opens + 1
  /\ pc' = [pc EXCEPT ![o] = "tables"]
  /\ left' = [left EXCEPT ![o] = Tables]
  /\ outcome' = [outcome EXCEPT ![o] = "none"]
  /\ UNCHANGED <<file, table, have, found>>

\* SCHEMA: CREATE TABLE IF NOT EXISTS, one table after the other.
CreateTable(o) ==
  /\ pc[o] = "tables"
  /\ \E t \in left[o] :
       /\ cols' = [cols EXCEPT ![t] = IF @ = {} THEN Mine(o)[t] ELSE @]
       /\ left' = [left EXCEPT ![o] = @ \ {t}]
  /\ UNCHANGED <<version, view, pc, table, have, found, outcome, opens>>

\* _migrate reads user_version: a newer file is refused ...
Refuse(o) ==
  /\ pc[o] = "tables" /\ left[o] = {}
  /\ version > Build[o]
  /\ GiveUp(o, "refused")
  /\ UNCHANGED <<file, opens>>

\* ... any other is gone through table by table.
ReadVersion(o) ==
  /\ pc[o] = "tables" /\ left[o] = {}
  /\ version <= Build[o]
  /\ found' = [found EXCEPT ![o] = version]
  /\ pc' = [pc EXCEPT ![o] = "columns"]
  /\ left' = [left EXCEPT ![o] = Tables]
  /\ UNCHANGED <<file, table, have, outcome, opens>>

\* PRAGMA table_info of one table; a table that is not there is skipped.
ReadColumns(o) ==
  /\ pc[o] = "columns"
  /\ \E t \in left[o] :
       /\ table' = [table EXCEPT ![o] = t]
       /\ have' = [have EXCEPT ![o] = cols[t]]
       /\ left' = [left EXCEPT ![o] = @ \ {t}]
       /\ pc' = [pc EXCEPT ![o] = IF cols[t] = {} THEN @ ELSE "adding"]
  /\ UNCHANGED <<file, found, outcome, opens>>

Missing(o) == Mine(o)[table[o]] \ have[o]

\* ALTER TABLE ADD COLUMN.
AddColumn(o) ==
  /\ pc[o] = "adding"
  /\ \E c \in Missing(o) \ (cols[table[o]] \cup Unaddable) :
       /\ cols' = [cols EXCEPT ![table[o]] = @ \cup {c}]
       /\ have' = [have EXCEPT ![o] = @ \cup {c}]
  /\ UNCHANGED <<version, view, pc, left, table, found, outcome, opens>>

\* A column that cannot be added: what was added before it stays.
RefuseColumn(o) ==
  /\ pc[o] = "adding"
  /\ Missing(o) \cap Unaddable # {}
  /\ GiveUp(o, "refused")
  /\ UNCHANGED <<file, opens>>

\* "duplicate column name": another process added it since it was read.
DuplicateColumn(o) ==
  /\ pc[o] = "adding"
  /\ (Missing(o) \cap cols[table[o]]) \ Unaddable # {}
  /\ GiveUp(o, "raced")
  /\ UNCHANGED <<file, opens>>

TableDone(o) ==
  /\ pc[o] = "adding"
  /\ Missing(o) = {}
  /\ pc' = [pc EXCEPT ![o] = "columns"]
  /\ UNCHANGED <<file, left, table, have, found, outcome, opens>>

\* Mutant of TablesDone: the stamp does not wait for the columns.
StampsFirst(o) ==
  /\ pc[o] = "columns"
  /\ pc' = [pc EXCEPT ![o] = "stamp"]
  /\ UNCHANGED <<file, left, table, have, found, outcome, opens>>

TablesDone(o) ==
  /\ pc[o] = "columns" /\ left[o] = {}
  /\ pc' = [pc EXCEPT ![o] = "stamp"]
  /\ UNCHANGED <<file, left, table, have, found, outcome, opens>>

\* PRAGMA user_version = SCHEMA_VERSION; INDEXES add nothing to this state.
Stamp(o) ==
  /\ pc[o] = "stamp"
  /\ version' = IF found[o] # Build[o] THEN Build[o] ELSE version
  /\ pc' = [pc EXCEPT ![o] = "drop"]
  /\ UNCHANGED <<cols, view, left, table, have, found, outcome, opens>>

\* TIMELINE_VIEW: DROP VIEW IF EXISTS ...
DropView(o) ==
  /\ pc[o] = "drop"
  /\ view' = NoView
  /\ pc' = [pc EXCEPT ![o] = "create"]
  /\ UNCHANGED <<cols, version, left, table, have, found, outcome, opens>>

\* ... CREATE VIEW, and the Store is open.
CreateView(o) ==
  /\ pc[o] = "create"
  /\ view = NoView
  /\ view' = Build[o]
  /\ pc' = [pc EXCEPT ![o] = "open"]
  /\ outcome' = [outcome EXCEPT ![o] = "ok"]
  /\ UNCHANGED <<cols, version, left, table, have, found, opens>>

\* "view timeline already exists": another process got there first.
ViewExists(o) ==
  /\ pc[o] = "create"
  /\ view # NoView
  /\ GiveUp(o, "raced")
  /\ UNCHANGED <<file, opens>>

\* A statement fails or the process dies, between any two statements.
Fail(o) ==
  /\ Faults
  /\ pc[o] \notin {"closed", "open"}
  /\ GiveUp(o, "failed")
  /\ UNCHANGED <<file, opens>>

Close(o) ==
  /\ pc[o] = "open"
  /\ pc' = [pc EXCEPT ![o] = "closed"]
  /\ UNCHANGED <<file, left, table, have, found, outcome, opens>>

Step(o) ==
  \/ Open(o) \/ CreateTable(o) \/ Refuse(o) \/ ReadVersion(o) \/ ReadColumns(o)
  \/ AddColumn(o) \/ RefuseColumn(o) \/ DuplicateColumn(o) \/ TableDone(o)
  \/ TablesDone(o) \/ Stamp(o) \/ DropView(o) \/ CreateView(o) \/ ViewExists(o)
  \/ Fail(o) \/ Close(o)

Next == \E o \in Openers : Step(o)

Spec == Init /\ [][Next]_vars

-----------------------------------------------------------------------------
TypeOK ==
  /\ cols \in Layouts /\ version \in Nat /\ view \in Nat \cup {NoView}
  /\ pc \in [Openers -> Places]
  /\ left \in [Openers -> SUBSET Tables]
  /\ table \in [Openers -> Tables \cup {NoTable}]
  /\ have \in [Openers -> SUBSET Columns]
  /\ found \in [Openers -> Nat]
  /\ outcome \in [Openers -> Outcomes]
  /\ opens \in Nat

\* A stamp is written only over a complete schema (store.py:454 comes last), so
\* an interrupted or refused upgrade is taken up again by the next open and no
\* later open of the same build finds columns missing.
StampMeansComplete == version \in Builds => Complete(cols, version)

\* A Store that is open has every column its INSERTs fill: no "table loaded_file
\* has 5 columns but 9 values were supplied" (store.py:293), whoever else is
\* opening, upgrading or dying at the same time.
OpenMeansUsable ==
  \A o \in Openers : pc[o] = "open" => Complete(cols, Build[o])

\* test_store.py:338 "Re-opening must be a no-op": a process that finds its own
\* stamp alters no table.
ReopenAltersNothing ==
  [][\A o \in Openers : AddColumn(o) => found[o] # Build[o]]_vars

\* store.py:338 of the test, "a migration that runs twice would mean ALTER TABLE
\* errors": with no statement failing, an open ends in success or in a refusal.
NoOpenRaces == \A o \in Openers : outcome[o] # "raced"

=============================================================================
