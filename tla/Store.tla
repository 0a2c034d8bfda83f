------------------------------- MODULE Store -------------------------------
(***************************************************************************)
(* The writer side of prefetch_core/store.py: several processes, each with *)
(* one Store over the same SQLite file, ingest parsed records with add_all *)
(* (periodic commits), every record inside a SAVEPOINT, and leave through  *)
(* close().  A statement may fail, a full disk may take the whole          *)
(* transaction with it, Ctrl-C may arrive between any two statements and a *)
(* process may be killed.                                                  *)
(*                                                                         *)
(* A database image is a set of `prefetch` rows and the set of their       *)
(* children.  run_time, loaded_file, volume, directory, file_ref, residue  *)
(* and problem are abstracted to numbered parts of a row: what matters     *)
(* here is whose they are and whether all of them are there.               *)
(*                                                                         *)
(* SQLite itself is external.  As configured by SCHEMA it is a rollback-   *)
(* journal database: any number of connections may hold SHARED, one        *)
(* RESERVED, a COMMIT of changes needs every other lock gone, and a COMMIT *)
(* takes effect as a whole or not at all.                                  *)
(***************************************************************************)
EXTENDS Naturals, Sequences, FiniteSets

CONSTANTS
  Writers,            \* processes that may open the database
  Keys, NoKey,        \* values of source_key; NoKey is SQL's NULL
  Versions,           \* tells two parses of the same file apart
  MaxParts,           \* bound on the children of one record
  Jobs,               \* record sequences a run may be given
  CommitEvery,        \* add_all's commit_every
  MaxRuns,            \* bound on the runs started
  MaxInterrupts,      \* bound on the Ctrl-C's delivered
  UndoInterruptible   \* may a Ctrl-C land inside add's except block?

Records == [key : Keys \cup {NoKey}, ver : Versions, parts : 0 .. MaxParts]
Rows    == [id : Nat \ {0}, key : Keys \cup {NoKey}, ver : Versions,
            parts : 0 .. MaxParts]
Images  == [rows : SUBSET Rows, kids : SUBSET ((Nat \ {0}) \X (Nat \ {0}))]

ASSUME StoreAssumption ==
  /\ NoKey \notin Keys
  /\ MaxParts \in Nat
  /\ Jobs \subseteq Seq(Records)
  /\ CommitEvery \in Nat \ {0}
  /\ MaxRuns \in Nat
  /\ MaxInterrupts \in Nat
  /\ UndoInterruptible \in BOOLEAN

VARIABLES
  db,          \* what the file holds once every journal is rolled back
  lock,        \* writer -> file lock; "none" also means: no changes, no snapshot
  view,        \* writer -> image its open transaction sees
  save,        \* writer -> image SAVEPOINT record would restore
  pc,          \* writer -> where in add_all / add / close it is
  job,         \* writer -> the records of the current run
  n,           \* writer -> records whose add() has returned
  pid,         \* writer -> id of the row being filled
  kid,         \* writer -> children inserted so far under pid
  result,      \* writer -> how the last run ended
  runs,        \* runs started (bounded)
  interrupts   \* Ctrl-C's delivered (bounded)

conns == <<lock, view, save, pid, kid>>
vars  == <<db, conns, pc, job, n, result, runs, interrupts>>

Locks   == {"none", "shared", "reserved"}
Places  == {"closed", "ready", "found", "emptied", "cleared", "filling",
            "undo", "due", "leaving"}
Results == {"none", "ok", "error", "interrupted", "killed"}

\* What the next statement of w reads: a deferred transaction takes its
\* snapshot with its first statement.
Seen(w) == IF lock[w] = "none" THEN db ELSE view[w]

AllAdded(w) == n[w] = Len(job[w])
Current(w)  == job[w][n[w] + 1]

OldIds(d, key) == {r.id : r \in {x \in d.rows : key # NoKey /\ x.key = key}}

\* INTEGER PRIMARY KEY without AUTOINCREMENT: one more than the largest id in
\* the table, so the id of a deleted last row is used again.
NextIds(rows) == {i \in {1} \cup {r.id + 1 : r \in rows} : \A r \in rows : r.id < i}

CanWrite(w)  == \A v \in Writers \ {w} : lock[v] # "reserved"
CanCommit(w) == lock[w] = "reserved" => \A v \in Writers \ {w} : lock[v] = "none"

Empty == [rows |-> {}, kids |-> {}]

\* The transaction of w is over; nothing of it is left in the connection.
EndTransaction(w) ==
  /\ lock' = [lock EXCEPT ![w] = "none"]
  /\ view' = [view EXCEPT ![w] = Empty]
  /\ save' = [save EXCEPT ![w] = Empty]
  /\ pid' = [pid EXCEPT ![w] = 1]
  /\ kid' = [kid EXCEPT ![w] = 0]

-----------------------------------------------------------------------------
Init ==
  /\ db = Empty
  /\ lock = [w \in Writers |-> "none"]
  /\ view = [w \in Writers |-> Empty]
  /\ save = [w \in Writers |-> Empty]
  /\ pc = [w \in Writers |-> "closed"]
  /\ job = [w \in Writers |-> <<>>]
  /\ n = [w \in Writers |-> 0]
  /\ pid = [w \in Writers |-> 1]
  /\ kid = [w \in Writers |-> 0]
  /\ result = [w \in Writers |-> "none"]
  /\ runs = 0
  /\ interrupts = 0

\* `with Store(path) as s: s.add_all(records)` begins.
Open(w) ==
  /\ pc[w] = "closed"
  /\ runs < MaxRuns
  /\ \E j \in Jobs : job' = [job EXCEPT ![w] = j]
  /\ n' = [n EXCEPT ![w] = 0]
  /\ pc' = [pc EXCEPT ![w] = "ready"]
  /\ result' = [result EXCEPT ![w] = "none"]
  /\ runs' = runs + 1
  /\ UNCHANGED <<db, conns, interrupts>>

\* Mutant of FindOld: the SELECT runs before BEGIN and holds no lock afterwards.
FindOldOutsideTransaction(w) ==
  /\ pc[w] = "ready"
  /\ ~AllAdded(w)
  /\ view' = [view EXCEPT ![w] = Seen(w)]
  /\ save' = [save EXCEPT ![w] = Seen(w)]
  /\ pc' = [pc EXCEPT ![w] = "found"]
  /\ UNCHANGED <<db, lock, pid, kid, job, n, result, runs, interrupts>>

\* add(): BEGIN unless a transaction is open, SAVEPOINT record, and _add's
\* SELECT of the rows with this source_key.  Only a keyed record reads.
FindOld(w) ==
  /\ pc[w] = "ready"
  /\ ~AllAdded(w)
  /\ view' = [view EXCEPT ![w] = Seen(w)]
  /\ save' = [save EXCEPT ![w] = Seen(w)]
  /\ lock' = [lock EXCEPT ![w] = IF @ = "none" /\ Current(w).key # NoKey
                                 THEN "shared" ELSE @]
  /\ pc' = [pc EXCEPT ![w] = "found"]
  /\ UNCHANGED <<db, pid, kid, job, n, result, runs, interrupts>>

\* _delete(): the children of every old row first ...
DropKids(w) ==
  LET old == OldIds(view[w], Current(w).key) IN
  /\ pc[w] = "found"
  /\ lock[w] # "none"
  /\ old # {}
  /\ CanWrite(w)
  /\ lock' = [lock EXCEPT ![w] = "reserved"]
  /\ view' = [view EXCEPT ![w].kids = {k \in @ : k[1] \notin old}]
  /\ pc' = [pc EXCEPT ![w] = "emptied"]
  /\ UNCHANGED <<db, save, pid, kid, job, n, result, runs, interrupts>>

\* Mutant of DropRows: _delete commits what it removed.
DropRowsCommits(w) ==
  LET old == OldIds(view[w], Current(w).key) IN
  /\ pc[w] = "emptied"
  /\ view' = [view EXCEPT ![w].rows = {r \in @ : r.id \notin old}]
  /\ db' = view'[w]
  /\ pc' = [pc EXCEPT ![w] = "cleared"]
  /\ UNCHANGED <<lock, save, pid, kid, job, n, result, runs, interrupts>>

\* ... then the rows themselves.
DropRows(w) ==
  LET old == OldIds(view[w], Current(w).key) IN
  /\ pc[w] = "emptied"
  /\ view' = [view EXCEPT ![w].rows = {r \in @ : r.id \notin old}]
  /\ pc' = [pc EXCEPT ![w] = "cleared"]
  /\ UNCHANGED <<db, lock, save, pid, kid, job, n, result, runs, interrupts>>

\* Mutant of InsertRow: lastrowid is read off the cursor before the INSERT, when it
\* holds no id yet (0 here), so the children would be nobody's.
InsertRowIdTooEarly(w) ==
  LET rec == Current(w) IN
  /\ \/ pc[w] = "cleared"
     \/ pc[w] = "found" /\ OldIds(view[w], rec.key) = {}
  /\ CanWrite(w)
  /\ lock' = [lock EXCEPT ![w] = "reserved"]
  /\ save' = [save EXCEPT ![w] = IF lock[w] = "none" THEN db ELSE @]
  /\ pid' = [pid EXCEPT ![w] = 0]
  /\ \E i \in NextIds(Seen(w).rows) :
       view' = [view EXCEPT ![w] =
                  [rows |-> Seen(w).rows \cup
                              {[id |-> i, key |-> rec.key, ver |-> rec.ver,
                                parts |-> rec.parts]},
                   kids |-> Seen(w).kids]]
  /\ kid' = [kid EXCEPT ![w] = 0]
  /\ pc' = [pc EXCEPT ![w] = "filling"]
  /\ UNCHANGED <<db, job, n, result, runs, interrupts>>

\* INSERT INTO prefetch.  For a record with no path on a fresh transaction
\* this is the first statement to touch the file.
InsertRow(w) ==
  LET rec == Current(w) IN
  /\ \/ pc[w] = "cleared"
     \/ pc[w] = "found" /\ OldIds(view[w], rec.key) = {}
  /\ CanWrite(w)
  /\ lock' = [lock EXCEPT ![w] = "reserved"]
  /\ save' = [save EXCEPT ![w] = IF lock[w] = "none" THEN db ELSE @]
  /\ \E i \in NextIds(Seen(w).rows) :
       /\ pid' = [pid EXCEPT ![w] = i]
       /\ view' = [view EXCEPT ![w] =
                     [rows |-> Seen(w).rows \cup
                                 {[id |-> i, key |-> rec.key, ver |-> rec.ver,
                                   parts |-> rec.parts]},
                      kids |-> Seen(w).kids]]
  /\ kid' = [kid EXCEPT ![w] = 0]
  /\ pc' = [pc EXCEPT ![w] = "filling"]
  /\ UNCHANGED <<db, job, n, result, runs, interrupts>>

\* One INSERT into a child table.
InsertKid(w) ==
  /\ pc[w] = "filling"
  /\ kid[w] < Current(w).parts
  /\ kid' = [kid EXCEPT ![w] = @ + 1]
  /\ view' = [view EXCEPT ![w].kids = @ \cup {<<pid[w], kid[w] + 1>>}]
  /\ UNCHANGED <<db, lock, save, pid, pc, job, n, result, runs, interrupts>>

\* _add has returned and RELEASE record succeeds: add() returns, and add_all
\* commits when the count reaches a multiple of commit_every.
AddReturns(w) ==
  /\ pc[w] = "filling"
  /\ kid[w] = Current(w).parts
  /\ n' = [n EXCEPT ![w] = @ + 1]
  /\ pc' = [pc EXCEPT ![w] = IF (n[w] + 1) % CommitEvery = 0 THEN "due" ELSE "ready"]
  /\ UNCHANGED <<db, conns, job, result, runs, interrupts>>

\* RELEASE record fails: the record stays in the transaction, the run is over.
ReleaseFails(w) ==
  /\ pc[w] = "filling"
  /\ kid[w] = Current(w).parts
  /\ pc' = [pc EXCEPT ![w] = "leaving"]
  /\ result' = [result EXCEPT ![w] = "error"]
  /\ \/ UNCHANGED conns
     \/ EndTransaction(w)
  /\ UNCHANGED <<db, job, n, runs, interrupts>>

\* A statement of _add raises: busy, locked or a bad value leaves the
\* transaction as it was, a full disk aborts all of it, savepoint included.
StatementFails(w) ==
  /\ \/ pc[w] \in {"found", "emptied", "cleared"}
     \/ pc[w] = "filling" /\ kid[w] < Current(w).parts
  /\ pc' = [pc EXCEPT ![w] = "undo"]
  /\ result' = [result EXCEPT ![w] = "error"]
  /\ \/ UNCHANGED conns
     \/ EndTransaction(w)
  /\ UNCHANGED <<db, job, n, runs, interrupts>>

\* Mutant of Undo: the except block releases the savepoint without ROLLBACK TO.
UndoReleasesOnly(w) ==
  /\ pc[w] = "undo"
  /\ pc' = [pc EXCEPT ![w] = "leaving"]
  /\ UNCHANGED <<db, view, lock, save, pid, kid, job, n, result, runs, interrupts>>

\* add's except block: ROLLBACK TO record, RELEASE record; when the savepoint
\* went with the transaction both fail and the error raised stays the first.
Undo(w) ==
  /\ pc[w] = "undo"
  /\ view' = [view EXCEPT ![w] = save[w]]
  /\ pc' = [pc EXCEPT ![w] = "leaving"]
  /\ UNCHANGED <<db, lock, save, pid, kid, job, n, result, runs, interrupts>>

\* COMMIT (when a transaction is open) makes the whole view the file.
CommitView(w) ==
  /\ CanCommit(w)
  /\ db' = IF lock[w] = "reserved" THEN view[w] ELSE db
  /\ EndTransaction(w)

\* Mutant of Commit: add_all has the periodic commit only, not the one at its end.
CommitPeriodicOnly(w) ==
  /\ pc[w] = "due" \/ (pc[w] = "ready" /\ AllAdded(w))
  /\ IF pc[w] = "due" THEN CommitView(w) ELSE UNCHANGED <<db, conns>>
  /\ pc' = [pc EXCEPT ![w] = IF @ = "due" THEN "ready" ELSE "leaving"]
  /\ result' = [result EXCEPT ![w] = IF pc[w] = "due" THEN @ ELSE "ok"]
  /\ UNCHANGED <<job, n, runs, interrupts>>

\* add_all's periodic commit, or the one after its last record.
Commit(w) ==
  /\ pc[w] = "due" \/ (pc[w] = "ready" /\ AllAdded(w))
  /\ CommitView(w)
  /\ pc' = [pc EXCEPT ![w] = IF @ = "due" THEN "ready" ELSE "leaving"]
  /\ result' = [result EXCEPT ![w] = IF pc[w] = "due" THEN @ ELSE "ok"]
  /\ UNCHANGED <<job, n, runs, interrupts>>

\* COMMIT raises: busy leaves the transaction open, a full disk ends it.
CommitFails(w) ==
  /\ pc[w] = "due" \/ (pc[w] = "ready" /\ AllAdded(w))
  /\ lock[w] # "none"
  /\ pc' = [pc EXCEPT ![w] = "leaving"]
  /\ result' = [result EXCEPT ![w] = "error"]
  /\ \/ UNCHANGED conns
     \/ EndTransaction(w)
  /\ UNCHANGED <<db, job, n, runs, interrupts>>

\* close(): commit what completed, then close the handle.
Close(w) ==
  /\ pc[w] = "leaving"
  /\ CommitView(w)
  /\ pc' = [pc EXCEPT ![w] = "closed"]
  /\ UNCHANGED <<job, n, result, runs, interrupts>>

\* Mutant of CloseFails: close() has no `finally`; the handle and its locks stay.
CloseFailsLeavesHandle(w) ==
  /\ pc[w] = "leaving"
  /\ lock[w] # "none"
  /\ pc' = [pc EXCEPT ![w] = "closed"]
  /\ result' = [result EXCEPT ![w] = "error"]
  /\ UNCHANGED <<db, conns, job, n, runs, interrupts>>

\* close() whose COMMIT raises still closes the handle (`finally`), and SQLite
\* rolls back what was pending.
CloseFails(w) ==
  /\ pc[w] = "leaving"
  /\ lock[w] # "none"
  /\ EndTransaction(w)
  /\ pc' = [pc EXCEPT ![w] = "closed"]
  /\ result' = [result EXCEPT ![w] = "error"]
  /\ UNCHANGED <<db, job, n, runs, interrupts>>

-----------------------------------------------------------------------------
\* Ctrl-C inside _add, or after it: the except block sees it ...
InterruptInTry(w) ==
  /\ pc[w] \in {"found", "emptied", "cleared", "filling"}
  /\ pc' = [pc EXCEPT ![w] = "undo"]
  /\ UNCHANGED <<db, conns>>

\* ... between records, around a commit, or before RELEASE it goes straight to
\* __exit__; and so it does in the except block, where ROLLBACK TO guards itself
\* against sqlite3.Error only ...
Unguarded == {"ready", "due"} \cup (IF UndoInterruptible THEN {"undo"} ELSE {})

InterruptOutside(w) ==
  /\ \/ pc[w] \in Unguarded
     \/ pc[w] = "filling" /\ kid[w] = Current(w).parts
  /\ pc' = [pc EXCEPT ![w] = "leaving"]
  /\ UNCHANGED <<db, conns>>

\* ... and inside close() it skips the COMMIT but not conn.close().
InterruptInClose(w) ==
  /\ pc[w] = "leaving"
  /\ pc' = [pc EXCEPT ![w] = "closed"]
  /\ EndTransaction(w)
  /\ UNCHANGED db

Interrupt(w) ==
  /\ interrupts < MaxInterrupts
  /\ \/ InterruptInTry(w)
     \/ InterruptOutside(w)
     \/ InterruptInClose(w)
  /\ interrupts' = interrupts + 1
  /\ result' = [result EXCEPT ![w] = "interrupted"]
  /\ UNCHANGED <<job, n, runs>>

\* The process dies; the next opener rolls the hot journal back.
Kill(w) ==
  /\ pc[w] # "closed"
  /\ pc' = [pc EXCEPT ![w] = "closed"]
  /\ EndTransaction(w)
  /\ result' = [result EXCEPT ![w] = "killed"]
  /\ UNCHANGED <<db, job, n, runs, interrupts>>

-----------------------------------------------------------------------------
\* What a running process does by itself.
Step(w) ==
  \/ FindOld(w) \/ DropKids(w) \/ DropRows(w) \/ InsertRow(w) \/ InsertKid(w)
  \/ AddReturns(w) \/ ReleaseFails(w) \/ StatementFails(w) \/ Undo(w)
  \/ Commit(w) \/ CommitFails(w) \/ Close(w) \/ CloseFails(w)

Next == \E w \in Writers : Open(w) \/ Step(w) \/ Interrupt(w) \/ Kill(w)

Spec == Init /\ [][Next]_vars

\* A process that is not killed keeps running: no statement waits for a lock
\* for ever (sqlite3.connect's busy timeout turns the wait into an error).
FairSpec == Spec /\ \A w \in Writers : WF_vars(Step(w))

-----------------------------------------------------------------------------
TypeOK ==
  /\ db \in Images
  /\ lock \in [Writers -> Locks]
  /\ view \in [Writers -> Images]
  /\ save \in [Writers -> Images]
  /\ pc \in [Writers -> Places]
  /\ job \in [Writers -> Seq(Records)]
  /\ n \in [Writers -> Nat]
  /\ pid \in [Writers -> Nat \ {0}]
  /\ kid \in [Writers -> Nat]
  /\ result \in [Writers -> Results]
  /\ runs \in Nat
  /\ interrupts \in Nat

\* No row without all its children, no child without its row, no two rows
\* under one id.
Whole(d) ==
  /\ \A r \in d.rows : \A i \in 1 .. r.parts : <<r.id, i>> \in d.kids
  /\ \A k \in d.kids : \E r \in d.rows : r.id = k[1] /\ k[2] \in 1 .. r.parts
  /\ \A r, s \in d.rows : r.id = s.id => r = s

\* store.py:514 "The whole record is one savepoint: it lands completely or not
\* at all", and close() keeps a partial run "without ever keeping a partial
\* record", whatever failed, was interrupted or was killed.
NoPartialRecord == Whole(db)

Single(d) == \A r, s \in d.rows : r.key = s.key /\ r.key # NoKey => r = s

\* Ingest is idempotent per source path (store.py:509-512), also when two
\* processes ingest the same file at the same time.
OneRowPerSource == Single(db)

Replaced(r, d) == r.key # NoKey /\ \E s \in d.rows : s.key = r.key

\* A row leaves the file only in the same COMMIT that brings a row of the same
\* source; a record with no path never leaves.  So a failed re-ingest keeps the
\* old version, and no writer overwrites what another one committed unseen.
NothingLost == [][\A r \in db.rows \ db'.rows : Replaced(r, db')]_vars

\* The rows record k of a run must have left behind: its own version, unless a
\* later record of the run has the same key.
Superseded(w, k) ==
  \E m \in k + 1 .. n[w] : job[w][m].key = job[w][k].key /\ job[w][k].key # NoKey

\* A periodic commit of this run has published record k: since then another process
\* may have put its own version in its place.
Published(w, k) == \E m \in k .. n[w] : m % CommitEvery = 0

Stored(w, d) ==
  \A k \in 1 .. n[w] :
    ~Superseded(w, k) =>
      \E r \in d.rows : /\ r.key = job[w][k].key
                        /\ r.ver = job[w][k].ver \/ (r.key # NoKey /\ Published(w, k))

\* add_all returning is a promise: everything it was given is in the file, in the
\* version it was given unless another process replaced it after a periodic commit.
OkMeansStored ==
  [][\A w \in Writers : result[w] # "ok" /\ result'[w] = "ok" =>
       AllAdded(w) /\ Stored(w, db')]_vars

\* No run hangs on a lock, and a run whose commit fails does not keep the
\* database locked (store.py:497).
EveryRunEnds == \A w \in Writers : pc[w] # "closed" ~> pc[w] = "closed" /\ lock[w] = "none"

=============================================================================
