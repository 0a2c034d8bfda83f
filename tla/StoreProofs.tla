----------------------------- MODULE StoreProofs -----------------------------
(***************************************************************************)
(* Safety of Store for any number of processes, sources, records and       *)
(* children: the file never holds part of a record, nor two rows of one    *)
(* source, no row leaves it unreplaced, a run that ends well has stored    *)
(* what it was given, and all of it implements Ledger.                     *)
(***************************************************************************)
EXTENDS StoreRefinement, FiniteSetTheorems, TLAPS

USE DEF conns

-----------------------------------------------------------------------------
\* Type correctness: every state of the ingest, on every path through the
\* except blocks, stays in the types the code's tables and locals have.

\* While a record is being added, the record looked at is one of the run's.
LEMMA CurrentIsRecord ==
  ASSUME StoreAssumption, TypeOK, NEW w \in Writers, n[w] < Len(job[w])
  PROVE  Current(w) \in Records
<1>1. job[w] \in Seq(Records) /\ n[w] \in Nat
  BY DEF TypeOK
<1>2. n[w] + 1 \in 1 .. Len(job[w])
  BY <1>1
<1> QED
  BY <1>1, <1>2 DEF Current

\* The id SQLite gives a new row is a positive number.
LEMMA NextIdsAreIds ==
  ASSUME NEW rows \in SUBSET Rows
  PROVE  NextIds(rows) \subseteq Nat \ {0}
BY DEF NextIds, Rows

\* What a statement reads is an image of the database.
LEMMA SeenIsImage ==
  ASSUME TypeOK, NEW w \in Writers
  PROVE  Seen(w) \in Images
BY DEF Seen, TypeOK

\* The empty database is an image.
LEMMA EmptyIsImage == Empty \in Images
BY DEF Empty, Images

\* Where in a record a process may be.
InRecord == {"found", "emptied", "cleared", "filling", "undo"}

Counting == \A w \in Writers :
  /\ n[w] <= Len(job[w])
  /\ pc[w] \in InRecord => n[w] < Len(job[w])
  /\ pc[w] = "filling" => kid[w] <= Current(w).parts

\* Ending a transaction leaves the connection's state well typed.
LEMMA EndKeepsType ==
  ASSUME TypeOK, NEW w \in Writers, EndTransaction(w)
  PROVE  /\ lock' \in [Writers -> Locks]
         /\ view' \in [Writers -> Images]
         /\ save' \in [Writers -> Images]
         /\ pid' \in [Writers -> Nat \ {0}]
         /\ kid' \in [Writers -> Nat]
BY EmptyIsImage DEF EndTransaction, TypeOK, Locks

\* A COMMIT leaves the file and the connection's state well typed.
LEMMA CommitKeepsType ==
  ASSUME TypeOK, NEW w \in Writers, CommitView(w)
  PROVE  /\ db' \in Images
         /\ lock' \in [Writers -> Locks]
         /\ view' \in [Writers -> Images]
         /\ save' \in [Writers -> Images]
         /\ pid' \in [Writers -> Nat \ {0}]
         /\ kid' \in [Writers -> Nat]
BY EndKeepsType DEF CommitView, TypeOK

\* Every step keeps the types.
LEMMA TypeStep ==
  ASSUME StoreAssumption, TypeOK, Counting, [Next]_vars
  PROVE  TypeOK'
<1>1. CASE UNCHANGED vars
  BY <1>1 DEF TypeOK, vars
<1>2. ASSUME NEW w \in Writers, Open(w) PROVE TypeOK'
  BY <1>2 DEF TypeOK, Open, StoreAssumption, Places, Results
<1>3. ASSUME NEW w \in Writers, FindOld(w) PROVE TypeOK'
  BY <1>3, SeenIsImage DEF TypeOK, FindOld, Places, Locks
<1>4. ASSUME NEW w \in Writers, DropKids(w) PROVE TypeOK'
  <2>1. [view[w] EXCEPT !.kids = {k \in @ : k[1] \notin OldIds(view[w], Current(w).key)}] \in Images
    BY DEF TypeOK, Images
  <2> QED
    BY <1>4, <2>1 DEF TypeOK, DropKids, Places, Locks
<1>5. ASSUME NEW w \in Writers, DropRows(w) PROVE TypeOK'
  <2>1. [view[w] EXCEPT !.rows = {r \in @ : r.id \notin OldIds(view[w], Current(w).key)}] \in Images
    BY DEF TypeOK, Images
  <2> QED
    BY <1>5, <2>1 DEF TypeOK, DropRows, Places
<1>6. ASSUME NEW w \in Writers, InsertRow(w) PROVE TypeOK'
  <2>1. n[w] < Len(job[w])
    BY <1>6 DEF InsertRow, Counting, InRecord
  <2>2. Current(w) \in Records
    BY <2>1, CurrentIsRecord
  <2>3. PICK i \in NextIds(Seen(w).rows) :
          /\ pid' = [pid EXCEPT ![w] = i]
          /\ view' = [view EXCEPT ![w] =
                        [rows |-> Seen(w).rows \cup
                           {[id |-> i, key |-> Current(w).key, ver |-> Current(w).ver,
                             parts |-> Current(w).parts]},
                         kids |-> Seen(w).kids]]
    BY <1>6 DEF InsertRow
  <2>4. Seen(w) \in Images
    BY SeenIsImage
  <2>5. i \in Nat \ {0}
    BY <2>4, NextIdsAreIds DEF Images
  <2>6. [rows |-> Seen(w).rows \cup
           {[id |-> i, key |-> Current(w).key, ver |-> Current(w).ver,
             parts |-> Current(w).parts]},
         kids |-> Seen(w).kids] \in Images
    BY <2>2, <2>4, <2>5 DEF Images, Rows, Records
  <2> QED
    BY <1>6, <2>3, <2>5, <2>6 DEF TypeOK, InsertRow, Places, Locks
<1>7. ASSUME NEW w \in Writers, InsertKid(w) PROVE TypeOK'
  <2>1. view[w] \in Images /\ pid[w] \in Nat \ {0} /\ kid[w] + 1 \in Nat \ {0}
    BY DEF TypeOK
  <2>2. <<pid[w], kid[w] + 1>> \in (Nat \ {0}) \X (Nat \ {0})
    BY <2>1
  <2>3. view[w].kids \cup {<<pid[w], kid[w] + 1>>} \in SUBSET ((Nat \ {0}) \X (Nat \ {0}))
    BY <2>1, <2>2 DEF Images
  <2>4. [view[w] EXCEPT !.kids = @ \cup {<<pid[w], kid[w] + 1>>}] \in Images
    BY <2>1, <2>3 DEF Images
  <2> QED
    BY SMTT(30), <1>7, <2>4 DEF TypeOK, InsertKid
<1>8. ASSUME NEW w \in Writers, AddReturns(w) PROVE TypeOK'
  BY <1>8 DEF TypeOK, AddReturns, Places
<1>9. ASSUME NEW w \in Writers, ReleaseFails(w) PROVE TypeOK'
  BY <1>9, EndKeepsType DEF TypeOK, ReleaseFails, Places, Results
<1>10. ASSUME NEW w \in Writers, StatementFails(w) PROVE TypeOK'
  BY <1>10, EndKeepsType DEF TypeOK, StatementFails, Places, Results
<1>11. ASSUME NEW w \in Writers, Undo(w) PROVE TypeOK'
  BY <1>11 DEF TypeOK, Undo, Places
<1>12. ASSUME NEW w \in Writers, Commit(w) PROVE TypeOK'
  BY <1>12, CommitKeepsType DEF TypeOK, Commit, Places, Results
<1>13. ASSUME NEW w \in Writers, CommitFails(w) PROVE TypeOK'
  BY <1>13, EndKeepsType DEF TypeOK, CommitFails, Places, Results
<1>14. ASSUME NEW w \in Writers, Close(w) PROVE TypeOK'
  BY <1>14, CommitKeepsType DEF TypeOK, Close, Places
<1>15. ASSUME NEW w \in Writers, CloseFails(w) PROVE TypeOK'
  BY <1>15, EndKeepsType DEF TypeOK, CloseFails, Places, Results
<1>16. ASSUME NEW w \in Writers, Interrupt(w) PROVE TypeOK'
  <2>1. CASE InterruptInTry(w)
    BY <1>16, <2>1 DEF TypeOK, Interrupt, InterruptInTry, Places, Results
  <2>2. CASE InterruptOutside(w)
    BY <1>16, <2>2 DEF TypeOK, Interrupt, InterruptOutside, Places, Results
  <2>3. CASE InterruptInClose(w)
    BY SMTT(30), <1>16, <2>3, EndKeepsType DEF TypeOK, Interrupt, InterruptInClose, Places, Results
  <2> QED
    BY <1>16, <2>1, <2>2, <2>3 DEF Interrupt
<1>17. ASSUME NEW w \in Writers, Kill(w) PROVE TypeOK'
  BY <1>17, EndKeepsType DEF TypeOK, Kill, Places, Results
<1> QED
  BY <1>1, <1>2, <1>3, <1>4, <1>5, <1>6, <1>7, <1>8, <1>9, <1>10, <1>11, <1>12,
     <1>13, <1>14, <1>15, <1>16, <1>17 DEF Next, Step

-----------------------------------------------------------------------------
(* Every action keeps Counting: an add() in progress has a record to add,   *)
(* and has not inserted more children than that record has.                 *)

\* Every step keeps Counting.
LEMMA CountingStep ==
  ASSUME StoreAssumption, TypeOK, Counting, [Next]_vars
  PROVE  Counting'
<1> DEFINE C(v) == /\ n[v] <= Len(job[v])
                   /\ pc[v] \in InRecord => n[v] < Len(job[v])
                   /\ pc[v] = "filling" => kid[v] <= Current(v).parts
<1> SUFFICES ASSUME NEW v \in Writers PROVE C(v)'
  BY DEF Counting
<1>0. C(v)
  BY DEF Counting
<1>1. ASSUME NEW w \in Writers, w # v, Open(w) \/ Step(w) \/ Interrupt(w) \/ Kill(w)
      PROVE  C(v)'
  <2>1. n'[v] = n[v] /\ job'[v] = job[v] /\ pc'[v] = pc[v] /\ kid'[v] = kid[v]
    BY SMTT(30), <1>1 DEF TypeOK, Step, Open, FindOld, DropKids, DropRows, InsertRow, InsertKid,
       AddReturns, ReleaseFails, StatementFails, Undo, Commit, CommitFails, Close,
       CloseFails, Interrupt, InterruptInTry, InterruptOutside, InterruptInClose,
       Kill, CommitView, EndTransaction
  <2> QED
    BY <1>0, <2>1 DEF Current
<1>2. CASE UNCHANGED vars
  BY <1>0, <1>2 DEF vars, Current
<1>3. CASE Open(v)
  BY <1>0, <1>3 DEF TypeOK, Open, InRecord, StoreAssumption
<1>4. CASE FindOld(v)
  BY <1>0, <1>4 DEF TypeOK, FindOld, InRecord, AllAdded
<1>5. CASE DropKids(v) \/ DropRows(v)
  BY <1>0, <1>5 DEF TypeOK, DropKids, DropRows, InRecord
<1>6. CASE InsertRow(v)
  <2>1. n[v] < Len(job[v])
    BY <1>0, <1>6 DEF InsertRow, InRecord
  <2>2. Current(v) \in Records
    BY <2>1, CurrentIsRecord
  <2>3. n'[v] = n[v] /\ job'[v] = job[v] /\ kid'[v] = 0 /\ Current(v)' = Current(v)
    BY <1>6 DEF TypeOK, InsertRow, Current
  <2> QED
    BY <1>0, <2>1, <2>2, <2>3 DEF Records
<1>7. CASE InsertKid(v)
  <2>1. n[v] < Len(job[v]) /\ kid[v] < Current(v).parts
    BY <1>0, <1>7 DEF InsertKid, InRecord
  <2>2. Current(v) \in Records
    BY <2>1, CurrentIsRecord
  <2>3. n'[v] = n[v] /\ job'[v] = job[v] /\ kid'[v] = kid[v] + 1 /\ Current(v)' = Current(v)
    BY <1>7 DEF TypeOK, InsertKid, Current
  <2>4. kid[v] \in Nat /\ Current(v).parts \in Nat
    BY <2>2 DEF TypeOK, Records, StoreAssumption
  <2> QED
    BY <1>0, <2>1, <2>3, <2>4
<1>8. CASE AddReturns(v)
  <2>1. n[v] < Len(job[v]) /\ pc'[v] \in {"due", "ready"} /\ n'[v] = n[v] + 1 /\ job'[v] = job[v]
    BY <1>0, <1>8 DEF TypeOK, AddReturns, InRecord
  <2>2. n[v] \in Nat /\ Len(job[v]) \in Nat
    BY DEF TypeOK
  <2> QED
    BY <2>1, <2>2 DEF InRecord
<1>9. CASE ReleaseFails(v) \/ Undo(v) \/ Commit(v) \/ CommitFails(v) \/ Close(v)
           \/ CloseFails(v) \/ Kill(v)
  <2>1. pc'[v] \in {"leaving", "ready", "closed"} /\ n'[v] = n[v] /\ job'[v] = job[v]
    BY <1>9 DEF TypeOK, ReleaseFails, Undo, Commit, CommitFails, Close, CloseFails, Kill
  <2> QED
    BY <1>0, <2>1 DEF InRecord
<1>10. CASE StatementFails(v)
  <2>1. pc[v] \in InRecord /\ pc'[v] = "undo" /\ n'[v] = n[v] /\ job'[v] = job[v]
    BY <1>10 DEF TypeOK, StatementFails, InRecord
  <2> QED
    BY <1>0, <2>1
<1>11. CASE Interrupt(v)
  <2>1. /\ pc'[v] \in {"leaving", "closed"} \/ (pc[v] \in InRecord /\ pc'[v] = "undo")
        /\ n'[v] = n[v] /\ job'[v] = job[v]
    BY <1>11 DEF TypeOK, Interrupt, InterruptInTry, InterruptOutside, InterruptInClose,
       Unguarded, InRecord
  <2> QED
    BY <1>0, <2>1 DEF InRecord
<1> QED
  BY <1>1, <1>2, <1>3, <1>4, <1>5, <1>6, <1>7, <1>8, <1>9, <1>10, <1>11 DEF Next, Step

\* Every reachable state is well typed, for any number of writers, sources,
\* record sizes and jobs.
THEOREM TypeCorrect == Spec => []TypeOK
<1>1. StoreAssumption
  BY StoreAssumption
<1>2. Init => TypeOK /\ Counting
  <2> SUFFICES ASSUME Init PROVE TypeOK /\ Counting
    OBVIOUS
  <2>1. TypeOK
    BY EmptyIsImage DEF Init, TypeOK, Locks, Places, Results
  <2>2. Counting
    BY DEF Init, Counting, InRecord
  <2> QED
    BY <2>1, <2>2
<1>3. TypeOK /\ Counting /\ [Next]_vars => TypeOK' /\ Counting'
  BY <1>1, TypeStep, CountingStep
<1> QED
  BY <1>2, <1>3, PTL DEF Spec

-----------------------------------------------------------------------------
(* What each statement of _add does to a database image.  Good images are  *)
(* the ones a COMMIT may publish; HalfDeleted and Filling describe the two *)
(* ways a transaction is between them.                                     *)

Good(d) == Whole(d) /\ Single(d)

\* The rows `old` have lost their children and are still there.
HalfDeleted(d, old) ==
  /\ \A r \in d.rows : r.id \notin old => \A i \in 1 .. r.parts : <<r.id, i>> \in d.kids
  /\ \A k \in d.kids : \E r \in d.rows : r.id = k[1] /\ k[2] \in 1 .. r.parts /\ r.id \notin old
  /\ \A r, s \in d.rows : r.id = s.id => r = s
  /\ Single(d)

\* Row `i` holds record `rec` and has its first `m` children.
Filling(d, rec, i, m) ==
  /\ \A r \in d.rows : r.id = i =>
       r.key = rec.key /\ r.parts = rec.parts
  /\ \E r \in d.rows : r.id = i
  /\ \A r \in d.rows : r.id # i => \A j \in 1 .. r.parts : <<r.id, j>> \in d.kids
  /\ \A j \in 1 .. m : <<i, j>> \in d.kids
  /\ \A k \in d.kids : \E r \in d.rows : r.id = k[1] /\ k[2] \in 1 .. r.parts
  /\ \A r, s \in d.rows : r.id = s.id => r = s
  /\ Single(d)

\* The empty database is good.
LEMMA EmptyIsGood == Good(Empty)
BY DEF Good, Whole, Single, Empty

\* _delete's first half: with the children of the old rows gone, only those rows
\* are not whole.
LEMMA DroppingKids ==
  ASSUME NEW d \in Images, Good(d), NEW old
  PROVE  HalfDeleted([d EXCEPT !.kids = {k \in @ : k[1] \notin old}], old)
BY DEF Good, Whole, Single, HalfDeleted, Images

\* _delete's second half: with the old rows gone too the image is good again, and
\* has no row of that key.
LEMMA DroppingRows ==
  ASSUME NEW d \in Images, NEW key, HalfDeleted(d, OldIds(d, key))
  PROVE  /\ Good([d EXCEPT !.rows = {r \in @ : r.id \notin OldIds(d, key)}])
         /\ OldIds([d EXCEPT !.rows = {r \in @ : r.id \notin OldIds(d, key)}], key) = {}
<1> DEFINE e == [d EXCEPT !.rows = {r \in @ : r.id \notin OldIds(d, key)}]
<1>1. e.rows = {r \in d.rows : r.id \notin OldIds(d, key)} /\ e.kids = d.kids
  BY DEF Images
<1>2. Good(e)
  BY <1>1 DEF Good, Whole, Single, HalfDeleted
<1>3. OldIds(e, key) = {}
  BY <1>1 DEF OldIds
<1> QED
  BY <1>2, <1>3

\* INSERT INTO prefetch starts the filling of a row whose id and key are new.
LEMMA InsertingRow ==
  ASSUME NEW d \in Images, Good(d), NEW rec \in Records, OldIds(d, rec.key) = {},
         NEW i \in NextIds(d.rows)
  PROVE  Filling([rows |-> d.rows \cup {[id |-> i, key |-> rec.key, ver |-> rec.ver,
                                         parts |-> rec.parts]},
                  kids |-> d.kids], rec, i, 0)
<1> DEFINE new == [id |-> i, key |-> rec.key, ver |-> rec.ver, parts |-> rec.parts]
<1> DEFINE e == [rows |-> d.rows \cup {new}, kids |-> d.kids]
<1>1. \A r \in d.rows : r.id # i
  <2>1. \A r \in d.rows : r.id \in Nat /\ r.id < i
    BY DEF NextIds, Images, Rows
  <2>2. i \in Nat
    BY NextIdsAreIds DEF Images
  <2> QED
    BY <2>1, <2>2
<1>2. \A r \in d.rows : r.key = rec.key => rec.key = NoKey
  BY DEF OldIds
<1>3. new.id = i /\ new.key = rec.key /\ new.parts = rec.parts
  OBVIOUS
<1>4. \A r \in e.rows : r = new \/ r \in d.rows
  OBVIOUS
<1> HIDE DEF new
<1>5. Single(e)
  BY <1>2, <1>3, <1>4 DEF Single, Good
<1>6. \A k \in e.kids : \E r \in e.rows : r.id = k[1] /\ k[2] \in 1 .. r.parts
  BY DEF Good, Whole
<1>7. \A r, s \in e.rows : r.id = s.id => r = s
  BY <1>1, <1>3, <1>4 DEF Good, Whole
<1>8. \A r \in e.rows : r.id # i => \A j \in 1 .. r.parts : <<r.id, j>> \in e.kids
  BY <1>3, <1>4 DEF Good, Whole
<1>9. Filling(e, rec, i, 0)
  BY <1>1, <1>3, <1>4, <1>5, <1>6, <1>7, <1>8 DEF Filling
<1> QED
  BY <1>9 DEF new

\* One INSERT into a child table fills the row by one.
LEMMA InsertingKid ==
  ASSUME NEW d \in Images, NEW rec \in Records, StoreAssumption, NEW i \in Nat \ {0},
         NEW m \in Nat, m < rec.parts, Filling(d, rec, i, m)
  PROVE  Filling([d EXCEPT !.kids = @ \cup {<<i, m + 1>>}], rec, i, m + 1)
<1> DEFINE e == [d EXCEPT !.kids = @ \cup {<<i, m + 1>>}]
<1>1. e.rows = d.rows /\ e.kids = d.kids \cup {<<i, m + 1>>}
  BY DEF Images
<1>2. rec.parts \in Nat
  BY DEF Records, StoreAssumption
<1>3. m + 1 \in 1 .. rec.parts
  BY <1>2
<1>4. PICK r \in d.rows : r.id = i /\ r.parts = rec.parts
  BY DEF Filling
<1>5. \A k \in e.kids : \E q \in e.rows : q.id = k[1] /\ k[2] \in 1 .. q.parts
  <2> SUFFICES ASSUME NEW k \in e.kids
               PROVE  \E q \in e.rows : q.id = k[1] /\ k[2] \in 1 .. q.parts
    OBVIOUS
  <2>1. CASE k \in d.kids
    BY <1>1, <2>1 DEF Filling
  <2>2. CASE k = <<i, m + 1>>
    BY <1>1, <1>3, <1>4, <2>2
  <2> QED
    BY <1>1, <2>1, <2>2
<1>6. \A j \in 1 .. m + 1 : <<i, j>> \in e.kids
  <2>1. \A j \in 1 .. m + 1 : j \in 1 .. m \/ j = m + 1
    OBVIOUS
  <2> QED
    BY <1>1, <2>1 DEF Filling
<1> HIDE DEF e
<1>7. Filling(e, rec, i, m + 1)
  BY <1>1, <1>5, <1>6 DEF Filling, Single
<1> QED
  BY <1>7 DEF e

\* A row with all its children is whole: RELEASE leaves a good image.
LEMMA FilledIsGood ==
  ASSUME NEW d \in Images, NEW rec \in Records, NEW i, Filling(d, rec, i, rec.parts)
  PROVE  Good(d)
BY DEF Filling, Good, Whole

-----------------------------------------------------------------------------
(* The inductive invariant.  A record is half written only in the view of  *)
(* the writer that is writing it, and only while add's except block still  *)
(* stands between it and COMMIT; wherever a COMMIT can come next the view  *)
(* is good, and so is what ROLLBACK TO would restore.                      *)

WriterInv(w) ==
  /\ pc[w] = "closed" => lock[w] = "none"
  /\ pc[w] \in {"emptied", "cleared", "filling"} => lock[w] = "reserved"
  /\ pc[w] = "found" /\ lock[w] = "none" => Current(w).key = NoKey
  /\ lock[w] # "none" =>
       /\ pc[w] \in InRecord => Good(save[w])
       /\ pc[w] \in {"ready", "due", "leaving", "found"} => Good(view[w])
       /\ pc[w] = "emptied" => HalfDeleted(view[w], OldIds(view[w], Current(w).key))
       /\ pc[w] = "cleared" => Good(view[w]) /\ OldIds(view[w], Current(w).key) = {}
       /\ pc[w] = "filling" => Filling(view[w], Current(w), pid[w], kid[w])

SafeInv == TypeOK /\ Counting /\ Good(db) /\ \A w \in Writers : WriterInv(w)

\* A writer's part of the invariant speaks of its own variables only.
LEMMA OthersUntouched ==
  ASSUME TypeOK, NEW w \in Writers, NEW v \in Writers, w # v,
         Open(w) \/ Step(w) \/ Interrupt(w) \/ Kill(w)
  PROVE  /\ lock'[v] = lock[v] /\ view'[v] = view[v] /\ save'[v] = save[v]
         /\ pc'[v] = pc[v] /\ job'[v] = job[v] /\ n'[v] = n[v]
         /\ pid'[v] = pid[v] /\ kid'[v] = kid[v]
<1>1. CASE Open(w)
  BY <1>1 DEF TypeOK, Open
<1>2. CASE FindOld(w) \/ DropKids(w) \/ DropRows(w) \/ InsertRow(w)
  BY <1>2 DEF TypeOK, FindOld, DropKids, DropRows, InsertRow
<1>3. CASE InsertKid(w) \/ AddReturns(w) \/ Undo(w)
  BY <1>3 DEF TypeOK, InsertKid, AddReturns, Undo
<1>4. CASE ReleaseFails(w) \/ StatementFails(w) \/ CommitFails(w) \/ CloseFails(w) \/ Kill(w)
  BY <1>4 DEF TypeOK, ReleaseFails, StatementFails, CommitFails, CloseFails, Kill, EndTransaction
<1>5. CASE Commit(w) \/ Close(w)
  BY <1>5 DEF TypeOK, Commit, Close, CommitView, EndTransaction
<1>6. CASE Interrupt(w)
  BY <1>6 DEF TypeOK, Interrupt, InterruptInTry, InterruptOutside, InterruptInClose,
     Unguarded, EndTransaction
<1> QED
  BY <1>1, <1>2, <1>3, <1>4, <1>5, <1>6 DEF Step

\* A COMMIT from where commit() can be reached puts a good image into the file.
LEMMA CommitPublishesGood ==
  ASSUME SafeInv, NEW w \in Writers, pc[w] \in {"ready", "due", "leaving"}, CommitView(w)
  PROVE  Good(db)'
<1>1. lock[w] = "reserved" => Good(view[w])
  BY DEF SafeInv, WriterInv
<1>2. db' = IF lock[w] = "reserved" THEN view[w] ELSE db
  BY DEF CommitView
<1> QED
  BY <1>1, <1>2 DEF SafeInv

\* Only COMMIT changes the file, and it publishes a good image.
LEMMA FileStaysGood ==
  ASSUME SafeInv, [Next]_vars
  PROVE  Good(db)'
<1>1. CASE UNCHANGED vars
  BY <1>1 DEF vars, SafeInv
<1>2. ASSUME NEW w \in Writers, Commit(w) \/ Close(w) PROVE Good(db)'
  <2>1. pc[w] \in {"ready", "due", "leaving"} /\ CommitView(w)
    BY <1>2 DEF Commit, Close
  <2> QED
    BY <2>1, CommitPublishesGood
<1>3. ASSUME NEW w \in Writers, ~Commit(w), ~Close(w),
             Open(w) \/ Step(w) \/ Interrupt(w) \/ Kill(w)
      PROVE  Good(db)'
  <2>1. db' = db
    BY <1>3 DEF Step, Open, FindOld, DropKids, DropRows, InsertRow, InsertKid, AddReturns,
       ReleaseFails, StatementFails, Undo, CommitFails, CloseFails, Interrupt,
       InterruptInTry, InterruptOutside, InterruptInClose, Kill
  <2> QED
    BY <2>1 DEF SafeInv
<1> QED
  BY <1>1, <1>2, <1>3 DEF Next

\* Every step, of the writer itself or of another, keeps a writer's invariant.
LEMMA WriterStep ==
  ASSUME StoreAssumption, ~UndoInterruptible, SafeInv, TypeOK', [Next]_vars,
         NEW v \in Writers
  PROVE  WriterInv(v)'
<1>0. WriterInv(v) /\ TypeOK /\ Counting /\ Good(db)
  BY DEF SafeInv
<1>1. ASSUME NEW w \in Writers, w # v, Open(w) \/ Step(w) \/ Interrupt(w) \/ Kill(w)
      PROVE  WriterInv(v)'
  <2>1. /\ lock'[v] = lock[v] /\ view'[v] = view[v] /\ save'[v] = save[v] /\ pc'[v] = pc[v]
        /\ pid'[v] = pid[v] /\ kid'[v] = kid[v] /\ job'[v] = job[v] /\ n'[v] = n[v]
    BY <1>0, <1>1, OthersUntouched
  <2> QED
    BY <1>0, <2>1 DEF WriterInv, Current
<1>2. CASE UNCHANGED vars
  BY <1>0, <1>2 DEF vars, WriterInv, Current
<1> DEFINE rec == Current(v)
<1>3. CASE Open(v)
  <2>1. lock'[v] = "none" /\ pc'[v] = "ready"
    BY <1>0, <1>3 DEF Open, TypeOK, WriterInv
  <2> QED
    BY <2>1 DEF WriterInv
<1>4. CASE FindOld(v)
  <2>1. /\ pc'[v] = "found" /\ save'[v] = Seen(v) /\ view'[v] = Seen(v)
        /\ lock'[v] = (IF lock[v] = "none" /\ rec.key # NoKey THEN "shared" ELSE lock[v])
        /\ Current(v)' = rec
    BY <1>4 DEF FindOld, TypeOK, Current
  <2>2. Good(Seen(v))
    BY <1>0, <1>4 DEF WriterInv, Seen, FindOld
  <2>3. Good(save[v])' /\ Good(view[v])'
    BY <2>1, <2>2
  <2> QED
    BY <2>1, <2>3 DEF WriterInv
<1>5. CASE DropKids(v)
  <2>1. /\ pc'[v] = "emptied" /\ save'[v] = save[v] /\ lock'[v] = "reserved"
        /\ view'[v] = [view[v] EXCEPT !.kids = {k \in @ : k[1] \notin OldIds(view[v], rec.key)}]
        /\ Current(v)' = rec
    BY <1>5 DEF DropKids, TypeOK, Current
  <2>2. view[v] \in Images /\ Good(view[v]) /\ Good(save[v])
    BY <1>0, <1>5 DEF WriterInv, DropKids, TypeOK, InRecord
  <2>3. HalfDeleted(view'[v], OldIds(view[v], rec.key))
    BY <2>1, <2>2, DroppingKids
  <2>4. OldIds(view'[v], rec.key) = OldIds(view[v], rec.key)
    BY <2>1, <2>2 DEF OldIds, Images
  <2> QED
    BY <2>1, <2>2, <2>3, <2>4 DEF WriterInv
<1>6. CASE DropRows(v)
  <2>1. /\ pc'[v] = "cleared" /\ save'[v] = save[v] /\ lock'[v] = lock[v]
        /\ view'[v] = [view[v] EXCEPT !.rows = {r \in @ : r.id \notin OldIds(view[v], rec.key)}]
        /\ Current(v)' = rec
    BY <1>6 DEF DropRows, TypeOK, Current
  <2>2. /\ view[v] \in Images /\ lock[v] = "reserved" /\ Good(save[v])
        /\ HalfDeleted(view[v], OldIds(view[v], rec.key))
    BY <1>0, <1>6 DEF WriterInv, DropRows, TypeOK, InRecord
  <2>3. Good(view'[v]) /\ OldIds(view'[v], rec.key) = {}
    BY <2>1, <2>2, DroppingRows
  <2> QED
    BY <2>1, <2>2, <2>3 DEF WriterInv
<1>7. CASE InsertRow(v)
  <2>1. rec \in Records
    BY <1>0, <1>7, CurrentIsRecord DEF InsertRow, Counting, InRecord
  <2>2. PICK i \in NextIds(Seen(v).rows) :
          /\ pid'[v] = i
          /\ view'[v] = [rows |-> Seen(v).rows \cup
                           {[id |-> i, key |-> rec.key, ver |-> rec.ver,
                             parts |-> rec.parts]},
                         kids |-> Seen(v).kids]
    BY <1>7 DEF InsertRow, TypeOK
  <2>3. /\ pc'[v] = "filling" /\ lock'[v] = "reserved" /\ kid'[v] = 0
        /\ save'[v] = (IF lock[v] = "none" THEN db ELSE save[v])
        /\ Current(v)' = rec
    BY <1>7 DEF InsertRow, TypeOK, Current
  <2>4. Good(save'[v])
    BY <1>0, <1>7, <2>3 DEF InsertRow, WriterInv, InRecord
  <2>5. Good(Seen(v)) /\ OldIds(Seen(v), rec.key) = {}
    BY <1>0, <1>7 DEF InsertRow, WriterInv, Seen, OldIds
  <2>6. Filling(view'[v], rec, pid'[v], 0)
    BY <2>1, <2>2, <2>5, SeenIsImage, InsertingRow, <1>0
  <2> QED
    BY <2>3, <2>4, <2>6 DEF WriterInv
<1>8. CASE InsertKid(v)
  <2>1. /\ pc'[v] = "filling" /\ lock'[v] = lock[v] /\ kid'[v] = kid[v] + 1
        /\ pid'[v] = pid[v] /\ save'[v] = save[v] /\ Current(v)' = rec
        /\ view'[v] = [view[v] EXCEPT !.kids = @ \cup {<<pid[v], kid[v] + 1>>}]
    BY <1>8 DEF InsertKid, TypeOK, Current
  <2>2. rec \in Records /\ kid[v] < rec.parts
    BY <1>0, <1>8, CurrentIsRecord DEF InsertKid, Counting, InRecord
  <2>3. /\ view[v] \in Images /\ pid[v] \in Nat \ {0} /\ kid[v] \in Nat
        /\ lock[v] = "reserved" /\ Good(save[v]) /\ Filling(view[v], rec, pid[v], kid[v])
    BY <1>0, <1>8 DEF WriterInv, InsertKid, TypeOK, InRecord
  <2>4. Filling(view'[v], rec, pid[v], kid[v] + 1)
    BY <2>1, <2>2, <2>3, InsertingKid
  <2> QED
    BY <2>1, <2>3, <2>4 DEF WriterInv
\* A record whose last child is in leaves a good view behind.
<1>9. ASSUME pc[v] = "filling", kid[v] = rec.parts
      PROVE  Good(view[v]) /\ Good(save[v]) /\ lock[v] = "reserved"
  <2>1. rec \in Records
    BY <1>0, <1>9, CurrentIsRecord DEF Counting, InRecord
  <2>2. /\ view[v] \in Images /\ Filling(view[v], rec, pid[v], rec.parts)
        /\ Good(save[v]) /\ lock[v] = "reserved"
    BY <1>0, <1>9 DEF WriterInv, TypeOK, InRecord
  <2> QED
    BY <2>1, <2>2, FilledIsGood
<1>10. CASE AddReturns(v)
  <2>1. /\ pc'[v] \in {"due", "ready"} /\ view'[v] = view[v] /\ lock'[v] = lock[v]
    BY <1>10 DEF AddReturns, TypeOK
  <2>2. Good(view'[v])
    BY <1>9, <1>10, <2>1 DEF AddReturns
  <2> QED
    BY <2>1, <2>2 DEF WriterInv, InRecord
\* Actions that end the transaction: nothing is left to be wrong.
<1>11. ASSUME lock'[v] = "none", pc'[v] \in {"ready", "due", "leaving", "undo", "closed"}
       PROVE  WriterInv(v)'
  BY <1>11 DEF WriterInv
\* Actions that go to close() with the transaction as it stands.
<1>12. ASSUME pc'[v] = "leaving", view'[v] = view[v], lock'[v] = lock[v],
              lock[v] # "none" => Good(view[v])
       PROVE  WriterInv(v)'
  BY <1>12 DEF WriterInv, InRecord
<1>13. CASE ReleaseFails(v)
  <2>1. Good(view[v])
    BY <1>9, <1>13 DEF ReleaseFails
  <2>2. pc'[v] = "leaving" /\ ((view'[v] = view[v] /\ lock'[v] = lock[v]) \/ lock'[v] = "none")
    BY <1>13 DEF ReleaseFails, EndTransaction, TypeOK
  <2> QED
    BY <1>11, <1>12, <2>1, <2>2
\* Actions that enter the except block: ROLLBACK TO restores a good image.
<1>14. ASSUME pc[v] \in InRecord, pc'[v] = "undo", save'[v] = save[v], lock'[v] = lock[v]
       PROVE  WriterInv(v)'
  BY <1>0, <1>14 DEF WriterInv
<1>15. CASE StatementFails(v)
  <2>1. /\ pc[v] \in InRecord /\ pc'[v] = "undo"
        /\ (save'[v] = save[v] /\ lock'[v] = lock[v]) \/ lock'[v] = "none"
    BY <1>15 DEF StatementFails, EndTransaction, TypeOK, InRecord
  <2> QED
    BY <1>11, <1>14, <2>1
<1>16. CASE Undo(v)
  <2>1. pc'[v] = "leaving" /\ lock'[v] = lock[v] /\ view'[v] = save[v] /\ pc[v] = "undo"
    BY <1>16 DEF Undo, TypeOK
  <2>2. lock[v] # "none" => Good(view'[v])
    BY <1>0, <2>1 DEF WriterInv, InRecord
  <2> QED
    BY <2>1, <2>2 DEF WriterInv, InRecord
<1>17. CASE Commit(v) \/ Close(v) \/ CloseFails(v) \/ Kill(v)
  <2>1. lock'[v] = "none" /\ pc'[v] \in {"ready", "leaving", "closed"}
    BY <1>17 DEF Commit, Close, CloseFails, Kill, CommitView, EndTransaction, TypeOK
  <2> QED
    BY <1>11, <2>1
<1>18. CASE CommitFails(v)
  <2>1. /\ pc[v] \in {"due", "ready"} /\ pc'[v] = "leaving"
        /\ (view'[v] = view[v] /\ lock'[v] = lock[v]) \/ lock'[v] = "none"
    BY <1>18 DEF CommitFails, EndTransaction, TypeOK
  <2>2. lock[v] # "none" => Good(view[v])
    BY <1>0, <2>1 DEF WriterInv
  <2> QED
    BY <1>11, <1>12, <2>1, <2>2
<1>19. CASE Interrupt(v)
  <2>1. CASE InterruptInTry(v)
    <3>1. pc[v] \in InRecord /\ pc'[v] = "undo" /\ save'[v] = save[v] /\ lock'[v] = lock[v]
      BY <2>1 DEF InterruptInTry, TypeOK, InRecord
    <3> QED
      BY <1>14, <3>1
  <2>2. CASE InterruptOutside(v)
    <3>1. pc'[v] = "leaving" /\ view'[v] = view[v] /\ lock'[v] = lock[v]
      BY <2>2 DEF InterruptOutside, TypeOK
    <3>2. lock[v] # "none" => Good(view[v])
      BY <1>0, <1>9, <2>2 DEF InterruptOutside, Unguarded, WriterInv
    <3> QED
      BY <1>12, <3>1, <3>2
  <2>3. CASE InterruptInClose(v)
    <3>1. pc'[v] = "closed" /\ lock'[v] = "none"
      BY <2>3 DEF InterruptInClose, EndTransaction, TypeOK
    <3> QED
      BY <1>11, <3>1
  <2> QED
    BY <1>19, <2>1, <2>2, <2>3 DEF Interrupt
<1> QED
  BY <1>1, <1>2, <1>3, <1>4, <1>5, <1>6, <1>7, <1>8, <1>10, <1>13, <1>15, <1>16, <1>17,
     <1>18, <1>19 DEF Next, Step

\* SafeInv is inductive and holds from the start.
LEMMA SafeInvHolds == ~UndoInterruptible => (Spec => []SafeInv)
<1> SUFFICES ASSUME ~UndoInterruptible PROVE Spec => []SafeInv
  OBVIOUS
<1>1. StoreAssumption
  BY StoreAssumption
<1>2. Init => SafeInv
  <2> SUFFICES ASSUME Init PROVE SafeInv
    OBVIOUS
  <2>1. TypeOK
    BY EmptyIsImage DEF Init, TypeOK, Locks, Places, Results
  <2>2. Counting
    BY DEF Init, Counting, InRecord
  <2>3. Good(db)
    BY EmptyIsGood DEF Init
  <2>4. \A w \in Writers : WriterInv(w)
    BY DEF Init, WriterInv
  <2> QED
    BY <2>1, <2>2, <2>3, <2>4 DEF SafeInv
<1>3. SafeInv /\ [Next]_vars => SafeInv'
  <2> SUFFICES ASSUME SafeInv, [Next]_vars PROVE SafeInv'
    OBVIOUS
  <2>1. TypeOK' /\ Counting'
    BY <1>1, TypeStep, CountingStep DEF SafeInv
  <2>2. Good(db)'
    BY FileStaysGood
  <2>3. \A w \in Writers : WriterInv(w)'
    BY <1>1, <2>1, WriterStep
  <2> QED
    BY <2>1, <2>2, <2>3 DEF SafeInv
<1> QED
  BY <1>2, <1>3, PTL DEF Spec

\* No row without all its children and no child without its row is ever in the
\* file, as long as no Ctrl-C lands inside add's except block (store.py:519-531).
THEOREM AtomicRecords == ~UndoInterruptible => (Spec => []NoPartialRecord)
<1>1. SafeInv => NoPartialRecord
  BY DEF SafeInv, Good, NoPartialRecord
<1> QED
  BY <1>1, SafeInvHolds, PTL

-----------------------------------------------------------------------------
(* One row for each source needs no except block: a record's row goes in only *)
(* where the same transaction saw, or made, its source absent, and what the   *)
(* transaction saw does not change while it lasts.  This holds of transactions *)
(* that an interrupted ROLLBACK TO leaves half done as well.                  *)

SourceInv(w) ==
  /\ pc[w] = "closed" => lock[w] = "none"
  /\ pc[w] \in {"emptied", "cleared", "filling"} => lock[w] = "reserved"
  /\ pc[w] = "found" /\ lock[w] = "none" => Current(w).key = NoKey
  /\ lock[w] # "none" =>
       /\ Single(view[w]) /\ (pc[w] \in InRecord => Single(save[w]))
       /\ pc[w] = "cleared" => OldIds(view[w], Current(w).key) = {}

UniqueInv == TypeOK /\ Counting /\ Single(db) /\ \A w \in Writers : SourceInv(w)

\* Fewer rows are of as many sources at most.
LEMMA FewerSingle ==
  ASSUME NEW d, NEW e, Single(d), e.rows \subseteq d.rows
  PROVE  Single(e)
BY DEF Single

\* A row whose source has none yet is the only one of it.
LEMMA AddedSingle ==
  ASSUME NEW d, NEW rows, NEW kids, NEW row, Single(d), rows = d.rows \cup {row},
         OldIds(d, row.key) = {}
  PROVE  Single([rows |-> rows, kids |-> kids])
BY DEF Single, OldIds

\* Only COMMIT changes the file, and what it publishes has one row for each source.
LEMMA FileStaysSingle ==
  ASSUME UniqueInv, [Next]_vars
  PROVE  Single(db)'
<1>1. CASE UNCHANGED vars
  BY <1>1 DEF vars, UniqueInv
<1>2. ASSUME NEW w \in Writers, Commit(w) \/ Close(w) PROVE Single(db)'
  <2>1. db' = IF lock[w] = "reserved" THEN view[w] ELSE db
    BY <1>2 DEF Commit, Close, CommitView
  <2>2. lock[w] = "reserved" => Single(view[w])
    BY DEF UniqueInv, SourceInv
  <2> QED
    BY <2>1, <2>2 DEF UniqueInv
<1>3. ASSUME NEW w \in Writers, ~Commit(w), ~Close(w),
             Open(w) \/ Step(w) \/ Interrupt(w) \/ Kill(w)
      PROVE  Single(db)'
  <2>1. db' = db
    BY <1>3 DEF Step, Open, FindOld, DropKids, DropRows, InsertRow, InsertKid, AddReturns,
       ReleaseFails, StatementFails, Undo, CommitFails, CloseFails, Interrupt,
       InterruptInTry, InterruptOutside, InterruptInClose, Kill
  <2> QED
    BY <2>1 DEF UniqueInv
<1> QED
  BY <1>1, <1>2, <1>3 DEF Next

\* Every step, of the writer itself or of another, keeps what its transaction holds single.
LEMMA SourceStep ==
  ASSUME StoreAssumption, UniqueInv, TypeOK', [Next]_vars, NEW v \in Writers
  PROVE  SourceInv(v)'
<1>0. SourceInv(v) /\ TypeOK /\ Counting /\ Single(db)
  BY DEF UniqueInv
<1>1. ASSUME NEW w \in Writers, w # v, Open(w) \/ Step(w) \/ Interrupt(w) \/ Kill(w)
      PROVE  SourceInv(v)'
  <2>1. /\ lock'[v] = lock[v] /\ view'[v] = view[v] /\ save'[v] = save[v] /\ pc'[v] = pc[v]
        /\ job'[v] = job[v] /\ n'[v] = n[v]
    BY <1>0, <1>1, OthersUntouched
  <2> QED
    BY <1>0, <2>1 DEF SourceInv, Current
<1>2. CASE UNCHANGED vars
  BY <1>0, <1>2 DEF vars, SourceInv, Current
<1> DEFINE rec == Current(v)
<1>3. Single(Seen(v)) /\ Seen(v) \in Images
  BY <1>0, SeenIsImage DEF SourceInv, Seen
\* Actions that end the transaction: nothing is left to hold two rows.
<1>4. ASSUME lock'[v] = "none", pc'[v] \in {"ready", "due", "leaving", "undo", "closed"}
      PROVE  SourceInv(v)'
  BY <1>4 DEF SourceInv
\* Actions that go elsewhere with the transaction as it stands.
<1>5. ASSUME view'[v] = view[v], save'[v] = save[v], lock'[v] = lock[v],
             pc'[v] \in {"ready", "due", "leaving", "undo"},
             pc'[v] = "undo" => pc[v] \in InRecord
      PROVE  SourceInv(v)'
  BY <1>0, <1>5 DEF SourceInv, InRecord
<1>6. CASE Open(v)
  <2>1. lock'[v] = "none" /\ pc'[v] = "ready"
    BY <1>0, <1>6 DEF Open, TypeOK, SourceInv
  <2> QED
    BY <1>4, <2>1
<1>7. CASE FindOld(v)
  <2>1. /\ pc'[v] = "found" /\ save'[v] = Seen(v) /\ view'[v] = Seen(v)
        /\ lock'[v] = (IF lock[v] = "none" /\ rec.key # NoKey THEN "shared" ELSE lock[v])
        /\ Current(v)' = rec
    BY <1>7 DEF FindOld, TypeOK, Current
  <2> QED
    BY <1>3, <2>1 DEF SourceInv
<1>8. CASE DropKids(v)
  <2>1. /\ pc'[v] = "emptied" /\ save'[v] = save[v] /\ lock'[v] = "reserved"
        /\ view'[v] = [view[v] EXCEPT !.kids = {k \in @ : k[1] \notin OldIds(view[v], rec.key)}]
    BY <1>8 DEF DropKids, TypeOK
  <2>2. Single(view[v]) /\ Single(save[v]) /\ view[v] \in Images
    BY <1>0, <1>8 DEF SourceInv, DropKids, InRecord, TypeOK
  <2>3. view'[v].rows = view[v].rows
    BY <2>1, <2>2 DEF Images
  <2>4. Single(view'[v])
    BY <2>2, <2>3, FewerSingle
  <2> QED
    BY <2>1, <2>2, <2>4 DEF SourceInv
<1>9. CASE DropRows(v)
  <2>1. /\ pc'[v] = "cleared" /\ save'[v] = save[v] /\ lock'[v] = lock[v]
        /\ view'[v] = [view[v] EXCEPT !.rows = {r \in @ : r.id \notin OldIds(view[v], rec.key)}]
        /\ Current(v)' = rec
    BY <1>9 DEF DropRows, TypeOK, Current
  <2>2. Single(view[v]) /\ Single(save[v]) /\ lock[v] = "reserved" /\ view[v] \in Images
    BY <1>0, <1>9 DEF SourceInv, DropRows, InRecord, TypeOK
  <2>3. view'[v].rows = {r \in view[v].rows : r.id \notin OldIds(view[v], rec.key)}
    BY <2>1, <2>2 DEF Images
  <2>4. Single(view'[v])
    BY <2>2, <2>3, FewerSingle
  <2>5. OldIds(view'[v], rec.key) = {}
    BY <2>3 DEF OldIds
  <2> QED
    BY <2>1, <2>2, <2>4, <2>5 DEF SourceInv
<1>10. CASE InsertRow(v)
  <2>1. PICK i \in NextIds(Seen(v).rows) :
          view'[v] = [rows |-> Seen(v).rows \cup
                        {[id |-> i, key |-> rec.key, ver |-> rec.ver, parts |-> rec.parts]},
                      kids |-> Seen(v).kids]
    BY <1>10 DEF InsertRow, TypeOK
  <2>2. /\ pc'[v] = "filling" /\ lock'[v] = "reserved"
        /\ save'[v] = (IF lock[v] = "none" THEN db ELSE save[v])
    BY <1>10 DEF InsertRow, TypeOK
  <2>3. Single(save'[v])
    BY <1>0, <1>10, <2>2 DEF InsertRow, SourceInv, InRecord
  <2>4. OldIds(Seen(v), rec.key) = {}
    BY <1>0, <1>10 DEF InsertRow, SourceInv, Seen, OldIds
  <2>5. Single(view'[v])
    <3> DEFINE row == [id |-> i, key |-> rec.key, ver |-> rec.ver, parts |-> rec.parts]
    <3>1. OldIds(Seen(v), row.key) = {}
      BY <2>4
    <3> HIDE DEF row
    <3>2. Single([rows |-> Seen(v).rows \cup {row}, kids |-> Seen(v).kids])
      BY <1>3, <3>1, AddedSingle
    <3> QED
      BY <2>1, <3>2 DEF row
  <2> QED
    BY <2>2, <2>3, <2>5 DEF SourceInv
<1>11. CASE InsertKid(v)
  <2>1. /\ pc'[v] = "filling" /\ lock'[v] = lock[v] /\ save'[v] = save[v]
        /\ view'[v] = [view[v] EXCEPT !.kids = @ \cup {<<pid[v], kid[v] + 1>>}]
    BY <1>11 DEF InsertKid, TypeOK
  <2>2. Single(view[v]) /\ Single(save[v]) /\ lock[v] = "reserved" /\ view[v] \in Images
    BY <1>0, <1>11 DEF SourceInv, InsertKid, InRecord, TypeOK
  <2>3. view'[v].rows = view[v].rows
    BY <2>1, <2>2 DEF Images
  <2>4. Single(view'[v])
    BY <2>2, <2>3, FewerSingle
  <2> QED
    BY <2>1, <2>2, <2>4 DEF SourceInv
<1>12. CASE AddReturns(v)
  BY <1>5, <1>12 DEF AddReturns, TypeOK
<1>13. CASE ReleaseFails(v) \/ StatementFails(v) \/ CommitFails(v)
  <2>1. /\ pc'[v] \in {"leaving", "undo"} /\ (pc'[v] = "undo" => pc[v] \in InRecord)
        /\ \/ view'[v] = view[v] /\ save'[v] = save[v] /\ lock'[v] = lock[v]
           \/ lock'[v] = "none"
    BY <1>13 DEF ReleaseFails, StatementFails, CommitFails, EndTransaction, TypeOK, InRecord
  <2> QED
    BY <1>4, <1>5, <2>1
<1>14. CASE Undo(v)
  <2>1. pc'[v] = "leaving" /\ lock'[v] = lock[v] /\ view'[v] = save[v] /\ pc[v] = "undo"
    BY <1>14 DEF Undo, TypeOK
  <2>2. lock[v] # "none" => Single(view'[v])
    BY <1>0, <2>1 DEF SourceInv, InRecord
  <2> QED
    BY <2>1, <2>2 DEF SourceInv, InRecord
<1>15. CASE Commit(v) \/ Close(v) \/ CloseFails(v) \/ Kill(v)
  <2>1. lock'[v] = "none" /\ pc'[v] \in {"ready", "leaving", "closed"}
    BY <1>15 DEF Commit, Close, CloseFails, Kill, CommitView, EndTransaction, TypeOK
  <2> QED
    BY <1>4, <2>1
<1>16. CASE Interrupt(v)
  <2>1. CASE InterruptInTry(v) \/ InterruptOutside(v)
    <3>1. /\ pc'[v] \in {"leaving", "undo"} /\ (pc'[v] = "undo" => pc[v] \in InRecord)
          /\ view'[v] = view[v] /\ save'[v] = save[v] /\ lock'[v] = lock[v]
      BY <2>1 DEF InterruptInTry, InterruptOutside, TypeOK, InRecord
    <3> QED
      BY <1>5, <3>1
  <2>2. CASE InterruptInClose(v)
    <3>1. pc'[v] = "closed" /\ lock'[v] = "none"
      BY <2>2 DEF InterruptInClose, EndTransaction, TypeOK
    <3> QED
      BY <1>4, <3>1
  <2> QED
    BY <1>16, <2>1, <2>2 DEF Interrupt
<1> QED
  BY <1>1, <1>2, <1>6, <1>7, <1>8, <1>9, <1>10, <1>11, <1>12, <1>13, <1>14, <1>15, <1>16
     DEF Next, Step

\* Ingest is idempotent per source path, for any number of processes ingesting
\* any files at once (store.py:509-512), wherever a Ctrl-C lands: also when it lands in
\* add's except block, which may leave half a record but never a second one.
THEOREM IdempotentIngest == Spec => []OneRowPerSource
<1>1. Init => UniqueInv
  <2> SUFFICES ASSUME Init PROVE UniqueInv
    OBVIOUS
  <2>1. TypeOK
    BY EmptyIsImage DEF Init, TypeOK, Locks, Places, Results
  <2>2. Counting
    BY DEF Init, Counting, InRecord
  <2>3. Single(db) /\ \A w \in Writers : SourceInv(w)
    BY DEF Init, Single, Empty, SourceInv
  <2> QED
    BY <2>1, <2>2, <2>3 DEF UniqueInv
<1>2. UniqueInv /\ [Next]_vars => UniqueInv'
  <2> SUFFICES ASSUME UniqueInv, [Next]_vars PROVE UniqueInv'
    OBVIOUS
  <2>1. TypeOK' /\ Counting'
    BY StoreAssumption, TypeStep, CountingStep DEF UniqueInv
  <2> QED
    BY <2>1, StoreAssumption, FileStaysSingle, SourceStep DEF UniqueInv
<1>3. UniqueInv => OneRowPerSource
  BY DEF UniqueInv, OneRowPerSource
<1> QED
  BY <1>1, <1>2, <1>3, PTL DEF Spec

-----------------------------------------------------------------------------
(* What is in the file stays: a second invariant relates each open          *)
(* transaction to the file it will overwrite.  It holds because a COMMIT of *)
(* changes waits until no other connection has a snapshot (CanCommit), so   *)
(* no transaction can be built on a file that has moved on.                 *)

NoLoss(d, e) == \A r \in d.rows \ e.rows : Replaced(r, e)

\* Between DELETE and INSERT only rows of the current source are missing.
NoLossBut(d, e, key) ==
  \A r \in d.rows \ e.rows : Replaced(r, e) \/ (r.key = key /\ r.key # NoKey)

KeepsInv(w) ==
  lock[w] # "none" =>
    /\ pc[w] \in InRecord => NoLoss(db, save[w])
    /\ pc[w] \in {"ready", "due", "leaving", "found", "emptied", "filling"} =>
         NoLoss(db, view[w])
    /\ pc[w] = "cleared" => NoLossBut(db, view[w], Current(w).key)

KeptInv == \A w \in Writers : KeepsInv(w)

\* The file changes under no open transaction but the one that commits.
LEMMA FileMovesAlone ==
  ASSUME SafeInv, NEW w \in Writers, NEW v \in Writers, w # v, lock[v] # "none",
         Open(w) \/ Step(w) \/ Interrupt(w) \/ Kill(w)
  PROVE  db' = db
<1>1. CASE Commit(w) \/ Close(w)
  BY <1>1 DEF Commit, Close, CommitView, CanCommit
<1>2. CASE ~Commit(w) /\ ~Close(w)
  BY <1>2 DEF Step, Open, FindOld, DropKids, DropRows, InsertRow, InsertKid, AddReturns,
     ReleaseFails, StatementFails, Undo, CommitFails, CloseFails, Interrupt,
     InterruptInTry, InterruptOutside, InterruptInClose, Kill
<1> QED
  BY <1>1, <1>2

\* _delete loses, against the file, no row but those of the record's key.
LEMMA DeletingKeeps ==
  ASSUME NEW d \in Images, NEW e \in Images, NEW key, NoLoss(d, e),
         \A r, s \in e.rows : r.id = s.id => r = s
  PROVE  NoLossBut(d, [e EXCEPT !.rows = {r \in @ : r.id \notin OldIds(e, key)}], key)
<1> DEFINE f == [e EXCEPT !.rows = {r \in @ : r.id \notin OldIds(e, key)}]
<1>1. f.rows = {r \in e.rows : r.id \notin OldIds(e, key)}
  BY DEF Images
<1>2. \A r \in e.rows \ f.rows : r.key = key /\ r.key # NoKey
  BY <1>1 DEF OldIds
<1>3. ASSUME NEW r \in d.rows \ f.rows PROVE Replaced(r, f) \/ (r.key = key /\ r.key # NoKey)
  <2>1. CASE r \in e.rows
    BY <1>2, <1>3, <2>1
  <2>2. CASE r \notin e.rows
    <3>1. PICK s \in e.rows : s.key = r.key /\ r.key # NoKey
      BY <1>3, <2>2 DEF NoLoss, Replaced
    <3> QED
      BY <1>2, <3>1 DEF Replaced
  <2> QED
    BY <2>1, <2>2
<1> QED
  BY <1>3 DEF NoLossBut

\* The INSERT that follows makes good for what _delete removed.
LEMMA InsertingKeeps ==
  ASSUME NEW d, NEW e, NEW f, NEW new \in f.rows, f.rows = e.rows \cup {new},
         NoLossBut(d, e, new.key)
  PROVE  NoLoss(d, f)
BY DEF NoLoss, NoLossBut, Replaced

\* Every step keeps what a writer's transaction owes to the file.
LEMMA KeepsStep ==
  ASSUME ~UndoInterruptible, SafeInv, KeptInv, [Next]_vars, NEW v \in Writers
  PROVE  KeepsInv(v)'
<1>0. KeepsInv(v) /\ TypeOK /\ WriterInv(v)
  BY DEF KeptInv, SafeInv
<1>1. ASSUME NEW w \in Writers, w # v, Open(w) \/ Step(w) \/ Interrupt(w) \/ Kill(w)
      PROVE  KeepsInv(v)'
  <2>1. /\ lock'[v] = lock[v] /\ view'[v] = view[v] /\ save'[v] = save[v] /\ pc'[v] = pc[v]
        /\ job'[v] = job[v] /\ n'[v] = n[v]
    BY <1>0, <1>1, OthersUntouched
  <2>2. lock[v] # "none" => db' = db
    BY <1>1, FileMovesAlone
  <2> QED
    BY <1>0, <2>1, <2>2 DEF KeepsInv, Current
<1>2. CASE UNCHANGED vars
  BY <1>0, <1>2 DEF vars, KeepsInv, Current
<1>3. CASE Open(v) \/ Commit(v) \/ Close(v) \/ CloseFails(v) \/ Kill(v)
  <2>1. lock'[v] = "none"
    BY <1>0, <1>3 DEF Open, Commit, Close, CloseFails, Kill, CommitView, EndTransaction,
       TypeOK, WriterInv
  <2> QED
    BY <2>1 DEF KeepsInv
<1>4. CASE FindOld(v)
  <2>1. /\ pc'[v] = "found" /\ save'[v] = Seen(v) /\ view'[v] = Seen(v) /\ db' = db
    BY <1>0, <1>4 DEF FindOld, TypeOK
  <2>2. NoLoss(db, Seen(v))
    BY <1>0, <1>4 DEF KeepsInv, Seen, NoLoss, FindOld
  <2> QED
    BY <2>1, <2>2 DEF KeepsInv
<1>5. CASE DropKids(v)
  <2>1. /\ pc[v] = "found" /\ lock[v] # "none" /\ pc'[v] = "emptied" /\ save'[v] = save[v]
        /\ db' = db /\ view'[v].rows = view[v].rows
    BY <1>0, <1>5 DEF DropKids, TypeOK, Images
  <2>2. NoLoss(db, save[v]) /\ NoLoss(db, view[v])
    BY <1>0, <2>1 DEF KeepsInv, InRecord
  <2>3. NoLoss(db, view'[v])
    BY <2>1, <2>2 DEF NoLoss, Replaced
  <2> QED
    BY <2>1, <2>2, <2>3 DEF KeepsInv
<1>6. CASE DropRows(v)
  <2>1. /\ pc[v] = "emptied" /\ pc'[v] = "cleared" /\ save'[v] = save[v]
        /\ db' = db /\ Current(v)' = Current(v) /\ lock[v] = "reserved"
        /\ view'[v] = [view[v] EXCEPT !.rows =
                         {r \in @ : r.id \notin OldIds(view[v], Current(v).key)}]
    BY <1>0, <1>6 DEF DropRows, TypeOK, WriterInv, Current
  <2>2. /\ NoLoss(db, save[v]) /\ NoLoss(db, view[v]) /\ view[v] \in Images /\ db \in Images
        /\ \A r, s \in view[v].rows : r.id = s.id => r = s
    BY <1>0, <2>1 DEF KeepsInv, InRecord, WriterInv, HalfDeleted, TypeOK
  <2>3. NoLossBut(db, view'[v], Current(v).key)
    BY <2>1, <2>2, DeletingKeeps
  <2> QED
    BY <2>1, <2>2, <2>3 DEF KeepsInv
<1>7. CASE InsertRow(v)
  <2>1. PICK i \in NextIds(Seen(v).rows) :
          view'[v] = [rows |-> Seen(v).rows \cup
                        {[id |-> i, key |-> Current(v).key, ver |-> Current(v).ver,
                          parts |-> Current(v).parts]},
                      kids |-> Seen(v).kids]
    BY <1>0, <1>7 DEF InsertRow, TypeOK
  <2>2. /\ pc'[v] = "filling" /\ db' = db
        /\ save'[v] = (IF lock[v] = "none" THEN db ELSE save[v])
    BY <1>0, <1>7 DEF InsertRow, TypeOK
  <2>3. NoLossBut(db, Seen(v), Current(v).key)
    BY <1>0, <1>7 DEF InsertRow, KeepsInv, NoLoss, NoLossBut, Seen
  <2>4. NoLoss(db, view'[v])
    <3> DEFINE new == [id |-> i, key |-> Current(v).key, ver |-> Current(v).ver,
                       parts |-> Current(v).parts]
    <3>1. view'[v].rows = Seen(v).rows \cup {new} /\ new.key = Current(v).key
      BY <2>1
    <3> HIDE DEF new
    <3> QED
      BY <2>3, <3>1, InsertingKeeps
  <2>5. NoLoss(db, save'[v])
    BY <1>0, <1>7, <2>2 DEF InsertRow, KeepsInv, InRecord, NoLoss
  <2> QED
    BY <2>2, <2>4, <2>5 DEF KeepsInv
<1>8. CASE InsertKid(v)
  <2>1. /\ pc[v] = "filling" /\ pc'[v] = "filling" /\ save'[v] = save[v] /\ db' = db
        /\ view'[v].rows = view[v].rows /\ lock[v] # "none"
    BY <1>0, <1>8 DEF InsertKid, TypeOK, Images, WriterInv
  <2>2. NoLoss(db, save[v]) /\ NoLoss(db, view[v])
    BY <1>0, <2>1 DEF KeepsInv, InRecord
  <2>3. NoLoss(db, view'[v])
    BY <2>1, <2>2 DEF NoLoss, Replaced
  <2> QED
    BY <2>1, <2>2, <2>3 DEF KeepsInv
<1>9. CASE AddReturns(v) \/ ReleaseFails(v) \/ CommitFails(v)
  <2>1. /\ pc[v] \in {"filling", "due", "ready"} /\ pc'[v] \in {"due", "ready", "leaving"} /\ db' = db
        /\ (view'[v] = view[v] /\ lock'[v] = lock[v]) \/ lock'[v] = "none"
    BY <1>0, <1>9 DEF AddReturns, ReleaseFails, CommitFails, EndTransaction, TypeOK
  <2> QED
    BY <1>0, <2>1 DEF KeepsInv, InRecord
<1>10. CASE StatementFails(v)
  <2>1. /\ pc[v] \in InRecord /\ pc'[v] = "undo" /\ db' = db
        /\ (save'[v] = save[v] /\ lock'[v] = lock[v]) \/ lock'[v] = "none"
    BY <1>0, <1>10 DEF StatementFails, EndTransaction, TypeOK, InRecord
  <2> QED
    BY <1>0, <2>1 DEF KeepsInv
<1>11. CASE Undo(v)
  <2>1. /\ pc[v] = "undo" /\ pc'[v] = "leaving" /\ db' = db /\ view'[v] = save[v]
        /\ lock'[v] = lock[v]
    BY <1>0, <1>11 DEF Undo, TypeOK
  <2> QED
    BY <1>0, <2>1 DEF KeepsInv, InRecord
<1>12. CASE Interrupt(v)
  <2>1. CASE InterruptInTry(v)
    <3>1. /\ pc[v] \in InRecord /\ pc'[v] = "undo" /\ save'[v] = save[v] /\ lock'[v] = lock[v]
          /\ db' = db
      BY <1>0, <2>1 DEF InterruptInTry, TypeOK, InRecord
    <3> QED
      BY <1>0, <3>1 DEF KeepsInv
  <2>2. CASE InterruptOutside(v)
    <3>1. /\ pc[v] \in {"ready", "due", "filling"} /\ pc'[v] = "leaving" /\ view'[v] = view[v]
          /\ lock'[v] = lock[v] /\ db' = db
      BY <1>0, <2>2 DEF InterruptOutside, Unguarded, TypeOK
    <3> QED
      BY <1>0, <3>1 DEF KeepsInv, InRecord
  <2>3. CASE InterruptInClose(v)
    <3>1. lock'[v] = "none"
      BY <1>0, <2>3 DEF InterruptInClose, EndTransaction, TypeOK
    <3> QED
      BY <3>1 DEF KeepsInv
  <2> QED
    BY <1>12, <2>1, <2>2, <2>3 DEF Interrupt
<1> QED
  BY <1>1, <1>2, <1>3, <1>4, <1>5, <1>6, <1>7, <1>8, <1>9, <1>10, <1>11, <1>12 DEF Next, Step

\* Under both invariants a step that removes a row from the file replaces it.
LEMMA NothingLostStep ==
  ASSUME SafeInv, KeptInv, [Next]_vars
  PROVE  \A r \in db.rows \ db'.rows : Replaced(r, db')
<1>1. CASE db' = db
  BY <1>1
<1>2. ASSUME NEW w \in Writers, Commit(w) \/ Close(w)
      PROVE  \A r \in db.rows \ db'.rows : Replaced(r, db')
  <2>1. pc[w] \in {"ready", "due", "leaving"} /\ (db' = IF lock[w] = "reserved" THEN view[w] ELSE db)
    BY <1>2 DEF Commit, Close, CommitView
  <2>2. lock[w] = "reserved" => NoLoss(db, view[w])
    BY <2>1 DEF KeptInv, KeepsInv
  <2> QED
    BY <2>1, <2>2 DEF NoLoss
<1>3. ASSUME NEW w \in Writers, ~Commit(w), ~Close(w),
             Open(w) \/ Step(w) \/ Interrupt(w) \/ Kill(w)
      PROVE  db' = db
  BY <1>3 DEF Step, Open, FindOld, DropKids, DropRows, InsertRow, InsertKid, AddReturns,
     ReleaseFails, StatementFails, Undo, CommitFails, CloseFails, Interrupt,
     InterruptInTry, InterruptOutside, InterruptInClose, Kill
<1>4. CASE UNCHANGED vars
  BY <1>1, <1>4 DEF vars
<1> QED
  BY <1>1, <1>2, <1>3, <1>4 DEF Next

\* KeptInv is inductive beside SafeInv and holds from the start.
LEMMA KeptInvHolds == ~UndoInterruptible => (Spec => []KeptInv)
<1> SUFFICES ASSUME ~UndoInterruptible PROVE Spec => []KeptInv
  OBVIOUS
<1>1. Init => KeptInv
  BY DEF Init, KeptInv, KeepsInv
<1>2. SafeInv /\ KeptInv /\ [Next]_vars => KeptInv'
  BY KeepsStep DEF KeptInv
<1> QED
  BY <1>1, <1>2, SafeInvHolds, PTL DEF Spec

\* A row leaves the file only together with the arrival of another row of the
\* same source, whatever the writers, failures and crashes: a failed re-ingest
\* keeps the old version, and no writer overwrites what it has not seen.
THEOREM NoRowLost == ~UndoInterruptible => (Spec => NothingLost)
<1>1. SafeInv /\ KeptInv /\ [Next]_vars => [\A r \in db.rows \ db'.rows : Replaced(r, db')]_vars
  BY NothingLostStep
<1> QED
  BY <1>1, SafeInvHolds, KeptInvHolds, PTL DEF Spec, NothingLost

-----------------------------------------------------------------------------
(* The store implements the ledger.  The file's rows are finitely many, so  *)
(* the ledger can count the ones without a source; all of them are whole,   *)
(* so each is an entry; and none leaves without a successor, so no source   *)
(* loses its entry and no count falls.                                      *)

FiniteInv ==
  /\ IsFiniteSet(db.rows)
  /\ \A w \in Writers : IsFiniteSet(view[w].rows) /\ IsFiniteSet(save[w].rows)

\* What a step makes of a connection's images: part of an image there was, or one
\* more row.
LEMMA ImagesStep ==
  ASSUME TypeOK, NEW w \in Writers, Open(w) \/ Step(w) \/ Interrupt(w) \/ Kill(w)
  PROVE  /\ db' \in {db, view[w]}
         /\ save'[w] \in {save[w], Empty, db, view[w]}
         /\ \/ view'[w].rows \subseteq view[w].rows
            \/ view'[w] \in {db, save[w], Empty}
            \/ \E row : view'[w].rows = Seen(w).rows \cup {row}
<1>1. CASE Open(w) \/ AddReturns(w)
  BY <1>1 DEF Open, AddReturns
<1>2. CASE FindOld(w)
  BY <1>2 DEF TypeOK, FindOld, Seen
<1>3. CASE DropKids(w) \/ DropRows(w) \/ InsertKid(w)
  <2>1. db' = db /\ save'[w] = save[w]
    BY <1>3 DEF DropKids, DropRows, InsertKid
  <2>2. CASE DropKids(w) \/ InsertKid(w)
    <3>1. view[w] \in Images /\ DOMAIN view = Writers
      BY DEF TypeOK
    <3>2. \E kids : view'[w] = [view[w] EXCEPT !.kids = kids]
      <4>1. CASE DropKids(w)
        BY <3>1, <4>1 DEF DropKids
      <4>2. CASE InsertKid(w)
        BY <3>1, <4>2 DEF InsertKid
      <4> QED
        BY <2>2, <4>1, <4>2
    <3>3. view'[w].rows = view[w].rows
      BY <3>1, <3>2 DEF Images
    <3> QED
      BY <2>1, <3>3
  <2>3. CASE DropRows(w)
    BY <2>1, <2>3 DEF TypeOK, Images, DropRows
  <2> QED
    BY <1>3, <2>2, <2>3
<1>4. CASE InsertRow(w)
  <2>1. PICK i \in NextIds(Seen(w).rows) :
          view'[w] = [rows |-> Seen(w).rows \cup
                        {[id |-> i, key |-> Current(w).key, ver |-> Current(w).ver,
                          parts |-> Current(w).parts]},
                      kids |-> Seen(w).kids]
    BY <1>4 DEF InsertRow, TypeOK
  <2>2. \E row : view'[w].rows = Seen(w).rows \cup {row}
    <3> DEFINE new == [id |-> i, key |-> Current(w).key, ver |-> Current(w).ver,
                       parts |-> Current(w).parts]
    <3>1. view'[w].rows = Seen(w).rows \cup {new}
      BY <2>1
    <3> HIDE DEF new
    <3> QED
      BY <3>1
  <2> QED
    BY <1>4, <2>2 DEF InsertRow, TypeOK
<1>5. CASE ReleaseFails(w) \/ StatementFails(w) \/ CommitFails(w) \/ CloseFails(w) \/ Kill(w)
  BY <1>5 DEF TypeOK, ReleaseFails, StatementFails, CommitFails, CloseFails, Kill, EndTransaction
<1>6. CASE Undo(w)
  BY <1>6 DEF TypeOK, Undo
<1>7. CASE Commit(w) \/ Close(w)
  BY <1>7 DEF TypeOK, Commit, Close, CommitView, EndTransaction
<1>8. CASE Interrupt(w)
  BY <1>8 DEF TypeOK, Interrupt, InterruptInTry, InterruptOutside, InterruptInClose, EndTransaction
<1> QED
  BY <1>1, <1>2, <1>3, <1>4, <1>5, <1>6, <1>7, <1>8 DEF Step

\* Every step keeps the images finite.
LEMMA FiniteStep ==
  ASSUME TypeOK, FiniteInv, [Next]_vars
  PROVE  FiniteInv'
<1>1. CASE UNCHANGED vars
  BY <1>1 DEF vars, FiniteInv
<1>2. ASSUME NEW w \in Writers, Open(w) \/ Step(w) \/ Interrupt(w) \/ Kill(w)
      PROVE  FiniteInv'
  <2>0. IsFiniteSet(Empty.rows)
    BY FS_EmptySet DEF Empty
  <2>1. /\ IsFiniteSet(db.rows) /\ IsFiniteSet(view[w].rows) /\ IsFiniteSet(save[w].rows)
        /\ IsFiniteSet(Seen(w).rows)
    BY DEF FiniteInv, Seen
  <2>2. IsFiniteSet(db'.rows) /\ IsFiniteSet(save'[w].rows)
    BY <1>2, <2>0, <2>1, ImagesStep
  <2>3. IsFiniteSet(view'[w].rows)
    <3>1. CASE view'[w].rows \subseteq view[w].rows
      BY <2>1, <3>1, FS_Subset
    <3>2. CASE view'[w] \in {db, save[w], Empty}
      BY <2>0, <2>1, <3>2
    <3>3. ASSUME NEW row, view'[w].rows = Seen(w).rows \cup {row} PROVE IsFiniteSet(view'[w].rows)
      BY <2>1, <3>3, FS_AddElement
    <3> QED
      BY <1>2, <3>1, <3>2, <3>3, ImagesStep
  <2>4. ASSUME NEW v \in Writers, v # w
        PROVE  IsFiniteSet(view'[v].rows) /\ IsFiniteSet(save'[v].rows)
    BY <1>2, <2>4, OthersUntouched DEF FiniteInv
  <2> QED
    BY <2>2, <2>3, <2>4 DEF FiniteInv
<1> QED
  BY <1>1, <1>2 DEF Next

\* A step of the store is a step of the ledger, or changes nothing there.
LEMMA LedgerStep ==
  ASSUME StoreAssumption, AbsentAssumption, SafeInv, KeptInv, FiniteInv,
         SafeInv', FiniteInv', [Next]_vars
  PROVE  L!Publish
<1>1. /\ db \in Images /\ Whole(db) /\ IsFiniteSet(db.rows)
      /\ (db \in Images)' /\ Whole(db)' /\ IsFiniteSet(db'.rows)
  BY DEF SafeInv, TypeOK, Good, FiniteInv
<1>2. \A r \in db.rows : Complete(r)
  BY <1>1 DEF Whole, Complete
<1>3. \A r \in db'.rows : Complete(r)'
  BY <1>1 DEF Whole, Complete
<1>4. \A r \in db.rows \ db'.rows : Replaced(r, db')
  BY NothingLostStep
<1>5. ASSUME NEW k \in Keys
      PROVE  /\ LatestOf(k)' \in Versions \cup {Absent}
             /\ LatestOf(k) # Absent => LatestOf(k)' # Absent
  <2>1. LatestOf(k)' \in Versions \cup {Absent}
    <3>1. WholeRows(k)' # {} => (CHOOSE r \in WholeRows(k)' : TRUE) \in WholeRows(k)'
      OBVIOUS
    <3>2. \A r \in WholeRows(k)' : r.ver \in Versions
      BY <1>1 DEF WholeRows, Images, Rows
    <3> QED
      BY <3>1, <3>2 DEF LatestOf
  <2>2. ASSUME LatestOf(k) # Absent PROVE LatestOf(k)' # Absent
    <3>1. PICK r \in db.rows : r.key = k
      BY <2>2 DEF LatestOf, WholeRows
    <3>2. PICK s \in db'.rows : s.key = k
      BY <1>4, <3>1 DEF Replaced
    <3>3. s \in WholeRows(k)'
      BY <1>3, <3>2 DEF WholeRows
    <3>4. (CHOOSE q \in WholeRows(k)' : TRUE) \in WholeRows(k)'
      BY <3>3
    <3>5. (CHOOSE q \in WholeRows(k)' : TRUE).ver \in Versions
      BY <1>1, <3>4 DEF WholeRows, Images, Rows
    <3> QED
      BY <3>3, <3>5, AbsentAssumption DEF LatestOf, AbsentAssumption
  <2> QED
    BY <2>1, <2>2
<1> DEFINE Anonymous(v) == {r \in WholeRows(NoKey) : r.ver = v}
<1>6. ASSUME NEW v \in Versions
      PROVE  /\ Cardinality(Anonymous(v))' \in Nat
             /\ Cardinality(Anonymous(v))' >= Cardinality(Anonymous(v))
  <2>1. Anonymous(v)' \subseteq db'.rows
    BY DEF WholeRows
  <2>2. Anonymous(v) \subseteq Anonymous(v)'
    <3>1. ASSUME NEW r \in Anonymous(v) PROVE r \in Anonymous(v)'
      <4>1. r \in db.rows /\ r.key = NoKey /\ r.ver = v
        BY DEF WholeRows
      <4>2. r \in db'.rows
        BY <1>4, <4>1 DEF Replaced
      <4> QED
        BY <1>3, <4>1, <4>2 DEF WholeRows
    <3> QED
      BY <3>1
  <2> HIDE DEF Anonymous
  <2>3. IsFiniteSet(Anonymous(v)')
    BY <1>1, <2>1, FS_Subset
  <2>4. /\ Cardinality(Anonymous(v)') \in Nat
        /\ Cardinality(Anonymous(v)) \in Nat
        /\ Cardinality(Anonymous(v)) <= Cardinality(Anonymous(v)')
    BY <2>2, <2>3, FS_Subset, FS_CardinalityType
  <2> QED
    BY <2>4
<1> QED
  BY <1>5, <1>6 DEF L!Publish

\* Whatever the writers do and whatever fails, a reader of the file sees a ledger:
\* whole batches of whole records published at once, no source ever without a record
\* it had, records that name no source only added.
THEOREM StoreIsLedger == ~UndoInterruptible => (Spec => ImplementsLedger)
<1> SUFFICES ASSUME ~UndoInterruptible PROVE Spec => ImplementsLedger
  OBVIOUS
<1>1. StoreAssumption /\ AbsentAssumption
  BY StoreAssumption, AbsentAssumption
<1>2. Init => FiniteInv
  <2>1. Init => db.rows = {} /\ \A w \in Writers : view[w].rows = {} /\ save[w].rows = {}
    BY DEF Init, Empty
  <2> QED
    BY <2>1, FS_EmptySet DEF FiniteInv
<1>3. SafeInv /\ FiniteInv /\ [Next]_vars => FiniteInv'
  BY FiniteStep DEF SafeInv
<1>4. Init => L!Init
  <2> SUFFICES ASSUME Init PROVE L!Init
    OBVIOUS
  <2>1. \A k : WholeRows(k) = {}
    BY DEF Init, Empty, WholeRows
  <2>2. \A k \in Keys : LatestOf(k) = Absent
    BY <2>1 DEF LatestOf
  <2>3. \A v \in Versions : Cardinality({r \in WholeRows(NoKey) : r.ver = v}) = 0
    <3>1. \A v \in Versions : {r \in WholeRows(NoKey) : r.ver = v} = {}
      BY <2>1
    <3> QED
      BY <3>1, FS_EmptySet
  <2> QED
    BY <2>2, <2>3 DEF L!Init
<1>5. /\ SafeInv /\ KeptInv /\ FiniteInv /\ SafeInv' /\ FiniteInv' /\ [Next]_vars
      => L!Next
  BY <1>1, LedgerStep DEF L!Next
<1>6. Spec => []SafeInv /\ []KeptInv
  BY SafeInvHolds, KeptInvHolds, PTL
<1> QED
  BY <1>2, <1>3, <1>4, <1>5, <1>6, PTL DEF Spec, ImplementsLedger, L!Spec

-----------------------------------------------------------------------------
(* add_all's promise.  Before its last COMMIT, what a run was given is in    *)
(* what its connection sees: in its transaction or, with none open, in the  *)
(* file, where only what a periodic commit has published can be.  Others    *)
(* may replace that, never remove it (NothingLostStep).                     *)

\* Between DELETE and the end of add() the rows of the record being added are
\* excused.
StoredBut(w, d, key) ==
  \A k \in 1 .. n[w] :
    ~Superseded(w, k) =>
      \/ job[w][k].key = key /\ key # NoKey
      \/ \E r \in d.rows : /\ r.key = job[w][k].key
                           /\ r.ver = job[w][k].ver \/ (r.key # NoKey /\ Published(w, k))

\* The row being filled is the one of the record being added.
Arrived(w, d) == \E r \in d.rows : r.key = Current(w).key /\ r.ver = Current(w).ver

DoneInv(w) ==
  /\ pc[w] \in {"ready", "due"} => lock[w] # "shared"
  /\ pc[w] = "due" => n[w] % CommitEvery = 0
  /\ pc[w] \in {"ready", "found"} /\ lock[w] = "none" => n[w] = 0 \/ n[w] % CommitEvery = 0
  /\ pc[w] \in {"ready", "due", "found", "emptied"} => Stored(w, Seen(w))
  /\ pc[w] \in {"cleared", "filling"} => StoredBut(w, view[w], Current(w).key)
  /\ pc[w] = "filling" => Arrived(w, view[w])

AllDone == \A w \in Writers : DoneInv(w)

\* What is stored, and published, stays stored when rows leave only for others of
\* the same source.
LEMMA StoredMoves ==
  ASSUME TypeOK, NEW w \in Writers, NEW d, NEW e, Stored(w, d),
         n[w] = 0 \/ n[w] % CommitEvery = 0,
         \A r \in d.rows \ e.rows : Replaced(r, e)
  PROVE  Stored(w, e)
<1> SUFFICES ASSUME NEW k \in 1 .. n[w], ~Superseded(w, k)
             PROVE  \E r \in e.rows : /\ r.key = job[w][k].key
                                      /\ r.ver = job[w][k].ver \/ (r.key # NoKey /\ Published(w, k))
  BY DEF Stored
<1>1. n[w] \in Nat /\ n[w] \in k .. n[w] /\ n[w] # 0
  BY DEF TypeOK
<1>2. Published(w, k)
  BY <1>1 DEF Published
<1>3. PICK r \in d.rows : /\ r.key = job[w][k].key
                          /\ r.ver = job[w][k].ver \/ (r.key # NoKey /\ Published(w, k))
  BY DEF Stored
<1>4. CASE r \in e.rows
  BY <1>3, <1>4
<1>5. CASE r \notin e.rows
  <2>1. PICK s \in e.rows : s.key = r.key /\ r.key # NoKey
    BY <1>5 DEF Replaced
  <2> QED
    BY <1>2, <1>3, <2>1
<1> QED
  BY <1>4, <1>5

\* _delete takes away no more than the rows of the record being added.
LEMMA StoredWhileDeleting ==
  ASSUME NEW w \in Writers, NEW d \in Images, NEW key, Stored(w, d),
         \A r, s \in d.rows : r.id = s.id => r = s
  PROVE  StoredBut(w, [d EXCEPT !.rows = {r \in @ : r.id \notin OldIds(d, key)}], key)
<1> DEFINE e == [d EXCEPT !.rows = {r \in @ : r.id \notin OldIds(d, key)}]
<1>1. e.rows = {r \in d.rows : r.id \notin OldIds(d, key)}
  BY DEF Images
<1>2. \A r \in d.rows : r \in e.rows \/ (r.key = key /\ key # NoKey)
  BY <1>1 DEF OldIds
<1> HIDE DEF e
<1>3. StoredBut(w, e, key)
  BY <1>2 DEF Stored, StoredBut
<1> QED
  BY <1>3 DEF e

\* With its row there the record being added is stored too: add() returns, and
\* the earlier records with its key are superseded.
LEMMA StoredOnReturn ==
  ASSUME TypeOK, NEW w \in Writers, n'[w] = n[w] + 1, job'[w] = job[w],
         NEW d, StoredBut(w, d, Current(w).key), Arrived(w, d)
  PROVE  Stored(w, d)'
<1>1. n[w] \in Nat
  BY DEF TypeOK
<1> SUFFICES ASSUME NEW k \in 1 .. n[w] + 1, ~Superseded(w, k)'
             PROVE  \E r \in d.rows :
                      /\ r.key = job[w][k].key
                      /\ r.ver = job[w][k].ver \/ (r.key # NoKey /\ Published(w, k)')
  BY DEF Stored
<1>2. CASE k = n[w] + 1
  BY <1>2 DEF Arrived, Current
<1>3. CASE k # n[w] + 1
  <2>1. k \in 1 .. n[w] /\ n[w] + 1 \in k + 1 .. n[w] + 1
    BY <1>1, <1>3
  <2>2. k + 1 .. n[w] \subseteq k + 1 .. n[w] + 1 /\ k .. n[w] \subseteq k .. n[w] + 1
    BY <1>1
  <2>3. ~Superseded(w, k) /\ (Published(w, k) => Published(w, k)')
    BY <2>2 DEF Superseded, Published
  <2>4. ~(job[w][k].key = Current(w).key /\ Current(w).key # NoKey)
    BY <2>1 DEF Superseded, Current
  <2> QED
    BY <2>1, <2>3, <2>4 DEF StoredBut
<1> QED
  BY <1>2, <1>3

\* Every step, of the run's own process or another, keeps its DoneInv.
LEMMA DoneStep ==
  ASSUME SafeInv, KeptInv, \A w \in Writers : DoneInv(w), [Next]_vars, NEW v \in Writers
  PROVE  DoneInv(v)'
<1>0. DoneInv(v) /\ TypeOK /\ WriterInv(v)
  BY DEF SafeInv
<1>1. ASSUME NEW w \in Writers, w # v, Open(w) \/ Step(w) \/ Interrupt(w) \/ Kill(w)
      PROVE  DoneInv(v)'
  <2>1. /\ lock'[v] = lock[v] /\ view'[v] = view[v] /\ pc'[v] = pc[v]
        /\ job'[v] = job[v] /\ n'[v] = n[v]
    BY <1>0, <1>1, OthersUntouched
  <2>2. lock[v] # "none" => db' = db
    BY <1>1, FileMovesAlone
  <2>3. \A r \in db.rows \ db'.rows : Replaced(r, db')
    BY NothingLostStep
  <2>4. pc[v] \in {"ready", "due", "found", "emptied"} => Stored(v, Seen(v)')
    <3>1. CASE lock[v] # "none"
      BY <1>0, <2>1, <3>1 DEF DoneInv, Seen
    <3>2. CASE lock[v] = "none" /\ pc[v] \in {"ready", "due", "found", "emptied"}
      <4>1. Seen(v) = db /\ Seen(v)' = db'
        BY <2>1, <3>2 DEF Seen
      <4>2. n[v] = 0 \/ n[v] % CommitEvery = 0
        BY <1>0, <3>2 DEF DoneInv, WriterInv
      <4>3. Stored(v, db)
        BY <1>0, <3>2, <4>1 DEF DoneInv
      <4> QED
        BY <1>0, <2>3, <4>1, <4>2, <4>3, StoredMoves
    <3> QED
      BY <3>1, <3>2
  <2> QED
    BY <1>0, <2>1, <2>4 DEF DoneInv, Stored, StoredBut, Arrived, Superseded, Published, Current
<1>2. CASE UNCHANGED vars
  BY <1>0, <1>2 DEF vars, DoneInv, Stored, StoredBut, Arrived, Superseded, Published, Current, Seen
<1>3. CASE Open(v)
  BY <1>0, <1>3 DEF Open, TypeOK, WriterInv, DoneInv, Stored
<1>4. CASE FindOld(v)
  <2>1. /\ pc[v] = "ready" /\ pc'[v] = "found" /\ n'[v] = n[v] /\ job'[v] = job[v] /\ db' = db
        /\ view'[v] = Seen(v) /\ (lock[v] # "none" => lock'[v] = lock[v])
    BY <1>0, <1>4 DEF FindOld, TypeOK
  <2>2. Seen(v)' = Seen(v)
    BY <2>1 DEF Seen
  <2>3. lock'[v] = "none" => lock[v] = "none"
    BY <2>1
  <2> QED
    BY <1>0, <2>1, <2>2, <2>3 DEF DoneInv, Stored, Superseded, Published
<1>5. CASE DropKids(v)
  <2>1. /\ pc[v] = "found" /\ lock[v] # "none" /\ pc'[v] = "emptied" /\ lock'[v] = "reserved"
        /\ view'[v].rows = view[v].rows /\ n'[v] = n[v] /\ job'[v] = job[v]
    BY <1>0, <1>5 DEF DropKids, TypeOK, Images
  <2>2. Stored(v, view[v]) /\ Seen(v)' = view'[v]
    BY <1>0, <2>1 DEF DoneInv, Seen
  <2> QED
    BY <2>1, <2>2 DEF DoneInv, Stored, Superseded, Published
<1>6. CASE DropRows(v)
  <2>1. /\ pc[v] = "emptied" /\ pc'[v] = "cleared" /\ lock[v] = "reserved"
        /\ n'[v] = n[v] /\ job'[v] = job[v]
        /\ view'[v] = [view[v] EXCEPT !.rows =
                         {r \in @ : r.id \notin OldIds(view[v], Current(v).key)}]
    BY <1>0, <1>6 DEF DropRows, TypeOK, WriterInv
  <2>2. /\ Stored(v, view[v]) /\ view[v] \in Images
        /\ \A r, s \in view[v].rows : r.id = s.id => r = s
    BY <1>0, <2>1 DEF DoneInv, Seen, WriterInv, HalfDeleted, TypeOK
  <2>3. StoredBut(v, view'[v], Current(v).key)
    BY <2>1, <2>2, StoredWhileDeleting
  <2> QED
    BY <2>1, <2>3 DEF DoneInv, StoredBut, Superseded, Published, Current
<1>7. CASE InsertRow(v)
  <2>1. PICK i \in NextIds(Seen(v).rows) :
          view'[v] = [rows |-> Seen(v).rows \cup
                        {[id |-> i, key |-> Current(v).key, ver |-> Current(v).ver,
                          parts |-> Current(v).parts]},
                      kids |-> Seen(v).kids]
    BY <1>0, <1>7 DEF InsertRow, TypeOK
  <2>2. pc'[v] = "filling" /\ n'[v] = n[v] /\ job'[v] = job[v]
    BY <1>0, <1>7 DEF InsertRow, TypeOK
  <2>3. StoredBut(v, Seen(v), Current(v).key)
    BY <1>0, <1>7 DEF InsertRow, DoneInv, WriterInv, Seen, Stored, StoredBut
  <2>4. /\ Seen(v).rows \subseteq view'[v].rows
        /\ \E r \in view'[v].rows : r.key = Current(v).key /\ r.ver = Current(v).ver
    <3> DEFINE new == [id |-> i, key |-> Current(v).key, ver |-> Current(v).ver,
                       parts |-> Current(v).parts]
    <3>1. /\ view'[v].rows = Seen(v).rows \cup {new}
          /\ new.key = Current(v).key /\ new.ver = Current(v).ver
      BY <2>1
    <3> HIDE DEF new
    <3> QED
      BY <3>1
  <2>5. StoredBut(v, view'[v], Current(v).key) /\ Arrived(v, view'[v])
    BY <2>3, <2>4 DEF StoredBut, Arrived
  <2> QED
    BY <2>2, <2>5 DEF DoneInv, StoredBut, Arrived, Superseded, Published, Current
<1>8. CASE InsertKid(v)
  <2>1. /\ pc[v] = "filling" /\ pc'[v] = "filling"
        /\ view'[v].rows = view[v].rows /\ n'[v] = n[v] /\ job'[v] = job[v]
    BY <1>0, <1>8 DEF InsertKid, TypeOK, Images
  <2> QED
    BY <1>0, <2>1 DEF DoneInv, StoredBut, Arrived, Superseded, Published, Current
<1>9. CASE AddReturns(v)
  <2>1. /\ pc[v] = "filling" /\ n'[v] = n[v] + 1 /\ job'[v] = job[v] /\ lock'[v] = lock[v]
        /\ view'[v] = view[v] /\ lock[v] = "reserved"
        /\ pc'[v] = IF (n[v] + 1) % CommitEvery = 0 THEN "due" ELSE "ready"
    BY <1>0, <1>9 DEF AddReturns, TypeOK, WriterInv
  <2>2. StoredBut(v, view[v], Current(v).key) /\ Arrived(v, view[v])
    BY <1>0, <2>1 DEF DoneInv
  <2>3. Seen(v)' = view[v]
    BY <2>1 DEF Seen
  <2>4. \A d : d = view[v] => Stored(v, d)'
    BY <1>0, <2>1, <2>2, StoredOnReturn
  <2> QED
    BY <2>1, <2>3, <2>4 DEF DoneInv, Stored, Superseded, Published
<1>10. CASE Commit(v) /\ pc[v] = "due"
  <2>1. /\ pc'[v] = "ready" /\ lock'[v] = "none" /\ n'[v] = n[v] /\ job'[v] = job[v]
        /\ db' = IF lock[v] = "reserved" THEN view[v] ELSE db
    BY <1>0, <1>10 DEF Commit, CommitView, EndTransaction, TypeOK
  <2>2. db' = Seen(v) /\ Seen(v)' = Seen(v) /\ n[v] % CommitEvery = 0 /\ Stored(v, Seen(v))
    BY <1>0, <1>10, <2>1 DEF DoneInv, Seen, TypeOK, Locks
  <2> QED
    BY <2>1, <2>2 DEF DoneInv, Stored, Superseded, Published
<1>11. CASE (Commit(v) /\ pc[v] # "due") \/ ReleaseFails(v) \/ StatementFails(v) \/ Undo(v)
            \/ CommitFails(v) \/ Close(v) \/ CloseFails(v) \/ Interrupt(v) \/ Kill(v)
  <2>1. pc'[v] \in {"leaving", "undo", "closed"}
    BY <1>0, <1>11 DEF Commit, ReleaseFails, StatementFails, Undo, CommitFails, Close, CloseFails,
       Interrupt, InterruptInTry, InterruptOutside, InterruptInClose, Kill, TypeOK
  <2> QED
    BY <2>1 DEF DoneInv
<1> QED
  BY <1>1, <1>2, <1>3, <1>4, <1>5, <1>6, <1>7, <1>8, <1>9, <1>10, <1>11 DEF Next, Step

\* add_all's return is a promise, for any runs of any processes over one file:
\* everything it was given is in the file, in its version unless another process
\* replaced it after a periodic commit (store.py:742-756).
THEOREM ReturnMeansStored == ~UndoInterruptible => (Spec => OkMeansStored)
<1> DEFINE Promise == \A w \in Writers : result[w] # "ok" /\ result'[w] = "ok" =>
                        AllAdded(w) /\ Stored(w, db')
<1>1. Init => AllDone
  BY DEF Init, AllDone, DoneInv, Stored
<1>2. SafeInv /\ KeptInv /\ AllDone /\ [Next]_vars
      => AllDone'
  BY DoneStep DEF AllDone
<1>3. SafeInv /\ AllDone /\ [Next]_vars => Promise
  <2> SUFFICES ASSUME SafeInv, AllDone, [Next]_vars,
                      NEW w \in Writers, result[w] # "ok", result'[w] = "ok"
               PROVE  AllAdded(w) /\ Stored(w, db')
    OBVIOUS
  <2>0. TypeOK /\ DoneInv(w)
    BY DEF SafeInv, AllDone
  <2>1. Commit(w) /\ pc[w] = "ready"
    BY <2>0, SMTT(30) DEF TypeOK, Next, Step, vars, Open, FindOld, DropKids, DropRows, InsertRow, InsertKid,
       AddReturns, ReleaseFails, StatementFails, Undo, Commit, CommitFails, Close, CloseFails,
       Interrupt, Kill
  <2>2. AllAdded(w) /\ db' = Seen(w)
    BY <2>0, <2>1 DEF Commit, CommitView, DoneInv, Seen, TypeOK, Locks
  <2> QED
    BY <2>0, <2>1, <2>2 DEF DoneInv
<1>4. SafeInv /\ AllDone /\ [Next]_vars => [Promise]_vars
  BY <1>3
<1> QED
  BY <1>1, <1>2, <1>4, SafeInvHolds, KeptInvHolds, PTL DEF Spec, OkMeansStored

=============================================================================
