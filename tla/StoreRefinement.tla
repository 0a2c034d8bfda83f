--------------------------- MODULE StoreRefinement ---------------------------
(***************************************************************************)
(* Store implements Ledger: the ledger entry of a source is the version of *)
(* its row once all its children are there.                                *)
(***************************************************************************)
EXTENDS Store

CONSTANT Absent   \* what the ledger holds of a source nobody ingested

ASSUME AbsentAssumption == Absent \notin Versions

Complete(r) == \A i \in 1 .. r.parts : <<r.id, i>> \in db.kids

WholeRows(key) == {r \in db.rows : r.key = key /\ Complete(r)}

LatestOf(key) ==
  IF WholeRows(key) = {} THEN Absent ELSE (CHOOSE r \in WholeRows(key) : TRUE).ver

L == INSTANCE Ledger WITH
       latest    <- [k \in Keys |-> LatestOf(k)],
       anonymous <- [v \in Versions |-> Cardinality({r \in WholeRows(NoKey) : r.ver = v})]

\* Every behaviour of the store, failures included, is a behaviour of the
\* ledger: readers of the file only ever see whole batches of whole records
\* published, and no source is ever without a record it had.
ImplementsLedger == L!Spec
=============================================================================
