------------------------------- MODULE Ledger -------------------------------
(***************************************************************************)
(* What the evidence database promises its reader, without statements,     *)
(* savepoints, locks or failures: for every source the version of its last *)
(* ingest, or nothing, and a pile of records that name no source.  The     *)
(* file changes only by publishing some whole records at once.             *)
(***************************************************************************)
EXTENDS Naturals

CONSTANTS Keys, Versions, Absent

VARIABLES
  latest,      \* source -> version of its record, or Absent
  anonymous    \* version -> how many records with no source carry it

Init ==
  /\ latest = [k \in Keys |-> Absent]
  /\ anonymous = [v \in Versions |-> 0]

\* Some sources get a (new) version, none loses its record; anonymous records
\* are only added.
Publish ==
  /\ latest' \in [Keys -> Versions \cup {Absent}]
  /\ \A k \in Keys : latest[k] # Absent => latest'[k] # Absent
  /\ anonymous' \in [Versions -> Nat]
  /\ \A v \in Versions : anonymous'[v] >= anonymous[v]

Next == Publish

Spec == Init /\ [][Next]_<<latest, anonymous>>
=============================================================================
