------------------------------- MODULE MCStore -------------------------------
(* Small instances of Store: record sequences and bounds for TLC. *)
EXTENDS StoreRefinement

CONSTANTS a, b, v1, v2

Rec(k, v, p) == [key |-> k, ver |-> v, parts |-> p]

\* Re-ingest of either file by either writer, in either order; a folder listed
\* twice, whose earlier parse is replaced within one transaction; records with no
\* path; a run that finds nothing.
SmallJobs == {<<Rec(a, v1, 2), Rec(b, v1, 1)>>,
              <<Rec(b, v2, 0), Rec(NoKey, v1, 1), Rec(b, v1, 1)>>,
              <<>>}

=============================================================================
