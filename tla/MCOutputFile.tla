---------------------------- MODULE MCOutputFile ----------------------------
(* The artifact export (a paths file and its summary) and the plain CSV.  *)
EXTENDS OutputFile

CONSTANTS csv, paths, summary

CsvAndPair == {<<csv>>, <<paths, summary>>}
=============================================================================
