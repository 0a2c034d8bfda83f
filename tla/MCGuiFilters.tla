---------------------------- MODULE MCGuiFilters ----------------------------
(* Two files, one of them also in a second folder (a third folder has       *)
(* none), a name column with two values and the tag column, one search text *)
(* that matches one of them, typed plainly or with blanks around it.        *)
EXTENDS GuiFilters, TLC

CONSTANTS r1, r2, name, tag, x, y, term, padded, v

FolderSets == {{r1, r2}, {r2}, {}}
CellTable  == (r1 :> [c \in Columns |-> x]) @@ (r2 :> [c \in Columns |-> y])
WordTable  == (r1 :> {term}) @@ (r2 :> {})
StripTable == padded :> term
=============================================================================
