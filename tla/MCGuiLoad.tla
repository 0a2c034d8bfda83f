----------------------------- MODULE MCGuiLoad -----------------------------
(* A triage folder with artifacts, a second one sharing a file, one with   *)
(* artifacts and no .pf, and a mistyped path.                              *)
EXTENDS GuiLoad

CONSTANTS A, B, E, Typo, f1, f2, n1, n2

ContentTable == [d \in Folders |-> IF d = A THEN {f1, f2} ELSE IF d = B THEN {f1} ELSE {}]
=============================================================================
