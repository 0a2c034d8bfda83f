----------------------------- MODULE MCStoreOpen -----------------------------
(* Two builds, 1 and 2: build 2 adds a column to a table of build 1 and a  *)
(* table of its own.  Files: none yet, build 1's (stamped, or from before  *)
(* there were stamps, with or without the text columns both builds have),  *)
(* one half upgraded, and some that lack a column no ALTER TABLE can add.  *)
EXTENDS StoreOpen, TLC

CONSTANTS o1, o2, prefetch, residue, key, wide, text

Layout(p, r) == (prefetch :> p) @@ (residue :> r)
SchemaTable  == (1 :> Layout({key, wide}, {})) @@ (2 :> Layout({key, wide, text}, {key, text}))
File(p, r, s, v) == [cols |-> Layout(p, r), version |-> s, view |-> v]

EmptyFile == File({}, {}, 0, NoView)
Upgrades  == {EmptyFile, File({key}, {}, 0, NoView), File({key, wide}, {}, 1, 1),
              File({wide}, {key}, 0, NoView),
              File({key, wide, text}, {key, text}, 2, 2)}
Damaged   == {File({wide}, {}, 0, NoView), File({key, wide}, {text}, 1, 1)}
AllFiles  == Upgrades \cup Damaged
SameBuild == (o1 :> 2) @@ (o2 :> 2)
TwoBuilds == (o1 :> 1) @@ (o2 :> 2)
=============================================================================
