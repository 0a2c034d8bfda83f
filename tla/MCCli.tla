-------------------------------- MODULE MCCli --------------------------------
(* Trees that refuse in every place, and command lines whose outputs are one *)
(* file in every way two paths can be.                                       *)
EXTENDS MCArtifacts

Dir(parent)  == [parent |-> parent, kind |-> "dir", to |-> None, lists |-> 0, streams |-> <<>>, dated |-> TRUE]
Link(parent, to) == [Dir(parent) EXCEPT !.kind = "link", !.to = to]
Holding(parent, streams) ==
  [Dir(parent) EXCEPT !.kind = "file", !.lists = Len(streams), !.streams = streams]

Primary == [name |-> "primary", primary |-> TRUE, size |-> 0, real |-> 0, prefetch |-> FALSE, reads |-> "data"]
Hidden(n) == [Primary EXCEPT !.name = n, !.primary = FALSE, !.size = 2, !.real = 2, !.prefetch = TRUE]

\* The streams one file may have beside a hidden prefetch.
Neighbours ==
  {[Hidden("n") EXCEPT !.prefetch = FALSE], [Hidden("n") EXCEPT !.size = 4], Hidden("n"),
   [Hidden("n") EXCEPT !.real = 5], [Hidden("n") EXCEPT !.size = 0, !.real = 0, !.prefetch = FALSE],
   [Hidden("n") EXCEPT !.reads = "oserror"], [Hidden("n") EXCEPT !.reads = "raises"]}

Folder == [root |-> "dir", backend |-> TRUE, directories |-> TRUE, entries |-> ("r" :> Dir(None))]

\* A folder with a file, and a subfolder with a file.
Tree(top, sub) ==
  [Folder EXCEPT !.entries =
     [r |-> [Dir(None) EXCEPT !.streams = <<Hidden("d")>>, !.lists = 1],
      f |-> top, d |-> [Dir("r") EXCEPT !.streams = <<Hidden("d")>>, !.lists = 1],
      g |-> sub]]

Mixed == {Tree(Holding("r", <<Primary, Hidden("h"), n>>), Holding("d", <<n, Hidden("h")>>)) : n \in Neighbours}
Cut   == {[t EXCEPT !.entries.f.lists = k, !.entries.d.lists = j] :
            t \in {Tree(Holding("r", <<Primary, Hidden("h")>>), Holding("d", <<>>))},
            k \in 0..2, j \in 0..1}

\* The subfolder holds a link back to the folder instead.
Empty == {[Folder EXCEPT !.directories = b,
             !.entries = [r |-> Dir(None), d |-> Dir("r"), l |-> Link("d", "r"),
                          f |-> Holding("r", <<Primary>>)]] : b \in BOOLEAN}
Elsewhere == {[Folder EXCEPT !.root = "missing"], [Folder EXCEPT !.root = "file"],
              [Folder EXCEPT !.backend = FALSE]}

\* A file, or a folder, whose time is no datetime.
Undated ==
  {[t EXCEPT !.entries[e].dated = FALSE] :
     t \in {Tree(Holding("r", <<Primary, Hidden("h")>>), Holding("d", <<>>))}, e \in {"f", "d"}}

AllPlaces == Mixed \cup Cut \cup Undated \cup Empty \cup Elsewhere

\* Trees without a link.
Trees == Mixed \cup Cut \cup Undated

-----------------------------------------------------------------------------
\* Where the three names lead: each to a file of its own; two of them to one
\* path, spelt alike or not; or by a hard link to one file.
Apart3 == [db |-> "x", csv |-> "y", summary |-> "z"]
One(a) == [name |-> a, real |-> a, file |-> a]
Leads  == {One(Apart3), One([Apart3 EXCEPT !.csv = "x"]),
           [One([Apart3 EXCEPT !.csv = "x"]) EXCEPT !.name = Apart3],
           [One([Apart3 EXCEPT !.db = "z"]) EXCEPT !.name = Apart3],
           [One(Apart3) EXCEPT !.file = [Apart3 EXCEPT !.csv = "x"]]}

Before ==
  {[x |-> c, y |-> d, z |-> "none"] : c \in {"none", "old db", "old csv"}, d \in {"none", "old csv"}}

A == [name |-> "a", real |-> "a", pf |-> TRUE, deep |-> FALSE, regular |-> TRUE,
      raises |-> FALSE]
B == [A EXCEPT !.name = "b"]
C == [A EXCEPT !.name = "c", !.real = "c", !.deep = TRUE]
D == [A EXCEPT !.name = "d", !.real = "d", !.regular = FALSE]
E == [A EXCEPT !.name = "e", !.real = "e", !.pf = FALSE]

R == [A EXCEPT !.name = "r", !.real = "r", !.raises = TRUE]

FileArg(f)   == [kind |-> "file", holds |-> <<f>>, listable |-> TRUE]
FolderArg(s) == [kind |-> "folder", holds |-> s, listable |-> TRUE]

Arguments ==
  {<<FolderArg(<<A, C, D, E>>)>>, <<FolderArg(<<A, B>>), FileArg(A), FileArg(E)>>,
   <<FolderArg(<<C>>), [FolderArg(<<A>>) EXCEPT !.listable = FALSE]>>,
   <<[FileArg(A) EXCEPT !.kind = "missing"]>>, <<FolderArg(<<>>), FolderArg(<<E>>)>>, <<FolderArg(<<A, R>>)>>}

NoFolder == [root |-> "missing", dirs |-> <<>>, truth |-> {}]

\* A folder with one artifact.
Plainest == InFolder(<<LayoutOf(<<<<"C:", "A">>>>)>>)

Plain == [cmd |-> "parse", forced |-> None, ntdll |-> FALSE, asked |-> {}, name |-> Apart3,
          real |-> Apart3, file |-> Apart3, files |-> [x |-> "none", y |-> "none", z |-> "none"],
          recurse |-> TRUE, args |-> <<FolderArg(<<A>>)>>, folder |-> NoFolder]

\* On a file system that tells every two names apart, two names of one file are
\* one resolved path or a file that exists.
Sound == {r \in [lead : Leads, files : Before] :
            r.lead.file["db"] = r.lead.file["csv"] =>
              r.lead.real["db"] = r.lead.real["csv"] \/ r.files[r.lead.file["db"]] # "none"}

Asking == {[Plain EXCEPT !.asked = a, !.name = s.lead.name, !.real = s.lead.real,
                         !.file = s.lead.file, !.files = s.files] :
             a \in SUBSET {"db", "csv"}, s \in Sound}

Parses    == {[Plain EXCEPT !.args = a, !.recurse = r, !.asked = o] :
                a \in Arguments, r \in BOOLEAN, o \in SUBSET {"db", "csv"}}
Forced    == {[Plain EXCEPT !.forced = f, !.ntdll = b, !.asked = {"db"}] : f \in {"pure", "ntdll"}, b \in BOOLEAN}
Artifacts3 == {[r EXCEPT !.cmd = "artifacts", !.folder = Plainest] : r \in Asking}
Collections == {[Plain EXCEPT !.cmd = "artifacts", !.folder = f] : f \in AllFolders}
Scans     == {[Plain EXCEPT !.cmd = "ads", !.asked = o] : o \in {{}, {"db", "csv"}}}

AllRequests == Asking \cup Parses \cup Forced \cup Artifacts3 \cup Collections \cup Scans
===============================================================================
