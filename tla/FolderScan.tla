------------------------------ MODULE FolderScan ------------------------------
(***************************************************************************)
(* artifacts.scan_folder: the walk of a Prefetch folder, and for each file *)
(* parse_artifact: what may be opened, what it is, whether it is too big,  *)
(* and the parser of its kind (modules SuperFetch and ReadyBoot, and the   *)
(* two short ones here).                                                   *)
(*                                                                         *)
(* A path is the sequence of its components.  A file has a name, the kind  *)
(* identify() gives it by name and first bytes, the size stat reports and  *)
(* the bytes it holds, a time that is a datetime or not, and what its      *)
(* parser finds in it.                                                     *)
(***************************************************************************)
EXTENDS ReadyBoot, SuperFetch

CONSTANTS
  MaxArtifact, \* MAX_ARTIFACT_BYTES
  Letters,     \* the drives a path may begin with
  Server,      \* and what a UNC path begins with
  VolumeName   \* the names \VOLUME{created-serial}: [created, serial] of each

ASSUME ArtifactAssumption == MaxArtifact \in Nat

\* No two files have one path.  A ring has slots, and says how many events were written.
IsFolder(given) ==
  /\ given.dirs \in Seq(ToSet(given.dirs))
  /\ \A k \in DOMAIN given.dirs : given.dirs[k].files \in Seq(ToSet(given.dirs[k].files))
  /\ \A j, k \in DOMAIN given.dirs :
       \A m \in DOMAIN given.dirs[j].files, n \in DOMAIN given.dirs[k].files :
         given.dirs[j].files[m].name = given.dirs[k].files[n].name => j = k /\ m = n
  /\ \A k \in DOMAIN given.dirs : \A f \in ToSet(given.dirs[k].files) :
       /\ f.size \in Nat /\ f.holds \in Nat /\ f.dated \in BOOLEAN
       /\ f.kind = "pfpre" => f.in.slots \in Seq(Nat) /\ f.in.count \in Nat
       /\ f.kind = "layout" => f.in.lines \in Seq(ToSet(f.in.lines))
            /\ \A line \in ToSet(f.in.lines) : line \in Seq(ToSet(line)) \ {<<>>}
       /\ f.kind \in {"superfetch", "readyboot"} => IsWrapped(f.in)
       /\ f.kind = "superfetch" => IsDatabase(f.in)
       /\ f.kind = "readyboot" => IsTrace(f.in.inner)

VARIABLES
  folder,  \* [root, dirs]; a directory is [under, lists, files]
  fs,      \* where the scan is
  dirpath, \* the directory os.walk is in
  pending, \* its files still to come
  file,    \* the file at hand
  found    \* the artifacts: [file, kind, paths, records, names, problems]

walkVars   == <<folder, fs, dirpath, pending, file, found>>
folderVars == <<walkVars, bootVars, dbVars, unpackVars, decoders>>

FolderInit(given) ==
  /\ folder = given
  /\ fs = "start" /\ dirpath = 0 /\ pending = <<>> /\ file = <<>> /\ found = <<>>
  /\ ReadyBootInit /\ SuperFetchInit /\ UnpackInit /\ XpressInit /\ Lznt1Init

ParsersIdle == UNCHANGED <<bootVars, dbVars, unpackVars, decoders>>

\* os.walk lists from the top, and says nothing of a directory it cannot list.
IsListed ==
  LET listed[k \in DOMAIN folder.dirs] ==
        folder.dirs[k].lists /\ (k = 1 \/ listed[folder.dirs[k].under])
  IN  listed

FilesOf(k) == IF IsListed[k] THEN folder.dirs[k].files ELSE <<>>

FolderRaises ==
  /\ fs = "start" /\ folder.root # "dir"
  /\ fs' = "raised"
  /\ UNCHANGED <<folder, dirpath, pending, file, found>> /\ ParsersIdle

StartWalk ==
  /\ fs = "start" /\ folder.root = "dir"
  /\ fs' = "next"
  /\ UNCHANGED <<folder, dirpath, pending, file, found>> /\ ParsersIdle

NextDirectory ==
  /\ fs = "next" /\ pending = <<>> /\ dirpath < Len(folder.dirs)
  /\ dirpath' = dirpath + 1 /\ pending' = FilesOf(dirpath + 1)
  /\ UNCHANGED <<folder, fs, file, found>> /\ ParsersIdle

NextFile ==
  /\ fs = "next" /\ pending # <<>>
  /\ file' = Head(pending) /\ pending' = Tail(pending) /\ fs' = "file"
  /\ UNCHANGED <<folder, dirpath, found>> /\ ParsersIdle

FolderScanned ==
  /\ fs = "next" /\ pending = <<>> /\ dirpath = Len(folder.dirs)
  /\ fs' = "returned"
  /\ UNCHANGED <<folder, dirpath, pending, file, found>> /\ ParsersIdle

-----------------------------------------------------------------------------
\* One byte past the ceiling is read at most, to tell the first from the second.
Fits(f)    == f.opens = "yes" /\ f.size <= MaxArtifact /\ f.holds <= MaxArtifact
Outgrew(f) == f.opens = "yes" /\ f.size <= MaxArtifact /\ f.holds > MaxArtifact

\* parse_artifact returned this artifact.
\* paths: the set of them; records: of volumes; names: of volumes, from a sweep.
Artifact(kind, given, records, volumeNames, problems) ==
  /\ found' = Append(found, [file |-> file.name, kind |-> kind, paths |-> given,
                             records |-> records, names |-> volumeNames, problems |-> problems])
  /\ fs' = "next"
  /\ UNCHANGED <<folder, dirpath, pending, file>>

\* It names the file and why it was not parsed.
Unparsed(kind, problem) == Artifact(kind, {}, <<>>, {}, {problem}) /\ ParsersIdle

\* return None: the file is left to the `parse` command.
LeftToParse ==
  /\ fs = "file" /\ file.kind = "prefetch"
  /\ file.opens = "special" \/ (file.opens = "yes" /\ ~Outgrew(file))
  /\ fs' = "next"
  /\ UNCHANGED <<folder, dirpath, pending, file, found>> /\ ParsersIdle

NotRegular ==
  /\ fs = "file" /\ file.opens = "special" /\ file.kind # "prefetch"
  /\ Unparsed("unreadable", "not a regular file")

\* except OSError, of a .pf as well
NotOpened == fs = "file" /\ file.opens = "no" /\ Unparsed("unreadable", "OSError")

\* It reported a size under the ceiling and holds more: also a .pf.
Grown == fs = "file" /\ Outgrew(file) /\ Unparsed(file.kind, "holds more than the ceiling")

IsUnrecognised ==
  fs = "file" /\ file.kind = "unrecognised" /\ file.opens = "yes" /\ ~Outgrew(file)

\* Mutant of Unrecognised: a file nobody knows is passed over.
UnrecognisedDropped ==
  /\ IsUnrecognised /\ file.dated
  /\ fs' = "next"
  /\ UNCHANGED <<folder, dirpath, pending, file, found>> /\ ParsersIdle

Unrecognised ==
  /\ IsUnrecognised /\ file.dated
  /\ Unparsed("unrecognised", "not a recognised artifact")

Recognises(f) == f.kind \notin {"prefetch", "unrecognised"}

AboveCeiling ==
  /\ fs = "file" /\ file.opens = "yes" /\ Recognises(file) /\ file.size > MaxArtifact
  /\ Unparsed(file.kind, "above the ceiling")

Whole == fs = "file" /\ Fits(file)

-----------------------------------------------------------------------------
\* parse_layout: the lines that are paths, of a drive letter or of a server.
PathLines(lines) == {line \in ToSet(lines) : line[1] \in Letters \cup {Server}}

ParseLayout ==
  /\ Whole /\ file.kind = "layout" /\ file.dated
  /\ Artifact("layout", PathLines(file.in.lines), <<>>, {},
              IF file.in.section THEN {} ELSE {"no section header"})
  /\ ParsersIdle

\* parse_pfpre: a ring of slots, each empty (0) or with the tick of its event.  Of the slots
\* that are not empty, one and the next are compared.
Follows(ring, j, k) ==
  /\ j < k /\ ring.slots[j] > 0 /\ ring.slots[k] > 0
  /\ \A empty \in j + 1 .. k - 1 : ring.slots[empty] = 0

Wrapped(ring)   == ring.count > Len(ring.slots)
Reversals(ring) ==
  {k \in DOMAIN ring.slots :
     \E j \in DOMAIN ring.slots : Follows(ring, j, k) /\ ring.slots[k] < ring.slots[j]}

RingProblems(ring) ==
  (IF ring.whole THEN {} ELSE {"size"})
    \cup (IF Wrapped(ring) # (Reversals(ring) # {}) THEN {"the two wrap signals disagree"} ELSE {})

ParsePfpre ==
  /\ Whole /\ file.kind = "pfpre" /\ file.dated
  /\ Artifact("pfpre", {}, <<>>, {},
              IF file.in.header THEN RingProblems(file.in) ELSE {"too small"})
  /\ ParsersIdle

-----------------------------------------------------------------------------
\* parse_superfetch and parse_readyboot: the parser runs, and its result is kept.
StartDb ==
  /\ Whole /\ file.kind = "superfetch"
  /\ ParseSuperFetch(file.in) /\ fs' = "superfetch"
  /\ UNCHANGED <<folder, dirpath, pending, file, found, bootVars>>

DbStep ==
  /\ fs = "superfetch"
  /\ SuperFetchStep
  /\ UNCHANGED <<walkVars, bootVars>>

\* Volume names are taken from the sweep when no volume record was read.
DbParsed ==
  /\ fs = "superfetch" /\ sf = "done" /\ file.dated
  /\ Artifact("superfetch", DbPaths, [v \in DOMAIN volumes |-> volumes[v].record],
              IF volumes = <<>> THEN {s \in swept : s[1] \in DOMAIN VolumeName} ELSE {},
              dbProblems)
  /\ ParsersIdle

\* An exception no one catches ends the command.
DbRaises ==
  /\ fs = "superfetch" /\ sf = "raised"
  /\ fs' = "crashed"
  /\ UNCHANGED <<folder, dirpath, pending, file, found>> /\ ParsersIdle

StartBoot ==
  /\ Whole /\ file.kind = "readyboot"
  /\ ParseReadyBoot(file.in) /\ fs' = "readyboot"
  /\ UNCHANGED <<folder, dirpath, pending, file, found, dbVars>>

BootStep ==
  /\ fs = "readyboot"
  /\ ReadyBootStep
  /\ UNCHANGED <<walkVars, dbVars>>

BootParsed ==
  /\ fs = "readyboot" /\ rb = "done" /\ file.dated
  /\ Artifact("readyboot", {Joined(p) : p \in ToSet(paths)}, <<>>, {}, bootProblems)
  /\ ParsersIdle

\* The time of a file that was parsed, or is unrecognised, is taken last, and only an
\* OSError of that is caught: one outside the years of a datetime ends the command.
DateRaises ==
  /\ \/ IsUnrecognised
     \/ Whole /\ file.kind \in {"layout", "pfpre"}
     \/ fs = "superfetch" /\ sf = "done"
     \/ fs = "readyboot" /\ rb = "done"
  /\ ~file.dated
  /\ fs' = "crashed"
  /\ UNCHANGED <<folder, dirpath, pending, file, found>> /\ ParsersIdle

FolderStep ==
  \/ FolderRaises \/ StartWalk \/ NextDirectory \/ NextFile \/ FolderScanned
  \/ LeftToParse \/ NotRegular \/ NotOpened \/ Grown \/ Unrecognised \/ AboveCeiling
  \/ ParseLayout \/ ParsePfpre \/ StartDb \/ DbStep \/ DbParsed \/ DbRaises
  \/ StartBoot \/ BootStep \/ BootParsed \/ DateRaises

-----------------------------------------------------------------------------
FolderTypeOK ==
  /\ UnpackTypeOK
  /\ fs \in {"start", "next", "file", "superfetch", "readyboot", "returned", "raised", "crashed"}
  /\ rb \in {"idle", "payload", "paths", "io", "done"}
  /\ sf \in {"idle", "payload", "walk", "scan", "entries", "done", "raised"}
  /\ due >= 0 /\ cursor > 0

\* Reference: the slots of a ring after its events, written round and round.  Up to the
\* slot of the last event they are of this round, and behind it of the one before.
InOrder(ring) ==
  \E last \in 0 .. Len(ring.slots) :
    /\ ring.count <= Len(ring.slots) => last = ring.count
    /\ ring.count > Len(ring.slots) => last > 0
    /\ \A k \in DOMAIN ring.slots :
         LET event == ring.count - last + k - (IF k <= last THEN 0 ELSE Len(ring.slots))
         IN  ring.slots[k] = IF event > 0 THEN event ELSE 0

\* A later round ends with the last slot.
Boundary(ring) == Wrapped(ring) /\ ring.slots[Len(ring.slots)] = ring.count

ReportedAs(f) == {k \in DOMAIN found : found[k].file = f.name}

\* The only ways a .pf comes into this report as well as into that of `parse`.
Doubly(f) ==
  f.kind = "prefetch" /\ (f.opens = "no" \/ Outgrew(f))

FilesListed == UNION {ToSet(FilesOf(k)) : k \in DOMAIN folder.dirs}

\* artifacts.py:641-645, 605-607 and 145-148: every file the walk could list has one
\* entry in the report, whatever is wrong with it, unless it is a .pf that could be
\* read; an entry has paths only if the whole file was read, one that was not
\* parsed says so; and the ring's two wrap signals agree on every ring written in
\* order, save one filled a whole number of times.
FilesAccounted ==
  fs = "returned" =>
    /\ \A f \in FilesListed :
         Cardinality(ReportedAs(f)) = IF f.kind = "prefetch" /\ ~Doubly(f) THEN 0 ELSE 1
    /\ \A f \in FilesListed : \A k \in ReportedAs(f) :
         /\ found[k].paths # {} \/ found[k].problems = {} => Fits(f) /\ Recognises(f)
         /\ f.kind = "pfpre" /\ Fits(f) /\ f.in.header /\ f.in.whole /\ InOrder(f.in) =>
              (found[k].problems = {} <=> ~Boundary(f.in))
===============================================================================
