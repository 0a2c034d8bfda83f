--------------------------- MODULE ArtifactsProofs ---------------------------
(***************************************************************************)
(* What `artifacts` reports of a folder, for every folder: each file has   *)
(* its entry, whatever the parsers unpack has the declared size, a trace   *)
(* and a database account for what they hold, a letter and a serial are    *)
(* where the evidence puts them, and nothing leaves its type.              *)
(***************************************************************************)
EXTENDS CliProofs, SequenceTheorems

(* The folder's artifacts.  A file os.walk lists is still to come, in the    *)
(* directory it is in or in a later one, or at hand, or dealt with; one that *)
(* was dealt with has its one entry, or is left to `parse`.                  *)

AtWork == fs \in {"file", "superfetch", "readyboot", "crashed"}

Later  == UNION {ToSet(FilesOf(k)) : k \in (dirpath + 1) .. Len(folder.dirs)}
Coming == Later \cup ToSet(pending) \cup (IF AtWork THEN {file} ELSE {})

\* What FilesAccounted says of the entry of a file.
Honest(a, f) ==
  /\ a.paths # {} \/ a.problems = {} => Fits(f) /\ Recognises(f)
  /\ f.kind = "pfpre" /\ Fits(f) /\ f.in.header /\ f.in.whole /\ InOrder(f.in) =>
       (a.problems = {} <=> ~Boundary(f.in))

LeftOut(f) == f.kind = "prefetch" /\ ~Doubly(f)

DealtWith(f) ==
  IF LeftOut(f) THEN ReportedAs(f) = {}
  ELSE \E k \in DOMAIN found : ReportedAs(f) = {k} /\ Honest(found[k], f)

WalkInv ==
  /\ IsFolder(folder) /\ found \in Seq(ToSet(found))
  /\ dirpath \in 0 .. Len(folder.dirs)
  /\ fs = "start" => dirpath = 0 /\ found = <<>>
  /\ dirpath = 0 => pending = <<>> /\ ~AtWork
  /\ dirpath > 0 =>
       /\ pending \in Seq(ToSet(FilesOf(dirpath))) /\ Distinct(pending)
       /\ AtWork => file \in ToSet(FilesOf(dirpath)) \ ToSet(pending)
  /\ fs \in {"superfetch", "readyboot"} => Fits(file) /\ file.kind = fs
  /\ fs = "returned" => dirpath = Len(folder.dirs) /\ pending = <<>>
  /\ \A f \in FilesListed : IF f \in Coming THEN ReportedAs(f) = {} ELSE DealtWith(f)

\* Only scan_folder changes what it has, and only cmd_artifacts correlates.
LEMMA FolderAlone ==
  ASSUME [Next]_vars
  PROVE  \/ FolderStep /\ UNCHANGED volumeVars
         \/ CorrelateVolumes /\ UNCHANGED folderVars
         \/ UNCHANGED <<folderVars, volumeVars>>
<1>1. CASE Refuse \/ Dispatch
  BY <1>1 DEF Refuse, Dispatch, findVars, searchVars
<1>2. CASE ArgumentRaises \/ NextArgument \/ PassFile \/ Discover \/ ParseNothing \/ ParseRaises \/ Parse
  BY <1>2 DEF ArgumentRaises, NextArgument, PassFile, Discover, ParseNothing, ParseRaises, Parse, Leaves,
              Found, findVars, searchVars
<1>3. CASE Scan
  BY <1>3 DEF Scan
<1>4. CASE CannotLook \/ AdsNothing \/ Ads
  BY <1>4 DEF CannotLook, AdsNothing, Ads, Leaves, Found, findVars, searchVars
<1>5. CASE ScanFolder
  BY <1>5 DEF ScanFolder
<1>6. CASE CorrelateVolumes
  BY <1>6 DEF CorrelateVolumes, Correlate
<1>7. CASE FolderNotScanned \/ ArtifactsNothing \/ CorrelationRaises \/ Artifacts
  BY <1>7 DEF FolderNotScanned, ArtifactsNothing, CorrelationRaises, Artifacts, Leaves, Found, findVars,
              searchVars
<1>8. CASE NoDb \/ WriteDb \/ DbFails
  BY <1>8 DEF NoDb, WriteDb, DbFails, findVars, searchVars
<1>9. CASE NoCsv \/ WriteCsv \/ CsvFails \/ Leave
  BY <1>9 DEF NoCsv, WriteCsv, CsvFails, Leave, Leaves, findVars, searchVars
<1>10. CASE UNCHANGED vars
  BY <1>10 DEF vars, findVars, searchVars
<1> QED
  BY <1>1, <1>2, <1>3, <1>4, <1>5, <1>6, <1>7, <1>8, <1>9, <1>10 DEF Next

\* The files of the folder: no two have one name, and none is in two directories.
LEMMA FolderFiles ==
  ASSUME IsFolder(folder)
  PROVE  /\ Len(folder.dirs) \in Nat /\ DOMAIN folder.dirs = 1 .. Len(folder.dirs)
         /\ \A k \in DOMAIN folder.dirs :
              FilesOf(k) \in Seq(ToSet(FilesOf(k))) /\ Distinct(FilesOf(k))
         /\ \A f, g \in FilesListed : f.name = g.name => f = g
         /\ \A j, k \in DOMAIN folder.dirs : j # k => ToSet(FilesOf(j)) \cap ToSet(FilesOf(k)) = {}
         /\ \A f \in FilesListed :
              /\ f.size \in Nat /\ f.holds \in Nat
              /\ f.kind = "pfpre" => f.in.slots \in Seq(Nat) /\ f.in.count \in Nat
              /\ f.kind = "layout" => f.in.lines \in Seq(ToSet(f.in.lines))
              /\ f.kind \in {"superfetch", "readyboot"} => IsWrapped(f.in)
              /\ f.kind = "layout" => \A line \in ToSet(f.in.lines) : line \in Seq(ToSet(line)) \ {<<>>}
              /\ f.kind = "superfetch" => IsDatabase(f.in)
              /\ f.kind = "readyboot" => IsTrace(f.in.inner)
<1>1. Len(folder.dirs) \in Nat /\ DOMAIN folder.dirs = 1 .. Len(folder.dirs)
  BY DEF IsFolder
<1>2. ASSUME NEW k \in DOMAIN folder.dirs
      PROVE  /\ FilesOf(k) \in Seq(ToSet(FilesOf(k)))
             /\ FilesOf(k) = folder.dirs[k].files \/ FilesOf(k) = <<>>
  <2>1. folder.dirs[k].files \in Seq(ToSet(folder.dirs[k].files)) /\ <<>> \in Seq(ToSet(<<>>))
    BY DEF IsFolder
  <2> QED
    BY <2>1 DEF FilesOf
<1>3. ASSUME NEW k \in DOMAIN folder.dirs, NEW m \in DOMAIN FilesOf(k)
      PROVE  m \in DOMAIN folder.dirs[k].files /\ FilesOf(k)[m] = folder.dirs[k].files[m]
  <2>1. FilesOf(k) # <<>>
    BY <1>3
  <2> QED
    BY <1>2, <1>3, <2>1
<1>4. ASSUME NEW j \in DOMAIN folder.dirs, NEW k \in DOMAIN folder.dirs,
             NEW m \in DOMAIN FilesOf(j), NEW n \in DOMAIN FilesOf(k),
             FilesOf(j)[m].name = FilesOf(k)[n].name
      PROVE  j = k /\ m = n
  <2>1. /\ m \in DOMAIN folder.dirs[j].files /\ n \in DOMAIN folder.dirs[k].files
        /\ folder.dirs[j].files[m].name = folder.dirs[k].files[n].name
    BY <1>3, <1>4
  <2> QED
    BY <2>1 DEF IsFolder
<1>5. \A k \in DOMAIN folder.dirs : Distinct(FilesOf(k))
  BY <1>4 DEF Distinct
<1>6. \A j, k \in DOMAIN folder.dirs : j # k => ToSet(FilesOf(j)) \cap ToSet(FilesOf(k)) = {}
  BY <1>4 DEF ToSet
<1>7. ASSUME NEW f \in FilesListed
      PROVE  \E k \in DOMAIN folder.dirs : \E m \in DOMAIN FilesOf(k) : f = FilesOf(k)[m]
  BY DEF FilesListed, ToSet
<1>8. \A f, g \in FilesListed : f.name = g.name => f = g
  BY <1>4, <1>7
<1>9. ASSUME NEW f \in FilesListed
      PROVE  /\ f.size \in Nat /\ f.holds \in Nat
             /\ f.kind = "pfpre" => f.in.slots \in Seq(Nat) /\ f.in.count \in Nat
             /\ f.kind = "layout" => f.in.lines \in Seq(ToSet(f.in.lines))
             /\ f.kind \in {"superfetch", "readyboot"} => IsWrapped(f.in)
             /\ f.kind = "layout" => \A line \in ToSet(f.in.lines) : line \in Seq(ToSet(line)) \ {<<>>}
             /\ f.kind = "superfetch" => IsDatabase(f.in)
             /\ f.kind = "readyboot" => IsTrace(f.in.inner)
  <2>1. PICK k \in DOMAIN folder.dirs : \E m \in DOMAIN FilesOf(k) : f = FilesOf(k)[m]
    BY <1>7
  <2>2. f \in ToSet(folder.dirs[k].files)
    BY <1>3, <2>1 DEF ToSet
  <2> QED
    BY <2>2 DEF IsFolder
<1> QED
  BY <1>1, <1>2, <1>5, <1>6, <1>8, <1>9

\* In a ring written in order the clock goes back between the last event and the oldest
\* one, which is behind it - unless the last event is in the last slot.
LEMMA RingSignals ==
  ASSUME NEW ring, ring.slots \in Seq(Nat), ring.count \in Nat, InOrder(ring)
  PROVE  (Wrapped(ring) # (Reversals(ring) # {})) <=> Boundary(ring)
<1> DEFINE length == Len(ring.slots)
           count  == ring.count
           slot(k) == ring.slots[k]
<1>1. /\ length \in Nat /\ count \in Nat /\ DOMAIN ring.slots = 1 .. length
      /\ \A k \in 1 .. length : slot(k) \in Nat
  OBVIOUS
<1>2. PICK last \in 0 .. length :
        /\ count <= length => last = count
        /\ count > length => last > 0
        /\ \A k \in 1 .. length :
             LET event == count - last + k - (IF k <= last THEN 0 ELSE length)
             IN  slot(k) = IF event > 0 THEN event ELSE 0
  BY <1>1 DEF InOrder
<1>3. last \in Nat /\ last <= length
  BY <1>1
<1>4. /\ Wrapped(ring) = (count > length)
      /\ Boundary(ring) <=> count > length /\ slot(length) = count
  BY DEF Wrapped, Boundary
<1>5. /\ (\A j, k \in 1 .. length : j < k /\ slot(j) > 0 /\ slot(k) > 0 => ~(slot(k) < slot(j)))
           => Reversals(ring) = {}
      /\ \A k \in 1 .. length : k > 1 /\ slot(k - 1) > 0 /\ slot(k) > 0 /\ slot(k) < slot(k - 1)
           => Reversals(ring) # {}
  <2>1. ASSUME \A j, k \in 1 .. length : j < k /\ slot(j) > 0 /\ slot(k) > 0 => ~(slot(k) < slot(j))
        PROVE  Reversals(ring) = {}
    BY <1>1, <2>1 DEF Reversals, Follows
  <2>2. ASSUME NEW k \in 1 .. length, k > 1, slot(k - 1) > 0, slot(k) > 0, slot(k) < slot(k - 1)
        PROVE  k \in Reversals(ring)
    <3>1. k - 1 \in 1 .. length /\ k - 1 < k /\ (k - 1) + 1 .. k - 1 = {}
      BY <1>1, <2>2
    <3>2. Follows(ring, k - 1, k)
      BY <2>2, <3>1 DEF Follows
    <3> QED
      BY <1>1, <2>2, <3>1, <3>2 DEF Reversals
  <2> QED
    BY <2>1, <2>2
<1> HIDE DEF length, count, slot
<1>6. ASSUME NEW k \in 1 .. length
      PROVE  /\ k \in Nat
             /\ k <= last /\ count - last + k > 0 => slot(k) = count - last + k
             /\ k > last /\ count - last + k - length > 0 => slot(k) = count - last + k - length
             /\ k > last /\ count - last + k - length <= 0 => slot(k) = 0
  <2> DEFINE event == count - last + k - (IF k <= last THEN 0 ELSE length)
  <2>1. slot(k) = IF event > 0 THEN event ELSE 0
    BY <1>2
  <2>2. k \in Nat /\ event \in Int
    BY <1>1, <1>3
  <2>3. /\ k <= last => event = count - last + k
        /\ k > last => event = count - last + k - length
    BY <1>1, <1>3, <2>2
  <2> HIDE DEF event
  <2>4. event > 0 \/ event <= 0
    BY <2>2
  <2> QED
    BY <2>1, <2>2, <2>3, <2>4
<1>7. CASE count <= length
  <2>1. last = count
    BY <1>2, <1>7
  <2>2. ASSUME NEW k \in 1 .. length, slot(k) > 0
        PROVE  slot(k) = k
    BY <1>1, <1>3, <1>6, <2>1, <2>2
  <2>3. Reversals(ring) = {}
    BY <1>1, <1>5, <2>2
  <2> QED
    BY <1>1, <1>4, <1>7, <2>3
<1>8. CASE count > length
  <2>1. last > 0
    BY <1>2, <1>8
  <2>2. ASSUME NEW k \in 1 .. length
        PROVE  /\ slot(k) > 0
               /\ k <= last => slot(k) = count - last + k
               /\ k > last => slot(k) = count - last + k - length
    BY <1>1, <1>3, <1>6, <1>8
  <2>3. length \in 1 .. length
    BY <1>1, <1>3, <2>1
  <2>4. CASE last = length
    <3>1. slot(length) = count
      BY <1>1, <2>2, <2>3, <2>4
    <3>2. Reversals(ring) = {}
      BY <1>1, <1>5, <2>2, <2>4
    <3> QED
      BY <1>4, <1>8, <3>1, <3>2
  <2>5. CASE last # length
    <3>1. slot(length) # count
      BY <1>1, <1>3, <2>1, <2>2, <2>3, <2>5
    <3>2. last \in 1 .. length /\ last + 1 \in 1 .. length /\ last + 1 > 1 /\ (last + 1) - 1 = last
      BY <1>1, <1>3, <2>1, <2>5
    <3>3. slot(last) = count /\ slot(last + 1) < count
      BY <1>1, <1>3, <2>1, <2>2, <2>5, <3>2
    <3>4. Reversals(ring) # {}
      BY <1>5, <2>2, <3>2, <3>3
    <3> QED
      BY <1>4, <1>8, <3>1, <3>4
  <2> QED
    BY <2>4, <2>5
<1> QED
  BY <1>1, <1>7, <1>8

\* One more entry is one more for the file it names, and the others stay.
LEMMA EntryAdded ==
  ASSUME found \in Seq(ToSet(found)), NEW a, found' = Append(found, a)
  PROVE  /\ found' \in Seq(ToSet(found))' /\ DOMAIN found \subseteq DOMAIN found'
         /\ Len(found) + 1 \in DOMAIN found' /\ found'[Len(found) + 1] = a
         /\ \A k \in DOMAIN found : found'[k] = found[k]
         /\ \A f : ReportedAs(f)' = IF a.file = f.name THEN ReportedAs(f) \cup {Len(found) + 1}
                                    ELSE ReportedAs(f)
<1> DEFINE all == ToSet(found) \cup {a}
<1>1. found \in Seq(all)
  OBVIOUS
<1>2. /\ found' \in Seq(all) /\ Len(found) \in Nat
      /\ DOMAIN found = 1 .. Len(found) /\ DOMAIN found' = 1 .. (Len(found) + 1)
      /\ \A k \in DOMAIN found : found'[k] = found[k]
      /\ found'[Len(found) + 1] = a
  BY <1>1
<1>3. \A k \in DOMAIN found' : k \in DOMAIN found \/ k = Len(found) + 1
  BY <1>2
<1>4. ToSet(found)' = all
  BY <1>2, <1>3 DEF ToSet
<1>5. ASSUME NEW f
      PROVE  ReportedAs(f)' = IF a.file = f.name THEN ReportedAs(f) \cup {Len(found) + 1}
                              ELSE ReportedAs(f)
  BY <1>2, <1>3 DEF ReportedAs
<1> QED
  BY <1>2, <1>4, <1>5

\* The folder is the same throughout.
LEMMA FolderKept ==
  ASSUME folder' = folder
  PROVE  /\ FilesListed' = FilesListed /\ IsFolder(folder)' = IsFolder(folder)
         /\ \A k : FilesOf(k)' = FilesOf(k)
<1>1. IsListed' = IsListed
  BY DEF IsListed
<1>2. \A k : FilesOf(k)' = FilesOf(k)
  BY <1>1 DEF FilesOf
<1>3. FilesListed' = FilesListed
  BY <1>2 DEF FilesListed
<1> QED
  BY <1>2, <1>3 DEF IsFolder

\* The file at hand: it is of the directory os.walk is in, not yet reported, and to come
\* no second time.
LEMMA FileAtHand ==
  ASSUME WalkInv, AtWork
  PROVE  /\ dirpath \in DOMAIN folder.dirs /\ file \in FilesListed
         /\ file \notin ToSet(pending)
         /\ file \notin Later
         /\ ReportedAs(file) = {}
<1>1. /\ IsFolder(folder) /\ dirpath \in 0 .. Len(folder.dirs) /\ dirpath # 0
      /\ file \in ToSet(FilesOf(dirpath)) /\ file \notin ToSet(pending)
  BY DEF WalkInv
<1>2. Len(folder.dirs) \in Nat /\ DOMAIN folder.dirs = 1 .. Len(folder.dirs)
  BY <1>1, FolderFiles
<1>3. dirpath \in DOMAIN folder.dirs
  BY <1>1, <1>2
<1>4. file \in FilesListed
  BY <1>1, <1>3 DEF FilesListed
<1>5. ASSUME NEW k \in (dirpath + 1) .. Len(folder.dirs)
      PROVE  file \notin ToSet(FilesOf(k))
  <2>1. k \in DOMAIN folder.dirs /\ k # dirpath
    BY <1>2, <1>3
  <2> QED
    BY <1>1, <1>3, <2>1, FolderFiles
<1>6. file \in Coming
  BY DEF Coming
<1>7. file \notin Later
  BY <1>5 DEF Later
<1> QED
  BY <1>1, <1>3, <1>4, <1>6, <1>7 DEF WalkInv

\* A step that is done with the file at hand: it has its one entry, or is left to `parse`.
LEMMA FileDone ==
  ASSUME WalkInv, AtWork, fs' = "next", UNCHANGED <<folder, dirpath, pending>>,
         \/ found' = found /\ LeftOut(file)
         \/ ~LeftOut(file) /\ \E a : found' = Append(found, a) /\ a.file = file.name /\ Honest(a, file)
  PROVE  WalkInv'
<1>1. IsFolder(folder) /\ found \in Seq(ToSet(found)) /\ dirpath \in 0 .. Len(folder.dirs)
  BY DEF WalkInv
<1>2. dirpath # 0 => pending \in Seq(ToSet(FilesOf(dirpath))) /\ Distinct(pending)
  BY DEF WalkInv
<1>3. /\ IsFolder(folder)' /\ FilesListed' = FilesListed /\ FilesOf(dirpath)' = FilesOf(dirpath)
      /\ \A k : FilesOf(k)' = FilesOf(k)
  BY <1>1, FolderKept
<1>4. Coming' = Coming \ {file}
  <2>1. Later' = Later
    BY <1>3 DEF Later
  <2>2. Coming' = Later \cup ToSet(pending)
    BY <2>1 DEF Coming, AtWork
  <2>3. Coming = (Later \cup ToSet(pending)) \cup {file}
    BY DEF Coming
  <2>4. file \notin Later \cup ToSet(pending)
    BY FileAtHand
  <2> QED
    BY <2>2, <2>3, <2>4
<1>5. \A f \in FilesListed : f # file => f.name # file.name
  BY <1>1, FolderFiles, FileAtHand
<1>6. CASE found' = found /\ LeftOut(file)
  <2>1. \A f : ReportedAs(f)' = ReportedAs(f)
    BY <1>6 DEF ReportedAs
  <2>2. ASSUME NEW f \in FilesListed
        PROVE  IF f \in Coming' THEN ReportedAs(f)' = {} ELSE DealtWith(f)'
    <3>1. CASE f = file
      BY <1>4, <1>6, <2>1, <3>1, FileAtHand DEF DealtWith
    <3>2. CASE f # file
      <4>1. DealtWith(f)' = DealtWith(f)
        BY <1>6, <2>1 DEF DealtWith
      <4> QED
        BY <1>4, <2>1, <3>2, <4>1 DEF WalkInv
    <3> QED
      BY <3>1, <3>2
  <2>3. found' \in Seq(ToSet(found))'
    BY <1>1, <1>6
  <2> QED
    BY <1>1, <1>2, <1>3, <2>2, <2>3, FileAtHand DEF WalkInv, AtWork
<1>7. CASE ~LeftOut(file) /\ \E a : found' = Append(found, a) /\ a.file = file.name /\ Honest(a, file)
  <2>1. PICK a : found' = Append(found, a) /\ a.file = file.name /\ Honest(a, file)
    BY <1>7
  <2>2. /\ found' \in Seq(ToSet(found))' /\ DOMAIN found \subseteq DOMAIN found'
        /\ Len(found) + 1 \in DOMAIN found' /\ found'[Len(found) + 1] = a
        /\ \A k \in DOMAIN found : found'[k] = found[k]
        /\ \A f : ReportedAs(f)' = IF a.file = f.name THEN ReportedAs(f) \cup {Len(found) + 1}
                                   ELSE ReportedAs(f)
    BY <1>1, <2>1, EntryAdded
  <2>3. ASSUME NEW f \in FilesListed
        PROVE  IF f \in Coming' THEN ReportedAs(f)' = {} ELSE DealtWith(f)'
    <3>1. CASE f = file
      <4>1. ReportedAs(f)' = {Len(found) + 1}
        BY <2>1, <2>2, <3>1, FileAtHand
      <4>2. Honest(found'[Len(found) + 1], f)
        BY <2>1, <2>2, <3>1
      <4> QED
        BY <1>4, <1>7, <2>2, <3>1, <4>1, <4>2 DEF DealtWith
    <3>2. CASE f # file
      <4>1. ReportedAs(f)' = ReportedAs(f)
        BY <1>5, <2>1, <2>2, <3>2
      <4>2. DealtWith(f) => DealtWith(f)'
        BY <2>2, <4>1 DEF DealtWith
      <4> QED
        BY <1>4, <3>2, <4>1, <4>2 DEF WalkInv
    <3> QED
      BY <3>1, <3>2
  <2> QED
    BY <1>1, <1>2, <1>3, <2>2, <2>3, FileAtHand DEF WalkInv, AtWork
<1> QED
  BY <1>6, <1>7

\* A step that leaves the file at hand to its parser, or the parser at work.
LEMMA FileStays ==
  ASSUME WalkInv, AtWork, UNCHANGED <<folder, dirpath, pending, file, found>>,
         \/ fs' = fs \/ fs' = "crashed"
         \/ fs' \in {"superfetch", "readyboot"} /\ Fits(file) /\ file.kind = fs'
  PROVE  WalkInv'
<1>1. AtWork' /\ fs' \notin {"start", "returned"}
  BY DEF AtWork
<1>2. /\ IsFolder(folder)' = IsFolder(folder) /\ FilesListed' = FilesListed
      /\ \A k : FilesOf(k)' = FilesOf(k)
  BY FolderKept
<1>3. Coming' = Coming
  <2>1. Later' = Later
    BY <1>2 DEF Later
  <2> QED
    BY <1>1, <2>1 DEF Coming
<1>4. \A f : ReportedAs(f)' = ReportedAs(f)
  BY DEF ReportedAs
<1>5. \A f : DealtWith(f)' = DealtWith(f)
  BY <1>4 DEF DealtWith
<1>6. fs' \in {"superfetch", "readyboot"} => Fits(file)' /\ file'.kind = fs'
  BY DEF WalkInv, Fits
<1> QED
  BY <1>1, <1>2, <1>3, <1>4, <1>5, <1>6, FileAtHand DEF WalkInv

\* A step that is between two files, and reports nothing.
LEMMA BetweenFiles ==
  ASSUME WalkInv, folder' = folder, found' = found,
         dirpath' \in 0 .. Len(folder.dirs), Coming' = Coming,
         dirpath' = 0 => pending' = <<>> /\ ~AtWork',
         dirpath' > 0 =>
           /\ pending' \in Seq(ToSet(FilesOf(dirpath'))) /\ Distinct(pending')
           /\ AtWork' => file' \in ToSet(FilesOf(dirpath')) \ ToSet(pending'),
         fs' \notin {"start", "superfetch", "readyboot"},
         fs' = "returned" => dirpath' = Len(folder.dirs) /\ pending' = <<>>
  PROVE  WalkInv'
<1>1. /\ IsFolder(folder)' /\ FilesListed' = FilesListed /\ FilesOf(dirpath)' = FilesOf(dirpath')
      /\ \A k : FilesOf(k)' = FilesOf(k)
  BY FolderKept DEF WalkInv
<1>2. \A f : ReportedAs(f)' = ReportedAs(f)
  BY DEF ReportedAs
<1>3. \A f : DealtWith(f)' = DealtWith(f)
  BY <1>2 DEF DealtWith
<1>4. found' \in Seq(ToSet(found))'
  BY DEF WalkInv
<1>5. \A f \in FilesListed : IF f \in Coming' THEN ReportedAs(f)' = {} ELSE DealtWith(f)'
  BY <1>2, <1>3 DEF WalkInv
<1> QED
  BY <1>1, <1>4, <1>5 DEF WalkInv

\* os.walk goes on to the next directory, or file, or returns.
LEMMA WalkStep ==
  ASSUME WalkInv, FolderRaises \/ StartWalk \/ NextDirectory \/ NextFile \/ FolderScanned
  PROVE  WalkInv'
<1>1. /\ IsFolder(folder) /\ dirpath \in 0 .. Len(folder.dirs) /\ folder' = folder /\ found' = found
      /\ (dirpath = 0 => pending = <<>> /\ ~AtWork)
      /\ (dirpath > 0 => pending \in Seq(ToSet(FilesOf(dirpath))) /\ Distinct(pending))
  BY DEF WalkInv, FolderRaises, StartWalk, NextDirectory, NextFile, FolderScanned
<1>2. /\ Len(folder.dirs) \in Nat /\ DOMAIN folder.dirs = 1 .. Len(folder.dirs)
      /\ \A k \in DOMAIN folder.dirs : FilesOf(k) \in Seq(ToSet(FilesOf(k))) /\ Distinct(FilesOf(k))
  BY <1>1, FolderFiles
<1>3. \A k : FilesOf(k)' = FilesOf(k)
  BY <1>1, FolderKept
<1>4. CASE FolderRaises \/ StartWalk \/ FolderScanned
  <2>1. /\ dirpath' = dirpath /\ pending' = pending /\ fs' \in {"raised", "next", "returned"}
        /\ fs \in {"start", "next"}
        /\ fs' = "returned" => dirpath' = Len(folder.dirs) /\ pending' = <<>>
    BY <1>4 DEF FolderRaises, StartWalk, FolderScanned
  <2>2. Later' = Later
    BY <1>1, <1>3, <2>1 DEF Later
  <2>3. Coming' = Coming
    BY <2>1, <2>2 DEF Coming, AtWork
  <2>4. ~AtWork'
    BY <2>1 DEF AtWork
  <2> QED
    BY <1>1, <2>1, <2>3, <2>4, BetweenFiles
<1>5. CASE NextDirectory
  <2>1. /\ dirpath' = dirpath + 1 /\ pending = <<>> /\ pending' = FilesOf(dirpath + 1)
        /\ fs = "next" /\ fs' = fs /\ dirpath < Len(folder.dirs)
    BY <1>5 DEF NextDirectory
  <2>2. dirpath + 1 \in DOMAIN folder.dirs /\ dirpath + 1 > 0
    BY <1>1, <1>2, <2>1
  <2>3. Later = ToSet(FilesOf(dirpath + 1)) \cup Later'
    <3>1. (dirpath + 1) .. Len(folder.dirs) = {dirpath + 1} \cup ((dirpath + 1) + 1) .. Len(folder.dirs)
      BY <1>1, <1>2, <2>1
    <3>2. Later' = UNION {ToSet(FilesOf(k)) : k \in ((dirpath + 1) + 1) .. Len(folder.dirs)}
      BY <1>1, <1>3, <2>1 DEF Later
    <3> QED
      BY <3>1, <3>2 DEF Later
  <2>4. ~AtWork /\ ~AtWork'
    BY <2>1 DEF AtWork
  <2>5. ToSet(pending) = {}
    BY <2>1 DEF ToSet
  <2>6. Coming' = Coming
    BY <2>1, <2>3, <2>4, <2>5 DEF Coming
  <2> QED
    BY <1>1, <1>2, <2>1, <2>2, <2>4, <2>6, BetweenFiles
<1>6. CASE NextFile
  <2>1. /\ pending # <<>> /\ file' = Head(pending) /\ pending' = Tail(pending)
        /\ fs = "next" /\ fs' = "file" /\ dirpath' = dirpath
    BY <1>6 DEF NextFile
  <2>2. /\ dirpath > 0 /\ pending \in Seq(ToSet(FilesOf(dirpath))) /\ Distinct(pending)
    BY <1>1, <2>1
  <2>3. /\ Head(pending) \in ToSet(pending) /\ Tail(pending) \in Seq(ToSet(FilesOf(dirpath)))
        /\ ToSet(pending) = {Head(pending)} \cup ToSet(Tail(pending))
    BY <2>1, <2>2, HeadAndTail
  <2>4. /\ Distinct(Tail(pending)) /\ Head(pending) \notin ToSet(Tail(pending))
        /\ Head(pending) \in ToSet(FilesOf(dirpath))
    <3>1. /\ Len(pending) \in Nat /\ DOMAIN pending = 1 .. Len(pending) /\ Len(pending) >= 1
          /\ DOMAIN Tail(pending) = 1 .. (Len(pending) - 1) /\ Head(pending) = pending[1]
          /\ \A k \in 1 .. (Len(pending) - 1) : Tail(pending)[k] = pending[k + 1]
      BY <2>1, <2>2
    <3>2. ASSUME NEW j \in DOMAIN Tail(pending), NEW k \in DOMAIN Tail(pending),
                 Tail(pending)[j] = Tail(pending)[k]
          PROVE  j = k
      <4>1. j + 1 \in DOMAIN pending /\ k + 1 \in DOMAIN pending /\ pending[j + 1] = pending[k + 1]
        BY <3>1, <3>2
      <4>2. j + 1 = k + 1
        BY <2>2, <4>1 DEF Distinct
      <4> QED
        BY <3>1, <4>2
    <3>3. ASSUME NEW j \in DOMAIN Tail(pending)
          PROVE  Tail(pending)[j] # Head(pending)
      <4>1. j + 1 \in DOMAIN pending /\ 1 \in DOMAIN pending /\ j + 1 # 1
        BY <3>1
      <4> QED
        BY <2>2, <3>1, <4>1 DEF Distinct
    <3>4. Head(pending) \in ToSet(FilesOf(dirpath))
      BY <2>2, <3>1
    <3> QED
      BY <3>2, <3>3, <3>4 DEF Distinct, ToSet
  <2>5. ~AtWork /\ AtWork'
    BY <2>1 DEF AtWork
  <2>6. Later' = Later
    BY <1>1, <1>3, <2>1 DEF Later
  <2>7. Coming' = Coming
    <3>1. ToSet(pending)' = ToSet(Tail(pending))
      BY <2>1
    <3> QED
      BY <2>1, <2>3, <2>5, <2>6, <3>1 DEF Coming
  <2> QED
    BY <1>1, <2>1, <2>2, <2>3, <2>4, <2>7, BetweenFiles
<1> QED
  BY <1>4, <1>5, <1>6

\* An entry of a file that was not parsed says so.
LEMMA UnparsedIsHonest ==
  ASSUME WalkInv, AtWork, NEW kind, NEW problem, Unparsed(kind, problem), ~LeftOut(file),
         ~Fits(file) \/ file.kind # "pfpre"
  PROVE  WalkInv'
<1> DEFINE a == [file |-> file.name, kind |-> kind, paths |-> {}, records |-> <<>>, names |-> {},
                 problems |-> {problem}]
<1>1. /\ found' = Append(found, a) /\ fs' = "next" /\ UNCHANGED <<folder, dirpath, pending>>
  BY DEF Unparsed, Artifact
<1>2. a.file = file.name /\ a.paths = {} /\ a.problems = {problem}
  OBVIOUS
<1> HIDE DEF a
<1>3. Honest(a, file)
  BY <1>2 DEF Honest
<1> QED
  BY <1>1, <1>2, <1>3, FileDone

\* What becomes of the file at hand.
LEMMA FileOutcome ==
  ASSUME WalkInv,
         \/ LeftToParse \/ NotRegular \/ NotOpened \/ Grown \/ Unrecognised \/ AboveCeiling
         \/ ParseLayout \/ ParsePfpre
  PROVE  WalkInv'
<1>1. fs = "file" /\ AtWork
  BY DEF LeftToParse, NotRegular, NotOpened, Grown, Unrecognised, IsUnrecognised, AboveCeiling,
         ParseLayout, ParsePfpre, Whole, AtWork
<1>2. /\ file.size \in Nat /\ file.holds \in Nat /\ MaxArtifact \in Nat
      /\ file.kind = "pfpre" => file.in.slots \in Seq(Nat) /\ file.in.count \in Nat
  BY <1>1, FileAtHand, FolderFiles, ArtifactAssumption DEF WalkInv
<1>3. CASE LeftToParse
  <2>1. /\ LeftOut(file) /\ found' = found /\ fs' = "next" /\ UNCHANGED <<folder, dirpath, pending>>
    BY <1>3 DEF LeftToParse, LeftOut, Doubly, Outgrew
  <2> QED
    BY <1>1, <2>1, FileDone
<1>4. CASE NotRegular
  BY <1>1, <1>4, UnparsedIsHonest DEF NotRegular, LeftOut, Fits
<1>5. CASE NotOpened
  BY <1>1, <1>5, UnparsedIsHonest DEF NotOpened, LeftOut, Doubly, Fits
<1>6. CASE Grown
  <2>1. Outgrew(file) /\ ~LeftOut(file)
    BY <1>6 DEF Grown, LeftOut, Doubly
  <2>2. ~Fits(file)
    BY <1>2, <2>1 DEF Outgrew, Fits
  <2> QED
    BY <1>1, <1>6, <2>1, <2>2, UnparsedIsHonest DEF Grown
<1>7. CASE Unrecognised
  BY <1>1, <1>7, UnparsedIsHonest DEF Unrecognised, IsUnrecognised, LeftOut
<1>8. CASE AboveCeiling
  <2>1. file.size > MaxArtifact /\ ~LeftOut(file)
    BY <1>8 DEF AboveCeiling, LeftOut, Recognises
  <2>2. ~Fits(file)
    BY <1>2, <2>1 DEF Fits
  <2> QED
    BY <1>1, <1>8, <2>1, <2>2, UnparsedIsHonest DEF AboveCeiling
<1>9. CASE ParseLayout
  <2>1. Fits(file) /\ file.kind = "layout"
    BY <1>9 DEF ParseLayout, Whole
  <2>2. PICK a : found' = Append(found, a) /\ a.file = file.name
    <3> DEFINE a == [file |-> file.name, kind |-> "layout", paths |-> PathLines(file.in.lines),
                     records |-> <<>>, names |-> {},
                     problems |-> IF file.in.section THEN {} ELSE {"no section header"}]
    <3>1. found' = Append(found, a)
      BY <1>9 DEF ParseLayout, Artifact
    <3>2. a.file = file.name
      OBVIOUS
    <3> QED
      BY <3>1, <3>2
  <2>3. Honest(a, file) /\ ~LeftOut(file)
    BY <2>1 DEF Honest, LeftOut, Recognises
  <2>4. fs' = "next" /\ UNCHANGED <<folder, dirpath, pending>>
    BY <1>9 DEF ParseLayout, Artifact
  <2> QED
    BY <1>1, <2>2, <2>3, <2>4, FileDone
<1>10. CASE ParsePfpre
  <2>1. Fits(file) /\ file.kind = "pfpre"
    BY <1>10 DEF ParsePfpre, Whole
  <2>2. PICK a : /\ found' = Append(found, a) /\ a.file = file.name /\ a.paths = {}
                 /\ a.problems = IF file.in.header THEN RingProblems(file.in) ELSE {"too small"}
    <3> DEFINE a == [file |-> file.name, kind |-> "pfpre", paths |-> {}, records |-> <<>>,
                     names |-> {},
                     problems |-> IF file.in.header THEN RingProblems(file.in) ELSE {"too small"}]
    <3>1. found' = Append(found, a)
      BY <1>10 DEF ParsePfpre, Artifact
    <3>2. /\ a.file = file.name /\ a.paths = {}
          /\ a.problems = IF file.in.header THEN RingProblems(file.in) ELSE {"too small"}
      OBVIOUS
    <3> QED
      BY <3>1, <3>2
  <2>3. ASSUME file.in.header, file.in.whole, InOrder(file.in)
        PROVE  a.problems = {} <=> ~Boundary(file.in)
    <3>1. a.problems = {} <=> ~(Wrapped(file.in) # (Reversals(file.in) # {}))
      BY <2>2, <2>3 DEF RingProblems
    <3> QED
      BY <1>2, <2>1, <2>3, <3>1, RingSignals
  <2>4. Honest(a, file) /\ ~LeftOut(file)
    BY <2>1, <2>3 DEF Honest, LeftOut, Recognises
  <2>5. fs' = "next" /\ UNCHANGED <<folder, dirpath, pending>>
    BY <1>10 DEF ParsePfpre, Artifact
  <2> QED
    BY <1>1, <2>2, <2>4, <2>5, FileDone
<1> QED
  BY <1>3, <1>4, <1>5, <1>6, <1>7, <1>8, <1>9, <1>10

\* The parsers with steps of their own, module SuperFetch and module ReadyBoot.
LEMMA ParserStep ==
  ASSUME WalkInv,
         \/ StartDb \/ DbStep \/ DbParsed \/ DbRaises
         \/ StartBoot \/ BootStep \/ BootParsed \/ DateRaises
  PROVE  WalkInv'
<1>1. AtWork
  BY DEF StartDb, DbStep, DbParsed, DbRaises, StartBoot, BootStep, BootParsed, DateRaises,
         IsUnrecognised, Whole, AtWork
<1>2. CASE StartDb \/ DbStep \/ DbRaises \/ StartBoot \/ BootStep \/ DateRaises
  <2>1. /\ UNCHANGED <<folder, dirpath, pending, file, found>>
        /\ \/ fs' = fs \/ fs' = "crashed"
           \/ fs' \in {"superfetch", "readyboot"} /\ Fits(file) /\ file.kind = fs'
    BY <1>2 DEF StartDb, DbStep, DbRaises, StartBoot, BootStep, DateRaises, Whole, walkVars
  <2> QED
    BY <1>1, <2>1, FileStays
<1>3. CASE DbParsed \/ BootParsed
  <2>1. Fits(file) /\ file.kind \in {"superfetch", "readyboot"}
    BY <1>3 DEF WalkInv, DbParsed, BootParsed
  <2>2. PICK a : found' = Append(found, a) /\ a.file = file.name
    BY <1>3 DEF DbParsed, BootParsed, Artifact
  <2>3. Honest(a, file) /\ ~LeftOut(file)
    BY <2>1 DEF Honest, LeftOut, Recognises
  <2>4. fs' = "next" /\ UNCHANGED <<folder, dirpath, pending>>
    BY <1>3 DEF DbParsed, BootParsed, Artifact
  <2> QED
    BY <1>1, <2>2, <2>3, <2>4, FileDone
<1> QED
  BY <1>2, <1>3

LEMMA WalkInitially ==
  ASSUME Init
  PROVE  WalkInv
<1>1. /\ IsFolder(folder) /\ fs = "start" /\ dirpath = 0 /\ pending = <<>> /\ found = <<>>
  BY CliAssumption DEF Init, FolderInit, IsRequest
<1>2. Len(folder.dirs) \in Nat
  BY <1>1, FolderFiles
<1>3. found \in Seq(ToSet(found)) /\ \A f : ReportedAs(f) = {}
  BY <1>1 DEF ReportedAs
<1>4. ~AtWork
  BY <1>1 DEF AtWork
<1>5. \A f \in FilesListed : f \in Coming
  <2>1. 1 .. Len(folder.dirs) = (dirpath + 1) .. Len(folder.dirs)
    BY <1>1
  <2>2. FilesListed = Later
    BY <1>1, <2>1, FolderFiles DEF FilesListed, Later
  <2> QED
    BY <2>2 DEF Coming
<1> QED
  BY <1>1, <1>2, <1>3, <1>4, <1>5 DEF WalkInv

LEMMA WalkInductive == WalkInv /\ [Next]_vars => WalkInv'
<1> SUFFICES ASSUME WalkInv, [Next]_vars PROVE WalkInv'
  OBVIOUS
<1>1. CASE UNCHANGED walkVars
  <2>1. UNCHANGED <<folder, fs, dirpath, pending, file, found>>
    BY <1>1 DEF walkVars
  <2>2. /\ IsFolder(folder)' = IsFolder(folder) /\ FilesListed' = FilesListed
        /\ \A k : FilesOf(k)' = FilesOf(k)
    BY <2>1, FolderKept
  <2>3. Later' = Later /\ AtWork' = AtWork
    BY <2>1, <2>2 DEF Later, AtWork
  <2>4. Coming' = Coming
    BY <2>1, <2>3 DEF Coming
  <2>5. \A f : ReportedAs(f)' = ReportedAs(f)
    BY <2>1 DEF ReportedAs
  <2>6. \A f : DealtWith(f)' = DealtWith(f)
    BY <2>1, <2>5 DEF DealtWith
  <2> QED
    BY <2>1, <2>2, <2>3, <2>4, <2>5, <2>6 DEF WalkInv
<1>2. CASE FolderStep
  BY <1>2, WalkStep, FileOutcome, ParserStep DEF FolderStep
<1> QED
  BY <1>1, <1>2, FolderAlone DEF folderVars

\* artifacts.py:641-645 and 605-607: whatever a folder holds and whatever is wrong with its
\* files, every file os.walk lists has its one entry unless it is left to `parse`, no
\* entry claims a file that was not read whole, and the two signals of a ring agree.
THEOREM EveryFileAccounted == Spec => []FilesAccounted
<1>1. Init => WalkInv
  BY WalkInitially
<1>2. WalkInv => FilesAccounted
  <2>1. SUFFICES ASSUME WalkInv, fs = "returned", NEW f \in FilesListed
                 PROVE  /\ Cardinality(ReportedAs(f)) = IF LeftOut(f) THEN 0 ELSE 1
                        /\ \A k \in ReportedAs(f) : Honest(found[k], f)
    BY DEF FilesAccounted, LeftOut, Honest
  <2>2. dirpath = Len(folder.dirs) /\ pending = <<>> /\ Len(folder.dirs) \in Nat
    BY <2>1, FolderFiles DEF WalkInv
  <2>3. f \notin Coming
    <3>1. (dirpath + 1) .. Len(folder.dirs) = {}
      BY <2>2
    <3>2. Later = {} /\ ToSet(pending) = {} /\ ~AtWork
      BY <2>1, <2>2, <3>1 DEF Later, ToSet, AtWork
    <3> QED
      BY <3>2 DEF Coming
  <2>4. DealtWith(f)
    BY <2>1, <2>3 DEF WalkInv
  <2>5. CASE LeftOut(f)
    BY <2>4, <2>5, FS_EmptySet DEF DealtWith
  <2>6. CASE ~LeftOut(f)
    BY <2>4, <2>6, FS_Singleton DEF DealtWith
  <2> QED
    BY <2>5, <2>6
<1> QED
  BY <1>1, <1>2, WalkInductive, PTL DEF Spec

(*****************************************************************************)
(* The letters.  What is correlated stays as it was computed, because nothing *)
(* is found any more; and a letter matches one device at most, because one    *)
(* device explains more of it than another may.                               *)

\* The report of the volumes is that of what was found.
RowsInv ==
  /\ \A k \in DOMAIN found : found[k].kind = "layout" => IsFiniteSet(found[k].paths)
  /\ correlated =>
       fs = "returned" /\ rows = Report /\ withheld = {c[1] : c \in Withheld}

\* What is made of finitely many things is finite.
LEMMA Images ==
  ASSUME NEW S, IsFiniteSet(S), NEW f, f = [x \in S |-> f[x]]
  PROVE  IsFiniteSet({f[x] : x \in S})
<1> DEFINE T == {f[x] : x \in S}
<1>1. f \in Surjection(S, T)
  BY DEF Surjection
<1> QED
  BY <1>1, FS_Surjection

LEMMA RowsFollowFound ==
  ASSUME found' = found
  PROVE  /\ \A letter, dev : Shared(letter, dev)' = Shared(letter, dev)
         /\ Claims' = Claims /\ Withheld' = Withheld /\ Inferred' = Inferred
         /\ Report' = Report
<1>1. \A kind : Reported(kind)' = Reported(kind)
  BY DEF Reported
<1>2. \A kind : PathsOf(kind)' = PathsOf(kind)
  BY <1>1 DEF PathsOf
<1>3. DevicePaths' = DevicePaths /\ LetterPaths' = LetterPaths
  BY <1>2 DEF DevicePaths, LetterPaths
<1>4. /\ Devices' = Devices /\ Drives' = Drives
      /\ \A dev : OnDevice(dev)' = OnDevice(dev)
      /\ \A letter : OnLetter(letter)' = OnLetter(letter)
  BY <1>3 DEF Devices, Drives, OnDevice, OnLetter
<1>5. \A letter, dev : Shared(letter, dev)' = Shared(letter, dev)
  BY <1>4 DEF Shared
<1>6. /\ \A letter, dev : PerCent(letter, dev)' = PerCent(letter, dev)
      /\ \A letter : AllOf(letter)' = AllOf(letter)
  BY <1>4, <1>5 DEF PerCent, AllOf
<1>7. \A letter, dev : Matches(letter, dev)' = Matches(letter, dev)
  BY <1>4, <1>5, <1>6 DEF Matches
<1>8. \A letter, dev : SameMachine(letter, dev)' = SameMachine(letter, dev)
  BY <1>5 DEF SameMachine
<1>9. Claims' = Claims /\ Withheld' = Withheld
  BY <1>4, <1>7, <1>8 DEF Claims, Withheld
<1>10. Inferred' = Inferred
  BY <1>9 DEF Inferred
<1>11. Stated' = Stated
  BY <1>1 DEF Stated, StatedRecords
<1>12. \A k : MentionsIn(k)' = MentionsIn(k)
  BY DEF MentionsIn
<1>13. Mentions' = Mentions
  BY <1>12 DEF Mentions
<1>14. \A dev : StatedOf(dev)' = StatedOf(dev)
  BY <1>11 DEF StatedOf
<1>15. \A c : Merges(c)' = Merges(c)
  BY <1>14 DEF Merges
<1>16. Unclaimed' = Unclaimed
  BY <1>10, <1>11, <1>14, <1>15 DEF Unclaimed
<1>17. \A c : Binds(c)' = Binds(c)
  BY <1>10, <1>13, <1>15, <1>16 DEF Binds
<1>18. \A c : RowOf(c)' = RowOf(c)
  BY <1>13, <1>14, <1>15, <1>17 DEF RowOf
<1>19. Report' = Report
  BY <1>10, <1>16, <1>18 DEF Report
<1> QED
  BY <1>5, <1>9, <1>10, <1>19

\* A letter and its device are what the claim says, wherever the serial is from.
LEMMA RowOfClaim ==
  ASSUME NEW c
  PROVE  /\ RowOf(c).letter = c[1] /\ RowOf(c).device = <<"DEVICE", c[2]>>
         /\ Merges(c) => /\ RowOf(c) = Row(c[1], <<"DEVICE", c[2]>>,
                                          CHOOSE r \in StatedOf(c[2]) : TRUE, "stated")
                         /\ RowOf(c).how = "stated"
         /\ ~Merges(c) /\ Binds(c) =>
              /\ RowOf(c).how = "bound"
              /\ RowOf(c).serial = (CHOOSE m \in Mentions : TRUE).serial
         /\ ~Merges(c) /\ ~Binds(c) => RowOf(c).how = "inferred" /\ RowOf(c).serial = ""
<1>1. \A record, how :
        LET row == Row(c[1], <<"DEVICE", c[2]>>, record, how)
        IN  /\ row.letter = c[1] /\ row.device = <<"DEVICE", c[2]>>
            /\ row.how = how /\ row.serial = record.serial
  BY DEF Row
<1>2. CASE Merges(c)
  <2>1. RowOf(c) = Row(c[1], <<"DEVICE", c[2]>>, CHOOSE r \in StatedOf(c[2]) : TRUE, "stated")
    BY <1>2 DEF RowOf, Binds
  <2> QED
    BY <1>1, <1>2, <2>1
<1>3. CASE ~Merges(c) /\ Binds(c)
  <2>1. RowOf(c) = Row(c[1], <<"DEVICE", c[2]>>, CHOOSE m \in Mentions : TRUE, "bound")
    BY <1>3 DEF RowOf
  <2> QED
    BY <1>1, <1>3, <2>1
<1>4. CASE ~Merges(c) /\ ~Binds(c)
  <2>1. RowOf(c) = Row(c[1], <<"DEVICE", c[2]>>, NoIdentity, "inferred")
    BY <1>4 DEF RowOf
  <2>2. /\ RowOf(c).letter = c[1] /\ RowOf(c).device = <<"DEVICE", c[2]>>
        /\ RowOf(c).how = "inferred" /\ RowOf(c).serial = NoIdentity.serial
    BY <1>1, <2>1
  <2>3. NoIdentity.serial = ""
    BY DEF NoIdentity
  <2> QED
    BY <1>4, <2>2, <2>3
<1> QED
  BY <1>2, <1>3, <1>4

\* A claim is of a letter and a device that match.
LEMMA ClaimShape ==
  \A c \in Claims \cup Withheld :
    /\ c = <<c[1], c[2]>> /\ c[1] # "" /\ c[2] \in Devices /\ Matches(c[1], c[2])
<1> SUFFICES ASSUME NEW c \in Claims \cup Withheld
             PROVE  /\ c = <<c[1], c[2]>> /\ c[1] # "" /\ c[2] \in Devices /\ Matches(c[1], c[2])
  OBVIOUS
<1>1. /\ c = <<c[1], c[2]>> /\ c[1] \in Drives /\ c[2] \in Devices
      /\ Matches(c[1], c[2])
  <2>1. c \in Drives \X Devices /\ Matches(c[1], c[2])
    BY DEF Claims, Withheld
  <2>2. c = <<c[1], c[2]>> /\ c[1] \in Drives /\ c[2] \in Devices
    BY <2>1
  <2> QED
    BY <2>1, <2>2
<1>2. c[1] \in Letters
  BY <1>1 DEF Drives, LetterPaths
<1>3. c[1] # ""
  BY <1>2, LetterAssumption
<1> QED
  BY <1>1, <1>3

\* The files a letter and a device share can be counted.
LEMMA PathsCount ==
  ASSUME WalkInv, RowsInv, NEW letter, NEW dev
  PROVE  /\ AllOf(letter) \in Nat
         /\ IsFiniteSet(Shared(letter, dev)) /\ Cardinality(Shared(letter, dev)) \in Nat
<1>1. IsFiniteSet(Reported("layout"))
  <2> DEFINE K == {j \in DOMAIN found : found[j].kind = "layout"}
             f == [k \in K |-> found[k]]
  <2>1. IsFiniteSet(K)
    <3>1. Len(found) \in Nat /\ DOMAIN found = 1 .. Len(found)
      BY DEF WalkInv
    <3> QED
      <4>1. IsFiniteSet(1 .. Len(found))
        BY <3>1, FS_Interval
      <4>2. K \in SUBSET (1 .. Len(found))
        BY <3>1
      <4> QED
        BY <4>1, <4>2, FS_Subset
  <2>2. IsFiniteSet({f[k] : k \in K})
    <3>1. f = [k \in K |-> f[k]]
      OBVIOUS
    <3> HIDE DEF f, K
    <3> QED
      BY <2>1, <3>1, Images
  <2>3. {f[k] : k \in K} = Reported("layout")
    BY DEF Reported
  <2> QED
    BY <2>2, <2>3
<1>2. IsFiniteSet(UNION {a.paths : a \in Reported("layout")})
  <2> DEFINE f == [a \in Reported("layout") |-> a.paths]
  <2>1. IsFiniteSet({f[a] : a \in Reported("layout")})
    BY <1>1, Images
  <2>2. {f[a] : a \in Reported("layout")} = {a.paths : a \in Reported("layout")}
    OBVIOUS
  <2>3. \A T \in {a.paths : a \in Reported("layout")} : IsFiniteSet(T)
    BY DEF RowsInv, Reported
  <2> QED
    BY <2>1, <2>2, <2>3, FS_UNION
<1>3. IsFiniteSet(PathsOf("layout"))
  <2> DEFINE P == UNION {a.paths : a \in Reported("layout")}
             f == [p \in P |-> Normalised(p)]
  <2>1. IsFiniteSet({f[p] : p \in P})
    BY <1>2, Images
  <2> QED
    BY <2>1 DEF PathsOf
<1>4. IsFiniteSet({q \in LetterPaths : q[1] = letter})
  <2>1. {q \in LetterPaths : q[1] = letter} \in SUBSET PathsOf("layout")
    BY DEF LetterPaths
  <2> QED
    BY <1>3, <2>1, FS_Subset
<1>5. IsFiniteSet(OnLetter(letter))
  <2> DEFINE Q == {q \in LetterPaths : q[1] = letter}
             f == [p \in Q |-> Below(p, 1)]
  <2>1. IsFiniteSet({f[p] : p \in Q})
    BY <1>4, Images
  <2> QED
    BY <2>1 DEF OnLetter
<1>6. Shared(letter, dev) \in SUBSET OnLetter(letter)
  BY DEF Shared
<1> QED
  BY <1>5, <1>6, FS_Subset, FS_CardinalityType DEF AllOf

\* One device explains a letter: it has more of it than any other may have.
LEMMA OneDeviceMatches ==
  ASSUME WalkInv, RowsInv, NEW letter, NEW d \in Devices, NEW e \in Devices,
         Matches(letter, d), Matches(letter, e)
  PROVE  d = e
<1> SUFFICES ASSUME d # e PROVE FALSE
  OBVIOUS
<1> DEFINE all    == AllOf(letter)
           shared == Cardinality(Shared(letter, d))
<1>1. all \in Nat /\ shared \in Nat
  BY PathsCount
<1>2. shared >= MinShared /\ 100 * shared >= MinMatch * all /\ 100 * shared <= MaxOther * all
  BY DEF Matches, PerCent
<1>3. /\ MinMatch \in Nat /\ MaxOther \in Nat /\ MaxOther < MinMatch
      /\ MinShared \in Nat /\ MinShared > 0
  BY VolumeAssumption
<1> HIDE DEF all, shared
<1>4. MinMatch * all <= MaxOther * all
  BY <1>1, <1>2, <1>3
<1>5. all = 0
  BY <1>1, <1>3, <1>4
<1> QED
  BY <1>1, <1>2, <1>3, <1>5

\* An entry for Layout.ini has as many paths as the file has lines, or none.
LEMMA LayoutEntry ==
  ASSUME WalkInv, RowsInv, FolderStep
  PROVE  \A k \in DOMAIN found' : found'[k].kind = "layout" => IsFiniteSet(found'[k].paths)
<1>1. found \in Seq(ToSet(found))
  BY DEF WalkInv
<1>2. ASSUME NEW a, found' = Append(found, a), a.kind = "layout" => IsFiniteSet(a.paths)
      PROVE  \A k \in DOMAIN found' : found'[k].kind = "layout" => IsFiniteSet(found'[k].paths)
  <2>1. \A k \in DOMAIN found' : (k \in DOMAIN found /\ found'[k] = found[k]) \/ found'[k] = a
    <3>1. /\ Len(found) \in Nat /\ DOMAIN found = 1 .. Len(found)
          /\ DOMAIN found' = 1 .. (Len(found) + 1)
          /\ found'[Len(found) + 1] = a /\ \A k \in DOMAIN found : found'[k] = found[k]
      BY <1>1, <1>2
    <3> QED
      BY <3>1
  <2> QED
    BY <1>2, <2>1 DEF RowsInv
<1>3. CASE \/ FolderRaises \/ StartWalk \/ NextDirectory \/ NextFile \/ FolderScanned
           \/ LeftToParse \/ StartDb \/ DbStep \/ DbRaises \/ StartBoot \/ BootStep \/ DateRaises
  <2>1. found' = found
    BY <1>3 DEF FolderRaises, StartWalk, NextDirectory, NextFile, FolderScanned, LeftToParse,
                StartDb, DbStep, DbRaises, StartBoot, BootStep, DateRaises, walkVars
  <2> QED
    BY <2>1 DEF RowsInv
<1>4. CASE NotRegular \/ NotOpened \/ Grown \/ Unrecognised \/ AboveCeiling
  <2>1. PICK kind, problem : Unparsed(kind, problem)
    BY <1>4 DEF NotRegular, NotOpened, Grown, Unrecognised, AboveCeiling
  <2>2. \E a : found' = Append(found, a) /\ a.paths = {}
    <3> DEFINE a == [file |-> file.name, kind |-> kind, paths |-> {}, records |-> <<>>,
                     names |-> {}, problems |-> {problem}]
    <3>1. found' = Append(found, a) /\ a.paths = {}
      BY <2>1 DEF Unparsed, Artifact
    <3> QED
      BY <3>1
  <2> QED
    BY <1>2, <2>2, FS_EmptySet
<1>5. CASE ParseLayout
  <2>1. \E a : found' = Append(found, a) /\ a.paths = PathLines(file.in.lines)
    <3> DEFINE a == [file |-> file.name, kind |-> "layout", paths |-> PathLines(file.in.lines),
                     records |-> <<>>, names |-> {},
                     problems |-> IF file.in.section THEN {} ELSE {"no section header"}]
    <3>1. found' = Append(found, a) /\ a.paths = PathLines(file.in.lines)
      BY <1>5 DEF ParseLayout, Artifact
    <3> QED
      BY <3>1
  <2>2. IsFiniteSet(PathLines(file.in.lines))
    <3> DEFINE lines == file.in.lines
    <3>1. lines \in Seq(ToSet(lines))
      <4>1. AtWork /\ file.kind = "layout"
        BY <1>5 DEF ParseLayout, Whole, AtWork
      <4> QED
        BY <4>1, FileAtHand, FolderFiles DEF WalkInv
    <3>2. IsFiniteSet(ToSet(lines))
      <4> HIDE DEF lines
      <4>1. Len(lines) \in Nat /\ DOMAIN lines = 1 .. Len(lines)
        BY <3>1
      <4>2. IsFiniteSet(1 .. Len(lines))
        BY <4>1, FS_Interval
      <4>3. lines = [k \in DOMAIN lines |-> lines[k]]
        BY <3>1
      <4>4. IsFiniteSet({lines[k] : k \in DOMAIN lines})
        BY <4>1, <4>2, <4>3, Images
      <4> QED
        BY <4>4 DEF ToSet
    <3> QED
      BY <3>2, FS_Subset DEF PathLines
  <2> QED
    BY <1>2, <2>1, <2>2
<1>6. CASE ParsePfpre \/ DbParsed \/ BootParsed
  <2>1. \E a : found' = Append(found, a) /\ a.kind # "layout"
    <3>1. PICK kind, given, theirs, volumeNames, problems :
            Artifact(kind, given, theirs, volumeNames, problems) /\ kind # "layout"
      BY <1>6 DEF ParsePfpre, DbParsed, BootParsed
    <3> DEFINE a == [file |-> file.name, kind |-> kind, paths |-> given, records |-> theirs,
                     names |-> volumeNames, problems |-> problems]
    <3>2. found' = Append(found, a) /\ a.kind # "layout"
      BY <3>1 DEF Artifact
    <3> QED
      BY <3>2
  <2> QED
    BY <1>2, <2>1
<1> QED
  BY <1>3, <1>4, <1>5, <1>6 DEF FolderStep

LEMMA RowsInductive == WalkInv /\ RowsInv /\ [Next]_vars => RowsInv'
<1> SUFFICES ASSUME WalkInv, RowsInv, [Next]_vars PROVE RowsInv'
  OBVIOUS
<1>1. CASE CorrelateVolumes
  <2>1. /\ found' = found /\ fs' = fs /\ fs = "returned"
        /\ rows' = Report /\ withheld' = {c[1] : c \in Withheld}
    BY <1>1 DEF CorrelateVolumes, Correlate, ToCorrelate, folderVars, walkVars
  <2>2. Report' = Report /\ Withheld' = Withheld
    BY <2>1, RowsFollowFound
  <2> QED
    BY <2>1, <2>2 DEF RowsInv
<1>2. CASE UNCHANGED volumeVars /\ UNCHANGED walkVars
  <2>1. UNCHANGED <<found, fs, correlated, rows, withheld>>
    BY <1>2 DEF volumeVars, walkVars
  <2>2. Report' = Report /\ Withheld' = Withheld
    BY <2>1, RowsFollowFound
  <2> QED
    BY <2>1, <2>2 DEF RowsInv
<1>3. CASE UNCHANGED volumeVars /\ FolderStep
  <2>1. fs # "returned"
    BY <1>3 DEF FolderStep, FolderRaises, StartWalk, NextDirectory, NextFile, FolderScanned,
                LeftToParse, NotRegular, NotOpened, Grown, Unrecognised, AboveCeiling, ParseLayout,
                ParsePfpre, Whole, StartDb, DbStep, DbParsed, DbRaises, StartBoot, BootStep, BootParsed,
                DateRaises, IsUnrecognised
  <2>2. ~correlated'
    BY <1>3, <2>1 DEF RowsInv, volumeVars
  <2> QED
    BY <1>3, <2>2, LayoutEntry DEF RowsInv
<1> QED
  BY <1>1, <1>2, <1>3, FolderAlone DEF folderVars

\* The rows with a letter are those of the claims, and no two claims share one.
LEMMA LetteredRows ==
  ASSUME WalkInv, RowsInv, correlated
  PROVE  /\ \A c \in Inferred : /\ c = <<c[1], c[2]>> /\ c[1] # "" /\ c[2] \in Devices
                                /\ RowOf(c) \in Lettered /\ RowOf(c).letter = c[1]
                                /\ RowOf(c).device = <<"DEVICE", c[2]>>
         /\ \A row \in Lettered : \E c \in Inferred : row = RowOf(c)
<1>1. \A c \in Inferred : /\ c = <<c[1], c[2]>> /\ c[1] # "" /\ c[2] \in Devices
                          /\ RowOf(c).letter = c[1] /\ RowOf(c).device = <<"DEVICE", c[2]>>
  BY ClaimShape, RowOfClaim DEF Inferred
<1>2. rows = {RowOf(c) : c \in Inferred} \cup {Row("", r.device, r, "stated") : r \in Unclaimed}
  BY DEF RowsInv, Report
<1>3. \A r \in Unclaimed : Row("", r.device, r, "stated").letter = ""
  BY DEF Row
<1> QED
  BY <1>1, <1>2, <1>3 DEF Lettered

\* A claim is of one letter and one device, and of what only that machine has.
LEMMA LettersClaimed ==
  ASSUME WalkInv, RowsInv, correlated
  PROVE  /\ LettersDistinct /\ MatchesTold
         /\ \A row \in Lettered : \E t \in Shared(row.letter, row.device[2]) : MachineSpecific(t)
<1>1. /\ \A c \in Inferred : \E row \in Lettered : row.letter = c[1]
      /\ \A row \in Lettered : \E c \in Inferred :
           row = RowOf(c) /\ c = <<row.letter, row.device[2]>> /\ row.device = <<"DEVICE", c[2]>>
      /\ \A c \in Withheld : c[1] \in withheld
  <2>1. \A c \in Inferred : LET row == RowOf(c) IN c = <<row.letter, row.device[2]>>
    <3> SUFFICES ASSUME NEW c \in Inferred
                 PROVE  c = <<RowOf(c).letter, RowOf(c).device[2]>>
      OBVIOUS
    <3>1. RowOf(c).device[2] = c[2]
      <4>1. <<"DEVICE", c[2]>>[2] = c[2]
        OBVIOUS
      <4> QED
        BY <4>1, LetteredRows
    <3> QED
      BY <3>1, LetteredRows
  <2>2. withheld = {c[1] : c \in Withheld}
    BY DEF RowsInv
  <2>3. ASSUME NEW row \in Lettered
        PROVE  \E c \in Inferred :
                 row = RowOf(c) /\ c = <<row.letter, row.device[2]>> /\ row.device = <<"DEVICE", c[2]>>
    <3>1. PICK c \in Inferred : row = RowOf(c)
      BY LetteredRows
    <3>2. c = <<row.letter, row.device[2]>> /\ row.device = <<"DEVICE", c[2]>>
      BY <2>1, <3>1, LetteredRows
    <3> QED
      BY <3>1, <3>2
  <2>4. ASSUME NEW c \in Inferred
        PROVE  \E row \in Lettered : row.letter = c[1]
    BY LetteredRows
  <2> QED
    BY <2>2, <2>3, <2>4
<1>2. \A c \in Inferred : c \in Claims /\ \A d \in Claims : d[2] = c[2] => d = c
  BY DEF Inferred
<1>3. \A c \in Claims \cup Withheld : /\ c = <<c[1], c[2]>> /\ c[2] \in Devices
                                      /\ Matches(c[1], c[2])
  BY ClaimShape
<1>4. \A c, d \in Claims \cup Withheld : c[1] = d[1] => c = d
  <2> SUFFICES ASSUME NEW c \in Claims \cup Withheld, NEW d \in Claims \cup Withheld, c[1] = d[1]
               PROVE  c = d
    OBVIOUS
  <2>1. c[2] = d[2]
    BY <1>3, OneDeviceMatches
  <2> QED
    BY <1>3, <2>1
<1>5. LettersDistinct
  <2> SUFFICES ASSUME NEW r \in Lettered, NEW s \in Lettered, r.letter = s.letter \/ r.device = s.device
               PROVE  r = s
    BY DEF LettersDistinct
  <2>1. PICK c \in Inferred : r = RowOf(c) /\ c = <<r.letter, r.device[2]>>
    BY <1>1
  <2>2. PICK d \in Inferred : s = RowOf(d) /\ d = <<s.letter, s.device[2]>>
    BY <1>1
  <2>3. c = d
    BY <1>2, <1>4, <2>1, <2>2
  <2> QED
    BY <2>1, <2>2, <2>3
<1>6. ASSUME NEW c \in Claims
      PROVE  (\E row \in Lettered : row.letter = c[1]) \/ \E d \in Claims : d # c /\ d[2] = c[2]
  BY <1>1 DEF Inferred
<1>7. ASSUME NEW c \in Withheld
      PROVE  c[1] \in withheld /\ ~\E row \in Lettered : row.letter = c[1]
  <2>1. c \notin Claims
    BY DEF Claims, Withheld
  <2>2. ASSUME NEW row \in Lettered, row.letter = c[1]
        PROVE  FALSE
    <3>1. <<row.letter, row.device[2]>> \in Claims
      BY <1>1, <1>2
    <3> QED
      BY <1>4, <2>1, <2>2, <3>1
  <2> QED
    BY <1>1, <2>2
<1>8. ASSUME NEW row \in Lettered
      PROVE  \E t \in Shared(row.letter, row.device[2]) : MachineSpecific(t)
  <2> DEFINE T == {t \in Shared(row.letter, row.device[2]) : MachineSpecific(t)}
  <2>1. <<row.letter, row.device[2]>> \in Claims
    BY <1>1, <1>2
  <2>2. Cardinality(T) >= MinSpecific
    BY <2>1 DEF Claims, SameMachine
  <2>3. T # {}
    BY <2>2, FS_EmptySet, VolumeAssumption
  <2> QED
    BY <2>3
<1> QED
  BY <1>5, <1>6, <1>7, <1>8 DEF MatchesTold

(*****************************************************************************)
(* What is unpacked.  The wrappers count: what a decoder returns has the size *)
(* it was asked for, and what they ask for adds up to what the file declares, *)
(* or the file is refused.                                                    *)

\* What was asked for and what came out, by where the unpacking is.
UnpackInv ==
  /\ xp # "idle" => out \in Seq(ToSet(out)) /\ outSize \in Nat
  /\ xp = "returned" => Len(out) = outSize
  /\ un # "idle" => IsWrapped(wrapped)
  /\ un = "open" => payload = <<>>
  /\ un \in {"mam", "chain", "chunk", "blocks", "block"} =>
       /\ wrapped.kind \notin {"none", "MEMO"}
       /\ Total \in Nat /\ Total <= MaxOutput
  /\ un = "mam" => outSize = Total
  /\ un \in {"chain", "chunk", "blocks", "block"} =>
       payload \in Seq(ToSet(payload)) /\ Len(payload) <= Total
  /\ un \in {"chain", "chunk"} => Missing > 0
  /\ un = "chunk" => outSize = IF Final THEN Missing ELSE BlockSize
  /\ un \in {"blocks", "block"} => sizes \in Seq(Nat) /\ sizes # <<>>
  /\ un = "block" => outSize <= Missing
  /\ un = "memo" => wrapped.kind = "MEMO"
  /\ DeclaredSize
  /\ un = "done" /\ wrapped.kind \notin {"none", "MEMO"} => Total <= MaxOutput

\* A sequence is one of its own elements, also when it grows.
LEMMA OfItself ==
  ASSUME NEW S, NEW s \in Seq(S)
  PROVE  s \in Seq(ToSet(s)) /\ Len(s) \in Nat
<1>1. Len(s) \in Nat /\ DOMAIN s = 1 .. Len(s) /\ \A k \in DOMAIN s : s[k] \in ToSet(s)
  BY DEF ToSet
<1> QED
  BY <1>1

LEMMA Grows ==
  ASSUME NEW s, s \in Seq(ToSet(s)), NEW x
  PROVE  Append(s, x) \in Seq(ToSet(Append(s, x)))
<1>1. Append(s, x) \in Seq(ToSet(s) \cup {x})
  OBVIOUS
<1> QED
  BY <1>1, OfItself

LEMMA Adds ==
  ASSUME NEW s, s \in Seq(ToSet(s)), NEW t, t \in Seq(ToSet(t))
  PROVE  s \o t \in Seq(ToSet(s \o t)) /\ Len(s \o t) = Len(s) + Len(t)
<1>1. s \in Seq(ToSet(s) \cup ToSet(t)) /\ t \in Seq(ToSet(s) \cup ToSet(t))
  OBVIOUS
<1>2. s \o t \in Seq(ToSet(s) \cup ToSet(t)) /\ Len(s \o t) = Len(s) + Len(t)
  BY <1>1
<1> QED
  BY <1>2, OfItself

LEMMA CutOff ==
  ASSUME NEW s, s \in Seq(ToSet(s)), NEW n \in Nat, n <= Len(s)
  PROVE  SubSeq(s, 1, n) \in Seq(ToSet(SubSeq(s, 1, n))) /\ Len(SubSeq(s, 1, n)) = n
<1>1. SubSeq(s, 1, n) \in Seq(ToSet(s)) /\ Len(SubSeq(s, 1, n)) = n
  OBVIOUS
<1> QED
  BY <1>1, OfItself

\* A decoder that runs is asked for the same, and returns as much.
LEMMA DecoderStep ==
  ASSUME out \in Seq(ToSet(out)), outSize \in Nat, XpressStep
  PROVE  /\ xp' # "idle" /\ outSize' = outSize /\ out' \in Seq(ToSet(out'))
         /\ xp' = "returned" => Len(out') = outSize'
<1>1. CASE XpressReturns
  <2>1. out' = SubSeq(out, 1, outSize) /\ Len(out) >= outSize /\ outSize' = outSize /\ xp' = "returned"
    BY <1>1 DEF XpressReturns
  <2>2. outSize <= Len(out)
    BY <2>1
  <2> QED
    BY <2>1, <2>2, CutOff
<1>2. CASE \/ OpenBlock \/ BlockRefused \/ EndBlock \/ Match \/ SymbolRefused
           \/ NibbleLength \/ ByteLength \/ WordLength \/ DwordLength \/ LengthRefused
           \/ Offset \/ OffsetRefused
  <2>1. /\ out' = out /\ outSize' = outSize
        /\ xp' \in {"symbol", "refused", "block", "length", "offset", "copy"}
    BY <1>2 DEF OpenBlock, BlockRefused, EndBlock, Match, SymbolRefused, NibbleLength, ByteLength,
                WordLength, DwordLength, LengthRefused, Offset, OffsetRefused, HasLength, XpressRefuses
  <2> QED
    BY <2>1
<1>3. CASE Literal
  <2>1. out' = Append(out, Symbol) /\ outSize' = outSize /\ xp' = "symbol"
    BY <1>3 DEF Literal, InBlock
  <2> QED
    BY <2>1, Grows
<1>4. CASE CopyByte
  <2>1. /\ out' = Append(out, out[Len(out) - match.distance + 1]) /\ outSize' = outSize
        /\ xp' \in {"symbol", "copy"}
    BY <1>4 DEF CopyByte
  <2> QED
    BY <2>1, Grows
<1> QED
  BY <1>1, <1>2, <1>3, <1>4 DEF XpressStep

\* A step of the decoder or of its wrapper.
LEMMA WrapperStep ==
  ASSUME UnpackInv, UnpackStep
  PROVE  UnpackInv'
<1>1. un \notin {"idle", "done", "failed"} /\ IsWrapped(wrapped) /\ wrapped' = wrapped
  BY DEF UnpackInv, UnpackStep, Decode, Decoding, Uncompressed, MamRefused, OpenMam, MamDecoded,
         DecoderFails, PfbRefused, OpenPfb, ChunkRefused, Chunk, ChunkDecoded, TrailerCut, LastChunk,
         BlocksRefused, OpenBlocks, NextBlock, BlockDecoded, NextSize, NoSizeFits, SizeFails,
         BlocksDecoded, MemoUnreadable, OpenMemo, DecodeMemo, MemoDecoded, MemoFails, UnpackFails,
         StreamAt, DecodeNext, unpackVars
<1>2. Total' = Total /\ IsWrapped(wrapped)' = IsWrapped(wrapped)
  BY <1>1 DEF Total, Raw
<1>3. ASSUME wrapped.kind # "none", Raw # <<>>
      PROVE  Total \in Nat
  BY <1>1, <1>3 DEF IsWrapped, Raw, Total
<1>4. Len(Raw) \in Nat /\ (Len(Raw) >= 2 => Raw # <<>>)
  BY <1>1 DEF IsWrapped, Raw
<1>5. BlockSize \in Nat /\ MemSizes \in Seq(Nat) /\ MemSizes # <<>>
  BY UnpackAssumption
<1>6. CASE Decode
  <2>1. un \in {"mam", "chunk", "block"} /\ UNCHANGED unpackVars /\ XpressStep
    BY <1>6 DEF Decode, Decoding
  <2>2. xp # "idle"
    BY <2>1 DEF XpressStep, OpenBlock, BlockRefused, XpressReturns, EndBlock, Literal, Match,
                SymbolRefused, InBlock, NibbleLength, ByteLength, WordLength, DwordLength, Escaped,
                LengthRefused, Offset, OffsetRefused, CopyByte
  <2>3. /\ xp' # "idle" /\ outSize' = outSize /\ outSize' \in Nat /\ out' \in Seq(ToSet(out'))
        /\ xp' = "returned" => Len(out') = outSize'
    BY <2>1, <2>2, DecoderStep DEF UnpackInv
  <2>4. UNCHANGED <<wrapped, un, sizes, rawPos, chunkLen, payload>>
    BY <2>1 DEF unpackVars
  <2>5. Missing' = Missing /\ DeclaredSize'
    BY <1>2, <2>1, <2>4 DEF Missing, DeclaredSize
  <2>6. Final' = Final
    BY <2>5 DEF Final
  <2>7. /\ wrapped.kind \notin {"none", "MEMO"} /\ Total \in Nat /\ Total <= MaxOutput
        /\ un = "mam" => outSize = Total
        /\ un # "mam" => payload \in Seq(ToSet(payload)) /\ Len(payload) <= Total
        /\ un = "chunk" => Missing > 0 /\ outSize = IF Final THEN Missing ELSE BlockSize
        /\ un = "block" => sizes \in Seq(Nat) /\ sizes # <<>> /\ outSize <= Missing
    BY <2>1 DEF UnpackInv
  <2>8. CASE un = "mam"
    BY <1>1, <1>2, <2>3, <2>4, <2>5, <2>7, <2>8 DEF UnpackInv
  <2>9. CASE un = "chunk"
    <3>1. /\ un' = "chunk" /\ payload' \in Seq(ToSet(payload'))
          /\ Len(payload') <= Total /\ Missing' > 0
          /\ outSize' = IF Final' THEN Missing' ELSE BlockSize
      BY <2>3, <2>4, <2>5, <2>6, <2>7, <2>9
    <3>2. wrapped'.kind \notin {"none", "MEMO"} /\ Total' \in Nat /\ Total' <= MaxOutput
      BY <1>1, <1>2, <2>7
    <3> QED
      BY <1>1, <1>2, <2>3, <2>5, <3>1, <3>2 DEF UnpackInv
  <2>10. CASE un = "block"
    <3>1. /\ un' = "block" /\ payload' \in Seq(ToSet(payload')) /\ Len(payload') <= Total
          /\ sizes' \in Seq(Nat) /\ sizes' # <<>> /\ outSize' <= Missing'
      BY <2>3, <2>4, <2>5, <2>7, <2>10
    <3>2. wrapped'.kind \notin {"none", "MEMO"} /\ Total' \in Nat /\ Total' <= MaxOutput
      BY <1>1, <1>2, <2>7
    <3> QED
      BY <1>1, <1>2, <2>3, <2>5, <3>1, <3>2 DEF UnpackInv
  <2> QED
    BY <2>1, <2>8, <2>9, <2>10
<1>7. ASSUME un' = "failed", UNCHANGED <<out, outSize, xp>>
      PROVE  UnpackInv'
  <2>1. DeclaredSize'
    BY <1>7 DEF DeclaredSize
  <2> QED
    BY <1>1, <1>2, <1>7, <2>1 DEF UnpackInv
<1>8. CASE \/ MamRefused \/ DecoderFails \/ PfbRefused \/ ChunkRefused \/ TrailerCut \/ BlocksRefused
           \/ NoSizeFits \/ MemoUnreadable \/ MemoFails
  <2>1. UnpackFails
    BY <1>8 DEF MamRefused, DecoderFails, PfbRefused, ChunkRefused, TrailerCut, BlocksRefused,
                NoSizeFits, MemoUnreadable, MemoFails
  <2> QED
    BY <1>7, <2>1 DEF UnpackFails, decoders, xpressVars
<1>9. CASE Uncompressed
  <2>1. /\ wrapped.kind = "none" /\ un' = "done" /\ UNCHANGED <<out, outSize, xp>>
    BY <1>9 DEF Uncompressed, decoders, xpressVars
  <2>2. DeclaredSize'
    BY <1>1, <2>1 DEF DeclaredSize
  <2> QED
    BY <1>1, <1>2, <2>1, <2>2 DEF UnpackInv
<1>10. ASSUME NEW cells, NEW size \in Nat, Decompress(cells, size)
       PROVE  /\ outSize' = size /\ xp' = "block" /\ out' \in Seq(ToSet(out'))
  <2>1. out' = <<>> /\ outSize' = size /\ xp' = "block"
    BY <1>10 DEF Decompress
  <2> QED
    BY <2>1
<1>11. CASE OpenMam
  <2>1. /\ wrapped.kind = "MAM" /\ Raw # <<>> /\ Total <= MaxOutput /\ un' = "mam"
        /\ Decompress(Tail(Raw), Total)
    BY <1>4, <1>11 DEF OpenMam
  <2>2. Total \in Nat
    BY <1>3, <2>1
  <2>3. outSize' = Total /\ xp' = "block" /\ out' \in Seq(ToSet(out'))
    BY <1>10, <2>1, <2>2
  <2>4. DeclaredSize'
    BY <2>1 DEF DeclaredSize
  <2> QED
    BY <1>1, <1>2, <2>1, <2>2, <2>3, <2>4 DEF UnpackInv
<1>12. CASE MamDecoded
  <2>1. /\ un = "mam" /\ xp = "returned" /\ payload' = out /\ un' = "done"
        /\ UNCHANGED <<out, outSize, xp>>
    BY <1>12 DEF MamDecoded, decoders, xpressVars
  <2>2. Len(out) = Total /\ Total <= MaxOutput
    BY <2>1 DEF UnpackInv
  <2>3. DeclaredSize'
    BY <1>2, <2>1, <2>2 DEF DeclaredSize
  <2> QED
    BY <1>1, <1>2, <2>1, <2>2, <2>3 DEF UnpackInv
<1>13. CASE OpenPfb
  <2>1. /\ un = "open" /\ wrapped.kind = "PfB" /\ Total \in 1 .. MaxOutput /\ Raw # <<>>
        /\ un' = "chain" /\ payload' = payload /\ UNCHANGED <<out, outSize, xp>>
    BY <1>4, <1>13 DEF OpenPfb, StreamAt, decoders, xpressVars
  <2>2. Total \in Nat /\ Total > 0 /\ Total <= MaxOutput
    BY <1>3, <2>1
  <2>3. payload' = <<>> /\ Len(payload') = 0 /\ payload' \in Seq(ToSet(payload'))
    BY <2>1 DEF UnpackInv
  <2>4. Missing' > 0 /\ Len(payload') <= Total
    BY <1>2, <2>2, <2>3 DEF Missing
  <2>5. DeclaredSize'
    BY <2>1 DEF DeclaredSize
  <2> QED
    BY <1>1, <1>2, <2>1, <2>2, <2>3, <2>4, <2>5 DEF UnpackInv
<1>14. CASE Chunk
  <2>1. /\ un = "chain" /\ un' = "chunk" /\ payload' = payload
        /\ \E cells : Decompress(cells, IF Final THEN Missing ELSE BlockSize)
    BY <1>14 DEF Chunk, DecodeNext
  <2>2. /\ Total \in Nat /\ Total <= MaxOutput /\ wrapped.kind \notin {"none", "MEMO"}
        /\ payload \in Seq(ToSet(payload)) /\ Len(payload) <= Total /\ Missing > 0
    BY <2>1 DEF UnpackInv
  <2>3. Missing \in Nat
    BY <2>2 DEF Missing
  <2>4. /\ outSize' = IF Final THEN Missing ELSE BlockSize
        /\ outSize' \in Nat /\ xp' = "block" /\ out' \in Seq(ToSet(out'))
    BY <1>5, <1>10, <2>1, <2>3
  <2>5. Missing' = Missing
    BY <1>2, <2>1 DEF Missing
  <2>6. Final' = Final
    BY <2>5 DEF Final
  <2>7. DeclaredSize'
    BY <2>1 DEF DeclaredSize
  <2> QED
    BY <1>1, <1>2, <2>1, <2>2, <2>4, <2>5, <2>6, <2>7 DEF UnpackInv
<1>15. CASE ChunkDecoded \/ LastChunk
  <2>1. /\ un = "chunk" /\ xp = "returned" /\ payload' = payload \o out
        /\ UNCHANGED <<out, outSize, xp>>
        /\ \/ un' = "chain" /\ Len(payload') < Total
           \/ un' = "done" /\ Len(payload') >= Total
    BY <1>15 DEF ChunkDecoded, LastChunk, decoders, xpressVars
  <2>2. /\ Total \in Nat /\ Total <= MaxOutput /\ wrapped.kind \notin {"none", "MEMO"}
        /\ payload \in Seq(ToSet(payload)) /\ Len(payload) <= Total /\ Missing > 0
        /\ out \in Seq(ToSet(out)) /\ Len(out) = outSize
        /\ outSize = IF Final THEN Missing ELSE BlockSize
    BY <2>1 DEF UnpackInv
  <2>3. payload' \in Seq(ToSet(payload')) /\ Len(payload') = Len(payload) + Len(out)
    BY <2>1, <2>2, Adds
  <2>4. Len(payload) \in Nat /\ Len(out) \in Nat
    BY <2>2
  <2>5. Len(payload') <= Total
    <3>1. Len(out) <= Missing
      BY <1>5, <2>2, <2>4 DEF Final, Missing
    <3> QED
      BY <2>2, <2>3, <2>4, <3>1 DEF Missing
  <2>6. un' = "chain" => Missing' > 0
    BY <1>2, <2>1, <2>2, <2>3, <2>4 DEF Missing
  <2>7. ASSUME un' = "done" PROVE Len(payload') = Total
    <3>1. Len(payload') >= Total
      BY <2>1, <2>7
    <3>2. Len(payload') \in Int /\ Total \in Int
      BY <2>2, <2>3, <2>4
    <3> QED
      BY <2>5, <3>1, <3>2
  <2>8. DeclaredSize'
    BY <1>2, <2>1, <2>7 DEF DeclaredSize
  <2> QED
    BY <1>1, <1>2, <2>1, <2>2, <2>3, <2>5, <2>6, <2>8 DEF UnpackInv
<1>16. CASE OpenBlocks
  <2>1. /\ un = "open" /\ Blocked /\ Raw # <<>> /\ Total <= MaxOutput
        /\ un' = "blocks" /\ payload' = payload /\ UNCHANGED <<out, outSize, xp>>
        /\ sizes' = IF wrapped.kind = "MEM0" THEN <<BlockSize>> ELSE MemSizes
    BY <1>16 DEF OpenBlocks, StreamAt, decoders, xpressVars
  <2>2. wrapped.kind \notin {"none", "MEMO"}
    BY <2>1 DEF Blocked
  <2>3. Total \in Nat
    BY <1>3, <2>1, <2>2
  <2>4. sizes' \in Seq(Nat) /\ sizes' # <<>>
    BY <1>5, <2>1
  <2>5. payload' = <<>> /\ Len(payload') = 0 /\ payload' \in Seq(ToSet(payload'))
    BY <2>1 DEF UnpackInv
  <2>6. Len(payload') <= Total
    BY <2>3, <2>5
  <2>7. DeclaredSize'
    BY <2>1 DEF DeclaredSize
  <2> QED
    BY <1>1, <1>2, <2>1, <2>2, <2>3, <2>4, <2>5, <2>6, <2>7 DEF UnpackInv
<1>17. ASSUME un \in {"blocks", "block"}
       PROVE  /\ Total \in Nat /\ Total <= MaxOutput /\ wrapped.kind \notin {"none", "MEMO"}
              /\ payload \in Seq(ToSet(payload)) /\ Len(payload) \in Nat /\ Len(payload) <= Total
              /\ sizes \in Seq(Nat) /\ sizes # <<>> /\ Missing \in Nat
  <2>1. /\ Total \in Nat /\ Total <= MaxOutput /\ wrapped.kind \notin {"none", "MEMO"}
        /\ payload \in Seq(ToSet(payload)) /\ Len(payload) <= Total
        /\ sizes \in Seq(Nat) /\ sizes # <<>>
    BY <1>17 DEF UnpackInv
  <2>2. Len(payload) \in Nat
    BY <2>1
  <2> QED
    BY <2>1, <2>2 DEF Missing
<1>18. CASE NextBlock
  <2>1. /\ un = "blocks" /\ un' = "block" /\ payload' = payload /\ sizes' = sizes
        /\ \E cells : Decompress(cells, IF Head(sizes) < Missing THEN Head(sizes) ELSE Missing)
    BY <1>18 DEF NextBlock
  <2>2. Head(sizes) \in Nat
    BY <1>17, <2>1
  <2>3. /\ outSize' = IF Head(sizes) < Missing THEN Head(sizes) ELSE Missing
        /\ outSize' \in Nat /\ xp' = "block" /\ out' \in Seq(ToSet(out'))
    BY <1>10, <1>17, <2>1, <2>2
  <2>4. Missing' = Missing
    BY <1>2, <2>1 DEF Missing
  <2>5. outSize' <= Missing'
    BY <1>17, <2>1, <2>2, <2>3, <2>4
  <2>6. DeclaredSize'
    BY <2>1 DEF DeclaredSize
  <2> QED
    BY <1>1, <1>2, <1>17, <2>1, <2>3, <2>5, <2>6 DEF UnpackInv
<1>19. CASE BlockDecoded
  <2>1. /\ un = "block" /\ xp = "returned" /\ payload' = payload \o out /\ un' = "blocks"
        /\ sizes' = sizes /\ UNCHANGED <<out, outSize, xp>>
    BY <1>19 DEF BlockDecoded, decoders, xpressVars
  <2>2. out \in Seq(ToSet(out)) /\ outSize \in Nat /\ Len(out) = outSize /\ outSize <= Missing
    BY <2>1 DEF UnpackInv
  <2>3. payload' \in Seq(ToSet(payload')) /\ Len(payload') = Len(payload) + Len(out)
    BY <1>17, <2>1, <2>2, Adds
  <2>4. Len(payload') <= Total
    BY <1>17, <2>1, <2>2, <2>3 DEF Missing
  <2>5. DeclaredSize'
    BY <2>1 DEF DeclaredSize
  <2> QED
    BY <1>1, <1>2, <1>17, <2>1, <2>2, <2>3, <2>4, <2>5 DEF UnpackInv
<1>20. CASE NextSize
  <2>1. /\ un \in {"blocks", "block"} /\ un' = "blocks" /\ payload' = <<>>
        /\ Len(sizes) > 1 /\ sizes' = Tail(sizes) /\ UNCHANGED <<out, outSize, xp>>
    BY <1>20 DEF NextSize, SizeFails, decoders, xpressVars
  <2>2. sizes' \in Seq(Nat) /\ sizes' # <<>>
    <3>1. /\ sizes \in Seq(Nat) /\ Tail(sizes) \in Seq(Nat)
          /\ Len(sizes) \in Nat /\ Len(Tail(sizes)) = Len(sizes) - 1
      BY <1>17, <2>1
    <3>2. Len(Tail(sizes)) > 0
      BY <2>1, <3>1
    <3> QED
      BY <2>1, <3>1, <3>2
  <2>3. Len(payload') = 0 /\ payload' \in Seq(ToSet(payload'))
    BY <2>1
  <2>4. Len(payload') <= Total
    BY <1>17, <2>1, <2>3
  <2>5. DeclaredSize'
    BY <2>1 DEF DeclaredSize
  <2> QED
    BY <1>1, <1>2, <1>17, <2>1, <2>2, <2>3, <2>4, <2>5 DEF UnpackInv
<1>21. CASE BlocksDecoded
  <2>1. /\ un = "blocks" /\ Missing = 0 /\ un' = "done" /\ payload' = payload
        /\ UNCHANGED <<out, outSize, xp>>
    BY <1>21 DEF BlocksDecoded, decoders, xpressVars
  <2>2. Len(payload') = Total
    BY <1>17, <2>1 DEF Missing
  <2>3. DeclaredSize'
    BY <1>2, <2>2 DEF DeclaredSize
  <2> QED
    BY <1>1, <1>2, <1>17, <2>1, <2>2, <2>3 DEF UnpackInv
<1>22. CASE OpenMemo \/ DecodeMemo
  <2>1. /\ wrapped.kind = "MEMO" /\ un' = "memo" /\ UNCHANGED <<out, outSize, xp>>
    BY <1>22 DEF OpenMemo, DecodeMemo, UnpackInv, unpackVars, xpressVars
  <2>2. DeclaredSize'
    BY <2>1 DEF DeclaredSize
  <2> QED
    BY <1>1, <1>2, <2>1, <2>2 DEF UnpackInv
<1>23. CASE MemoDecoded
  <2>1. /\ un = "memo" /\ un' = "done" /\ payload' = lz.out /\ Len(lz.out) = Total
        /\ UNCHANGED <<out, outSize, xp>>
    BY <1>23 DEF MemoDecoded, decoders, xpressVars
  <2>2. wrapped.kind = "MEMO"
    BY <2>1 DEF UnpackInv
  <2>3. DeclaredSize'
    BY <1>2, <2>1 DEF DeclaredSize
  <2> QED
    BY <1>1, <1>2, <2>1, <2>2, <2>3 DEF UnpackInv
<1> QED
  BY <1>6, <1>8, <1>9, <1>11, <1>12, <1>13, <1>14, <1>15, <1>16, <1>18, <1>19, <1>20, <1>21, <1>22,
     <1>23 DEF UnpackStep

\* Only parse_superfetch and parse_readyboot unpack, the file they were given.
LEMMA UnpackAlone ==
  ASSUME WalkInv, [Next]_vars
  PROVE  \/ UnpackStep
         \/ \E given : IsWrapped(given) /\ Unpack(given) /\ UNCHANGED decoders
         \/ UNCHANGED <<unpackVars, decoders>>
<1>1. CASE FolderStep
  <2>1. CASE \/ FolderRaises \/ StartWalk \/ NextDirectory \/ NextFile \/ FolderScanned \/ LeftToParse
             \/ NotRegular \/ NotOpened \/ Grown \/ Unrecognised \/ AboveCeiling
             \/ ParseLayout \/ ParsePfpre \/ DbParsed \/ DbRaises \/ BootParsed \/ DateRaises
    BY <2>1 DEF FolderRaises, StartWalk, NextDirectory, NextFile, FolderScanned, LeftToParse,
                NotRegular, NotOpened, Grown, Unrecognised, AboveCeiling, Unparsed, ParseLayout,
                ParsePfpre, DbParsed, DbRaises, BootParsed, DateRaises, ParsersIdle
  <2>2. CASE StartDb \/ StartBoot
    <3>1. AtWork /\ file.kind \in {"superfetch", "readyboot"}
      BY <2>2 DEF StartDb, StartBoot, Whole, AtWork
    <3>2. IsWrapped(file.in)
      BY <3>1, FileAtHand, FolderFiles DEF WalkInv
    <3> QED
      BY <2>2, <3>2 DEF StartDb, StartBoot, ParseSuperFetch, ParseReadyBoot
  <2>3. CASE DbStep
    BY <2>3 DEF DbStep, SuperFetchStep, DbUnpacking, DbNotUnpacked, DbTooSmall, ProbeRaises,
                Undocumented, Recognised, WalkVolume, WalkEntry, WalkHolds, WalkFails, ScanVolume,
                ScanEntry, VolumeScanned, ScanHolds, ScanFails, SweptOnly, Recovered, ReadVolume,
                ReadEntry
  <2>4. CASE BootStep
    BY <2>4 DEF BootStep, ReadyBootStep, Unpacking, PayloadLost, NoTable, EmptyTable, ReadTable,
                FollowLink, PathJoined,
                 PathDropped, PathsResolved, NoIo, IoRefused, ReadEvent, BlockRead, NextSection, IoRead, ReadyBootReturns, Apart
  <2> QED
    BY <1>1, <2>1, <2>2, <2>3, <2>4 DEF FolderStep
<1> QED
  BY <1>1, FolderAlone DEF folderVars

LEMMA UnpackInductive == WalkInv /\ UnpackInv /\ [Next]_vars => UnpackInv'
<1> SUFFICES ASSUME WalkInv, UnpackInv, [Next]_vars PROVE UnpackInv'
  OBVIOUS
<1>1. CASE UnpackStep
  BY <1>1, WrapperStep
<1>2. ASSUME NEW given, IsWrapped(given), Unpack(given), UNCHANGED decoders
      PROVE  UnpackInv'
  <2>1. /\ wrapped' = given /\ un' = "open" /\ payload' = <<>> /\ UNCHANGED <<out, outSize, xp>>
    BY <1>2 DEF Unpack, decoders, xpressVars
  <2>2. IsWrapped(wrapped)' = IsWrapped(given) /\ DeclaredSize'
    BY <2>1 DEF DeclaredSize, IsWrapped
  <2> QED
    BY <1>2, <2>1, <2>2 DEF UnpackInv
<1>3. CASE UNCHANGED <<unpackVars, decoders>>
  <2>1. UNCHANGED <<wrapped, un, sizes, payload, xp, out, outSize>>
    BY <1>3 DEF unpackVars, decoders, xpressVars
  <2>2. /\ Total' = Total /\ IsWrapped(wrapped)' = IsWrapped(wrapped)
        /\ ToSet(out)' = ToSet(out) /\ ToSet(payload)' = ToSet(payload)
    BY <2>1 DEF Total, Raw, IsWrapped
  <2>3. Missing' = Missing
    BY <2>1, <2>2 DEF Missing
  <2>4. Final' = Final
    BY <2>3 DEF Final
  <2>5. DeclaredSize' = DeclaredSize
    BY <2>1, <2>2 DEF DeclaredSize
  <2> QED
    BY <2>1, <2>2, <2>3, <2>4, <2>5 DEF UnpackInv
<1> QED
  BY <1>1, <1>2, <1>3, UnpackAlone

\* agdb.py:68-69, 299-304 and xpress.py: for any input, sound or not, what is unpacked has the
\* size the file declares, and a size above the ceiling is unpacked only from Vista's
\* format, which has none.
THEOREM UnpackedAsDeclared ==
  Spec => [](/\ DeclaredSize
             /\ un = "done" /\ wrapped.kind \notin {"none", "MEMO"} => Len(payload) <= MaxOutput)
<1> DEFINE Bounded == un = "done" /\ wrapped.kind \notin {"none", "MEMO"} => Len(payload) <= MaxOutput
<1>1. Init => WalkInv /\ UnpackInv
  <2> SUFFICES ASSUME Init PROVE WalkInv /\ UnpackInv
    OBVIOUS
  <2>1. un = "idle" /\ xp = "idle"
    BY DEF Init, FolderInit, UnpackInit, XpressInit
  <2>2. UnpackInv
    BY <2>1 DEF UnpackInv, DeclaredSize
  <2> QED
    BY <2>2, WalkInitially
<1>2. WalkInv /\ UnpackInv => DeclaredSize /\ Bounded
  BY DEF UnpackInv, DeclaredSize
<1> QED
  BY <1>1, <1>2, WalkInductive, UnpackInductive, PTL DEF Spec

\* A function on 1 .. n is a sequence of n.
LEMMA OfLength ==
  ASSUME NEW n \in Nat, NEW S, NEW s \in [1 .. n -> S]
  PROVE  s \in Seq(S) /\ Len(s) = n /\ DOMAIN s = 1 .. n
BY SeqDef

(* A boot trace.  What was read of the table is its beginning; of a record's  *)
(* chain of parents, what was passed is the end of any way that leads to the  *)
(* record, so a chain that is given up has no such way; and what was counted  *)
(* are the events up to where the reader is.                                  *)

NamesRead ==
  /\ names \in Seq(ToSet(Inner.table)) /\ Len(names) <= Len(Inner.table)
  /\ \A k \in DOMAIN names : names[k] = Inner.table[k]

\* Of any way of n records that leads to the record at hand, the last ones were passed.
Climbed ==
  \A n \in 1 .. MaxDepth : \A way \in [1 .. n -> DOMAIN names] :
    LeadsTo(way, offset) =>
      /\ Len(chain) <= n
      /\ \A j \in DOMAIN chain : chain[j] = way[n - Len(chain) + j]
      /\ link = IF Len(chain) = n THEN NoParent ELSE way[n - Len(chain)]

ChainInv ==
  /\ offset \in 1 .. Len(names) + 1
  /\ chain \in Seq(DOMAIN names) /\ Len(chain) <= MaxDepth
  /\ IF chain = <<>> THEN link = offset
     ELSE chain[Len(chain)] = offset /\ names[chain[1]].parent = link
  /\ \A j \in DOMAIN chain : j > 1 => names[chain[j]].parent = chain[j - 1]
  /\ Climbed

NoWay(k) ==
  \A n \in 1 .. MaxDepth : \A way \in [1 .. n -> DOMAIN names] : ~LeadsTo(way, k)

GivenUp == {k \in 1 .. (offset - 1) : ~HasPath(k)}

PathsInv ==
  /\ paths \in Seq(Seq(DOMAIN names))
  /\ \A j \in DOMAIN paths :
       LeadsTo(paths[j], paths[j][Len(paths[j])]) /\ paths[j][Len(paths[j])] < offset
  /\ broken \in Nat /\ Len(paths) + broken = offset - 1
  /\ broken = Cardinality(GivenUp) /\ \A k \in GivenUp : NoWay(k)

\* The block a section starts in.
StartOf(s) ==
  IF s = 1 THEN 0
  ELSE IF s = 2 THEN BlocksOf(Inner.sections[1])
  ELSE BlocksOf(Inner.sections[1]) + BlocksOf(Inner.sections[2])

IoPlace ==
  /\ section \in 1 .. 3 /\ block \in Nat /\ emitted \in Nat /\ taken \in Nat
  /\ section = 3 => block = StartOf(3) /\ taken = 0
  /\ section <= 2 =>
       LET size   == Inner.sections[section]
           passed == block - StartOf(section)
       IN  /\ passed \in 0 .. BlocksOf(size)
           /\ emitted = IF PerBlock * passed < size THEN PerBlock * passed ELSE size
           /\ taken <= Take /\ (taken > 0 => emitted < size)

EventsSeen == {p \in EventPlaces : p[1] <= block \/ (p[1] = block + 1 /\ p[2] <= taken)}

\* What the summary says of some of the events.
Summed(some) ==
  /\ DOMAIN reads = {EventAt(p).name : p \in some}
  /\ \A n \in DOMAIN reads : reads[n] = Cardinality({p \in some : EventAt(p).name = n})
  /\ IF some = {} THEN clock = <<>>
     ELSE /\ clock \in Nat \X Nat
          /\ \A p \in some : EventAt(p).when \in clock[1] .. clock[2]
          /\ \E p \in some : EventAt(p).when = clock[1]
          /\ \E p \in some : EventAt(p).when = clock[2]

NoProblem == bootProblems \subseteq {"decoded lossily"}

BootInv ==
  rb # "idle" =>
    /\ IsTrace(Inner)
    /\ rb = "payload" => names = <<>> /\ bootProblems = {}
    /\ rb \in {"payload", "paths"} => section = 1 /\ block = 0 /\ emitted = 0 /\ taken = 0
    /\ rb \in {"io", "done"} => offset = Len(names) + 1
    /\ NamesRead /\ ChainInv /\ PathsInv
    /\ IoPlace /\ Summed(EventsSeen)
    /\ NoProblem =>
         /\ rb \in {"paths", "io", "done"} => names = Inner.table
         /\ rb \in {"io", "done"} => broken = 0
         /\ rb = "done" /\ Inner.io => section = 3

\* A way from a root does not come back to a record.
LEMMA NoLoop ==
  ASSUME IsTrace(Inner), NEW r \in Seq(DOMAIN Inner.table), NEW k, LeadsTo(r, k)
  PROVE  \A i, j \in DOMAIN r : r[i] = r[j] => i = j
<1> DEFINE S == {i \in DOMAIN r : \E j \in DOMAIN r : i < j /\ r[i] = r[j]}
<1>1. Len(r) \in Nat /\ DOMAIN r = 1 .. Len(r) /\ \A i \in DOMAIN r : r[i] \in DOMAIN Inner.table
  BY LenProperties, ElementOfSeq
<1>2. DOMAIN Inner.table = 1 .. Len(Inner.table) /\ Len(Inner.table) \in Nat
  BY LenProperties DEF IsTrace
<1>3. \A i \in DOMAIN r : Inner.table[r[i]].parent = IF i = 1 THEN 0 ELSE r[i - 1]
  BY DEF LeadsTo, NoParent
<1>4. S = {}
  <2> SUFFICES ASSUME S # {} PROVE FALSE
    OBVIOUS
  <2>1. S \subseteq Nat
    BY <1>1
  <2>2. PICK i \in S : \A m \in S : i <= m
    <3> HIDE DEF S
    <3> QED
      BY <2>1, LeastNat
  <2>3. PICK j \in DOMAIN r : i < j /\ r[i] = r[j]
    OBVIOUS
  <2>4. j - 1 \in DOMAIN r /\ j # 1 /\ i \in DOMAIN r /\ i \in Nat /\ j \in Nat
    BY <1>1, <2>3
  <2>5. Inner.table[r[j]].parent = r[j - 1]
    BY <1>3, <2>3, <2>4
  <2>6. r[j - 1] # 0
    BY <1>1, <1>2, <2>4
  <2>7. i # 1
    BY <1>3, <2>3, <2>4, <2>5, <2>6
  <2>8. i - 1 \in DOMAIN r /\ i - 1 < j - 1 /\ ~(i <= i - 1)
    BY <1>1, <2>3, <2>4, <2>7
  <2>9. r[i - 1] = r[j - 1]
    BY <1>3, <2>3, <2>4, <2>5, <2>7
  <2>10. i - 1 \in S
    BY <2>4, <2>8, <2>9
  <2> QED
    BY <2>2, <2>8, <2>10
<1>5. \A i, j \in DOMAIN r : i < j => r[i] # r[j]
  BY <1>4
<1> QED
  BY <1>1, <1>5

\* PerBlock times a number.
LEMMA Times ==
  ASSUME NEW x \in Nat, NEW y \in Nat
  PROVE  /\ PerBlock * x \in Nat /\ PerBlock * (x + 1) = PerBlock * x + PerBlock
         /\ PerBlock * x < PerBlock * y => x < y
         /\ x <= PerBlock * x
BY BootAssumption

LEMMA BlocksAre ==
  ASSUME NEW n \in Nat
  PROVE  /\ BlocksOf(n) \in Nat /\ n <= PerBlock * BlocksOf(n)
         /\ PerBlock * BlocksOf(n) < n + PerBlock
<1> DEFINE T == {m \in Nat : n <= PerBlock * m}
<1>1. T \subseteq Nat /\ n \in T
  BY Times
<1>2. PICK m \in T : \A k \in T : m <= k
  <2> HIDE DEF T
  <2> QED
    BY <1>1, LeastNat
<1>3. m \in 0 .. n
  BY <1>1, <1>2
<1>4. PerBlock * m < n + PerBlock
  <2>1. CASE m = 0
    BY <2>1, BootAssumption
  <2>2. CASE m # 0
    <3>1. m - 1 \in Nat /\ m - 1 \notin T
      BY <1>2, <2>2
    <3>2. PerBlock * (m - 1) < n /\ PerBlock * ((m - 1) + 1) = PerBlock * (m - 1) + PerBlock
      <4>1. PerBlock * (m - 1) \in Nat
        BY <3>1, Times
      <4> QED
        BY <3>1, <4>1, Times
    <3>3. (m - 1) + 1 = m /\ PerBlock \in Nat /\ PerBlock * (m - 1) \in Nat
      BY <3>1, Times, BootAssumption
    <3> QED
      BY <3>2, <3>3
  <2> QED
    BY <2>1, <2>2
<1>5. \E x \in 0 .. n : n <= PerBlock * x /\ PerBlock * x < n + PerBlock
  BY <1>2, <1>3, <1>4
<1>6. BlocksOf(n) \in 0 .. n /\ n <= PerBlock * BlocksOf(n) /\ PerBlock * BlocksOf(n) < n + PerBlock
  BY <1>5 DEF BlocksOf
<1> QED
  BY <1>6

\* What is read of the table, and who leads to whom, is of boot and names alone.
LEMMA SameTrace ==
  ASSUME UNCHANGED <<boot, names>>
  PROVE  /\ Inner' = Inner /\ NamesRead' = NamesRead /\ IsTrace(Inner)' = IsTrace(Inner)
         /\ \A r, k : LeadsTo(r, k)' = LeadsTo(r, k)
         /\ \A k : NoWay(k)' = NoWay(k)
<1>1. Inner' = Inner
  BY DEF Inner
<1>2. \A r, k : LeadsTo(r, k)' = LeadsTo(r, k)
  BY <1>1 DEF LeadsTo
<1> QED
  BY <1>1, <1>2 DEF NamesRead, NoWay, IsTrace

\* The records read are as many as there are, and a parent is a number.
LEMMA NamesAre ==
  ASSUME IsTrace(Inner), NamesRead
  PROVE  /\ Len(names) \in Nat /\ DOMAIN names = 1 .. Len(names)
         /\ DOMAIN names \subseteq DOMAIN Inner.table
         /\ DOMAIN Inner.table = 1 .. Len(Inner.table) /\ Len(Inner.table) \in Nat
         /\ \A k \in DOMAIN names : names[k] = Inner.table[k]
<1>1. DOMAIN Inner.table = 1 .. Len(Inner.table) /\ Len(Inner.table) \in Nat
  BY LenProperties DEF IsTrace
<1>2. Len(names) \in Nat /\ DOMAIN names = 1 .. Len(names) /\ Len(names) <= Len(Inner.table)
  BY LenProperties DEF NamesRead
<1> QED
  BY <1>1, <1>2 DEF NamesRead

\* A chain that is begun has passed nothing.
LEMMA ChainBegins ==
  ASSUME offset' \in 1 .. Len(names') + 1, link' = offset', chain' = <<>>
  PROVE  ChainInv'
<1>1. <<>> \in Seq(DOMAIN names') /\ Len(<<>>) = 0 /\ DOMAIN <<>> = {} /\ MaxDepth \in Nat
  BY BootAssumption, EmptySeq
<1>2. ASSUME NEW n \in 1 .. MaxDepth, NEW way \in [1 .. n -> DOMAIN names'], LeadsTo(way, offset)'
      PROVE  /\ Len(chain') <= n
             /\ \A j \in DOMAIN chain' : chain'[j] = way[n - Len(chain') + j]
             /\ link' = IF Len(chain') = n THEN NoParent ELSE way[n - Len(chain')]
  <2>1. n \in Nat /\ n # 0 /\ n - 0 = n
    BY <1>1, <1>2
  <2>2. Len(way) = n
    BY <2>1, OfLength
  <2>3. way[n] = offset'
    BY <1>2, <2>2 DEF LeadsTo
  <2> QED
    BY <1>1, <2>1, <2>3
<1>3. Climbed'
  BY <1>2 DEF Climbed
<1> QED
  BY <1>1, <1>3 DEF ChainInv

LEMMA ClimbStep ==
  ASSUME IsTrace(Inner), NamesRead, ChainInv, FollowLink
  PROVE  ChainInv'
<1>1. /\ offset <= Len(names) /\ link # 0 /\ link \in DOMAIN names /\ ~(Len(chain) >= MaxDepth)
      /\ chain' = <<link>> \o chain /\ link' = names[link].parent
      /\ UNCHANGED <<boot, names, offset>>
  BY DEF FollowLink, Joining, LinkBroken, Apart, NoParent
<1>2. /\ offset \in 1 .. Len(names) + 1 /\ chain \in Seq(DOMAIN names) /\ Len(chain) <= MaxDepth
      /\ chain = <<>> => link = offset
      /\ chain # <<>> => chain[Len(chain)] = offset /\ names[chain[1]].parent = link
      /\ \A j \in DOMAIN chain : j > 1 => names[chain[j]].parent = chain[j - 1]
      /\ Climbed
  BY DEF ChainInv
<1> DEFINE L == Len(chain)
           c == <<link>> \o chain
<1>3. /\ L \in Nat /\ DOMAIN chain = 1 .. L /\ c \in Seq(DOMAIN names) /\ Len(c) = L + 1
      /\ DOMAIN c = 1 .. (L + 1) /\ c[1] = link
      /\ \A j \in 1 .. L : c[j + 1] = chain[j]
      /\ L <= MaxDepth - 1 /\ MaxDepth \in Nat
  <2>1. /\ chain \in Seq(DOMAIN names) /\ <<link>> \in Seq(DOMAIN names) /\ Len(<<link>>) = 1
        /\ <<link>>[1] = link
    BY <1>1, <1>2
  <2>2. L \in Nat /\ DOMAIN chain = 1 .. L /\ MaxDepth \in Nat
    BY <2>1, LenProperties, BootAssumption
  <2>3. /\ c \in Seq(DOMAIN names) /\ Len(c) = 1 + L
        /\ \A j \in 1 .. 1 + L : c[j] = IF j <= 1 THEN <<link>>[j] ELSE chain[j - 1]
    BY <2>1, ConcatProperties
  <2>4. DOMAIN c = 1 .. (L + 1) /\ c[1] = link
    BY <2>1, <2>2, <2>3, LenProperties
  <2>5. \A j \in 1 .. L : c[j + 1] = chain[j]
    BY <2>2, <2>3
  <2> QED
    BY <1>1, <1>2, <2>2, <2>3, <2>4, <2>5
<1> HIDE DEF c
<1>4. chain' = c /\ link' = names[link].parent
  BY <1>1 DEF c
<1>5. c # <<>> /\ c[Len(c)] = offset /\ names[c[1]].parent = names[link].parent
  <2>1. CASE chain = <<>>
    <3>1. L = 0
      BY <2>1
    <3> QED
      BY <1>2, <1>3, <2>1, <3>1
  <2>2. CASE chain # <<>>
    <3>1. L \in 1 .. L
      BY <1>2, <1>3, <2>2, EmptySeq
    <3>2. c[L + 1] = chain[L]
      BY <1>3, <3>1
    <3> QED
      BY <1>2, <1>3, <2>2, <3>2
  <2> QED
    BY <2>1, <2>2
<1>6. ASSUME NEW j \in DOMAIN c, j > 1
      PROVE  names[c[j]].parent = c[j - 1]
  <2>1. j - 1 \in 1 .. L /\ (j - 1) + 1 = j
    BY <1>3, <1>6
  <2>2. c[j] = chain[j - 1]
    BY <1>3, <2>1
  <2>3. CASE j = 2
    <3>1. 1 \in 1 .. L /\ c[2] = chain[1] /\ chain # <<>> /\ j - 1 = 1
      BY <1>3, <2>1, <2>2, <2>3
    <3> QED
      BY <1>2, <1>3, <2>3, <3>1
  <2>4. CASE j # 2
    <3>1. j - 2 \in 1 .. L /\ (j - 2) + 1 = j - 1 /\ j - 1 > 1 /\ (j - 1) - 1 = j - 2
      BY <1>3, <2>1, <1>6, <2>4
    <3>2. c[j - 1] = chain[j - 2]
      BY <1>3, <3>1
    <3>3. names[chain[j - 1]].parent = chain[j - 2]
      BY <1>2, <1>3, <2>1, <3>1
    <3> QED
      BY <2>2, <3>2, <3>3
  <2> QED
    BY <2>3, <2>4
<1>7. Climbed'
  <2>1. ASSUME NEW n \in 1 .. MaxDepth, NEW way \in [1 .. n -> DOMAIN names], LeadsTo(way, offset)
        PROVE  /\ Len(c) <= n
               /\ \A j \in DOMAIN c : c[j] = way[n - Len(c) + j]
               /\ names[link].parent = IF Len(c) = n THEN NoParent ELSE way[n - Len(c)]
    <3>1. n \in Nat /\ n >= 1
      BY <1>3, <2>1
    <3>2. /\ L <= n
          /\ \A j \in DOMAIN chain : chain[j] = way[n - L + j]
          /\ link = IF L = n THEN NoParent ELSE way[n - L]
      BY <1>2, <2>1 DEF Climbed
    <3>3. L # n /\ link = way[n - L]
      BY <1>1, <3>2 DEF NoParent
    <3>4. L + 1 <= n /\ n - L \in 1 .. n /\ n - Len(c) + 1 = n - L /\ n - Len(c) = n - L - 1
      <4>1. L \in Nat /\ L <= n /\ L # n /\ Len(c) = L + 1
        BY <1>3, <3>2, <3>3
      <4> HIDE DEF L
      <4> QED
        BY <3>1, <4>1
    <3>5. way \in Seq(DOMAIN names) /\ DOMAIN way = 1 .. n /\ Len(way) = n
      BY <3>1, OfLength
    <3>6. Inner.table[link].parent = IF n - L = 1 THEN NoParent ELSE way[n - L - 1]
      BY <2>1, <3>3, <3>4, <3>5 DEF LeadsTo
    <3>7. names[link] = Inner.table[link]
      BY <1>1, NamesAre
    <3>8. ASSUME NEW j \in DOMAIN c
          PROVE  c[j] = way[n - Len(c) + j]
      <4>1. CASE j = 1
        BY <1>3, <3>3, <3>4, <4>1
      <4>2. CASE j # 1
        <5>1. j - 1 \in 1 .. L /\ (j - 1) + 1 = j /\ n - Len(c) + j = n - L + (j - 1)
          BY <1>3, <3>1, <3>8, <4>2
        <5>2. c[j] = chain[j - 1] /\ chain[j - 1] = way[n - L + (j - 1)]
          BY <1>3, <3>2, <5>1
        <5> QED
          BY <5>1, <5>2
      <4> QED
        BY <4>1, <4>2
    <3>9. (Len(c) = n) <=> (n - L = 1)
      BY <1>3, <3>1
    <3> QED
      BY <1>3, <3>4, <3>6, <3>7, <3>8, <3>9
  <2>2. \A way : LeadsTo(way, offset)' <=> LeadsTo(way, offset)
    BY <1>1, SameTrace DEF LeadsTo
  <2>3. ASSUME NEW n \in 1 .. MaxDepth, NEW way \in [1 .. n -> DOMAIN names], LeadsTo(way, offset)'
        PROVE  /\ Len(chain') <= n
               /\ \A j \in DOMAIN chain' : chain'[j] = way[n - Len(chain') + j]
               /\ link' = IF Len(chain') = n THEN NoParent ELSE way[n - Len(chain')]
    <3>1. LeadsTo(way, offset)
      BY <2>2, <2>3
    <3> QED
      BY <1>4, <2>1, <3>1
  <2>4. names' = names
    BY <1>1
  <2> QED
    BY <2>3, <2>4 DEF Climbed
<1>8. /\ UNCHANGED <<names, offset>> /\ chain' = c /\ link' = names[link].parent
      /\ offset \in 1 .. Len(names) + 1 /\ c \in Seq(DOMAIN names) /\ Len(c) <= MaxDepth
  <2>1. L + 1 <= MaxDepth
    BY <1>3
  <2> QED
    BY <1>1, <1>2, <1>3, <1>4, <2>1
<1> QED
  BY <1>5, <1>6, <1>7, <1>8 DEF ChainInv

\* The chain at hand leads to the record, when it ends.
LEMMA ChainLeads ==
  ASSUME IsTrace(Inner), NamesRead, ChainInv, PathJoined
  PROVE  LeadsTo(chain, offset) /\ chain \in Seq(DOMAIN names)
<1>1. link = 0 /\ offset \in 1 .. Len(names) + 1 /\ chain \in Seq(DOMAIN names)
  BY DEF PathJoined, NoParent, ChainInv
<1>2. chain # <<>> /\ chain[Len(chain)] = offset /\ names[chain[1]].parent = 0
  BY <1>1, NamesAre DEF ChainInv
<1>3. DOMAIN chain = 1 .. Len(chain) /\ Len(chain) \in Nat
  BY <1>1, LenProperties
<1>4. ASSUME NEW j \in DOMAIN chain
      PROVE  /\ chain[j] \in DOMAIN Inner.table
             /\ Inner.table[chain[j]].parent = IF j = 1 THEN NoParent ELSE chain[j - 1]
  <2>1. chain[j] \in DOMAIN names
    BY <1>1, <1>3, <1>4
  <2>2. chain[j] \in DOMAIN Inner.table /\ names[chain[j]] = Inner.table[chain[j]]
    BY <2>1, NamesAre
  <2>3. j # 1 => names[chain[j]].parent = chain[j - 1]
    BY <1>3, <1>4 DEF ChainInv
  <2> QED
    BY <1>2, <2>2, <2>3 DEF NoParent
<1> QED
  BY <1>1, <1>2, <1>4 DEF LeadsTo

LEMMA JoinStep ==
  ASSUME IsTrace(Inner), NamesRead, ChainInv, PathsInv, PathJoined
  PROVE  ChainInv' /\ PathsInv'
<1> DEFINE Goes(r, k) ==
             /\ r # <<>> /\ r[Len(r)] = k
             /\ \A j \in DOMAIN r :
                  /\ r[j] \in DOMAIN Inner.table
                  /\ Inner.table[r[j]].parent = IF j = 1 THEN NoParent ELSE r[j - 1]
<1>1. /\ UNCHANGED <<boot, names, broken>> /\ paths' = Append(paths, chain)
      /\ offset' = offset + 1 /\ link' = offset + 1 /\ chain' = <<>> /\ offset <= Len(names)
  BY DEF PathJoined, NextRecord, Joining, Apart
<1>2. /\ Len(names) \in Nat /\ DOMAIN names = 1 .. Len(names) /\ offset \in 1 .. Len(names) + 1
      /\ Inner' = Inner
  BY <1>1, NamesAre, SameTrace DEF ChainInv
<1>3. ChainInv'
  BY <1>1, <1>2, ChainBegins
<1>4. Goes(chain, offset) /\ chain \in Seq(DOMAIN names) /\ chain[Len(chain)] = offset
  BY ChainLeads DEF LeadsTo
<1>5. /\ paths \in Seq(Seq(DOMAIN names)) /\ Len(paths) \in Nat /\ DOMAIN paths = 1 .. Len(paths)
      /\ \A j \in DOMAIN paths :
           Goes(paths[j], paths[j][Len(paths[j])]) /\ paths[j][Len(paths[j])] < offset
  BY LenProperties DEF PathsInv, LeadsTo
<1>6. /\ paths' \in Seq(Seq(DOMAIN names)) /\ Len(paths') = Len(paths) + 1
      /\ DOMAIN paths' = 1 .. (Len(paths) + 1) /\ paths'[Len(paths) + 1] = chain
      /\ \A j \in DOMAIN paths : paths'[j] = paths[j]
  BY <1>1, <1>4, <1>5, AppendProperties
<1>7. \A k : HasPath(k) <=> \E j \in DOMAIN paths : Goes(paths[j], k)
  BY DEF HasPath, LeadsTo
<1>8. \A k : HasPath(k)' <=> \E j \in DOMAIN paths' : Goes(paths'[j], k)
  BY <1>2 DEF HasPath, LeadsTo
<1>9. \A r, k : Goes(r, k) => r[Len(r)] = k
  OBVIOUS
<1> HIDE DEF Goes
<1>10. ASSUME NEW j \in DOMAIN paths'
       PROVE  Goes(paths'[j], paths'[j][Len(paths'[j])]) /\ paths'[j][Len(paths'[j])] < offset'
  <2>1. CASE j = Len(paths) + 1
    BY <1>1, <1>2, <1>4, <1>6, <2>1
  <2>2. CASE j # Len(paths) + 1
    <3>1. j \in DOMAIN paths /\ paths'[j] = paths[j]
      BY <1>5, <1>6, <1>10, <2>2
    <3>2. paths[j][Len(paths[j])] \in DOMAIN names
      BY <1>5, <3>1, LenProperties, ElementOfSeq DEF Goes
    <3> QED
      BY <1>1, <1>2, <1>5, <3>1, <3>2
  <2> QED
    BY <2>1, <2>2
<1>11. GivenUp' = GivenUp
  <2>0. DOMAIN paths' = DOMAIN paths \cup {Len(paths) + 1}
    BY <1>5, <1>6
  <2>1. ASSUME NEW k, k = offset
        PROVE  HasPath(k)'
    <3>1. Goes(paths'[Len(paths) + 1], k)
      BY <1>4, <1>6, <2>1
    <3> QED
      BY <1>8, <2>0, <3>1
  <2>2. ASSUME NEW k \in 1 .. (offset - 1)
        PROVE  HasPath(k)' <=> HasPath(k)
    <3>1. ~Goes(paths'[Len(paths) + 1], k)
      BY <1>2, <1>4, <1>6, <1>9, <2>2
    <3>2. \A j \in DOMAIN paths : Goes(paths'[j], k) <=> Goes(paths[j], k)
      BY <1>6
    <3>3. HasPath(k)' <=> \E j \in DOMAIN paths' : Goes(paths'[j], k)
      BY <1>8
    <3>4. HasPath(k) <=> \E j \in DOMAIN paths : Goes(paths[j], k)
      BY <1>7
    <3> QED
      BY <2>0, <3>1, <3>2, <3>3, <3>4
  <2>3. 1 .. (offset' - 1) = 1 .. (offset - 1) \cup {offset}
    BY <1>1, <1>2
  <2> QED
    BY <2>1, <2>2, <2>3 DEF GivenUp
<1>12. \A j \in DOMAIN paths' : LeadsTo(paths[j], paths[j][Len(paths[j])])'
  BY <1>2, <1>10 DEF LeadsTo, Goes
<1>13. /\ Len(paths') + broken' = offset' - 1 /\ broken' \in Nat
       /\ broken' = Cardinality(GivenUp)' /\ \A k \in GivenUp' : NoWay(k)'
  <2>1. /\ Len(paths) + broken = offset - 1 /\ broken \in Nat
        /\ broken = Cardinality(GivenUp) /\ \A k \in GivenUp : NoWay(k)
    BY DEF PathsInv
  <2>2. Len(paths) + 1 + broken = offset + 1 - 1
    <3>1. Len(paths) \in Nat /\ broken \in Nat /\ offset \in Int /\ Len(paths) + broken = offset - 1
      BY <1>2, <1>5, <2>1
    <3> QED
      BY <3>1
  <2>3. \A k : NoWay(k)' = NoWay(k)
    BY <1>1, SameTrace
  <2> QED
    <3>1. Len(paths') = Len(paths) + 1 /\ broken' = broken /\ offset' = offset + 1
      BY <1>1, <1>6
    <3>2. Len(paths') + broken' = offset' - 1
      <4>1. Len(paths) \in Nat /\ broken \in Nat /\ offset \in Int
        BY <1>2, <1>5, <2>1
      <4> QED
        BY <2>2, <3>1, <4>1
    <3> QED
      BY <1>11, <2>1, <2>3, <3>1, <3>2
<1>14. paths' \in Seq(Seq(DOMAIN names'))
  BY <1>1, <1>6
<1> QED
  BY <1>3, <1>10, <1>12, <1>13, <1>14 DEF PathsInv

\* A chain is given up only of a record that no way leads to.
LEMMA DropStep ==
  ASSUME IsTrace(Inner), NamesRead, ChainInv, PathsInv, PathDropped
  PROVE  ChainInv' /\ PathsInv'
<1>1. /\ UNCHANGED <<boot, names, paths>> /\ broken' = broken + 1
      /\ offset' = offset + 1 /\ link' = offset + 1 /\ chain' = <<>> /\ offset <= Len(names)
      /\ link # 0 /\ LinkBroken
  BY DEF PathDropped, NextRecord, Joining, Apart, NoParent
<1>2. /\ Len(names) \in Nat /\ DOMAIN names = 1 .. Len(names) /\ offset \in 1 .. Len(names) + 1
      /\ DOMAIN names \subseteq DOMAIN Inner.table
      /\ Inner' = Inner
  BY <1>1, NamesAre, SameTrace DEF ChainInv
<1>3. ChainInv'
  BY <1>1, <1>2, ChainBegins
<1> DEFINE L == Len(chain)
<1>4. ASSUME NEW n \in 1 .. MaxDepth, NEW way \in [1 .. n -> DOMAIN names], LeadsTo(way, offset)
      PROVE  FALSE
  <2>1. n \in Nat /\ MaxDepth \in Nat
    BY <1>4, BootAssumption
  <2>2. way \in Seq(DOMAIN names) /\ way \in Seq(DOMAIN Inner.table) /\ DOMAIN way = 1 .. n
    BY <1>2, <2>1, OfLength
  <2>3. /\ L <= n /\ L \in Nat /\ DOMAIN chain = 1 .. L
        /\ \A j \in DOMAIN chain : chain[j] = way[n - L + j]
        /\ link = IF L = n THEN 0 ELSE way[n - L]
    BY <1>4, LenProperties DEF ChainInv, Climbed, NoParent
  <2>4. LinkBroken => link \in ToSet(chain) \/ L >= MaxDepth \/ link \notin DOMAIN names
    BY DEF LinkBroken
  <2> HIDE DEF L
  <2>5. L # n /\ link = way[n - L]
    BY <1>1, <2>3
  <2>6. n - L \in 1 .. n /\ ~(L >= MaxDepth)
    BY <1>4, <2>1, <2>3, <2>5
  <2>7. link \in DOMAIN names
    BY <1>4, <2>5, <2>6
  <2>8. PICK j \in DOMAIN chain : link = chain[j]
    BY <1>1, <2>4, <2>6, <2>7 DEF ToSet
  <2>9. n - L + j \in 1 .. n /\ n - L + j # n - L
    BY <2>1, <2>3, <2>8
  <2>10. way[n - L + j] = way[n - L]
    BY <2>3, <2>5, <2>8
  <2> QED
    BY <1>4, <2>2, <2>6, <2>9, <2>10, NoLoop
<1>5. NoWay(offset)
  BY <1>4 DEF NoWay
<1>6. ~HasPath(offset)
  <2>1. \A j \in DOMAIN paths : paths[j][Len(paths[j])] < offset
    BY DEF PathsInv
  <2> QED
    BY <1>2, <2>1 DEF HasPath, LeadsTo
<1>7. \A k : HasPath(k)' = HasPath(k)
  BY <1>1, <1>2 DEF HasPath, LeadsTo
<1>8. GivenUp' = GivenUp \cup {offset} /\ offset \notin GivenUp /\ IsFiniteSet(GivenUp)
  <2>1. 1 .. (offset' - 1) = 1 .. (offset - 1) \cup {offset} /\ offset \notin 1 .. (offset - 1)
    BY <1>1, <1>2
  <2>2. IsFiniteSet(1 .. (offset - 1)) /\ GivenUp \subseteq 1 .. (offset - 1)
    <3>1. 1 \in Int /\ offset - 1 \in Int
      BY <1>2
    <3> QED
      BY <3>1, FS_Interval DEF GivenUp
  <2> QED
    BY <1>6, <1>7, <2>1, <2>2, FS_Subset DEF GivenUp
<1>9. /\ Len(paths) + broken = offset - 1 /\ broken \in Nat /\ broken = Cardinality(GivenUp) /\ \A k \in GivenUp : NoWay(k)
      /\ Len(paths) \in Nat /\ paths \in Seq(Seq(DOMAIN names))
      /\ \A j \in DOMAIN paths :
           LeadsTo(paths[j], paths[j][Len(paths[j])]) /\ paths[j][Len(paths[j])] < offset
  BY LenProperties DEF PathsInv
<1>10. Cardinality(GivenUp') = Cardinality(GivenUp) + 1 /\ Cardinality(GivenUp) \in Nat
  BY <1>8, FS_AddElement, FS_CardinalityType
<1>11. broken' \in Nat /\ broken' = Cardinality(GivenUp)' /\ Len(paths') + broken' = offset' - 1
  <2>1. /\ Len(paths) \in Nat /\ broken \in Nat /\ offset \in Int
        /\ Len(paths) + broken = offset - 1
    BY <1>2, <1>9
  <2>2. Len(paths) + (broken + 1) = (offset + 1) - 1 /\ broken + 1 \in Nat
    BY <2>1
  <2>3. Len(paths') = Len(paths)
    BY <1>1
  <2> QED
    BY <1>1, <1>9, <1>10, <2>2, <2>3
<1>12. \A k \in GivenUp' : NoWay(k)'
  <2>1. \A k : NoWay(k)' = NoWay(k)
    BY <1>1, SameTrace
  <2> QED
    BY <1>5, <1>8, <1>9, <2>1
<1>13. \A j \in DOMAIN paths' :
         LeadsTo(paths[j], paths[j][Len(paths[j])])' /\ paths'[j][Len(paths'[j])] < offset'
  <2>1. ASSUME NEW j \in DOMAIN paths
        PROVE  paths[j][Len(paths[j])] < offset + 1
    <3>1. paths[j] \in Seq(DOMAIN names) /\ paths[j] # <<>>
      BY <1>9, <2>1, ElementOfSeq, LenProperties DEF LeadsTo
    <3>2. paths[j][Len(paths[j])] \in DOMAIN names
      BY <3>1
    <3> QED
      BY <1>2, <1>9, <3>2
  <2> QED
    BY <1>1, <1>2, <1>9, <2>1 DEF LeadsTo
<1>14. paths' \in Seq(Seq(DOMAIN names'))
  BY <1>1, <1>9
<1> QED
  BY <1>3, <1>11, <1>12, <1>13, <1>14 DEF PathsInv

\* The two sections, and where they are.
LEMMA SectionsAre ==
  ASSUME IsTrace(Inner), NEW s \in {1, 2}
  PROVE  /\ Inner.sections[s] \in Nat /\ BlocksOf(Inner.sections[s]) \in Nat
         /\ StartOf(s) \in Nat /\ StartOf(s + 1) = StartOf(s) + BlocksOf(Inner.sections[s])
         /\ StartOf(3) \in Nat
<1>1. Inner.sections[1] \in Nat /\ Inner.sections[2] \in Nat
  BY DEF IsTrace
<1>2. BlocksOf(Inner.sections[1]) \in Nat /\ BlocksOf(Inner.sections[2]) \in Nat
  BY <1>1, BlocksAre
<1> QED
  BY <1>1, <1>2 DEF StartOf

LEMMA EventPlaced ==
  ASSUME IsTrace(Inner)
  PROVE  /\ IsFiniteSet(EventPlaces)
         /\ \A p \in EventPlaces :
              p[1] \in 1 .. StartOf(3) /\ p[2] \in 1 .. PerBlock /\ p = <<p[1], p[2]>>
         /\ \A s \in {1, 2}, x \in Nat, y \in 1 .. PerBlock :
              x < BlocksOf(Inner.sections[s]) =>
                (<<StartOf(s) + x + 1, y>> \in EventPlaces <=> PerBlock * x + y <= Inner.sections[s])
<1> DEFINE F == BlocksOf(Inner.sections[1])
           G == BlocksOf(Inner.sections[2])
<1>1. /\ F \in Nat /\ G \in Nat /\ StartOf(1) = 0 /\ StartOf(2) = F /\ StartOf(3) = F + G
      /\ PerBlock \in Nat
  BY SectionsAre, BootAssumption DEF StartOf
<1>2. EventPlaces =
        {p \in (1 .. F) \X (1 .. PerBlock) : PerBlock * (p[1] - 1) + p[2] <= Inner.sections[1]}
          \cup {p \in (F + 1 .. F + G) \X (1 .. PerBlock) :
                  PerBlock * (p[1] - F - 1) + p[2] <= Inner.sections[2]}
  BY DEF EventPlaces
<1> HIDE DEF F, G
<1>3. EventPlaces \subseteq (1 .. F + G) \X (1 .. PerBlock)
  <2>1. 1 .. F \subseteq 1 .. F + G /\ F + 1 .. F + G \subseteq 1 .. F + G
    BY <1>1
  <2> QED
    BY <1>2, <2>1
<1>4. IsFiniteSet(EventPlaces)
  <2>1. IsFiniteSet(1 .. F + G) /\ IsFiniteSet(1 .. PerBlock)
    <3>1. 1 \in Int /\ F + G \in Int /\ PerBlock \in Int
      BY <1>1
    <3> QED
      BY <3>1, FS_Interval
  <2> QED
    BY <1>3, <2>1, FS_Product, FS_Subset
<1>5. ASSUME NEW x \in Nat, NEW y \in 1 .. PerBlock, x < F
      PROVE  <<0 + x + 1, y>> \in EventPlaces <=> PerBlock * x + y <= Inner.sections[1]
  <2>1. 0 + x + 1 \in 1 .. F /\ 0 + x + 1 \notin F + 1 .. F + G /\ (0 + x + 1) - 1 = x
    BY <1>1, <1>5
  <2> QED
    BY <1>2, <2>1
<1>6. ASSUME NEW x \in Nat, NEW y \in 1 .. PerBlock, x < G
      PROVE  <<F + x + 1, y>> \in EventPlaces <=> PerBlock * x + y <= Inner.sections[2]
  <2>1. F + x + 1 \notin 1 .. F /\ F + x + 1 \in F + 1 .. F + G /\ (F + x + 1) - F - 1 = x
    BY <1>1, <1>6
  <2> QED
    BY <1>2, <2>1
<1>7. F = BlocksOf(Inner.sections[1]) /\ G = BlocksOf(Inner.sections[2])
  BY DEF F, G
<1>8. \A p \in EventPlaces :
        p[1] \in 1 .. StartOf(3) /\ p[2] \in 1 .. PerBlock /\ p = <<p[1], p[2]>>
  BY <1>1, <1>3
<1>9. ASSUME NEW s \in {1, 2}, NEW x \in Nat, NEW y \in 1 .. PerBlock, x < BlocksOf(Inner.sections[s])
      PROVE  <<StartOf(s) + x + 1, y>> \in EventPlaces <=> PerBlock * x + y <= Inner.sections[s]
  <2>1. CASE s = 1
    BY <1>1, <1>5, <1>7, <1>9, <2>1
  <2>2. CASE s = 2
    BY <1>1, <1>6, <1>7, <1>9, <2>2
  <2> QED
    BY <2>1, <2>2
<1> QED
  BY <1>4, <1>8, <1>9

\* Where the reader is, within a section.
LEMMA ReaderIs ==
  ASSUME IsTrace(Inner), IoPlace, section <= 2, emitted < Inner.sections[section]
  PROVE  \E x \in Nat :
           /\ section \in {1, 2} /\ block = StartOf(section) + x
           /\ x < BlocksOf(Inner.sections[section])
           /\ emitted = PerBlock * x /\ emitted \in Nat /\ taken \in Nat /\ taken <= Take
           /\ Take = IF Inner.sections[section] - emitted < PerBlock
                     THEN Inner.sections[section] - emitted ELSE PerBlock
<1> DEFINE size == Inner.sections[section]
           x    == block - StartOf(section)
<1>1. /\ section \in {1, 2} /\ block \in Nat /\ taken \in Nat /\ taken <= Take /\ emitted \in Nat
      /\ x \in 0 .. BlocksOf(size) /\ emitted = IF PerBlock * x < size THEN PerBlock * x ELSE size
  BY DEF IoPlace
<1>2. size \in Nat /\ BlocksOf(size) \in Nat /\ StartOf(section) \in Nat /\ size <= PerBlock * BlocksOf(size)
  BY <1>1, SectionsAre, BlocksAre
<1>3. emitted = PerBlock * x /\ PerBlock * x < size
  BY <1>1, <1>2
<1>4. x \in Nat /\ block = StartOf(section) + x
  BY <1>1, <1>2
<1>5. x < BlocksOf(size)
  <2>1. PerBlock * x < PerBlock * BlocksOf(size)
    <3>1. PerBlock * x \in Nat /\ PerBlock * BlocksOf(size) \in Nat
      BY <1>2, <1>4, Times
    <3> QED
      BY <1>2, <1>3, <3>1
  <2> QED
    BY <1>2, <1>4, <2>1, Times
<1> QED
  BY <1>1, <1>3, <1>4, <1>5 DEF Take

LEMMA EventSeen ==
  ASSUME IsTrace(Inner), IoPlace, ReadEvent
  PROVE  /\ IoPlace'
         /\ <<block + 1, taken + 1>> \in EventPlaces \ EventsSeen
         /\ EventsSeen' = EventsSeen \cup {<<block + 1, taken + 1>>}
         /\ block + 1 \in DOMAIN Inner.blocks /\ taken + 1 \in 1 .. PerBlock
<1>1. /\ section <= 2 /\ emitted < Inner.sections[section] /\ block < Len(Inner.blocks) /\ taken < Take
      /\ taken' = taken + 1 /\ UNCHANGED <<boot, section, emitted, block>>
  BY DEF ReadEvent, InSection, Sections, Apart
<1> DEFINE size == Inner.sections[section]
<1>2. PICK x \in Nat :
        /\ section \in {1, 2} /\ block = StartOf(section) + x
        /\ x < BlocksOf(size)
        /\ emitted = PerBlock * x /\ emitted \in Nat /\ taken \in Nat /\ taken <= Take
        /\ Take = IF size - emitted < PerBlock THEN size - emitted ELSE PerBlock
  BY <1>1, ReaderIs
<1>3. /\ size \in Nat /\ StartOf(section) \in Nat /\ PerBlock \in Nat /\ Inner' = Inner
      /\ block \in Nat
  BY <1>1, <1>2, SectionsAre, BootAssumption DEF Inner, IoPlace
<1>4. taken + 1 \in 1 .. PerBlock /\ PerBlock * x + (taken + 1) <= size
  <2>1. /\ size \in Nat /\ emitted \in Nat /\ taken \in Nat /\ PerBlock \in Nat /\ taken < Take
        /\ Take = IF size - emitted < PerBlock THEN size - emitted ELSE PerBlock
    BY <1>1, <1>2, <1>3
  <2> HIDE DEF size
  <2>2. taken + 1 \in 1 .. PerBlock /\ emitted + (taken + 1) <= size
    BY <2>1
  <2> QED
    BY <1>2, <2>2
<1>5. <<block + 1, taken + 1>> \in EventPlaces
  BY <1>2, <1>3, <1>4, EventPlaced
<1>6. <<block + 1, taken + 1>> \notin EventsSeen
  BY <1>2, <1>3 DEF EventsSeen
<1>7. EventPlaces' = EventPlaces
  BY <1>3 DEF EventPlaces, BlocksOf
<1>8. ASSUME NEW p \in EventPlaces
      PROVE  p \in EventsSeen' <=> p \in EventsSeen \cup {<<block + 1, taken + 1>>}
  <2>1. p[1] \in Nat /\ p[2] \in Nat /\ p = <<p[1], p[2]>>
    BY EventPlaced, <1>3
  <2>2. p \in EventsSeen' <=> p[1] <= block \/ (p[1] = block + 1 /\ p[2] <= taken + 1)
    BY <1>1, <1>7 DEF EventsSeen
  <2>3. p \in EventsSeen <=> p[1] <= block \/ (p[1] = block + 1 /\ p[2] <= taken)
    BY DEF EventsSeen
  <2> QED
    BY <1>2, <1>3, <2>1, <2>2, <2>3
<1>9. EventsSeen' \subseteq EventPlaces /\ EventsSeen \subseteq EventPlaces
  BY <1>7 DEF EventsSeen
<1>10. block + 1 \in DOMAIN Inner.blocks
  <2>1. Len(Inner.blocks) \in Nat /\ DOMAIN Inner.blocks = 1 .. Len(Inner.blocks)
    BY LenProperties DEF IsTrace
  <2> QED
    BY <1>1, <1>3, <2>1
<1>11. IoPlace'
  <2>1. StartOf(section)' = StartOf(section) /\ StartOf(3)' = StartOf(3)
    BY <1>1, <1>3 DEF StartOf, BlocksOf
  <2>2. Take' = Take /\ Inner.sections[section]' = size /\ BlocksOf(Inner.sections[section])' = BlocksOf(size)
    BY <1>1, <1>3 DEF Take, BlocksOf
  <2>3. taken' \in Nat /\ taken' <= Take /\ section # 3
    BY <1>1, <1>2, <1>3
  <2> QED
    BY <1>1, <2>1, <2>2, <2>3 DEF IoPlace
<1> QED
  BY <1>4, <1>5, <1>6, <1>8, <1>9, <1>10, <1>11

LEMMA BlockSeen ==
  ASSUME IsTrace(Inner), IoPlace, BlockRead
  PROVE  IoPlace' /\ EventsSeen' = EventsSeen
<1>1. /\ section <= 2 /\ emitted < Inner.sections[section] /\ taken = Take /\ taken' = 0
      /\ emitted' = emitted + Take /\ block' = block + 1 /\ UNCHANGED <<boot, section>>
  BY DEF BlockRead, InSection, Sections, Apart
<1> DEFINE size == Inner.sections[section]
<1>2. PICK x \in Nat :
        /\ section \in {1, 2} /\ block = StartOf(section) + x
        /\ x < BlocksOf(size)
        /\ emitted = PerBlock * x /\ emitted \in Nat /\ taken \in Nat /\ taken <= Take
        /\ Take = IF size - emitted < PerBlock THEN size - emitted ELSE PerBlock
  BY <1>1, ReaderIs
<1>3. /\ size \in Nat /\ StartOf(section) \in Nat /\ PerBlock \in Nat /\ Inner' = Inner
      /\ block \in Nat /\ BlocksOf(size) \in Nat
  BY <1>1, <1>2, SectionsAre, BootAssumption DEF Inner, IoPlace
<1>4. EventPlaces' = EventPlaces
  BY <1>3 DEF EventPlaces, BlocksOf
<1>5. ASSUME NEW p \in EventPlaces
      PROVE  p \in EventsSeen' <=> p \in EventsSeen
  <2>1. p[1] \in Nat /\ p[2] \in 1 .. PerBlock /\ p = <<p[1], p[2]>>
    BY EventPlaced, <1>3
  <2>2. p \in EventsSeen' <=> p[1] <= block + 1 \/ (p[1] = block + 1 + 1 /\ p[2] <= 0)
    BY <1>1, <1>4 DEF EventsSeen
  <2>3. p \in EventsSeen <=> p[1] <= block \/ (p[1] = block + 1 /\ p[2] <= taken)
    BY DEF EventsSeen
  <2>4. CASE p[1] = block + 1
    <3>1. p = <<StartOf(section) + x + 1, p[2]>>
      BY <1>2, <1>3, <2>1, <2>4
    <3>2. PerBlock * x + p[2] <= size
      BY <1>2, <2>1, <3>1, EventPlaced
    <3>3. /\ emitted + p[2] <= size /\ p[2] \in Nat /\ p[2] <= PerBlock /\ emitted \in Nat
          /\ taken = IF size - emitted < PerBlock THEN size - emitted ELSE PerBlock
      BY <1>1, <1>2, <1>3, <2>1, <3>2
    <3>4. p[2] <= taken
      <4>1. size \in Nat /\ PerBlock \in Nat
        BY <1>3
      <4> HIDE DEF size
      <4> QED
        BY <3>3, <4>1
    <3> QED
      BY <1>3, <2>2, <2>3, <2>4, <3>4
  <2>5. CASE p[1] # block + 1
    BY <1>3, <2>1, <2>2, <2>3, <2>5
  <2> QED
    BY <2>4, <2>5
<1>6. EventsSeen' = EventsSeen
  <2>1. EventsSeen' \subseteq EventPlaces /\ EventsSeen \subseteq EventPlaces
    BY <1>4 DEF EventsSeen
  <2> QED
    BY <1>5, <2>1
<1>7. /\ emitted' = IF PerBlock * (x + 1) < size THEN PerBlock * (x + 1) ELSE size
      /\ emitted' \in Nat /\ emitted' <= size
  <2>1. /\ PerBlock * (x + 1) = emitted + PerBlock
        /\ size \in Nat /\ emitted \in Nat /\ PerBlock \in Nat /\ emitted < size
        /\ emitted' = emitted + (IF size - emitted < PerBlock THEN size - emitted ELSE PerBlock)
    BY <1>1, <1>2, <1>3, Times
  <2> HIDE DEF size
  <2> QED
    BY <2>1
<1>8. IoPlace'
  <2>1. /\ StartOf(section)' = StartOf(section) /\ StartOf(3)' = StartOf(3)
        /\ Inner.sections[section]' = size /\ BlocksOf(Inner.sections[section])' = BlocksOf(size)
    BY <1>1, <1>3 DEF StartOf, BlocksOf
  <2>2. block' - StartOf(section) = x + 1 /\ x + 1 \in 0 .. BlocksOf(size) /\ block' \in Nat
    <3>1. StartOf(section) \in Nat /\ BlocksOf(size) \in Nat /\ x < BlocksOf(size)
          /\ block' = StartOf(section) + x + 1
      BY <1>1, <1>2, <1>3
    <3> QED
      BY <3>1
  <2>3. 0 <= Take'
    <3>1. Take' = IF size - emitted' < PerBlock THEN size - emitted' ELSE PerBlock
      BY <1>1, <1>3 DEF Take
    <3> QED
      BY <1>3, <1>7, <3>1
  <2>4. section \in 1 .. 3 /\ section # 3 /\ taken' = 0 /\ section' = section
    BY <1>1, <1>2
  <2> QED
    BY <1>7, <2>1, <2>2, <2>3, <2>4 DEF IoPlace
<1> QED
  BY <1>6, <1>8

LEMMA SectionSeen ==
  ASSUME IsTrace(Inner), IoPlace, NextSection
  PROVE  IoPlace' /\ EventsSeen' = EventsSeen
<1>1. /\ section <= 2 /\ ~(emitted < Inner.sections[section]) /\ emitted' = 0 /\ section' = section + 1
      /\ UNCHANGED <<boot, block, taken>>
  <2>1. section \in {1, 2} /\ section <= 2 /\ emitted >= Inner.sections[section] /\ emitted \in Nat
    BY DEF NextSection, Sections, IoPlace
  <2>2. Inner.sections[section] \in Nat
    BY <2>1, SectionsAre
  <2> QED
    BY <2>1, <2>2 DEF NextSection, Apart
<1> DEFINE size == Inner.sections[section]
           x    == block - StartOf(section)
<1>2. /\ section \in {1, 2} /\ block \in Nat /\ taken \in Nat /\ emitted \in Nat
      /\ x \in 0 .. BlocksOf(size) /\ emitted = IF PerBlock * x < size THEN PerBlock * x ELSE size
      /\ taken > 0 => emitted < size
  BY <1>1 DEF IoPlace
<1>3. /\ size \in Nat /\ BlocksOf(size) \in Nat /\ StartOf(section) \in Nat /\ StartOf(3) \in Nat
      /\ StartOf(section + 1) = StartOf(section) + BlocksOf(size) /\ PerBlock \in Nat
      /\ PerBlock * BlocksOf(size) < size + PerBlock /\ Inner' = Inner
  BY <1>1, <1>2, SectionsAre, BlocksAre, BootAssumption DEF Inner
<1>4. taken = 0 /\ ~(PerBlock * x < size)
  BY <1>1, <1>2
<1>5. x = BlocksOf(size)
  <2>1. x \in Nat /\ x + 1 \in Nat
    BY <1>2, <1>3
  <2>2. PerBlock * (x + 1) = PerBlock * x + PerBlock /\ PerBlock * x \in Nat
    BY <2>1, Times
  <2>3. PerBlock * BlocksOf(size) < PerBlock * (x + 1)
    <3>1. PerBlock * BlocksOf(size) \in Nat
      BY <1>3, Times
    <3> QED
      BY <1>3, <1>4, <2>2, <3>1
  <2>4. BlocksOf(size) < x + 1
    BY <1>3, <2>1, <2>3, Times
  <2> QED
    BY <1>2, <1>3, <2>4
<1>6. block = StartOf(section + 1)
  BY <1>2, <1>3, <1>5
<1>7. EventsSeen' = EventsSeen
  BY <1>1, <1>3 DEF EventsSeen, EventPlaces, BlocksOf
<1>8. \A s : StartOf(s)' = StartOf(s)
  BY <1>3 DEF StartOf, BlocksOf
<1>9. CASE section = 2
  <2>1. section' = 3 /\ block' = StartOf(3) /\ taken' = 0 /\ emitted' = 0
    BY <1>1, <1>4, <1>6, <1>9
  <2>2. StartOf(3)' = StartOf(3)
    BY <1>8
  <2> QED
    BY <1>2, <1>1, <1>7, <2>1, <2>2 DEF IoPlace
<1>10. CASE section = 1
  <2>1. section' = 2 /\ block' = StartOf(2) /\ taken' = 0 /\ emitted' = 0
    BY <1>1, <1>4, <1>6, <1>10
  <2>2. /\ Inner.sections[2] \in Nat /\ BlocksOf(Inner.sections[2]) \in Nat /\ StartOf(2) \in Nat
        /\ PerBlock * 0 = 0
    BY SectionsAre, BootAssumption
  <2>3. Take' = IF Inner.sections[2] - 0 < PerBlock THEN Inner.sections[2] - 0 ELSE PerBlock
    BY <1>3, <2>1 DEF Take
  <2>4. Take' >= 0 /\ StartOf(2) - StartOf(2) = 0
    BY <1>3, <2>2, <2>3
  <2>5. (Inner.sections[section])' = Inner.sections[2] /\ StartOf(section)' = StartOf(2)
    BY <1>3, <2>1 DEF StartOf, BlocksOf
  <2>6. BlocksOf(Inner.sections[section])' = BlocksOf(Inner.sections[2])
    BY <1>3, <2>1 DEF BlocksOf
  <2> QED
    BY <1>1, <1>2, <1>7, <2>1, <2>2, <2>4, <2>5, <2>6 DEF IoPlace
<1> QED
  BY <1>2, <1>9, <1>10

\* The event at hand is counted, for its file, and the ticks are widened to it.
LEMMA EventSummed ==
  ASSUME IsTrace(Inner), IoPlace, Summed(EventsSeen), ReadEvent
  PROVE  Summed(EventsSeen)'
<1> DEFINE p == <<block + 1, taken + 1>>
           E == EventsSeen
           e == EventAt(p)
           Of(S, n) == {q \in S : EventAt(q).name = n}
<1>1. /\ p \in EventPlaces \ E /\ EventsSeen' = E \cup {p} /\ E \subseteq EventPlaces
      /\ block + 1 \in DOMAIN Inner.blocks /\ taken + 1 \in 1 .. PerBlock
  BY EventSeen DEF EventsSeen
<1>2. e.when \in Nat /\ reads' = Counted(reads, e.name) /\ clock' = Widened(clock, e.when)
      /\ boot' = boot
  BY <1>1 DEF ReadEvent, Apart, EventAt, IsTrace
<1>3. \A q : EventAt(q)' = EventAt(q)
  BY <1>2 DEF EventAt, Inner
<1>4. IsFiniteSet(E) /\ \A n : IsFiniteSet(Of(E, n)) /\ Of(E, n) \subseteq E
  <2>1. IsFiniteSet(E)
    BY <1>1, EventPlaced, FS_Subset
  <2>2. \A n : Of(E, n) \subseteq E
    OBVIOUS
  <2> HIDE DEF E, Of
  <2> QED
    BY <2>1, <2>2, FS_Subset
<1>5. /\ DOMAIN reads = {EventAt(q).name : q \in E}
      /\ \A n \in DOMAIN reads : reads[n] = Cardinality(Of(E, n))
  BY DEF Summed
<1> HIDE DEF E, p
<1>6. DOMAIN reads' = {EventAt(q).name : q \in E \cup {p}}
  BY <1>2, <1>5 DEF Counted
<1>7. ASSUME NEW n \in DOMAIN reads'
      PROVE  reads'[n] = Cardinality(Of(E \cup {p}, n))
  <2>1. reads'[n] = (IF n \in DOMAIN reads THEN reads[n] ELSE 0) + (IF n = e.name THEN 1 ELSE 0)
    BY <1>2, <1>7 DEF Counted
  <2>2. (IF n \in DOMAIN reads THEN reads[n] ELSE 0) = Cardinality(Of(E, n)) /\ Cardinality(Of(E, n)) \in Nat
    <3>1. CASE n \in DOMAIN reads
      BY <1>4, <1>5, <3>1, FS_CardinalityType
    <3>2. CASE n \notin DOMAIN reads
      <4>1. Of(E, n) = {}
        BY <1>5, <3>2
      <4> HIDE DEF Of
      <4> QED
        BY <3>2, <4>1, FS_EmptySet
    <3> QED
      BY <3>1, <3>2
  <2>3. CASE n = e.name
    <3>1. Of(E \cup {p}, n) = Of(E, n) \cup {p} /\ p \notin Of(E, n)
      BY <1>1, <2>3
    <3>2. Cardinality(Of(E, n) \cup {p}) = Cardinality(Of(E, n)) + 1
      <4> HIDE DEF Of
      <4> QED
        BY <1>4, <3>1, FS_AddElement
    <3> QED
      BY <2>1, <2>2, <2>3, <3>1, <3>2
  <2>4. CASE n # e.name
    <3>1. Of(E \cup {p}, n) = Of(E, n)
      BY <2>4
    <3> QED
      BY <2>1, <2>2, <2>4, <3>1
  <2> QED
    BY <2>3, <2>4
<1>8. /\ clock' \in Nat \X Nat
      /\ \A q \in E \cup {p} : EventAt(q).when \in clock'[1] .. clock'[2]
      /\ \E q \in E \cup {p} : EventAt(q).when = clock'[1]
      /\ \E q \in E \cup {p} : EventAt(q).when = clock'[2]
  <2>1. CASE E = {}
    <3>1. clock = <<>>
      BY <2>1 DEF Summed, E
    <3>2. clock' = <<e.when, e.when>>
      BY <1>2, <3>1 DEF Widened
    <3> QED
      BY <1>2, <2>1, <3>2
  <2>2. CASE E # {}
    <3>1. /\ clock \in Nat \X Nat
          /\ \A q \in E : EventAt(q).when \in clock[1] .. clock[2]
          /\ \E q \in E : EventAt(q).when = clock[1]
          /\ \E q \in E : EventAt(q).when = clock[2]
      BY <2>2 DEF Summed, E
    <3>2. /\ clock'[1] = IF e.when < clock[1] THEN e.when ELSE clock[1]
          /\ clock'[2] = IF e.when > clock[2] THEN e.when ELSE clock[2]
          /\ clock' = <<clock'[1], clock'[2]>> /\ clock[1] \in Nat /\ clock[2] \in Nat
      BY <1>2, <3>1 DEF Widened
    <3>3. ASSUME NEW q \in E \cup {p}
          PROVE  EventAt(q).when \in clock'[1] .. clock'[2]
      BY <1>2, <3>1, <3>2
    <3>4. \E q \in E \cup {p} : EventAt(q).when = clock'[1]
      BY <1>2, <3>1, <3>2
    <3>5. \E q \in E \cup {p} : EventAt(q).when = clock'[2]
      BY <1>2, <3>1, <3>2
    <3> QED
      BY <1>2, <3>2, <3>3, <3>4, <3>5
  <2> QED
    BY <2>1, <2>2
<1>9. EventsSeen' = E \cup {p} /\ E \cup {p} # {}
  BY <1>1
<1> HIDE DEF e
<1>10. \A n \in DOMAIN reads' : reads'[n] = Cardinality({q \in EventsSeen' : EventAt(q)'.name = n})
  BY <1>3, <1>7, <1>9
<1>11. DOMAIN reads' = {EventAt(q)'.name : q \in EventsSeen'}
  BY <1>3, <1>6, <1>9
<1>12. /\ clock' \in Nat \X Nat
       /\ \A q \in EventsSeen' : EventAt(q)'.when \in clock'[1] .. clock'[2]
       /\ \E q \in EventsSeen' : EventAt(q)'.when = clock'[1]
       /\ \E q \in EventsSeen' : EventAt(q)'.when = clock'[2]
  BY <1>3, <1>8, <1>9
<1> QED
  BY <1>9, <1>10, <1>11, <1>12 DEF Summed

\* What a step leaves alone stays as it is.
LEMMA ChainKept ==
  ASSUME UNCHANGED <<boot, names, offset, link, chain>>
  PROVE  ChainInv' = ChainInv
<1>1. Climbed' = Climbed
  BY DEF Climbed, LeadsTo, Inner
<1> QED
  BY <1>1 DEF ChainInv

LEMMA PathsKept ==
  ASSUME UNCHANGED <<boot, names, offset, paths, broken>>
  PROVE  PathsInv' = PathsInv
<1>1. Inner' = Inner
  BY DEF Inner
<1>2. GivenUp' = GivenUp /\ \A k : NoWay(k)' = NoWay(k)
  BY <1>1, SameTrace DEF GivenUp, HasPath, LeadsTo
<1> QED
  BY <1>1, <1>2 DEF PathsInv, LeadsTo

LEMMA IoKept ==
  ASSUME UNCHANGED <<boot, ioVars>>
  PROVE  IoPlace' = IoPlace /\ Summed(EventsSeen)' = Summed(EventsSeen)
<1>1. Inner' = Inner /\ UNCHANGED <<section, emitted, block, taken, reads, clock>>
  BY DEF Inner, ioVars
<1>2. EventsSeen' = EventsSeen
  BY <1>1 DEF EventsSeen, EventPlaces, BlocksOf
<1>3. \A q : EventAt(q)' = EventAt(q)
  BY <1>1 DEF EventAt
<1>4. Summed(EventsSeen)' = Summed(EventsSeen)
  BY <1>1, <1>2, <1>3 DEF Summed
<1>5. IoPlace' = IoPlace
  BY <1>1 DEF IoPlace, StartOf, BlocksOf, Take
<1> QED
  BY <1>4, <1>5

\* The records read are the table's, up to where it ends.
LEMMA TableIsRead ==
  ASSUME IsTrace(Inner), ReadTable
  PROVE  /\ NamesRead' /\ Len(names') >= 1
         /\ TableEnds = {} => names' = Inner.table
<1>1. /\ names' = (IF TableEnds = {} THEN Inner.table ELSE SubSeq(Inner.table, 1, Min(TableEnds) - 1))
      /\ names' # <<>> /\ Inner' = Inner
  BY DEF ReadTable, TableRead, Until, Apart, Inner
<1>2. /\ Len(Inner.table) \in Nat /\ DOMAIN Inner.table = 1 .. Len(Inner.table)
      /\ Inner.table \in Seq(ToSet(Inner.table))
  BY LenProperties DEF IsTrace
<1>3. ASSUME names' \in Seq(ToSet(Inner.table)), Len(names') <= Len(Inner.table),
             \A k \in DOMAIN names' : names'[k] = Inner.table[k]
      PROVE  NamesRead'
  BY <1>1, <1>3 DEF NamesRead
<1>4. CASE TableEnds = {}
  <2>1. names' = Inner.table
    BY <1>1, <1>4
  <2>2. Len(Inner.table) >= 1
    BY <1>1, <1>2, <2>1, EmptySeq
  <2> QED
    BY <1>2, <1>3, <2>1, <2>2
<1>5. CASE TableEnds # {}
  <2>1. TableEnds \subseteq 1 .. Len(Inner.table)
    BY <1>2 DEF TableEnds
  <2>2. Min(TableEnds) \in TableEnds
    <3>1. TableEnds \subseteq Nat
      BY <1>2, <2>1
    <3> QED
      BY <1>5, <3>1, MinIs
  <2> DEFINE m == Min(TableEnds) - 1
  <2>3. m \in 0 .. Len(Inner.table) /\ names' = SubSeq(Inner.table, 1, m)
    <3>1. Min(TableEnds) \in 1 .. Len(Inner.table)
      BY <2>1, <2>2
    <3> QED
      BY <1>1, <1>2, <1>5, <3>1
  <2> HIDE DEF m
  <2>4. /\ names' \in Seq(ToSet(Inner.table)) /\ Len(names') = m /\ DOMAIN names' = 1 .. m
        /\ \A k \in 1 .. m : names'[k] = Inner.table[k]
    BY <1>2, <2>3
  <2>5. m >= 1
    <3>1. Len(names') # 0
      BY <1>1, <2>4, EmptySeq
    <3> QED
      BY <1>2, <2>3, <2>4, <3>1
  <2>6. m <= Len(Inner.table)
    BY <1>2, <2>3
  <2> QED
    BY <1>3, <1>5, <2>4, <2>5, <2>6
<1> QED
  BY <1>4, <1>5

\* Before the table is read there is nothing of its paths.
LEMMA NoPathYet ==
  ASSUME ChainInv, PathsInv, names = <<>>
  PROVE  offset = 1 /\ link = 1 /\ chain = <<>> /\ paths = <<>> /\ broken = 0
<1>1. Len(names) = 0 /\ DOMAIN names = {}
  BY EmptySeq
<1>2. offset = 1
  BY <1>1 DEF ChainInv
<1>3. chain = <<>> /\ link = 1
  <2>1. Len(chain) \in Nat /\ DOMAIN chain = 1 .. Len(chain) /\ \A j \in DOMAIN chain : chain[j] \in {}
    BY <1>1, LenProperties, ElementOfSeq DEF ChainInv
  <2>2. Len(chain) = 0
    BY <2>1
  <2> QED
    BY <1>1, <1>2, <2>2, EmptySeq DEF ChainInv
<1>4. paths = <<>> /\ broken = 0
  <2>1. Len(paths) \in Nat /\ broken \in Nat /\ Len(paths) + broken = 0 /\ paths \in Seq(Seq(DOMAIN names))
    BY <1>2, LenProperties DEF PathsInv
  <2> QED
    BY <2>1, EmptySeq
<1> QED
  BY <1>2, <1>3, <1>4

LEMMA ReadTableStep ==
  ASSUME BootInv, ReadTable
  PROVE  BootInv'
<1>1. /\ rb = "payload" /\ rb' = "paths" /\ names' = TableRead
      /\ UNCHANGED <<boot, offset, link, chain, paths, broken>> /\ UNCHANGED ioVars
      /\ TableEnds # {} => "stopped before its end" \in bootProblems'
  BY DEF ReadTable, Reports, Apart, joinVars
<1>2. /\ IsTrace(Inner) /\ names = <<>> /\ ChainInv /\ PathsInv /\ IoPlace /\ Summed(EventsSeen)
      /\ section = 1 /\ block = 0 /\ emitted = 0 /\ taken = 0
  BY <1>1 DEF BootInv
<1>3. offset' = 1 /\ link' = 1 /\ chain' = <<>> /\ paths' = <<>> /\ broken' = 0
  BY <1>1, <1>2, NoPathYet
<1>4. NamesRead' /\ Len(names') >= 1 /\ (TableEnds = {} => names' = Inner.table) /\ Inner' = Inner
      /\ Len(names') \in Nat
  BY <1>1, <1>2, TableIsRead, LenProperties DEF Inner, NamesRead
<1>5. ChainInv'
  BY <1>3, <1>4, ChainBegins
<1>6. PathsInv'
  <2>1. 1 .. (1 - 1) = {}
    OBVIOUS
  <2>2. GivenUp' = {}
    BY <1>3, <2>1 DEF GivenUp
  <2>3. /\ <<>> \in Seq(Seq(DOMAIN names')) /\ Len(<<>>) = 0 /\ DOMAIN <<>> = {} /\ Cardinality({}) = 0
        /\ 0 + 0 = 1 - 1
    BY FS_EmptySet, EmptySeq
  <2> QED
    BY <1>3, <2>2, <2>3 DEF PathsInv
<1>7. IoPlace' /\ Summed(EventsSeen)'
  BY <1>1, <1>2, IoKept
<1>8. NoProblem' => names' = Inner'.table
  BY <1>1, <1>4 DEF NoProblem
<1>9. IsTrace(Inner)' /\ UNCHANGED <<section, block, emitted, taken>>
  BY <1>1, <1>2, <1>4 DEF IsTrace, ioVars
<1> QED
  BY <1>1, <1>2, <1>4, <1>5, <1>6, <1>7, <1>8, <1>9 DEF BootInv

\* The steps that only report, and say where the parser is.
LEMMA ReportStep ==
  ASSUME BootInv,
         Unpacking \/ PayloadLost \/ NoTable \/ EmptyTable \/ PathsResolved \/ NoIo \/ IoRefused \/ IoRead
  PROVE  BootInv'
<1>1. /\ rb \in {"payload", "paths", "io"} /\ UNCHANGED <<boot, names, offset, link, chain, paths, broken>>
      /\ UNCHANGED ioVars
  BY DEF Unpacking, PayloadLost, NoTable, EmptyTable, PathsResolved, NoIo, IoRefused, IoRead,
         ReadyBootReturns, Apart, bootVars, joinVars
<1>2. /\ IsTrace(Inner) /\ NamesRead /\ ChainInv /\ PathsInv /\ IoPlace /\ Summed(EventsSeen)
      /\ rb = "payload" => names = <<>> /\ bootProblems = {}
      /\ rb \in {"payload", "paths"} => section = 1 /\ block = 0 /\ emitted = 0 /\ taken = 0
      /\ rb = "io" => offset = Len(names) + 1
      /\ NoProblem /\ rb \in {"paths", "io"} => names = Inner.table
      /\ NoProblem /\ rb = "io" => broken = 0
  BY <1>1 DEF BootInv
<1>3. /\ IsTrace(Inner)' /\ NamesRead' /\ ChainInv' /\ PathsInv' /\ IoPlace' /\ Summed(EventsSeen)'
      /\ Inner' = Inner /\ UNCHANGED <<section, block, emitted, taken>>
  BY <1>1, <1>2, SameTrace, ChainKept, PathsKept, IoKept DEF ioVars
<1>4. /\ Len(names) \in Nat /\ offset \in 1 .. Len(names) + 1 /\ broken \in Nat /\ section \in 1 .. 3
  BY <1>2, NamesAre DEF ChainInv, PathsInv, IoPlace
<1>5. NoProblem' => NoProblem
  BY DEF NoProblem, Unpacking, PayloadLost, NoTable, EmptyTable, PathsResolved, NoIo, IoRefused,
         IoRead, ReadyBootReturns, Reports, bootVars
<1>6. CASE Unpacking
  BY <1>1, <1>2, <1>3, <1>6 DEF Unpacking, bootVars, BootInv, NoProblem
<1>7. CASE PayloadLost \/ NoTable \/ EmptyTable
  <2>1. rb = "payload" /\ rb' = "done" /\ ~NoProblem'
    <3>1. /\ rb = "payload" /\ rb' = "done"
          /\ \E what \in {"payload did not decode", "not recognised", "no readable records"} :
               bootProblems' = bootProblems \cup {what}
      BY <1>7 DEF PayloadLost, NoTable, EmptyTable, ReadyBootReturns, Reports
    <3> QED
      BY <3>1 DEF NoProblem
  <2>2. offset = Len(names) + 1
    BY <1>2, <2>1, NoPathYet, EmptySeq
  <2> QED
    BY <1>1, <1>3, <2>1, <2>2 DEF BootInv
<1>8. CASE PathsResolved
  <2>1. rb = "paths" /\ rb' = "io" /\ offset > Len(names) /\ (NoProblem' => ~(broken > 0))
    BY <1>8 DEF PathsResolved, Reports, NoProblem
  <2>2. offset = Len(names) + 1 /\ (NoProblem' => broken = 0)
    BY <1>4, <2>1
  <2> QED
    BY <1>1, <1>2, <1>3, <1>5, <2>1, <2>2 DEF BootInv
<1>9. CASE NoIo \/ IoRefused \/ IoRead
  <2>1. /\ rb = "io" /\ rb' = "done"
        /\ NoProblem' => ~Inner.io \/ section > 2
    <3>1. CASE NoIo \/ IoRead
      BY <3>1 DEF NoIo, IoRead, ReadyBootReturns
    <3>2. CASE IoRefused
      <4>1. rb = "io" /\ rb' = "done" /\ "I/O trace not read" \in bootProblems'
        BY <3>2 DEF IoRefused, ReadyBootReturns, Reports
      <4> QED
        BY <4>1 DEF NoProblem
    <3> QED
      BY <1>9, <3>1, <3>2
  <2>2. NoProblem' /\ Inner.io => section = 3
    BY <1>4, <2>1
  <2> QED
    BY <1>1, <1>2, <1>3, <1>5, <2>1, <2>2 DEF BootInv
<1> QED
  BY <1>6, <1>7, <1>8, <1>9

\* A record's chain goes on, or ends.
LEMMA PathStep ==
  ASSUME BootInv, FollowLink \/ PathJoined \/ PathDropped
  PROVE  BootInv'
<1>1. /\ rb = "paths" /\ rb' = rb /\ UNCHANGED <<boot, names, bootProblems>> /\ UNCHANGED ioVars
  BY DEF FollowLink, PathJoined, PathDropped, Joining, Apart
<1>2. /\ IsTrace(Inner) /\ NamesRead /\ ChainInv /\ PathsInv /\ IoPlace /\ Summed(EventsSeen)
      /\ section = 1 /\ block = 0 /\ emitted = 0 /\ taken = 0
      /\ NoProblem => names = Inner.table
  BY <1>1 DEF BootInv
<1>3. ChainInv' /\ PathsInv'
  <2>1. CASE FollowLink
    <3>1. UNCHANGED <<boot, names, offset, paths, broken>>
      BY <2>1 DEF FollowLink, Apart
    <3> QED
      BY <1>2, <2>1, <3>1, ClimbStep, PathsKept
  <2>2. CASE PathJoined
    BY <1>2, <2>2, JoinStep
  <2>3. CASE PathDropped
    BY <1>2, <2>3, DropStep
  <2> QED
    BY <2>1, <2>2, <2>3
<1>4. /\ IsTrace(Inner)' /\ NamesRead' /\ IoPlace' /\ Summed(EventsSeen)'
      /\ Inner' = Inner /\ UNCHANGED <<section, block, emitted, taken>>
  BY <1>1, <1>2, SameTrace, IoKept DEF ioVars
<1>5. NoProblem' => NoProblem
  BY <1>1 DEF NoProblem
<1> QED
  BY <1>1, <1>2, <1>3, <1>4, <1>5 DEF BootInv

LEMMA IoStep ==
  ASSUME BootInv, ReadEvent \/ BlockRead \/ NextSection
  PROVE  BootInv'
<1>1. /\ rb = "io" /\ rb' = rb /\ UNCHANGED <<boot, names, offset, link, chain, paths, broken, bootProblems>>
  BY DEF ReadEvent, BlockRead, NextSection, InSection, Sections, Apart, joinVars
<1>2. /\ IsTrace(Inner) /\ NamesRead /\ ChainInv /\ PathsInv /\ IoPlace /\ Summed(EventsSeen)
      /\ offset = Len(names) + 1
      /\ NoProblem => names = Inner.table /\ broken = 0
  BY <1>1 DEF BootInv
<1>3. IoPlace' /\ Summed(EventsSeen)'
  <2>1. CASE ReadEvent
    BY <1>2, <2>1, EventSeen, EventSummed
  <2>2. CASE BlockRead \/ NextSection
    <3>1. IoPlace' /\ EventsSeen' = EventsSeen /\ UNCHANGED <<boot, reads, clock>>
      BY <1>2, <2>2, BlockSeen, SectionSeen DEF BlockRead, NextSection, Apart
    <3>2. \A q : EventAt(q)' = EventAt(q)
      BY <3>1 DEF EventAt, Inner
    <3>3. Summed(EventsSeen)' = Summed(EventsSeen)
      BY <3>1, <3>2 DEF Summed
    <3> QED
      BY <1>2, <3>1, <3>3
  <2> QED
    BY <2>1, <2>2
<1>4. /\ IsTrace(Inner)' /\ NamesRead' /\ ChainInv' /\ PathsInv' /\ Inner' = Inner
  BY <1>1, <1>2, SameTrace, ChainKept, PathsKept
<1>5. NoProblem' => NoProblem
  BY <1>1 DEF NoProblem
<1> QED
  BY <1>1, <1>2, <1>3, <1>4, <1>5 DEF BootInv

LEMMA BootBegins ==
  ASSUME NEW given, ParseReadyBoot(given), IsTrace(given.inner)
  PROVE  BootInv'
<1>1. /\ boot' = given /\ rb' = "payload" /\ names' = <<>> /\ paths' = <<>> /\ broken' = 0
      /\ offset' = 1 /\ link' = 1 /\ chain' = <<>> /\ bootProblems' = {}
      /\ section' = 1 /\ emitted' = 0 /\ block' = 0 /\ taken' = 0 /\ reads' = <<>> /\ clock' = <<>>
  BY DEF ParseReadyBoot
<1>2. /\ Inner' = given.inner /\ <<>> \in Seq(ToSet(given.inner.table)) /\ Len(<<>>) = 0 /\ DOMAIN <<>> = {}
      /\ Len(given.inner.table) \in Nat /\ Cardinality({}) = 0
  BY <1>1, EmptySeq, FS_EmptySet, LenProperties DEF Inner, IsTrace
<1>3. IsTrace(Inner)' /\ NamesRead'
  BY <1>1, <1>2 DEF IsTrace, NamesRead
<1>4. ChainInv'
  <2>1. offset' \in 1 .. Len(names') + 1
    BY <1>1, <1>2
  <2> QED
    BY <1>1, <2>1, ChainBegins
<1>5. PathsInv'
  <2>1. 1 .. (1 - 1) = {} /\ 0 + 0 = 1 - 1 /\ <<>> \in Seq(Seq(DOMAIN names'))
    BY EmptySeq
  <2>2. GivenUp' = {}
    BY <1>1, <2>1 DEF GivenUp
  <2> QED
    BY <1>1, <1>2, <2>1, <2>2 DEF PathsInv
<1> DEFINE size == given.inner.sections[1]
<1>6. /\ size \in Nat /\ BlocksOf(size) \in Nat /\ PerBlock * 0 = 0 /\ PerBlock \in Nat
  <2>1. size \in Nat /\ PerBlock \in Nat
    BY BootAssumption DEF IsTrace
  <2> HIDE DEF size
  <2> QED
    BY <2>1, BlocksAre
<1>7. IoPlace'
  <2>1. /\ (Inner.sections[section])' = size /\ StartOf(section)' = 0
        /\ BlocksOf(Inner.sections[section])' = BlocksOf(size)
    BY <1>1, <1>2 DEF StartOf, BlocksOf
  <2>2. Take' = IF size - 0 < PerBlock THEN size - 0 ELSE PerBlock
    BY <1>1, <1>2 DEF Take
  <2>3. Take' >= 0 /\ 0 - 0 \in 0 .. BlocksOf(size)
    BY <1>6, <2>2
  <2>4. 0 = IF PerBlock * (0 - 0) < size THEN PerBlock * (0 - 0) ELSE size
    BY <1>6
  <2> QED
    BY <1>1, <2>1, <2>3, <2>4 DEF IoPlace
<1>8. Summed(EventsSeen)'
  <2>1. EventsSeen' = {}
    <3>1. ASSUME NEW p \in EventPlaces', p[1] <= 0 \/ (p[1] = 0 + 1 /\ p[2] <= 0)
          PROVE  FALSE
      <4>1. EventPlaces' \subseteq Nat \X (1 .. PerBlock) /\ \A q \in EventPlaces' : q[1] >= 1
        <5> DEFINE F == BlocksOf(Inner.sections[1])'
                   G == BlocksOf(Inner.sections[2])'
        <5>1. F = BlocksOf(given.inner.sections[1]) /\ G = BlocksOf(given.inner.sections[2])
          BY <1>2 DEF BlocksOf
        <5>2. F \in Nat /\ G \in Nat
          BY <5>1, BlocksAre DEF IsTrace
        <5>3. EventPlaces' \subseteq (1 .. F) \X (1 .. PerBlock) \cup (F + 1 .. F + G) \X (1 .. PerBlock)
          BY DEF EventPlaces
        <5> HIDE DEF F, G
        <5> QED
          BY <5>2, <5>3
      <4> QED
        BY <3>1, <4>1, <1>6
    <3> QED
      BY <1>1, <3>1 DEF EventsSeen
  <2> QED
    BY <1>1, <1>2, <2>1 DEF Summed
<1> QED
  BY <1>1, <1>3, <1>4, <1>5, <1>7, <1>8 DEF BootInv

\* Only parse_readyboot has a boot trace, the one it was given.
LEMMA BootAlone ==
  ASSUME WalkInv, [Next]_vars
  PROVE  \/ ReadyBootStep
         \/ \E given : IsTrace(given.inner) /\ ParseReadyBoot(given)
         \/ UNCHANGED bootVars
<1>1. CASE FolderStep
  <2>1. CASE \/ FolderRaises \/ StartWalk \/ NextDirectory \/ NextFile \/ FolderScanned \/ LeftToParse
             \/ NotRegular \/ NotOpened \/ Grown \/ Unrecognised \/ AboveCeiling
             \/ ParseLayout \/ ParsePfpre \/ DbParsed \/ DbRaises \/ BootParsed \/ DateRaises
    BY <2>1 DEF FolderRaises, StartWalk, NextDirectory, NextFile, FolderScanned, LeftToParse,
                NotRegular, NotOpened, Grown, Unrecognised, AboveCeiling, Unparsed, ParseLayout,
                ParsePfpre, DbParsed, DbRaises, BootParsed, DateRaises, ParsersIdle
  <2>2. CASE StartBoot
    <3>1. AtWork /\ file.kind = "readyboot"
      BY <2>2 DEF StartBoot, Whole, AtWork
    <3>2. IsTrace(file.in.inner)
      BY <3>1, FileAtHand, FolderFiles DEF WalkInv
    <3> QED
      BY <2>2, <3>2 DEF StartBoot
  <2>3. CASE StartDb \/ DbStep
    BY <2>3 DEF StartDb, DbStep
  <2>4. CASE BootStep
    BY <2>4 DEF BootStep
  <2> QED
    BY <1>1, <2>1, <2>2, <2>3, <2>4 DEF FolderStep
<1> QED
  BY <1>1, FolderAlone DEF folderVars

LEMMA BootInductive == WalkInv /\ BootInv /\ [Next]_vars => BootInv'
<1> SUFFICES ASSUME WalkInv, BootInv, [Next]_vars PROVE BootInv'
  OBVIOUS
<1>1. CASE ReadyBootStep
  BY <1>1, ReportStep, ReadTableStep, PathStep, IoStep DEF ReadyBootStep
<1>2. ASSUME NEW given, IsTrace(given.inner), ParseReadyBoot(given)
      PROVE  BootInv'
  BY <1>2, BootBegins
<1>3. CASE UNCHANGED bootVars
  <2>1. /\ UNCHANGED <<boot, rb, names, offset, link, chain, paths, broken, bootProblems>>
        /\ UNCHANGED ioVars /\ UNCHANGED <<section, block, emitted, taken>>
    BY <1>3 DEF bootVars, joinVars, ioVars
  <2>2. /\ IsTrace(Inner)' = IsTrace(Inner) /\ NamesRead' = NamesRead /\ Inner' = Inner
        /\ ChainInv' = ChainInv /\ PathsInv' = PathsInv
        /\ IoPlace' = IoPlace /\ Summed(EventsSeen)' = Summed(EventsSeen)
    BY <2>1, SameTrace, ChainKept, PathsKept, IoKept
  <2>3. NoProblem' = NoProblem
    BY <2>1 DEF NoProblem
  <2> QED
    BY <2>1, <2>2, <2>3 DEF BootInv
<1> QED
  BY <1>1, <1>2, <1>3, BootAlone

\* Whatever was seen before the last section's end is all there is.
LEMMA AllSeen ==
  ASSUME IsTrace(Inner), IoPlace, section = 3
  PROVE  EventsSeen = EventPlaces
<1>1. block = StartOf(3)
  BY DEF IoPlace
<1>2. \A p \in EventPlaces : p[1] <= block
  BY <1>1, SectionsAre, EventPlaced
<1> QED
  BY <1>2 DEF EventsSeen

LEMMA TraceHolds == BootInv => TraceAccounted
<1> SUFFICES ASSUME BootInv, rb = "done" PROVE TraceAccounted
  BY DEF TraceAccounted
<1>1. /\ IsTrace(Inner) /\ NamesRead /\ ChainInv /\ PathsInv /\ IoPlace /\ Summed(EventsSeen)
      /\ offset = Len(names) + 1
      /\ NoProblem => /\ names = Inner.table /\ broken = 0
                      /\ Inner.io => section = 3
  BY DEF BootInv
<1>2. /\ Len(names) \in Nat /\ DOMAIN names = 1 .. Len(names) /\ (Len(names) + 1) - 1 = Len(names)
  BY <1>1, NamesAre
<1>3. Dropped = GivenUp
  BY <1>1, <1>2 DEF Dropped, GivenUp
<1>4. /\ \A j \in DOMAIN paths : LeadsTo(paths[j], paths[j][Len(paths[j])])
      /\ Len(paths) + broken = Len(names) /\ broken = Cardinality(Dropped)
      /\ \A k \in Dropped : NoWay(k)
  BY <1>1, <1>2, <1>3 DEF PathsInv
<1>5. \A k \in Dropped : \A n \in 1 .. MaxDepth :
        ~\E way \in [1 .. n -> DOMAIN names] : LeadsTo(way, k)
  BY <1>4 DEF NoWay
<1>6. ASSUME NoProblem
      PROVE  Dropped = {}
  <2>1. IsFiniteSet(Dropped)
    <3>1. 1 \in Int /\ Len(names) \in Int
      BY <1>2
    <3>2. IsFiniteSet(DOMAIN names) /\ Dropped \subseteq DOMAIN names
      BY <1>2, <3>1, FS_Interval DEF Dropped
    <3> QED
      BY <3>2, FS_Subset
  <2> QED
    BY <1>1, <1>4, <1>6, <2>1, FS_EmptySet
<1>7. ASSUME NoProblem, Inner.io
      PROVE  EventsCounted
  <2>1. Summed(EventPlaces)
    BY <1>1, <1>7, AllSeen
  <2> QED
    BY <2>1 DEF Summed, EventsCounted
<1> QED
  BY <1>1, <1>4, <1>5, <1>6, <1>7 DEF TraceAccounted, NoProblem

\* artifacts.py:433-434, 319-325, 349-351 and 478-480: for every boot trace and every
\* ceiling on a path's depth, each record read has its path or is counted as dropped,
\* and no way of that depth leads to a dropped one; and a trace without a problem was
\* read whole, each event its header counts once.
THEOREM TraceIsAccounted == Spec => []TraceAccounted
<1>1. Init => WalkInv /\ BootInv
  <2> SUFFICES ASSUME Init PROVE WalkInv /\ BootInv
    OBVIOUS
  <2>1. rb = "idle"
    BY DEF Init, FolderInit, ReadyBootInit
  <2> QED
    BY <2>1, WalkInitially DEF BootInv
<1> QED
  BY <1>1, WalkInductive, BootInductive, TraceHolds, PTL DEF Spec

(* A database.  Until it is done, every file read is of an entry whose hash    *)
(* verifies; and during the walk the cursor has not passed a volume record     *)
(* since the one the entries are given to, unless the bytes an entry steps     *)
(* over read as one as well.  During the scan the entries passed since the     *)
(* record they are given to, and those it still waits for, are no more than it *)
(* declares.                                                                   *)

RecordsHeld   == {Items[k].volume[1] : k \in {j \in DOMAIN Items : Items[j].volume # <<>>}}
FilesVerified == {Items[k].path : k \in {j \in DOMAIN Items : Verifies(j)}}

\* Every file read stands under its volume.
UnderTheirs ==
  \A v \in DOMAIN volumes : \A f \in DOMAIN volumes[v].files :
    \E k \in DOMAIN Items :
      /\ Items[k].path = volumes[v].files[f]
      /\ Owner(k) > 0 /\ Items[Owner(k)].volume[1] = volumes[v].record

\* The volume record at item p is the one whose entries are read.
ReadsUnder(p) ==
  /\ Items[p].volume # <<>> /\ Items[p].volume[1] = volumes[Len(volumes)].record
  /\ p < cursor /\ \A j \in DOMAIN Items : p < j /\ j < cursor => Items[j].volume = <<>>

\* Every file the scan read was read for the volume its record declares it for.
ScannedTheirs ==
  \A v \in DOMAIN volumes : \A path \in ToSet(volumes[v].files) : ScannedFor(volumes[v], path)

\* The record at item p is the one whose entries are scanned.
Passed(p) == {l \in (p + 1) .. (cursor - 1) : Verifies(l)}

ScansUnder(p) ==
  /\ Items[p].volume # <<>> /\ Items[p].volume[1] = volumes[Len(volumes)].record
  /\ p < cursor /\ Cardinality(Passed(p)) + due <= volumes[Len(volumes)].record.declared

Reading == sf \in {"payload", "walk", "scan", "entries"}

DbInv ==
  /\ Reading =>
       /\ IsDatabase(db) /\ cursor \in Nat \ {0} /\ due \in Nat
       /\ volumes \in Seq([record : RecordsHeld, files : Seq(FilesVerified)])
       /\ swept = {} /\ unaccounted = {} /\ method = "none"
       /\ sf = "payload" => volumes = <<>> /\ due = 0
       /\ sf = "walk" /\ due > 0 => volumes # <<>>
       /\ sf = "entries" => volumes # <<>>
       /\ sf = "walk" /\ Straight =>
            UnderTheirs /\ (due > 0 => \E p \in DOMAIN Items : ReadsUnder(p))
       /\ sf \in {"scan", "entries"} => ScannedTheirs
       /\ sf = "entries" => \E p \in DOMAIN Items : ScansUnder(p)
  /\ RecordsAccounted

LEMMA DbAlone ==
  ASSUME WalkInv, [Next]_vars
  PROVE  \/ SuperFetchStep
         \/ \E given : IsDatabase(given) /\ ParseSuperFetch(given)
         \/ UNCHANGED dbVars
<1>1. CASE FolderStep
  <2>1. CASE \/ FolderRaises \/ StartWalk \/ NextDirectory \/ NextFile \/ FolderScanned \/ LeftToParse
             \/ NotRegular \/ NotOpened \/ Grown \/ Unrecognised \/ AboveCeiling
             \/ ParseLayout \/ ParsePfpre \/ DbParsed \/ DbRaises \/ BootParsed \/ DateRaises
    BY <2>1 DEF FolderRaises, StartWalk, NextDirectory, NextFile, FolderScanned, LeftToParse,
                NotRegular, NotOpened, Grown, Unrecognised, AboveCeiling, Unparsed, ParseLayout,
                ParsePfpre, DbParsed, DbRaises, BootParsed, DateRaises, ParsersIdle
  <2>2. CASE StartDb
    <3>1. AtWork /\ file.kind = "superfetch"
      BY <2>2 DEF StartDb, Whole, AtWork
    <3>2. IsDatabase(file.in)
      BY <3>1, FileAtHand, FolderFiles DEF WalkInv
    <3> QED
      BY <2>2, <3>2 DEF StartDb
  <2>3. CASE DbStep
    BY <2>3 DEF DbStep
  <2>4. CASE StartBoot \/ BootStep
    BY <2>4 DEF StartBoot, BootStep
  <2> QED
    BY <1>1, <2>1, <2>2, <2>3, <2>4 DEF FolderStep
<1> QED
  BY <1>1, FolderAlone DEF folderVars

\* What the items say is of the database alone, and what was parsed of the volumes.
LEMMA SameDatabase ==
  ASSUME db' = db
  PROVE  /\ Items' = Items /\ Header' = Header /\ Sweep' = Sweep /\ Straight' = Straight
         /\ IsDatabase(db)' = IsDatabase(db)
         /\ RecordsHeld' = RecordsHeld /\ FilesVerified' = FilesVerified
         /\ \A k : Verifies(k)' = Verifies(k)
         /\ \A k : Owner(k)' = Owner(k)
         /\ \A volume, path : ScannedFor(volume, path)' = ScannedFor(volume, path)
<1>1. Items' = Items /\ Header' = Header
  BY DEF Items, Header
<1>2. \A k : Verifies(k)' = Verifies(k)
  BY <1>1 DEF Verifies
<1>3. \A k : Owner(k)' = Owner(k)
  BY <1>1 DEF Owner
<1>4. \A volume, path : ScannedFor(volume, path)' = ScannedFor(volume, path)
  <2>1. \A j : OwnFiles(j)' = OwnFiles(j)
    BY <1>1, <1>2, <1>3 DEF OwnFiles
  <2> QED
    BY <1>1, <1>2, <1>3, <2>1 DEF ScannedFor
<1> QED
  BY <1>1, <1>2, <1>3, <1>4 DEF Sweep, Straight, IsDatabase, RecordsHeld, FilesVerified, Verifies

LEMMA SameVolumes ==
  ASSUME volumes' = volumes
  PROVE  ParsedFiles' = ParsedFiles /\ FilesRead' = FilesRead /\ FileCount' = FileCount
<1>1. FilesRead' = FilesRead
  BY DEF FilesRead
<1> QED
  BY <1>1 DEF ParsedFiles, FileCount

\* The items, and what is made of them.
LEMMA ItemsAre ==
  ASSUME IsDatabase(db)
  PROVE  /\ Len(Items) \in Nat /\ DOMAIN Items = 1 .. Len(Items)
         /\ \A k \in DOMAIN Items :
              /\ Items[k].volume # <<>> => Items[k].volume[1].declared \in Nat
              /\ Items[k].stride \in Nat \ {0}
              /\ Items[k].shown \in Seq(ToSet(Items[k].shown))
<1>1. Items \in Seq(ToSet(Items))
  BY DEF IsDatabase, Items
<1> QED
  BY <1>1, LenProperties DEF IsDatabase, Items

LEMMA OwnerIs ==
  ASSUME IsDatabase(db), NEW k \in DOMAIN Items, NEW p \in 1 .. k, Items[p].volume # <<>>,
         \A j \in 1 .. k : p < j => Items[j].volume = <<>>
  PROVE  Owner(k) = p /\ Owner(k) > 0
<1> DEFINE T == {j \in 1 .. k : Items[j].volume # <<>>}
<1>1. k \in Nat /\ p \in T /\ T \subseteq Nat /\ \A j \in T : j <= p
  BY ItemsAre
<1>2. Max(T) \in T /\ \A j \in T : j <= Max(T)
  <2> HIDE DEF T
  <2> QED
    BY <1>1, MaxIs
<1>3. Max(T) = p
  BY <1>1, <1>2
<1> QED
  BY <1>1, <1>3 DEF Owner

\* An entry read behind the record at p, with fewer passed since than it declares, is the
\* record's own or makes up for what the record has too few of.
LEMMA ScanOwns ==
  ASSUME IsDatabase(db), NEW p \in DOMAIN Items, NEW k \in DOMAIN Items, NEW c \in Nat,
         p < c, c <= k, Items[p].volume # <<>>, Verifies(k),
         \A l \in c .. (k - 1) : ~Verifies(l),
         NEW volume, volume.record = Items[p].volume[1],
         Cardinality({l \in (p + 1) .. (c - 1) : Verifies(l)}) < volume.record.declared
  PROVE  ScannedFor(volume, Items[k].path)
<1> DEFINE W == {l \in (p + 1) .. (c - 1) : Verifies(l)}
<1>1. /\ Len(Items) \in Nat /\ DOMAIN Items = 1 .. Len(Items) /\ volume.record.declared \in Nat
      /\ p \in Nat /\ k \in Nat /\ p \in 1 .. (k - 1)
  BY ItemsAre
<1>2. IsFiniteSet(W) /\ Cardinality(W) \in Nat
  <2>1. p + 1 \in Int /\ c - 1 \in Int
    BY <1>1
  <2>2. IsFiniteSet((p + 1) .. (c - 1))
    BY <2>1, FS_Interval
  <2> QED
    BY <2>2, FS_Subset, FS_CardinalityType
<1>3. ASSUME Owner(k) # p
      PROVE  OwnFiles(p) \subseteq W
  <2> SUFFICES ASSUME NEW l \in DOMAIN Items, p < l, Owner(l) = p, Verifies(l), l \notin W
               PROVE  FALSE
    BY DEF OwnFiles
  <2>1. l \in Nat /\ k <= l
    <3>1. l \in Nat /\ (l < c \/ l >= c) /\ (k <= l \/ l <= k - 1)
      BY <1>1
    <3>2. ~(l < c)
      BY <1>1, <3>1
    <3> QED
      BY <1>1, <3>1, <3>2
  <2> DEFINE U == {j \in 1 .. l : Items[j].volume # <<>>}
  <2>2. p \in U /\ U \subseteq Nat /\ \A j \in U : j <= l
    BY <1>1, <2>1
  <2>3. Owner(l) = Max(U)
    BY <2>2 DEF Owner
  <2>4. \A j \in U : j <= Max(U)
    <3> HIDE DEF U
    <3> QED
      BY <2>1, <2>2, MaxIs
  <2>5. \A j \in 1 .. k : p < j => Items[j].volume = <<>>
    BY <1>1, <2>1, <2>3, <2>4
  <2>6. Owner(k) = p
    BY <1>1, <2>5, OwnerIs
  <2> QED
    BY <1>3, <2>6
<1>4. ASSUME Owner(k) # p
      PROVE  Cardinality(OwnFiles(p)) < volume.record.declared
  <2>1. IsFiniteSet(OwnFiles(p)) /\ Cardinality(OwnFiles(p)) \in Nat /\ Cardinality(OwnFiles(p)) <= Cardinality(W)
    BY <1>2, <1>3, <1>4, FS_Subset, FS_CardinalityType
  <2> QED
    BY <1>1, <1>2, <2>1
<1>5. Owner(k) = p \/ Cardinality(OwnFiles(p)) < volume.record.declared
  BY <1>4
<1> QED
  BY <1>1, <1>5 DEF ScannedFor

\* A sequence lies within itself.
LEMMA WithinItself ==
  ASSUME NEW S, NEW text \in Seq(S), text # <<>>
  PROVE  Within(text, text)
<1>1. Len(text) \in Nat /\ Len(text) # 0 /\ DOMAIN text = 1 .. Len(text)
  BY EmptySeq, LenProperties
<1>2. SubSeq(text, 1, Len(text)) = text
  OBVIOUS
<1>3. 1 \in DOMAIN text /\ Len(text) \in DOMAIN text
  BY <1>1
<1> QED
  BY <1>2, <1>3 DEF Within

\* No file counted, no file parsed.
LEMMA NoneCounted ==
  ASSUME NEW R, NEW S, volumes \in Seq([record : R, files : Seq(S)])
  PROVE  /\ FileCount = 0 => ParsedFiles = {}
         /\ volumes = <<>> => ParsedFiles = {}
<1>1. /\ Len(volumes) \in Nat /\ DOMAIN volumes = 1 .. Len(volumes)
      /\ \A v \in DOMAIN volumes : volumes[v].files \in Seq(S)
  <2>1. Len(volumes) \in Nat /\ DOMAIN volumes = 1 .. Len(volumes)
    BY LenProperties
  <2>2. \A v \in DOMAIN volumes : volumes[v] \in [record : R, files : Seq(S)]
    <3> DEFINE T == [record : R, files : Seq(S)]
    <3> HIDE DEF T
    <3>1. volumes \in Seq(T)
      BY DEF T
    <3>2. \A v \in DOMAIN volumes : volumes[v] \in T
      BY <2>1, <3>1
    <3> QED
      BY <3>2 DEF T
  <2>3. \A x \in [record : R, files : Seq(S)] : x.files \in Seq(S)
    OBVIOUS
  <2> QED
    BY <2>1, <2>2, <2>3
<1>2. \A v \in DOMAIN volumes : IsFiniteSet({v} \X DOMAIN volumes[v].files)
  <2> SUFFICES ASSUME NEW v \in DOMAIN volumes PROVE IsFiniteSet({v} \X DOMAIN volumes[v].files)
    OBVIOUS
  <2>1. Len(volumes[v].files) \in Nat /\ DOMAIN volumes[v].files = 1 .. Len(volumes[v].files)
    BY <1>1, LenProperties
  <2>2. IsFiniteSet(DOMAIN volumes[v].files)
    <3>1. 1 \in Int /\ Len(volumes[v].files) \in Int
      BY <2>1
    <3> QED
      BY <2>1, <3>1, FS_Interval
  <2> QED
    BY <2>2, FS_Singleton, FS_Product
<1>3. IsFiniteSet(FilesRead)
  <2> DEFINE g == [v \in DOMAIN volumes |-> {v} \X DOMAIN volumes[v].files]
  <2>1. IsFiniteSet(DOMAIN volumes)
    <3>1. 1 \in Int /\ Len(volumes) \in Int
      BY <1>1
    <3> QED
      BY <1>1, <3>1, FS_Interval
  <2>2. g = [v \in DOMAIN volumes |-> g[v]]
    OBVIOUS
  <2>3. \A v \in DOMAIN volumes : g[v] = {v} \X DOMAIN volumes[v].files
    OBVIOUS
  <2> HIDE DEF g
  <2>4. IsFiniteSet({g[v] : v \in DOMAIN volumes})
    BY <2>1, <2>2, Images
  <2>5. FilesRead = UNION {g[v] : v \in DOMAIN volumes}
    BY <2>3 DEF FilesRead
  <2>6. \A T \in {g[v] : v \in DOMAIN volumes} : IsFiniteSet(T)
    BY <1>2, <2>3
  <2> QED
    BY <2>4, <2>5, <2>6, FS_UNION
<1>4. FilesRead = {} => ParsedFiles = {}
  <2> SUFFICES ASSUME FilesRead = {}, NEW v \in DOMAIN volumes, NEW path \in ToSet(volumes[v].files)
               PROVE  FALSE
    BY DEF ParsedFiles
  <2>1. PICK f \in DOMAIN volumes[v].files : path = volumes[v].files[f]
    BY DEF ToSet
  <2>2. <<v, f>> \in FilesRead
    BY DEF FilesRead
  <2> QED
    BY <2>2
<1>5. FileCount = 0 => FilesRead = {}
  BY <1>3, FS_EmptySet DEF FileCount
<1>6. volumes = <<>> => ParsedFiles = {}
  BY DEF ParsedFiles
<1> QED
  BY <1>4, <1>5, <1>6

LEMMA SomeCounted ==
  ASSUME FileCount # 0
  PROVE  ParsedFiles # {}
<1>1. FilesRead # {}
  BY FS_EmptySet DEF FileCount
<1>2. PICK v \in DOMAIN volumes : \E f \in DOMAIN volumes[v].files : TRUE
  BY <1>1 DEF FilesRead
<1>3. PICK f \in DOMAIN volumes[v].files : TRUE
  BY <1>2
<1>4. volumes[v].files[f] \in ParsedFiles
  BY <1>3 DEF ParsedFiles, ToSet
<1> QED
  BY <1>4

LEMMA DbKept ==
  ASSUME UNCHANGED dbVars
  PROVE  DbInv' = DbInv
<1>1. UNCHANGED <<db, sf, cursor, due, volumes, sources, swept, unaccounted, method, dbProblems>>
  BY DEF dbVars
<1>2. /\ Items' = Items /\ Header' = Header /\ Sweep' = Sweep /\ Straight' = Straight
      /\ IsDatabase(db)' = IsDatabase(db)
      /\ RecordsHeld' = RecordsHeld /\ FilesVerified' = FilesVerified
      /\ \A k : Owner(k)' = Owner(k)
      /\ \A k : Verifies(k)' = Verifies(k)
      /\ \A volume, path : ScannedFor(volume, path)' = ScannedFor(volume, path)
      /\ ParsedFiles' = ParsedFiles /\ FileCount' = FileCount
  BY <1>1, SameDatabase, SameVolumes
<1>3. DbPaths' = DbPaths
  BY <1>1, <1>2 DEF DbPaths
<1>4. UnderTheirs' = UnderTheirs
  BY <1>1, <1>2 DEF UnderTheirs
<1>5. /\ \A p : ReadsUnder(p)' = ReadsUnder(p)
      /\ \A p : ScansUnder(p)' = ScansUnder(p) /\ ScannedTheirs' = ScannedTheirs
  <2>1. \A p : ReadsUnder(p)' = ReadsUnder(p)
    BY <1>1, <1>2 DEF ReadsUnder
  <2>2. \A p : ScansUnder(p)' = ScansUnder(p)
    BY <1>1, <1>2 DEF ScansUnder, Passed
  <2>3. ScannedTheirs' = ScannedTheirs
    BY <1>1, <1>2 DEF ScannedTheirs
  <2> QED
    BY <2>1, <2>2, <2>3
<1>6. RecordsAccounted' = RecordsAccounted
  BY <1>1, <1>2, <1>3 DEF RecordsAccounted
<1>7. Reading' = Reading
  BY <1>1 DEF Reading
<1> QED
  BY <1>1, <1>2, <1>4, <1>5, <1>6, <1>7 DEF DbInv

\* What is not done is not yet accounted for.
LEMMA NotDone ==
  ASSUME sf' # "done"
  PROVE  RecordsAccounted'
BY DEF RecordsAccounted

\* Nothing was parsed, and the sweep stands in for the records.
LEMMA SweepStep ==
  ASSUME DbInv, Reading, ParsedFiles = {}, NEW what, SweptOnly(what), Sweep = {} => dbProblems \cup what # {}
  PROVE  DbInv'
<1>1. /\ swept' = Sweep /\ sf' = "done" /\ method' = IF Sweep # {} THEN "sweep" ELSE "none"
      /\ dbProblems' = dbProblems \cup what /\ UNCHANGED <<db, volumes>>
  BY DEF SweptOnly
<1>2. Sweep' = Sweep /\ ParsedFiles' = {}
  BY <1>1, SameDatabase, SameVolumes
<1>3. DbPaths' = Sweep
  BY <1>1, <1>2 DEF DbPaths
<1>4. method' \in {"sweep", "none"} /\ method' \notin {"structural", "scan"}
  BY <1>1
<1>5. RecordsAccounted'
  BY <1>1, <1>2, <1>3, <1>4 DEF RecordsAccounted
<1> QED
  BY <1>1, <1>5 DEF DbInv, Reading

LEMMA PayloadStep ==
  ASSUME DbInv, DbNotUnpacked \/ DbTooSmall \/ ProbeRaises \/ Undocumented \/ Recognised
  PROVE  DbInv'
<1>1. /\ sf = "payload" /\ Reading /\ IsDatabase(db)
      /\ volumes \in Seq([record : RecordsHeld, files : Seq(FilesVerified)])
      /\ volumes = <<>> /\ due = 0 /\ cursor \in Nat \ {0}
      /\ swept = {} /\ unaccounted = {} /\ method = "none"
  BY DEF DbInv, Reading, DbNotUnpacked, DbTooSmall, ProbeRaises, Undocumented, Recognised, Opened
<1>2. ParsedFiles = {}
  BY <1>1, NoneCounted
<1>3. CASE DbNotUnpacked
  <2>1. sf' = "done" /\ dbProblems' = {"decompression failed"} /\ UNCHANGED <<db, volumes, swept, method>>
    BY <1>3 DEF DbNotUnpacked
  <2>2. ParsedFiles' = {} /\ DbPaths' = {} /\ method' = "none"
    BY <1>1, <1>2, <2>1, SameVolumes DEF DbPaths
  <2> QED
    BY <2>1, <2>2 DEF DbInv, Reading, RecordsAccounted
<1>4. CASE DbTooSmall
  BY <1>1, <1>2, <1>4, SweepStep DEF DbTooSmall
<1>5. CASE Undocumented
  <2>1. SweptOnly(SizeProblem \cup {"undocumented entry sizes"})
    BY <1>5 DEF Undocumented
  <2> QED
    BY <1>1, <1>2, <2>1, SweepStep
<1>6. CASE ProbeRaises
  <2>1. sf' = "raised"
    BY <1>6 DEF ProbeRaises
  <2> QED
    BY <2>1, NotDone DEF DbInv, Reading
<1>7. CASE Recognised
  <2>1. sf' \in {"walk", "scan"} /\ UNCHANGED <<db, cursor, due, volumes, swept, unaccounted, method>>
    BY <1>7 DEF Recognised
  <2>2. /\ IsDatabase(db)' /\ RecordsHeld' = RecordsHeld /\ FilesVerified' = FilesVerified
    BY <1>1, <2>1, SameDatabase
  <2>3. UnderTheirs' /\ ScannedTheirs'
    BY <1>1, <2>1 DEF UnderTheirs, ScannedTheirs
  <2>4. RecordsAccounted'
    BY <2>1, NotDone
  <2> QED
    BY <1>1, <2>1, <2>2, <2>3, <2>4 DEF DbInv, Reading
<1> QED
  BY <1>3, <1>4, <1>5, <1>6, <1>7

\* A volume record is read: the entries to come are its own.
LEMMA VolumeStep ==
  ASSUME DbInv, NEW stage \in {"walk", "entries"}, sf \in {"walk", "scan"}, stage = "walk" <=> sf = "walk",
         AtVolume, ReadVolume(stage)
  PROVE  DbInv'
<1> DEFINE S == [record : RecordsHeld, files : Seq(FilesVerified)]
           r == [record |-> Here.volume[1], files |-> <<>>]
<1>1. /\ IsDatabase(db) /\ cursor \in Nat \ {0} /\ volumes \in Seq(S)
      /\ swept = {} /\ unaccounted = {} /\ method = "none"
      /\ sf = "walk" /\ Straight => UnderTheirs
  BY DEF DbInv, Reading
<1>2. /\ volumes' = Append(volumes, r) /\ due' = Here.volume[1].declared /\ cursor' = cursor + 1
      /\ sf' = stage /\ UNCHANGED <<db, swept, unaccounted, method>>
  BY DEF ReadVolume
<1>3. cursor \in DOMAIN Items /\ Here.volume # <<>> /\ Here = Items[cursor]
  BY <1>1, ItemsAre DEF AtVolume, Inside, Here
<1>4. Here.volume[1].declared \in Nat /\ Here.volume[1] \in RecordsHeld
  BY <1>1, <1>3, ItemsAre DEF RecordsHeld
<1>5. r \in S
  <2>1. <<>> \in Seq(FilesVerified)
    OBVIOUS
  <2> QED
    BY <1>4, <2>1
<1> HIDE DEF S
<1>6. /\ volumes' \in Seq(S) /\ Len(volumes') = Len(volumes) + 1 /\ Len(volumes) \in Nat
      /\ DOMAIN volumes = 1 .. Len(volumes) /\ DOMAIN volumes' = 1 .. (Len(volumes) + 1)
      /\ volumes'[Len(volumes) + 1] = r /\ \A v \in DOMAIN volumes : volumes'[v] = volumes[v]
      /\ volumes' # <<>>
  BY <1>1, <1>2, <1>5, AppendProperties, LenProperties
<1>7. /\ IsDatabase(db)' /\ RecordsHeld' = RecordsHeld /\ FilesVerified' = FilesVerified
      /\ Items' = Items /\ Straight' = Straight /\ \A k : Owner(k)' = Owner(k)
      /\ \A k : Verifies(k)' = Verifies(k)
      /\ \A volume, path : ScannedFor(volume, path)' = ScannedFor(volume, path)
  BY <1>1, <1>2, SameDatabase
<1>8. ASSUME sf = "walk", Straight
      PROVE  UnderTheirs' /\ \E p \in DOMAIN Items : ReadsUnder(p)'
  <2>1. UnderTheirs'
    <3> SUFFICES ASSUME NEW v \in DOMAIN volumes', NEW f \in DOMAIN volumes'[v].files
                 PROVE  \E k \in DOMAIN Items :
                          /\ Items[k].path = volumes'[v].files[f]
                          /\ Owner(k) > 0 /\ Items[Owner(k)].volume[1] = volumes'[v].record
      BY <1>7 DEF UnderTheirs
    <3>1. v # Len(volumes) + 1
      BY <1>6
    <3>2. v \in DOMAIN volumes /\ volumes'[v] = volumes[v]
      BY <1>6, <3>1
    <3> QED
      BY <1>1, <1>8, <3>2 DEF UnderTheirs
  <2>2. /\ Items[cursor].volume # <<>>
        /\ Items[cursor].volume[1] = volumes'[Len(volumes')].record
        /\ cursor < cursor' /\ \A j \in DOMAIN Items : cursor < j /\ j < cursor' => Items[j].volume = <<>>
    <3>1. \A j \in DOMAIN Items : ~(cursor < j /\ j < cursor + 1)
      BY <1>1, ItemsAre
    <3> QED
      BY <1>1, <1>2, <1>3, <1>6, <3>1
  <2>3. ASSUME NEW p, p = cursor
        PROVE  ReadsUnder(p)'
    BY <1>7, <2>2, <2>3 DEF ReadsUnder
  <2> QED
    BY <1>3, <2>1, <2>3
<1>9. RecordsAccounted'
  BY <1>2, NotDone
<1>10. volumes' \in Seq([record : RecordsHeld', files : Seq(FilesVerified')])
  BY <1>6, <1>7 DEF S
<1>11. /\ cursor' \in Nat \ {0} /\ due' \in Nat
       /\ sf' \in {"walk", "entries"} /\ (sf' = "walk" => sf = "walk")
       /\ (sf' = "entries" => sf = "scan")
  BY <1>1, <1>2, <1>4
<1>12. ASSUME sf = "scan"
       PROVE  ScannedTheirs' /\ \E p \in DOMAIN Items : ScansUnder(p)'
  <2>1. ScannedTheirs
    BY <1>12 DEF DbInv, Reading
  <2>2. ScannedTheirs'
    <3> SUFFICES ASSUME NEW v \in DOMAIN volumes', NEW path \in ToSet(volumes'[v].files)
                 PROVE  ScannedFor(volumes'[v], path)
      BY <1>7 DEF ScannedTheirs
    <3>1. v # Len(volumes) + 1
      <4>1. ToSet(<<>>) = {}
        BY DEF ToSet
      <4> QED
        BY <1>6, <4>1
    <3>2. v \in DOMAIN volumes /\ volumes'[v] = volumes[v]
      BY <1>6, <3>1
    <3> QED
      BY <2>1, <3>2 DEF ScannedTheirs
  <2>3. /\ Items[cursor].volume # <<>> /\ Items[cursor].volume[1] = volumes'[Len(volumes')].record
        /\ cursor < cursor' /\ volumes'[Len(volumes')].record.declared = due' /\ due' \in Nat
    BY <1>1, <1>2, <1>3, <1>4, <1>6
  <2>4. {l \in (cursor + 1) .. (cursor' - 1) : Verifies(l)} = {}
    BY <1>1, <1>2
  <2>5. ASSUME NEW p, p = cursor
        PROVE  ScansUnder(p)'
    <3>1. Cardinality(Passed(p))' = 0
      <4>1. Passed(p)' = {}
        BY <1>7, <2>4, <2>5 DEF Passed
      <4> QED
        BY <4>1, FS_EmptySet
    <3> QED
      <4>1. volumes'[Len(volumes')].record.declared = due' /\ due' \in Nat
        BY <2>3
      <4>2. \A d \in Nat : 0 + d <= d
        OBVIOUS
      <4>3. Cardinality(Passed(p))' + due' <= volumes'[Len(volumes')].record.declared
        BY <3>1, <4>1, <4>2
      <4> QED
        BY <1>7, <2>3, <2>5, <4>3 DEF ScansUnder
  <2> QED
    BY <1>3, <2>2, <2>5
<1> QED
  BY <1>1, <1>2, <1>6, <1>7, <1>8, <1>9, <1>10, <1>11, <1>12 DEF DbInv, Reading

\* A file entry whose hash verifies is read, for the last volume.
LEMMA EntryStep ==
  ASSUME DbInv, sf \in {"walk", "entries"}, due > 0, NEW k \in DOMAIN Items, Verifies(k),
         NEW next \in Nat \ {0}, ReadEntry(k, next),
         sf = "walk" => k = cursor /\ next = cursor + Items[k].stride,
         sf = "entries" => next = k + 1 /\ cursor <= k /\ \A l \in cursor .. (k - 1) : ~Verifies(l)
  PROVE  DbInv'
<1> DEFINE S == [record : RecordsHeld, files : Seq(FilesVerified)]
           n == Len(volumes)
<1>1. /\ IsDatabase(db) /\ cursor \in Nat \ {0} /\ volumes \in Seq(S) /\ volumes # <<>> /\ due \in Nat
      /\ swept = {} /\ unaccounted = {} /\ method = "none"
      /\ sf = "walk" /\ Straight => UnderTheirs /\ \E p \in DOMAIN Items : ReadsUnder(p)
  BY DEF DbInv, Reading
<1>2. /\ volumes' = [volumes EXCEPT ![n].files = Append(@, Items[k].path)]
      /\ due' = due - 1 /\ cursor' = next
      /\ UNCHANGED <<db, sf, swept, unaccounted, method>>
  BY DEF ReadEntry
<1>3. Items[k].path \in FilesVerified
  BY DEF FilesVerified
<1>4. /\ n \in Nat /\ DOMAIN volumes = 1 .. n /\ n \in DOMAIN volumes
      /\ \A v \in DOMAIN volumes : volumes[v] \in S
  <2> HIDE DEF S
  <2>1. n \in Nat /\ DOMAIN volumes = 1 .. n /\ n # 0
    BY <1>1, LenProperties, EmptySeq
  <2>2. \A v \in DOMAIN volumes : volumes[v] \in S
    BY <1>1, <2>1
  <2> QED
    BY <2>1, <2>2
<1>5. /\ volumes[n].files \in Seq(FilesVerified) /\ volumes[n].record \in RecordsHeld
      /\ volumes[n] = [record |-> volumes[n].record, files |-> volumes[n].files]
  BY <1>4
<1> DEFINE grown == Append(volumes[n].files, Items[k].path)
<1>6. /\ grown \in Seq(FilesVerified) /\ Len(grown) = Len(volumes[n].files) + 1
      /\ DOMAIN grown = 1 .. (Len(volumes[n].files) + 1) /\ grown[Len(volumes[n].files) + 1] = Items[k].path
      /\ DOMAIN volumes[n].files = 1 .. Len(volumes[n].files) /\ Len(volumes[n].files) \in Nat
      /\ \A f \in DOMAIN volumes[n].files : grown[f] = volumes[n].files[f]
  BY <1>3, <1>5, AppendProperties, LenProperties
<1>7. /\ DOMAIN volumes' = DOMAIN volumes
      /\ volumes'[n] = [record |-> volumes[n].record, files |-> grown]
      /\ \A v \in DOMAIN volumes : v # n => volumes'[v] = volumes[v]
  BY <1>2, <1>4, <1>5
<1> HIDE DEF grown
<1>8. volumes'[n] \in S
  BY <1>5, <1>6, <1>7
<1> HIDE DEF S
<1>9. volumes' \in Seq(S) /\ volumes' # <<>> /\ Len(volumes') = n
  <2>1. volumes' = [v \in 1 .. n |-> volumes'[v]]
    BY <1>2, <1>4
  <2>2. \A v \in 1 .. n : volumes'[v] \in S
    BY <1>4, <1>7, <1>8
  <2>3. volumes' \in [1 .. n -> S]
    BY <2>1, <2>2
  <2>4. volumes' \in Seq(S) /\ Len(volumes') = n
    BY <1>4, <2>3, OfLength
  <2>5. n # 0
    BY <1>4
  <2> QED
    BY <2>4, <2>5, EmptySeq
<1>10. /\ IsDatabase(db)' /\ RecordsHeld' = RecordsHeld /\ FilesVerified' = FilesVerified
       /\ Items' = Items /\ Straight' = Straight /\ \A j : Owner(j)' = Owner(j)
       /\ \A j : Verifies(j)' = Verifies(j)
       /\ \A volume, path : ScannedFor(volume, path)' = ScannedFor(volume, path)
  BY <1>1, <1>2, SameDatabase
<1>11. ASSUME sf = "walk", Straight
       PROVE  UnderTheirs' /\ \E p \in DOMAIN Items : ReadsUnder(p)'
  <2>1. UnderTheirs /\ k = cursor /\ next = k + Items[k].stride /\ Items[k].stride \in Nat \ {0}
    BY <1>1, <1>11, ItemsAre
  <2>2. PICK p \in DOMAIN Items :
          /\ Items[p].volume # <<>> /\ Items[p].volume[1] = volumes[n].record
          /\ p < k /\ \A j \in DOMAIN Items : p < j /\ j < k => Items[j].volume = <<>>
    BY <1>1, <1>11, <2>1 DEF ReadsUnder
  <2>3. DOMAIN Items = 1 .. Len(Items) /\ Len(Items) \in Nat
    BY <1>1, ItemsAre
  <2>4. ASSUME NEW j \in DOMAIN Items, k <= j, j < next
        PROVE  Items[j].volume = <<>>
    <3>1. j \in k .. k + Items[k].stride - 1
      BY <2>1, <2>3, <2>4
    <3> QED
      BY <1>11, <3>1 DEF Straight
  <2>5. Owner(k) = p /\ Owner(k) > 0
    <3>1. p \in 1 .. k /\ k < next
      BY <2>1, <2>2, <2>3
    <3>2. \A j \in 1 .. k : p < j => Items[j].volume = <<>>
      <4> SUFFICES ASSUME NEW j \in 1 .. k, p < j PROVE Items[j].volume = <<>>
        OBVIOUS
      <4>1. j \in DOMAIN Items /\ (j < k \/ j = k)
        BY <2>3
      <4> QED
        BY <2>2, <2>4, <3>1, <4>1, <2>3
    <3> QED
      BY <1>1, <2>2, <3>1, <3>2, OwnerIs
  <2>6. UnderTheirs'
    <3> SUFFICES ASSUME NEW v \in DOMAIN volumes', NEW f \in DOMAIN volumes'[v].files
                 PROVE  \E m \in DOMAIN Items :
                          /\ Items[m].path = volumes'[v].files[f]
                          /\ Owner(m) > 0 /\ Items[Owner(m)].volume[1] = volumes'[v].record
      BY <1>10 DEF UnderTheirs
    <3>1. CASE v # n
      <4>1. v \in DOMAIN volumes /\ volumes'[v] = volumes[v]
        BY <1>7, <3>1
      <4> QED
        BY <2>1, <4>1 DEF UnderTheirs
    <3>2. CASE v = n
      <4>1. volumes'[v].files = grown /\ volumes'[v].record = volumes[n].record
        BY <1>7, <3>2
      <4>2. CASE f = Len(volumes[n].files) + 1
        <5>1. volumes'[v].files[f] = Items[k].path
          BY <1>6, <4>1, <4>2
        <5> QED
          BY <2>2, <2>5, <4>1, <5>1
      <4>3. CASE f # Len(volumes[n].files) + 1
        <5>1. f \in DOMAIN volumes[n].files /\ volumes'[v].files[f] = volumes[n].files[f]
          BY <1>6, <4>1, <4>3
        <5> QED
          BY <1>4, <2>1, <4>1, <5>1 DEF UnderTheirs
      <4> QED
        BY <4>2, <4>3
    <3> QED
      BY <3>1, <3>2
  <2>7. /\ Items[p].volume[1] = volumes'[Len(volumes')].record
        /\ p < cursor' /\ \A j \in DOMAIN Items : p < j /\ j < cursor' => Items[j].volume = <<>>
    <3>1. \A j \in DOMAIN Items : p < j /\ j < next => Items[j].volume = <<>>
      <4> SUFFICES ASSUME NEW j \in DOMAIN Items, p < j, j < next PROVE Items[j].volume = <<>>
        OBVIOUS
      <4>1. j < k \/ k <= j
        BY <2>3
      <4> QED
        BY <2>2, <2>4, <4>1
    <3>2. p < next
      BY <2>1, <2>2, <2>3
    <3> QED
      BY <1>2, <1>7, <1>9, <2>2, <3>1, <3>2
  <2>8. ReadsUnder(p)'
    BY <1>10, <2>2, <2>7 DEF ReadsUnder
  <2> QED
    BY <2>6, <2>8
<1>12. RecordsAccounted'
  BY <1>2, NotDone
<1>13. volumes' \in Seq([record : RecordsHeld', files : Seq(FilesVerified')])
  BY <1>9, <1>10 DEF S
<1>14. due' \in Nat /\ cursor' \in Nat \ {0} /\ sf' = sf
  BY <1>1, <1>2
<1>15. ASSUME sf = "entries"
       PROVE  ScannedTheirs' /\ \E p \in DOMAIN Items : ScansUnder(p)'
  <2>1. /\ ScannedTheirs /\ next = k + 1 /\ cursor <= k
        /\ \A l \in cursor .. (k - 1) : ~Verifies(l)
    BY <1>15 DEF DbInv, Reading
  <2>2. PICK p \in DOMAIN Items :
          /\ Items[p].volume # <<>> /\ Items[p].volume[1] = volumes[n].record /\ p < cursor
          /\ Cardinality(Passed(p)) + due <= volumes[n].record.declared
    BY <1>15 DEF DbInv, Reading, ScansUnder
  <2>3. /\ DOMAIN Items = 1 .. Len(Items) /\ Len(Items) \in Nat
        /\ p \in Nat /\ k \in Nat /\ cursor \in Nat /\ volumes[n].record.declared \in Nat
    BY <1>1, <2>2, ItemsAre
  <2>4. IsFiniteSet(Passed(p)) /\ Cardinality(Passed(p)) \in Nat
    <3>1. p + 1 \in Int /\ cursor - 1 \in Int
      BY <2>3
    <3>2. IsFiniteSet((p + 1) .. (cursor - 1))
      BY <3>1, FS_Interval
    <3> QED
      BY <3>2, FS_Subset, FS_CardinalityType DEF Passed
  <2>5. Cardinality(Passed(p)) < volumes[n].record.declared
    BY <1>1, <2>2, <2>3, <2>4
  <2>6. ScannedFor(volumes[n], Items[k].path)
    BY <1>1, <2>1, <2>2, <2>3, <2>5, ScanOwns DEF Passed
  <2>7. \A path : ScannedFor(volumes'[n], path) <=> ScannedFor(volumes[n], path)
    <3>1. volumes'[n].record = volumes[n].record
      BY <1>7
    <3> QED
      BY <3>1 DEF ScannedFor
  <2>8. ScannedTheirs'
    <3> SUFFICES ASSUME NEW v \in DOMAIN volumes', NEW path \in ToSet(volumes'[v].files)
                 PROVE  ScannedFor(volumes'[v], path)
      BY <1>10 DEF ScannedTheirs
    <3>1. CASE v # n
      <4>1. v \in DOMAIN volumes /\ volumes'[v] = volumes[v]
        BY <1>7, <3>1
      <4> QED
        BY <2>1, <4>1 DEF ScannedTheirs
    <3>2. CASE v = n
      <4>1. PICK f \in DOMAIN grown : path = grown[f]
        BY <1>7, <3>2 DEF ToSet
      <4>2. CASE f = Len(volumes[n].files) + 1
        BY <1>6, <2>6, <2>7, <3>2, <4>1, <4>2
      <4>3. CASE f # Len(volumes[n].files) + 1
        <5>1. f \in DOMAIN volumes[n].files /\ path = volumes[n].files[f]
          BY <1>6, <4>1, <4>3
        <5>2. path \in ToSet(volumes[n].files)
          BY <5>1 DEF ToSet
        <5> QED
          BY <1>4, <2>1, <2>7, <3>2, <5>2 DEF ScannedTheirs
      <4> QED
        BY <4>2, <4>3
    <3> QED
      BY <3>1, <3>2
  <2>9. ScansUnder(p)'
    <3> DEFINE N == {l \in (p + 1) .. (cursor' - 1) : Verifies(l)}
    <3>1. N \subseteq Passed(p) \cup {k}
      <4> SUFFICES ASSUME NEW l \in (p + 1) .. (cursor' - 1), Verifies(l), l # k
                   PROVE  l \in (p + 1) .. (cursor - 1)
        BY DEF Passed
      <4>1. l \in Int /\ p + 1 <= l /\ l <= k
        BY <1>2, <2>1, <2>3
      <4>2. ~(cursor <= l)
        BY <2>1, <2>3, <4>1
      <4> QED
        BY <2>3, <4>1, <4>2
    <3>2. /\ IsFiniteSet(Passed(p) \cup {k})
          /\ Cardinality(Passed(p) \cup {k}) \in Nat /\ Cardinality(Passed(p) \cup {k}) <= Cardinality(Passed(p)) + 1
      <4>1. IsFiniteSet(Passed(p) \cup {k})
        BY <2>4, FS_AddElement
      <4>2. Cardinality(Passed(p) \cup {k}) = Cardinality(Passed(p)) \/ Cardinality(Passed(p) \cup {k}) = Cardinality(Passed(p)) + 1
        BY <2>4, FS_AddElement
      <4> QED
        BY <2>4, <4>1, <4>2
    <3>3. Cardinality(N) \in Nat /\ Cardinality(N) <= Cardinality(Passed(p) \cup {k})
      BY <3>1, <3>2, FS_Subset, FS_CardinalityType
    <3>4. Cardinality(N) + due' <= volumes[n].record.declared
      <4>1. due' = due - 1 /\ due \in Nat
        BY <1>1, <1>2
      <4> DEFINE a == Cardinality(N)  b == Cardinality(Passed(p) \cup {k})
                 c == Cardinality(Passed(p))  d == volumes[n].record.declared
      <4>2. a \in Nat /\ b \in Nat /\ c \in Nat /\ d \in Nat /\ a <= b /\ b <= c + 1 /\ c + due <= d
        BY <2>2, <2>3, <2>4, <3>2, <3>3
      <4> HIDE DEF a, b, c, d
      <4>3. a + (due - 1) <= d
        BY <4>1, <4>2
      <4> QED
        BY <4>1, <4>3 DEF a, d
    <3>5. p < cursor'
      BY <1>2, <2>1, <2>2, <2>3
    <3>6. volumes'[Len(volumes')].record = volumes[n].record
      BY <1>7, <1>9
    <3> QED
      BY <1>10, <2>2, <3>4, <3>5, <3>6 DEF ScansUnder, Passed
  <2> QED
    BY <2>8, <2>9
<1> QED
  BY <1>1, <1>2, <1>9, <1>10, <1>11, <1>12, <1>13, <1>14, <1>15 DEF DbInv, Reading

\* The records stand, and the sweep is held against them.
LEMMA RecoveredStep ==
  ASSUME DbInv, sf \in {"walk", "scan"}, NEW how \in {"structural", "scan"}, NEW what,
         Recovered(how, what), how = "structural" => sf = "walk" /\ FileCount = Header.files,
         how = "scan" => sf = "scan" /\ FileCount # 0,
         how = "scan" /\ FileCount # Header.files => what # {}
  PROVE  DbInv'
<1>1. /\ IsDatabase(db) /\ volumes \in Seq([record : RecordsHeld, files : Seq(FilesVerified)])
      /\ sf = "walk" /\ Straight => UnderTheirs
      /\ sf = "scan" => ScannedTheirs
  BY DEF DbInv, Reading
<1>2. /\ method' = how /\ sf' = "done" /\ unaccounted' = Missed
      /\ what \subseteq dbProblems' /\ UNCHANGED <<db, volumes, swept>>
  BY DEF Recovered
<1>3. /\ Items' = Items /\ Header' = Header /\ Sweep' = Sweep /\ Straight' = Straight
      /\ \A k : Owner(k)' = Owner(k)
      /\ \A volume, path : ScannedFor(volume, path)' = ScannedFor(volume, path)
      /\ ParsedFiles' = ParsedFiles /\ FileCount' = FileCount
  BY <1>2, SameDatabase, SameVolumes
<1>4. ASSUME NEW path \in ParsedFiles
      PROVE  \E k \in DOMAIN Items : Items[k].path = path /\ Items[k].ok
  <2>1. PICK v \in DOMAIN volumes : path \in ToSet(volumes[v].files)
    BY DEF ParsedFiles
  <2>2. volumes[v].files \in Seq(FilesVerified)
    <3> DEFINE S == [record : RecordsHeld, files : Seq(FilesVerified)]
    <3>1. volumes[v] \in S
      <4> HIDE DEF S
      <4>1. v \in 1 .. Len(volumes)
        BY <1>1, <2>1, LenProperties DEF S
      <4> QED
        BY <1>1, <4>1, ElementOfSeq DEF S
    <3> QED
      BY <3>1
  <2>3. path \in FilesVerified
    BY <2>1, <2>2 DEF ToSet
  <2> QED
    BY <2>3 DEF FilesVerified, Verifies
<1>5. how = "structural" /\ Straight => UnderTheirs'
  <2>1. UnderTheirs' = UnderTheirs
    BY <1>2, <1>3 DEF UnderTheirs
  <2> QED
    BY <1>1, <2>1
<1>6. how = "scan" => ScannedTheirs'
  <2>1. ScannedTheirs' = ScannedTheirs
    BY <1>2, <1>3 DEF ScannedTheirs
  <2> QED
    BY <1>1, <2>1
<1>7. ParsedFiles # {} \/ (how = "structural" /\ Header.files = 0)
  BY SomeCounted
<1>8. ASSUME ParsedFiles # {}, NEW text \in Sweep
      PROVE  \/ \E v \in DOMAIN volumes : text = volumes[v].record.device
             \/ \E path \in ParsedFiles \cup Missed : Within(text, path)
  <2>1. CASE text \in Missed
    <3>1. PICK k \in DOMAIN Items : text = Items[k].shown /\ text # <<>>
      BY DEF Sweep
    <3>2. Within(text, text)
      BY <1>1, <3>1, ItemsAre, WithinItself
    <3> QED
      BY <2>1, <3>2
  <2>2. CASE text \notin Missed
    BY <1>8, <2>2 DEF Missed
  <2> QED
    BY <2>1, <2>2
<1>9. ParsedFiles # {} => DbPaths' = ParsedFiles \cup Missed
  BY <1>2, <1>3 DEF DbPaths
<1>10. dbProblems' = {} /\ how = "scan" => FileCount = Header.files
  BY <1>2
<1>11. ~Reading'
  BY <1>2 DEF Reading
<1>12. RecordsAccounted'
  <2>1. \A path \in ParsedFiles' : \E k \in DOMAIN Items' : Items'[k].path = path /\ Items'[k].ok
    BY <1>3, <1>4
  <2>2. method' = "structural" /\ Straight' => UnderTheirs'
    BY <1>2, <1>3, <1>5
  <2>3. ParsedFiles' # {} =>
          \A text \in Sweep' :
            \/ \E v \in DOMAIN volumes' : text = volumes'[v].record.device
            \/ \E path \in DbPaths' : Within(text, path)
    BY <1>2, <1>3, <1>8, <1>9
  <2>4. dbProblems' = {} /\ method' = "scan" => FileCount' = Header'.files
    BY <1>2, <1>3, <1>10
  <2>5. method' # "sweep" /\ method' # "none"
    BY <1>2
  <2>6. method' = "scan" => ScannedTheirs'
    BY <1>2, <1>6
  <2>7. ParsedFiles' # {} \/ (method' = "structural" /\ Header'.files = 0)
    BY <1>2, <1>3, <1>7
  <2> QED
    BY <2>1, <2>2, <2>3, <2>4, <2>5, <2>6, <2>7 DEF RecordsAccounted, UnderTheirs, ScannedTheirs
<1> QED
  BY <1>11, <1>12 DEF DbInv

\* Nothing of the walk is kept, or a volume's entries were scanned.
LEMMA RestartStep ==
  ASSUME DbInv, WalkFails \/ VolumeScanned
  PROVE  DbInv'
<1>1. /\ sf \in {"walk", "entries"} /\ sf' = "scan" /\ UNCHANGED <<db, swept, unaccounted, method>>
      /\ \/ cursor' = 1 /\ due' = 0 /\ volumes' = <<>>
         \/ sf = "entries" /\ UNCHANGED <<cursor, due, volumes>>
  BY DEF WalkFails, VolumeScanned, WalkOver
<1>2. /\ IsDatabase(db) /\ volumes \in Seq([record : RecordsHeld, files : Seq(FilesVerified)])
      /\ cursor \in Nat \ {0} /\ due \in Nat /\ swept = {} /\ unaccounted = {} /\ method = "none"
  BY <1>1 DEF DbInv, Reading
<1>3. /\ IsDatabase(db)' /\ RecordsHeld' = RecordsHeld /\ FilesVerified' = FilesVerified
      /\ \A volume, path : ScannedFor(volume, path)' = ScannedFor(volume, path)
  BY <1>1, <1>2, SameDatabase
<1>4. volumes' \in Seq([record : RecordsHeld, files : Seq(FilesVerified)])
  <2> DEFINE S == [record : RecordsHeld, files : Seq(FilesVerified)]
  <2> HIDE DEF S
  <2>1. <<>> \in Seq(S)
    OBVIOUS
  <2> QED
    BY <1>1, <1>2, <2>1 DEF S
<1>5. RecordsAccounted'
  BY <1>1, NotDone
<1>6. ScannedTheirs'
  <2>1. CASE volumes' = <<>>
    BY <2>1 DEF ScannedTheirs
  <2>2. CASE sf = "entries" /\ UNCHANGED volumes
    <3>1. ScannedTheirs
      BY <2>2 DEF DbInv, Reading
    <3> QED
      BY <1>3, <2>2, <3>1 DEF ScannedTheirs
  <2> QED
    BY <1>1, <2>1, <2>2
<1> QED
  BY <1>1, <1>2, <1>3, <1>4, <1>5, <1>6 DEF DbInv, Reading

LEMMA DbBegins ==
  ASSUME NEW given, IsDatabase(given), ParseSuperFetch(given)
  PROVE  DbInv'
<1>1. /\ db' = given /\ sf' = "payload" /\ cursor' = 1 /\ due' = 0 /\ volumes' = <<>>
      /\ swept' = {} /\ unaccounted' = {} /\ method' = "none"
  BY DEF ParseSuperFetch
<1>2. RecordsAccounted'
  BY <1>1, NotDone
<1>3. volumes' \in Seq([record : RecordsHeld', files : Seq(FilesVerified')])
  <2> DEFINE S == [record : RecordsHeld', files : Seq(FilesVerified')]
  <2> HIDE DEF S
  <2>1. <<>> \in Seq(S)
    OBVIOUS
  <2> QED
    BY <1>1, <2>1 DEF S
<1>4. IsDatabase(db)'
  BY <1>1 DEF IsDatabase
<1> QED
  BY <1>1, <1>2, <1>3, <1>4 DEF DbInv

LEMMA DbInductive == WalkInv /\ DbInv /\ [Next]_vars => DbInv'
<1> SUFFICES ASSUME WalkInv, DbInv, [Next]_vars PROVE DbInv'
  OBVIOUS
<1>1. CASE DbUnpacking
  BY <1>1, DbKept DEF DbUnpacking
<1>2. CASE DbNotUnpacked \/ DbTooSmall \/ ProbeRaises \/ Undocumented \/ Recognised
  BY <1>2, PayloadStep
<1>3. CASE WalkVolume
  BY <1>3, VolumeStep DEF WalkVolume
<1>4. CASE WalkEntry
  <2>1. /\ sf = "walk" /\ due > 0 /\ Verifies(cursor) /\ Inside /\ ReadEntry(cursor, cursor + Here.stride)
        /\ IsDatabase(db) /\ cursor \in Nat \ {0}
    BY <1>4 DEF WalkEntry, DbInv, Reading
  <2>2. cursor \in DOMAIN Items /\ Here.stride = Items[cursor].stride /\ Items[cursor].stride \in Nat
    BY <2>1, ItemsAre DEF Inside, Here
  <2>3. cursor + Here.stride \in Nat \ {0}
    BY <2>1, <2>2
  <2> QED
    BY <2>1, <2>2, <2>3, EntryStep
<1>5. CASE WalkHolds
  <2>1. sf = "walk" /\ Recovered("structural", {}) /\ FileCount = Header.files
    BY <1>5 DEF WalkHolds, WalkOver
  <2> QED
    BY <2>1, RecoveredStep
<1>6. CASE WalkFails \/ VolumeScanned
  BY <1>6, RestartStep
<1>7. CASE ScanVolume
  BY <1>7, VolumeStep DEF ScanVolume
<1>8. CASE ScanEntry
  <2>1. /\ sf = "entries" /\ due > 0 /\ Hits # {} /\ ReadEntry(Min(Hits), Min(Hits) + 1)
        /\ IsDatabase(db) /\ cursor \in Nat \ {0}
    BY <1>8 DEF ScanEntry, DbInv, Reading
  <2>2. /\ Hits \subseteq DOMAIN Items /\ Hits \subseteq Nat /\ \A k \in Hits : Verifies(k)
    BY <2>1, ItemsAre DEF Hits
  <2>3. Min(Hits) \in Hits /\ \A l \in Hits : Min(Hits) <= l
    BY <2>1, <2>2, MinIs
  <2>4. Min(Hits) \in DOMAIN Items /\ Verifies(Min(Hits)) /\ Min(Hits) + 1 \in Nat \ {0}
    BY <2>2, <2>3
  <2>5. cursor <= Min(Hits) /\ \A l \in cursor .. (Min(Hits) - 1) : ~Verifies(l)
    <3> DEFINE m == Min(Hits)
    <3>1. m \in cursor .. (cursor + ScanWindow - 1) /\ m <= Len(Items) /\ Len(Items) \in Nat
          /\ \A l \in Hits : m <= l
      BY <2>1, <2>3, ItemsAre DEF Hits
    <3> HIDE DEF m
    <3> SUFFICES ASSUME NEW l \in cursor .. (m - 1), Verifies(l) PROVE FALSE
      BY <2>1, <3>1, WindowAssumption DEF m
    <3>2. l \in cursor .. (cursor + ScanWindow - 1) /\ l <= Len(Items) /\ ~(m <= l)
      BY <2>1, <3>1, WindowAssumption
    <3> QED
      BY <3>1, <3>2 DEF Hits
  <2> QED
    BY <2>1, <2>4, <2>5, EntryStep
<1>9. CASE ScanHolds
  <2>1. PICK what : /\ sf = "scan" /\ Recovered("scan", what)
                    /\ what = IF FileCount # Header.files THEN {"declared file records not recovered"} ELSE {}
    BY <1>9 DEF ScanHolds, Scanned
  <2>2. FileCount # 0
    <3>1. FileCount > 0
      BY <1>9 DEF ScanHolds
    <3>2. ~(0 > 0)
      OBVIOUS
    <3> QED
      BY <3>1, <3>2
  <2>3. FileCount # Header.files => what # {}
    BY <2>1
  <2> QED
    BY <2>1, <2>2, <2>3, RecoveredStep
<1>10. CASE ScanFails
  <2>1. PICK what : /\ sf = "scan" /\ FileCount = 0 /\ SweptOnly(what)
                    /\ what = IF Sweep = {} THEN {"no file records and no recoverable paths"} ELSE {}
    BY <1>10 DEF ScanFails, Scanned
  <2>2. Reading /\ volumes \in Seq([record : RecordsHeld, files : Seq(FilesVerified)])
    BY <2>1 DEF DbInv, Reading
  <2>3. ParsedFiles = {} /\ (Sweep = {} => dbProblems \cup what # {})
    BY <2>1, <2>2, NoneCounted
  <2> QED
    BY <2>1, <2>2, <2>3, SweepStep
<1>11. ASSUME NEW given, IsDatabase(given), ParseSuperFetch(given)
       PROVE  DbInv'
  BY <1>11, DbBegins
<1>12. CASE UNCHANGED dbVars
  BY <1>12, DbKept
<1> QED
  BY <1>1, <1>2, <1>3, <1>4, <1>5, <1>6, <1>7, <1>8, <1>9, <1>10, <1>11, <1>12, DbAlone DEF SuperFetchStep

\* agdb.py:26-28, 36-46 and 527-530: for every payload, however its records lie, no path is given
\* as a record's that its own hash does not vouch for; the documented walk gives each
\* file to the volume it stands under, and the scan to another only where that one has
\* too few of its own; and no string the sweep shows is lost, unless the header
\* declares no files and the walk agrees, where they all are.
THEOREM DatabaseIsAccounted == Spec => []RecordsAccounted
<1>1. Init => WalkInv /\ DbInv
  <2> SUFFICES ASSUME Init PROVE WalkInv /\ DbInv
    OBVIOUS
  <2>1. sf = "idle"
    BY DEF Init, FolderInit, SuperFetchInit
  <2> QED
    BY <2>1, WalkInitially DEF DbInv, Reading, RecordsAccounted
<1>2. DbInv => RecordsAccounted
  BY DEF DbInv
<1> QED
  BY <1>1, <1>2, WalkInductive, DbInductive, PTL DEF Spec

(* What the report says of a volume, from the paths and records the artifacts *)
(* name.  A path is a sequence of names, whatever file it is from.            *)

PathsShaped ==
  \A k \in DOMAIN found : found[k].kind \in {"layout", "readyboot"} =>
    \A p \in found[k].paths : p \in Seq(ToSet(p))

LEMMA ShapeStep ==
  ASSUME WalkInv, BootInv, PathsShaped, FolderStep
  PROVE  PathsShaped'
<1>1. found \in Seq(ToSet(found))
  BY DEF WalkInv
<1>2. ASSUME NEW a, found' = Append(found, a),
             a.kind \in {"layout", "readyboot"} => \A p \in a.paths : p \in Seq(ToSet(p))
      PROVE  PathsShaped'
  <2>1. \A k \in DOMAIN found' : (k \in DOMAIN found /\ found'[k] = found[k]) \/ found'[k] = a
    <3>1. /\ Len(found) \in Nat /\ DOMAIN found = 1 .. Len(found)
          /\ DOMAIN found' = 1 .. (Len(found) + 1)
          /\ found'[Len(found) + 1] = a /\ \A k \in DOMAIN found : found'[k] = found[k]
      BY <1>1, <1>2
    <3> QED
      BY <3>1
  <2> QED
    BY <1>2, <2>1 DEF PathsShaped
<1>3. ASSUME NEW kind, NEW given, NEW theirs, NEW volumeNames, NEW problems,
             Artifact(kind, given, theirs, volumeNames, problems),
             kind \in {"layout", "readyboot"} => \A p \in given : p \in Seq(ToSet(p))
      PROVE  PathsShaped'
  <2> DEFINE a == [file |-> file.name, kind |-> kind, paths |-> given, records |-> theirs,
                   names |-> volumeNames, problems |-> problems]
  <2>1. found' = Append(found, a) /\ a.kind = kind /\ a.paths = given
    BY <1>3 DEF Artifact
  <2> HIDE DEF a
  <2> QED
    BY <1>2, <1>3, <2>1
<1>4. CASE \/ FolderRaises \/ StartWalk \/ NextDirectory \/ NextFile \/ FolderScanned
           \/ LeftToParse \/ StartDb \/ DbStep \/ DbRaises \/ StartBoot \/ BootStep \/ DateRaises
  <2>1. found' = found
    BY <1>4 DEF FolderRaises, StartWalk, NextDirectory, NextFile, FolderScanned, LeftToParse,
                StartDb, DbStep, DbRaises, StartBoot, BootStep, DateRaises, walkVars
  <2> QED
    BY <2>1 DEF PathsShaped
<1>5. CASE NotRegular \/ NotOpened \/ Grown \/ Unrecognised \/ AboveCeiling
  <2>1. PICK kind, problem : Artifact(kind, {}, <<>>, {}, {problem})
    BY <1>5 DEF NotRegular, NotOpened, Grown, Unrecognised, AboveCeiling, Unparsed
  <2> QED
    BY <1>3, <2>1
<1>6. CASE ParseLayout
  <2>1. PICK problems : Artifact("layout", PathLines(file.in.lines), <<>>, {}, problems)
    BY <1>6 DEF ParseLayout
  <2>2. AtWork /\ file.kind = "layout"
    BY <1>6 DEF ParseLayout, Whole, AtWork
  <2>3. \A line \in ToSet(file.in.lines) : line \in Seq(ToSet(line))
    BY <2>2, FileAtHand, FolderFiles DEF WalkInv
  <2>4. \A p \in PathLines(file.in.lines) : p \in Seq(ToSet(p))
    BY <2>3 DEF PathLines
  <2> QED
    BY <1>3, <2>1, <2>4
<1>7. CASE ParsePfpre
  <2>1. PICK problems : Artifact("pfpre", {}, <<>>, {}, problems)
    BY <1>7 DEF ParsePfpre
  <2> QED
    BY <1>3, <2>1
<1>8. CASE DbParsed
  <2>1. PICK given, theirs, volumeNames, problems :
          Artifact("superfetch", given, theirs, volumeNames, problems)
    BY <1>8 DEF DbParsed
  <2> QED
    BY <1>3, <2>1
<1>9. CASE BootParsed
  <2>1. /\ Artifact("readyboot", {Joined(p) : p \in ToSet(paths)}, <<>>, {}, bootProblems)
        /\ paths \in Seq(Seq(DOMAIN names))
    BY <1>9 DEF BootParsed, BootInv, PathsInv
  <2>2. ASSUME NEW p \in ToSet(paths)
        PROVE  Joined(p) \in Seq(ToSet(Joined(p)))
    <3>1. p \in Seq(DOMAIN names)
      BY <2>1 DEF ToSet
    <3>2. Len(p) \in Nat /\ DOMAIN p = 1 .. Len(p)
      BY <3>1, LenProperties
    <3>3. Joined(p) \in [1 .. Len(p) -> ToSet(Joined(p))]
      BY <3>2 DEF Joined, ToSet
    <3> QED
      BY <3>2, <3>3, OfLength
  <2> QED
    BY <1>3, <2>1, <2>2
<1> QED
  BY <1>4, <1>5, <1>6, <1>7, <1>8, <1>9 DEF FolderStep

LEMMA ShapeInductive == WalkInv /\ BootInv /\ PathsShaped /\ [Next]_vars => PathsShaped'
<1> SUFFICES ASSUME WalkInv, BootInv, PathsShaped, [Next]_vars PROVE PathsShaped'
  OBVIOUS
<1>1. CASE found' = found
  BY <1>1 DEF PathsShaped
<1>2. CASE FolderStep
  BY <1>2, ShapeStep
<1> QED
  BY <1>1, <1>2, FolderAlone DEF folderVars, walkVars, CorrelateVolumes, Correlate

\* Capitals of capitals are the same, so nothing in the report is spelt in two ways.
LEMMA CapitalsTwice ==
  /\ \A name : Capitals(Capitals(name)) = Capitals(name)
  /\ \A path : Normalised(Normalised(path)) = Normalised(path)
  /\ \A r \in Stated : Normalised(r.device) = r.device
<1>1. \A name : Capitals(Capitals(name)) = Capitals(name)
  BY UpperAssumption DEF Capitals
<1>2. ASSUME NEW path
      PROVE  Normalised(Normalised(path)) = Normalised(path)
  BY <1>1 DEF Normalised
<1>3. ASSUME NEW r \in Stated
      PROVE  Normalised(r.device) = r.device
  <2>1. PICK s \in StatedRecords : r = Identity(s)
    BY DEF Stated
  <2>2. r.device = Normalised(s.device)
    BY <2>1 DEF Identity
  <2> QED
    BY <1>2, <2>2
<1> QED
  BY <1>1, <1>2, <1>3

\* A path begins with its first names, and the rest is below them.
LEMMA PathBelow ==
  ASSUME PathsShaped, NEW kind \in {"layout", "readyboot"}, NEW p \in PathsOf(kind), NEW n \in 1 .. 2,
         Below(p, n) # <<>>
  PROVE  /\ p \in Seq(ToSet(p)) /\ Len(p) > n /\ \A k \in DOMAIN p : Capitals(p[k]) = p[k]
         /\ Below(p, n) \in Seq(ToSet(p))
<1>1. PICK k \in DOMAIN found : found[k].kind = kind /\ \E q \in found[k].paths : p = Normalised(q)
  BY DEF PathsOf, Reported
<1>2. PICK q \in found[k].paths : p = Normalised(q)
  BY <1>1
<1>3. q \in Seq(ToSet(q)) /\ Len(q) \in Nat /\ DOMAIN q = 1 .. Len(q)
  BY <1>1, LenProperties DEF PathsShaped
<1>4. DOMAIN p = 1 .. Len(q) /\ p \in [1 .. Len(q) -> ToSet(p)]
  BY <1>2, <1>3 DEF Normalised, ToSet
<1>5. p \in Seq(ToSet(p)) /\ Len(p) = Len(q)
  BY <1>3, <1>4, OfLength
<1>6. \A j \in DOMAIN p : Capitals(p[j]) = p[j]
  BY <1>2, CapitalsTwice DEF Normalised
<1>7. Below(p, n) \in Seq(ToSet(p))
  BY <1>3, <1>5 DEF Below
<1>8. Len(p) > n
  <2>1. Len(p) \in Nat /\ n \in Nat
    BY <1>3, <1>5
  <2>2. SUFFICES ASSUME Len(p) <= n PROVE FALSE
    BY <2>1
  <2>3. Len(Below(p, n)) = 0
    BY <1>5, <2>1, <2>2 DEF Below
  <2> QED
    BY <1>7, <2>3, EmptySeq
<1> QED
  BY <1>5, <1>6, <1>7, <1>8

\* So the device of a trace's paths is in capitals.
LEMMA DevicesAreCapital ==
  ASSUME PathsShaped, NEW dev \in Devices
  PROVE  Capitals(dev) = dev
<1>1. PICK p \in PathsOf("readyboot") : dev = p[2] /\ Below(p, 2) # <<>>
  BY DEF Devices, DevicePaths, Discriminating
<1>2. p \in Seq(ToSet(p)) /\ Len(p) > 2 /\ \A k \in DOMAIN p : Capitals(p[k]) = p[k]
  BY <1>1, PathBelow
<1>3. 2 \in DOMAIN p
  BY <1>2, LenProperties
<1> QED
  BY <1>1, <1>2, <1>3

(* Rows and statements. *)

\* The statement of a record is its identity, and the device of it is in capitals.
LEMMA StatedIs ==
  ASSUME NEW a \in Reported("superfetch"), NEW k \in DOMAIN a.records, NamesDevice(a.records[k].device)
  PROVE  /\ Identity(a.records[k]) \in Stated
         /\ Identity(a.records[k]).device = Normalised(a.records[k].device)
         /\ Identity(a.records[k]).serial = a.records[k].serial
         /\ Identity(a.records[k]).created = a.records[k].created
<1>1. a.records[k] \in StatedRecords
  <2>1. a.records[k] \in ToSet(a.records)
    BY DEF ToSet
  <2> QED
    BY <2>1 DEF StatedRecords
<1> QED
  BY <1>1 DEF Stated, Identity

LEMMA IdentityFields ==
  \A r, s \in Stated : r.device = s.device /\ r.serial = s.serial /\ r.created = s.created => r = s
<1> SUFFICES ASSUME NEW r \in Stated, NEW s \in Stated,
                    r.device = s.device, r.serial = s.serial, r.created = s.created
             PROVE  r = s
  OBVIOUS
<1>1. PICK p \in StatedRecords : r = Identity(p)
  BY DEF Stated
<1>2. PICK q \in StatedRecords : s = Identity(q)
  BY DEF Stated
<1>3. r = [device |-> r.device, serial |-> r.serial, created |-> r.created]
  BY <1>1 DEF Identity
<1>4. s = [device |-> s.device, serial |-> s.serial, created |-> s.created]
  BY <1>2 DEF Identity
<1> QED
  BY <1>3, <1>4

\* A row of the report is that of a claim, or of a statement no claim took.
LEMMA RowIs ==
  ASSUME RowsInv, correlated, NEW row \in rows
  PROVE  \/ \E c \in Inferred : row = RowOf(c)
         \/ \E r \in Unclaimed : row = Row("", r.device, r, "stated")
BY DEF RowsInv, Report

LEMMA UnclaimedRow ==
  ASSUME NEW r \in Unclaimed
  PROVE  LET row == Row("", r.device, r, "stated")
         IN  /\ r \in Stated /\ row.letter = "" /\ row.device = r.device /\ Normalised(row.device) = r.device
             /\ row.serial = r.serial /\ row.created = r.created /\ row.how = "stated"
<1>1. r \in Stated
  BY DEF Unclaimed
<1>2. Normalised(r.device) = r.device
  BY <1>1, CapitalsTwice
<1> QED
  BY <1>1, <1>2 DEF Row

\* A claim that one statement names has the serial of it.
LEMMA MergedRow ==
  ASSUME NEW c, Merges(c)
  PROVE  \E q \in Stated :
           /\ StatedOf(c[2]) = {q} /\ q.device = <<"DEVICE", c[2]>>
           /\ RowOf(c).device = q.device /\ Normalised(RowOf(c).device) = q.device
           /\ RowOf(c).serial = q.serial /\ RowOf(c).created = q.created /\ RowOf(c).how = "stated"
<1>1. PICK q \in StatedOf(c[2]) : StatedOf(c[2]) = {q}
  BY DEF Merges
<1>2. q \in Stated /\ q.device = <<"DEVICE", c[2]>>
  BY <1>1 DEF StatedOf
<1>3. (CHOOSE r \in StatedOf(c[2]) : TRUE) = q
  BY <1>1
<1>4. RowOf(c) = Row(c[1], <<"DEVICE", c[2]>>, q, "stated")
  BY <1>3, RowOfClaim
<1>5. /\ RowOf(c).device = <<"DEVICE", c[2]>> /\ RowOf(c).serial = q.serial
      /\ RowOf(c).created = q.created /\ RowOf(c).how = "stated"
  BY <1>4 DEF Row
<1>6. Normalised(q.device) = q.device
  BY <1>2, CapitalsTwice
<1> QED
  BY <1>1, <1>2, <1>5, <1>6

\* No two claims are of one device.
LEMMA OneClaimOfDevice ==
  \A c, d \in Inferred : c[2] = d[2] => c = d
BY DEF Inferred

\* Each statement has one row.
LEMMA StatedOnce ==
  ASSUME RowsInv, correlated, NEW i \in Stated
  PROVE  Cardinality({row \in rows : /\ Normalised(row.device) = i.device /\ row.how = "stated"
                                     /\ row.serial = i.serial /\ row.created = i.created}) = 1
<1> DEFINE Says(row) == /\ Normalised(row.device) = i.device /\ row.how = "stated"
                        /\ row.serial = i.serial /\ row.created = i.created
<1>1. rows = Report
  BY DEF RowsInv
<1>2. SUFFICES \E row \in rows : {r \in rows : Says(r)} = {row}
  BY FS_Singleton
<1>3. ASSUME NEW u \in Unclaimed, Says(Row("", u.device, u, "stated"))
      PROVE  u = i
  <2>1. u \in Stated /\ u.device = i.device /\ u.serial = i.serial /\ u.created = i.created
    BY <1>3, UnclaimedRow
  <2> QED
    BY <2>1, IdentityFields
<1>4. ASSUME NEW c \in Inferred, Says(RowOf(c))
      PROVE  Merges(c) /\ i \in StatedOf(c[2])
  <2>1. Merges(c)
    BY <1>4, RowOfClaim
  <2>2. PICK q \in Stated :
          /\ StatedOf(c[2]) = {q} /\ Normalised(RowOf(c).device) = q.device
          /\ RowOf(c).serial = q.serial /\ RowOf(c).created = q.created
    BY <2>1, MergedRow
  <2>3. q = i
    BY <1>4, <2>2, IdentityFields
  <2> QED
    BY <2>1, <2>2, <2>3
<1>5. CASE i \in Unclaimed
  <2> DEFINE own == Row("", i.device, i, "stated")
  <2>1. own \in rows /\ Says(own)
    BY <1>1, <1>5, UnclaimedRow DEF Report
  <2>2. ASSUME NEW row \in rows, Says(row)
        PROVE  row = own
    <3>1. CASE \E u \in Unclaimed : row = Row("", u.device, u, "stated")
      BY <1>3, <2>2, <3>1
    <3>2. CASE \E c \in Inferred : row = RowOf(c)
      BY <1>4, <1>5, <2>2, <3>2 DEF Unclaimed
    <3> QED
      BY <3>1, <3>2, RowIs
  <2> HIDE DEF own, Says
  <2> QED
    BY <2>1, <2>2
<1>6. CASE i \notin Unclaimed
  <2>1. PICK c \in Inferred : Merges(c) /\ i \in StatedOf(c[2])
    BY <1>6 DEF Unclaimed
  <2>2. RowOf(c) \in rows /\ Says(RowOf(c))
    <3>1. PICK q \in Stated :
            /\ StatedOf(c[2]) = {q} /\ Normalised(RowOf(c).device) = q.device
            /\ RowOf(c).serial = q.serial /\ RowOf(c).created = q.created /\ RowOf(c).how = "stated"
      BY <2>1, MergedRow
    <3>2. q = i
      BY <2>1, <3>1
    <3>3. RowOf(c) \in rows
      BY <1>1 DEF Report
    <3> QED
      BY <3>1, <3>2, <3>3
  <2>3. ASSUME NEW row \in rows, Says(row)
        PROVE  row = RowOf(c)
    <3>1. CASE \E u \in Unclaimed : row = Row("", u.device, u, "stated")
      BY <1>3, <1>6, <2>3, <3>1
    <3>2. CASE \E d \in Inferred : row = RowOf(d)
      <4>1. PICK d \in Inferred : row = RowOf(d)
        BY <3>2
      <4>2. i \in StatedOf(d[2])
        BY <1>4, <2>3, <4>1
      <4>3. <<"DEVICE", c[2]>> = <<"DEVICE", d[2]>>
        BY <2>1, <4>2 DEF StatedOf
      <4>4. c[2] = d[2]
        BY <4>3
      <4> QED
        BY <4>1, <4>4, OneClaimOfDevice
    <3> QED
      BY <3>1, <3>2, RowIs
  <2> HIDE DEF Says
  <2> QED
    BY <2>2, <2>3
<1> QED
  BY <1>5, <1>6

\* A serial that is bound is that of every mention of a volume, and nothing is stated.
LEMMA BoundAlone ==
  ASSUME NEW c \in Inferred, Binds(c)
  PROVE  /\ Inferred = {c} /\ Unclaimed = {} /\ Stated = {}
         /\ \A m \in Mentions : m.serial = RowOf(c).serial
<1>1. Inferred = {c} /\ Unclaimed = {} /\ ~Merges(c)
  BY DEF Binds
<1>2. Stated = {}
  BY <1>1 DEF Unclaimed
<1>3. PICK m \in Mentions : Mentions = {m}
  BY DEF Binds
<1>4. (CHOOSE n \in Mentions : TRUE) = m
  BY <1>3
<1>5. RowOf(c).serial = m.serial
  BY <1>1, <1>4, RowOfClaim
<1> QED
  BY <1>1, <1>2, <1>3, <1>5

LEMMA PairIs == \A a, b : 2 \in DOMAIN <<a, b>> /\ <<a, b>>[2] = b
OBVIOUS

\* The device of a claim, and what of the report is of the same device.
LEMMA LetterAndSerial ==
  ASSUME PathsShaped, RowsInv, correlated, NEW c \in Inferred, RowOf(c).serial # "", NEW s \in rows,
         c[2] \in Devices, \A d \in Inferred : d[2] \in Devices,
         Normalised(RowOf(c).device) = Normalised(s.device)
  PROVE  s = RowOf(c)
<1>1. CASE Merges(c)
  <2>1. PICK q \in Stated :
          /\ StatedOf(c[2]) = {q} /\ q.device = <<"DEVICE", c[2]>> /\ Normalised(RowOf(c).device) = q.device
    BY <1>1, MergedRow
  <2>2. CASE \E u \in Unclaimed : s = Row("", u.device, u, "stated")
    <3>1. PICK u \in Unclaimed : s = Row("", u.device, u, "stated")
      BY <2>2
    <3>2. u \in Stated /\ u.device = <<"DEVICE", c[2]>>
      BY <2>1, <3>1, UnclaimedRow
    <3>3. u \in StatedOf(c[2])
      BY <3>2 DEF StatedOf
    <3> QED
      BY <1>1, <3>3 DEF Unclaimed
  <2>3. CASE \E d \in Inferred : s = RowOf(d)
    <3>1. PICK d \in Inferred : s = RowOf(d)
      BY <2>3
    <3>2. Capitals(d[2]) = d[2]
      BY DevicesAreCapital
    <3>3. Normalised(RowOf(d).device) = <<"DEVICE", c[2]>> /\ RowOf(d).device = <<"DEVICE", d[2]>>
      BY <2>1, <3>1, RowOfClaim
    <3>4. Normalised(<<"DEVICE", d[2]>>) = <<"DEVICE", c[2]>>
      BY <3>3
    <3>5. \A name : 2 \in DOMAIN <<"DEVICE", name>> /\ <<"DEVICE", name>>[2] = name
      BY PairIs
    <3>6. Normalised(<<"DEVICE", d[2]>>)[2] = Capitals(d[2])
      BY <3>5 DEF Normalised
    <3>7. d[2] = c[2]
      BY <3>2, <3>4, <3>5, <3>6
    <3> QED
      BY <3>1, <3>7, OneClaimOfDevice
  <2> QED
    BY <2>2, <2>3, RowIs
<1>2. CASE ~Merges(c)
  <2>1. Binds(c)
    BY <1>2, RowOfClaim
  <2>2. Inferred = {c} /\ Unclaimed = {}
    BY <2>1, BoundAlone
  <2> QED
    BY <2>2, RowIs
<1> QED
  BY <1>1, <1>2

\* What the report says, of any folder.
LEMMA IdentitiesHold ==
  WalkInv /\ RowsInv /\ PathsShaped => StatedIdentities
<1> SUFFICES ASSUME WalkInv, RowsInv, PathsShaped, correlated
             PROVE  StatedIdentities
  BY DEF StatedIdentities
<1>1. ASSUME NEW a \in Reported("superfetch"), NEW k \in DOMAIN a.records, NamesDevice(a.records[k].device)
      PROVE  Cardinality({row \in rows :
               /\ Normalised(row.device) = Normalised(a.records[k].device) /\ row.how = "stated"
               /\ row.serial = a.records[k].serial /\ row.created = a.records[k].created}) = 1
  BY <1>1, StatedIs, StatedOnce
<1>2. ASSUME NEW row \in Lettered, row.how = "bound"
      PROVE  \E c \in Inferred : row = RowOf(c) /\ Binds(c)
  <2>1. PICK c \in Inferred : row = RowOf(c)
    BY LetteredRows
  <2>2. Binds(c)
    BY <1>2, <2>1, RowOfClaim
  <2> QED
    BY <2>1, <2>2
<1>3. ASSUME NEW row \in Lettered, row.how = "bound"
      PROVE  Cardinality(Lettered) = 1
  <2>1. PICK c \in Inferred : row = RowOf(c) /\ Binds(c)
    BY <1>2, <1>3
  <2>2. Inferred = {c}
    BY <2>1, BoundAlone
  <2>3. \A other \in Lettered : \E d \in Inferred : other = RowOf(d)
    BY LetteredRows
  <2>4. Lettered = {row}
    BY <2>1, <2>2, <2>3
  <2> QED
    BY <2>4, FS_Singleton
<1>4. ASSUME NEW row \in Lettered, row.how = "bound", NEW a \in Reported("superfetch")
      PROVE  /\ \A k \in DOMAIN a.records :
                  /\ ~NamesDevice(a.records[k].device)
                  /\ NamesVolume(a.records[k].device) => a.records[k].serial \in {row.serial, "00000000"}
             /\ \A name \in a.names : VolumeName[name[1]].serial = row.serial
  <2>1. PICK c \in Inferred : row = RowOf(c) /\ Binds(c)
    BY <1>2, <1>4
  <2>2. Stated = {} /\ \A m \in Mentions : m.serial = row.serial
    BY <2>1, BoundAlone
  <2>3. PICK j \in DOMAIN found : found[j].kind = "superfetch" /\ a = found[j]
    BY DEF Reported
  <2>4. MentionsIn(j) \subseteq Mentions
    BY <2>3 DEF Mentions
  <2>5. ASSUME NEW k \in DOMAIN a.records
        PROVE  ~NamesDevice(a.records[k].device)
    BY <2>2, StatedIs
  <2>6. ASSUME NEW k \in DOMAIN a.records, NamesVolume(a.records[k].device),
               a.records[k].serial # "00000000"
        PROVE  a.records[k].serial = row.serial
    <3>1. Mention(<<j, k>>, a.records[k]) \in Mentions
      BY <2>3, <2>4, <2>6 DEF MentionsIn
    <3>2. Mention(<<j, k>>, a.records[k]).serial = a.records[k].serial
      BY DEF Mention
    <3> QED
      BY <2>2, <3>1, <3>2
  <2>7. ASSUME NEW name \in a.names
        PROVE  VolumeName[name[1]].serial = row.serial
    <3>1. Mention(<<j, name>>, VolumeName[name[1]]) \in Mentions
      BY <2>3, <2>4 DEF MentionsIn
    <3>2. Mention(<<j, name>>, VolumeName[name[1]]).serial = VolumeName[name[1]].serial
      BY DEF Mention
    <3> QED
      BY <2>2, <3>1, <3>2
  <2> QED
    BY <2>5, <2>6, <2>7
<1>5. ASSUME NEW r \in rows, NEW s \in rows, Normalised(r.device) = Normalised(s.device), r # s,
             r.letter # "", r.serial # ""
      PROVE  FALSE
  <2>1. PICK c \in Inferred : r = RowOf(c)
    <3>1. r \in Lettered
      BY <1>5 DEF Lettered
    <3> QED
      BY <3>1, LetteredRows
  <2>2. \A d \in Inferred : d[2] \in Devices
    BY LetteredRows
  <2> QED
    BY <1>5, <2>1, <2>2, LetterAndSerial
<1> QED
  BY <1>1, <1>3, <1>4, <1>5 DEF StatedIdentities

LEMMA VolumesInitially == Init => WalkInv /\ BootInv /\ RowsInv /\ PathsShaped
<1> SUFFICES ASSUME Init PROVE WalkInv /\ BootInv /\ RowsInv /\ PathsShaped
  OBVIOUS
<1>1. found = <<>> /\ ~correlated /\ rb = "idle"
  BY DEF Init, FolderInit, VolumesInit, ReadyBootInit
<1> QED
  BY <1>1, WalkInitially DEF RowsInv, PathsShaped, BootInv

\* artifacts.py:846-850 (AUDIT BUG 86) and 964-970: for any folder, with any number of databases,
\* traces and lists, each identity a database states of a device is in the report once; a
\* serial bound to a letter is the only one any artifact mentions, and bound to the only
\* letter; and no two rows give one device a letter and a serial between them.
THEOREM IdentitiesStated == Spec => []StatedIdentities
<1> QED
  BY VolumesInitially, IdentitiesHold, WalkInductive, BootInductive, RowsInductive, ShapeInductive, PTL
     DEF Spec

(* The files a letter and a device share are those both are said to have, in *)
(* the lines of the artifacts as they are written.                           *)

\* A path is its first names and what is below them, and it is so in one way.
LEMMA Splits ==
  ASSUME NEW S, NEW p \in Seq(S)
  PROVE  /\ Len(p) > 1 => p = <<p[1]>> \o Below(p, 1)
         /\ Len(p) > 2 => p = <<p[1], p[2]>> \o Below(p, 2)
<1>1. Len(p) \in Nat /\ DOMAIN p = 1 .. Len(p) /\ \A k \in 1 .. Len(p) : p[k] \in S
  BY LenProperties
<1>2. ASSUME Len(p) > 1
      PROVE  p = <<p[1]>> \o Below(p, 1)
  <2> DEFINE a == <<p[1]>>
             b == Below(p, 1)
  <2>1. a \in Seq(S) /\ Len(a) = 1 /\ a[1] = p[1]
    BY <1>1, <1>2
  <2>2. b \in Seq(S) /\ Len(b) = Len(p) - 1 /\ \A k \in 1 .. (Len(p) - 1) : b[k] = p[k + 1]
    <3>1. \A k \in (1 + 1) .. Len(p) : p[k] \in S
      BY <1>1
    <3>2. /\ b \in Seq(S) /\ Len(b) = IF 1 + 1 <= Len(p) THEN Len(p) - (1 + 1) + 1 ELSE 0
          /\ \A k \in 1 .. (Len(p) - (1 + 1) + 1) : b[k] = p[1 + 1 + k - 1]
      BY <1>1, <3>1, SubSeqProperties DEF Below
    <3> HIDE DEF b
    <3>3. ASSUME NEW k \in 1 .. (Len(p) - 1) PROVE b[k] = p[k + 1]
      <4>1. k \in 1 .. (Len(p) - (1 + 1) + 1) /\ 1 + 1 + k - 1 = k + 1
        BY <1>1
      <4> QED
        BY <3>2, <4>1
    <3>4. Len(b) = Len(p) - 1
      <4>1. Len(b) = IF 1 + 1 <= Len(p) THEN Len(p) - (1 + 1) + 1 ELSE 0
        BY <3>2
      <4>2. Len(p) \in Nat /\ 1 + 1 <= Len(p)
        BY <1>1, <1>2
      <4>3. Len(b) = Len(p) - (1 + 1) + 1
        BY <4>1, <4>2
      <4> QED
        BY <4>2, <4>3
    <3> QED
      BY <3>2, <3>3, <3>4
  <2> HIDE DEF a, b
  <2> a \in Seq(S) /\ b \in Seq(S)
    BY <2>1, <2>2
  <2>3. /\ a \o b \in Seq(S) /\ Len(a \o b) = Len(a) + Len(b)
        /\ \A k \in 1 .. (Len(a) + Len(b)) : (a \o b)[k] = IF k <= Len(a) THEN a[k] ELSE b[k - Len(a)]
    BY ConcatProperties
  <2>4. Len(a \o b) = Len(p) /\ \A k \in 1 .. Len(p) : (a \o b)[k] = p[k]
    BY <1>1, <1>2, <2>1, <2>2, <2>3
  <2>5. p = a \o b
    BY <2>3, <2>4, SeqEqual
  <2> QED
    BY <2>5 DEF a, b
<1>3. ASSUME Len(p) > 2
      PROVE  p = <<p[1], p[2]>> \o Below(p, 2)
  <2> DEFINE a == <<p[1], p[2]>>
             b == Below(p, 2)
  <2>1. a \in Seq(S) /\ Len(a) = 2 /\ a[1] = p[1] /\ a[2] = p[2]
    BY <1>1, <1>3
  <2>2. b \in Seq(S) /\ Len(b) = Len(p) - 2 /\ \A k \in 1 .. (Len(p) - 2) : b[k] = p[k + 2]
    <3>1. \A k \in (2 + 1) .. Len(p) : p[k] \in S
      BY <1>1
    <3>2. /\ b \in Seq(S) /\ Len(b) = IF 2 + 1 <= Len(p) THEN Len(p) - (2 + 1) + 1 ELSE 0
          /\ \A k \in 1 .. (Len(p) - (2 + 1) + 1) : b[k] = p[2 + 1 + k - 1]
      BY <1>1, <3>1, SubSeqProperties DEF Below
    <3> HIDE DEF b
    <3>3. ASSUME NEW k \in 1 .. (Len(p) - 2) PROVE b[k] = p[k + 2]
      <4>1. k \in 1 .. (Len(p) - (2 + 1) + 1) /\ 2 + 1 + k - 1 = k + 2
        BY <1>1
      <4> QED
        BY <3>2, <4>1
    <3>4. Len(b) = Len(p) - 2
      <4>1. Len(b) = IF 2 + 1 <= Len(p) THEN Len(p) - (2 + 1) + 1 ELSE 0
        BY <3>2
      <4>2. Len(p) \in Nat /\ 2 + 1 <= Len(p)
        BY <1>1, <1>3
      <4>3. Len(b) = Len(p) - (2 + 1) + 1
        BY <4>1, <4>2
      <4> QED
        BY <4>2, <4>3
    <3> QED
      BY <3>2, <3>3, <3>4
  <2> HIDE DEF a, b
  <2> a \in Seq(S) /\ b \in Seq(S)
    BY <2>1, <2>2
  <2>3. /\ a \o b \in Seq(S) /\ Len(a \o b) = Len(a) + Len(b)
        /\ \A k \in 1 .. (Len(a) + Len(b)) : (a \o b)[k] = IF k <= Len(a) THEN a[k] ELSE b[k - Len(a)]
    BY ConcatProperties
  <2>4. Len(a \o b) = Len(p) /\ \A k \in 1 .. Len(p) : (a \o b)[k] = p[k]
    BY <1>1, <1>3, <2>1, <2>2, <2>3
  <2>5. p = a \o b
    BY <2>3, <2>4, SeqEqual
  <2> QED
    BY <2>5 DEF a, b
<1> QED
  BY <1>2, <1>3

LEMMA Begins ==
  ASSUME NEW S, NEW t \in Seq(S), t # <<>>, NEW a, NEW b
  PROVE  /\ (<<a>> \o t)[1] = a /\ Below(<<a>> \o t, 1) = t
         /\ (<<a, b>> \o t)[1] = a /\ (<<a, b>> \o t)[2] = b /\ Below(<<a, b>> \o t, 2) = t
<1> DEFINE U == S \cup {a, b}
<1>1. Len(t) \in Nat /\ Len(t) > 0 /\ t \in [1 .. Len(t) -> S]
  BY LenProperties, EmptySeq
<1>2. t \in Seq(U)
  <2>1. t \in [1 .. Len(t) -> U]
    BY <1>1
  <2> HIDE DEF U
  <2> QED
    BY <1>1, <2>1, OfLength
<1>3. <<a>> \in Seq(U) /\ Len(<<a>>) = 1 /\ <<a>>[1] = a
  OBVIOUS
<1>4. <<a, b>> \in Seq(U) /\ Len(<<a, b>>) = 2 /\ <<a, b>>[1] = a /\ <<a, b>>[2] = b
  OBVIOUS
<1> HIDE DEF U
<1>5. SubSeq(t, 1, Len(t)) = t
  BY <1>2, SubSeqFull
<1>6. ASSUME NEW s \in Seq(U), Len(s) \in 1 .. 2
      PROVE  /\ Below(s \o t, Len(s)) = t
             /\ \A k \in 1 .. Len(s) : (s \o t)[k] = s[k]
  <2>1. /\ Len(s \o t) = Len(s) + Len(t)
        /\ \A k \in 1 .. (Len(s) + Len(t)) : (s \o t)[k] = IF k <= Len(s) THEN s[k] ELSE t[k - Len(s)]
    BY <1>2, ConcatProperties
  <2>2. /\ Len(s) + 1 \in (Len(s) + 1) .. (Len(s) + Len(t))
        /\ Len(s) + Len(t) \in (Len(s) + 1) .. (Len(s) + Len(t))
        /\ (Len(s) + 1) - Len(s) = 1 /\ (Len(s) + Len(t)) - Len(s) = Len(t)
    BY <1>1, <1>6
  <2>3. SubSeq(s \o t, Len(s) + 1, Len(s) + Len(t)) = SubSeq(t, 1, Len(t))
    BY <1>2, <2>2, SubSeqOfConcat2
  <2> QED
    BY <1>1, <1>5, <1>6, <2>1, <2>3 DEF Below
<1>7. (<<a>> \o t)[1] = a /\ Below(<<a>> \o t, 1) = t
  <2> DEFINE s == <<a>>
  <2>1. s \in Seq(U) /\ Len(s) = 1 /\ Len(s) \in 1 .. 2 /\ s[1] = a
    BY <1>3
  <2> HIDE DEF s
  <2>2. Below(s \o t, Len(s)) = t /\ \A k \in 1 .. Len(s) : (s \o t)[k] = s[k]
    BY <1>6, <2>1
  <2>3. Below(s \o t, 1) = t /\ (s \o t)[1] = a
    BY <2>1, <2>2
  <2> QED
    BY <2>3 DEF s
<1>8. (<<a, b>> \o t)[1] = a /\ (<<a, b>> \o t)[2] = b /\ Below(<<a, b>> \o t, 2) = t
  <2> DEFINE s == <<a, b>>
  <2>1. s \in Seq(U) /\ Len(s) = 2 /\ Len(s) \in 1 .. 2 /\ s[1] = a /\ s[2] = b
    BY <1>4
  <2> HIDE DEF s
  <2>2. Below(s \o t, Len(s)) = t /\ \A k \in 1 .. Len(s) : (s \o t)[k] = s[k]
    BY <1>6, <2>1
  <2>3. Below(s \o t, 2) = t /\ (s \o t)[1] = a /\ (s \o t)[2] = b
    BY <2>1, <2>2
  <2> QED
    BY <2>3 DEF s
<1> QED
  BY <1>7, <1>8

LEMMA SharedIsBothName ==
  ASSUME PathsShaped, NEW letter \in Letters, NEW dev
  PROVE  Shared(letter, dev) = BothName(letter, dev)
<1>1. \A kind, q : q \in PathsOf(kind) <=> \E a \in Reported(kind) : \E p \in a.paths : Normalised(p) = q
  BY DEF PathsOf
<1>2. ASSUME NEW t \in Shared(letter, dev)
      PROVE  t \in BothName(letter, dev)
  <2>1. PICK p \in LetterPaths : p[1] = letter /\ Below(p, 1) = t
    BY <1>2 DEF Shared, OnLetter
  <2>2. PICK q \in DevicePaths : q[2] = dev /\ Below(q, 2) = t
    BY <1>2 DEF Shared, OnDevice
  <2>3. p \in PathsOf("layout") /\ Discriminating(t) /\ q \in PathsOf("readyboot") /\ q[1] = "DEVICE"
    BY <2>1, <2>2 DEF LetterPaths, DevicePaths
  <2>4. t # <<>>
    BY <2>3 DEF Discriminating
  <2>5. p = <<letter>> \o t
    <3>1. p \in Seq(ToSet(p)) /\ Len(p) > 1
      BY <2>1, <2>3, <2>4, PathBelow
    <3> QED
      BY <2>1, <3>1, Splits
  <2>6. q = <<"DEVICE", dev>> \o t
    <3>1. q \in Seq(ToSet(q)) /\ Len(q) > 2
      BY <2>2, <2>3, <2>4, PathBelow
    <3>2. q = <<q[1], q[2]>> \o Below(q, 2)
      BY <3>1, Splits
    <3> QED
      BY <2>2, <2>3, <3>2
  <2>7. PICK a \in Reported("layout") : \E given \in a.paths : Normalised(given) = p
    BY <1>1, <2>3
  <2>8. PICK given \in a.paths : Normalised(given) = p
    BY <2>7
  <2>9. t \in UNION {{Below(Normalised(other), 1) : other \in e.paths} : e \in Reported("layout")}
    BY <2>1, <2>8
  <2>10. \E e \in Reported("readyboot") : \E other \in e.paths : Normalised(other) = <<"DEVICE", dev>> \o t
    BY <1>1, <2>3, <2>6
  <2>11. \E e \in Reported("layout") : \E other \in e.paths : Normalised(other) = <<letter>> \o t
    BY <2>5, <2>7
  <2> QED
    BY <2>3, <2>9, <2>10, <2>11 DEF BothName
<1>3. ASSUME NEW t \in BothName(letter, dev)
      PROVE  t \in Shared(letter, dev)
  <2>1. Discriminating(t) /\ t # <<>>
    BY <1>3 DEF BothName, Discriminating
  <2>2. <<letter>> \o t \in PathsOf("layout") /\ <<"DEVICE", dev>> \o t \in PathsOf("readyboot")
    BY <1>1, <1>3 DEF BothName
  <2>3. PICK p \in PathsOf("layout") : t = Below(p, 1)
    <3>1. PICK a \in Reported("layout") : \E given \in a.paths : t = Below(Normalised(given), 1)
      BY <1>3 DEF BothName
    <3>2. PICK given \in a.paths : t = Below(Normalised(given), 1)
      BY <3>1
    <3> QED
      BY <1>1, <3>2
  <2>4. t \in Seq(ToSet(p))
    BY <2>1, <2>3, PathBelow
  <2>5. /\ (<<letter>> \o t)[1] = letter /\ Below(<<letter>> \o t, 1) = t
        /\ (<<"DEVICE", dev>> \o t)[1] = "DEVICE" /\ (<<"DEVICE", dev>> \o t)[2] = dev
        /\ Below(<<"DEVICE", dev>> \o t, 2) = t
    <3>1. \A a, b : /\ (<<a>> \o t)[1] = a /\ Below(<<a>> \o t, 1) = t
                    /\ (<<a, b>> \o t)[1] = a /\ (<<a, b>> \o t)[2] = b
                    /\ Below(<<a, b>> \o t, 2) = t
      BY <2>1, <2>4, Begins
    <3> QED
      BY <3>1
  <2> DEFINE l == <<letter>> \o t
             d == <<"DEVICE", dev>> \o t
  <2>6. l \in LetterPaths /\ l[1] = letter /\ Below(l, 1) = t
    BY <2>1, <2>2, <2>5 DEF LetterPaths
  <2>7. d \in DevicePaths /\ d[2] = dev /\ Below(d, 2) = t
    BY <2>1, <2>2, <2>5 DEF DevicePaths
  <2> HIDE DEF l, d
  <2>8. t \in OnLetter(letter)
    BY <2>6 DEF OnLetter
  <2>9. t \in OnDevice(dev)
    BY <2>7 DEF OnDevice
  <2> QED
    BY <2>8, <2>9 DEF Shared
<1> QED
  BY <1>2, <1>3

\* artifacts.py:725-727, 728-733, 745-749 and 913-916: for any folder and any thresholds of
\* which the lower is below the upper, no device has two letters and no letter two
\* devices; lines of the artifacts name, under the letter and under its device, a file
\* that not every Windows has; and a letter that matched without being claimed is told of.
THEOREM LettersAreEarned ==
  Spec => [](correlated =>
               /\ LettersDistinct /\ MatchesTold
               /\ \A row \in Lettered : \E t \in BothName(row.letter, row.device[2]) : MachineSpecific(t))
<1> DEFINE Earned ==
      correlated =>
        /\ LettersDistinct /\ MatchesTold
        /\ \A row \in Lettered : \E t \in BothName(row.letter, row.device[2]) : MachineSpecific(t)
<1>1. WalkInv /\ RowsInv /\ PathsShaped => Earned
  <2> SUFFICES ASSUME WalkInv, RowsInv, PathsShaped, correlated,
                      NEW row \in Lettered
               PROVE  \E t \in BothName(row.letter, row.device[2]) : MachineSpecific(t)
    BY LettersClaimed
  <2>1. PICK c \in Inferred : row = RowOf(c)
    BY LetteredRows
  <2>2. row.letter = c[1]
    BY <2>1, RowOfClaim
  <2>3. c[1] \in Drives
    BY DEF Inferred, Claims
  <2>4. row.letter \in Letters
    BY <2>2, <2>3 DEF Drives, LetterPaths
  <2>5. Shared(row.letter, row.device[2]) = BothName(row.letter, row.device[2])
    BY <2>4, SharedIsBothName
  <2> QED
    BY <2>5, LettersClaimed
<1> QED
  BY <1>1, VolumesInitially, WalkInductive, BootInductive, RowsInductive, ShapeInductive, PTL DEF Spec

(* Where every part of the command is, and within what bounds. *)

\* The wrapper reads within the file, and what it hands to the decoder is of it.
RawInv ==
  /\ un \in {"idle", "open", "mam", "chain", "chunk", "blocks", "block", "memo", "done", "failed"}
  /\ un \notin {"idle", "open", "failed"} /\ wrapped.kind # "none" => Raw # <<>>
  /\ un \in {"mam", "memo"} => payload = <<>>
  /\ un \in {"chain", "chunk", "blocks", "block"} => rawPos \in Nat
  /\ un \in {"chain", "chunk"} => rawPos <= Len(Raw) /\ chunkLen \in Int
  /\ un = "chunk" => chunkLen \in Nat
  /\ un = "block" => Has(1) /\ BlockFits

LEMMA RawCells ==
  ASSUME UnpackInv, un # "idle"
  PROVE  /\ Raw \in Seq(Int) /\ Len(Raw) \in Nat
         /\ wrapped.kind # "none" /\ Raw # <<>> => Total \in Nat
         /\ \A a \in Nat \ {0}, b \in Nat : b <= Len(Raw) => SubSeq(Raw, a, b) \in Seq(Int)
         /\ Raw # <<>> => Tail(Raw) \in Seq(Int)
         /\ \A k \in 1 .. Len(Raw) : Raw[k] \in Int
<1>1. IsWrapped(wrapped)
  BY DEF UnpackInv
<1>2. Raw \in Seq(Int)
  BY <1>1 DEF IsWrapped, Raw
<1>3. wrapped.kind # "none" /\ Raw # <<>> => Total \in Nat
  BY <1>1 DEF IsWrapped, Raw, Total
<1>4. ASSUME NEW a \in Nat \ {0}, NEW b \in Nat, b <= Len(Raw)
      PROVE  SubSeq(Raw, a, b) \in Seq(Int)
  BY <1>2, <1>4
<1> QED
  BY <1>2, <1>3, <1>4

LEMMA WrapperTypes ==
  ASSUME UnpackInv, XpInv, RawInv, UnpackStep
  PROVE  XpInv' /\ RawInv'
<1>0. wrapped' = wrapped /\ un # "idle"
  BY DEF UnpackStep, Decode, Uncompressed, MamRefused, OpenMam, MamDecoded, DecoderFails, PfbRefused,
         OpenPfb, ChunkRefused, Chunk, ChunkDecoded, TrailerCut, LastChunk, BlocksRefused, OpenBlocks,
         NextBlock, BlockDecoded, NextSize, NoSizeFits, SizeFails, BlocksDecoded, MemoUnreadable,
         OpenMemo, DecodeMemo, MemoDecoded, MemoFails, UnpackFails, StreamAt, DecodeNext, Decoding,
         unpackVars
<1>1. Raw' = Raw /\ Total' = Total
  BY <1>0 DEF Raw, Total
<1>2. /\ Raw \in Seq(Int) /\ Len(Raw) \in Nat
      /\ \A a \in Nat \ {0}, b \in Nat : b <= Len(Raw) => SubSeq(Raw, a, b) \in Seq(Int)
      /\ Raw # <<>> => Tail(Raw) \in Seq(Int)
      /\ \A k \in 1 .. Len(Raw) : Raw[k] \in Int
  BY <1>0, RawCells
<1>3. CASE Decode
  <2>1. XpressStep /\ UNCHANGED <<wrapped, un, rawPos, chunkLen, payload>>
    BY <1>3 DEF Decode, unpackVars
  <2>2. XpInv'
    BY <2>1, XpStep
  <2> QED
    BY <1>1, <2>1, <2>2 DEF RawInv, Has, BlockFits, BlockLen
<1>4. CASE UnpackFails
  BY <1>4, XpKept DEF UnpackFails, decoders, RawInv
<1>5. CASE Uncompressed \/ MamDecoded \/ LastChunk \/ BlocksDecoded \/ MemoDecoded
  <2>1. /\ un' = "done" /\ UNCHANGED xpressVars
        /\ un \in {"mam", "chunk", "blocks", "memo"} \/ wrapped.kind = "none"
    BY <1>5 DEF Uncompressed, MamDecoded, LastChunk, BlocksDecoded, MemoDecoded, decoders
  <2> QED
    BY <1>0, <1>1, <2>1, XpKept DEF RawInv
<1>6. CASE OpenMam
  <2>1. Raw # <<>> /\ Decompress(Tail(Raw), Total) /\ un' = "mam" /\ payload' = payload /\ un = "open"
    BY <1>2, <1>6 DEF OpenMam
  <2>2. XpInv' /\ payload = <<>>
    BY <1>2, <2>1, XpBegins DEF UnpackInv
  <2> QED
    BY <1>1, <2>1, <2>2 DEF RawInv
<1>7. CASE OpenPfb
  <2>1. Len(Raw) >= 2 /\ chunkLen' = Raw[2] /\ rawPos' = 2 /\ un' = "chain" /\ UNCHANGED xpressVars
    BY <1>7 DEF OpenPfb, StreamAt, decoders
  <2>2. XpInv' /\ Raw # <<>> /\ Raw[2] \in Int
    BY <1>2, <2>1, XpKept
  <2> QED
    BY <1>1, <1>2, <2>1, <2>2 DEF RawInv
<1>8. CASE Chunk
  <2>1. PICK n, size :
          /\ un = "chain" /\ chunkLen > 0 /\ n = (IF Has(chunkLen) THEN chunkLen ELSE Len(Raw) - rawPos)
          /\ Decompress(SubSeq(Raw, rawPos + 1, rawPos + n), size)
          /\ chunkLen' = n /\ un' = "chunk" /\ rawPos' = rawPos
    BY <1>8 DEF Chunk, Readable, DecodeNext
  <2>2. rawPos \in Nat /\ rawPos <= Len(Raw) /\ chunkLen \in Int /\ Raw # <<>>
    <3>1. wrapped.kind # "none"
      BY <2>1 DEF UnpackInv
    <3> QED
      BY <2>1, <3>1 DEF RawInv
  <2>3. n \in Nat /\ rawPos + n <= Len(Raw)
    BY <1>2, <2>1, <2>2 DEF Has
  <2>4. SubSeq(Raw, rawPos + 1, rawPos + n) \in Seq(Int)
    <3>1. rawPos + 1 \in Nat \ {0} /\ rawPos + n \in Nat
      BY <2>2, <2>3
    <3> QED
      BY <1>2, <2>3, <3>1
  <2>5. XpInv'
    BY <2>1, <2>4, XpBegins
  <2> QED
    BY <1>1, <2>1, <2>2, <2>3, <2>5 DEF RawInv
<1>9. CASE ChunkDecoded
  <2>1. /\ un = "chunk" /\ Has(chunkLen + 2) /\ chunkLen' = Raw[rawPos + chunkLen + 2]
        /\ rawPos' = rawPos + chunkLen + 2 /\ un' = "chain" /\ UNCHANGED xpressVars
    BY <1>9 DEF ChunkDecoded, decoders
  <2>2. rawPos \in Nat /\ chunkLen \in Nat /\ Raw # <<>>
    <3>1. wrapped.kind # "none"
      BY <2>1 DEF UnpackInv
    <3> QED
      BY <2>1, <3>1 DEF RawInv
  <2>3. rawPos' \in 1 .. Len(Raw)
    BY <1>2, <2>1, <2>2 DEF Has
  <2>4. chunkLen' \in Int
    BY <1>2, <2>1, <2>3
  <2> QED
    BY <1>1, <1>2, <2>1, <2>2, <2>3, <2>4, XpKept DEF RawInv
<1>10. CASE OpenBlocks \/ NextSize
  <2>1. rawPos' = HeaderSize /\ un' = "blocks" /\ UNCHANGED xpressVars
    BY <1>10 DEF OpenBlocks, NextSize, StreamAt, decoders
  <2>2. Raw # <<>>
    <3>1. CASE OpenBlocks
      BY <3>1 DEF OpenBlocks
    <3>2. CASE NextSize
      <4>1. un \in {"blocks", "block"}
        BY <3>2 DEF NextSize, SizeFails
      <4>2. wrapped.kind # "none"
        BY <4>1 DEF UnpackInv
      <4> QED
        BY <4>1, <4>2 DEF RawInv
    <3> QED
      BY <1>10, <3>1, <3>2
  <2>3. HeaderSize \in Nat
    BY DEF HeaderSize
  <2> QED
    BY <1>1, <2>1, <2>2, <2>3, XpKept DEF RawInv
<1>11. CASE NextBlock
  <2>1. PICK size :
          /\ un = "blocks" /\ Has(1) /\ BlockFits
          /\ Decompress(SubSeq(Raw, rawPos + 2, rawPos + 1 + BlockLen), size)
          /\ un' = "block" /\ rawPos' = rawPos
    BY <1>11 DEF NextBlock, MoreBlocks
  <2>2. rawPos \in Nat /\ Raw # <<>>
    <3>1. wrapped.kind # "none"
      BY <2>1 DEF UnpackInv
    <3> QED
      BY <2>1, <3>1 DEF RawInv
  <2>3. BlockLen \in Nat /\ rawPos + 1 + BlockLen <= Len(Raw)
    <3>1. rawPos + 1 \in 1 .. Len(Raw)
      BY <1>2, <2>1, <2>2 DEF Has
    <3>2. BlockLen \in Int
      BY <1>2, <3>1 DEF BlockLen
    <3> QED
      BY <1>2, <2>1, <2>2, <3>2 DEF BlockFits, Has
  <2>4. SubSeq(Raw, rawPos + 2, rawPos + 1 + BlockLen) \in Seq(Int)
    <3>1. rawPos + 2 \in Nat \ {0} /\ rawPos + 1 + BlockLen \in Nat
      BY <2>2, <2>3
    <3> QED
      BY <1>2, <2>3, <3>1
  <2>5. XpInv'
    BY <2>1, <2>4, XpBegins
  <2>6. (Has(1) /\ BlockFits)'
    BY <1>1, <2>1 DEF Has, BlockFits, BlockLen
  <2> QED
    BY <1>1, <2>1, <2>2, <2>5, <2>6 DEF RawInv
<1>12. CASE BlockDecoded
  <2>1. un = "block" /\ rawPos' = rawPos + 1 + BlockLen /\ un' = "blocks" /\ UNCHANGED xpressVars
    BY <1>12 DEF BlockDecoded, decoders
  <2>2. rawPos \in Nat /\ Has(1) /\ BlockFits /\ Raw # <<>>
    <3>1. wrapped.kind # "none"
      BY <2>1 DEF UnpackInv
    <3> QED
      BY <2>1, <3>1 DEF RawInv
  <2>3. BlockLen \in Int /\ BlockLen > 0
    <3>1. rawPos + 1 \in 1 .. Len(Raw)
      BY <1>2, <2>2 DEF Has
    <3> QED
      BY <1>2, <2>2, <3>1 DEF BlockLen, BlockFits
  <2>4. rawPos' \in Nat
    BY <2>1, <2>2, <2>3
  <2> QED
    BY <1>1, <2>1, <2>2, <2>4, XpKept DEF RawInv
<1>13. CASE OpenMemo
  <2>1. un = "open" /\ Raw # <<>> /\ un' = "memo" /\ payload' = payload /\ UNCHANGED xpressVars
    BY <1>13 DEF OpenMemo
  <2>2. payload = <<>>
    BY <2>1 DEF UnpackInv
  <2> QED
    BY <1>1, <2>1, <2>2, XpKept DEF RawInv
<1>14. CASE DecodeMemo
  <2>1. UNCHANGED <<wrapped, un, rawPos, chunkLen, payload>> /\ UNCHANGED xpressVars
    BY <1>14 DEF DecodeMemo, unpackVars
  <2> QED
    BY <1>1, <2>1, XpKept DEF RawInv, Has, BlockFits, BlockLen
<1> QED
  BY <1>3, <1>4, <1>5, <1>6, <1>7, <1>8, <1>9, <1>10, <1>11, <1>12, <1>13, <1>14
  DEF UnpackStep, MamRefused, DecoderFails, PfbRefused, ChunkRefused, TrailerCut, BlocksRefused,
      NoSizeFits, MemoUnreadable, MemoFails

LEMMA UnpackTypes ==
  ASSUME WalkInv, UnpackInv, XpInv, RawInv, [Next]_vars
  PROVE  XpInv' /\ RawInv'
<1>1. CASE UnpackStep
  BY <1>1, WrapperTypes
<1>2. ASSUME NEW given, Unpack(given), UNCHANGED decoders
      PROVE  XpInv' /\ RawInv'
  <2>1. un' = "open" /\ UNCHANGED xpressVars
    BY <1>2 DEF Unpack, decoders
  <2> QED
    BY <2>1, XpKept DEF RawInv
<1>3. CASE UNCHANGED <<unpackVars, decoders>>
  <2>1. UNCHANGED <<wrapped, un, rawPos, chunkLen, payload>> /\ UNCHANGED xpressVars
    BY <1>3 DEF unpackVars, decoders
  <2>2. Raw' = Raw
    BY <2>1 DEF Raw
  <2> QED
    BY <2>1, <2>2, XpKept DEF RawInv, Has, BlockFits, BlockLen
<1> QED
  BY <1>1, <1>2, <1>3, UnpackAlone

LEMMA UnpackTyped ==
  ASSUME UnpackInv, XpInv, RawInv
  PROVE  UnpackTypeOK
<1>1. XpressTypeOK
  BY XpTyped
<1>2. ASSUME un \notin {"idle", "open", "failed"}, wrapped.kind # "none"
      PROVE  Len(payload) <= Total
  <2>1. Total \in Nat
    BY <1>2, RawCells DEF RawInv
  <2>2. CASE un \in {"mam", "memo"}
    BY <2>1, <2>2 DEF RawInv
  <2>3. CASE un \in {"chain", "chunk", "blocks", "block"}
    BY <2>3 DEF UnpackInv
  <2>4. CASE un = "done"
    BY <1>2, <2>1, <2>4 DEF UnpackInv, DeclaredSize
  <2> QED
    BY <1>2, <2>2, <2>3, <2>4 DEF RawInv
<1> QED
  BY <1>1, <1>2 DEF UnpackTypeOK, RawInv

\* Where the walk of the folder and its parsers can be.
FolderFields ==
  /\ fs \in {"start", "next", "file", "superfetch", "readyboot", "returned", "raised", "crashed"}
  /\ rb \in {"idle", "payload", "paths", "io", "done"}
  /\ sf \in {"idle", "payload", "walk", "scan", "entries", "done", "raised"}
  /\ due \in Nat /\ cursor \in Nat \ {0}

LEMMA DbFields ==
  ASSUME WalkInv, DbInv, FolderFields, [Next]_vars
  PROVE  /\ sf' \in {"idle", "payload", "walk", "scan", "entries", "done", "raised"}
         /\ due' \in Nat /\ cursor' \in Nat \ {0}
<1>1. \/ sf' \in {"payload", "walk", "scan", "entries"}
      \/ sf' \in {"done", "raised"} /\ due' = due /\ cursor' = cursor
      \/ sf' = sf /\ due' = due /\ cursor' = cursor
  <2>1. CASE DbUnpacking \/ UNCHANGED dbVars
    BY <2>1 DEF DbUnpacking, dbVars
  <2>2. CASE DbNotUnpacked \/ DbTooSmall \/ ProbeRaises \/ Undocumented \/ Recognised
    BY <2>2 DEF DbNotUnpacked, DbTooSmall, ProbeRaises, Undocumented, Recognised, SweptOnly
  <2>3. CASE WalkVolume \/ ScanVolume \/ WalkFails \/ VolumeScanned
    BY <2>3 DEF WalkVolume, ScanVolume, ReadVolume, WalkFails, VolumeScanned
  <2>4. CASE WalkEntry \/ ScanEntry
    BY <2>4 DEF WalkEntry, ScanEntry, ReadEntry
  <2>5. CASE WalkHolds \/ ScanHolds \/ ScanFails
    BY <2>5 DEF WalkHolds, ScanHolds, ScanFails, Recovered, SweptOnly
  <2>6. ASSUME NEW given, ParseSuperFetch(given)
        PROVE  sf' = "payload"
    BY <2>6 DEF ParseSuperFetch
  <2> QED
    BY <2>1, <2>2, <2>3, <2>4, <2>5, <2>6, DbAlone DEF SuperFetchStep
<1>2. DbInv'
  BY DbInductive
<1>3. sf' \in {"payload", "walk", "scan", "entries"} => due' \in Nat /\ cursor' \in Nat \ {0}
  BY <1>2 DEF DbInv, Reading
<1> QED
  BY <1>1, <1>3 DEF FolderFields

LEMMA BootFields ==
  ASSUME WalkInv, FolderFields, [Next]_vars
  PROVE  rb' \in {"idle", "payload", "paths", "io", "done"}
<1>1. CASE ReadyBootStep
  BY <1>1 DEF ReadyBootStep, Unpacking, PayloadLost, NoTable, EmptyTable, ReadTable, FollowLink,
              PathJoined, PathDropped, PathsResolved, NoIo, IoRefused, ReadEvent, BlockRead,
              NextSection, IoRead, ReadyBootReturns, FolderFields, bootVars
<1>2. ASSUME NEW given, ParseReadyBoot(given)
      PROVE  rb' = "payload"
  BY <1>2 DEF ParseReadyBoot
<1>3. CASE UNCHANGED bootVars
  BY <1>3 DEF bootVars, FolderFields
<1> QED
  BY <1>1, <1>2, <1>3, BootAlone

LEMMA WalkFields ==
  ASSUME FolderFields, [Next]_vars
  PROVE  fs' \in {"start", "next", "file", "superfetch", "readyboot", "returned", "raised", "crashed"}
<1>1. CASE FolderStep
  <2>1. CASE \/ FolderRaises \/ StartWalk \/ NextDirectory \/ NextFile \/ FolderScanned \/ LeftToParse
             \/ NotRegular \/ NotOpened \/ Grown \/ Unrecognised \/ AboveCeiling
             \/ ParseLayout \/ ParsePfpre \/ StartDb \/ StartBoot \/ DbRaises \/ DateRaises
    BY <2>1 DEF FolderRaises, StartWalk, NextDirectory, NextFile, FolderScanned, LeftToParse,
                NotRegular, NotOpened, Grown, Unrecognised, AboveCeiling, Unparsed, ParseLayout,
                ParsePfpre, Artifact, StartDb, StartBoot, DbRaises, DateRaises, FolderFields
  <2>2. CASE DbParsed \/ BootParsed
    BY <2>2 DEF DbParsed, BootParsed, Artifact
  <2>3. CASE DbStep \/ BootStep
    BY <2>3 DEF DbStep, BootStep, walkVars, FolderFields
  <2> QED
    BY <1>1, <2>1, <2>2, <2>3 DEF FolderStep
<1>2. CASE UNCHANGED folderVars
  BY <1>2 DEF folderVars, walkVars, FolderFields
<1> QED
  BY <1>1, <1>2, FolderAlone

TypesInv == XpInv /\ RawInv /\ FolderFields /\ ScanFields /\ CliFields

LEMMA TypesInitially ==
  ASSUME Init
  PROVE  TypesInv
<1>1. XpInv
  <2>1. xp = "idle" /\ stream = <<>> /\ pos = 0 /\ nextBits = 0 /\ extraBits = 0
    BY DEF Init, FolderInit, XpressInit
  <2>2. stream \in Seq(Int) /\ pos \in 0 .. Len(stream)
    BY <2>1
  <2> QED
    BY <2>1, <2>2, EmptyRegister DEF XpInv
<1>2. RawInv
  BY DEF Init, FolderInit, UnpackInit, RawInv
<1>3. FolderFields
  BY DEF Init, FolderInit, ReadyBootInit, SuperFetchInit, FolderFields
<1>4. ScanFields
  BY DEF Init, ScanInit, ScanFields, Outcomes
<1>5. CliFields
  <2>1. /\ request \in Requests /\ at = "main" /\ files = request.files /\ written = {} /\ failed = {}
        /\ code = None
    BY DEF Init
  <2>2. IsRequest(request)
    BY <2>1, CliAssumption
  <2>3. \A f \in DOMAIN files : files[f] \in Contents
    BY <2>1, <2>2 DEF IsRequest, Contents
  <2> QED
    BY <2>1, <2>3 DEF CliFields
<1> QED
  BY <1>1, <1>2, <1>3, <1>4, <1>5 DEF TypesInv

LEMMA TypesInductive ==
  ASSUME WalkInv, UnpackInv, DbInv, ScanInv, OutputsInv, TypesInv, [Next]_vars
  PROVE  TypesInv'
<1>1. XpInv' /\ RawInv'
  BY UnpackTypes DEF TypesInv
<1>2. FolderFields'
  BY DbFields, BootFields, WalkFields DEF TypesInv, FolderFields
<1>3. ScanFields' /\ CliFields'
  BY ScanFieldsStep, CliFieldsStep DEF TypesInv
<1> QED
  BY <1>1, <1>2, <1>3 DEF TypesInv

\* xpress.py, agdb.py, artifacts.py and pfcli/__main__.py: on any input, sound or not, the decoder's
\* register stays within its two words, no read leaves the input, what is unpacked
\* never outgrows the declared size, and every part of the command is where its code can be.
THEOREM CommandTyped == Spec => []TypeOK
<1> DEFINE All == WalkInv /\ UnpackInv /\ DbInv /\ ScanInv /\ OutputsInv /\ TypesInv
<1>1. Init => All
  <2> SUFFICES ASSUME Init PROVE All
    OBVIOUS
  <2>1. un = "idle" /\ xp = "idle" /\ sf = "idle"
    BY DEF Init, FolderInit, UnpackInit, XpressInit, SuperFetchInit
  <2>2. UnpackInv /\ DbInv
    BY <2>1 DEF UnpackInv, DeclaredSize, DbInv, Reading, RecordsAccounted
  <2> QED
    BY <2>2, WalkInitially, ScanInitially, OutputsInitially, TypesInitially
<1>2. All /\ [Next]_vars => All'
  BY WalkInductive, UnpackInductive, DbInductive, ScanInductive, OutputsInductive, TypesInductive
<1>3. All => TypeOK
  <2> SUFFICES ASSUME All PROVE TypeOK
    OBVIOUS
  <2>1. ScanTypeOK /\ UnpackTypeOK
    BY ScanTyped, UnpackTyped DEF TypesInv
  <2>2. FolderTypeOK
    BY <2>1 DEF TypesInv, FolderFields, FolderTypeOK
  <2> QED
    BY <2>1, <2>2 DEF TypesInv, CliFields, TypeOK
<1> QED
  BY <1>1, <1>2, <1>3, PTL DEF Spec

=============================================================================
