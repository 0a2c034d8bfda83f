------------------------------- MODULE Volumes -------------------------------
(***************************************************************************)
(* artifacts.correlate_volumes: what the artifacts of one folder say about *)
(* the same volume.  A boot trace names files by device, Layout.ini by     *)
(* drive letter; where the two agree the device has the letter.  A         *)
(* SuperFetch database states serial and creation time of a device         *)
(* outright.                                                               *)
(*                                                                         *)
(* Names are compared without their case: Upper gives the capitals of a    *)
(* name that is spelt otherwise.                                           *)
(***************************************************************************)
EXTENDS FolderScan

CONSTANTS
  Upper,      \* [spelling -> capitals]
  Generic,    \* what a path no volume lacks begins with: _VOLUME_GENERIC and "$..."
  StockRoots, \* _STOCK_WINDOWS_ROOTS
  MaxCreated, \* the last time a datetime holds
  MinMatch, MaxOther,   \* _VOL_MATCH_MIN and _VOL_REJECT_MAX, in per cent
  MinShared, MinSpecific \* _VOL_MIN_SHARED, _VOL_MIN_MACHINE_SPECIFIC

\* One device may not both explain a letter and be next to none of it.
ASSUME VolumeAssumption ==
  /\ MinMatch \in Nat /\ MaxOther \in Nat /\ MaxOther < MinMatch
  /\ MinShared \in Nat \ {0} /\ MinSpecific \in Nat \ {0}

ASSUME LetterAssumption == "" \notin Letters

\* Capitals have no capitals of their own.
ASSUME UpperAssumption == \A name \in DOMAIN Upper : Upper[name] \notin DOMAIN Upper

VARIABLES
  correlated, \* the correlation is done
  rows,       \* one for each volume: [letter, device, serial, created, how]
  withheld    \* letters matched and not claimed (notes)

volumeVars == <<correlated, rows, withheld>>

VolumesInit == correlated = FALSE /\ rows = {} /\ withheld = {}

Capitals(name) == IF name \in DOMAIN Upper THEN Upper[name] ELSE name
Normalised(path) == [k \in DOMAIN path |-> Capitals(path[k])]

Discriminating(tail) == tail # <<>> /\ tail[1] \notin Generic

MachineSpecific(tail) ==
  tail[1] # "WINDOWS" /\ (Len(tail) > 1 \/ tail[1] \notin StockRoots)

Reported(kind) == {found[k] : k \in {j \in DOMAIN found : found[j].kind = kind}}

PathsOf(kind) == {Normalised(p) : p \in UNION {a.paths : a \in Reported(kind)}}

\* Below the first n components of a path.
Below(path, n) == SubSeq(path, n + 1, Len(path))

-----------------------------------------------------------------------------
\* by_device and by_letter

DevicePaths == {p \in PathsOf("readyboot") : p[1] = "DEVICE" /\ Discriminating(Below(p, 2))}
LetterPaths == {p \in PathsOf("layout") : p[1] \in Letters /\ Discriminating(Below(p, 1))}

Devices == {p[2] : p \in DevicePaths}
Drives  == {p[1] : p \in LetterPaths}

OnDevice(dev)    == {Below(p, 2) : p \in {q \in DevicePaths : q[2] = dev}}
OnLetter(letter) == {Below(p, 1) : p \in {q \in LetterPaths : q[1] = letter}}

Shared(letter, dev)  == OnLetter(letter) \cap OnDevice(dev)
PerCent(letter, dev) == 100 * Cardinality(Shared(letter, dev))
AllOf(letter)        == Cardinality(OnLetter(letter))

\* One device explains most of the letter's paths and every other next to none.
Matches(letter, dev) ==
  /\ PerCent(letter, dev) >= MinMatch * AllOf(letter)
  /\ \A other \in Devices \ {dev} : PerCent(letter, other) <= MaxOther * AllOf(letter)
  /\ Cardinality(Shared(letter, dev)) >= MinShared

\* Mutant of SameMachine: a match of system files alone is enough.
AnyMachine(letter, dev) == Shared(letter, dev) # {}

\* What is shared is not only what every Windows has.
SameMachine(letter, dev) ==
  Cardinality({t \in Shared(letter, dev) : MachineSpecific(t)}) >= MinSpecific

Claims   == {c \in Drives \X Devices : Matches(c[1], c[2]) /\ SameMachine(c[1], c[2])}
Withheld == {c \in Drives \X Devices : Matches(c[1], c[2]) /\ ~SameMachine(c[1], c[2])}

\* One device cannot be two drive letters.
Inferred == {c \in Claims : \A d \in Claims : d[2] = c[2] => d = c}

-----------------------------------------------------------------------------
\* stated and volumes

NamesDevice(device) == Len(device) > 1 /\ Capitals(device[1]) = "DEVICE"
NamesVolume(device) == Capitals(device[1]) \in DOMAIN VolumeName

Identity(record) ==
  [device |-> Normalised(record.device), serial |-> record.serial, created |-> record.created]

StatedRecords ==
  {r \in UNION {ToSet(a.records) : a \in Reported("superfetch")} : NamesDevice(r.device)}

\* Mutant of Stated: a record is known by the device as it is spelt.
StatedAsSpelt == {[Identity(r) EXCEPT !.device = r.device] : r \in StatedRecords}

\* Several databases state the same volume; each statement counts once.
Stated == {Identity(r) : r \in StatedRecords}

\* Every mention of a volume counts here: of whatever database, in a record or, where no
\* record was read, as a name in the sweep.
Mention(place, volume) == [place |-> place, serial |-> volume.serial, created |-> volume.created]

MentionsIn(k) ==
  {Mention(<<k, v>>, found[k].records[v]) :
     v \in {u \in DOMAIN found[k].records :
             /\ NamesDevice(found[k].records[u].device) \/ NamesVolume(found[k].records[u].device)
             /\ found[k].records[u].serial # "00000000"}}
    \cup {Mention(<<k, name>>, VolumeName[name[1]]) : name \in found[k].names}

Mentions == UNION {MentionsIn(k) : k \in {j \in DOMAIN found : found[j].kind = "superfetch"}}

StatedOf(dev) == {r \in Stated : r.device = <<"DEVICE", dev>>}

\* Exactly one record names the device: then serial and creation are fact.
Merges(c)  == \E r \in StatedOf(c[2]) : StatedOf(c[2]) = {r}
Unclaimed  == {r \in Stated : ~\E c \in Inferred : Merges(c) /\ r \in StatedOf(c[2])}

\* The folder's only volume, for its only letter.
Binds(c) ==
  Inferred = {c} /\ Unclaimed = {} /\ ~Merges(c) /\ \E m \in Mentions : Mentions = {m}

Row(letter, device, record, how) ==
  [letter |-> letter, device |-> device, serial |-> record.serial, created |-> record.created, how |-> how]

NoIdentity == [serial |-> "", created |-> 0]

RowOf(c) ==
  LET row(record, how) == Row(c[1], <<"DEVICE", c[2]>>, record, how)
  IN  CASE Merges(c) -> row(CHOOSE r \in StatedOf(c[2]) : TRUE, "stated")
        [] Binds(c)  -> row(CHOOSE m \in Mentions : TRUE, "bound")
        [] OTHER     -> row(NoIdentity, "inferred")

Report == {RowOf(c) : c \in Inferred} \cup {Row("", r.device, r, "stated") : r \in Unclaimed}

\* The digits of a swept name are any number: a time past MaxCreated raises
\* OverflowError, which nothing catches.
Overflows ==
  \E k \in DOMAIN found : found[k].kind = "superfetch"
    /\ \E name \in found[k].names : VolumeName[name[1]].created > MaxCreated

ToCorrelate == ~correlated /\ fs = "returned" /\ found # <<>>

Correlate ==
  /\ ToCorrelate /\ ~Overflows
  /\ correlated' = TRUE
  /\ rows' = Report
  /\ withheld' = {c[1] : c \in Withheld}
  /\ UNCHANGED folderVars

-----------------------------------------------------------------------------
Lettered == {row \in rows : row.letter # ""}

\* Reference, from the lines of the artifacts as they are written: the files both name.
BothName(letter, dev) ==
  {t \in UNION {{Below(Normalised(p), 1) : p \in a.paths} : a \in Reported("layout")} :
     /\ Discriminating(t)
     /\ \E a \in Reported("layout") : \E p \in a.paths : Normalised(p) = <<letter>> \o t
     /\ \E a \in Reported("readyboot") : \E p \in a.paths : Normalised(p) = <<"DEVICE", dev>> \o t}

\* No device has two letters and no letter two devices.
LettersDistinct ==
  \A r, s \in Lettered : r.letter = s.letter \/ r.device = s.device => r = s

\* A letter that matched is in the report, is named as withheld, or is one of two that
\* matched the same device.
MatchesTold ==
  /\ \A c \in Claims : (\E row \in Lettered : row.letter = c[1]) \/ \E d \in Claims : d # c /\ d[2] = c[2]
  /\ \A c \in Withheld : c[1] \in withheld /\ ~\E row \in Lettered : row.letter = c[1]

\* artifacts.py:725-727 ("a wrong drive letter in a forensic report is worse than a missing
\* one") and 913-916: a letter in the report is the one its device had on the
\* machine the folder was collected from, and none is given when two machines were
\* mixed; no device has two letters and no letter two devices; and a letter that
\* matched and was not claimed is named, unless another letter matched as well.
LettersMatchEvidence ==
  correlated =>
    /\ \A row \in Lettered : <<row.letter, row.device[2]>> \in folder.truth
    /\ \A row \in Lettered : \E t \in BothName(row.letter, row.device[2]) : MachineSpecific(t)
    /\ LettersDistinct /\ MatchesTold

\* artifacts.py:846-850 (AUDIT BUG 86) and 964-970: what the databases state of a device is in
\* the report, each statement in one row; a row with a letter has a serial only if one
\* statement alone names its device, or if nothing is stated of a device and whatever
\* else is said of a volume says the same; and no two rows give one device a letter
\* and a serial between them.
StatedIdentities ==
  correlated =>
    /\ \A a \in Reported("superfetch") : \A k \in DOMAIN a.records :
         NamesDevice(a.records[k].device) =>
           Cardinality({row \in rows :
             /\ Normalised(row.device) = Normalised(a.records[k].device) /\ row.how = "stated"
             /\ row.serial = a.records[k].serial /\ row.created = a.records[k].created}) = 1
    /\ \A row \in Lettered : row.how = "bound" =>
         /\ Cardinality(Lettered) = 1
         /\ \A a \in Reported("superfetch") :
              /\ \A k \in DOMAIN a.records :
                   /\ ~NamesDevice(a.records[k].device)
                   /\ NamesVolume(a.records[k].device) => a.records[k].serial \in {row.serial, "00000000"}
              /\ \A name \in a.names : VolumeName[name[1]].serial = row.serial
    /\ \A r, s \in rows :
         Normalised(r.device) = Normalised(s.device) /\ r # s => r.letter = "" \/ r.serial = ""
===============================================================================
