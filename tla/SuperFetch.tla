------------------------------ MODULE SuperFetch ------------------------------
(***************************************************************************)
(* agdb.parse: a SuperFetch database.  The documented walk, volume by      *)
(* volume and entry by entry; failing that, a scan for entries whose name  *)
(* hash verifies; failing that, a sweep for strings.  What the records do  *)
(* not account for of the sweep is reported beside them.                   *)
(*                                                                         *)
(* The payload is a sequence of items, one for each place where something  *)
(* starts: the volume record read there (or none), the path a file entry   *)
(* read there has (or none) and whether its hash verifies, the items its   *)
(* sub-entry count steps over, and the string the sweep sees (or none).    *)
(***************************************************************************)
EXTENDS Unpack

CONSTANTS
  MaxRecords, \* volume records the scan reads, 64
  MaxSources, \* source records read at most, 100,000
  ScanWindow  \* _SCAN_WINDOW, in items

ASSUME WindowAssumption == ScanWindow \in Nat

\* An item has a volume record or none, a path or none, and steps over itself at least.
IsDatabase(given) ==
  /\ given.items \in Seq(ToSet(given.items))
  /\ \A k \in DOMAIN given.items :
       LET item == given.items[k]
       IN  /\ item.volume = <<>> \/ (1 \in DOMAIN item.volume /\ item.volume[1].declared \in Nat)
           /\ item.path \in Seq(ToSet(item.path)) /\ item.shown \in Seq(ToSet(item.shown))
           /\ item.stride \in Nat \ {0}

VARIABLES
  db,      \* the file: [kind, cells, means, whole, header, items]
  sf,      \* where the parser is
  cursor,  \* the item it is at
  due,     \* file entries the volume at hand declares and were not yet read
  volumes, \* the volume records read: [record, files]
  sources, \* source records read
  swept,   \* the strings of a sweep that stands in for the records
  unaccounted, \* strings of the sweep no record accounts for
  method,  \* "structural", "scan", "sweep" or "none"
  dbProblems

dbVars         == <<db, sf, cursor, due, volumes, sources, swept, unaccounted, method, dbProblems>>
superFetchVars == <<dbVars, unpackVars, decoders>>

SuperFetchInit ==
  /\ db = <<>> /\ sf = "idle" /\ cursor = 1 /\ due = 0 /\ volumes = <<>> /\ sources = 0
  /\ swept = {} /\ unaccounted = {} /\ method = "none" /\ dbProblems = {}

\* parse(raw)
ParseSuperFetch(file) ==
  /\ db' = file /\ sf' = "payload" /\ cursor' = 1 /\ due' = 0 /\ volumes' = <<>> /\ sources' = 0
  /\ swept' = {} /\ unaccounted' = {} /\ method' = "none" /\ dbProblems' = {}
  /\ Unpack(file) /\ UNCHANGED decoders

Header == db.header
Items  == db.items
Here   == Items[cursor]
Inside == cursor <= Len(Items)

-----------------------------------------------------------------------------
\* _sweep: the strings with a backslash in them.
Sweep == {Items[k].shown : k \in DOMAIN Items} \ {<<>>}

ParsedFiles == UNION {ToSet(volumes[v].files) : v \in DOMAIN volumes}

\* text in path
Within(text, path) == \E a, b \in DOMAIN path : SubSeq(path, a, b) = text

\* _account_for_every_path
Missed ==
  {text \in Sweep :
     /\ ParsedFiles # {}
     /\ ~\E v \in DOMAIN volumes : volumes[v].record.device = text
     /\ ~\E path \in ParsedFiles : Within(text, path)}

\* _read_sources.  The loop ends at the cap without a word, and before the end of the
\* file or of an unknown entry size with one.
SourcesWanted == IF Header.sources <= MaxSources THEN Header.sources ELSE MaxSources

SourcesRead ==
  IF ~Header.sourceKnown THEN 0
  ELSE IF SourcesWanted <= Header.sourceRoom THEN SourcesWanted ELSE Header.sourceRoom

SourcesLost == SourcesRead < SourcesWanted

\* The records stand: _read_sources and _account_for_every_path follow.
Recovered(how, what) ==
  /\ method' = how /\ sf' = "done"
  /\ sources' = SourcesRead /\ unaccounted' = Missed
  /\ dbProblems' = dbProblems \cup what
       \cup (IF SourcesLost THEN {"source records not read"} ELSE {})
       \cup (IF Missed # {} THEN {"paths of no parsed record"} ELSE {})
  /\ UNCHANGED <<db, cursor, due, volumes, swept, unpackVars, decoders>>

\* They do not: the sweep is all there is.  The volume records read so far stay.
SweptOnly(what) ==
  /\ swept' = Sweep /\ sf' = "done"
  /\ method' = IF Sweep # {} THEN "sweep" ELSE "none"
  /\ dbProblems' = dbProblems \cup what
  /\ UNCHANGED <<db, cursor, due, volumes, sources, unaccounted, unpackVars, decoders>>

-----------------------------------------------------------------------------
DbUnpacking ==
  /\ sf = "payload" /\ un \notin {"done", "failed"}
  /\ UnpackStep
  /\ UNCHANGED dbVars

\* except (InvalidCompressedData, PrefetchError, ValueError, struct.error)
DbNotUnpacked ==
  /\ sf = "payload" /\ un = "failed"
  /\ sf' = "done" /\ dbProblems' = {"decompression failed"}
  /\ UNCHANGED <<db, cursor, due, volumes, sources, swept, unaccounted, method, unpackVars, decoders>>

DbTooSmall == sf = "payload" /\ un = "done" /\ Header.small /\ SweptOnly({"too small"})

SizeProblem == IF Header.sizeTrue THEN {} ELSE {"declared size"}

\* Some layout of the family has these entry sizes, or one that is documented
\* verifies on this file (_probe_file_layout).
Opened == sf = "payload" /\ un = "done" /\ ~Header.small
Layout == Header.volumeKnown /\ (Header.fileKnown \/ Header.probe = "match")

\* The probe reads with the offsets of other entry sizes, and past the end of the
\* file struct.unpack_from raises what no caller catches.
ProbeRaises ==
  /\ Opened /\ Header.volumeKnown /\ ~Header.fileKnown /\ Header.probe = "raises"
  /\ sf' = "raised"
  /\ UNCHANGED <<db, cursor, due, volumes, sources, swept, unaccounted, method, dbProblems, unpackVars, decoders>>

Undocumented ==
  /\ Opened /\ ~Layout /\ ~(Header.volumeKnown /\ Header.probe = "raises")
  /\ SweptOnly(SizeProblem \cup {"undocumented entry sizes"})

Recognised ==
  /\ Opened /\ Layout
  /\ sf' = IF Header.subKnown THEN "walk" ELSE "scan"
  /\ dbProblems' = SizeProblem
       \cup (IF Header.fileKnown THEN {} ELSE {"a known layout was matched"})
  /\ UNCHANGED <<db, cursor, due, volumes, sources, swept, unaccounted, method, unpackVars, decoders>>

-----------------------------------------------------------------------------
AtVolume == Inside /\ Here.volume # <<>>

\* A volume record is read where the cursor is.
ReadVolume(stage) ==
  /\ volumes' = Append(volumes, [record |-> Here.volume[1], files |-> <<>>])
  /\ due' = Here.volume[1].declared
  /\ cursor' = cursor + 1 /\ sf' = stage
  /\ UNCHANGED <<db, sources, swept, unaccounted, method, dbProblems, unpackVars, decoders>>

\* And a file entry of the last volume at item k; the next one starts at item next.
ReadEntry(k, next) ==
  /\ volumes' = [volumes EXCEPT ![Len(volumes)].files = Append(@, Items[k].path)]
  /\ due' = due - 1 /\ cursor' = next
  /\ UNCHANGED <<db, sf, sources, swept, unaccounted, method, dbProblems, unpackVars, decoders>>

\* SuperFetchDb.file_count
FilesRead == UNION {{v} \X DOMAIN volumes[v].files : v \in DOMAIN volumes}
FileCount == Cardinality(FilesRead)

\* _walk_structural

Verifies(k) == Items[k].path # <<>> /\ Items[k].ok

WalkVolume ==
  /\ sf = "walk" /\ due = 0 /\ Len(volumes) < Header.volumes /\ AtVolume
  /\ ReadVolume("walk")

\* Mutant of WalkEntry: an entry whose hash does not verify is kept.
WalkAnyEntry ==
  /\ sf = "walk" /\ due > 0 /\ Inside /\ Here.path # <<>>
  /\ ReadEntry(cursor, cursor + Here.stride)

WalkEntry ==
  /\ sf = "walk" /\ due > 0 /\ Inside /\ Verifies(cursor)
  /\ ReadEntry(cursor, cursor + Here.stride)

WalkOver == sf = "walk" /\ due = 0 /\ Len(volumes) = Header.volumes

\* The one place in the code that says so: the sums agree.
WalkHolds ==
  /\ WalkOver /\ FileCount = Header.files
  /\ Recovered("structural", {})

\* return None, or a sum that differs: nothing of the walk is kept.
WalkFails ==
  /\ \/ sf = "walk" /\ due = 0 /\ Len(volumes) < Header.volumes /\ ~AtVolume
     \/ sf = "walk" /\ due > 0 /\ ~(Inside /\ Verifies(cursor))
     \/ WalkOver /\ FileCount # Header.files
  /\ sf' = "scan" /\ cursor' = 1 /\ due' = 0 /\ volumes' = <<>>
  /\ UNCHANGED <<db, sources, swept, unaccounted, method, dbProblems, unpackVars, decoders>>

-----------------------------------------------------------------------------
\* The volume records, and _scan for the entries of each.

MoreVolumes ==
  Len(volumes) < Header.volumes /\ Len(volumes) < MaxRecords
    /\ (volumes # <<>> => Last(volumes).files # <<>>)

ScanVolume == sf = "scan" /\ MoreVolumes /\ AtVolume /\ ReadVolume("entries")

\* The next place within the window where an entry verifies.
Hits == {k \in cursor .. cursor + ScanWindow - 1 : k <= Len(Items) /\ Verifies(k)}

ScanEntry ==
  /\ sf = "entries" /\ due > 0 /\ Hits # {}
  /\ ReadEntry(Min(Hits), Min(Hits) + 1)

VolumeScanned ==
  /\ sf = "entries" /\ (due <= 0 \/ Hits = {})
  /\ sf' = "scan"
  /\ UNCHANGED <<db, cursor, due, volumes, sources, swept, unaccounted, method, dbProblems, unpackVars, decoders>>

Scanned == sf = "scan" /\ ~(MoreVolumes /\ AtVolume)

ScanHolds ==
  /\ Scanned /\ FileCount > 0
  /\ Recovered("scan", IF FileCount # Header.files THEN {"declared file records not recovered"} ELSE {})

ScanFails ==
  /\ Scanned /\ FileCount = 0
  /\ SweptOnly(IF Sweep = {} THEN {"no file records and no recoverable paths"} ELSE {})

SuperFetchStep ==
  \/ DbUnpacking \/ DbNotUnpacked \/ DbTooSmall \/ ProbeRaises \/ Undocumented \/ Recognised
  \/ WalkVolume \/ WalkEntry \/ WalkHolds \/ WalkFails
  \/ ScanVolume \/ ScanEntry \/ VolumeScanned \/ ScanHolds \/ ScanFails

\* SuperFetchDb.paths
DbPaths == IF ParsedFiles # {} THEN ParsedFiles \cup unaccounted ELSE swept

-----------------------------------------------------------------------------
\* Reference: the volume record an item belongs to is the last at or before it.
Owner(k) ==
  LET records == {j \in 1 .. k : Items[j].volume # <<>>}
  IN  IF records = {} THEN 0 ELSE Max(records)

\* No entry, nor what its sub-entries take up, reads as a volume record as well.
Straight ==
  \A j, k \in DOMAIN Items :
    Items[j].volume # <<>> /\ Verifies(k) => j \notin k .. k + Items[k].stride - 1

\* Entries that verify behind the record at item j, before the next record.
OwnFiles(j) == {l \in DOMAIN Items : j < l /\ Owner(l) = j /\ Verifies(l)}

\* A file the scan gave a volume stands under the volume's record, or behind it where
\* fewer entries verify under that record than it declares.
ScannedFor(volume, path) ==
  \E k \in DOMAIN Items : \E j \in 1 .. (k - 1) :
    /\ Items[k].path = path /\ Verifies(k)
    /\ Items[j].volume # <<>> /\ Items[j].volume[1] = volume.record
    /\ Owner(k) = j \/ Cardinality(OwnFiles(j)) < volume.record.declared

\* agdb.py:26-28, 36-46 and 527-530 ("reported ... and the paths are kept"): no path is given as
\* a record's that its own hash does not vouch for; the documented walk, when it
\* holds, gives each file to the volume it stands under, unless bytes an entry steps
\* over read as a volume as well; the scan gives a volume the files of another only if
\* the volume declares more than its own; and where records were recovered, a string
\* the sweep shows is a device, lies within a path or is kept beside them.  The code
\* departs from lines 46 and 527-530 in one place, which the fourth conjunct excepts: a
\* header that declares no files is a walk that holds, whose records account for
\* nothing, and what the sweep would show is lost without a problem.
RecordsAccounted ==
  sf = "done" =>
    /\ \A path \in ParsedFiles : \E k \in DOMAIN Items : Items[k].path = path /\ Items[k].ok
    /\ method = "structural" /\ Straight =>
         \A v \in DOMAIN volumes : \A f \in DOMAIN volumes[v].files :
           \E k \in DOMAIN Items :
             /\ Items[k].path = volumes[v].files[f]
             /\ Owner(k) > 0 /\ Items[Owner(k)].volume[1] = volumes[v].record
    /\ method = "scan" =>
         \A v \in DOMAIN volumes : \A path \in ToSet(volumes[v].files) : ScannedFor(volumes[v], path)
    /\ method \in {"structural", "scan"} =>
         \/ method = "structural" /\ Header.files = 0
         \/ \A text \in Sweep :
              \/ \E v \in DOMAIN volumes : text = volumes[v].record.device
              \/ \E path \in DbPaths : Within(text, path)
    /\ dbProblems = {} /\ method = "scan" => FileCount = Header.files
    /\ method = "sweep" => DbPaths = Sweep
    /\ method = "none" => dbProblems # {} /\ DbPaths = {}
===============================================================================
