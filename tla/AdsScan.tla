------------------------------- MODULE AdsScan -------------------------------
(***************************************************************************)
(* ads.scan_tree: os.walk over a folder, and for every file and directory  *)
(* of it scan_file, which lists the streams, reads those that are not the  *)
(* primary one and keeps what looks like prefetch.  Any of these calls may *)
(* fail; the scan goes on, and says of what it could not examine.          *)
(*                                                                         *)
(* The tree, what its entries refuse and what their streams hold are       *)
(* inputs; that a directory cannot be listed when os.walk comes to it (an  *)
(* ACL, a share that is gone by now) may happen at any directory.          *)
(***************************************************************************)
EXTENDS Integers, Sequences, FiniteSets

CONSTANTS
  Ceiling,  \* MAX_STREAM_BYTES
  None

ASSUME CeilingAssumption == Ceiling \in Nat

\* An entry as the file system has it: the names of its streams are distinct, so no
\* two of them are the same, and the enumeration delivers some of them from the first on.
IsEntry(e) ==
  /\ e.kind \in {"file", "dir", "link"}
  /\ e.streams \in Seq({e.streams[k] : k \in DOMAIN e.streams})
  /\ e.lists \in 0 .. Len(e.streams) /\ e.dated \in BOOLEAN
  /\ \A j, k \in DOMAIN e.streams : e.streams[j] = e.streams[k] => j = k
  /\ \A k \in DOMAIN e.streams :
       /\ e.streams[k].primary \in BOOLEAN /\ e.streams[k].prefetch \in BOOLEAN
       /\ e.streams[k].size \in Nat /\ e.streams[k].real \in Nat
       /\ e.streams[k].reads \in {"data", "oserror", "raises"}

\* A folder with one top; everything else is in some directory, and none in itself.
IsTree(entries) ==
  /\ \E top \in DOMAIN entries : \A e \in DOMAIN entries : entries[e].parent = None <=> e = top
  /\ \A e \in DOMAIN entries :
       IF entries[e].parent = None THEN entries[e].kind = "dir"
       ELSE entries[e].parent \in DOMAIN entries /\ entries[entries[e].parent].kind = "dir"
  /\ \A some \in (SUBSET DOMAIN entries) \ {{}} :
       \E e \in some : entries[e].parent \notin some

IsPlace(p) ==
  /\ p.directories \in BOOLEAN
  /\ None \notin DOMAIN p.entries /\ IsTree(p.entries)
  /\ \A e \in DOMAIN p.entries : IsEntry(p.entries[e])

VARIABLES
  place,    \* [root, backend, directories, entries]: what is scanned, and how
  scan,     \* where scan_tree is: ready, walking, returned, or what it raised
  walk,     \* directories os.walk has still to visit
  targets,  \* entries of the visited directory still to examine
  entry,    \* the entry scan_file is at work on, or None
  rest,     \* its streams still to look at
  local,    \* findings of this scan_file
  findings, \* findings of the scan
  skipped,  \* the entries given to on_error
  held,     \* length of the last read
  examined, \* history: the entries scan_file returned from
  unlisted  \* history: the directories os.walk could not list

inFile   == <<entry, rest, local>>
scanVars == <<place, scan, walk, targets, inFile, findings, skipped, held, examined, unlisted>>

Entries     == place.entries
Names       == DOMAIN Entries
Top         == CHOOSE e \in Names : Entries[e].parent = None
Children(d) == {e \in Names : Entries[e].parent = d}

Outcomes == {"ready", "walking", "returned", "unavailable", "missing", "notdir"}

ScanInit(places) ==
  /\ place \in places
  /\ scan = "ready" /\ walk = {} /\ targets = {} /\ entry = None /\ rest = <<>>
  /\ local = <<>> /\ findings = <<>> /\ skipped = {} /\ held = 0
  /\ examined = {} /\ unlisted = {}

-----------------------------------------------------------------------------
\* scan_tree

Raises(what) ==
  /\ scan = "ready" /\ scan' = what
  /\ UNCHANGED <<place, walk, targets, inFile, findings, skipped, held, examined, unlisted>>

NoBackend  == place.backend = FALSE /\ Raises("unavailable")
NoSuchPath == place.backend /\ place.root = "missing" /\ Raises("missing")
NotAFolder == place.backend /\ place.root = "file" /\ Raises("notdir")

Begin ==
  /\ scan = "ready" /\ place.backend /\ place.root = "dir"
  /\ scan' = "walking" /\ walk' = {Top}
  /\ UNCHANGED <<place, targets, inFile, findings, skipped, held, examined, unlisted>>

Between == scan = "walking" /\ targets = {} /\ entry = None

\* Mutant of Descends: os.walk(root, followlinks=True).
DescendsLinks(d) ==
  {e \in Children(d) : Entries[e].kind = "dir"}
    \cup {Entries[e].to : e \in {x \in Children(d) : Entries[x].kind = "link"}}

\* A link to a directory is in _dirnames, and not followed.
Descends(d) == {e \in Children(d) : Entries[e].kind = "dir"}

\* Mutant of TargetsOf: the names of subdirectories are targets too.
TargetsWithDirs(d) ==
  (IF place.directories THEN {d} \cup {e \in Children(d) : Entries[e].kind # "file"} ELSE {})
    \cup {e \in Children(d) : Entries[e].kind = "file"}

TargetsOf(d) ==
  (IF place.directories THEN {d} ELSE {}) \cup {e \in Children(d) : Entries[e].kind = "file"}

\* for dirpath, _dirnames, filenames in os.walk(root)
Visit ==
  /\ Between
  /\ \E d \in walk :
       /\ walk' = (walk \ {d}) \cup Descends(d)
       /\ targets' = TargetsOf(d)
  /\ UNCHANGED <<place, scan, inFile, findings, skipped, held, examined, unlisted>>

\* os.walk has no onerror: it passes over a directory that cannot be listed.
PassOver ==
  /\ Between
  /\ \E d \in walk :
       /\ walk' = walk \ {d}
       /\ unlisted' = unlisted \cup {d}
  /\ UNCHANGED <<place, scan, targets, inFile, findings, skipped, held, examined>>

Return ==
  /\ Between /\ walk = {}
  /\ scan' = "returned"
  /\ UNCHANGED <<place, walk, targets, inFile, findings, skipped, held, examined, unlisted>>

-----------------------------------------------------------------------------
\* scan_file.  An entry's "lists" is the number of streams FindFirstStreamW and
\* FindNextStreamW deliver; they fail if it is not all of them.  Then the entry's times
\* are taken, and one that is no datetime raises what scan_file does not catch.

Refuses(e) == Entries[e].lists < Len(Entries[e].streams) \/ ~Entries[e].dated

\* on_error(target, exc)
Skip ==
  /\ scan = "walking" /\ entry = None
  /\ \E t \in targets :
       /\ Refuses(t)
       /\ skipped' = skipped \cup {t}
       /\ targets' = targets \ {t}
  /\ UNCHANGED <<place, scan, walk, inFile, findings, held, examined, unlisted>>

Examine ==
  /\ scan = "walking" /\ entry = None
  /\ \E t \in targets :
       /\ ~Refuses(t)
       /\ entry' = t /\ targets' = targets \ {t}
       /\ rest' = SubSeq(Entries[t].streams, 1, Entries[t].lists)
       /\ local' = <<>>
  /\ UNCHANGED <<place, scan, walk, findings, skipped, held, examined, unlisted>>

Stream    == Head(rest)
Secondary == rest # <<>> /\ ~Stream.primary

\* The timestamps a finding carries are left out.
Finding(read) == [entry |-> entry, stream |-> Stream, read |-> read]

Unreadable == local' = Append(local, Finding(FALSE))

\* The next iteration of the loop over the streams.
NextStream ==
  /\ rest' = Tail(rest)
  /\ UNCHANGED <<place, scan, walk, targets, entry, findings, skipped, examined, unlisted>>

PassPrimary ==
  /\ rest # <<>> /\ Stream.primary
  /\ NextStream /\ UNCHANGED <<local, held>>

TooBig ==
  /\ Secondary /\ Stream.size > Ceiling
  /\ Unreadable
  /\ NextStream /\ UNCHANGED held

ReadRefused ==
  /\ Secondary /\ Stream.size <= Ceiling /\ Stream.reads = "oserror"
  /\ Unreadable
  /\ NextStream /\ UNCHANGED held

\* Mutant of ReadRaises: the entry is passed over without a word.
ReadRaisesQuietly ==
  /\ Secondary /\ Stream.size <= Ceiling /\ Stream.reads = "raises"
  /\ entry' = None /\ rest' = <<>> /\ local' = <<>>
  /\ UNCHANGED <<place, scan, walk, targets, findings, skipped, held, examined, unlisted>>

\* Any other exception ends scan_file; what it had found is not kept.
ReadRaises ==
  /\ Secondary /\ Stream.size <= Ceiling /\ Stream.reads = "raises"
  /\ skipped' = skipped \cup {entry}
  /\ entry' = None /\ rest' = <<>> /\ local' = <<>>
  /\ UNCHANGED <<place, scan, walk, targets, findings, held, examined, unlisted>>

\* Mutant of BytesRead: fh.read().
BytesReadAll == Stream.real

\* fh.read(MAX_STREAM_BYTES + 1)
BytesRead == IF Stream.real > Ceiling + 1 THEN Ceiling + 1 ELSE Stream.real

ReadReturns ==
  /\ Secondary /\ Stream.size <= Ceiling /\ Stream.reads = "data"
  /\ held' = BytesRead
  /\ NextStream

\* The enumerated size was false.
UnderDeclared ==
  /\ ReadReturns /\ BytesRead > Ceiling
  /\ Unreadable

NotPrefetch ==
  /\ ReadReturns /\ BytesRead <= Ceiling /\ ~Stream.prefetch
  /\ UNCHANGED local

Recover ==
  /\ ReadReturns /\ BytesRead <= Ceiling /\ Stream.prefetch
  /\ local' = Append(local, Finding(TRUE))

\* findings.extend(scan_file(...))
FileScanned ==
  /\ entry # None /\ rest = <<>>
  /\ findings' = findings \o local
  /\ examined' = examined \cup {entry}
  /\ entry' = None /\ local' = <<>>
  /\ UNCHANGED <<place, scan, walk, targets, rest, skipped, held, unlisted>>

ScanStep ==
  \/ NoBackend \/ NoSuchPath \/ NotAFolder \/ Begin
  \/ Visit \/ PassOver \/ Return \/ Skip \/ Examine
  \/ PassPrimary \/ TooBig \/ ReadRefused \/ ReadRaises
  \/ UnderDeclared \/ NotPrefetch \/ Recover \/ FileScanned

-----------------------------------------------------------------------------
ScanTypeOK ==
  /\ scan \in Outcomes
  /\ walk \subseteq Names /\ targets \subseteq Names /\ entry \in Names \cup {None}
  /\ held \in Nat
  /\ \A k \in DOMAIN findings : findings[k].entry \in Names /\ findings[k].read \in BOOLEAN
  /\ skipped \subseteq Names /\ examined \subseteq Names /\ unlisted \subseteq Names

Returned == scan = "returned"

\* The entries the scan was asked for, and those of them that os.walk comes to:
\* under no directory it could not list, and no link.
Wanted == {e \in Names : Entries[e].kind = "file" \/ place.directories}

\* The entry itself and the directories it is under.
UpwardClosed(some) ==
  \A e \in some : Entries[e].parent # None => Entries[e].parent \in some

Above(e) ==
  {d \in Names : \A some \in SUBSET Names : e \in some /\ UpwardClosed(some) => d \in some}

Reached == {e \in Wanted : \A d \in Above(e) : d \notin unlisted /\ Entries[d].kind # "link"}

\* ads.py:440-442, "Skipping them without a word turns 'could not examine 40 files'
\* into 'no prefetch found'": of all that os.walk comes to, every entry was examined or
\* reported as not examined, whichever call failed, and never both.
EntriesAccounted ==
  Returned => \A e \in Reached : (e \in examined) # (e \in skipped)

\* What scan_file should say of a stream.
Expected(s) ==
  CASE s.primary -> "nothing"
    [] ~s.primary /\ (s.size > Ceiling \/ s.reads = "oserror" \/ s.real > Ceiling) -> "unread"
    [] OTHER -> IF s.prefetch THEN "read" ELSE "nothing"

StreamsOf(e) == {Entries[e].streams[k] : k \in DOMAIN Entries[e].streams}

\* ads.py:183-187 and 414-419: every prefetch in a stream of an examined entry is
\* found, once, and every stream that was not read is reported; none is lost to
\* an enumeration cut short, to a neighbour that failed, or to the ceiling.
FindingsExact ==
  Returned =>
    /\ Len(findings) = Cardinality({findings[k] : k \in DOMAIN findings})
    /\ {findings[k] : k \in DOMAIN findings}
         = UNION {{[entry |-> e, stream |-> s, read |-> Expected(s) = "read"] :
                     s \in {x \in StreamsOf(e) : Expected(x) # "nothing"}} : e \in examined}

\* ads.py:206-211: a stream that under-declares its size never pulls more than the
\* ceiling and one byte into memory.
ReadBounded == held <= Ceiling + 1

\* ads.py:404, "Raises if root cannot be walked", and 400-402, "an entry that refused to
\* be examined is not an entry that was examined and found clean": a scan that
\* returns has examined every entry of the tree or reported it.
CleanMeansLooked ==
  Returned => Wanted \subseteq examined \cup skipped
===============================================================================
