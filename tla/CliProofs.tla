------------------------------ MODULE CliProofs ------------------------------
(***************************************************************************)
(* What holds of pfcli for every tree, whatever its entries refuse, and    *)
(* for every command line: the ceiling on a read, the account of a scan of *)
(* alternate data streams, what it finds, and what a run says of its       *)
(* outputs and exits with; and, of any input at all, that the decoder the  *)
(* artifacts are unpacked with stays within it and within its register.    *)
(***************************************************************************)
EXTENDS Cli, FiniteSetTheorems, WellFoundedInduction, TLAPS

\* Only the scan changes what the scan has, and no step changes the folder.
LEMMA ScanAlone ==
  ASSUME [Next]_vars
  PROVE  /\ ScanStep \/ UNCHANGED scanVars
         /\ place' = place
<1>1. ScanStep \/ UNCHANGED scanVars
  <2>1. CASE Refuse \/ Dispatch
    BY <2>1 DEF Refuse, Dispatch, findVars, searchVars
  <2>2. CASE \/ ArgumentRaises \/ NextArgument \/ PassFile \/ Discover \/ ParseNothing
             \/ ParseRaises \/ Parse
    BY <2>2 DEF ArgumentRaises, NextArgument, PassFile, Discover, ParseNothing, ParseRaises, Parse,
                Leaves, Found, findVars, searchVars
  <2>3. CASE Scan
    BY <2>3 DEF Scan
  <2>4. CASE CannotLook \/ AdsNothing \/ Ads
    BY <2>4 DEF CannotLook, AdsNothing, Ads, Leaves, Found, findVars, searchVars
  <2>5. CASE ScanFolder \/ CorrelateVolumes
    BY <2>5 DEF ScanFolder, CorrelateVolumes
  <2>6. CASE FolderNotScanned \/ ArtifactsNothing \/ CorrelationRaises \/ Artifacts
    BY <2>6 DEF FolderNotScanned, ArtifactsNothing, CorrelationRaises, Artifacts, Leaves, Found,
                findVars, searchVars
  <2>7. CASE NoDb \/ WriteDb \/ DbFails
    BY <2>7 DEF NoDb, WriteDb, DbFails, findVars, searchVars
  <2>8. CASE NoCsv \/ WriteCsv \/ CsvFails \/ Leave
    BY <2>8 DEF NoCsv, WriteCsv, CsvFails, Leave, Leaves, findVars, searchVars
  <2>9. CASE UNCHANGED vars
    BY <2>9 DEF vars, findVars, searchVars
  <2> QED
    BY <2>1, <2>2, <2>3, <2>4, <2>5, <2>6, <2>7, <2>8, <2>9 DEF Next
<1>2. ScanStep => place' = place
  BY DEF ScanStep, NoBackend, NoSuchPath, NotAFolder, Raises, Begin, Visit, PassOver, Return,
         Skip, Examine, PassPrimary, TooBig, ReadRefused, ReadRaises, UnderDeclared, NotPrefetch,
         Recover, ReadReturns, NextStream, FileScanned
<1> QED
  BY <1>1, <1>2 DEF scanVars

-----------------------------------------------------------------------------
\* The tree.  Above(e) is e and Above(its parent), and no directory is above itself.

LEMMA TreeShape ==
  ASSUME IsPlace(place)
  PROVE  /\ Top \in Names /\ None \notin Names
         /\ \A e \in Names : Entries[e].parent = None <=> e = Top
         /\ \A e \in Names : e # Top =>
              Entries[e].parent \in Names /\ Entries[Entries[e].parent].kind = "dir"
         /\ Entries[Top].kind = "dir"
<1>1. PICK top \in Names : \A e \in Names : Entries[e].parent = None <=> e = top
  BY DEF IsPlace, IsTree, Names, Entries
<1>2. Top = top
  BY <1>1 DEF Top
<1> QED
  BY <1>1, <1>2 DEF IsPlace, IsTree, Names, Entries

LEMMA AboveShape ==
  ASSUME IsPlace(place), NEW e \in Names
  PROVE  /\ Above(e) \subseteq Names
         /\ e \in Above(e)
         /\ UpwardClosed(Above(e))
         /\ \A some \in SUBSET Names : e \in some /\ UpwardClosed(some) => Above(e) \subseteq some
<1>1. Above(e) \subseteq Names /\ e \in Above(e)
  BY DEF Above
<1>2. ASSUME NEW d \in Above(e), Entries[d].parent # None
      PROVE  Entries[d].parent \in Above(e)
  <2>1. d \in Names /\ Entries[d].parent \in Names
    BY <1>1, <1>2, TreeShape
  <2>2. ASSUME NEW some \in SUBSET Names, e \in some, UpwardClosed(some)
        PROVE  Entries[d].parent \in some
    BY <1>2, <2>2 DEF Above, UpwardClosed
  <2> QED
    BY <2>1, <2>2 DEF Above
<1> QED
  BY <1>1, <1>2 DEF Above, UpwardClosed

\* What is above a directory is above all that is in it.
LEMMA AboveTransitive ==
  ASSUME IsPlace(place), NEW e \in Names, NEW d \in Above(e)
  PROVE  Above(d) \subseteq Above(e)
BY AboveShape

LEMMA AboveTop ==
  ASSUME IsPlace(place)
  PROVE  Above(Top) = {Top}
<1>1. UpwardClosed({Top})
  BY TreeShape DEF UpwardClosed
<1> QED
  BY <1>1, TreeShape, AboveShape

LEMMA TopAbove ==
  ASSUME IsPlace(place), NEW e \in Names
  PROVE  Top \in Above(e)
<1>1. PICK d \in Above(e) : Entries[d].parent \notin Above(e)
  BY AboveShape DEF IsPlace, IsTree, Names, Entries
<1> QED
  BY <1>1, AboveShape, TreeShape DEF UpwardClosed

LEMMA AboveParent ==
  ASSUME IsPlace(place), NEW e \in Names, e # Top
  PROVE  /\ Entries[e].parent \in Names
         /\ Above(e) = {e} \cup Above(Entries[e].parent)
<1> DEFINE up == Entries[e].parent
           some == {e} \cup Above(up)
<1>1. up \in Names /\ up # None
  BY TreeShape
<1>2. some \in SUBSET Names /\ e \in some
  BY <1>1, AboveShape
<1>3. UpwardClosed(some)
  BY <1>1, AboveShape DEF UpwardClosed
<1>4. Above(e) \subseteq some
  BY <1>2, <1>3, AboveShape
<1>5. up \in Above(e) /\ e \in Above(e)
  BY <1>1, AboveShape DEF UpwardClosed
<1>6. Above(up) \subseteq Above(e)
  BY <1>5, AboveTransitive
<1> QED
  BY <1>1, <1>4, <1>5, <1>6

LEMMA NoCircle ==
  ASSUME IsPlace(place), NEW e \in Names, e # Top
  PROVE  e \notin Above(Entries[e].parent)
<1> DEFINE round == {d \in Names : e \in Above(d) /\ d \in Above(e)}
<1> SUFFICES ASSUME e \in Above(Entries[e].parent)
             PROVE  FALSE
  OBVIOUS
<1>1. e \in round
  BY AboveShape
<1>2. ASSUME NEW d \in round
      PROVE  Entries[d].parent \in round
  <2>1. d # Top
    BY AboveTop
  <2>2. Entries[d].parent \in Names /\ Above(d) = {d} \cup Above(Entries[d].parent)
    BY <2>1, AboveParent
  <2>3. e \in Above(Entries[d].parent)
    BY <2>2
  <2>4. Entries[d].parent \in Above(e)
    BY <2>1, AboveShape, TreeShape DEF UpwardClosed
  <2> QED
    BY <2>2, <2>3, <2>4
<1>3. PICK d \in round : Entries[d].parent \notin round
  BY <1>1 DEF IsPlace, IsTree, Names, Entries
<1> QED
  BY <1>2, <1>3

LEMMA AboveOneWay ==
  ASSUME IsPlace(place), NEW e \in Names, NEW d \in Above(e), e \in Above(d)
  PROVE  d = e
<1> SUFFICES ASSUME d # e
             PROVE  FALSE
  OBVIOUS
<1>1. e # Top
  BY AboveTop
<1>2. d \in Above(Entries[e].parent) /\ Entries[e].parent \in Names
  BY <1>1, AboveParent
<1>3. e \in Above(Entries[e].parent)
  BY <1>2, AboveTransitive
<1> QED
  BY <1>1, <1>3, NoCircle

\* On the way down from a directory to an entry under it there is a next one.
LEMMA ChildBelow ==
  ASSUME IsPlace(place), NEW e \in Names, NEW d \in Above(e), d # e
  PROVE  \E c \in Above(e) : Entries[c].parent = d
<1> SUFFICES ASSUME \A c \in Above(e) : Entries[c].parent # d
             PROVE  FALSE
  OBVIOUS
<1> DEFINE some == Above(e) \ {d}
<1>1. some \in SUBSET Names /\ e \in some
  BY AboveShape
<1>2. UpwardClosed(some)
  BY AboveShape DEF UpwardClosed
<1> QED
  BY <1>1, <1>2, AboveShape

LEMMA AboveDirectories ==
  ASSUME IsPlace(place), NEW e \in Names, NEW d \in Above(e), d # e
  PROVE  Entries[d].kind = "dir"
<1>1. PICK c \in Above(e) : Entries[c].parent = d
  BY ChildBelow
<1>2. c \in Names /\ d \in Names
  BY AboveShape
<1> QED
  BY <1>1, <1>2, TreeShape

\* All of this is of the folder alone.
LEMMA TreeKept ==
  ASSUME place' = place
  PROVE  /\ Names' = Names /\ Entries' = Entries /\ Wanted' = Wanted
         /\ \A e : Above(e)' = Above(e)
<1>1. Names' = Names /\ Entries' = Entries
  BY DEF Names, Entries
<1>2. Wanted' = Wanted
  BY <1>1 DEF Wanted
<1>3. \A some : UpwardClosed(some)' = UpwardClosed(some)
  BY <1>1 DEF UpwardClosed
<1> QED
  BY <1>1, <1>2, <1>3 DEF Above

-----------------------------------------------------------------------------
\* Between two entries, and before and after the walk, nothing is at hand.  The
\* streams still to look at are the last ones of the entry at hand, which refused none.
StreamCount(e) == Len(Entries[e].streams)

AtHand ==
  /\ scan # "walking" => walk = {} /\ targets = {} /\ entry = None
  /\ entry = None => rest = <<>> /\ local = <<>>
  /\ entry # None =>
       /\ entry \in Names
       /\ rest \in Seq(StreamsOf(entry)) /\ Len(rest) <= StreamCount(entry)
       /\ \A k \in 1 .. Len(rest) :
            rest[k] = Entries[entry].streams[(StreamCount(entry) - Len(rest)) + k]

\* The entries os.walk has given, wherever they are by now.
Dealt == targets \cup ({entry} \ {None}) \cup examined \cup skipped

\* No entry is given twice: those given are in one place each, and under no directory that
\* is still to visit; and of these none is under another.
Once ==
  /\ targets \subseteq Names /\ examined \subseteq Names /\ skipped \subseteq Names
  /\ walk \subseteq {d \in Names : Entries[d].kind = "dir"}
  /\ scan = "ready" => Dealt = {}
  /\ entry \notin targets \cup examined \cup skipped
  /\ targets \cap examined = {} /\ targets \cap skipped = {} /\ examined \cap skipped = {}
  /\ \A e \in Dealt : Above(e) \cap walk = {}
  /\ \A c, d \in walk : c \in Above(d) => c = d

\* None is forgotten: it has been given, or is under a directory still to visit.
Coverage ==
  scan \in {"walking", "returned"} =>
    \A e \in Reached : e \in Dealt \/ Above(e) \cap walk # {}

\* What scan_file should have said of the first n streams of an entry.
Told(e, n) ==
  {[entry |-> e, stream |-> Entries[e].streams[k], read |-> Expected(Entries[e].streams[k]) = "read"] :
     k \in {j \in 1 .. n : Expected(Entries[e].streams[j]) # "nothing"}}

AllFindings == UNION {Told(e, StreamCount(e)) : e \in Names}

Distinct(s) == \A j, k \in DOMAIN s : s[j] = s[k] => j = k

\* The findings are those of the entries examined, and those of the entry at hand are
\* of the streams looked at so far; no two are the same.
FindingsInv ==
  /\ findings \in Seq(AllFindings) /\ Distinct(findings)
  /\ ToSet(findings) = UNION {Told(e, StreamCount(e)) : e \in examined}
  /\ local \in Seq(AllFindings) /\ Distinct(local)
  /\ entry # None =>
       ToSet(local) = Told(entry, StreamCount(entry) - Len(rest))

ScanInv == IsPlace(place) /\ AtHand /\ ReadBounded /\ Once /\ Coverage /\ FindingsInv


-----------------------------------------------------------------------------
\* The entry at hand.

LEMMA Streams ==
  ASSUME IsPlace(place), NEW e \in Names
  PROVE  /\ StreamCount(e) \in Nat /\ DOMAIN Entries[e].streams = 1 .. StreamCount(e)
         /\ Entries[e].streams \in Seq(StreamsOf(e))
         /\ Entries[e].lists \in 0 .. StreamCount(e)
         /\ \A s \in StreamsOf(e) : s.primary \in BOOLEAN /\ s.prefetch \in BOOLEAN /\ s.size \in Nat
                                      /\ s.real \in Nat /\ s.reads \in {"data", "oserror", "raises"}
         /\ \A j, k \in 1 .. StreamCount(e) : Entries[e].streams[j] = Entries[e].streams[k] => j = k
<1>1. IsEntry(Entries[e])
  BY DEF IsPlace, Names, Entries
<1>2. Entries[e].streams \in Seq(StreamsOf(e))
  BY <1>1 DEF IsEntry, StreamsOf
<1>3. StreamCount(e) \in Nat /\ DOMAIN Entries[e].streams = 1 .. StreamCount(e)
  BY <1>2 DEF StreamCount
<1> QED
  BY <1>1, <1>2, <1>3 DEF IsEntry, StreamsOf, StreamCount

\* The next stream to look at, and what is left after it.
LEMMA NextAtHand ==
  ASSUME IsPlace(place), AtHand, rest # <<>>
  PROVE  /\ entry # None /\ entry \in Names
         /\ Len(rest) \in 1 .. StreamCount(entry)
         /\ Stream = Entries[entry].streams[(StreamCount(entry) - Len(rest)) + 1]
         /\ Stream \in StreamsOf(entry)
         /\ Tail(rest) \in Seq(StreamsOf(entry)) /\ Len(Tail(rest)) = Len(rest) - 1
         /\ \A k \in 1 .. Len(Tail(rest)) :
              Tail(rest)[k] = Entries[entry].streams[(StreamCount(entry) - Len(Tail(rest))) + k]
<1>1. entry # None /\ entry \in Names /\ rest \in Seq(StreamsOf(entry)) /\ Len(rest) <= StreamCount(entry)
  BY DEF AtHand
<1>2. StreamCount(entry) \in Nat
  BY <1>1, Streams
<1>3. Len(rest) \in Nat /\ Len(rest) >= 1
  BY <1>1
<1>4. Tail(rest) \in Seq(StreamsOf(entry)) /\ Len(Tail(rest)) = Len(rest) - 1
  BY <1>1, <1>3
<1>5. Stream = rest[1] /\ Stream \in StreamsOf(entry)
  BY <1>1, <1>3 DEF Stream
<1>6. rest[1] = Entries[entry].streams[(StreamCount(entry) - Len(rest)) + 1]
  BY <1>1, <1>3 DEF AtHand
<1>7. ASSUME NEW k \in 1 .. Len(Tail(rest))
      PROVE  Tail(rest)[k] = Entries[entry].streams[(StreamCount(entry) - Len(Tail(rest))) + k]
  <2>1. Tail(rest)[k] = rest[k + 1] /\ k + 1 \in 1 .. Len(rest)
    BY <1>1, <1>3, <1>4
  <2>2. rest[k + 1] = Entries[entry].streams[(StreamCount(entry) - Len(rest)) + (k + 1)]
    BY <1>1, <2>1 DEF AtHand
  <2>3. (StreamCount(entry) - Len(rest)) + (k + 1) = (StreamCount(entry) - Len(Tail(rest))) + k
    BY <1>2, <1>3, <1>4
  <2> QED
    BY <2>1, <2>2, <2>3
<1> QED
  BY <1>1, <1>2, <1>3, <1>4, <1>5, <1>6, <1>7

\* One stream is looked at, and said of it is what should be.
Looks ==
  /\ rest # <<>> /\ NextStream
  /\ local' = IF Expected(Stream) = "nothing" THEN local
              ELSE Append(local, Finding(Expected(Stream) = "read"))

LookStep == PassPrimary \/ TooBig \/ ReadRefused \/ UnderDeclared \/ NotPrefetch \/ Recover

LEMMA LooksAsExpected ==
  ASSUME IsPlace(place), AtHand, LookStep
  PROVE  Looks
<1>1. rest # <<>> /\ NextStream
  BY DEF LookStep, PassPrimary, TooBig, ReadRefused, UnderDeclared, NotPrefetch, Recover, Secondary,
         ReadReturns
<1>2. /\ Stream.primary \in BOOLEAN /\ Stream.prefetch \in BOOLEAN /\ Stream.size \in Nat
      /\ Stream.real \in Nat /\ Stream.reads \in {"data", "oserror", "raises"}
  BY <1>1, NextAtHand, Streams
<1>3. CASE PassPrimary
  BY <1>1, <1>3 DEF PassPrimary, Expected, Looks
<1>4. CASE TooBig \/ ReadRefused
  <2>1. Expected(Stream) = "unread"
    BY <1>4 DEF TooBig, ReadRefused, Secondary, Expected
  <2>2. local' = Append(local, Finding(FALSE))
    BY <1>4 DEF TooBig, ReadRefused, Unreadable
  <2> QED
    BY <1>1, <2>1, <2>2 DEF Looks
<1>5. CASE UnderDeclared
  <2>1. Stream.real > Ceiling
    BY <1>2, <1>5, CeilingAssumption DEF UnderDeclared, BytesRead
  <2>2. Expected(Stream) = "unread"
    BY <1>5, <2>1 DEF UnderDeclared, ReadReturns, Secondary, Expected
  <2>3. local' = Append(local, Finding(FALSE))
    BY <1>5 DEF UnderDeclared, Unreadable
  <2> QED
    BY <1>1, <2>2, <2>3 DEF Looks
<1>6. CASE NotPrefetch \/ Recover
  <2>a. BytesRead <= Ceiling /\ ReadReturns
    BY <1>6 DEF NotPrefetch, Recover
  <2>1. ~(Stream.real > Ceiling)
    BY <1>2, <2>a, CeilingAssumption DEF BytesRead
  <2>b. ~Stream.primary /\ Stream.size <= Ceiling /\ Stream.reads = "data"
    BY <2>a DEF ReadReturns, Secondary
  <2>2. ~Stream.primary /\ ~(Stream.size > Ceiling) /\ Stream.reads # "oserror"
    BY <1>2, <2>b, CeilingAssumption
  <2>3. Expected(Stream) = IF Stream.prefetch THEN "read" ELSE "nothing"
    BY <2>1, <2>2 DEF Expected
  <2>4. CASE NotPrefetch
    BY <1>1, <2>3, <2>4 DEF NotPrefetch, Looks
  <2>5. CASE Recover
    BY <1>1, <2>3, <2>5 DEF Recover, Looks
  <2> QED
    BY <1>6, <2>4, <2>5
<1> QED
  BY <1>3, <1>4, <1>5, <1>6 DEF LookStep

\* A step of the scan, by what it does to the account.
LEMMA ScanSteps ==
  ASSUME IsPlace(place), AtHand, ScanStep
  PROVE  \/ NoBackend \/ NoSuchPath \/ NotAFolder \/ Begin
         \/ Visit \/ PassOver \/ Return \/ Skip \/ Examine \/ Looks \/ ReadRaises \/ FileScanned
BY LooksAsExpected DEF ScanStep, LookStep

LEMMA HandStep ==
  ASSUME IsPlace(place), AtHand, Once, ScanStep
  PROVE  AtHand'
<1>0. place' = place /\ Names' = Names /\ Entries' = Entries
  <2>1. place' = place
    BY DEF ScanStep, NoBackend, NoSuchPath, NotAFolder, Raises, Begin, Visit, PassOver, Return,
           Skip, Examine, PassPrimary, TooBig, ReadRefused, ReadRaises, UnderDeclared, NotPrefetch,
           Recover, ReadReturns, NextStream, FileScanned
  <2> QED
    BY <2>1, TreeKept
<1>1. CASE NoBackend \/ NoSuchPath \/ NotAFolder
  BY <1>0, <1>1 DEF NoBackend, NoSuchPath, NotAFolder, Raises, AtHand, inFile, StreamCount,
                    StreamsOf
<1>2. CASE Begin \/ Visit \/ PassOver \/ Return \/ Skip
  BY <1>0, <1>2 DEF Begin, Visit, PassOver, Return, Skip, Between, AtHand, inFile, StreamCount,
                    StreamsOf
<1>3. CASE Looks
  <2>1. /\ entry' = entry /\ rest' = Tail(rest) /\ scan' = scan /\ scan = "walking"
    BY <1>3, NextAtHand DEF Looks, NextStream, AtHand
  <2>2. StreamCount(entry) \in Nat
    BY <1>3, NextAtHand, Streams DEF Looks
  <2> QED
    BY <1>0, <1>3, <2>1, <2>2, NextAtHand DEF Looks, AtHand, StreamCount, StreamsOf
<1>4. CASE ReadRaises \/ FileScanned
  BY <1>0, <1>4 DEF ReadRaises, FileScanned, AtHand
<1>5. CASE Examine
  <2>1. PICK t \in targets : /\ ~Refuses(t) /\ entry' = t
                             /\ rest' = SubSeq(Entries[t].streams, 1, Entries[t].lists)
    BY <1>5 DEF Examine
  <2>2. t \in Names
    BY DEF Once
  <2>3. /\ StreamCount(t) \in Nat /\ Entries[t].streams \in Seq(StreamsOf(t))
        /\ Entries[t].lists = StreamCount(t)
    BY <2>1, <2>2, Streams DEF Refuses, StreamCount
  <2>4. Len(Entries[t].streams) = StreamCount(t)
    BY DEF StreamCount
  <2>5. rest' = Entries[t].streams
    BY <2>1, <2>3, <2>4
  <2>6. scan' = "walking" /\ t # None
    BY <1>5, <2>2, TreeShape DEF Examine
  <2>7. \A k \in 1 .. Len(rest') : rest'[k] = Entries[t].streams[(StreamCount(t) - Len(rest')) + k]
    BY <2>3, <2>4, <2>5
  <2>8. StreamCount(entry)' = StreamCount(t) /\ StreamsOf(entry)' = StreamsOf(t)
    BY <1>0, <2>1 DEF StreamCount, StreamsOf
  <2>9. Entries'[entry'].streams = Entries[t].streams
    BY <1>0, <2>1
  <2>10. Len(rest') <= StreamCount(t)
    BY <2>3, <2>4, <2>5
  <2> QED
    BY <1>0, <2>1, <2>2, <2>3, <2>5, <2>6, <2>7, <2>8, <2>9, <2>10 DEF AtHand
<1> QED
  BY <1>1, <1>2, <1>3, <1>4, <1>5, ScanSteps

LEMMA PlaceKept ==
  ASSUME ScanStep \/ UNCHANGED scanVars
  PROVE  place' = place
BY DEF ScanStep, NoBackend, NoSuchPath, NotAFolder, Raises, Begin, Visit, PassOver, Return,
       Skip, Examine, PassPrimary, TooBig, ReadRefused, ReadRaises, UnderDeclared, NotPrefetch,
       Recover, ReadReturns, NextStream, FileScanned, scanVars

-----------------------------------------------------------------------------
\* What is read.

LEMMA CeilingStep ==
  ASSUME IsPlace(place), AtHand, ReadBounded, ScanStep \/ UNCHANGED scanVars
  PROVE  ReadBounded'
<1>1. CASE UnderDeclared \/ NotPrefetch \/ Recover
  <2>1. rest # <<>> /\ held' = BytesRead
    BY <1>1 DEF UnderDeclared, NotPrefetch, Recover, ReadReturns, Secondary
  <2>2. Stream.real \in Nat
    BY <2>1, NextAtHand, Streams
  <2> QED
    BY <2>1, <2>2, CeilingAssumption DEF BytesRead, ReadBounded
<1>2. CASE ~(UnderDeclared \/ NotPrefetch \/ Recover)
  <2>1. held' = held
    BY <1>2 DEF ScanStep, NoBackend, NoSuchPath, NotAFolder, Raises, Begin, Visit, PassOver, Return,
                Skip, Examine, PassPrimary, TooBig, ReadRefused, ReadRaises, FileScanned, scanVars
  <2> QED
    BY <2>1 DEF ReadBounded
<1> QED
  BY <1>1, <1>2

-----------------------------------------------------------------------------
\* The walk gives every entry once.

LEMMA VisitOnce ==
  ASSUME IsPlace(place), Once, Visit
  PROVE  Once'
<1> USE PlaceKept, TreeKept
<1>0. place' = place /\ Names' = Names /\ Entries' = Entries /\ \A e : Above(e)' = Above(e)
  BY DEF Visit
<1>1. PICK d \in walk : walk' = (walk \ {d}) \cup Descends(d) /\ targets' = TargetsOf(d)
  BY DEF Visit
<1>2. /\ targets = {} /\ entry = None /\ entry' = None /\ examined' = examined /\ skipped' = skipped
      /\ scan = "walking" /\ scan' = "walking"
  BY DEF Visit, Between, inFile
<1>3. d \in Names /\ Entries[d].kind = "dir" /\ Above(d) \subseteq Names /\ d \in Above(d)
  BY AboveShape DEF Once
\* What is in the directory is under it, and not above it.
<1>4. ASSUME NEW c \in Children(d)
      PROVE  /\ c \in Names /\ Above(c) = {c} \cup Above(d) /\ c \notin Above(d)
  <2>1. c \in Names /\ Entries[c].parent = d
    BY DEF Children
  <2>2. c # Top
    BY <1>3, <2>1, TreeShape
  <2> QED
    BY <2>1, <2>2, AboveParent, NoCircle
<1>5. ASSUME NEW x \in walk, x \in Above(d) PROVE x = d
  BY <1>5 DEF Once
<1>6. Above(d) \cap walk' = {}
  BY <1>1, <1>4, <1>5 DEF Descends
<1>7. walk' \subseteq {x \in Names : Entries[x].kind = "dir"}
  BY <1>1, <1>4 DEF Descends, Once
<1>8. ASSUME NEW t \in targets'
      PROVE  t \in Names /\ d \in Above(t) /\ Above(t) \cap walk' = {}
  <2>1. CASE t = d
    BY <1>3, <1>6, <2>1
  <2>2. CASE t \in Children(d) /\ Entries[t].kind = "file"
    <3>1. t \notin walk'
      BY <1>7, <2>2
    <3> QED
      BY <1>3, <1>4, <1>6, <2>2, <3>1
  <2> QED
    BY <1>1, <2>1, <2>2 DEF TargetsOf
<1>9. ASSUME NEW e \in examined \cup skipped
      PROVE  e \notin targets' /\ Above(e) \cap walk' = {}
  <2>1. e \in Names /\ Above(e) \cap walk = {} /\ UpwardClosed(Above(e)) /\ Above(e) \subseteq Names
    BY AboveShape DEF Once, Dealt
  <2>2. d \notin Above(e)
    BY <2>1
  <2>3. ASSUME NEW c \in Descends(d) PROVE c \notin Above(e)
    <3>1. c \in Names /\ Entries[c].parent = d
      BY DEF Descends, Children
    <3>2. d # None
      BY <1>3, TreeShape
    <3> QED
      BY <2>1, <2>2, <3>1, <3>2 DEF UpwardClosed
  <2> QED
    BY <1>1, <1>8, <2>1, <2>2, <2>3
<1>10. ASSUME NEW x \in walk', NEW y \in walk', x \in Above(y) PROVE x = y
  <2>1. CASE y \in walk
    <3>1. y # d
      BY <1>6, <1>10, <2>1
    <3>2. d \notin Above(y)
      BY <2>1, <3>1 DEF Once
    <3>3. UpwardClosed(Above(y))
      BY <2>1, AboveShape DEF Once
    <3>4. CASE x \in Children(d)
      BY <1>3, <1>10, <3>2, <3>3, <3>4, TreeShape DEF UpwardClosed, Children
    <3>5. CASE x \in walk
      BY <1>10, <2>1, <3>5 DEF Once
    <3> QED
      BY <1>1, <3>4, <3>5 DEF Descends
  <2>2. CASE y \in Children(d)
    BY <1>4, <1>6, <1>10, <2>2
  <2> QED
    BY <1>1, <2>1, <2>2 DEF Descends
<1>11. Dealt' = targets' \cup examined \cup skipped
  BY <1>2 DEF Dealt
<1>12. None \notin Names
  BY TreeShape
<1> QED
  BY <1>0, <1>2, <1>7, <1>8, <1>9, <1>10, <1>11, <1>12 DEF Once

LEMMA OnceStep ==
  ASSUME IsPlace(place), AtHand, Once, ScanStep \/ UNCHANGED scanVars
  PROVE  Once'
<1>0. place' = place /\ Names' = Names /\ Entries' = Entries /\ \A e : Above(e)' = Above(e)
  BY PlaceKept, TreeKept
<1>1. CASE NoBackend \/ NoSuchPath \/ NotAFolder
  BY <1>0, <1>1 DEF NoBackend, NoSuchPath, NotAFolder, Raises, inFile, AtHand, Once, Dealt
<1>2. CASE Begin
  <2>1. Dealt' = {} /\ walk' = {Top}
    BY <1>2 DEF Begin, inFile, Once, Dealt
  <2> QED
    BY <1>0, <1>2, <2>1, TreeShape DEF Begin, inFile, Once
<1>3. CASE Visit
  BY <1>3, VisitOnce
<1>4. CASE PassOver \/ Return
  <2>1. walk' \subseteq walk /\ Dealt' = Dealt
    BY <1>4 DEF PassOver, Return, inFile, Dealt
  <2>2. /\ scan' # "ready" /\ targets' = targets /\ entry' = entry /\ examined' = examined
        /\ skipped' = skipped
    BY <1>4 DEF PassOver, Return, Between, inFile
  <2> QED
    BY <1>0, <2>1, <2>2 DEF Once
<1>5. CASE Skip
  <2>1. PICK t \in targets : skipped' = skipped \cup {t} /\ targets' = targets \ {t}
    BY <1>5 DEF Skip
  <2>2. Dealt' = Dealt
    BY <1>5, <2>1 DEF Skip, inFile, Dealt
  <2>3. /\ scan' # "ready" /\ walk' = walk /\ entry' = entry /\ examined' = examined
        /\ entry \notin targets
    BY <1>5 DEF Skip, inFile, Once
  <2> QED
    BY <1>0, <2>1, <2>2, <2>3 DEF Once
<1>6. CASE Examine
  <2>1. PICK t \in targets : entry' = t /\ targets' = targets \ {t}
    BY <1>6 DEF Examine
  <2>2. /\ scan' # "ready" /\ walk' = walk /\ skipped' = skipped /\ examined' = examined
        /\ entry = None /\ t # None
    BY <1>6, TreeShape DEF Examine, Once
  <2>3. Dealt' = Dealt
    BY <2>1, <2>2 DEF Dealt
  <2> QED
    BY <1>0, <2>1, <2>2, <2>3 DEF Once
<1>7. CASE Looks \/ UNCHANGED scanVars
  <2>1. /\ scan' = scan /\ walk' = walk /\ targets' = targets /\ entry' = entry /\ skipped' = skipped
        /\ examined' = examined
    BY <1>7 DEF Looks, NextStream, scanVars, inFile
  <2>2. Dealt' = Dealt
    BY <2>1 DEF Dealt
  <2> QED
    BY <1>0, <2>1, <2>2 DEF Once
<1>8. CASE ReadRaises \/ FileScanned
  <2>1. entry # None /\ entry \in Names /\ scan = "walking"
    BY <1>8 DEF ReadRaises, FileScanned, Secondary, AtHand
  <2>2. /\ scan' = scan /\ walk' = walk /\ targets' = targets /\ entry' = None
        /\ \/ skipped' = skipped \cup {entry} /\ examined' = examined
           \/ examined' = examined \cup {entry} /\ skipped' = skipped
    BY <1>8 DEF ReadRaises, FileScanned
  <2>3. Dealt' = Dealt
    BY <2>1, <2>2 DEF Dealt
  <2>4. None \notin Names
    BY TreeShape
  <2> QED
    BY <1>0, <2>1, <2>2, <2>3, <2>4 DEF Once
<1> QED
  BY <1>1, <1>2, <1>3, <1>4, <1>5, <1>6, <1>7, <1>8, ScanSteps

-----------------------------------------------------------------------------
\* The walk forgets none.

LEMMA ReachedShrinks ==
  ASSUME place' = place, unlisted \subseteq unlisted'
  PROVE  Reached' \subseteq Reached
BY TreeKept DEF Reached

LEMMA CoverageStep ==
  ASSUME IsPlace(place), AtHand, Once, Coverage, ScanStep \/ UNCHANGED scanVars
  PROVE  Coverage'
<1>0. /\ place' = place /\ Names' = Names /\ Entries' = Entries
      /\ \A e : Above(e)' = Above(e)
  BY PlaceKept, TreeKept
<1>1. CASE NoBackend \/ NoSuchPath \/ NotAFolder
  BY <1>1 DEF NoBackend, NoSuchPath, NotAFolder, Raises, Coverage
<1>2. CASE Begin
  <2>1. walk' = {Top} /\ unlisted' = unlisted
    BY <1>2 DEF Begin
  <2>2. \A e \in Reached' : e \in Names
    BY <1>0, <2>1, ReachedShrinks DEF Reached, Wanted
  <2> QED
    BY <1>0, <2>1, <2>2, TopAbove DEF Coverage
<1>3. CASE Visit
  <2>1. PICK d \in walk : walk' = (walk \ {d}) \cup Descends(d) /\ targets' = TargetsOf(d)
    BY <1>3 DEF Visit
  <2>2. /\ targets = {} /\ entry' = entry /\ examined' = examined /\ skipped' = skipped
        /\ unlisted' = unlisted /\ scan = "walking"
    BY <1>3 DEF Visit, Between, inFile
  <2>3. Dealt' = Dealt \cup TargetsOf(d)
    BY <2>1, <2>2 DEF Dealt
  <2>4. ASSUME NEW e \in Reached, e \notin Dealt, d \in Above(e)
        PROVE  e \in TargetsOf(d) \/ Above(e) \cap Descends(d) # {}
    <3>1. e \in Names /\ (Entries[e].kind = "file" \/ place.directories)
      BY DEF Reached, Wanted
    <3>2. CASE e = d
      <4>1. Entries[d].kind = "dir"
        BY DEF Once
      <4> QED
        BY <3>1, <3>2, <4>1 DEF TargetsOf
    <3>3. CASE e # d
      <4>1. PICK c \in Above(e) : Entries[c].parent = d
        BY <2>4, <3>1, <3>3, ChildBelow
      <4>2. c \in Children(d) /\ IsEntry(Entries[c]) /\ Entries[c].kind # "link"
        BY <3>1, <4>1, AboveShape DEF Children, Reached, IsPlace, Names, Entries
      <4>3. CASE Entries[c].kind = "dir"
        BY <4>1, <4>2, <4>3 DEF Descends
      <4>4. CASE Entries[c].kind = "file"
        <5>1. c = e
          BY <3>1, <4>4, AboveDirectories
        <5> QED
          BY <4>2, <4>4, <5>1 DEF TargetsOf
      <4> QED
        BY <4>2, <4>3, <4>4 DEF IsEntry
    <3> QED
      BY <3>2, <3>3
  <2>5. \A e \in Reached' : e \in Dealt' \/ Above(e) \cap walk' # {}
    <3>1. SUFFICES ASSUME NEW e \in Reached', e \notin Dealt'
                   PROVE  Above(e) \cap walk' # {}
      OBVIOUS
    <3>2. e \in Reached /\ e \notin Dealt
      BY <1>0, <2>2, <2>3, <3>1, ReachedShrinks
    <3>3. PICK x \in Above(e) \cap walk : TRUE
      BY <2>2, <3>2 DEF Coverage
    <3>4. CASE x = d
      BY <2>1, <2>3, <2>4, <3>1, <3>2, <3>3, <3>4
    <3>5. CASE x # d
      BY <2>1, <3>3, <3>5
    <3> QED
      BY <3>4, <3>5
  <2> QED
    BY <1>0, <2>5 DEF Coverage
<1>4. CASE PassOver
  <2>1. PICK d \in walk : walk' = walk \ {d} /\ unlisted' = unlisted \cup {d}
    BY <1>4 DEF PassOver
  <2>2. Dealt' = Dealt /\ scan = "walking"
    BY <1>4 DEF PassOver, Between, inFile, Dealt
  <2>3. ASSUME NEW e \in Reached' PROVE e \in Dealt' \/ Above(e)' \cap walk' # {}
    <3>1. e \in Reached /\ d \notin Above(e)
      BY <1>0, <2>1, ReachedShrinks DEF Reached
    <3>2. e \in Dealt \/ Above(e) \cap walk # {}
      BY <2>2, <3>1 DEF Coverage
    <3> QED
      BY <1>0, <2>1, <2>2, <3>1, <3>2
  <2> QED
    BY <2>3 DEF Coverage
<1>5. CASE Return \/ Skip \/ Examine \/ Looks \/ ReadRaises \/ FileScanned \/ UNCHANGED scanVars
  <2>1. /\ unlisted' = unlisted /\ walk' = walk
        /\ scan' \in {"walking", "returned"} => scan \in {"walking", "returned"}
    BY <1>5 DEF Return, Between, Skip, Examine, Looks, NextStream, ReadRaises, FileScanned, scanVars
  <2>2. Dealt' = Dealt
    <3>1. CASE Return \/ Looks \/ UNCHANGED scanVars
      BY <3>1 DEF Return, Looks, NextStream, scanVars, inFile, Dealt
    <3>2. CASE Skip
      BY <3>2 DEF Skip, inFile, Dealt
    <3>3. CASE Examine
      <4>1. PICK t \in targets : entry' = t /\ targets' = targets \ {t}
        BY <3>3 DEF Examine
      <4>2. entry = None /\ skipped' = skipped /\ examined' = examined /\ t # None
        BY <3>3, TreeShape DEF Examine, Once
      <4> QED
        BY <4>1, <4>2 DEF Dealt
    <3>4. CASE ReadRaises \/ FileScanned
      <4>1. entry # None
        BY <3>4 DEF ReadRaises, FileScanned, Secondary, AtHand
      <4>2. /\ targets' = targets /\ entry' = None
            /\ \/ skipped' = skipped \cup {entry} /\ examined' = examined
               \/ examined' = examined \cup {entry} /\ skipped' = skipped
        BY <3>4 DEF ReadRaises, FileScanned
      <4> QED
        BY <4>1, <4>2 DEF Dealt
    <3> QED
      BY <1>5, <3>1, <3>2, <3>3, <3>4
  <2> QED
    BY <1>0, <2>1, <2>2, ReachedShrinks DEF Coverage
<1> QED
  BY <1>1, <1>2, <1>3, <1>4, <1>5, ScanSteps

-----------------------------------------------------------------------------
\* What is found.

LEMMA DistinctAppend ==
  ASSUME NEW S, NEW s \in Seq(S), NEW x \in S
  PROVE  /\ Append(s, x) \in Seq(S)
         /\ ToSet(Append(s, x)) = ToSet(s) \cup {x}
         /\ Distinct(s) /\ x \notin ToSet(s) => Distinct(Append(s, x))
<1> DEFINE t == Append(s, x)
<1>1. /\ t \in Seq(S) /\ DOMAIN s = 1 .. Len(s) /\ DOMAIN t = 1 .. (Len(s) + 1) /\ Len(s) \in Nat
      /\ \A k \in 1 .. Len(s) : t[k] = s[k]
      /\ t[Len(s) + 1] = x
  OBVIOUS
<1> HIDE DEF t
<1>2. \A k \in DOMAIN t : k \in DOMAIN s \/ k = Len(s) + 1
  BY <1>1
<1>3. Len(s) + 1 \in DOMAIN t /\ \A k \in DOMAIN s : k \in DOMAIN t
  BY <1>1
<1>4. ToSet(t) = ToSet(s) \cup {x}
  BY <1>1, <1>2, <1>3 DEF ToSet
<1>5. ASSUME Distinct(s), x \notin ToSet(s) PROVE Distinct(t)
  BY <1>1, <1>2, <1>5 DEF Distinct, ToSet
<1> QED
  BY <1>1, <1>4, <1>5 DEF t

LEMMA DistinctConcat ==
  ASSUME NEW S, NEW s \in Seq(S), NEW t \in Seq(S)
  PROVE  /\ s \o t \in Seq(S)
         /\ ToSet(s \o t) = ToSet(s) \cup ToSet(t)
         /\ Distinct(s) /\ Distinct(t)
              /\ ToSet(s) \cap ToSet(t) = {} => Distinct(s \o t)
<1> DEFINE u == s \o t
<1>1. /\ u \in Seq(S) /\ Len(s) \in Nat /\ Len(t) \in Nat
      /\ DOMAIN s = 1 .. Len(s) /\ DOMAIN t = 1 .. Len(t) /\ DOMAIN u = 1 .. (Len(s) + Len(t))
      /\ \A k \in 1 .. (Len(s) + Len(t)) : u[k] = IF k <= Len(s) THEN s[k] ELSE t[k - Len(s)]
  OBVIOUS
<1> HIDE DEF u
<1>2. \A k \in DOMAIN u :
        \/ k \in DOMAIN s /\ u[k] = s[k]
        \/ k - Len(s) \in DOMAIN t /\ u[k] = t[k - Len(s)]
  BY <1>1
<1>3. \A k \in DOMAIN s : k \in DOMAIN u /\ u[k] = s[k]
  BY <1>1
<1>4. ASSUME NEW k \in DOMAIN t PROVE k + Len(s) \in DOMAIN u /\ u[k + Len(s)] = t[k]
  <2>1. k + Len(s) \in 1 .. (Len(s) + Len(t)) /\ ~(k + Len(s) <= Len(s)) /\ (k + Len(s)) - Len(s) = k
    BY <1>1
  <2> QED
    BY <1>1, <2>1
<1>5. ToSet(u) = ToSet(s) \cup ToSet(t)
  BY <1>2, <1>3, <1>4 DEF ToSet
<1>6. ASSUME Distinct(s), Distinct(t), ToSet(s) \cap ToSet(t) = {}
      PROVE  Distinct(u)
  <2>1. SUFFICES ASSUME NEW j \in DOMAIN u, NEW k \in DOMAIN u, u[j] = u[k]
                 PROVE  j = k
    BY DEF Distinct
  <2>2. j \in Int /\ k \in Int
    BY <1>1
  <2>3. CASE j \in DOMAIN s /\ u[j] = s[j] /\ k \in DOMAIN s /\ u[k] = s[k]
    BY <1>6, <2>1, <2>3 DEF Distinct
  <2>4. CASE /\ j - Len(s) \in DOMAIN t /\ u[j] = t[j - Len(s)]
             /\ k - Len(s) \in DOMAIN t /\ u[k] = t[k - Len(s)]
    <3>1. j - Len(s) = k - Len(s)
      BY <1>6, <2>1, <2>4 DEF Distinct
    <3> QED
      BY <1>1, <2>2, <3>1
  <2>5. CASE j \in DOMAIN s /\ u[j] = s[j] /\ k - Len(s) \in DOMAIN t /\ u[k] = t[k - Len(s)]
    BY <1>6, <2>1, <2>5 DEF ToSet
  <2>6. CASE k \in DOMAIN s /\ u[k] = s[k] /\ j - Len(s) \in DOMAIN t /\ u[j] = t[j - Len(s)]
    BY <1>6, <2>1, <2>6 DEF ToSet
  <2> QED
    BY <1>2, <2>3, <2>4, <2>5, <2>6
<1> QED
  BY <1>1, <1>5, <1>6 DEF u

\* A sequence without a repetition is as long as the set of what is in it.
LEMMA DistinctCounts ==
  ASSUME NEW S, NEW s \in Seq(S), Distinct(s)
  PROVE  Len(s) = Cardinality(ToSet(s))
<1> DEFINE what == ToSet(s)
<1>1. Len(s) \in Nat /\ DOMAIN s = 1 .. Len(s)
  OBVIOUS
<1>2. s \in Bijection(1 .. Len(s), what)
  BY <1>1 DEF Distinct, Bijection, Injection, Surjection, IsInjective, ToSet
<1>3. IsFiniteSet(1 .. Len(s)) /\ Cardinality(1 .. Len(s)) = Len(s)
  <2>1. 1 \in Int /\ Len(s) \in Int /\ (1 > Len(s) => Len(s) = 0) /\ Len(s) - 1 + 1 = Len(s)
    BY <1>1
  <2> QED
    BY <2>1, FS_Interval
<1>4. ExistsBijection(1 .. Len(s), what)
  BY <1>2 DEF ExistsBijection
<1> QED
  BY <1>3, <1>4, FS_Bijection

\* One more stream looked at is what scan_file says of it more.
LEMMA ToldNext ==
  ASSUME IsPlace(place), NEW e \in Names, NEW n \in Nat, n + 1 <= StreamCount(e)
  PROVE  Told(e, n + 1) =
           Told(e, n) \cup
             (IF Expected(Entries[e].streams[n + 1]) = "nothing" THEN {}
              ELSE {[entry |-> e, stream |-> Entries[e].streams[n + 1],
                     read |-> Expected(Entries[e].streams[n + 1]) = "read"]})
<1>1. \A j : j \in 1 .. (n + 1) <=> j \in 1 .. n \/ j = n + 1
  OBVIOUS
<1> QED
  BY <1>1 DEF Told

LEMMA ToldFacts ==
  ASSUME IsPlace(place), NEW e \in Names
  PROVE  /\ Told(e, 0) = {}
         /\ \A n \in 0 .. StreamCount(e) : Told(e, n) \subseteq AllFindings
         /\ \A n : \A f \in Told(e, n) : f.entry = e
<1>1. StreamCount(e) \in Nat
  BY Streams
<1>2. Told(e, 0) = {}
  BY DEF Told
<1>3. \A n \in 0 .. StreamCount(e) : Told(e, n) \subseteq Told(e, StreamCount(e))
  BY <1>1 DEF Told
<1>4. \A n \in 0 .. StreamCount(e) : Told(e, n) \subseteq AllFindings
  BY <1>3 DEF AllFindings
<1> QED
  BY <1>2, <1>4 DEF Told

LEMMA ToldKept ==
  ASSUME place' = place
  PROVE  /\ \A e : StreamCount(e)' = StreamCount(e)
         /\ \A e, n : Told(e, n)' = Told(e, n)
         /\ AllFindings' = AllFindings
<1>1. Names' = Names /\ Entries' = Entries
  BY TreeKept
<1>2. \A e : StreamCount(e)' = StreamCount(e)
  BY <1>1 DEF StreamCount
<1>3. \A e, n : Told(e, n)' = Told(e, n)
  BY <1>1 DEF Told
<1> QED
  BY <1>1, <1>2, <1>3 DEF AllFindings

LEMMA LooksFindings ==
  ASSUME IsPlace(place), AtHand, FindingsInv, Looks
  PROVE  FindingsInv'
<1> DEFINE n == StreamCount(entry) - Len(rest)
           next == Finding(Expected(Stream) = "read")
<1>1. /\ entry # None /\ entry \in Names /\ Len(rest) \in 1 .. StreamCount(entry)
      /\ Stream = Entries[entry].streams[n + 1] /\ Len(Tail(rest)) = Len(rest) - 1
  BY NextAtHand DEF Looks
<1>2. StreamCount(entry) \in Nat
  BY <1>1, Streams
<1>3. n \in Nat /\ n + 1 <= StreamCount(entry) /\ n + 1 = StreamCount(entry) - Len(Tail(rest))
  BY <1>1, <1>2
<1>4. /\ place' = place /\ entry' = entry /\ findings' = findings /\ examined' = examined
      /\ rest' = Tail(rest)
  BY DEF Looks, NextStream
<1>5. next = [entry |-> entry, stream |-> Entries[entry].streams[n + 1],
              read |-> Expected(Entries[entry].streams[n + 1]) = "read"]
  BY <1>1 DEF Finding
<1>6. ToSet(local) = Told(entry, n)
  BY <1>1 DEF FindingsInv
<1> HIDE DEF n, next
<1>7. Told(entry, n + 1)
        = Told(entry, n) \cup (IF Expected(Stream) = "nothing" THEN {} ELSE {next})
  BY <1>1, <1>3, <1>5, ToldNext
<1>8. /\ local' \in Seq(AllFindings) /\ Distinct(local')
      /\ ToSet(local') = Told(entry, n + 1)
  <2>1. CASE Expected(Stream) = "nothing"
    BY <1>6, <1>7, <2>1 DEF Looks, FindingsInv
  <2>2. CASE Expected(Stream) # "nothing"
    <3>1. local' = Append(local, next)
      BY <2>2 DEF Looks, next
    <3>2. next \in AllFindings
      <4>1. n + 1 \in 0 .. StreamCount(entry)
        BY <1>2, <1>3
      <4> QED
        BY <1>1, <1>7, <2>2, <4>1, ToldFacts
    <3>3. next \notin Told(entry, n)
      <4>1. SUFFICES ASSUME next \in Told(entry, n)
                     PROVE  FALSE
        OBVIOUS
      <4>2. PICK k \in 1 .. n : next.stream = Entries[entry].streams[k]
        BY <4>1 DEF Told
      <4>3. next.stream = Entries[entry].streams[n + 1]
        BY <1>5
      <4>4. k \in 1 .. StreamCount(entry) /\ n + 1 \in 1 .. StreamCount(entry) /\ k # n + 1
        BY <1>2, <1>3
      <4> QED
        BY <1>1, <4>2, <4>3, <4>4, Streams
    <3>4. local \in Seq(AllFindings) /\ Distinct(local)
      BY DEF FindingsInv
    <3> QED
      BY <1>6, <1>7, <2>2, <3>1, <3>2, <3>3, <3>4, DistinctAppend DEF ToSet
  <2> QED
    BY <2>1, <2>2
<1>9. /\ findings \in Seq(AllFindings) /\ Distinct(findings)
      /\ ToSet(findings) = UNION {Told(e, StreamCount(e)) : e \in examined}
  BY DEF FindingsInv
<1>10. (UNION {Told(e, StreamCount(e)) : e \in examined})'
         = UNION {Told(e, StreamCount(e)) : e \in examined}
  BY <1>4, ToldKept
<1>11. /\ Distinct(findings)' /\ Distinct(local)' /\ AllFindings' = AllFindings
       /\ ToSet(findings') = ToSet(findings)
  BY <1>4, <1>8, <1>9, ToldKept DEF Distinct
<1>12. Told(entry, StreamCount(entry) - Len(rest))' = Told(entry, n + 1)
  BY <1>3, <1>4, ToldKept
<1> QED
  BY <1>4, <1>8, <1>9, <1>10, <1>11, <1>12 DEF FindingsInv

LEMMA FileFindings ==
  ASSUME IsPlace(place), AtHand, Once, FindingsInv, FileScanned
  PROVE  FindingsInv'
<1>1. /\ entry # None /\ entry \in Names /\ rest = <<>> /\ place' = place /\ entry' = None
      /\ findings' = findings \o local /\ local' = <<>> /\ examined' = examined \cup {entry}
  BY DEF FileScanned, AtHand
<1>2. StreamCount(entry) \in Nat /\ StreamCount(entry) - Len(rest) = StreamCount(entry)
  BY <1>1, Streams
<1>3. ToSet(local) = Told(entry, StreamCount(entry))
  BY <1>1, <1>2 DEF FindingsInv
<1>4. examined \subseteq Names /\ entry \notin examined
  BY DEF Once
<1>5. ToSet(findings) \cap ToSet(local) = {}
  <2>1. \A f \in Told(entry, StreamCount(entry)) : f.entry = entry
    BY <1>1, ToldFacts
  <2>2. \A e \in examined : \A f \in Told(e, StreamCount(e)) : f.entry = e
    BY <1>4, ToldFacts
  <2>3. ToSet(findings) = UNION {Told(e, StreamCount(e)) : e \in examined}
    BY DEF FindingsInv
  <2> QED
    BY <1>3, <1>4, <2>1, <2>2, <2>3
<1>6. /\ findings \in Seq(AllFindings) /\ Distinct(findings)
      /\ local \in Seq(AllFindings) /\ Distinct(local)
  BY DEF FindingsInv
<1> DEFINE both == findings \o local
<1>a. /\ both \in Seq(AllFindings) /\ Distinct(both)
      /\ ToSet(both) = ToSet(findings) \cup ToSet(local)
  <2>1. both \in Seq(AllFindings)
    BY <1>6
  <2>2. ToSet(both) = ToSet(findings) \cup ToSet(local)
    BY <1>6, DistinctConcat
  <2>3. Distinct(both)
    BY <1>5, <1>6, DistinctConcat
  <2> QED
    BY <2>1, <2>2, <2>3
<1>b. findings' = both
  BY <1>1
<1> HIDE DEF both
<1>7. /\ findings' \in Seq(AllFindings) /\ Distinct(findings')
      /\ ToSet(findings') = ToSet(findings) \cup ToSet(local)
  BY <1>a, <1>b
<1>8. ToSet(findings') = UNION {Told(e, StreamCount(e)) : e \in examined'}
  BY <1>1, <1>3, <1>7 DEF FindingsInv
<1>9. (UNION {Told(e, StreamCount(e)) : e \in examined})'
        = UNION {Told(e, StreamCount(e)) : e \in examined'}
  BY <1>1, ToldKept
<1>10. local' \in Seq(AllFindings) /\ Distinct(local')
  BY <1>1 DEF Distinct
<1>11. Distinct(findings)' /\ Distinct(local)' /\ AllFindings' = AllFindings
  BY <1>1, <1>7, <1>10, ToldKept DEF Distinct
<1> QED
  BY <1>1, <1>7, <1>8, <1>9, <1>10, <1>11 DEF FindingsInv

LEMMA FindingsStep ==
  ASSUME IsPlace(place), AtHand, Once, FindingsInv, ScanStep \/ UNCHANGED scanVars
  PROVE  FindingsInv'
<1>1. place' = place
  BY PlaceKept
<1>2. CASE Looks
  BY <1>2, LooksFindings
<1>3. CASE FileScanned
  BY <1>3, FileFindings
<1>4. CASE ~Looks /\ ~FileScanned
  <2>1. findings' = findings /\ examined' = examined
    BY <1>4, ScanSteps DEF NoBackend, NoSuchPath, NotAFolder, Raises, Begin, Visit, PassOver,
                           Return,
         Skip, Examine, ReadRaises, scanVars
  <2>2. Distinct(findings)'
    BY <2>1 DEF FindingsInv, Distinct
  <2>3. (UNION {Told(e, StreamCount(e)) : e \in examined})'
          = UNION {Told(e, StreamCount(e)) : e \in examined}
    BY <1>1, <2>1, ToldKept
  <2>4. /\ local' \in Seq(AllFindings) /\ Distinct(local)'
        /\ (entry # None =>
              ToSet(local) = Told(entry, StreamCount(entry) - Len(rest)))'
    <3>1. CASE local' = local /\ rest' = rest /\ entry' = entry
      <4>1. Told(entry, StreamCount(entry) - Len(rest))' = Told(entry, StreamCount(entry) - Len(rest))
        BY <1>1, <3>1, ToldKept
      <4> QED
        BY <3>1, <4>1 DEF FindingsInv, Distinct
    <3>2. CASE ReadRaises
      BY <3>2 DEF ReadRaises, Distinct
    <3>3. CASE Examine
      <4>1. PICK t \in targets : /\ ~Refuses(t) /\ entry' = t /\ local' = <<>>
                                 /\ rest' = SubSeq(Entries[t].streams, 1, Entries[t].lists)
        BY <3>3 DEF Examine
      <4>2. t \in Names
        BY DEF Once
      <4>3. /\ StreamCount(t) \in Nat /\ Entries[t].streams \in Seq(StreamsOf(t))
            /\ Len(Entries[t].streams) = StreamCount(t) /\ Entries[t].lists = StreamCount(t)
        BY <4>1, <4>2, Streams DEF Refuses, StreamCount
      <4>4. Len(rest') = StreamCount(t)
        BY <4>1, <4>3
      <4>5. Told(entry, StreamCount(entry) - Len(rest))' = Told(t, StreamCount(t) - Len(rest'))
        BY <1>1, <4>1, ToldKept
      <4>6. Told(t, StreamCount(t) - Len(rest')) = {}
        BY <4>2, <4>3, <4>4, ToldFacts
      <4>7. ToSet(local') = {}
        BY <4>1 DEF ToSet
      <4>8. Distinct(local)' /\ local' \in Seq(AllFindings)
        BY <4>1 DEF Distinct
      <4> QED
        BY <4>5, <4>6, <4>7, <4>8
    <3> QED
      BY <1>4, <3>1, <3>2, <3>3, ScanSteps DEF NoBackend, NoSuchPath, NotAFolder, Raises, Begin,
                                               Visit,
         PassOver, Return, Skip, inFile, scanVars
  <2>5. AllFindings' = AllFindings
    BY <1>1, ToldKept
  <2> QED
    BY <2>1, <2>2, <2>3, <2>4, <2>5 DEF FindingsInv
<1> QED
  BY <1>2, <1>3, <1>4

-----------------------------------------------------------------------------
\* The scan, at the start, from step to step, and when it has returned.

LEMMA ScanInitially ==
  ASSUME Init
  PROVE  ScanInv
<1>1. IsPlace(place)
  BY CliAssumption DEF Init, ScanInit
<1>2. AtHand /\ ReadBounded /\ Coverage
  BY CeilingAssumption DEF Init, ScanInit, AtHand, ReadBounded, Coverage
<1>3. Once
  <2>1. Dealt = {}
    BY DEF Init, ScanInit, Dealt
  <2> QED
    BY <2>1 DEF Init, ScanInit, Once
<1>4. FindingsInv
  BY DEF Init, ScanInit, FindingsInv, Distinct, ToSet
<1> QED
  BY <1>1, <1>2, <1>3, <1>4 DEF ScanInv

LEMMA ScanInductive ==
  ASSUME ScanInv, [Next]_vars
  PROVE  ScanInv'
<1>1. ScanStep \/ UNCHANGED scanVars
  BY ScanAlone
<1>2. IsPlace(place)'
  <2>1. place' = place
    BY ScanAlone
  <2> QED
    BY <2>1 DEF ScanInv
<1>3. ASSUME UNCHANGED scanVars
      PROVE  AtHand'
  <2>1. /\ place' = place /\ scan' = scan /\ walk' = walk /\ targets' = targets /\ entry' = entry
        /\ rest' = rest /\ local' = local /\ Names' = Names /\ Entries' = Entries
    BY <1>3, PlaceKept, TreeKept DEF scanVars, inFile
  <2>2. StreamCount(entry)' = StreamCount(entry) /\ StreamsOf(entry)' = StreamsOf(entry)
    BY <2>1 DEF StreamCount, StreamsOf
  <2>3. AtHand
    BY DEF ScanInv
  <2> QED
    BY <2>1, <2>2, <2>3 DEF AtHand
<1>4. AtHand'
  BY <1>1, <1>3, HandStep DEF ScanInv
<1>5. ReadBounded'
  BY <1>1, CeilingStep DEF ScanInv
<1>6. Once'
  BY <1>1, OnceStep DEF ScanInv
<1>7. Coverage'
  BY <1>1, CoverageStep DEF ScanInv
<1>8. FindingsInv'
  BY <1>1, FindingsStep DEF ScanInv
<1> QED
  BY <1>2, <1>4, <1>5, <1>6, <1>7, <1>8 DEF ScanInv

\* ads.py:206-211: whatever size a stream declares, no more than the ceiling and one byte
\* of it is ever in memory.
THEOREM ReadStaysBounded == Spec => []ReadBounded
<1>1. Init => ScanInv
  BY ScanInitially
<1>2. ScanInv /\ [Next]_vars => ScanInv'
  BY ScanInductive
<1>3. ScanInv => ReadBounded
  BY DEF ScanInv
<1> QED
  BY <1>1, <1>2, <1>3, PTL DEF Spec

\* ads.py:440-442: of any tree, whatever in it refuses and whenever it does, every entry
\* the walk comes to was examined or is reported as skipped, and never both.
THEOREM EveryEntryAccounted == Spec => []EntriesAccounted
<1>1. Init => ScanInv
  BY ScanInitially
<1>2. ScanInv /\ [Next]_vars => ScanInv'
  BY ScanInductive
<1>3. ScanInv => EntriesAccounted
  <2>1. SUFFICES ASSUME ScanInv, Returned, NEW e \in Reached
                 PROVE  (e \in examined) # (e \in skipped)
    BY DEF EntriesAccounted
  <2>2. /\ walk = {} /\ targets = {} /\ entry = None /\ scan = "returned"
        /\ examined \cap skipped = {}
    BY <2>1 DEF ScanInv, AtHand, Once, Returned
  <2>3. e \in Dealt
    BY <2>1, <2>2 DEF ScanInv, Coverage
  <2>4. e \in examined \/ e \in skipped
    BY <2>2, <2>3 DEF Dealt
  <2> QED
    BY <2>2, <2>4
<1> QED
  BY <1>1, <1>2, <1>3, PTL DEF Spec

\* With every directory listed and no links among the entries asked for, os.walk comes
\* to all of them.
LEMMA AllReached ==
  ASSUME IsPlace(place), unlisted = {}, \A e \in Wanted : Entries[e].kind # "link"
  PROVE  Wanted \subseteq Reached
<1>1. SUFFICES ASSUME NEW e \in Wanted, NEW d \in Above(e) PROVE Entries[d].kind # "link"
  BY DEF Reached
<1>2. e \in Names
  BY DEF Wanted
<1>3. CASE d = e
  BY <1>3
<1>4. CASE d # e
  BY <1>2, <1>4, AboveDirectories
<1> QED
  BY <1>3, <1>4

\* ads.py:400-404: that a scan which returns has examined every entry or reported it is
\* true of every scan in which os.walk could list each directory and met no link where
\* links were asked for.  It fails in these two ways (false_clean) and in no third: not
\* by an entry that refuses, a read that fails or a stream of any size.
THEOREM CleanWhenListed ==
  Spec => []((unlisted = {} /\ \A e \in Wanted : Entries[e].kind # "link") => CleanMeansLooked)
<1> DEFINE Listed == unlisted = {} /\ \A e \in Wanted : Entries[e].kind # "link"
<1>1. Init => ScanInv
  BY ScanInitially
<1>2. ScanInv /\ [Next]_vars => ScanInv'
  BY ScanInductive
<1>3. ScanInv => IsPlace(place)
  BY DEF ScanInv
<1>4. IsPlace(place) /\ EntriesAccounted => (Listed => CleanMeansLooked)
  <2>1. SUFFICES ASSUME IsPlace(place), EntriesAccounted, Listed, Returned, NEW e \in Wanted
                 PROVE  e \in examined \cup skipped
    BY DEF CleanMeansLooked
  <2>2. e \in Reached
    BY <2>1, AllReached
  <2> QED
    BY <2>1, <2>2 DEF EntriesAccounted
<1> QED
  BY <1>1, <1>2, <1>3, <1>4, EveryEntryAccounted, PTL DEF Spec

\* ads.py:183-187 and 414-419: of the entries examined every stream that looks like
\* prefetch, and every one that could not be read, is a finding, once; nothing else is.
THEOREM FoundExactly == Spec => []FindingsExact
<1>1. Init => ScanInv
  BY ScanInitially
<1>2. ScanInv /\ [Next]_vars => ScanInv'
  BY ScanInductive
<1>3. ScanInv => FindingsExact
  <2>1. SUFFICES ASSUME ScanInv
                 PROVE  FindingsExact
    OBVIOUS
  <2>2. Len(findings) = Cardinality(ToSet(findings))
    BY <2>1, DistinctCounts DEF ScanInv, FindingsInv
  <2>3. ASSUME NEW e \in examined
        PROVE  Told(e, StreamCount(e))
                 = {[entry |-> e, stream |-> s, read |-> Expected(s) = "read"] :
                      s \in {x \in StreamsOf(e) : Expected(x) # "nothing"}}
    <3>1. DOMAIN Entries[e].streams = 1 .. StreamCount(e)
      BY <2>1, Streams DEF ScanInv, Once
    <3> QED
      BY <3>1 DEF Told, StreamsOf
  <2>4. UNION {Told(e, StreamCount(e)) : e \in examined}
          = UNION {{[entry |-> e, stream |-> s, read |-> Expected(s) = "read"] :
                      s \in {x \in StreamsOf(e) : Expected(x) # "nothing"}} : e \in examined}
    BY <2>3
  <2> QED
    BY <2>1, <2>2, <2>4 DEF ScanInv, FindingsInv, FindingsExact, ToSet
<1> QED
  BY <1>1, <1>2, <1>3, PTL DEF Spec

-----------------------------------------------------------------------------
\* The outputs and the exit code.

\* The outputs of a command that was not refused are files apart.
FilesApart == \A o, p \in Outputs : o # p => File(o) # File(p)

Looked ==
  /\ request.cmd = "ads" => Returned
  /\ request.cmd = "artifacts" => fs = "returned"

\* Of these outputs each is announced, and holds what was written if it says so.
Announced(some) ==
  /\ written \cup failed = some /\ written \cap failed = {}
  /\ \A o \in written : files[File(o)] = o

\* What a code says of the records, the files and the entries skipped.
CodeTells ==
  Exited =>
    /\ code = 0 =>
         /\ failed = {} /\ (records # <<>> => request.asked \subseteq written)
         /\ ~Incomplete /\ Looked /\ (request.cmd = "parse" => records # <<>>)
    /\ code = 1 =>
         /\ failed = {}
         /\ \/ records = <<>> /\ files = request.files
            \/ Incomplete /\ records # <<>> /\ request.asked \subseteq written
    /\ code = 2 => records = <<>> /\ files = request.files
    /\ code = 120 => records # <<>> /\ failed # {}

Untouched == records = <<>> /\ written = {} /\ failed = {} /\ files = request.files

OutputsInv ==
  /\ request \in Requests
  /\ DOMAIN files = DOMAIN request.files
  /\ at \in {"main", "parse", "ads", "artifacts", "db", "csv", "leave", "exit"}
  /\ at \in {"main", "parse", "ads", "artifacts"} => Untouched
  /\ at \in {"parse", "ads", "artifacts"} => at = request.cmd /\ FilesApart
  /\ correlated => fs = "returned" /\ found # <<>>
  /\ at \in {"db", "csv", "leave"} => records # <<>> /\ FilesApart /\ Looked
  /\ at = "db" => Announced({})
  /\ at = "csv" => Announced(request.asked \cap {"db"})
  /\ at = "leave" => Announced(Outputs)
  /\ OutputsAsAnnounced /\ CodeTells

\* A folder that has been scanned is not scanned further.
LEMMA FolderEnds ==
  ASSUME FolderStep
  PROVE  fs # "returned"
BY DEF FolderStep, FolderRaises, StartWalk, NextDirectory, NextFile, FolderScanned, LeftToParse,
       NotRegular, NotOpened, Grown, Unrecognised, AboveCeiling, ParseLayout, ParsePfpre, StartDb,
       DbStep, DbParsed, DbRaises, StartBoot, BootStep, BootParsed, DateRaises,
       IsUnrecognised, Whole

\* What each step does to the command.
LEMMA CommandKept ==
  ASSUME [Next]_vars
  PROVE  request' = request
BY DEF Next, Refuse, Dispatch, ArgumentRaises, NextArgument, PassFile, Discover, ParseNothing,
       ParseRaises, Parse, Scan, CannotLook, AdsNothing, Ads, ScanFolder, FolderNotScanned,
       ArtifactsNothing, CorrelateVolumes, CorrelationRaises, Artifacts, NoDb, WriteDb, DbFails,
       NoCsv, WriteCsv, CsvFails, Leave, Leaves, Found, vars, cliVars

\* The names of a command line that was let through are of files of their own.
LEMMA RequestShape ==
  ASSUME OutputsInv
  PROVE  /\ request.cmd \in {"parse", "ads", "artifacts"} /\ request.asked \subseteq {"db", "csv"}
         /\ \A o \in {"db", "csv", "summary"} : File(o) \in DOMAIN files
         /\ Outputs \subseteq {"db", "csv", "summary"}
         /\ "csv" \in request.asked => Outputs = (request.asked \cap {"db"}) \cup CsvOutputs
         /\ "csv" \notin request.asked => Outputs = request.asked \cap {"db"}
<1>1. IsRequest(request) /\ DOMAIN files = DOMAIN request.files
  BY CliAssumption DEF OutputsInv
<1> QED
  BY <1>1 DEF IsRequest, File, Outputs, CsvOutputs

LEMMA LetThrough ==
  ASSUME OutputsInv, files = request.files, ~Collide
  PROVE  FilesApart
<1>1. IsRequest(request)
  BY CliAssumption DEF OutputsInv
<1>2. SUFFICES ASSUME NEW o \in Outputs, NEW p \in Outputs, o # p, File(o) = File(p)
               PROVE  FALSE
  BY DEF FilesApart
<1>3. o \in {"db", "csv", "summary"} /\ p \in {"db", "csv", "summary"}
  BY RequestShape
<1>4. Real(o) = Real(p) \/ files[File(o)] # "none"
  BY <1>1, <1>2, <1>3 DEF IsRequest, Real, File
<1> QED
  BY <1>2, <1>4 DEF Collide

\* Writing some outputs puts each in its file and touches no other.
LEMMA WrittenHolds ==
  ASSUME OutputsInv, FilesApart, NEW some \in SUBSET Outputs
  PROVE  /\ DOMAIN Written(some) = DOMAIN files
         /\ \A o \in some : Written(some)[File(o)] = o
         /\ \A o \in Outputs \ some : Written(some)[File(o)] = files[File(o)]
<1>1. \A o \in Outputs : File(o) \in DOMAIN files
  BY RequestShape
<1>2. ASSUME NEW o \in some PROVE Written(some)[File(o)] = o
  <2>1. \A p \in some : File(p) = File(o) => p = o
    BY DEF FilesApart
  <2>2. (CHOOSE p \in some : File(p) = File(o)) = o
    BY <2>1
  <2> QED
    BY <1>1, <2>2 DEF Written
<1>3. ASSUME NEW o \in Outputs \ some PROVE Written(some)[File(o)] = files[File(o)]
  <2>1. ~ \E p \in some : File(p) = File(o)
    BY DEF FilesApart
  <2> QED
    BY <1>1, <2>1 DEF Written
<1> QED
  BY <1>2, <1>3 DEF Written

\* A command that found nothing leaves with a code that says so.
LEMMA LeavesWithNothing ==
  ASSUME OutputsInv, Untouched, NEW n, Leaves(n),
         \/ n \in {1, 2}
         \/ n = 0 /\ ~Incomplete /\ Looked /\ request.cmd # "parse"
  PROVE  OutputsInv'
<1>1. /\ request' = request /\ records' = records /\ files' = files /\ written' = written
      /\ failed' = failed /\ at' = "exit" /\ code' = n /\ UNCHANGED findVars
  BY DEF Leaves, Exit
<1>2. fs' = fs /\ found' = found /\ correlated' = correlated /\ scan' = scan /\ skipped' = skipped
  BY <1>1 DEF findVars, searchVars, scanVars, folderVars, walkVars, volumeVars
<1>3. OutputsAsAnnounced'
  BY <1>1 DEF OutputsAsAnnounced, Untouched
<1>4. CodeTells'
  BY <1>1, <1>2 DEF CodeTells, Untouched, Looked, Returned, Incomplete
<1> QED
  BY <1>1, <1>2, <1>3, <1>4 DEF OutputsInv

LEMMA OutputsInitially ==
  ASSUME Init
  PROVE  OutputsInv
BY DEF Init, VolumesInit, OutputsInv, Untouched, OutputsAsAnnounced, CodeTells, Exited

LEMMA MainStep ==
  ASSUME OutputsInv, Refuse \/ Dispatch
  PROVE  OutputsInv'
<1>1. at = "main" /\ Untouched
  BY DEF Refuse, Dispatch, OutputsInv
<1>2. CASE Refuse
  <2>1. Leaves(2)
    BY <1>2 DEF Refuse, Leaves
  <2> QED
    BY <1>1, <2>1, LeavesWithNothing
<1>3. CASE Dispatch
  <2>1. FilesApart
    BY <1>1, <1>3, LetThrough DEF Dispatch, Untouched
  <2>2. /\ request' = request /\ records' = records /\ files' = files /\ written' = written
        /\ failed' = failed /\ at' = request.cmd /\ UNCHANGED findVars
    BY <1>3 DEF Dispatch
  <2>3. fs' = fs /\ found' = found /\ correlated' = correlated
    BY <2>2 DEF findVars, searchVars, folderVars, walkVars, volumeVars
  <2>4. FilesApart' /\ Untouched'
    BY <1>1, <2>1, <2>2 DEF FilesApart, Outputs, File, Untouched
  <2>5. at' \in {"parse", "ads", "artifacts"}
    BY <2>2, RequestShape
  <2> QED
    BY <2>2, <2>3, <2>4, <2>5 DEF OutputsInv, OutputsAsAnnounced, CodeTells, Exited
<1> QED
  BY <1>2, <1>3

\* A search that goes on: nothing of the command changes.
LEMMA SearchStep ==
  ASSUME OutputsInv, \/ Scan \/ ScanFolder \/ CorrelateVolumes
                     \/ NextArgument \/ PassFile \/ Discover
  PROVE  OutputsInv'
<1>1. /\ at \in {"parse", "ads", "artifacts"} /\ at' = at /\ request' = request /\ records' = records
      /\ files' = files /\ written' = written /\ failed' = failed
  BY DEF Scan, ScanFolder, CorrelateVolumes, NextArgument, PassFile, Discover, cliVars
<1>2. FilesApart' /\ Untouched' /\ at' = request.cmd
  BY <1>1 DEF OutputsInv, FilesApart, Outputs, File, Untouched
<1>3. (correlated => fs = "returned" /\ found # <<>>)'
  <2>1. CASE Scan
    BY <2>1 DEF Scan, folderVars, walkVars, volumeVars, OutputsInv
  <2>2. CASE ScanFolder
    BY <2>2, FolderEnds DEF ScanFolder, volumeVars, OutputsInv
  <2>3. CASE CorrelateVolumes
    BY <2>3 DEF CorrelateVolumes, Correlate, ToCorrelate, folderVars, walkVars
  <2>4. CASE NextArgument \/ PassFile \/ Discover
    BY <2>4 DEF NextArgument, PassFile, Discover, searchVars, folderVars, walkVars, volumeVars,
                OutputsInv
  <2> QED
    BY <2>1, <2>2, <2>3, <2>4
<1> QED
  BY <1>1, <1>2, <1>3 DEF OutputsInv, OutputsAsAnnounced, CodeTells, Exited

\* What a command that found something goes on to its outputs with.
LEMMA FoundSomething ==
  ASSUME OutputsInv, at \in {"parse", "ads", "artifacts"}, NEW what, what # <<>>, Found(what),
  Looked
  PROVE  OutputsInv'
<1>1. /\ request' = request /\ records' = what /\ files' = files /\ written' = written
      /\ failed' = failed /\ at' = "db" /\ UNCHANGED findVars
  BY DEF Found
<1>2. fs' = fs /\ found' = found /\ correlated' = correlated /\ scan' = scan
  BY <1>1 DEF findVars, searchVars, scanVars, folderVars, walkVars, volumeVars
<1>3. FilesApart' /\ Looked'
  BY <1>1, <1>2 DEF OutputsInv, FilesApart, Outputs, File, Looked, Returned
<1>4. Announced({})'
  BY <1>1 DEF OutputsInv, Untouched, Announced
<1> QED
  BY <1>1, <1>2, <1>3, <1>4 DEF OutputsInv, OutputsAsAnnounced, CodeTells, Exited

LEMMA FoundStep ==
  ASSUME OutputsInv, \/ ArgumentRaises \/ ParseNothing \/ ParseRaises \/ Parse
                     \/ CannotLook \/ AdsNothing \/ Ads \/ FolderNotScanned
                     \/ ArtifactsNothing \/ CorrelationRaises \/ Artifacts
  PROVE  OutputsInv'
<1>1. at \in {"parse", "ads", "artifacts"} => at = request.cmd /\ Untouched
  BY DEF OutputsInv
<1>2. CASE ArgumentRaises \/ ParseNothing \/ ParseRaises
  BY <1>1, <1>2, LeavesWithNothing DEF ArgumentRaises, ParseNothing, ParseRaises
<1>3. CASE Parse
  <2>1. Looked
    BY <1>1, <1>3 DEF Parse, Looked
  <2> QED
    BY <1>3, <2>1, FoundSomething DEF Parse
<1>4. CASE CannotLook
  BY <1>1, <1>4, LeavesWithNothing DEF CannotLook
<1>5. CASE AdsNothing
  <2>1. request.cmd = "ads" /\ Returned /\ Looked
    BY <1>1, <1>5 DEF AdsNothing, Looked
  <2>2. Untouched /\ Leaves(IF Incomplete THEN 1 ELSE 0)
    BY <1>1, <1>5 DEF AdsNothing
  <2>3. CASE Incomplete
    BY <2>2, <2>3, LeavesWithNothing
  <2>4. CASE ~Incomplete
    BY <2>1, <2>2, <2>4, LeavesWithNothing
  <2> QED
    BY <2>3, <2>4
<1>6. CASE Ads
  <2>1. Looked
    BY <1>1, <1>6 DEF Ads, Looked
  <2> QED
    BY <1>6, <2>1, FoundSomething DEF Ads
<1>7. CASE FolderNotScanned \/ CorrelationRaises
  BY <1>1, <1>7, LeavesWithNothing DEF FolderNotScanned, CorrelationRaises
<1>8. CASE ArtifactsNothing
  <2>1. request.cmd = "artifacts" /\ Looked /\ ~Incomplete
    BY <1>1, <1>8 DEF ArtifactsNothing, Looked, Incomplete
  <2> QED
    BY <1>1, <1>8, <2>1, LeavesWithNothing DEF ArtifactsNothing
<1>9. CASE Artifacts
  <2>1. found # <<>> /\ Looked
    BY <1>1, <1>9 DEF Artifacts, Looked, OutputsInv
  <2> QED
    BY <1>9, <2>1, FoundSomething DEF Artifacts
<1> QED
  BY <1>2, <1>3, <1>4, <1>5, <1>6, <1>7, <1>8, <1>9

\* An output leaves the search and its result alone.
LEMMA OutputStep ==
  ASSUME OutputsInv, at \in {"db", "csv"},
         UNCHANGED <<findVars, request, records>>, at' \in {"csv", "leave"}
  PROVE  /\ records' # <<>> /\ FilesApart' /\ Looked' /\ Outputs' = Outputs
         /\ (correlated => fs = "returned" /\ found # <<>>)'
         /\ request' \in Requests /\ request.files' = request.files
         /\ \A o : File(o)' = File(o)
         /\ (Untouched \/ at \notin {"main", "parse", "ads", "artifacts"})'
         /\ OutputsAsAnnounced' /\ CodeTells'
<1>1. fs' = fs /\ found' = found /\ correlated' = correlated /\ scan' = scan
  BY DEF findVars, searchVars, scanVars, folderVars, walkVars, volumeVars
<1>2. Outputs' = Outputs /\ \A o : File(o)' = File(o)
  BY DEF Outputs, File
<1>3. FilesApart' /\ Looked'
  BY <1>1, <1>2 DEF OutputsInv, FilesApart, Looked, Returned
<1> QED
  BY <1>1, <1>2, <1>3 DEF OutputsInv, OutputsAsAnnounced, CodeTells, Exited

LEMMA WriteDbStep ==
  ASSUME OutputsInv, NoDb \/ WriteDb \/ DbFails
  PROVE  OutputsInv'
<1>1. /\ at = "db" /\ at' = "csv" /\ UNCHANGED <<findVars, request, records>>
      /\ Announced({})
  BY DEF NoDb, WriteDb, DbFails, OutputsInv
<1>2. written = {} /\ failed = {}
  BY <1>1 DEF Announced
<1>3. /\ records' # <<>> /\ FilesApart' /\ Looked' /\ \A o : File(o)' = File(o)
      /\ (correlated => fs = "returned" /\ found # <<>>)' /\ request' \in Requests
      /\ OutputsAsAnnounced' /\ CodeTells'
  BY <1>1, OutputStep
<1>4. "db" \in Outputs => File("db") \in DOMAIN files
  BY RequestShape
<1>5. DOMAIN files' = DOMAIN files /\ Announced(request.asked \cap {"db"})'
  <2>1. CASE NoDb
    BY <1>1, <1>2, <2>1 DEF NoDb, Announced
  <2>2. CASE WriteDb
    <3>1. /\ "db" \in request.asked /\ files' = [files EXCEPT ![File("db")] = "db"]
          /\ written' = {"db"} /\ failed' = {}
      BY <1>2, <2>2 DEF WriteDb
    <3>2. DOMAIN files' = DOMAIN files /\ files'[File("db")] = "db"
      BY <1>4, <3>1 DEF Outputs
    <3>3. \A o \in written' : files'[File(o)'] = o
      BY <1>3, <3>1, <3>2
    <3> QED
      BY <1>1, <3>1, <3>2, <3>3 DEF Announced
  <2>3. CASE DbFails
    <3>1. "db" \in request.asked /\ written' = {} /\ failed' = {"db"}
      BY <1>2, <2>3 DEF DbFails
    <3>2. DOMAIN files' = DOMAIN files
      BY <2>3 DEF DbFails
    <3> QED
      BY <1>1, <3>1, <3>2 DEF Announced
  <2> QED
    BY <2>1, <2>2, <2>3 DEF NoDb, WriteDb, DbFails
<1> QED
  BY <1>1, <1>3, <1>5 DEF OutputsInv

LEMMA WriteCsvStep ==
  ASSUME OutputsInv, NoCsv \/ WriteCsv \/ CsvFails
  PROVE  OutputsInv'
<1>1. /\ at = "csv" /\ at' = "leave" /\ UNCHANGED <<findVars, request, records>>
      /\ Announced(request.asked \cap {"db"}) /\ FilesApart
  BY DEF NoCsv, WriteCsv, CsvFails, OutputsInv
<1>2. /\ records' # <<>> /\ FilesApart' /\ Looked' /\ \A o : File(o)' = File(o)
      /\ (correlated => fs = "returned" /\ found # <<>>)' /\ request' \in Requests
      /\ OutputsAsAnnounced' /\ CodeTells' /\ Outputs' = Outputs
  BY <1>1, OutputStep
<1>3. CASE NoCsv
  <2>1. Outputs = request.asked \cap {"db"}
    BY <1>3, RequestShape DEF NoCsv
  <2>2. Announced(Outputs)'
    BY <1>1, <1>2, <1>3, <2>1 DEF NoCsv, Announced
  <2> QED
    BY <1>1, <1>2, <1>3, <2>2 DEF NoCsv, OutputsInv
<1>4. CASE WriteCsv \/ CsvFails
  <2>1. Outputs = (request.asked \cap {"db"}) \cup CsvOutputs /\ "db" \notin CsvOutputs
    BY <1>4, RequestShape DEF WriteCsv, CsvFails, CsvOutputs
  <2>2. \A o \in written : o \in Outputs \ CsvOutputs /\ files[File(o)] = o
    BY <1>1, <2>1 DEF Announced
  <2>3. DOMAIN files' = DOMAIN files /\ Announced(Outputs)'
    <3>1. CASE WriteCsv
      <4>1. files' = Written(CsvOutputs) /\ written' = written \cup CsvOutputs /\ failed' = failed
        BY <3>1 DEF WriteCsv
      <4>2. /\ DOMAIN files' = DOMAIN files
            /\ \A o \in CsvOutputs : files'[File(o)] = o
            /\ \A o \in written : files'[File(o)] = o
        BY <1>1, <2>1, <2>2, <4>1, WrittenHolds
      <4>3. \A o \in written' : files'[File(o)'] = o
        BY <1>2, <4>1, <4>2
      <4>4. written' \cup failed' = Outputs' /\ written' \cap failed' = {}
        BY <1>1, <1>2, <2>1, <4>1 DEF Announced
      <4> QED
        BY <4>2, <4>3, <4>4 DEF Announced
    <3>2. CASE CsvFails
      <4>1. /\ files' = files \/ files' = Written({"csv"})
            /\ written' = written /\ failed' = failed \cup CsvOutputs
        BY <3>2 DEF CsvFails
      <4>2. {"csv"} \subseteq Outputs /\ \A o \in written : o \notin {"csv"}
        BY <2>1, <2>2 DEF CsvOutputs
      <4>3. DOMAIN files' = DOMAIN files /\ \A o \in written : files'[File(o)] = o
        BY <1>1, <2>2, <4>1, <4>2, WrittenHolds
      <4>4. \A o \in written' : files'[File(o)'] = o
        BY <1>2, <4>1, <4>3
      <4>5. written' \cup failed' = Outputs' /\ written' \cap failed' = {}
        BY <1>1, <1>2, <2>1, <4>1 DEF Announced
      <4> QED
        BY <4>3, <4>4, <4>5 DEF Announced
    <3> QED
      BY <1>4, <3>1, <3>2
  <2> QED
    BY <1>1, <1>2, <2>3 DEF OutputsInv
<1> QED
  BY <1>3, <1>4

LEMMA LeaveStep ==
  ASSUME OutputsInv, Leave
  PROVE  OutputsInv'
<1>1. /\ at' = "exit" /\ code' = LeaveWith /\ request' = request /\ records' = records /\ files' = files
      /\ written' = written /\ failed' = failed /\ UNCHANGED findVars
  BY DEF Leave, Leaves, Exit
<1>2. fs' = fs /\ found' = found /\ correlated' = correlated /\ scan' = scan /\ skipped' = skipped
  BY <1>1 DEF findVars, searchVars, scanVars, folderVars, walkVars, volumeVars
<1>3. records # <<>> /\ Looked /\ Announced(Outputs)
  BY DEF Leave, OutputsInv
<1>4. request.asked \subseteq Outputs
  BY DEF Outputs
<1>5. OutputsAsAnnounced'
  BY <1>1, <1>3, <1>4 DEF OutputsAsAnnounced, Announced, File
<1>6. CodeTells'
  <2>1. code' = IF failed # {} THEN 120 ELSE IF Incomplete THEN 1 ELSE 0
    BY <1>1 DEF LeaveWith
  <2>2. Incomplete' = Incomplete /\ Returned' = Returned
    BY <1>1, <1>2 DEF Incomplete, Returned
  <2> QED
    BY <1>1, <1>2, <1>3, <1>4, <2>1, <2>2 DEF CodeTells, Looked, Announced
<1> QED
  BY <1>1, <1>2, <1>5, <1>6 DEF OutputsInv

LEMMA OutputsInductive ==
  ASSUME OutputsInv, [Next]_vars
  PROVE  OutputsInv'
<1>1. CASE UNCHANGED vars
  BY <1>1 DEF vars, findVars, searchVars, scanVars, folderVars, walkVars, volumeVars, cliVars,
              OutputsInv, Untouched,
       FilesApart, Outputs, File, Looked, Returned, Announced, OutputsAsAnnounced, CodeTells,
       Exited,
       Incomplete
<1> QED
  BY <1>1, MainStep, SearchStep, FoundStep, WriteDbStep, WriteCsvStep, LeaveStep DEF Next

\* __main__.py:726-732 and DOCUMENTATION.md:82: a run that found something ends with every output
\* asked for announced as written, and still holding what this run wrote, or as failed:
\* for every command line, however its paths name its files.
THEOREM OutputsAreAsAnnounced == Spec => []OutputsAsAnnounced
<1>1. Init => OutputsInv
  BY OutputsInitially
<1>2. OutputsInv /\ [Next]_vars => OutputsInv'
  BY OutputsInductive
<1>3. OutputsInv => OutputsAsAnnounced
  BY DEF OutputsInv
<1> QED
  BY <1>1, <1>2, <1>3, PTL DEF Spec

-----------------------------------------------------------------------------
\* The files parsed.

\* Each file yielded has a real path of its own; those seen are theirs; and of every
\* argument come to, each file is among them or still to be looked at.
DiscoverInv ==
  /\ argument \in 0 .. Len(request.args)
  /\ left # <<>> => argument > 0
  /\ argument > 0 =>
       left \in Seq(ToSet(Holds(Argument))) /\ ToSet(left) \subseteq ToSet(Holds(Argument))
  /\ discovered \in Seq(Given) /\ seen = {Key(f) : f \in ToSet(discovered)}
  /\ \A j, k \in DOMAIN discovered : discovered[j].real = discovered[k].real => j = k
  /\ \A k \in 1 .. argument : \A f \in ToSet(Holds(request.args[k])) :
       Walks(request.args[k], f) => Key(f) \in seen \/ (k = argument /\ f \in ToSet(left))
  /\ request.cmd = "parse" /\ records # <<>> => Exhausted /\ records = discovered

LEMMA HeadAndTail ==
  ASSUME NEW S, NEW s \in Seq(S), s # <<>>
  PROVE  Head(s) \in ToSet(s) /\ Tail(s) \in Seq(S) /\ ToSet(s) = {Head(s)} \cup ToSet(Tail(s))
<1>1. /\ Tail(s) \in Seq(S) /\ Head(s) = s[1] /\ Len(s) \in Nat /\ Len(s) >= 1
      /\ DOMAIN s = 1 .. Len(s) /\ DOMAIN Tail(s) = 1 .. (Len(s) - 1)
      /\ \A k \in 1 .. (Len(s) - 1) : Tail(s)[k] = s[k + 1]
  OBVIOUS
<1>2. Head(s) \in ToSet(s)
  BY <1>1 DEF ToSet
<1>3. ASSUME NEW k \in DOMAIN s PROVE s[k] = Head(s) \/ s[k] \in ToSet(Tail(s))
  <2>1. CASE k # 1
    <3>1. k - 1 \in DOMAIN Tail(s) /\ (k - 1) + 1 = k
      BY <1>1, <2>1
    <3> QED
      BY <1>1, <3>1 DEF ToSet
  <2> QED
    BY <1>1, <2>1
<1>4. ASSUME NEW k \in DOMAIN Tail(s) PROVE Tail(s)[k] \in ToSet(s)
  <2>1. k + 1 \in DOMAIN s /\ Tail(s)[k] = s[k + 1]
    BY <1>1
  <2> QED
    BY <2>1 DEF ToSet
<1>5. ToSet(s) \subseteq {Head(s)} \cup ToSet(Tail(s))
  BY <1>3 DEF ToSet
<1>6. ToSet(Tail(s)) \subseteq ToSet(s)
  BY <1>4 DEF ToSet
<1> QED
  BY <1>1, <1>2, <1>5, <1>6

LEMMA HoldsFiles ==
  ASSUME OutputsInv
  PROVE  /\ Len(request.args) \in Nat /\ DOMAIN request.args = 1 .. Len(request.args)
         /\ \A k \in DOMAIN request.args :
              Holds(request.args[k]) \in Seq(ToSet(Holds(request.args[k])))
<1>1. IsRequest(request)
  BY CliAssumption DEF OutputsInv
<1>a. /\ request.args \in Seq(ToSet(request.args))
      /\ \A k \in DOMAIN request.args :
           request.args[k].holds \in Seq(ToSet(request.args[k].holds))
  BY <1>1, Zenon DEF IsRequest
<1>2. Len(request.args) \in Nat /\ DOMAIN request.args = 1 .. Len(request.args)
  BY <1>a
<1>3. \A k \in DOMAIN request.args : request.args[k].holds \in Seq(ToSet(request.args[k].holds))
  BY <1>a
<1>4. <<>> \in Seq(ToSet(<<>>))
  OBVIOUS
<1> QED
  BY <1>2, <1>3, <1>4 DEF Holds

\* The arguments are the same throughout.
LEMMA GivenKept ==
  ASSUME request' = request
  PROVE  /\ Given' = Given
         /\ \A arg, f : Walks(arg, f)' = Walks(arg, f)
BY DEF Given, Walks

LEMMA NextArgumentStep ==
  ASSUME OutputsInv, DiscoverInv, NextArgument
  PROVE  DiscoverInv'
<1>1. /\ left = <<>> /\ argument' = argument + 1 /\ left' = Holds(request.args[argument + 1])
      /\ seen' = seen /\ discovered' = discovered /\ request' = request /\ records' = records
      /\ argument < Len(request.args) /\ at = "parse"
  BY DEF NextArgument, cliVars
<1>2. Len(request.args) \in Nat /\ argument \in 0 .. Len(request.args)
  BY HoldsFiles DEF DiscoverInv
<1>3. argument' \in 1 .. Len(request.args) /\ argument' \in DOMAIN request.args
  BY <1>1, <1>2, HoldsFiles
<1>4. Argument' = request.args[argument + 1]
  BY <1>1 DEF Argument
<1>5. left' \in Seq(ToSet(Holds(Argument')))
  BY <1>1, <1>3, <1>4, HoldsFiles
<1>6. ASSUME NEW k \in 1 .. argument', NEW f \in ToSet(Holds(request.args[k])), Walks(request.args[k], f)
      PROVE  Key(f) \in seen \/ (k = argument' /\ f \in ToSet(left'))
  <2>1. CASE k = argument'
    BY <1>1, <2>1
  <2>2. CASE k # argument'
    <3>1. k \in 1 .. argument
      BY <1>1, <1>2, <2>2
    <3>2. f \notin ToSet(left)
      BY <1>1 DEF ToSet
    <3> QED
      BY <1>6, <3>1, <3>2 DEF DiscoverInv
  <2> QED
    BY <2>1, <2>2
<1>7. records = <<>>
  BY <1>1 DEF OutputsInv, Untouched
<1>8. /\ discovered' \in Seq(Given) /\ seen' = {Key(f) : f \in ToSet(discovered')}
      /\ \A j, k \in DOMAIN discovered' : discovered'[j].real = discovered'[k].real => j = k
  BY <1>1 DEF DiscoverInv
<1> QED
  BY <1>1, <1>3, <1>4, <1>5, <1>6, <1>7, <1>8, GivenKept DEF DiscoverInv, Holds, Key

LEMMA FileStep ==
  ASSUME OutputsInv, DiscoverInv, PassFile \/ Discover
  PROVE  DiscoverInv'
<1> DEFINE f == Head(left)
<1>1. /\ left # <<>> /\ left' = Tail(left) /\ argument' = argument /\ request' = request
      /\ records' = records /\ at = "parse"
      /\ \/ (~Walks(Argument, f) \/ Key(f) \in seen) /\ seen' = seen /\ discovered' = discovered
         \/ /\ Walks(Argument, f) /\ Key(f) \notin seen
            /\ seen' = seen \cup {Key(f)} /\ discovered' = Append(discovered, f)
  BY DEF PassFile, Discover, cliVars
<1>2. /\ argument \in 0 .. Len(request.args) /\ argument > 0
      /\ left \in Seq(ToSet(Holds(Argument))) /\ ToSet(left) \subseteq ToSet(Holds(Argument))
  BY <1>1 DEF DiscoverInv
<1>3. /\ argument \in DOMAIN request.args /\ Argument = request.args[argument]
      /\ Argument' = Argument
  BY <1>1, <1>2, HoldsFiles DEF Argument
<1>4. /\ f \in ToSet(left) /\ Tail(left) \in Seq(ToSet(Holds(Argument)))
      /\ ToSet(left) = {f} \cup ToSet(left')
  BY <1>1, <1>2, HeadAndTail
<1> HIDE DEF f
<1>5. ASSUME NEW k \in 1 .. argument, NEW g \in ToSet(Holds(request.args[k])), Walks(request.args[k], g)
      PROVE  Key(g) \in seen' \/ (k = argument /\ g \in ToSet(left'))
  <2>1. Key(g) \in seen \/ (k = argument /\ g \in ToSet(left))
    BY <1>5 DEF DiscoverInv
  <2>2. CASE Key(g) \in seen
    BY <1>1, <2>2
  <2>3. CASE k = argument /\ g = f
    BY <1>1, <1>3, <1>5, <2>3
  <2> QED
    BY <1>4, <2>1, <2>2, <2>3
<1>6. /\ discovered \in Seq(Given) /\ seen = {Key(g) : g \in ToSet(discovered)}
      /\ \A j, k \in DOMAIN discovered : discovered[j].real = discovered[k].real => j = k
  BY DEF DiscoverInv
<1>7. /\ discovered' \in Seq(Given) /\ seen' = {Key(g) : g \in ToSet(discovered')}
      /\ \A j, k \in DOMAIN discovered' : discovered'[j].real = discovered'[k].real => j = k
  <2>1. CASE discovered' = discovered /\ seen' = seen
    BY <1>6, <2>1
  <2>2. CASE /\ Walks(Argument, f) /\ Key(f) \notin seen
             /\ seen' = seen \cup {Key(f)} /\ discovered' = Append(discovered, f)
    <3>1. f \in Given
      BY <1>2, <1>3, <1>4, <2>2 DEF Given
    <3>2. discovered' \in Seq(Given) /\ ToSet(discovered') = ToSet(discovered) \cup {f}
      BY <1>6, <2>2, <3>1, DistinctAppend
    <3>3. seen' = {Key(g) : g \in ToSet(discovered')}
      BY <1>6, <2>2, <3>2
    <3>4. /\ Len(discovered) \in Nat /\ DOMAIN discovered = 1 .. Len(discovered)
          /\ DOMAIN discovered' = 1 .. (Len(discovered) + 1)
          /\ \A k \in 1 .. Len(discovered) : discovered'[k] = discovered[k]
          /\ discovered'[Len(discovered) + 1] = f
      BY <1>6, <2>2, <3>1
    <3>5. \A k \in DOMAIN discovered : discovered[k].real # f.real
      BY <1>6, <2>2 DEF Key, ToSet
    <3>6. ASSUME NEW j \in DOMAIN discovered', NEW k \in DOMAIN discovered',
                 discovered'[j].real = discovered'[k].real
          PROVE  j = k
      <4>1. (j \in DOMAIN discovered \/ j = Len(discovered) + 1)
              /\ (k \in DOMAIN discovered \/ k = Len(discovered) + 1)
        BY <3>4
      <4>2. CASE j \in DOMAIN discovered /\ k \in DOMAIN discovered
        BY <1>6, <3>4, <3>6, <4>2
      <4>3. CASE j \in DOMAIN discovered /\ k = Len(discovered) + 1
        BY <3>4, <3>5, <3>6, <4>3
      <4>4. CASE k \in DOMAIN discovered /\ j = Len(discovered) + 1
        BY <3>4, <3>5, <3>6, <4>4
      <4> QED
        BY <4>1, <4>2, <4>3, <4>4
    <3> QED
      BY <3>2, <3>3, <3>6
  <2> QED
    BY <1>1, <2>1, <2>2
<1>8. records = <<>>
  BY <1>1 DEF OutputsInv, Untouched
<1>9. ToSet(left') \subseteq ToSet(Holds(Argument))
  BY <1>2, <1>4
<1>10. Given' = Given /\ Holds(Argument)' = Holds(Argument)
  BY <1>1, <1>3, GivenKept DEF Holds
<1>11. \A k \in 1 .. argument' : \A g \in ToSet(Holds(request.args[k]))' :
         Walks(request.args[k], g)' => Key(g)' \in seen' \/ (k = argument' /\ g \in ToSet(left)')
  BY <1>1, <1>5, GivenKept DEF Holds, Key, ToSet
<1> QED
  BY <1>1, <1>2, <1>4, <1>7, <1>8, <1>9, <1>10, <1>11 DEF DiscoverInv, Key

LEMMA DiscoverInitially ==
  ASSUME Init
  PROVE  DiscoverInv
<1>1. OutputsInv
  BY OutputsInitially
<1>2. argument = 0 /\ left = <<>> /\ seen = {} /\ discovered = <<>> /\ records = <<>>
  BY DEF Init
<1>3. seen = {Key(f) : f \in ToSet(discovered)}
  BY <1>2 DEF ToSet
<1>4. argument \in 0 .. Len(request.args) /\ 1 .. argument = {}
  BY <1>1, <1>2, HoldsFiles
<1>5. discovered \in Seq(Given) /\ DOMAIN discovered = {}
  BY <1>2
<1> QED
  BY <1>2, <1>3, <1>4, <1>5 DEF DiscoverInv

LEMMA DiscoverInductive ==
  ASSUME OutputsInv, DiscoverInv, [Next]_vars
  PROVE  DiscoverInv'
<1>1. request' = request
  BY CommandKept
<1>2. CASE NextArgument
  BY <1>2, NextArgumentStep
<1>3. CASE PassFile \/ Discover
  BY <1>3, FileStep
<1>4. CASE ~(NextArgument \/ PassFile \/ Discover)
  <2>1. argument' = argument /\ left' = left /\ seen' = seen /\ discovered' = discovered
    BY <1>4 DEF Next, Refuse, Dispatch, ArgumentRaises, ParseNothing, ParseRaises, Parse, Scan,
         CannotLook, AdsNothing, Ads, ScanFolder, FolderNotScanned, ArtifactsNothing,
         CorrelateVolumes, CorrelationRaises, Artifacts, NoDb, WriteDb, DbFails, NoCsv, WriteCsv, CsvFails, Leave, Leaves, Found, vars, findVars, discoverVars
  <2>2. \/ records' = records
        \/ Exhausted /\ records' = discovered
        \/ request.cmd # "parse"
    <3>1. CASE Parse
      BY <3>1 DEF Parse, Found
    <3>2. CASE Ads \/ Artifacts
      BY <3>2 DEF Ads, Artifacts, OutputsInv
    <3>3. CASE ~(Parse \/ Ads \/ Artifacts)
      BY <1>4, <3>3 DEF Next, Refuse, Dispatch, ArgumentRaises, ParseNothing, ParseRaises, Scan,
         CannotLook, AdsNothing, ScanFolder, FolderNotScanned, ArtifactsNothing,
         CorrelateVolumes, CorrelationRaises, NoDb, WriteDb, DbFails, NoCsv, WriteCsv, CsvFails, Leave, Leaves, vars, cliVars
    <3> QED
      BY <3>1, <3>2, <3>3
  <2>3. Exhausted' = Exhausted /\ Argument' = Argument
    BY <1>1, <2>1 DEF Exhausted, Argument
  <2> QED
    BY <1>1, <2>1, <2>2, <2>3, GivenKept DEF DiscoverInv, Holds, Key
<1> QED
  BY <1>2, <1>3, <1>4

\* __main__.py:71-83: whatever the arguments are, and however they overlap, `parse` has one
\* record of every real file they lead to, and of no other file.
THEOREM EachFileParsedOnce == Spec => []EachFileOnce
<1>1. Init => OutputsInv /\ DiscoverInv
  BY OutputsInitially, DiscoverInitially
<1>2. (OutputsInv /\ DiscoverInv) /\ [Next]_vars => (OutputsInv /\ DiscoverInv)'
  BY OutputsInductive, DiscoverInductive
<1>3. OutputsInv /\ DiscoverInv => EachFileOnce
  <2>1. SUFFICES ASSUME OutputsInv, DiscoverInv, request.cmd = "parse", records # <<>>
                 PROVE  /\ \A f \in Given : Cardinality({k \in DOMAIN records : records[k].real = f.real}) = 1
                        /\ ToSet(records) \subseteq Given
    BY DEF EachFileOnce
  <2>2. left = <<>> /\ argument = Len(request.args) /\ records = discovered
    BY <2>1 DEF DiscoverInv, Exhausted
  <2>3. records \in Seq(Given)
    BY <2>1, <2>2 DEF DiscoverInv
  <2>4. ASSUME NEW f \in Given
        PROVE  Cardinality({k \in DOMAIN records : records[k].real = f.real}) = 1
    <3>1. PICK k \in DOMAIN request.args :
            f \in ToSet(Holds(request.args[k])) /\ Walks(request.args[k], f)
      BY DEF Given
    <3>2. k \in 1 .. argument /\ f \notin ToSet(left)
      BY <2>1, <2>2, HoldsFiles DEF ToSet
    <3>3. Key(f) \in seen
      BY <2>1, <3>1, <3>2 DEF DiscoverInv
    <3>4. PICK j \in DOMAIN records : records[j].real = f.real
      BY <2>1, <2>2, <3>3 DEF DiscoverInv, Key, ToSet
    <3>5. {i \in DOMAIN records : records[i].real = f.real} = {j}
      BY <2>1, <2>2, <3>4 DEF DiscoverInv
    <3> QED
      BY <3>5, FS_Singleton
  <2>5. ToSet(records) \subseteq Given
    BY <2>3 DEF ToSet
  <2> QED
    BY <2>4, <2>5
<1> QED
  BY <1>1, <1>2, <1>3, PTL DEF Spec

-----------------------------------------------------------------------------
\* The exit code, once the search and the files parsed are accounted for.

NothingLookedAt == examined = {} /\ found = <<>> /\ argument = 0

\* Only the command's own search looks at anything, and the scan not before it begins.
UnlookedInv ==
  /\ scan = "unavailable" => examined = {}
  /\ at = "main" => scan = "ready" /\ NothingLookedAt
  /\ at = "ads" => found = <<>> /\ argument = 0
  /\ Exited /\ code = 2 => NothingLookedAt

LEMMA UnavailableStep ==
  ASSUME ScanInv, scan = "unavailable" => examined = {}, ScanStep
  PROVE  (scan = "unavailable" => examined = {})'
<1>0. AtHand /\ Once /\ IsPlace(place)
  BY DEF ScanInv
<1>1. CASE NoBackend \/ NoSuchPath \/ NotAFolder
  BY <1>0, <1>1 DEF NoBackend, NoSuchPath, NotAFolder, Raises, Once, Dealt
<1>2. CASE Begin \/ Visit \/ PassOver \/ Return \/ Skip \/ Examine
  BY <1>2 DEF Begin, Visit, PassOver, Return, Skip, Examine, Between
<1>3. CASE Looks \/ ReadRaises \/ FileScanned
  <2>1. scan = "walking" /\ scan' = scan
    BY <1>0, <1>3, NextAtHand DEF Looks, NextStream, ReadRaises, FileScanned, Secondary, AtHand
  <2> QED
    BY <2>1
<1> QED
  BY <1>0, <1>1, <1>2, <1>3, ScanSteps

LEMMA LookedKept ==
  ASSUME UNCHANGED findVars
  PROVE  scan' = scan /\ examined' = examined /\ found' = found /\ argument' = argument
BY DEF findVars, searchVars, scanVars, folderVars, walkVars, discoverVars

LEMMA UnlookedStep ==
  ASSUME ScanInv, OutputsInv, UnlookedInv, [Next]_vars
  PROVE  UnlookedInv'
<1>1. (scan = "unavailable" => examined = {})'
  <2>1. CASE UNCHANGED scanVars
    BY <2>1 DEF UnlookedInv, scanVars
  <2> QED
    BY <2>1, ScanAlone, UnavailableStep DEF UnlookedInv
<1>2. ASSUME UNCHANGED findVars, at' = at, code' = code PROVE UnlookedInv'
  BY <1>1, <1>2, LookedKept DEF UnlookedInv, NothingLookedAt, Exited
<1>3. CASE UNCHANGED vars
  BY <1>2, <1>3 DEF vars, cliVars
<1>4. ASSUME UNCHANGED findVars, at' \notin {"main", "ads"}, at' = "exit" => code' # 2
      PROVE  UnlookedInv'
  BY <1>1, <1>4 DEF UnlookedInv, Exited
<1>5. CASE Refuse
  BY <1>1, <1>5, LookedKept DEF Refuse, Exit, UnlookedInv, NothingLookedAt
<1>6. CASE Dispatch
  <2>1. at' \in {"parse", "ads", "artifacts"}
    BY <1>6, RequestShape DEF Dispatch
  <2> QED
    BY <1>1, <1>6, <2>1, LookedKept DEF Dispatch, UnlookedInv, NothingLookedAt, Exited
<1>7. CASE NextArgument \/ PassFile \/ Discover \/ ScanFolder \/ CorrelateVolumes
  <2>1. at' = at /\ at \in {"parse", "artifacts"}
    BY <1>7 DEF NextArgument, PassFile, Discover, ScanFolder, CorrelateVolumes, cliVars
  <2> QED
    BY <1>1, <2>1 DEF UnlookedInv, Exited
<1>8. CASE Scan
  BY <1>1, <1>8 DEF Scan, UnlookedInv, Exited, folderVars, walkVars, discoverVars, cliVars
<1>9. CASE CannotLook
  <2>1. CASE scan = "unavailable" /\ Leaves(2)
    <3>1. at = "ads" /\ at' = "exit" /\ UNCHANGED findVars
      BY <1>9, <2>1 DEF CannotLook, Leaves, Exit
    <3> QED
      BY <1>1, <2>1, <3>1, LookedKept DEF UnlookedInv, NothingLookedAt
  <2>2. CASE Leaves(1)
    BY <1>4, <2>2 DEF Leaves, Exit
  <2> QED
    BY <1>9, <2>1, <2>2 DEF CannotLook
<1>10. CASE \/ ArgumentRaises \/ ParseNothing \/ ParseRaises \/ AdsNothing \/ FolderNotScanned
            \/ ArtifactsNothing \/ CorrelationRaises \/ Leave
  <2>1. PICK n \in {0, 1, 120} : Leaves(n)
    BY <1>10 DEF ArgumentRaises, ParseNothing, ParseRaises, AdsNothing, FolderNotScanned,
                 ArtifactsNothing, CorrelationRaises, Leave, LeaveWith
  <2> QED
    BY <1>4, <2>1 DEF Leaves, Exit
<1>11. CASE Parse \/ Ads \/ Artifacts \/ NoDb \/ WriteDb \/ DbFails \/ NoCsv \/ WriteCsv \/ CsvFails
  <2>1. UNCHANGED findVars /\ at' \in {"db", "csv", "leave"}
    BY <1>11 DEF Parse, Ads, Artifacts, Found, NoDb, WriteDb, DbFails, NoCsv, WriteCsv, CsvFails
  <2> QED
    BY <1>4, <2>1
<1> QED
  BY <1>3, <1>5, <1>6, <1>7, <1>8, <1>9, <1>10, <1>11 DEF Next

\* DOCUMENTATION.md:77-82: what the exit code of a run says is so, for every command line
\* and whatever the search meets.  0 is of a search that came to its end, with a record
\* of every file or every entry os.walk came to examined, and of outputs that are all
\* written; not that os.walk could list anything, which ExitCodeIsTrue says.
THEOREM ExitCodeTells == Spec => []ExitCodeIsTrue
<1>1. Init => ScanInv /\ OutputsInv /\ UnlookedInv
  <2>1. Init => UnlookedInv
    BY DEF Init, ScanInit, FolderInit, UnlookedInv, NothingLookedAt, Exited
  <2> QED
    BY <2>1, ScanInitially, OutputsInitially
<1>2. ScanInv /\ OutputsInv /\ UnlookedInv /\ [Next]_vars
        => (ScanInv /\ OutputsInv /\ UnlookedInv)'
  BY ScanInductive, OutputsInductive, UnlookedStep
<1>3. OutputsInv /\ UnlookedInv /\ EntriesAccounted /\ EachFileOnce => ExitCodeIsTrue
  <2> SUFFICES ASSUME OutputsInv, UnlookedInv, EntriesAccounted, EachFileOnce, Exited
               PROVE  ExitCodeIsTrue
    BY DEF ExitCodeIsTrue
  <2>1. CodeTells
    BY DEF OutputsInv
  <2>2. ASSUME code = 0, request.cmd = "parse", NEW f \in Given
        PROVE  \E k \in DOMAIN records : records[k].real = f.real
    <3>1. Cardinality({k \in DOMAIN records : records[k].real = f.real}) = 1
      BY <2>1, <2>2 DEF CodeTells, EachFileOnce
    <3>2. {k \in DOMAIN records : records[k].real = f.real} # {}
      BY <3>1, FS_EmptySet
    <3> QED
      BY <3>2
  <2>3. ASSUME code = 0, request.cmd = "ads" PROVE Returned /\ Reached \subseteq examined
    <3>1. Returned /\ skipped = {}
      BY <2>1, <2>3 DEF CodeTells, Looked, Incomplete
    <3> QED
      BY <3>1 DEF EntriesAccounted
  <2>4. code = 2 => examined = {} /\ found = <<>> /\ argument = 0
    BY DEF UnlookedInv, NothingLookedAt
  <2> QED
    BY <2>1, <2>2, <2>3, <2>4 DEF CodeTells, Looked, ExitCodeIsTrue
<1> QED
  BY <1>1, <1>2, <1>3, EveryEntryAccounted, EachFileParsedOnce, PTL DEF Spec

-----------------------------------------------------------------------------
\* Where the scan and the command can be, and what their variables hold.
ScanFields == scan \in Outcomes /\ held \in Nat /\ unlisted \subseteq Names

LEMMA ScanFieldsStep ==
  ASSUME ScanInv, ScanFields, [Next]_vars
  PROVE  ScanFields'
<1>0. Names' = Names /\ (ScanStep \/ UNCHANGED scanVars)
  BY ScanAlone DEF Names, Entries
<1>1. CASE NoBackend \/ NoSuchPath \/ NotAFolder \/ Begin
  BY <1>0, <1>1 DEF NoBackend, NoSuchPath, NotAFolder, Raises, Begin, ScanFields, Outcomes
<1>2. CASE Visit \/ Return \/ Skip \/ Examine
  BY <1>0, <1>2 DEF Visit, Return, Skip, Examine, ScanFields, Outcomes
<1>3. CASE PassOver
  <2>1. \E d \in walk : unlisted' = unlisted \cup {d}
    BY <1>3 DEF PassOver
  <2>2. walk \subseteq Names
    BY DEF ScanInv, Once
  <2> QED
    BY <1>0, <1>3, <2>1, <2>2 DEF PassOver, ScanFields
<1>4. CASE PassPrimary \/ TooBig \/ ReadRefused \/ ReadRaises \/ FileScanned
  BY <1>0, <1>4 DEF PassPrimary, TooBig, ReadRefused, ReadRaises, FileScanned, NextStream, ScanFields
<1>5. CASE UnderDeclared \/ NotPrefetch \/ Recover
  <2>1. rest # <<>> /\ held' = BytesRead /\ scan' = scan /\ unlisted' = unlisted
    BY <1>5 DEF UnderDeclared, NotPrefetch, Recover, ReadReturns, Secondary, NextStream
  <2>2. IsPlace(place) /\ AtHand
    BY DEF ScanInv
  <2>3. Stream.real \in Nat
    BY <2>1, <2>2, NextAtHand, Streams
  <2>4. held' \in Nat
    BY <2>1, <2>3, CeilingAssumption DEF BytesRead
  <2> QED
    BY <1>0, <2>1, <2>4 DEF ScanFields
<1>6. CASE UNCHANGED scanVars
  BY <1>0, <1>6 DEF scanVars, ScanFields
<1> QED
  BY <1>0, <1>1, <1>2, <1>3, <1>4, <1>5, <1>6 DEF ScanStep

LEMMA ScanTyped ==
  ASSUME ScanInv, ScanFields
  PROVE  ScanTypeOK
<1>1. /\ targets \subseteq Names /\ examined \subseteq Names /\ skipped \subseteq Names
      /\ walk \subseteq Names
  BY DEF ScanInv, Once
<1>2. entry \in Names \cup {None}
  BY DEF ScanInv, AtHand
<1>3. \A k \in DOMAIN findings : findings[k].entry \in Names /\ findings[k].read \in BOOLEAN
  <2> SUFFICES ASSUME NEW k \in DOMAIN findings
               PROVE  findings[k].entry \in Names /\ findings[k].read \in BOOLEAN
    OBVIOUS
  <2>1. findings[k] \in AllFindings
    BY DEF ScanInv, FindingsInv
  <2>2. PICK e \in Names : findings[k] \in Told(e, StreamCount(e))
    BY <2>1 DEF AllFindings
  <2>3. PICK s : findings[k] = [entry |-> e, stream |-> s, read |-> Expected(s) = "read"]
    BY <2>2 DEF Told
  <2> QED
    BY <2>3
<1> QED
  BY <1>1, <1>2, <1>3 DEF ScanFields, ScanTypeOK

CliFields ==
  /\ at \in {"main", "parse", "ads", "artifacts", "db", "csv", "leave", "exit"}
  /\ \A f \in DOMAIN files : files[f] \in Contents
  /\ written \subseteq {"db", "csv", "summary"} /\ failed \subseteq {"db", "csv", "summary"}
  /\ code \in {None, 0, 1, 2, 120}

LEMMA WrittenContents ==
  ASSUME NEW some \in SUBSET {"db", "csv", "summary"}, \A f \in DOMAIN files : files[f] \in Contents
  PROVE  \A f \in DOMAIN Written(some) : Written(some)[f] \in Contents
<1> SUFFICES ASSUME NEW f \in DOMAIN files
             PROVE  Written(some)[f] \in Contents
  BY DEF Written
<1>1. CASE \E o \in some : File(o) = f
  <2>1. Written(some)[f] \in some
    BY <1>1 DEF Written
  <2> QED
    BY <2>1 DEF Contents
<1>2. CASE ~\E o \in some : File(o) = f
  BY <1>2 DEF Written
<1> QED
  BY <1>1, <1>2

LEMMA CliFieldsStep ==
  ASSUME OutputsInv, CliFields, [Next]_vars
  PROVE  CliFields'
<1>0. at' \in {"main", "parse", "ads", "artifacts", "db", "csv", "leave", "exit"}
  BY OutputsInductive DEF OutputsInv
<1>1. CASE UNCHANGED <<files, written, failed>> /\ code' \in {code, 0, 1, 2, 120}
  BY <1>0, <1>1 DEF CliFields
<1>2. CASE WriteDb \/ DbFails
  <2>1. written' \subseteq {"db", "csv", "summary"} /\ failed' \subseteq {"db", "csv", "summary"} /\ code' = code
    BY <1>2 DEF WriteDb, DbFails, CliFields
  <2>2. \E what \in {"db", "part"} : files' = files \/ files' = [files EXCEPT ![File("db")] = what]
    BY <1>2 DEF WriteDb, DbFails
  <2>3. \A f \in DOMAIN files' : files'[f] \in Contents
    BY <2>2 DEF CliFields, Contents
  <2> QED
    BY <1>0, <2>1, <2>3 DEF CliFields
<1>3. CASE WriteCsv \/ CsvFails
  <2>1. CsvOutputs \subseteq {"db", "csv", "summary"} /\ {"csv"} \subseteq {"db", "csv", "summary"}
    BY DEF CsvOutputs
  <2>2. written' \subseteq {"db", "csv", "summary"} /\ failed' \subseteq {"db", "csv", "summary"} /\ code' = code
    BY <1>3, <2>1 DEF WriteCsv, CsvFails, CliFields
  <2>3. files' = files \/ files' = Written(CsvOutputs) \/ files' = Written({"csv"})
    BY <1>3 DEF WriteCsv, CsvFails
  <2>4. \A f \in DOMAIN files' : files'[f] \in Contents
    BY <2>1, <2>3, WrittenContents DEF CliFields
  <2> QED
    BY <1>0, <2>2, <2>4 DEF CliFields
<1>4. CASE Refuse \/ Dispatch \/ NoDb \/ NoCsv
  BY <1>1, <1>4 DEF Refuse, Dispatch, NoDb, NoCsv, Exit
<1>5. CASE \/ ArgumentRaises \/ NextArgument \/ PassFile \/ Discover \/ ParseNothing
           \/ ParseRaises \/ Parse
  BY <1>1, <1>5 DEF ArgumentRaises, NextArgument, PassFile, Discover, ParseNothing, ParseRaises,
                    Parse, Leaves, Found, Exit, cliVars
<1>6. CASE Scan \/ CannotLook \/ AdsNothing \/ Ads
  BY <1>1, <1>6 DEF Scan, CannotLook, AdsNothing, Ads, Leaves, Found, Exit, cliVars
<1>7. CASE \/ ScanFolder \/ FolderNotScanned \/ ArtifactsNothing \/ CorrelateVolumes
           \/ CorrelationRaises \/ Artifacts
  BY <1>1, <1>7 DEF ScanFolder, FolderNotScanned, ArtifactsNothing, CorrelateVolumes,
                    CorrelationRaises, Artifacts, Leaves, Found, Exit, cliVars
<1>8. CASE Leave
  BY <1>1, <1>8 DEF Leave, LeaveWith, Leaves, Exit
<1>9. CASE UNCHANGED vars
  BY <1>1, <1>9 DEF vars, cliVars
<1> QED
  BY <1>2, <1>3, <1>4, <1>5, <1>6, <1>7, <1>8, <1>9 DEF Next

-----------------------------------------------------------------------------
\* Of numbers there is a least, and what has a bound has a greatest.
LEMMA LeastNat ==
  ASSUME NEW T, T \subseteq Nat, T # {}
  PROVE  \E m \in T : \A k \in T : m <= k
<1>1. \E m \in T : \A k \in T : ~(<<k, m>> \in OpToRel(<, Nat))
  BY NatLessThanWellFounded, WFMin
<1>2. PICK m \in T : \A k \in T : ~(<<k, m>> \in OpToRel(<, Nat))
  BY <1>1
<1>3. ASSUME NEW k \in T
      PROVE  m <= k
  <2>1. k \in Nat /\ m \in Nat
    BY <1>2, <1>3
  <2>2. ~(k < m)
    BY <1>2, <1>3, <2>1 DEF OpToRel
  <2> QED
    BY <2>1, <2>2
<1> QED
  BY <1>3

LEMMA MinIs ==
  ASSUME NEW T, T \subseteq Nat, T # {}
  PROVE  Min(T) \in T /\ \A k \in T : Min(T) <= k
BY LeastNat DEF Min

LEMMA MaxIs ==
  ASSUME NEW T, T \subseteq Nat, T # {}, NEW top \in Nat, \A k \in T : k <= top
  PROVE  Max(T) \in T /\ \A k \in T : k <= Max(T)
<1> DEFINE U == {m \in 0 .. top : \A k \in T : k <= m}
<1>1. PICK m \in U : \A k \in U : m <= k
  <2>1. U \subseteq Nat /\ top \in U
    OBVIOUS
  <2> HIDE DEF U
  <2> QED
    BY <2>1, LeastNat
<1>2. m \in T
  <2>1. SUFFICES ASSUME m \notin T PROVE FALSE
    OBVIOUS
  <2>2. m \in Nat /\ \A k \in T : k < m /\ k \in Nat
    BY <2>1
  <2>3. PICK t \in T : TRUE
    OBVIOUS
  <2>4. m > 0 /\ m <= top
    BY <2>2, <2>3
  <2>5. \A k \in T : k <= m - 1
    BY <2>2
  <2>6. m - 1 \in U
    BY <2>2, <2>4, <2>5
  <2> QED
    BY <1>1, <2>2, <2>6
<1>3. \A k \in T : k <= m
  OBVIOUS
<1> QED
  BY <1>2, <1>3 DEF Max

(*****************************************************************************)
(* The decompressor's register.  Bits still to be filled are zero, so what    *)
(* the code does with |= the model does with +, and nothing leaves two words; *)
(* the entries of a complete code tile the table, so whatever bits are next,  *)
(* they are a symbol.  A power of two is the number of subsets of a set.      *)

\* Powers of two, as numbers of sets.
LEMMA Power ==
  ASSUME NEW n \in Nat
  PROVE  2 ^ n \in Nat \ {0}
<1>1. IsFiniteSet(1 .. n) /\ Cardinality(1 .. n) = n
  BY FS_Interval
<1>2. IsFiniteSet(SUBSET (1 .. n)) /\ Cardinality(SUBSET (1 .. n)) = 2 ^ n
  BY <1>1, FS_SUBSET
<1>3. SUBSET (1 .. n) # {}
  OBVIOUS
<1> QED
  BY <1>2, <1>3, FS_CardinalityType, FS_EmptySet

LEMMA PowerOfSum ==
  ASSUME NEW a \in Nat, NEW b \in Nat
  PROVE  2 ^ (a + b) = 2 ^ a * 2 ^ b
<1> DEFINE A == 1 .. a
           B == (a + 1) .. (a + b)
           C == 1 .. (a + b)
           Pairs == (SUBSET A) \X (SUBSET B)
<1>1. /\ IsFiniteSet(A) /\ Cardinality(A) = a
      /\ IsFiniteSet(B) /\ Cardinality(B) = b
      /\ IsFiniteSet(C) /\ Cardinality(C) = a + b
  <2>1. \A x, y \in Nat : IsFiniteSet((x + 1) .. y) /\ (x <= y => Cardinality((x + 1) .. y) = y - x)
    <3> SUFFICES ASSUME NEW x \in Nat, NEW y \in Nat
                 PROVE  IsFiniteSet((x + 1) .. y) /\ (x <= y => Cardinality((x + 1) .. y) = y - x)
      OBVIOUS
    <3> DEFINE z == x + 1
    <3>1. z \in Int /\ y \in Int
      OBVIOUS
    <3> HIDE DEF z
    <3>2. IsFiniteSet(z .. y) /\ Cardinality(z .. y) = IF z > y THEN 0 ELSE y - z + 1
      BY <3>1, FS_Interval
    <3>3. x <= y => (IF z > y THEN 0 ELSE y - z + 1) = y - x
      BY DEF z
    <3> QED
      BY <3>2, <3>3 DEF z
  <2>2. IsFiniteSet((0 + 1) .. a) /\ Cardinality((0 + 1) .. a) = a - 0
    BY <2>1
  <2>3. a + b \in Nat /\ a <= a + b /\ 0 <= a + b
    OBVIOUS
  <2>4. IsFiniteSet((0 + 1) .. (a + b)) /\ Cardinality((0 + 1) .. (a + b)) = (a + b) - 0
    BY <2>1, <2>3
  <2>5. IsFiniteSet((a + 1) .. (a + b)) /\ Cardinality((a + 1) .. (a + b)) = (a + b) - a
    BY <2>1, <2>3
  <2>6. 0 + 1 = 1 /\ a - 0 = a /\ (a + b) - 0 = a + b /\ (a + b) - a = b
    OBVIOUS
  <2> QED
    BY <2>2, <2>4, <2>5, <2>6
<1>2. A \cup B = C /\ A \cap B = {}
  OBVIOUS
<1> HIDE DEF A, B, C
<1>3. /\ IsFiniteSet(SUBSET A) /\ Cardinality(SUBSET A) = 2 ^ a
      /\ IsFiniteSet(SUBSET B) /\ Cardinality(SUBSET B) = 2 ^ b
      /\ IsFiniteSet(SUBSET C) /\ Cardinality(SUBSET C) = 2 ^ (a + b)
  BY <1>1, FS_SUBSET
<1>4. IsFiniteSet(Pairs) /\ Cardinality(Pairs) = 2 ^ a * 2 ^ b
  BY <1>3, FS_Product
<1>5. ExistsBijection(SUBSET C, Pairs)
  <2> DEFINE f == [X \in SUBSET C |-> <<X \cap A, X \cap B>>]
  <2>1. f \in [SUBSET C -> Pairs]
    OBVIOUS
  <2>2. \A X, Y \in SUBSET C : f[X] = f[Y] => X = Y
    <3> SUFFICES ASSUME NEW X \in SUBSET C, NEW Y \in SUBSET C, f[X] = f[Y]
                 PROVE  X = Y
      OBVIOUS
    <3>1. f[X] = <<X \cap A, X \cap B>> /\ f[Y] = <<Y \cap A, Y \cap B>>
      OBVIOUS
    <3>2. X \cap A = Y \cap A /\ X \cap B = Y \cap B
      BY <3>1
    <3> QED
      BY <1>2, <3>2
  <2>3. \A p \in Pairs : \E X \in SUBSET C : f[X] = p
    <3> SUFFICES ASSUME NEW p \in Pairs PROVE \E X \in SUBSET C : f[X] = p
      OBVIOUS
    <3>0. PICK X \in SUBSET A, Y \in SUBSET B : p = <<X, Y>>
      OBVIOUS
    <3>1. X \cup Y \in SUBSET C /\ (X \cup Y) \cap A = X /\ (X \cup Y) \cap B = Y
      BY <1>2
    <3>2. f[X \cup Y] = <<(X \cup Y) \cap A, (X \cup Y) \cap B>>
      BY <3>1
    <3> QED
      BY <3>0, <3>1, <3>2
  <2> HIDE DEF f
  <2>4. f \in Bijection(SUBSET C, Pairs)
    BY <2>1, <2>2, <2>3 DEF Bijection, Injection, Surjection, IsInjective
  <2> QED
    BY <2>4 DEF ExistsBijection
<1>6. Cardinality(Pairs) = Cardinality(SUBSET C)
  BY <1>3, <1>5, FS_Bijection
<1> QED
  BY <1>3, <1>4, <1>6

LEMMA PowerGrows ==
  ASSUME NEW a \in Nat, NEW b \in Nat, a <= b
  PROVE  2 ^ a <= 2 ^ b
<1>1. b - a \in Nat /\ b = a + (b - a)
  OBVIOUS
<1>2. 2 ^ b = 2 ^ a * 2 ^ (b - a)
  BY <1>1, PowerOfSum
<1>3. 2 ^ a \in Nat /\ 2 ^ (b - a) \in Nat \ {0}
  BY <1>1, Power
<1>4. \A x \in Nat, y \in Nat \ {0} : x <= x * y
  OBVIOUS
<1> QED
  BY <1>2, <1>3, <1>4

\* Products of numbers.
LEMMA ProductBelow ==
  ASSUME NEW a \in Nat, NEW b \in Nat, NEW c \in Nat \ {0}, a < b
  PROVE  a * c < b * c /\ a * c + c <= b * c
<1>1. b - a - 1 \in Nat /\ b = a + 1 + (b - a - 1)
  OBVIOUS
<1>2. b * c = a * c + c + (b - a - 1) * c
  BY <1>1
<1>3. (b - a - 1) * c \in Nat /\ a * c \in Nat
  BY <1>1
<1> QED
  BY <1>2, <1>3

LEMMA Division ==
  ASSUME NEW x \in Int, NEW d \in Int, d > 0
  PROVE  x = (x \div d) * d + (x % d)
BY Z3

LEMMA Remainder ==
  ASSUME NEW x \in Nat, NEW d \in Nat \ {0}
  PROVE  x % d \in 0 .. d - 1 /\ x \div d \in Nat /\ x = (x \div d) * d + (x % d)
<1>1. x % d \in 0 .. d - 1 /\ x \div d \in Int
  OBVIOUS
<1>0. x = (x \div d) * d + (x % d)
  <2>1. x \in Int /\ d \in Int /\ d > 0
    OBVIOUS
  <2> QED
    BY <2>1, Division
<1>2. ASSUME NEW q \in Int, q < 0 PROVE q * d + d <= 0
  <2>1. -q - 1 \in Nat
    BY <1>2
  <2>2. (-q - 1) * d \in Nat
    BY <2>1
  <2> QED
    BY <1>2, <2>2
<1> QED
  BY <1>0, <1>1, <1>2

LEMMA RemainderIs ==
  ASSUME NEW d \in Nat \ {0}, NEW q \in Nat, NEW r \in 0 .. d - 1
  PROVE  (q * d + r) % d = r /\ (q * d + r) \div d = q
<1> DEFINE x == q * d + r
<1>1. x \in Nat
  OBVIOUS
<1> HIDE DEF x
<1>2. x % d \in 0 .. d - 1 /\ x \div d \in Nat /\ x = (x \div d) * d + (x % d)
  BY <1>1, Remainder
<1>3. x = q * d + r
  BY DEF x
<1>4. ~(x \div d < q)
  <2> SUFFICES ASSUME x \div d < q PROVE FALSE
    OBVIOUS
  <2>1. (x \div d) * d + d <= q * d
    BY <1>2, ProductBelow
  <2> QED
    BY <1>2, <1>3, <2>1
<1>5. ~(q < x \div d)
  <2> SUFFICES ASSUME q < x \div d PROVE FALSE
    OBVIOUS
  <2>1. q * d + d <= (x \div d) * d
    BY <1>2, ProductBelow
  <2> QED
    BY <1>2, <1>3, <2>1
<1>6. x \div d = q
  BY <1>2, <1>4, <1>5
<1>7. x % d = r
  BY <1>2, <1>3, <1>6
<1> QED
  BY <1>6, <1>7 DEF x

LEMMA ScaledRemainder ==
  ASSUME NEW m \in Nat, NEW a \in Nat \ {0}, NEW b \in Nat \ {0}
  PROVE  (m * a) % (b * a) = (m % b) * a
<1> DEFINE q == m \div b
           r == m % b
<1>1. q \in Nat /\ r \in 0 .. b - 1 /\ m = q * b + r
  BY Remainder
<1> HIDE DEF q, r
<1>2. m * a = q * (b * a) + r * a
  BY <1>1
<1>3. b * a \in Nat \ {0}
  OBVIOUS
<1>4. r * a < b * a /\ r * a \in Nat
  BY <1>1, ProductBelow
<1>5. r * a \in 0 .. b * a - 1
  BY <1>3, <1>4
<1> DEFINE d == b * a
           s == r * a
<1>6. d \in Nat \ {0} /\ s \in 0 .. d - 1
  BY <1>3, <1>5
<1>7. m * a = q * d + s
  BY <1>2
<1> HIDE DEF d, s
<1>8. (q * d + s) % d = s
  BY <1>1, <1>6, RemainderIs
<1>9. (m * a) % d = s
  BY <1>7, <1>8
<1> QED
  BY <1>9 DEF d, s, r

\* Bytes and words of the input are of a byte and of a word.
LEMMA Bytes ==
  /\ ByteValues \in Nat \ {0} /\ ByteValues * ByteValues <= 2 ^ WordBits
  /\ 2 ^ WordBits \in Nat \ {0} /\ 2 ^ (2 * WordBits) \in Nat \ {0}
  /\ 2 ^ WordBits * 2 ^ WordBits = 2 ^ (2 * WordBits)
<1> DEFINE h == WordBits \div 2
<1>1. h \in Nat /\ h + h <= WordBits /\ WordBits \in Nat /\ 2 * WordBits = WordBits + WordBits
  BY XpressAssumption
<1>2. ByteValues = 2 ^ h
  BY DEF ByteValues
<1> HIDE DEF h
<1>3. 2 ^ h * 2 ^ h = 2 ^ (h + h) /\ 2 ^ (h + h) <= 2 ^ WordBits
  BY <1>1, PowerOfSum, PowerGrows
<1>4. 2 ^ WordBits * 2 ^ WordBits = 2 ^ (WordBits + WordBits)
  BY <1>1, PowerOfSum
<1>5. WordBits + WordBits \in Nat
  BY <1>1
<1> QED
  BY <1>1, <1>2, <1>3, <1>4, <1>5, Power

LEMMA WordIs ==
  ASSUME stream \in Seq(Int), NEW k \in Nat, k + 2 <= Len(stream)
  PROVE  Word(k) \in 0 .. 2 ^ WordBits - 1
<1>1. k + 1 \in DOMAIN stream /\ (k + 1) + 1 \in DOMAIN stream
  OBVIOUS
<1>2. \A j \in Nat : j + 1 \in DOMAIN stream => Byte(j) \in 0 .. ByteValues - 1
  <2> SUFFICES ASSUME NEW j \in Nat, j + 1 \in DOMAIN stream PROVE Byte(j) \in 0 .. ByteValues - 1
    OBVIOUS
  <2>1. stream[j + 1] \in Int
    OBVIOUS
  <2> QED
    BY <2>1, Bytes DEF Byte
<1> DEFINE a == Byte(k)
           b == Byte(k + 1)
           v == ByteValues
<1>3. a \in 0 .. v - 1 /\ b \in 0 .. v - 1
  BY <1>1, <1>2
<1>4. Word(k) = a + v * b
  BY DEF Word
<1>5. v \in Nat \ {0} /\ v * v <= 2 ^ WordBits /\ 2 ^ WordBits \in Nat
  BY Bytes
<1> HIDE DEF a, b, v
<1>6. b < v /\ b \in Nat /\ a \in Nat /\ a < v
  BY <1>3, <1>5
<1>7. b * v + v <= v * v
  BY <1>5, <1>6, ProductBelow
<1>8. v * b = b * v /\ b * v \in Nat /\ v * v \in Nat
  BY <1>5, <1>6
<1>9. a + v * b < 2 ^ WordBits /\ a + v * b \in Nat
  BY <1>5, <1>6, <1>7, <1>8
<1> QED
  BY <1>4, <1>5, <1>9

\* The register: of its two words, the bits beyond the first one and `extra` more
\* are still to be filled, and zero.
Filled(bits, extra) ==
  /\ extra \in 0 .. WordBits /\ bits \in 0 .. 2 ^ (2 * WordBits) - 1
  /\ \E m \in Nat : bits = m * 2 ^ (WordBits - extra)

LEMMA ShiftedOut ==
  ASSUME Filled(nextBits, extraBits), NEW n \in 0 .. WordBits
  PROVE  \E m \in Nat : /\ Shifted(n) = m * 2 ^ (WordBits - extraBits + n)
                        /\ m < 2 ^ (WordBits + extraBits - n)
<1>0. WordBits \in Nat /\ extraBits \in 0 .. WordBits /\ n \in Nat /\ nextBits \in Nat
  BY XpressAssumption, Bytes DEF Filled
<1>1. PICK m \in Nat : nextBits = m * 2 ^ (WordBits - extraBits)
  BY DEF Filled
<1> DEFINE low  == WordBits - extraBits
           gone == WordBits - extraBits + n
           high == WordBits + extraBits - n
<1>2. low \in Nat /\ gone \in Nat /\ high \in Nat /\ gone = low + n /\ 2 * WordBits = high + gone
  BY <1>0
<1>3. nextBits = m * 2 ^ low
  BY <1>1
<1>4. Shifted(n) = (nextBits * 2 ^ n) % 2 ^ (high + gone)
  BY <1>2 DEF Shifted
<1> HIDE DEF low, gone, high
<1>5. 2 ^ gone = 2 ^ low * 2 ^ n /\ 2 ^ (high + gone) = 2 ^ high * 2 ^ gone
  BY <1>0, <1>2, PowerOfSum
<1>6. 2 ^ low \in Nat /\ 2 ^ n \in Nat /\ 2 ^ high \in Nat \ {0} /\ 2 ^ gone \in Nat \ {0}
  BY <1>0, <1>2, Power
<1>7. nextBits * 2 ^ n = m * 2 ^ gone
  <2> DEFINE a == 2 ^ low
             b == 2 ^ n
  <2>1. a \in Nat /\ b \in Nat /\ nextBits = m * a /\ 2 ^ gone = a * b
    BY <1>3, <1>5, <1>6
  <2> HIDE DEF a, b
  <2>2. (m * a) * b = m * (a * b)
    BY <2>1
  <2> QED
    BY <2>1, <2>2 DEF b
<1>8. Shifted(n) = (m % 2 ^ high) * 2 ^ gone
  BY <1>4, <1>5, <1>6, <1>7, ScaledRemainder
<1>9. m % 2 ^ high \in 0 .. 2 ^ high - 1
  BY <1>6, Remainder
<1>10. m % 2 ^ high \in Nat /\ m % 2 ^ high < 2 ^ high
  BY <1>6, <1>9
<1> QED
  BY <1>8, <1>10 DEF gone, high

\* n bits are taken and, where a word comes in, it fits below the ones that are left.
LEMMA TakeKeeps ==
  ASSUME Filled(nextBits, extraBits), stream \in Seq(Int), pos \in 0 .. Len(stream),
         NEW n \in 0 .. WordBits, TakeBits(n)
  PROVE  Filled(nextBits', extraBits') /\ pos' \in 0 .. Len(stream)
<1>0. /\ WordBits \in Nat /\ extraBits \in 0 .. WordBits /\ n \in 0 .. WordBits /\ n \in Nat
      /\ 2 ^ (2 * WordBits) \in Nat
  BY XpressAssumption, Bytes DEF Filled
<1> DEFINE gone == WordBits - extraBits + n
           high == WordBits + extraBits - n
<1>1. gone \in Nat /\ high \in Nat /\ 2 * WordBits = high + gone
  BY <1>0
<1>2. PICK m \in Nat : Shifted(n) = m * 2 ^ gone /\ m < 2 ^ high
  BY ShiftedOut
<1>3. 2 ^ (2 * WordBits) = 2 ^ high * 2 ^ gone /\ 2 ^ high \in Nat \ {0} /\ 2 ^ gone \in Nat \ {0}
  BY <1>1, PowerOfSum, Power
<1>4. CASE extraBits >= n /\ Enough(n)
  <2>1. nextBits' = Shifted(n) /\ extraBits' = extraBits - n /\ pos' = pos
    BY <1>4 DEF Enough
  <2>2. WordBits - extraBits' = gone /\ extraBits' \in 0 .. WordBits
    BY <1>0, <1>4, <2>1
  <2>3. m * 2 ^ gone < 2 ^ high * 2 ^ gone /\ m * 2 ^ gone \in Nat
    <3> HIDE DEF gone, high
    <3> QED
      BY <1>2, <1>3, ProductBelow
  <2>4. nextBits' \in 0 .. 2 ^ (2 * WordBits) - 1
    BY <1>0, <1>2, <1>3, <2>1, <2>3
  <2>5. nextBits' = m * 2 ^ (WordBits - extraBits')
    BY <1>2, <2>1, <2>2
  <2> QED
    BY <2>1, <2>2, <2>4, <2>5 DEF Filled
<1>5. CASE extraBits < n /\ Refill(n)
  <2> DEFINE short == n - extraBits
             word  == Word(pos)
             y     == m * 2 ^ WordBits + word
  <2>1. /\ nextBits' = Shifted(n) + word * 2 ^ short
        /\ extraBits' = extraBits - n + WordBits /\ pos' = pos + 2 /\ pos + 2 <= Len(stream)
    BY <1>5 DEF Refill, Room
  <2>2. /\ short \in Nat /\ gone = WordBits + short /\ WordBits - extraBits' = short
        /\ extraBits' \in 0 .. WordBits /\ high + WordBits \in Nat
        /\ 2 * WordBits = (high + WordBits) + short
    BY <1>0, <1>5, <2>1
  <2>3. word \in 0 .. 2 ^ WordBits - 1 /\ pos' \in 0 .. Len(stream)
    BY <2>1, WordIs
  <2> HIDE DEF gone, high, short, word
  <2>4. /\ 2 ^ gone = 2 ^ WordBits * 2 ^ short /\ 2 ^ short \in Nat \ {0}
        /\ 2 ^ WordBits \in Nat \ {0} /\ 2 ^ (high + WordBits) = 2 ^ high * 2 ^ WordBits
        /\ 2 ^ (2 * WordBits) = 2 ^ (high + WordBits) * 2 ^ short
        /\ 2 ^ (high + WordBits) \in Nat
    <3>1. 2 ^ gone = 2 ^ WordBits * 2 ^ short
      BY <1>0, <2>2, PowerOfSum
    <3>2. 2 ^ (high + WordBits) = 2 ^ high * 2 ^ WordBits
      BY <1>0, <1>1, PowerOfSum
    <3>3. 2 ^ (2 * WordBits) = 2 ^ (high + WordBits) * 2 ^ short
      BY <2>2, PowerOfSum
    <3> QED
      BY <1>0, <2>2, <3>1, <3>2, <3>3, Power
  <2>5. y < 2 ^ (high + WordBits) /\ y \in Nat
    <3> DEFINE a == 2 ^ WordBits
               b == 2 ^ high
    <3>1. a \in Nat \ {0} /\ b \in Nat /\ m < b /\ 2 ^ (high + WordBits) = b * a /\ word \in 0 .. a - 1
      BY <1>2, <1>3, <2>3, <2>4
    <3>2. y = m * a + word
      OBVIOUS
    <3> HIDE DEF a, b, y
    <3>3. m * a + a <= b * a
      BY <3>1, ProductBelow
    <3>4. m * a \in Nat /\ b * a \in Nat /\ word \in Nat /\ word < a
      BY <3>1
    <3> QED
      BY <3>1, <3>2, <3>3, <3>4
  <2>6. nextBits' = y * 2 ^ short
    <3> DEFINE a == 2 ^ WordBits
               b == 2 ^ short
    <3>1. a \in Nat /\ b \in Nat /\ nextBits' = m * (a * b) + word * b /\ word \in Nat
      BY <1>2, <2>1, <2>3, <2>4
    <3>2. y = m * a + word
      OBVIOUS
    <3> HIDE DEF a, b, y
    <3>3. m * (a * b) + word * b = (m * a + word) * b
      BY <3>1
    <3> QED
      BY <3>1, <3>2, <3>3 DEF b
  <2> HIDE DEF y
  <2>7. y * 2 ^ short < 2 ^ (high + WordBits) * 2 ^ short /\ y * 2 ^ short \in Nat
    BY <2>4, <2>5, ProductBelow
  <2>8. nextBits' \in 0 .. 2 ^ (2 * WordBits) - 1
    BY <1>0, <2>4, <2>6, <2>7
  <2>9. nextBits' = y * 2 ^ (WordBits - extraBits')
    BY <2>2, <2>6
  <2> QED
    BY <2>2, <2>3, <2>5, <2>8, <2>9 DEF Filled
<1> QED
  BY <1>4, <1>5 DEF TakeBits

\* The Huffman table.  The entries of the symbols, in the order of the code, follow
\* each other without a gap, so in a complete code each index is some symbol's.

SymbolsBound == Literals + WordBits * (LongNibble + 1)

IsCode(codes) ==
  /\ DOMAIN codes \subseteq 0 .. SymbolsBound - 1
  /\ \A s \in DOMAIN codes : codes[s] \in 1 .. WordBits - 1

LEMMA BoundIs == SymbolsBound \in Nat
<1>1. WordBits \in Nat /\ Literals \in Nat /\ LongNibble + 1 \in Nat
  BY XpressAssumption
<1>2. WordBits * (LongNibble + 1) \in Nat
  <2> DEFINE y == LongNibble + 1
  <2> HIDE DEF y
  <2> QED
    BY <1>1 DEF y
<1> QED
  BY <1>1, <1>2 DEF SymbolsBound

LEMMA SpanIs ==
  ASSUME NEW n \in 1 .. WordBits - 1
  PROVE  Span(n) \in Nat \ {0} /\ Span(n) <= TableSize /\ TableSize \in Nat \ {0}
<1>1. WordBits - 1 - n \in Nat /\ WordBits - 1 \in Nat /\ WordBits - 1 - n <= WordBits - 1
  BY XpressAssumption
<1> QED
  BY <1>1, Power, PowerGrows DEF Span, TableSize

LEMMA TableSizeIs == TableSize \in Nat \ {0}
<1>1. WordBits - 1 \in Nat
  BY XpressAssumption
<1> QED
  BY <1>1, Power DEF TableSize

LEMMA NoEntries ==
  ASSUME NEW codes
  PROVE  EntriesOf(codes, {}) = 0
<1>1. TableEntries(codes, {}) = {}
  BY DEF TableEntries
<1> QED
  BY <1>1, FS_EmptySet DEF EntriesOf

LEMMA EntriesCount ==
  ASSUME NEW codes, IsCode(codes), NEW S \in SUBSET DOMAIN codes
  PROVE  IsFiniteSet(TableEntries(codes, S)) /\ EntriesOf(codes, S) \in Nat
<1>1. IsFiniteSet(0 .. SymbolsBound - 1)
  <2>1. SymbolsBound - 1 \in Int
    BY BoundIs
  <2> QED
    BY <2>1, FS_Interval
<1>2. IsFiniteSet(S)
  BY <1>1, FS_Subset DEF IsCode
<1>3. IsFiniteSet(1 .. TableSize)
  BY TableSizeIs, FS_Interval
<1>4. IsFiniteSet(S \X (1 .. TableSize))
  BY <1>2, <1>3, FS_Product
<1>5. TableEntries(codes, S) \subseteq S \X (1 .. TableSize)
  BY DEF TableEntries
<1> QED
  BY <1>4, <1>5, FS_Subset, FS_CardinalityType DEF EntriesOf

LEMMA EntriesAdd ==
  ASSUME NEW codes, IsCode(codes), NEW S \in SUBSET DOMAIN codes, NEW s \in DOMAIN codes, s \notin S
  PROVE  EntriesOf(codes, S \cup {s}) = EntriesOf(codes, S) + Span(codes[s])
<1> DEFINE own == {s} \X (1 .. Span(codes[s]))
<1>1. Span(codes[s]) \in Nat \ {0} /\ Span(codes[s]) <= TableSize /\ TableSize \in Nat
  BY SpanIs DEF IsCode
<1>2. TableEntries(codes, S \cup {s}) = TableEntries(codes, S) \cup own
  <2>1. 1 .. Span(codes[s]) = {k \in 1 .. TableSize : k <= Span(codes[s])}
    BY <1>1
  <2>2. ASSUME NEW e \in TableEntries(codes, S \cup {s}) PROVE e \in TableEntries(codes, S) \cup own
    <3>1. PICK t \in S \cup {s}, k \in 1 .. TableSize : e = <<t, k>> /\ k <= Span(codes[t])
      BY DEF TableEntries
    <3>2. CASE t \in S
      BY <3>1, <3>2 DEF TableEntries
    <3>3. CASE t = s
      BY <2>1, <3>1, <3>3
    <3> QED
      BY <3>1, <3>2, <3>3
  <2>3. ASSUME NEW e \in TableEntries(codes, S) PROVE e \in TableEntries(codes, S \cup {s})
    BY DEF TableEntries
  <2>4. ASSUME NEW e \in own PROVE e \in TableEntries(codes, S \cup {s})
    <3>1. PICK k \in 1 .. Span(codes[s]) : e = <<s, k>>
      OBVIOUS
    <3>2. k \in 1 .. TableSize /\ k <= Span(codes[s])
      BY <2>1
    <3> QED
      BY <3>1, <3>2 DEF TableEntries
  <2> QED
    BY <2>2, <2>3, <2>4
<1>3. TableEntries(codes, S) \cap own = {}
  BY DEF TableEntries
<1>4. IsFiniteSet(own) /\ Cardinality(own) = Span(codes[s])
  <2>1. IsFiniteSet({s}) /\ Cardinality({s}) = 1
    BY FS_Singleton
  <2>2. IsFiniteSet(1 .. Span(codes[s])) /\ Cardinality(1 .. Span(codes[s])) = Span(codes[s])
    BY <1>1, FS_Interval
  <2>3. IsFiniteSet(own) /\ Cardinality(own) = 1 * Span(codes[s])
    BY <2>1, <2>2, FS_Product
  <2> QED
    BY <1>1, <2>3
<1> HIDE DEF own
<1>5. IsFiniteSet(TableEntries(codes, S)) /\ Cardinality(TableEntries(codes, S)) \in Nat
  BY EntriesCount DEF EntriesOf
<1>6. Cardinality(TableEntries(codes, S) \cup own) =
        Cardinality(TableEntries(codes, S)) + Cardinality(own) - Cardinality({})
  BY <1>3, <1>4, <1>5, FS_Union
<1>7. Cardinality({}) = 0
  BY FS_EmptySet
<1>8. /\ EntriesOf(codes, S \cup {s}) = Cardinality(TableEntries(codes, S) \cup own)
      /\ EntriesOf(codes, S) = Cardinality(TableEntries(codes, S))
  BY <1>2 DEF EntriesOf
<1> DEFINE a == Cardinality(TableEntries(codes, S))
           b == Cardinality(own)
<1>9. a \in Nat /\ b \in Nat /\ Cardinality(TableEntries(codes, S) \cup own) = a + b - 0
  BY <1>1, <1>4, <1>5, <1>6, <1>7
<1> HIDE DEF a, b
<1> QED
  BY <1>4, <1>8, <1>9 DEF a, b

Sooner(codes, t, s) == codes[t] < codes[s] \/ (codes[t] = codes[s] /\ t < s)

\* The order of the code, as the order of numbers.
RankOf(codes, s) == codes[s] * SymbolsBound + s

LEMMA Ranks ==
  ASSUME NEW codes, IsCode(codes), NEW s \in DOMAIN codes
  PROVE  /\ RankOf(codes, s) \in Nat /\ RankOf(codes, s) <= WordBits * SymbolsBound
         /\ \A t \in DOMAIN codes :
              /\ Sooner(codes, t, s) <=> RankOf(codes, t) < RankOf(codes, s)
              /\ RankOf(codes, t) = RankOf(codes, s) => t = s
<1> DEFINE K == SymbolsBound
<1>1. \A t \in DOMAIN codes : /\ codes[t] \in Nat /\ codes[t] < WordBits /\ t \in Nat /\ t < K
  BY BoundIs, XpressAssumption DEF IsCode
<1>2. K \in Nat \ {0} /\ WordBits \in Nat
  BY <1>1, BoundIs, XpressAssumption
<1> HIDE DEF K
<1>3. \A t \in DOMAIN codes : codes[t] * K \in Nat /\ RankOf(codes, t) = codes[t] * K + t
  <2> SUFFICES ASSUME NEW t \in DOMAIN codes PROVE codes[t] * K \in Nat /\ RankOf(codes, t) = codes[t] * K + t
    OBVIOUS
  <2>1. \A x \in Nat : x * K \in Nat
    BY <1>2
  <2> QED
    BY <1>1, <2>1 DEF RankOf, K
<1>4. \A t, u \in DOMAIN codes : codes[t] < codes[u] => codes[t] * K + K <= codes[u] * K
  BY <1>1, <1>2, ProductBelow
<1>5. codes[s] * K + K <= WordBits * K /\ WordBits * K \in Nat
  BY <1>1, <1>2, ProductBelow
<1>6. RankOf(codes, s) \in Nat /\ RankOf(codes, s) <= WordBits * K
  BY <1>1, <1>2, <1>3, <1>5
<1>7. ASSUME NEW t \in DOMAIN codes
      PROVE  /\ Sooner(codes, t, s) <=> RankOf(codes, t) < RankOf(codes, s)
             /\ RankOf(codes, t) = RankOf(codes, s) => t = s
  <2> DEFINE a == codes[t] * K
             b == codes[s] * K
  <2>1. /\ a \in Nat /\ b \in Nat /\ RankOf(codes, t) = a + t /\ RankOf(codes, s) = b + s
        /\ codes[t] < codes[s] => a + K <= b
        /\ codes[s] < codes[t] => b + K <= a
        /\ codes[s] = codes[t] => a = b
    BY <1>3, <1>4
  <2>2. /\ codes[t] \in Nat /\ codes[s] \in Nat /\ t \in Nat /\ s \in Nat /\ t < K /\ s < K
    BY <1>1
  <2> HIDE DEF a, b
  <2> QED
    BY <1>2, <2>1, <2>2 DEF Sooner
<1> QED
  BY <1>6, <1>7 DEF K

LEMMA SymbolIs ==
  ASSUME NEW codes, IsCode(codes), Complete(codes), NEW index \in 0 .. TableSize - 1
  PROVE  SymbolAt(codes, index) \in DOMAIN codes
<1> DEFINE D == DOMAIN codes
           Before(s) == {t \in D : Sooner(codes, t, s)}
           End(s)    == EntriesOf(codes, Before(s) \cup {s})
           Late      == {s \in D : index < End(s)}
           rank(s)   == RankOf(codes, s)
<1>0. TableSize \in Nat \ {0} /\ index \in Nat /\ index < TableSize
  BY TableSizeIs
<1>1. \A s \in D : FirstEntry(codes, s) = EntriesOf(codes, Before(s))
  BY DEF FirstEntry, Sooner
<1>2. \A s \in D : /\ EntriesOf(codes, Before(s)) \in Nat
                   /\ End(s) = EntriesOf(codes, Before(s)) + Span(codes[s])
  <2> SUFFICES ASSUME NEW s \in D
               PROVE  /\ EntriesOf(codes, Before(s)) \in Nat
                      /\ End(s) = EntriesOf(codes, Before(s)) + Span(codes[s])
    OBVIOUS
  <2>1. s \notin Before(s)
    BY DEF Sooner, IsCode
  <2>2. Before(s) \in SUBSET D
    OBVIOUS
  <2> HIDE DEF Before
  <2> QED
    BY <2>1, <2>2, EntriesAdd, EntriesCount
\* Some set of symbols that is not empty has a first and a last one.
<1>3. ASSUME NEW T \in SUBSET D, T # {}
      PROVE  /\ \E s \in T : \A t \in T : t = s \/ Sooner(codes, s, t)
             /\ \E s \in T : \A t \in T : t = s \/ Sooner(codes, t, s)
  <2> DEFINE R == {rank(t) : t \in T}
             top == WordBits * SymbolsBound
  <2>1. \A t \in T : rank(t) \in Nat /\ rank(t) <= top
    BY <1>3, Ranks
  <2>2. top \in Nat
    <3>1. WordBits \in Nat /\ SymbolsBound \in Nat
      BY BoundIs, XpressAssumption
    <3> QED
      BY <3>1
  <2>3. R \subseteq Nat /\ R # {} /\ \A k \in R : k <= top
    BY <1>3, <2>1
  <2>4. \A s, t \in T : rank(s) <= rank(t) => t = s \/ Sooner(codes, s, t)
    <3> SUFFICES ASSUME NEW s \in T, NEW t \in T, rank(s) <= rank(t)
                 PROVE  t = s \/ Sooner(codes, s, t)
      OBVIOUS
    <3>1. s \in D /\ t \in D
      BY <1>3
    <3>2. rank(s) \in Nat /\ rank(t) \in Nat
      BY <2>1
    <3> QED
      BY <3>1, <3>2, Ranks
  <2> HIDE DEF top
  <2>5. PICK m \in R : \A k \in R : m <= k
    <3> HIDE DEF R
    <3> QED
      BY <2>3, LeastNat
  <2>6. PICK n \in R : \A k \in R : k <= n
    <3> HIDE DEF R
    <3> QED
      BY <2>2, <2>3, MaxIs
  <2>7. PICK s \in T : rank(s) = m
    BY <2>5
  <2>8. PICK s2 \in T : rank(s2) = n
    BY <2>6
  <2> HIDE DEF rank
  <2>9. \A t \in T : t = s \/ Sooner(codes, s, t)
    BY <2>4, <2>5, <2>7
  <2>10. \A t \in T : t = s2 \/ Sooner(codes, t, s2)
    BY <2>4, <2>6, <2>8
  <2> QED
    BY <2>9, <2>10
<1>4. \A s, t, u \in D : Sooner(codes, s, t) /\ Sooner(codes, t, u) => Sooner(codes, s, u)
  BY DEF Sooner, IsCode
<1>5. \A s, t \in D : Sooner(codes, s, t) => ~Sooner(codes, t, s) /\ s # t
  BY DEF Sooner, IsCode
<1>6. D # {}
  <2> SUFFICES ASSUME D = {} PROVE FALSE
    OBVIOUS
  <2>1. EntriesOf(codes, {}) = TableSize
    BY DEF Complete
  <2> QED
    BY <1>0, <2>1, NoEntries
<1>7. Late # {}
  <2>1. PICK z \in D : \A t \in D : t = z \/ Sooner(codes, t, z)
    BY <1>3, <1>6
  <2>2. Before(z) \cup {z} = D
    BY <2>1
  <2>3. End(z) = TableSize
    BY <2>2 DEF Complete
  <2> QED
    BY <1>0, <2>3
<1>8. PICK s \in Late : \A t \in Late : t = s \/ Sooner(codes, s, t)
  <2>1. Late \in SUBSET D
    OBVIOUS
  <2> HIDE DEF Late
  <2> QED
    BY <1>3, <1>7, <2>1
<1>9. EntriesOf(codes, Before(s)) <= index
  <2> SUFFICES ASSUME ~(EntriesOf(codes, Before(s)) <= index) PROVE FALSE
    OBVIOUS
  <2>1. s \in D
    BY <1>8
  <2>2. Before(s) # {}
    BY <1>0, NoEntries
  <2>3. PICK p \in Before(s) : \A t \in Before(s) : t = p \/ Sooner(codes, t, p)
    <3>1. Before(s) \in SUBSET D
      OBVIOUS
    <3> HIDE DEF Before
    <3> QED
      BY <1>3, <2>2, <3>1
  <2>4. p \in D /\ Sooner(codes, p, s)
    BY <2>3
  <2>5. Before(p) \cup {p} = Before(s)
    BY <1>4, <2>1, <2>3, <2>4
  <2>6. index < End(p)
    <3>1. EntriesOf(codes, Before(s)) \in Nat
      BY <1>2, <2>1
    <3> QED
      BY <1>0, <2>5, <3>1
  <2>7. p \in Late
    BY <2>4, <2>6
  <2> HIDE DEF Late
  <2> QED
    BY <1>5, <1>8, <2>1, <2>4, <2>7
<1>10. s \in D /\ FirstEntry(codes, s) <= index /\ index < FirstEntry(codes, s) + Span(codes[s])
  BY <1>1, <1>2, <1>8, <1>9
<1> QED
  BY <1>10 DEF SymbolAt

\* The decoder.  It is in a block only with a complete code, and the symbol of a match is one
\* of the code's.

Symbols == 0 .. WordBits * (LongNibble + 1) - 1

XpInv ==
  /\ xp \in {"idle", "block", "symbol", "length", "offset", "copy", "returned", "refused"}
  /\ stream \in Seq(Int) /\ pos \in 0 .. Len(stream)
  /\ Filled(nextBits, extraBits)
  /\ xp \in {"symbol", "length", "offset", "copy"} => IsCode(lengths) /\ Complete(lengths)
  /\ xp \in {"length", "offset"} => "symbol" \in DOMAIN match /\ match.symbol \in Symbols

LEMMA PowerZero == 2 ^ 0 = 1
<1>1. 0 \in Nat /\ 0 + 0 = 0
  OBVIOUS
<1>2. 2 ^ (0 + 0) = 2 ^ 0 * 2 ^ 0
  BY <1>1, PowerOfSum
<1>3. 2 ^ 0 \in Nat \ {0}
  BY <1>1, Power
<1> DEFINE x == 2 ^ 0
<1>4. x = x * x /\ x \in Nat \ {0}
  BY <1>1, <1>2, <1>3
<1> HIDE DEF x
<1>5. \A y \in Nat \ {0} : y = y * y => y = 1
  OBVIOUS
<1>6. x = 1
  BY <1>4, <1>5
<1> QED
  BY <1>6 DEF x

\* A register that holds nothing.
LEMMA EmptyRegister == Filled(0, 0)
<1>1. 0 \in 0 .. WordBits /\ 0 \in 0 .. 2 ^ (2 * WordBits) - 1
  BY XpressAssumption, Bytes
<1>2. 2 ^ (WordBits - 0) \in Nat
  BY XpressAssumption, Power
<1>3. 0 = 0 * 2 ^ (WordBits - 0)
  BY <1>2
<1> QED
  BY <1>1, <1>3 DEF Filled

\* The first two words of a block fill it.
LEMMA FullRegister ==
  ASSUME NEW a \in 0 .. 2 ^ WordBits - 1, NEW b \in 0 .. 2 ^ WordBits - 1
  PROVE  Filled(a * 2 ^ WordBits + b, WordBits)
<1> DEFINE w == 2 ^ WordBits
           r == a * w + b
<1>1. WordBits \in Nat /\ w \in Nat \ {0} /\ w * w = 2 ^ (2 * WordBits)
  BY XpressAssumption, Bytes
<1> HIDE DEF w
<1>2. a \in Nat /\ b \in Nat /\ a < w /\ b < w
  BY <1>1 DEF w
<1>3. a * w + w <= w * w /\ a * w \in Nat /\ w * w \in Nat
  BY <1>1, <1>2, ProductBelow
<1>4. r \in Nat /\ r < w * w
  <2> DEFINE x == a * w
             y == w * w
  <2>1. x \in Nat /\ y \in Nat /\ x + w <= y /\ r = x + b
    BY <1>3
  <2> HIDE DEF x, y, r
  <2>2. r \in Nat /\ r < y
    BY <1>1, <1>2, <2>1
  <2> QED
    BY <2>2 DEF y
<1> HIDE DEF r
<1>5. r = r * 2 ^ (WordBits - WordBits)
  <2>1. WordBits - WordBits = 0
    BY <1>1
  <2>2. 2 ^ (WordBits - WordBits) = 1
    BY <2>1, PowerZero
  <2>3. r = r * 1
    BY <1>4
  <2> QED
    BY <2>2, <2>3
<1>6. WordBits \in 0 .. WordBits /\ r \in 0 .. 2 ^ (2 * WordBits) - 1
  BY <1>1, <1>3, <1>4
<1>7. Filled(r, WordBits)
  BY <1>4, <1>5, <1>6 DEF Filled
<1> QED
  BY <1>7 DEF r, w

\* The next bits of the register are an index of the table, so they are a symbol.
LEMMA SymbolFound ==
  ASSUME XpInv, xp = "symbol"
  PROVE  Symbol \in DOMAIN lengths /\ lengths[Symbol] \in 0 .. WordBits /\ Symbol \in 0 .. SymbolsBound - 1
<1> DEFINE high == WordBits - 1
           low  == WordBits + 1
           index == nextBits \div 2 ^ low
<1>1. IsCode(lengths) /\ Complete(lengths) /\ WordBits \in Nat
  BY XpressAssumption DEF XpInv
<1>2. high \in Nat /\ low \in Nat /\ 2 * WordBits = high + low
  BY XpressAssumption
<1>3. TableSize = 2 ^ high
  BY DEF TableSize
<1>a. Symbol = SymbolAt(lengths, index)
  BY DEF Symbol
<1> HIDE DEF high, low
<1>4. 2 ^ (2 * WordBits) = 2 ^ high * 2 ^ low /\ 2 ^ high \in Nat \ {0} /\ 2 ^ low \in Nat \ {0}
  BY <1>2, PowerOfSum, Power
<1>5. nextBits \in Nat /\ nextBits < 2 ^ high * 2 ^ low
  BY <1>4, Bytes DEF XpInv, Filled
<1> DEFINE h == 2 ^ high
           l == 2 ^ low
<1>6. /\ h \in Nat \ {0} /\ l \in Nat \ {0} /\ nextBits < h * l /\ index = nextBits \div l
  BY <1>4, <1>5
<1> HIDE DEF h, l, index
<1>7. index \in Nat /\ nextBits = index * l + (nextBits % l) /\ nextBits % l \in 0 .. l - 1
  BY <1>5, <1>6, Remainder
<1>8. index < h
  <2> SUFFICES ASSUME ~(index < h) PROVE FALSE
    OBVIOUS
  <2>1. h * l <= index * l
    <3> DEFINE most  == h * l
               given == index * l
    <3>1. most \in Nat /\ given \in Nat
      BY <1>6, <1>7
    <3>2. h < index => most < given
      BY <1>6, <1>7, ProductBelow
    <3>3. h = index => most = given
      OBVIOUS
    <3>4. h < index \/ h = index
      BY <1>6, <1>7
    <3> HIDE DEF most, given
    <3>5. most <= given
      BY <3>1, <3>2, <3>3, <3>4
    <3> QED
      BY <3>5 DEF most, given
  <2>2. index * l \in Nat /\ h * l \in Nat /\ nextBits % l \in Nat
    BY <1>6, <1>7
  <2> QED
    BY <1>5, <1>6, <1>7, <2>1, <2>2
<1>9. index \in 0 .. TableSize - 1
  BY <1>3, <1>6, <1>7, <1>8 DEF h
<1>10. Symbol \in DOMAIN lengths
  BY <1>1, <1>9, <1>a, SymbolIs
<1> QED
  BY <1>1, <1>10 DEF IsCode

\* The bits of a distance are fewer than those of a word.
LEMMA OffsetBitsFit ==
  ASSUME "symbol" \in DOMAIN match, match.symbol \in Symbols
  PROVE  OffsetBits \in 0 .. WordBits
<1> DEFINE d == LongNibble + 1
           q == match.symbol \div d
           x == match.symbol
<1>1. WordBits \in Nat /\ d \in Nat \ {0}
  BY XpressAssumption
<1>2. x \in Nat /\ x < WordBits * d
  <2>1. WordBits * d \in Nat
    BY <1>1
  <2> QED
    BY <2>1 DEF Symbols
<1>3. OffsetBits = q
  BY DEF OffsetBits
<1> HIDE DEF d, x
<1>4. q = x \div d
  BY DEF x
<1> HIDE DEF q
<1>5. q \in Nat /\ x = q * d + (x % d) /\ x % d \in 0 .. d - 1
  BY <1>1, <1>2, <1>4, Remainder
<1>6. ~(WordBits < q)
  <2> SUFFICES ASSUME WordBits < q PROVE FALSE
    OBVIOUS
  <2>1. WordBits * d < q * d
    BY <1>1, <1>5, ProductBelow
  <2>2. q * d \in Nat /\ WordBits * d \in Nat /\ x % d \in Nat
    BY <1>1, <1>5
  <2> QED
    BY <1>2, <1>5, <2>1, <2>2
<1> QED
  BY <1>1, <1>3, <1>5, <1>6

\* Cells read are cells there are.
LEMMA LengthKeeps ==
  ASSUME XpInv, xp = "length", NEW n, NEW cells \in Nat, Room(cells), HasLength(n, cells)
  PROVE  XpInv'
<1>1. /\ match' = [match EXCEPT !.length = n + 3] /\ pos' = pos + cells /\ xp' = "offset"
      /\ UNCHANGED <<stream, nextBits, extraBits, lengths>>
  BY DEF HasLength
<1>2. pos + cells <= Len(stream)
  BY DEF Room
<1>3. "symbol" \in DOMAIN match' /\ match'.symbol = match.symbol
  BY <1>1 DEF XpInv
<1> QED
  BY <1>1, <1>2, <1>3 DEF XpInv

LEMMA XpStep ==
  ASSUME XpInv, XpressStep
  PROVE  XpInv'
<1>0. stream \in Seq(Int) /\ pos \in 0 .. Len(stream) /\ Filled(nextBits, extraBits)
  BY DEF XpInv
<1>1. CASE OpenBlock
  <2>1. /\ stream' = stream /\ lengths' = HuffmanTable[-TableCell]
        /\ nextBits' = Word(pos + 1) * 2 ^ WordBits + Word(pos + 3)
        /\ pos' = pos + 5 /\ extraBits' = WordBits /\ xp' = "symbol"
        /\ pos + 5 <= Len(stream)
        /\ -TableCell \in DOMAIN HuffmanTable /\ Complete(HuffmanTable[-TableCell])
    BY <1>1 DEF OpenBlock, Room, HasTable
  <2>2. IsCode(HuffmanTable[-TableCell])
    BY <2>1, XpressAssumption DEF IsCode, SymbolsBound
  <2>3. Word(pos + 1) \in 0 .. 2 ^ WordBits - 1 /\ Word(pos + 3) \in 0 .. 2 ^ WordBits - 1
    <3>1. pos + 1 \in Nat /\ (pos + 1) + 2 <= Len(stream) /\ pos + 3 \in Nat /\ (pos + 3) + 2 <= Len(stream)
      BY <1>0, <2>1
    <3> QED
      BY <1>0, <3>1, WordIs
  <2>4. Filled(nextBits', extraBits')
    BY <2>1, <2>3, FullRegister
  <2>5. pos' \in 0 .. Len(stream)
    BY <1>0, <2>1
  <2> QED
    BY <1>0, <2>1, <2>2, <2>4, <2>5 DEF XpInv, Complete
<1>2. CASE XpressRefuses
  BY <1>2 DEF XpressRefuses, XpInv, bitVars
<1>3. CASE XpressReturns \/ EndBlock
  BY <1>3 DEF XpressReturns, EndBlock, XpInv, bitVars
<1>4. CASE Literal \/ Match
  <2>1. xp = "symbol" /\ TakeBits(lengths[Symbol])
    BY <1>4 DEF Literal, Match, InBlock
  <2>2. Symbol \in 0 .. SymbolsBound - 1 /\ lengths[Symbol] \in 0 .. WordBits
    BY <2>1, SymbolFound
  <2>3. Filled(nextBits', extraBits') /\ pos' \in 0 .. Len(stream)
    BY <1>0, <2>1, <2>2, TakeKeeps
  <2>4. stream' = stream /\ lengths' = lengths
    BY <1>4 DEF Literal, Match
  <2>5. CASE Literal
    BY <1>0, <2>1, <2>3, <2>4, <2>5 DEF Literal, XpInv, Complete
  <2>6. CASE Match
    <3>1. Symbol >= Literals /\ match' = [NoMatch EXCEPT !.symbol = Symbol - Literals] /\ xp' = "length"
      BY <2>6 DEF Match
    <3>2. "symbol" \in DOMAIN match' /\ match'.symbol = Symbol - Literals
      BY <3>1 DEF NoMatch
    <3>3. Symbol - Literals \in Symbols
      <4> DEFINE n == WordBits * (LongNibble + 1)
      <4>1. n \in Int /\ Symbol \in 0 .. (Literals + n) - 1 /\ Literals \in Nat
        <5>1. WordBits \in Int /\ LongNibble + 1 \in Int
          BY XpressAssumption
        <5> QED
          BY <2>2, <5>1, XpressAssumption DEF SymbolsBound
      <4> HIDE DEF n
      <4>2. Symbol - Literals \in 0 .. n - 1
        BY <3>1, <4>1
      <4> QED
        BY <4>2 DEF Symbols, n
    <3> QED
      BY <1>0, <2>1, <2>3, <2>4, <3>1, <3>2, <3>3 DEF XpInv, Complete
  <2> QED
    BY <1>4, <2>5, <2>6
<1>5. CASE NibbleLength \/ ByteLength \/ WordLength \/ DwordLength
  <2>1. xp = "length"
    BY <1>5 DEF NibbleLength, ByteLength, WordLength, DwordLength, Escaped
  <2>2. Room(0)
    BY <1>0 DEF Room
  <2>3. \E n : \E cells \in {0, 1, 3, 7} : Room(cells) /\ HasLength(n, cells)
    BY <1>5, <2>2 DEF NibbleLength, ByteLength, WordLength, DwordLength
  <2> QED
    BY <2>1, <2>3, LengthKeeps
<1>6. CASE Offset
  <2>1. /\ xp = "offset" /\ TakeBits(OffsetBits) /\ xp' = "copy" /\ stream' = stream
        /\ lengths' = lengths
    BY <1>6 DEF Offset
  <2>2. OffsetBits \in 0 .. WordBits
    BY <2>1, OffsetBitsFit DEF XpInv
  <2>3. Filled(nextBits', extraBits') /\ pos' \in 0 .. Len(stream)
    BY <1>0, <2>1, <2>2, TakeKeeps
  <2> QED
    BY <1>0, <2>1, <2>3 DEF XpInv, Complete
<1>7. CASE CopyByte
  BY <1>7 DEF CopyByte, XpInv, bitVars, Complete
<1> QED
  BY <1>1, <1>2, <1>3, <1>4, <1>5, <1>6, <1>7
  DEF XpressStep, BlockRefused, SymbolRefused, LengthRefused, OffsetRefused

\* A call of it, on any input.
LEMMA XpBegins ==
  ASSUME NEW data \in Seq(Int), NEW size, Decompress(data, size)
  PROVE  XpInv'
<1>1. /\ stream' = data /\ xp' = "block" /\ pos' = 0 /\ nextBits' = 0 /\ extraBits' = 0
  BY DEF Decompress
<1>2. 0 \in 0 .. Len(data)
  OBVIOUS
<1> QED
  BY <1>1, <1>2, EmptyRegister DEF XpInv

LEMMA XpKept ==
  ASSUME XpInv, UNCHANGED xpressVars
  PROVE  XpInv'
BY DEF xpressVars, bitVars, XpInv, Complete

LEMMA XpTyped ==
  ASSUME XpInv
  PROVE  XpressTypeOK
BY DEF XpInv, XpressTypeOK, Filled

===============================================================================
