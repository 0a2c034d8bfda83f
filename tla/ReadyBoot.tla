------------------------------ MODULE ReadyBoot ------------------------------
(***************************************************************************)
(* artifacts.parse_readyboot: a boot trace.  Its payload holds a table of  *)
(* names, each record a path component and its parent's place in the table *)
(* (_read_table, _resolve_paths), and in front of it the reads the system  *)
(* made, in two sections of whole blocks (iter_io_events).                 *)
(*                                                                         *)
(* What the payload's bytes mean is the input `inner` of the file.  A      *)
(* parent's place is the number of its record; 0 is _NO_PARENT, and any    *)
(* other number a place where no record starts.                            *)
(***************************************************************************)
EXTENDS Unpack

CONSTANTS
  MaxDepth,    \* _MAX_DEPTH
  PerBlock,    \* _IO_PER_BLOCK
  MaxIoEvents  \* _MAX_IO_EVENTS

ASSUME BootAssumption == MaxDepth \in Nat /\ PerBlock \in Nat \ {0}

\* A table has records, and a block the room of PerBlock events.
IsTrace(inner) ==
  /\ inner.table \in Seq(ToSet(inner.table)) /\ inner.blocks \in Seq(ToSet(inner.blocks))
  /\ inner.sections[1] \in Nat /\ inner.sections[2] \in Nat
  /\ \A b \in DOMAIN inner.blocks :
       /\ inner.blocks[b] \in Seq(ToSet(inner.blocks[b])) /\ Len(inner.blocks[b]) = PerBlock
       /\ \A i \in 1 .. PerBlock : inner.blocks[b][i].when \in Nat

VARIABLES
  boot,    \* the file: [kind, cells, means, whole, inner]
  rb,      \* where the parser is
  names,   \* the records read: [name, parent]
  offset,  \* the record whose path is joined
  link,    \* the record its chain of parents leads to next
  chain,   \* the records passed, the last one first (parts and seen)
  paths,   \* the chains that reached a root, each the records of one path
  broken,  \* records whose chain of parents does not end
  section, \* the section of the I/O array being read
  emitted, \* events of it read, of whole blocks
  block,   \* blocks passed
  taken,   \* events of the next block read
  reads,   \* by name record: how many
  clock,   \* <<first, last>> tick seen, or nothing
  bootProblems

joinVars     == <<offset, link, chain>>
ioVars       == <<section, emitted, block, taken, reads, clock>>
bootVars     == <<boot, rb, names, joinVars, paths, broken, ioVars, bootProblems>>
readyBootVars == <<bootVars, unpackVars, decoders>>

ReadyBootInit ==
  /\ boot = <<>> /\ rb = "idle" /\ names = <<>> /\ paths = <<>> /\ broken = 0
  /\ offset = 1 /\ link = 1 /\ chain = <<>>
  /\ section = 1 /\ emitted = 0 /\ block = 0 /\ taken = 0 /\ reads = <<>> /\ clock = <<>>
  /\ bootProblems = {}

\* parse_readyboot(path, data)
ParseReadyBoot(file) ==
  /\ boot' = file /\ rb' = "payload"
  /\ names' = <<>> /\ paths' = <<>> /\ broken' = 0
  /\ offset' = 1 /\ link' = 1 /\ chain' = <<>>
  /\ section' = 1 /\ emitted' = 0 /\ block' = 0 /\ taken' = 0 /\ reads' = <<>> /\ clock' = <<>>
  /\ bootProblems' = {}
  /\ Unpack(file) /\ UNCHANGED decoders

Inner   == boot.inner
Reports(what) == bootProblems' = bootProblems \cup what
Apart   == UNCHANGED <<boot, unpackVars, decoders>>

\* return art
ReadyBootReturns(what) ==
  /\ rb' = "done" /\ Reports(what)
  /\ Apart /\ UNCHANGED <<names, joinVars, paths, broken, ioVars>>

Unpacking ==
  /\ rb = "payload" /\ un \notin {"done", "failed"}
  /\ UnpackStep
  /\ UNCHANGED bootVars

PayloadLost == rb = "payload" /\ un = "failed" /\ ReadyBootReturns({"payload did not decode"})

-----------------------------------------------------------------------------
\* _name_table_bounds, _read_table

NoTable == rb = "payload" /\ un = "done" /\ ~Inner.bounds /\ ReadyBootReturns({"not recognised"})

\* The records the walk of the table ends at: a count of 0 or above 512, a name past the
\* end, or a control character in it.
TableEnds == {k \in DOMAIN Inner.table : Inner.table[k].chars = "binary"}

Until(ends) == IF ends = {} THEN Inner.table ELSE SubSeq(Inner.table, 1, Min(ends) - 1)

\* Mutant of TableRead: a name that is not UTF-16 ends the table.
WalkedStrictly == Until({k \in DOMAIN Inner.table : Inner.table[k].chars # "text"})

TableRead == Until(TableEnds)

EmptyTable ==
  /\ rb = "payload" /\ un = "done" /\ Inner.bounds /\ TableRead = <<>>
  /\ ReadyBootReturns({"no readable records"})

ReadTable ==
  /\ rb = "payload" /\ un = "done" /\ Inner.bounds /\ TableRead # <<>>
  /\ names' = TableRead
  /\ Reports((IF TableEnds # {} \/ Inner.rest THEN {"stopped before its end"} ELSE {})
             \cup (IF \E k \in DOMAIN TableRead : TableRead[k].chars = "lossy" THEN {"decoded lossily"} ELSE {}))
  /\ rb' = "paths"
  /\ Apart /\ UNCHANGED <<joinVars, paths, broken, ioVars>>

-----------------------------------------------------------------------------
\* _resolve_paths

NoParent == 0

Joining == rb = "paths" /\ offset <= Len(names)

\* A loop, too deep, or a place without a record.
LinkBroken == link \in ToSet(chain) \/ Len(chain) >= MaxDepth \/ link \notin DOMAIN names

FollowLink ==
  /\ Joining /\ link # NoParent /\ ~LinkBroken
  /\ chain' = <<link>> \o chain /\ link' = names[link].parent
  /\ Apart /\ UNCHANGED <<rb, names, offset, paths, broken, ioVars, bootProblems>>

NextRecord == offset' = offset + 1 /\ link' = offset + 1 /\ chain' = <<>>

PathJoined ==
  /\ Joining /\ link = NoParent
  /\ paths' = Append(paths, chain) /\ NextRecord
  /\ Apart /\ UNCHANGED <<rb, names, broken, ioVars, bootProblems>>

PathDropped ==
  /\ Joining /\ link # NoParent /\ LinkBroken
  /\ broken' = broken + 1 /\ NextRecord
  /\ Apart /\ UNCHANGED <<rb, names, paths, ioVars, bootProblems>>

PathsResolved ==
  /\ rb = "paths" /\ offset > Len(names)
  /\ Reports(IF broken > 0 THEN {"unresolvable parent link"} ELSE {})
  /\ rb' = "io"
  /\ Apart /\ UNCHANGED <<names, joinVars, paths, broken, ioVars>>

Joined(records) == [k \in DOMAIN records |-> names[records[k]].name]

-----------------------------------------------------------------------------
\* iter_io_events, and the summary parse_readyboot makes of it

NoIo == rb = "io" /\ ~Inner.io /\ ReadyBootReturns({})

Claimed == Inner.sections[1] + Inner.sections[2]

\* The header ends before the array starts (io_array_start), or the two counts and the
\* file do not agree: blocks is how many fit before the table.
IoRefused ==
  /\ rb = "io" /\ Inner.io
  /\ \/ Claimed > MaxIoEvents \/ ~Inner.array
     \/ section <= 2 /\ emitted < Inner.sections[section] /\ block >= Len(Inner.blocks)
  /\ ReadyBootReturns({"I/O trace not read"})

Take ==
  IF Inner.sections[section] - emitted < PerBlock THEN Inner.sections[section] - emitted ELSE PerBlock

\* The size read is summed as the reads are.
Counted(sums, name) ==
  [n \in DOMAIN sums \cup {name} |->
     (IF n \in DOMAIN sums THEN sums[n] ELSE 0) + (IF n = name THEN 1 ELSE 0)]

\* The sections run at once, so the earliest tick need not come first.
Widened(span, tick) ==
  IF span = <<>> THEN <<tick, tick>>
  ELSE <<IF tick < span[1] THEN tick ELSE span[1], IF tick > span[2] THEN tick ELSE span[2]>>

Sections  == rb = "io" /\ Inner.io /\ Claimed <= MaxIoEvents /\ Inner.array /\ section <= 2
InSection == Sections /\ emitted < Inner.sections[section]

\* A section that does not fill its last block leaves the rest of it zeroed.
ReadEvent ==
  /\ InSection /\ block < Len(Inner.blocks) /\ taken < Take
  /\ LET event == Inner.blocks[block + 1][taken + 1]
     IN  reads' = Counted(reads, event.name) /\ clock' = Widened(clock, event.when)
  /\ taken' = taken + 1
  /\ Apart /\ UNCHANGED <<rb, names, joinVars, paths, broken, section, emitted, block, bootProblems>>

BlockRead ==
  /\ InSection /\ block < Len(Inner.blocks) /\ taken = Take
  /\ emitted' = emitted + Take /\ block' = block + 1 /\ taken' = 0
  /\ Apart /\ UNCHANGED <<rb, names, joinVars, paths, broken, section, reads, clock, bootProblems>>

NextSection ==
  /\ Sections /\ emitted >= Inner.sections[section]
  /\ section' = section + 1 /\ emitted' = 0
  /\ Apart
  /\ UNCHANGED <<rb, names, joinVars, paths, broken, block, taken, reads, clock, bootProblems>>

IoRead == rb = "io" /\ Inner.io /\ section > 2 /\ ReadyBootReturns({})

ReadyBootStep ==
  \/ Unpacking \/ PayloadLost \/ NoTable \/ EmptyTable \/ ReadTable
  \/ FollowLink \/ PathJoined \/ PathDropped \/ PathsResolved
  \/ NoIo \/ IoRefused \/ ReadEvent \/ BlockRead \/ NextSection \/ IoRead

-----------------------------------------------------------------------------
\* Reference: the records that lead from a root to a record, each the parent of the next.
LeadsTo(records, k) ==
  /\ records # <<>> /\ records[Len(records)] = k
  /\ \A j \in DOMAIN records :
       /\ records[j] \in DOMAIN Inner.table
       /\ Inner.table[records[j]].parent = IF j = 1 THEN NoParent ELSE records[j - 1]

HasPath(k) == \E j \in DOMAIN paths : LeadsTo(paths[j], k)
Dropped    == {k \in DOMAIN names : ~HasPath(k)}

\* Where the events of the two sections are: a section starts in a block of its own.
BlocksOf(n) == CHOOSE m \in 0 .. n : n <= PerBlock * m /\ PerBlock * m < n + PerBlock

EventPlaces ==
  LET first == BlocksOf(Inner.sections[1])
  IN  {p \in (1 .. first) \X (1 .. PerBlock) : PerBlock * (p[1] - 1) + p[2] <= Inner.sections[1]}
        \cup {p \in (first + 1 .. first + BlocksOf(Inner.sections[2])) \X (1 .. PerBlock) :
                PerBlock * (p[1] - first - 1) + p[2] <= Inner.sections[2]}

EventAt(p) == Inner.blocks[p[1]][p[2]]

\* Every event is counted once, for its file, and within the ticks.
EventsCounted ==
  /\ DOMAIN reads = {EventAt(p).name : p \in EventPlaces}
  /\ \A n \in DOMAIN reads : reads[n] = Cardinality({p \in EventPlaces : EventAt(p).name = n})
  /\ \A p \in EventPlaces : EventAt(p).when \in clock[1] .. clock[2]
  /\ EventPlaces # {} =>
       /\ \E p \in EventPlaces : EventAt(p).when = clock[1]
       /\ \E p \in EventPlaces : EventAt(p).when = clock[2]

\* artifacts.py:433-434 ("losing thousands of paths that way is invisible"), 319-325, 349-351 and
\* 478-480: a path is that of records of the table, from a root to the last; every
\* record read has its path, or is counted as dropped and no way of MaxDepth records
\* leads to it; and a trace that reports no problem was read whole, its records and
\* every event its header counts.
TraceAccounted ==
  rb = "done" =>
    /\ \A j \in DOMAIN paths : LeadsTo(paths[j], paths[j][Len(paths[j])])
    /\ Len(paths) + broken = Len(names) /\ broken = Cardinality(Dropped)
    /\ \A k \in Dropped : \A n \in 1 .. MaxDepth :
         ~\E records \in [1 .. n -> DOMAIN names] : LeadsTo(records, k)
    /\ bootProblems \subseteq {"decoded lossily"} =>
         /\ names = Inner.table /\ Dropped = {}
         /\ Inner.io => EventsCounted
===============================================================================
