-------------------------------- MODULE Parser --------------------------------
(***************************************************************************)
(* One call of parse_file: the file is looked at, read, unpacked by        *)
(* container.load and taken apart by scca._parse_body, stage after stage,  *)
(* through the reader of module Bounds.  Whatever the file holds, whatever *)
(* else fails, and although another process may append to the file         *)
(* meanwhile, the call returns a record; a file whose timestamps are no    *)
(* datetime is the exception, and the call may raise (StampRaises).        *)
(*                                                                         *)
(* The unit of length is one structure (a header, an array entry, a block) *)
(* and not a byte: 0 version and signature, 1 the rest of the header, 2    *)
(* the fixed fields of the file information and 3 its run count.           *)
(***************************************************************************)
EXTENDS Bounds, FiniteSets

CONSTANTS
  Inputs,      \* the calls: a file and the decompressor asked for
  MaxBytes,    \* MAX_PREFETCH_BYTES
  MaxBody,     \* MAX_DECOMPRESSED_BYTES
  MaxSection,  \* the 512 bytes a file-information section is believed to have
  MaxRegions,  \* _RESIDUE_MAX_REGIONS
  MaxKept,     \* _RESIDUE_MAX_TOTAL
  Padding,     \* bytes after a compressed stream that are normal
  Cap,         \* _RESIDUE_CAP
  None

HeaderSize == 2

VARIABLES
  input,    \* the call
  grown,    \* what another process appended since
  readOnce, \* the tool has read the file, and so advanced its access time
  pc,       \* the read or step that comes next
  st,       \* the stat taken before opening: [size, accessed], or None
  held,     \* len(data), the bytes held in memory
  i,        \* index of the loop that runs
  metrics,  \* metrics read but not yet on the record
  stored,   \* the local `stored` of stage EXEC_PATH
  pf,       \* the record
  onRecord  \* history: the bytes of the body whose content the record holds

vars == <<boundsVars, input, grown, readOnce, pc, st, held, i, metrics, stored, pf,
          onRecord>>

Stages == {"read", "container", "signature", "header", "fileinfo", "metrics",
           "trace_chains", "filenames", "exec_path", "volumes"}

Problems == [stage : Stages, fatal : BOOLEAN]

Places == {"stat", "open", "container", "version", "signature", "header", "fields",
           "section", "runcount", "metrics", "trace_chains", "names", "pair",
           "exec_path", "entry", "volume", "totals", "residue", "stamp", "done", "raised"}

\* The stage a read belongs to: what b.at() was last called with.
StageOf(p) ==
  CASE p \in {"version", "signature"}              -> "signature"
    [] p \in {"fields", "section", "runcount"}     -> "fileinfo"
    [] p \in {"names", "pair"}                     -> "filenames"
    [] p \in {"entry", "volume", "totals", "residue"} -> "volumes"
    [] OTHER                                       -> p

PathSources == {"stored", "conflict", "resolved", "ambiguous", "unresolved"}
Stats   == [size : Nat, accessed : BOOLEAN]
Regions == [offset : Nat, size : Nat \ {0}]

\* A Prefetch record, as far as the control of the parse shows on it.
Records ==
  [failed : Stages \cup {None}, problems : SUBSET Problems,
   decoder : {"none", "pure", "ntdll", None}, trailing : Nat \cup {None},
   stamp : Stats \cup {None}, metrics : Nat, volumes : Nat,
   path : PathSources \cup {None}, residue : SUBSET Regions,
   kept : 0..MaxKept, skipped : Nat]

ASSUME ParserAssumption ==
  /\ None \notin Stages
  /\ MaxBytes \in Nat /\ MaxKept \in Nat /\ Cap \in Nat
  /\ \A in \in Inputs :
       /\ in.length \in Nat /\ in.declared \in Nat /\ in.written \in Nat /\ in.slack \in Nat
       /\ in.tail \in {"path", "package", "padding"}
       /\ in.prefer \in {"auto", "ntdll", "pure"}
       /\ in.times \in {"fit", "refused", "outside"}
       /\ in.moff \in Int /\ in.coff \in Int /\ in.ccount \in Int /\ in.noff \in Int
       /\ in.nsize \in Int /\ in.name \in Int /\ in.voff \in Int /\ in.data \in Int
       /\ in.text \in Int

EmptyRecord ==
  [failed |-> None, problems |-> {}, decoder |-> None, trailing |-> None,
   stamp |-> None, metrics |-> 0, volumes |-> 0, path |-> None,
   residue |-> {}, kept |-> 0, skipped |-> 0]

Problem(stage, fatal) == [stage |-> stage, fatal |-> fatal]

Length == input.length + grown

Init ==
  /\ BoundsInit
  /\ input \in Inputs
  /\ grown = 0 /\ readOnce = FALSE /\ pc = "stat" /\ st = None /\ held = 0
  /\ i = 0 /\ metrics = 0 /\ stored = None /\ pf = EmptyRecord /\ onRecord = {}

locals  == <<boundsVars, i, metrics, stored, onRecord>>
outside == <<input, grown, readOnce, st, held>>

-----------------------------------------------------------------------------
\* parse_file

\* A file being written to while it is collected.
Grow ==
  /\ pc \in {"stat", "open"} /\ grown = 0 /\ input.kind = "regular"
  /\ grown' \in {1, MaxBytes + 1}
  /\ UNCHANGED <<locals, input, readOnce, pc, st, held, pf>>

\* A record that says "read" failed; only some of these exits stamp it.
NotRead(how) ==
  /\ pc' = "done"
  /\ pf' = [pf EXCEPT !.failed = "read", !.problems = {Problem("read", TRUE)},
                      !.stamp = how]
  /\ UNCHANGED <<locals, input, grown>>

Stamp(at) == [size |-> at, accessed |-> readOnce]

\* fromtimestamp and creation_time: a time may be one the platform refuses (OSError)
\* or one outside the years of a datetime (ValueError, OverflowError).
Dated == input.times = "fit"

\* No record: the exception is the caller's.
Escapes ==
  /\ pc' = "raised"
  /\ UNCHANGED <<locals, input, grown, pf>>

\* NotRead with a stamp, inside a try that catches OSError and MemoryError alone.
NotReadStamped(stamp) ==
  \/ Dated /\ NotRead(stamp)
  \/ input.times = "refused" /\ NotRead(None)
  \/ input.times = "outside" /\ Escapes

\* Mutant of StatRefuses: any path that has a size is opened.
StatRefusesErrors ==
  /\ pc = "stat"
  /\ IF input.stats
     THEN /\ input.kind # "regular"
          /\ pc' = "open" /\ st' = Stamp(Length)
          /\ UNCHANGED <<locals, input, grown, pf>>
     ELSE NotRead(None) /\ UNCHANGED st
  /\ UNCHANGED <<readOnce, held>>

\* os.stat raises, or the path is a directory, a device or a FIFO.
StatRefuses ==
  /\ pc = "stat"
  /\ ~input.stats \/ input.kind # "regular"
  /\ NotRead(None)
  /\ UNCHANGED <<readOnce, st, held>>

TooLong ==
  /\ pc = "stat"
  /\ input.stats /\ input.kind = "regular" /\ Length > MaxBytes
  /\ NotReadStamped(Stamp(Length))
  /\ UNCHANGED <<readOnce, st, held>>

Stat ==
  /\ pc = "stat"
  /\ input.stats /\ input.kind = "regular" /\ Length <= MaxBytes
  /\ st' = Stamp(Length)
  /\ pc' = "open"
  /\ UNCHANGED <<locals, input, grown, readOnce, held, pf>>

\* open() or read() raises OSError or MemoryError.  A FIFO would block here.
OpenFails ==
  /\ pc = "open" /\ ~input.opens /\ input.kind = "regular"
  /\ NotRead(None)
  /\ UNCHANGED <<readOnce, st, held>>

\* Mutant of ReadsLimited: fh.read().
ReadsAll     == Length

ReadsLimited == IF Length > MaxBytes + 1 THEN MaxBytes + 1 ELSE Length

ReadTooMuch ==
  /\ pc = "open" /\ input.opens /\ input.kind = "regular" /\ Length > MaxBytes
  /\ held' = ReadsLimited
  /\ readOnce' = TRUE
  /\ NotReadStamped(st)
  /\ UNCHANGED st

Read ==
  /\ pc = "open" /\ input.opens /\ input.kind = "regular" /\ Length <= MaxBytes
  /\ held' = ReadsLimited
  /\ readOnce' = TRUE
  /\ pc' = "container"
  /\ UNCHANGED <<locals, input, grown, st, pf>>

\* Mutant of StampSource: a stat of its own.
StampSourceAfresh ==
  /\ pc = "stamp" /\ Dated
  /\ pf' = [pf EXCEPT !.stamp = Stamp(Length)]
  /\ pc' = "done"
  /\ UNCHANGED <<locals, input, grown, readOnce, st, held>>

\* _stamp_source(pf, path, st), with the stat taken before the read.
StampSource ==
  /\ pc = "stamp" /\ Dated
  /\ pf' = [pf EXCEPT !.stamp = st]
  /\ pc' = "done"
  /\ UNCHANGED <<locals, input, grown, readOnce, st, held>>

\* Here no try is around it: whatever fromtimestamp raises, the parsed record is lost.
StampRaises ==
  /\ pc = "stamp" /\ ~Dated
  /\ Escapes
  /\ UNCHANGED <<readOnce, st, held>>

-----------------------------------------------------------------------------
\* container.load

\* What the pure decoder leaves of the container.
Slack == input.slack + grown

PureChosen ==
  \/ input.prefer = "pure"
  \/ input.prefer = "auto" /\ (~input.ntdll \/ input.os = "refuses")

OsChosen == ~PureChosen /\ input.ntdll

\* The record so far and the body: b = Bounds(body).
Body(length, decoder, trailing) ==
  /\ New(length)
  /\ pf' = [pf EXCEPT !.decoder = decoder, !.trailing = trailing,
              !.problems = IF trailing # None /\ trailing > Padding
                           THEN {Problem("container", FALSE)} ELSE {}]
  /\ pc' = "version"
  /\ UNCHANGED <<outside, i, metrics, stored, onRecord>>

NotAContainer ==
  /\ pc = "container" /\ input.box = "plain"
  /\ Body(held, "none", 0)

Openable == input.box = "mam" /\ input.declared <= MaxBody

PureDecodes ==
  /\ pc = "container" /\ Openable /\ PureChosen /\ input.pure
  /\ Body(input.declared, "pure", Slack)

\* Mutant of OsDecodes: not measured is reported as nothing there.
OsDecodesMeasured ==
  /\ pc = "container" /\ Openable /\ OsChosen /\ input.os = "decodes"
  /\ Body(input.written, "ntdll", 0)

\* ntdll says how much it wrote, and not how much it consumed.
OsDecodes ==
  /\ pc = "container" /\ Openable /\ OsChosen /\ input.os = "decodes"
  /\ Body(input.written, "ntdll", None)

\* A truncated container, one over the ceiling, a decoder that is not there or
\* refuses.  Only a refusal (PrefetchError) of ntdll is tried again with pure;
\* any other exception of it ("raises") is not.
NotUnpacked ==
  /\ pc = "container" /\ input.box # "plain"
  /\ \/ ~Openable
     \/ PureChosen /\ ~input.pure
     \/ ~PureChosen /\ ~(OsChosen /\ input.os = "decodes")
  /\ pf' = [pf EXCEPT !.failed = "container", !.problems = {Problem("container", TRUE)}]
  /\ pc' = "stamp"
  /\ UNCHANGED <<locals, outside>>

-----------------------------------------------------------------------------
\* _parse_body

Note(stage) == [pf EXCEPT !.problems = @ \cup {Problem(stage, FALSE)}]

At(p) == pc = p /\ loose = <<>>

\* Mutant of Raise: the problem is noted as any other.
RaiseNoted(stage) ==
  /\ pf' = [pf EXCEPT !.failed = stage, !.problems = @ \cup {Problem(stage, FALSE)}]
  /\ pc' = "stamp"
  /\ UNCHANGED <<locals, outside>>

\* The problem that ends the parse (b.fail).
Raise(stage) ==
  /\ pf' = [pf EXCEPT !.failed = stage, !.problems = @ \cup {Problem(stage, TRUE)}]
  /\ pc' = "stamp"
  /\ UNCHANGED <<locals, outside>>

NamesEnd  == input.noff + input.nsize
Available == IF size > input.coff THEN size - input.coff ELSE 0
\* Mutant of Usable: the declared count is believed.
UsableDeclared == input.ccount

Usable    == IF input.ccount < Available THEN input.ccount ELSE Available

\* What the next read of a place wants: offset and length.
Wanted ==
  CASE pc = "version"      -> <<0, IF size >= HeaderSize THEN HeaderSize ELSE 1>>
    [] pc = "header"       -> <<1, 1>>
    [] pc = "fields"       -> <<HeaderSize, 1>>
    [] pc = "section"      -> <<HeaderSize, input.moff - HeaderSize>>
    [] pc = "runcount"     -> <<IF input.modern THEN input.moff - 1 ELSE 3, 1>>
    [] pc = "metrics"      -> <<input.moff + i, 1>>
    [] pc = "trace_chains" -> <<input.coff, Usable>>
    [] pc = "names"        -> <<input.noff, input.nsize>>
    [] pc = "pair"         -> <<input.noff + input.name, 1>>
    [] pc = "exec_path"    -> <<NamesEnd, input.voff - NamesEnd>>
    [] pc = "entry"        -> <<input.voff + i, 1>>
    [] pc = "volume"       -> <<input.voff + input.data, 1>>

WantedFits == Fits(Wanted[1], Wanted[2])
WantedBytes == Wanted[1]..(Wanted[1] + Wanted[2] - 1)

\* A loop that is over, or an optional read the code skips.
Skips ==
  CASE pc = "section" -> ~(input.moff - HeaderSize \in 1..MaxSection /\ WantedFits)
    [] pc = "runcount" -> FALSE
    [] pc = "metrics" -> i >= input.mcount
    [] pc = "trace_chains" -> Usable <= 0
    [] pc = "pair" -> i >= metrics
    [] pc = "exec_path" -> input.voff <= NamesEnd
    [] pc = "entry" -> i >= input.vcount
    [] OTHER -> FALSE

\* A read with its bytes kept on the record, and the place that follows.
Reads(keeps, next) ==
  /\ loose = <<>> /\ ~Skips /\ WantedFits
  /\ Check(Wanted[1], Wanted[2])
  /\ onRecord' = onRecord \cup keeps
  /\ pc' = next
  /\ UNCHANGED outside

\* A read outside the file ends the parse, except in the pairing loop.
OutOfFile ==
  /\ pc \in {"version", "header", "fields", "runcount", "metrics", "trace_chains", "names",
             "exec_path", "entry", "volume"}
  /\ loose = <<>> /\ ~Skips /\ ~WantedFits
  /\ ~(pc = "runcount" /\ input.modern /\ input.moff - HeaderSize <= 1)
  /\ Raise(StageOf(pc))

Version ==
  /\ pc = "version"
  /\ Reads(WantedBytes, "signature")
  /\ UNCHANGED <<i, metrics, stored, pf>>

Signature ==
  /\ At("signature") /\ input.magic = "scca"
  /\ pc' = "header"
  /\ UNCHANGED <<locals, outside, pf>>

\* Not 'SCCA', or a version the table does not have.
NotPrefetch ==
  /\ At("signature") /\ input.magic # "scca"
  /\ Raise("signature")

Header ==
  /\ pc = "header"
  /\ Reads(WantedBytes, "fields")
  /\ pf' = IF input.says = size THEN pf ELSE Note("header")
  /\ UNCHANGED <<i, metrics, stored>>

Fields ==
  /\ pc = "fields"
  /\ Reads(WantedBytes, "section")
  /\ UNCHANGED <<i, metrics, stored, pf>>

\* The section is kept whole where its stated size is believable.
Section ==
  /\ pc = "section"
  /\ Reads(WantedBytes, "runcount")
  /\ UNCHANGED <<i, metrics, stored, pf>>

SkipSection ==
  /\ At("section") /\ Skips
  /\ pc' = "runcount"
  /\ UNCHANGED <<locals, outside, pf>>

\* "implausible file-information size": the run count would be a run time.
Implausible == input.modern /\ input.moff - HeaderSize <= 1

SectionTooShort ==
  /\ At("runcount") /\ Implausible
  /\ Raise("fileinfo")

RunCount ==
  /\ pc = "runcount" /\ ~Implausible
  /\ Reads(WantedBytes, "metrics")
  /\ i' = 0
  /\ UNCHANGED <<metrics, stored, pf>>

\* The metrics are read into a local; the record gets them with their names.
Metric ==
  /\ pc = "metrics"
  /\ Reads({}, "metrics")
  /\ i' = i + 1 /\ metrics' = metrics + 1
  /\ UNCHANGED <<stored, pf>>

MetricsDone ==
  /\ At("metrics") /\ Skips
  /\ pc' = "trace_chains"
  /\ UNCHANGED <<locals, outside, pf>>

ChainNote == IF Usable < input.ccount THEN Note("trace_chains") ELSE pf

TraceChains ==
  /\ pc = "trace_chains"
  /\ Reads(WantedBytes, "names")
  /\ pf' = ChainNote
  /\ UNCHANGED <<i, metrics, stored>>

NoTraceChains ==
  /\ At("trace_chains") /\ Skips
  /\ pc' = "names"
  /\ pf' = ChainNote
  /\ UNCHANGED <<locals, outside>>

Names ==
  /\ pc = "names"
  /\ Reads(WantedBytes, "pair")
  /\ i' = 0
  /\ pf' = IF input.mcount >= 0 /\ input.names # input.mcount THEN Note("filenames") ELSE pf
  /\ UNCHANGED <<metrics, stored>>

Paired(record) == [record EXCEPT !.metrics = @ + 1]

\* Each metric with the name its offset points at ...
Pair ==
  /\ pc = "pair"
  /\ Reads(WantedBytes \cup {input.moff + i}, "pair")
  /\ i' = i + 1
  /\ pf' = Paired(pf)
  /\ UNCHANGED <<metrics, stored>>

\* ... or with none, which is noted and ends nothing.
PairNameless ==
  /\ At("pair") /\ ~Skips /\ ~WantedFits
  /\ onRecord' = onRecord \cup {input.moff + i}
  /\ i' = i + 1
  /\ pf' = Paired(Note("filenames"))
  /\ UNCHANGED <<outside, boundsVars, pc, metrics, stored>>

PairsDone ==
  /\ At("pair") /\ Skips
  /\ pc' = "exec_path"
  /\ UNCHANGED <<locals, outside, pf>>

\* The 5a string: all up to the volumes is read, what stands in front of the
\* first NUL is kept, if it is longer than padding.
ExecPath ==
  /\ pc = "exec_path"
  /\ Reads(IF input.tail = "padding" THEN {} ELSE NamesEnd..(NamesEnd + input.text - 1),
           "entry")
  /\ stored' = IF input.tail = "padding" THEN None ELSE input.tail
  /\ i' = 0
  /\ UNCHANGED <<metrics, pf>>

NoExecPath ==
  /\ At("exec_path") /\ Skips
  /\ pc' = "entry" /\ stored' = None /\ i' = 0
  /\ UNCHANGED <<outside, boundsVars, metrics, pf, onRecord>>

VolumeEntry ==
  /\ pc = "entry"
  /\ Reads(WantedBytes, "volume")
  /\ UNCHANGED <<i, metrics, stored, pf>>

\* The volume's strings and references, and it is on the record.
VolumeData ==
  /\ pc = "volume"
  /\ Reads(WantedBytes, "entry")
  /\ i' = i + 1
  /\ pf' = [pf EXCEPT !.volumes = @ + 1]
  /\ UNCHANGED <<metrics, stored>>

VolumesDone ==
  /\ At("entry") /\ Skips
  /\ pc' = "totals"
  /\ UNCHANGED <<locals, outside, pf>>

\* _resolve_path: a package identity is not a path.
ResolvedPath ==
  IF stored = "path" THEN IF input.candidates = 0 \/ input.agrees THEN "stored" ELSE "conflict"
  ELSE CASE input.candidates = 0 -> "unresolved"
         [] input.candidates = 1 -> "resolved"
         [] OTHER -> "ambiguous"

Totals ==
  /\ At("totals")
  /\ pf' = [pf EXCEPT !.path = ResolvedPath]
  /\ pc' = "residue" /\ i' = 0
  /\ UNCHANGED <<outside, boundsVars, metrics, stored, onRecord>>

\* _residue, gap by gap; i is where the gaps looked at end.
NextGap(g) == g \in Gaps /\ g.offset >= i /\ \A h \in Gaps : h.offset >= i => g.offset <= h.offset

Capped == Cardinality(pf.residue) >= MaxRegions \/ pf.kept >= MaxKept
\* Mutant of Room: only the size of one region is limited.
RoomOfOne == Cap
Room == IF Cap < MaxKept - pf.kept THEN Cap ELSE MaxKept - pf.kept

Retained(g) == [pf EXCEPT !.residue = @ \cup {g}, !.kept = @ + (IF g.size < Room THEN g.size ELSE Room)]

\* Mutant of Residue: what the caps drop is not counted.
ResidueDropped ==
  /\ At("residue")
  /\ \E g \in Gaps :
       /\ NextGap(g)
       /\ pf' = IF GapBytes(g) \subseteq input.zero \/ Capped THEN pf ELSE Retained(g)
       /\ i' = g.offset + g.size
  /\ UNCHANGED <<outside, boundsVars, pc, metrics, stored, onRecord>>

Residue ==
  /\ At("residue")
  /\ \E g \in Gaps :
       /\ NextGap(g)
       /\ pf' = CASE GapBytes(g) \subseteq input.zero -> pf
                  [] GapBytes(g) \ input.zero # {} /\ Capped -> [pf EXCEPT !.skipped = @ + g.size]
                  [] OTHER -> Retained(g)
       /\ i' = g.offset + g.size
  /\ UNCHANGED <<outside, boundsVars, pc, metrics, stored, onRecord>>

\* The record is whole; both notes of _residue are of stage "volumes".
ResidueDone ==
  /\ At("residue") /\ \A g \in Gaps : g.offset < i
  /\ pf' = IF pf.residue # {} \/ pf.skipped > 0 THEN Note("volumes") ELSE pf
  /\ pc' = "stamp"
  /\ UNCHANGED <<locals, outside>>

MergeReads ==
  /\ Merge
  /\ UNCHANGED <<outside, pc, i, metrics, stored, pf, onRecord>>

ParseFile ==
  \/ StatRefuses \/ TooLong \/ Stat \/ OpenFails \/ ReadTooMuch \/ Read
  \/ StampSource \/ StampRaises
  \/ NotAContainer \/ PureDecodes \/ OsDecodes \/ NotUnpacked
  \/ OutOfFile \/ MergeReads \/ Version \/ Signature \/ NotPrefetch \/ Header \/ Fields
  \/ Section \/ SkipSection \/ SectionTooShort \/ RunCount \/ Metric \/ MetricsDone
  \/ TraceChains \/ NoTraceChains \/ Names \/ Pair \/ PairNameless \/ PairsDone
  \/ ExecPath \/ NoExecPath \/ VolumeEntry \/ VolumeData \/ VolumesDone \/ Totals
  \/ Residue \/ ResidueDone

Next == ParseFile \/ Grow

\* One thread runs parse_file from start to end; nothing is assumed of writers.
Spec == Init /\ [][Next]_vars /\ WF_vars(ParseFile)

-----------------------------------------------------------------------------
TypeOK ==
  /\ BoundsTypeOK
  /\ grown \in 0..(MaxBytes + 1) /\ readOnce \in BOOLEAN
  /\ pc \in Places
  /\ st \in Stats \cup {None}
  /\ held \in Nat /\ i \in Nat /\ metrics \in Nat
  /\ stored \in {None, "path", "package"}
  /\ pf \in Records
  /\ onRecord \in SUBSET Int

Done == pc = "done"

\* scca.py:142-143 (AUDIT BUG 111), "the record's verdict and its problems say the
\* same thing": a fatal problem names the stage that failed, and there is none
\* on a record that was parsed, wherever the parse ended.
VerdictMatchesProblems ==
  Done => {p.stage : p \in {q \in pf.problems : q.fatal}}
            = IF pf.failed = None THEN {} ELSE {pf.failed}

\* scca.py:253-254, "Parsed defensively - a bad count here must not lose the rest
\* of the record": trace chains end a parse for their offset alone.
BadCountLosesNothing ==
  pf.failed = "trace_chains" => input.coff < 0

\* scca.py:396-399, "The totals reported stay exact; only the retained detail is capped": on a
\* whole record the unread regions that are not zero are all there, or counted.
UnreadIsAccounted ==
  Done /\ pf.failed = None =>
    LET regions == {g \in Gaps : ~(GapBytes(g) \subseteq input.zero)} IN
      /\ pf.residue \subseteq regions
      /\ pf.skipped = Cardinality(UNION {GapBytes(g) : g \in regions \ pf.residue})

\* container.py:193-205 and 153-157: a forced decoder is never replaced, and the bytes
\* behind a compressed stream are what is there or, with ntdll, "not measured".
DecoderIsHonest ==
  pf.decoder # None =>
    /\ (input.box = "mam" /\ input.prefer # "auto") => pf.decoder = input.prefer
    /\ pf.trailing = CASE pf.decoder = "pure" -> Slack
                       [] pf.decoder = "ntdll" -> None
                       [] OTHER -> 0

\* __init__.py:71-73: an unbounded read of a file that grows is unbounded memory.
MemoryIsBounded == held <= MaxBytes + 1

\* __init__.py:110-114 (AUDIT BUG 109), "A forensic tool must not report a timestamp it
\* caused": the access time on the record is from before the file was read.
AccessIsNotOurs ==
  Done /\ pf.stamp # None => ~pf.stamp.accessed

\* __init__.py:85-87, "every input produces a row": every call returns one, on a
\* FIFO, on a file being written and on any geometry, with one exception the code
\* makes and the comment does not: a file whose timestamps are no datetime may end
\* the call with an exception, and so may no other.
EveryInputProducesRow == <>(pc = "done" \/ (pc = "raised" /\ ~Dated))

\* scca.py:418-420, "anything non-zero in there is reported instead of disappearing":
\* a byte of a whole record that is not zero is on the record or in its residue.
EveryByteReported ==
  Done /\ pf.failed = None /\ pf.skipped = 0 =>
    \A byte \in (0..(size - 1)) \ input.zero :
      byte \in onRecord \cup UNION {GapBytes(g) : g \in pf.residue}

===============================================================================
