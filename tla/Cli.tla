--------------------------------- MODULE Cli ---------------------------------
(***************************************************************************)
(* One run of pfcli parse, ads or artifacts (pfcli/__main__.py): main's    *)
(* refusals, the command's search for evidence, the one or two outputs it  *)
(* was asked for, and the exit code a script reads.                        *)
(*                                                                         *)
(* The search of `ads` is module AdsScan, that of `artifacts` FolderScan   *)
(* and then Volumes, step by step; `parse` finds what discover() yields.   *)
(* Writing is a step that works or fails: how it works is modules Store    *)
(* and OutputFile.                                                         *)
(***************************************************************************)
EXTENDS AdsScan, Volumes

CONSTANTS
  Places,   \* the folders `ads` may be given
  Requests  \* the command lines

\* Of two outputs with one resolved path or one file, the names say so: a file that two
\* different paths name exists.
IsRequest(r) ==
  /\ r.cmd \in {"parse", "ads", "artifacts"} /\ r.asked \subseteq {"db", "csv"}
  /\ \A o \in {"db", "csv", "summary"} : r.file[o] \in DOMAIN r.files
  /\ \A f \in DOMAIN r.files : r.files[f] \in {"none", "old db", "old csv"}
  /\ \A o, p \in {"db", "csv", "summary"} :
       r.file[o] = r.file[p] => r.real[o] = r.real[p] \/ r.files[r.file[o]] # "none"
  /\ r.args \in Seq(ToSet(r.args))
  /\ \A k \in DOMAIN r.args : r.args[k].holds \in Seq(ToSet(r.args[k].holds))
  /\ IsFolder(r.folder)

ASSUME CliAssumption ==
  /\ \A p \in Places : IsPlace(p)
  /\ \A r \in Requests : IsRequest(r)

VARIABLES
  argument,   \* discover: how many of the arguments it has come to
  left,       \* the files of this one it has still to look at
  seen,       \* the real paths of those it yielded
  discovered, \* and these themselves
  request,    \* the command line, and the names and files it means
  at,         \* where the command is
  records,    \* what was found
  files,      \* what every file holds
  written,    \* the outputs announced as written ("wrote ... to ...")
  failed,     \* the outputs announced as not written
  code        \* the exit code, or None

cliVars      == <<request, at, records, files, written, failed, code>>
discoverVars == <<argument, left, seen, discovered>>
searchVars   == <<scanVars, folderVars, volumeVars>>
findVars     == <<searchVars, discoverVars>>
vars         == <<findVars, cliVars>>

\* Mutant of Outputs: the second file of `artifacts --csv` is forgotten.
OutputsGiven == request.asked

\* `artifacts --csv` writes a -summary.csv beside the file it is given.
Outputs ==
  request.asked
    \cup (IF request.cmd = "artifacts" /\ "csv" \in request.asked THEN {"summary"} ELSE {})

File(o) == request.file[o]
Real(o) == request.real[o]

Contents == {"none", "db", "csv", "summary", "old db", "old csv", "part"}

Init ==
  /\ request \in Requests
  /\ ScanInit(Places) /\ FolderInit(request.folder) /\ VolumesInit
  /\ argument = 0 /\ left = <<>> /\ seen = {} /\ discovered = <<>>
  /\ request.cmd = "ads" \/ place = CHOOSE p \in Places : TRUE
  /\ at = "main" /\ records = <<>> /\ files = request.files
  /\ written = {} /\ failed = {} /\ code = None

Exit(n) == at' = "exit" /\ code' = n

-----------------------------------------------------------------------------
\* main

Unavailable == request.forced = "ntdll" /\ ~request.ntdll

\* Two outputs of one resolved path, or of one file that exists by now.
Collide ==
  \E a, b \in Outputs :
    a # b /\ (Real(a) = Real(b) \/ (File(a) = File(b) /\ files[File(a)] # "none"))

Refuse ==
  /\ at = "main"
  /\ Unavailable \/ Collide
  /\ Exit(2)
  /\ UNCHANGED <<findVars, request, records, files, written, failed>>

Dispatch ==
  /\ at = "main" /\ ~Unavailable /\ ~Collide
  /\ at' = request.cmd
  /\ UNCHANGED <<findVars, request, records, files, written, failed, code>>

\* The command found something, and goes on to its outputs.
Found(what) ==
  /\ records' = what /\ at' = "db"
  /\ UNCHANGED <<findVars, request, files, written, failed, code>>

\* It prints why not, and is over.
Leaves(n) ==
  /\ Exit(n)
  /\ UNCHANGED <<findVars, request, records, files, written, failed>>

-----------------------------------------------------------------------------
\* cmd_parse: discover(), one file after another of one argument after another; then
\* parse_file for each (module Parser).

\* _walk: the argument itself, or what is in the folder; nothing of one that os.walk
\* cannot list, nor of a name that leads nowhere.
Holds(arg) ==
  IF arg.kind = "file" \/ (arg.kind = "folder" /\ arg.listable) THEN arg.holds ELSE <<>>

\* Of a folder the names that end in .pf, and without recursion the files right in it.
Walks(arg, f) ==
  arg.kind = "file" \/ (f.pf /\ (request.recurse \/ (~f.deep /\ f.regular)))

\* os.listdir raises where os.walk yields nothing.
ListingRaises(arg) == ~request.recurse /\ arg.kind = "folder" /\ ~arg.listable

\* Mutant of Key: a file is known by the path as it is written.
KeyAsGiven(f) == f.name

\* os.path.realpath
Key(f) == f.real

Argument  == request.args[argument]
Exhausted == left = <<>> /\ argument = Len(request.args)

ArgumentRaises ==
  /\ at = "parse" /\ left = <<>> /\ argument < Len(request.args)
  /\ ListingRaises(request.args[argument + 1])
  /\ Leaves(1)

NextArgument ==
  /\ at = "parse" /\ left = <<>> /\ argument < Len(request.args)
  /\ ~ListingRaises(request.args[argument + 1])
  /\ argument' = argument + 1 /\ left' = Holds(request.args[argument + 1])
  /\ UNCHANGED <<searchVars, seen, discovered, cliVars>>

\* Not a name _walk yields, or in seen.
PassFile ==
  /\ at = "parse" /\ left # <<>>
  /\ ~Walks(Argument, Head(left)) \/ Key(Head(left)) \in seen
  /\ left' = Tail(left)
  /\ UNCHANGED <<searchVars, argument, seen, discovered, cliVars>>

Discover ==
  /\ at = "parse" /\ left # <<>>
  /\ Walks(Argument, Head(left)) /\ Key(Head(left)) \notin seen
  /\ seen' = seen \cup {Key(Head(left))} /\ discovered' = Append(discovered, Head(left))
  /\ left' = Tail(left)
  /\ UNCHANGED <<searchVars, argument, cliVars>>

ParseNothing ==
  /\ at = "parse" /\ Exhausted /\ discovered = <<>>
  /\ Leaves(1)

\* parse_file gives a record, or raises (module Parser, StampRaises); that traceback
\* is all there is then.
Raising == {k \in DOMAIN discovered : discovered[k].raises}

ParseRaises ==
  /\ at = "parse" /\ Exhausted /\ Raising # {}
  /\ Leaves(1)

Parse ==
  /\ at = "parse" /\ Exhausted /\ discovered # <<>> /\ Raising = {}
  /\ Found(discovered)

-----------------------------------------------------------------------------
\* cmd_ads

Scan ==
  /\ at = "ads"
  /\ ScanStep
  /\ UNCHANGED <<folderVars, volumeVars, discoverVars, cliVars>>

\* "Could not look" and "looked and found nothing" are different answers.
CannotLook ==
  /\ at = "ads"
  /\ \/ scan = "unavailable" /\ Leaves(2)
     \/ scan \in {"missing", "notdir"} /\ Leaves(1)

Incomplete == request.cmd = "ads" /\ skipped # {}

AdsNothing ==
  /\ at = "ads" /\ Returned /\ findings = <<>>
  /\ Leaves(IF Incomplete THEN 1 ELSE 0)

\* parse_findings
Ads ==
  /\ at = "ads" /\ Returned /\ findings # <<>>
  /\ Found(findings)

-----------------------------------------------------------------------------
\* cmd_artifacts

ScanFolder ==
  /\ at = "artifacts"
  /\ FolderStep
  /\ UNCHANGED <<scanVars, volumeVars, discoverVars, cliVars>>

\* NotADirectoryError or FileNotFoundError, and the traceback of any other.
FolderNotScanned ==
  /\ at = "artifacts" /\ fs \in {"raised", "crashed"}
  /\ Leaves(1)

ArtifactsNothing ==
  /\ at = "artifacts" /\ fs = "returned" /\ found = <<>>
  /\ Leaves(0)

CorrelateVolumes ==
  /\ at = "artifacts"
  /\ Correlate
  /\ UNCHANGED <<scanVars, discoverVars, cliVars>>

CorrelationRaises ==
  /\ at = "artifacts" /\ ToCorrelate /\ Overflows
  /\ Leaves(1)

Artifacts ==
  /\ at = "artifacts" /\ correlated
  /\ Found(found)

-----------------------------------------------------------------------------
\* The outputs, --db first.

NoDb ==
  /\ at = "db" /\ "db" \notin request.asked
  /\ at' = "csv"
  /\ UNCHANGED <<findVars, request, records, files, written, failed, code>>

\* with Store(args.db) as s: s.add_all(records), or s.add_artifacts(found)
WriteDb ==
  /\ at = "db" /\ "db" \in request.asked
  /\ files[File("db")] \in {"none", "old db"}
  /\ files' = [files EXCEPT ![File("db")] = "db"]
  /\ written' = written \cup {"db"}
  /\ at' = "csv"
  /\ UNCHANGED <<findVars, request, records, failed, code>>

\* A file that is no database stays as it is; any other may hold a part.
DbFails ==
  /\ at = "db" /\ "db" \in request.asked
  /\ files' \in {files}
       \cup (IF files[File("db")] \in {"none", "old db"}
             THEN {[files EXCEPT ![File("db")] = "part"]} ELSE {})
  /\ failed' = failed \cup {"db"}
  /\ at' = "csv"
  /\ UNCHANGED <<findVars, request, records, written, code>>

\* What --csv makes the command write.
CsvOutputs == {"csv"} \cup (IF request.cmd = "artifacts" THEN {"summary"} ELSE {})

NoCsv ==
  /\ at = "csv" /\ "csv" \notin request.asked
  /\ at' = "leave"
  /\ UNCHANGED <<findVars, request, records, files, written, failed, code>>

Written(outputs) ==
  [f \in DOMAIN files |->
     IF \E o \in outputs : File(o) = f THEN CHOOSE o \in outputs : File(o) = f ELSE files[f]]

\* atomic_write, or write_artifact_csv for the pair.
WriteCsv ==
  /\ at = "csv" /\ "csv" \in request.asked
  /\ files' = Written(CsvOutputs)
  /\ written' = written \cup CsvOutputs
  /\ at' = "leave"
  /\ UNCHANGED <<findVars, request, records, failed, code>>

\* Nothing is replaced, or only the first of the pair is.
CsvFails ==
  /\ at = "csv" /\ "csv" \in request.asked
  /\ files' \in {files} \cup (IF "summary" \in CsvOutputs THEN {Written({"csv"})} ELSE {})
  /\ failed' = failed \cup CsvOutputs
  /\ at' = "leave"
  /\ UNCHANGED <<findVars, request, records, written, code>>

\* Mutant of LeaveWith: the skipped entries are printed and not returned.
LeaveWithoutSkipped == IF failed # {} THEN 120 ELSE 0

LeaveWith == IF failed # {} THEN 120 ELSE IF Incomplete THEN 1 ELSE 0

\* Mutant of Leave: the exit code is the number of outputs that failed, and 100.
LeaveCounting ==
  /\ at = "leave"
  /\ Leaves(IF failed = {} THEN LeaveWith ELSE 100 + Cardinality(failed))

Leave ==
  /\ at = "leave"
  /\ Leaves(LeaveWith)

Next ==
  \/ Refuse \/ Dispatch
  \/ ArgumentRaises \/ NextArgument \/ PassFile \/ Discover \/ ParseNothing \/ ParseRaises \/ Parse
  \/ Scan \/ CannotLook \/ AdsNothing \/ Ads
  \/ ScanFolder \/ FolderNotScanned \/ ArtifactsNothing \/ CorrelateVolumes \/ CorrelationRaises
  \/ Artifacts
  \/ NoDb \/ WriteDb \/ DbFails \/ NoCsv \/ WriteCsv \/ CsvFails \/ Leave

\* One thread runs the command, and no call it makes blocks.
Spec == Init /\ [][Next]_vars /\ WF_vars(Next)

-----------------------------------------------------------------------------
TypeOK ==
  /\ ScanTypeOK /\ FolderTypeOK
  /\ at \in {"main", "parse", "ads", "artifacts", "db", "csv", "leave", "exit"}
  /\ \A f \in DOMAIN files : files[f] \in Contents
  /\ written \subseteq {"db", "csv", "summary"} /\ failed \subseteq {"db", "csv", "summary"}
  /\ code \in {None, 0, 1, 2, 120}

Exited == at = "exit"

\* __main__.py:726-732 (AUDIT BUG 90), "the second write silently destroyed the first,
\* while the console reported both", and DOCUMENTATION.md:82, "one unwritable destination never
\* costs the other": a run that found something ends with every output asked for
\* announced as written, and holding what this run wrote there, or as failed.
OutputsAsAnnounced ==
  Exited /\ records # <<>> =>
    /\ request.asked \subseteq written \cup failed /\ written \cap failed = {}
    /\ \A o \in written : files[File(o)] = o

\* The files of the arguments.
Given ==
  UNION {{f \in ToSet(Holds(request.args[k])) : Walks(request.args[k], f)} : k \in DOMAIN request.args}

\* DOCUMENTATION.md:77-82, what the code keeps of it.  0: the search came to its end,
\* `parse` has a record of each file, `ads` examined every entry os.walk came to, and
\* each output asked for is written.  1: nothing was found, or an exception ended the
\* search, and no file was touched; or `ads` could not examine an entry, and all
\* outputs are written.  2: nothing was looked at, and no file touched.  120: something
\* was found and an output failed.  The code departs from the page in two places: a
\* directory os.walk cannot list counts for nothing, so that 0 also comes of an `ads` or
\* `artifacts` that listed nothing at all (against lines 62-66); and 120 does not tell
\* whether `ads` skipped entries as well (against line 58).
ExitCodeIsTrue ==
  Exited =>
    /\ code = 0 =>
         /\ failed = {} /\ (records # <<>> => request.asked \subseteq written)
         /\ request.cmd = "parse" =>
              \A f \in Given : \E k \in DOMAIN records : records[k].real = f.real
         /\ request.cmd = "ads" => Returned /\ Reached \subseteq examined
         /\ request.cmd = "artifacts" => fs = "returned"
    /\ code = 1 =>
         /\ failed = {}
         /\ \/ records = <<>> /\ files = request.files
            \/ Incomplete /\ records # <<>> /\ request.asked \subseteq written
    /\ code = 2 =>
         records = <<>> /\ files = request.files /\ examined = {} /\ found = <<>> /\ argument = 0
    /\ code = 120 => records # <<>> /\ failed # {}

\* __main__.py:71-83: overlapping arguments and links give one record for each real
\* file, and none is left out or made up.
EachFileOnce ==
  request.cmd = "parse" /\ records # <<>> =>
    /\ \A f \in Given : Cardinality({k \in DOMAIN records : records[k].real = f.real}) = 1
    /\ ToSet(records) \subseteq Given

\* Every command ends, also on a tree whose links lead back into it.
CommandEnds == <>Exited

===============================================================================
