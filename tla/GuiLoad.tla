------------------------------ MODULE GuiLoad ------------------------------
(***************************************************************************)
(* MainWindow.load, _load_artifacts, _tag_selected and _export_artifacts   *)
(* (pfgui/__main__.py): what a load does to the rows, to the tags and      *)
(* notes the analyst gave them, and to the folder artifacts kept beside    *)
(* them.  load() pumps the event loop (processEvents), so a user action -  *)
(* a second load included - can run in the middle of it: the loads in      *)
(* progress form a stack.                                                  *)
(***************************************************************************)
EXTENDS Naturals, Sequences

CONSTANTS
  Folders,      \* paths the user may open
  Unusable,     \* those that are no folder and no .pf file
  Files,        \* .pf files, by the path the rows are keyed on
  Content,      \* folder -> .pf files in it
  HasArtifacts, \* folders with Layout.ini, ReadyBoot, ... in them
  Notes,        \* texts the analyst types; NoNote is the empty one
  NoNote, NoFolder,
  Reentrant,    \* do the pumped events include user actions?
  MaxLoads,     \* bound on the loads
  MaxTags,      \* bound on the tagging dialogs
  MaxScans      \* bound on the exports that scan

ASSUME LoadAssumption ==
  /\ Unusable \subseteq Folders /\ HasArtifacts \subseteq Folders \ Unusable
  /\ Content \in [Folders -> SUBSET Files]
  /\ NoNote \notin Notes /\ NoFolder \notin Folders
  /\ Reentrant \in BOOLEAN /\ MaxLoads \in Nat /\ MaxTags \in Nat
  /\ MaxScans \in Nat

Texts == Notes \cup {NoNote}

\* A row's analyst state: tagged or not, and its note.
Untagged    == [tag |-> FALSE, note |-> NoNote]
Annotation  == [tag : BOOLEAN, note : Texts]

VARIABLES
  rows,         \* file -> its annotation, for the files that are rows
  rowsOf,       \* the folder they were parsed from
  annotations,  \* self._annotations: file -> annotation remembered
  loadedPaths,  \* self.loaded_paths
  artifacts,    \* the folder self._artifacts was scanned from; NoFolder if empty
  stack,        \* loads in progress, innermost first
  told,         \* what the last "Export folder artifacts" told the user
  typed,        \* file -> the annotation the analyst last gave it
  loads, tags, scans   \* loads, tagging dialogs, scanning exports (bounded)

vars == <<rows, rowsOf, annotations, loadedPaths, artifacts, stack, told, typed, loads, tags, scans>>

NothingTold == [said |-> "nothing", of |-> NoFolder]

Init ==
  /\ rows = [f \in {} |-> Untagged]
  /\ rowsOf = NoFolder
  /\ annotations = [f \in {} |-> Untagged]
  /\ loadedPaths = NoFolder
  /\ artifacts = NoFolder
  /\ stack = <<>>
  /\ told = NothingTold
  /\ typed = [f \in {} |-> Untagged]
  /\ loads = 0
  /\ tags = 0
  /\ scans = 0

\* The user can act: no load is running, or it is pumping events.
Responsive == stack = <<>> \/ Reentrant

Push(d, phase) == stack' = <<[folder |-> d, phase |-> phase]>> \o stack

\* load(paths): loaded_paths is set before anything is looked at.
LoadUnusable(d) ==
  /\ Responsive /\ loads < MaxLoads
  /\ d \in Unusable
  /\ loadedPaths' = d
  /\ loads' = loads + 1
  /\ UNCHANGED <<rows, rowsOf, annotations, artifacts, stack, told, typed, tags, scans>>

\* A folder without .pf files: the rows go at once, then it is scanned.
LoadWithoutFiles(d) ==
  /\ Responsive /\ loads < MaxLoads
  /\ d \notin Unusable /\ Content[d] = {}
  /\ loadedPaths' = d
  /\ rows' = [f \in {} |-> Untagged]
  /\ rowsOf' = d
  /\ Push(d, "scanning")
  /\ loads' = loads + 1
  /\ UNCHANGED <<annotations, artifacts, told, typed, tags, scans>>

LoadFiles(d) ==
  /\ Responsive /\ loads < MaxLoads
  /\ d \notin Unusable /\ Content[d] # {}
  /\ loadedPaths' = d
  /\ Push(d, "parsing")
  /\ loads' = loads + 1
  /\ UNCHANGED <<rows, rowsOf, annotations, artifacts, told, typed, tags, scans>>

Carried == {f \in DOMAIN rows : rows[f].tag \/ rows[f].note # NoNote}

\* Mutant of FinishParsing: the rows are rebuilt and nothing is remembered.
FinishParsingForgets ==
  /\ stack # <<>> /\ Head(stack).phase = "parsing"
  /\ \E parsed \in (SUBSET Content[Head(stack).folder]) \ {{}} :
       rows' = [f \in parsed |-> Untagged]
  /\ rowsOf' = Head(stack).folder
  /\ stack' = <<[Head(stack) EXCEPT !.phase = "scanning"]>> \o Tail(stack)
  /\ UNCHANGED <<annotations, loadedPaths, artifacts, told, typed, loads, tags, scans>>

\* Parsed, all of the folder or what came before a Cancel.  The annotations of
\* the old rows are remembered, then given to the new rows of the same file.
FinishParsing ==
  /\ stack # <<>> /\ Head(stack).phase = "parsing"
  /\ annotations' = [f \in DOMAIN annotations \cup Carried |->
                       IF f \in Carried THEN rows[f] ELSE annotations[f]]
  /\ \E parsed \in (SUBSET Content[Head(stack).folder]) \ {{}} :
       rows' = [f \in parsed |-> IF f \in DOMAIN annotations' THEN annotations'[f] ELSE Untagged]
  /\ rowsOf' = Head(stack).folder
  /\ stack' = <<[Head(stack) EXCEPT !.phase = "scanning"]>> \o Tail(stack)
  /\ UNCHANGED <<loadedPaths, artifacts, told, typed, loads, tags, scans>>

\* parse_file gives no row but raises - a timestamp out of datetime's range, see
\* Parser - and ends the load that called it: the rows stay those of before, under
\* the paths of the new one.
ParseRaises ==
  /\ stack # <<>> /\ Head(stack).phase = "parsing"
  /\ stack' = Tail(stack)
  /\ UNCHANGED <<rows, rowsOf, annotations, loadedPaths, artifacts, told, typed, loads, tags, scans>>

\* What scan_folder finds; a path that is no folder is skipped without a word.
Scanned(d) == IF d \in HasArtifacts THEN d ELSE NoFolder

\* What the user reads at the end of an export of what the folder kept holds.
Report(kept, d) ==
  told' = IF kept = NoFolder THEN [said |-> "scanned and empty", of |-> d]
          ELSE [said |-> "exported", of |-> kept]

\* _load_artifacts stores what it found for the paths it was called with; the
\* export that called it goes on to write its files or to say there is nothing.
FinishScanning ==
  /\ stack # <<>> /\ Head(stack).phase \in {"scanning", "exporting"}
  /\ artifacts' = Scanned(Head(stack).folder)
  /\ IF Head(stack).phase = "exporting" THEN Report(artifacts', Head(stack).folder)
     ELSE UNCHANGED told
  /\ stack' = Tail(stack)
  /\ UNCHANGED <<rows, rowsOf, annotations, loadedPaths, typed, loads, tags, scans>>

\* _load_artifacts raises: scan_folder before anything is kept (a file's date is
\* out of range), or correlate_volumes after (a volume's, see Volumes!Overflows).
ScanRaises ==
  /\ stack # <<>> /\ Head(stack).phase \in {"scanning", "exporting"}
  /\ stack' = Tail(stack)
  /\ artifacts' \in {artifacts} \cup ({Scanned(Head(stack).folder)} \ {NoFolder})
  /\ UNCHANGED <<rows, rowsOf, annotations, loadedPaths, told, typed, loads, tags, scans>>

\* _tag_selected on one row: set_tag stores the star, and the note unless it
\* is empty.
TagRow(f, note) ==
  /\ Responsive /\ tags < MaxTags
  /\ f \in DOMAIN rows
  /\ rows' = [rows EXCEPT ![f] = [tag |-> TRUE,
                                  note |-> IF note = NoNote THEN @.note ELSE note]]
  /\ typed' = [g \in DOMAIN typed \cup {f} |-> IF g = f THEN [tag |-> TRUE, note |-> note]
                                               ELSE typed[g]]
  /\ tags' = tags + 1
  /\ UNCHANGED <<rowsOf, annotations, loadedPaths, artifacts, stack, told, loads, scans>>

\* _export_artifacts with artifacts at hand ...
ExportKept ==
  /\ Responsive
  /\ artifacts # NoFolder
  /\ Report(artifacts, loadedPaths)
  /\ UNCHANGED <<rows, rowsOf, annotations, loadedPaths, artifacts, stack, typed, loads, tags, scans>>

\* ... and without: it scans loaded_paths first, pumping events as a load does.
\* (Without loaded paths it says so and does nothing.)
ExportAfterScan ==
  /\ Responsive /\ scans < MaxScans
  /\ artifacts = NoFolder /\ loadedPaths # NoFolder
  /\ Push(loadedPaths, "exporting")
  /\ scans' = scans + 1
  /\ UNCHANGED <<rows, rowsOf, annotations, loadedPaths, artifacts, told, typed, loads, tags>>

Next ==
  \/ \E d \in Folders : LoadUnusable(d) \/ LoadWithoutFiles(d) \/ LoadFiles(d)
  \/ FinishParsing \/ ParseRaises \/ FinishScanning \/ ScanRaises
  \/ \E f \in Files, note \in Texts : TagRow(f, note)
  \/ ExportKept \/ ExportAfterScan

Spec == Init /\ [][Next]_vars

-----------------------------------------------------------------------------
TypeOK ==
  /\ DOMAIN rows \subseteq Files /\ \A f \in DOMAIN rows : rows[f] \in Annotation
  /\ DOMAIN annotations \subseteq Files
  /\ \A f \in DOMAIN annotations : annotations[f] \in Annotation
  /\ {rowsOf, loadedPaths, artifacts} \subseteq Folders \cup {NoFolder}
  /\ stack \in Seq([folder : Folders, phase : {"parsing", "scanning", "exporting"}])
  /\ told \in [said : {"nothing", "scanned and empty", "exported"},
               of : Folders \cup {NoFolder}]
  /\ DOMAIN typed \subseteq Files
  /\ loads \in 0 .. MaxLoads /\ tags \in 0 .. MaxTags /\ scans \in 0 .. MaxScans

\* Where the tool would take the annotation of a file from next.
Known(f) == IF f \in DOMAIN rows THEN rows[f]
            ELSE IF f \in DOMAIN annotations THEN annotations[f] ELSE Untagged

\* __main__.py:51 "Survives a re-scan", 456-460: a file that was tagged is known
\* as tagged ever after, whatever is loaded, cancelled or loaded in between.
TagsSurvive == \A f \in DOMAIN typed : Known(f).tag

\* Only tagging changes what is known of a file: a load, complete or cancelled,
\* one started inside another, an export or a path that is no folder leave every
\* tag and note as they were, on files that stay, go and come back.  (All but a
\* load that finds no .pf: TagsSurvive.)
RescanKeepsAnnotations ==
  [][(~ \E d \in Folders : LoadWithoutFiles(d)) /\ tags' = tags =>
       \A f \in Files : Known(f)' = Known(f)]_vars

=============================================================================
