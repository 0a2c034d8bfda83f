---------------------------- MODULE GuiLoadProofs ----------------------------
(***************************************************************************)
(* Safety of GuiLoad for any folders, files and notes, any number of loads *)
(* nested in one another: loading changes nothing of what the analyst said *)
(* about a file.                                                           *)
(***************************************************************************)
EXTENDS GuiLoad, TLAPS

\* A remembered annotation is never the empty one, and while its file is a row the
\* row carries one too: a tag is never taken back.  So what a load remembers last
\* is always what is on screen.
RememberedIsCarried ==
  \A f \in DOMAIN annotations :
    /\ annotations[f].tag \/ annotations[f].note # NoNote
    /\ f \in DOMAIN rows => f \in Carried

IInv == TypeOK /\ RememberedIsCarried

Frames == [folder : Folders, phase : {"parsing", "scanning", "exporting"}]

-----------------------------------------------------------------------------
\* What the operators of the model return.

\* Pushing, ending a phase and ending a load leave a stack of loads.
LEMMA StackOperations ==
  ASSUME stack \in Seq(Frames)
  PROVE  /\ \A d \in Folders : \A p \in {"parsing", "scanning", "exporting"} :
              <<[folder |-> d, phase |-> p]>> \o stack \in Seq(Frames)
         /\ stack # <<>> =>
              /\ Head(stack) \in Frames /\ Tail(stack) \in Seq(Frames)
              /\ <<[Head(stack) EXCEPT !.phase = "scanning"]>> \o Tail(stack) \in Seq(Frames)
<1>1. ASSUME NEW frame \in Frames, NEW s \in Seq(Frames) PROVE <<frame>> \o s \in Seq(Frames)
  OBVIOUS
<1>2. \A d \in Folders : \A p \in {"parsing", "scanning", "exporting"} :
        [folder |-> d, phase |-> p] \in Frames
  BY DEF Frames
<1>3. stack # <<>> => Head(stack) \in Frames /\ Tail(stack) \in Seq(Frames)
  OBVIOUS
<1>4. ASSUME NEW frame \in Frames PROVE [frame EXCEPT !.phase = "scanning"] \in Frames
  BY DEF Frames
<1> QED
  BY <1>1, <1>2, <1>3, <1>4

\* A row that is not carried is untagged and has no note.
LEMMA NotCarried ==
  ASSUME TypeOK, NEW f \in DOMAIN rows, f \notin Carried
  PROVE  rows[f] = Untagged
<1>1. rows[f] \in Annotation
  BY DEF TypeOK
<1>2. rows[f].tag = FALSE /\ rows[f].note = NoNote
  BY <1>1 DEF Carried, Annotation
<1> QED
  BY <1>1, <1>2 DEF Annotation, Untagged

\* What a load remembers of a file when it rebuilds the rows is what was known of it.
LEMMA RememberedIsKnown ==
  ASSUME IInv, FinishParsing, NEW f \in Files
  PROVE  Known(f) = IF f \in DOMAIN annotations' THEN annotations'[f] ELSE Untagged
<1>1. annotations' = [g \in DOMAIN annotations \cup Carried |->
                        IF g \in Carried THEN rows[g] ELSE annotations[g]]
  BY DEF FinishParsing
<1>2. CASE f \in Carried
  BY <1>1, <1>2 DEF Known, Carried
<1>3. CASE f \notin Carried /\ f \in DOMAIN annotations
  <2>1. f \notin DOMAIN rows
    BY <1>3 DEF IInv, RememberedIsCarried
  <2> QED
    BY <1>1, <1>3, <2>1 DEF Known
<1>4. CASE f \notin Carried /\ f \notin DOMAIN annotations
  BY <1>1, <1>4, NotCarried DEF Known, IInv
<1> QED
  BY <1>2, <1>3, <1>4

\* The rows a load builds, and what it remembers.
LEMMA RowsRebuilt ==
  ASSUME LoadAssumption, IInv, FinishParsing
  PROVE  \E parsed \in SUBSET Files :
           rows' = [f \in parsed |-> IF f \in DOMAIN annotations' THEN annotations'[f] ELSE Untagged]
<1>1. Head(stack) \in Frames
  BY StackOperations DEF IInv, TypeOK, FinishParsing, Frames
<1>2. Content[Head(stack).folder] \in SUBSET Files
  BY <1>1 DEF LoadAssumption, Frames
<1> QED
  BY <1>2 DEF FinishParsing

-----------------------------------------------------------------------------
\* The bounded counters stay within their bounds.
LEMMA CountersStep ==
  ASSUME LoadAssumption, TypeOK, [Next]_vars
  PROVE  loads' \in 0 .. MaxLoads /\ tags' \in 0 .. MaxTags /\ scans' \in 0 .. MaxScans
<1>1. /\ MaxLoads \in Nat /\ MaxTags \in Nat /\ MaxScans \in Nat
      /\ loads \in 0 .. MaxLoads /\ tags \in 0 .. MaxTags /\ scans \in 0 .. MaxScans
  BY DEF LoadAssumption, TypeOK
<1>2. /\ loads' = loads \/ (loads < MaxLoads /\ loads' = loads + 1)
      /\ tags' = tags \/ (tags < MaxTags /\ tags' = tags + 1)
      /\ scans' = scans \/ (scans < MaxScans /\ scans' = scans + 1)
  BY DEF Next, vars, LoadUnusable, LoadWithoutFiles, LoadFiles, FinishParsing, ParseRaises,
     FinishScanning, ScanRaises, TagRow, ExportKept, ExportAfterScan
<1> QED
  BY <1>1, <1>2

\* Every step keeps the types.
LEMMA TypeStep ==
  ASSUME LoadAssumption, IInv, [Next]_vars
  PROVE  TypeOK'
<1>0. TypeOK /\ stack \in Seq(Frames)
  BY DEF IInv, TypeOK, Frames
<1>a. loads' \in 0 .. MaxLoads /\ tags' \in 0 .. MaxTags /\ scans' \in 0 .. MaxScans
  BY <1>0, CountersStep
<1>1. CASE UNCHANGED vars
  BY <1>0, <1>1 DEF vars, TypeOK
<1>2. ASSUME NEW d \in Folders, LoadUnusable(d) PROVE TypeOK'
  BY <1>0, <1>a, <1>2 DEF LoadUnusable, TypeOK
<1>3. ASSUME NEW d \in Folders, LoadWithoutFiles(d) PROVE TypeOK'
  <2>1. stack' \in Seq(Frames)
    BY <1>0, <1>3, StackOperations DEF LoadWithoutFiles, Push
  <2> QED
    BY <1>0, <1>a, <1>3, <2>1 DEF LoadWithoutFiles, TypeOK, Frames
<1>4. ASSUME NEW d \in Folders, LoadFiles(d) PROVE TypeOK'
  <2>1. stack' \in Seq(Frames)
    BY <1>0, <1>4, StackOperations DEF LoadFiles, Push
  <2> QED
    BY <1>0, <1>a, <1>4, <2>1 DEF LoadFiles, TypeOK, Frames
<1>5. CASE FinishParsing
  <2>1. stack' \in Seq(Frames) /\ rowsOf' \in Folders
    BY <1>0, <1>5, StackOperations DEF FinishParsing, Frames
  <2>2. DOMAIN annotations' \subseteq Files /\ \A f \in DOMAIN annotations' : annotations'[f] \in Annotation
    BY <1>0, <1>5 DEF FinishParsing, TypeOK, Carried
  <2>3. Untagged \in Annotation
    BY DEF Untagged, Annotation, Texts
  <2>4. DOMAIN rows' \subseteq Files /\ \A f \in DOMAIN rows' : rows'[f] \in Annotation
    BY <1>5, <2>2, <2>3, RowsRebuilt
  <2> QED
    BY <1>0, <1>a, <1>5, <2>1, <2>2, <2>4 DEF FinishParsing, TypeOK, Frames
<1>6. CASE FinishScanning
  <2>1. stack' \in Seq(Frames) /\ Head(stack).folder \in Folders
    BY <1>0, <1>6, StackOperations DEF FinishScanning, Frames
  <2>2. artifacts' \in Folders \cup {NoFolder}
    BY <1>6, <2>1 DEF FinishScanning, Scanned
  <2>3. told' \in [said : {"nothing", "scanned and empty", "exported"}, of : Folders \cup {NoFolder}]
    <3>1. CASE Head(stack).phase = "exporting"
      <4>1. told' = IF artifacts' = NoFolder
                      THEN [said |-> "scanned and empty", of |-> Head(stack).folder]
                    ELSE [said |-> "exported", of |-> artifacts']
        BY <1>6, <3>1 DEF FinishScanning, Report
      <4>2. CASE artifacts' = NoFolder
        BY <2>1, <4>1, <4>2
      <4>3. CASE artifacts' # NoFolder
        BY <2>2, <4>1, <4>3
      <4> QED
        BY <4>2, <4>3
    <3>2. CASE Head(stack).phase # "exporting"
      BY <1>0, <1>6, <3>2 DEF FinishScanning, TypeOK
    <3> QED
      BY <3>1, <3>2
  <2> QED
    BY <1>0, <1>a, <1>6, <2>1, <2>2, <2>3 DEF FinishScanning, TypeOK, Frames
<1>7. ASSUME NEW f \in Files, NEW note \in Texts, TagRow(f, note) PROVE TypeOK'
  <2>1. DOMAIN rows' = DOMAIN rows /\ f \in DOMAIN rows /\ rows[f] \in Annotation
    BY <1>0, <1>7 DEF TagRow, TypeOK
  <2>2. /\ rows'[f] = [tag |-> TRUE, note |-> IF note = NoNote THEN rows[f].note ELSE note]
        /\ \A g \in DOMAIN rows : g # f => rows'[g] = rows[g]
    BY <1>7, <2>1 DEF TagRow
  <2>3. rows'[f] \in Annotation
    BY <2>1, <2>2 DEF Annotation, Texts
  <2>4. DOMAIN typed' \subseteq Files
    BY <1>0, <1>7 DEF TagRow, TypeOK
  <2> QED
    BY <1>0, <1>a, <1>7, <2>1, <2>2, <2>3, <2>4 DEF TagRow, TypeOK
<1>8. CASE ExportKept
  <2>1. told' \in [said : {"nothing", "scanned and empty", "exported"}, of : Folders \cup {NoFolder}]
    BY <1>0, <1>8 DEF ExportKept, Report, TypeOK
  <2> QED
    BY <1>0, <1>a, <1>8, <2>1 DEF ExportKept, TypeOK
<1>9. CASE ExportAfterScan
  <2>1. stack' \in Seq(Frames)
    BY <1>0, <1>9, StackOperations DEF ExportAfterScan, Push, TypeOK
  <2> QED
    BY <1>0, <1>a, <1>9, <2>1 DEF ExportAfterScan, TypeOK, Frames
<1>10. CASE ParseRaises
  <2>1. stack' \in Seq(Frames)
    BY <1>0, <1>10, StackOperations DEF ParseRaises
  <2> QED
    BY <1>0, <1>a, <1>10, <2>1 DEF ParseRaises, TypeOK, Frames
<1>11. CASE ScanRaises
  <2>1. stack' \in Seq(Frames) /\ Head(stack).folder \in Folders
    BY <1>0, <1>11, StackOperations DEF ScanRaises, Frames
  <2>2. artifacts' \in Folders \cup {NoFolder}
    BY <1>0, <1>11, <2>1 DEF ScanRaises, Scanned, TypeOK
  <2> QED
    BY <1>0, <1>a, <1>11, <2>1, <2>2 DEF ScanRaises, TypeOK, Frames
<1> QED
  BY <1>1, <1>2, <1>3, <1>4, <1>5, <1>6, <1>7, <1>8, <1>9, <1>10, <1>11 DEF Next

\* Every step keeps RememberedIsCarried.
LEMMA RememberedStep ==
  ASSUME LoadAssumption, IInv, [Next]_vars
  PROVE  RememberedIsCarried'
<1>0. RememberedIsCarried /\ TypeOK
  BY DEF IInv
<1>1. CASE rows' = rows /\ annotations' = annotations
  BY <1>0, <1>1 DEF RememberedIsCarried, Carried
<1>2. ASSUME NEW d \in Folders, LoadWithoutFiles(d) PROVE RememberedIsCarried'
  BY <1>0, <1>2 DEF LoadWithoutFiles, RememberedIsCarried
<1>3. CASE FinishParsing
  <2>1. \A f \in DOMAIN annotations' : annotations'[f].tag \/ annotations'[f].note # NoNote
    BY <1>0, <1>3 DEF FinishParsing, RememberedIsCarried, Carried
  <2>2. \A f \in DOMAIN rows' : f \in DOMAIN annotations' => rows'[f] = annotations'[f]
    BY <1>3, RowsRebuilt
  <2> QED
    BY <2>1, <2>2 DEF RememberedIsCarried, Carried
<1>4. ASSUME NEW f \in Files, NEW note \in Texts, TagRow(f, note) PROVE RememberedIsCarried'
  <2>1. /\ annotations' = annotations /\ DOMAIN rows' = DOMAIN rows /\ rows'[f].tag = TRUE
        /\ \A g \in DOMAIN rows : g # f => rows'[g] = rows[g]
    BY <1>4 DEF TagRow
  <2> QED
    BY <1>0, <2>1 DEF RememberedIsCarried, Carried
<1>5. CASE UNCHANGED vars
  BY <1>1, <1>5 DEF vars
<1> QED
  BY <1>1, <1>2, <1>3, <1>4, <1>5 DEF Next, LoadUnusable, LoadFiles, ParseRaises, FinishScanning,
     ScanRaises, ExportKept, ExportAfterScan

\* IInv is inductive and holds from the start.
LEMMA IInvHolds == Spec => []IInv
<1>1. LoadAssumption
  BY LoadAssumption
<1>2. Init => IInv
  <2> SUFFICES ASSUME Init PROVE IInv
    OBVIOUS
  <2>1. TypeOK
    BY <1>1 DEF Init, TypeOK, NothingTold, LoadAssumption
  <2>2. RememberedIsCarried
    BY DEF Init, RememberedIsCarried
  <2> QED
    BY <2>1, <2>2 DEF IInv
<1>3. IInv /\ [Next]_vars => IInv'
  BY <1>1, TypeStep, RememberedStep DEF IInv
<1> QED
  BY <1>2, <1>3, PTL DEF Spec

\* A step that is neither a dialog nor a load of a folder without .pf files changes
\* nothing of what is known of a file.
LEMMA KnownStays ==
  ASSUME IInv, [Next]_vars, NEW f \in Files,
         \A d \in Folders : ~LoadWithoutFiles(d),
         \A g \in Files, note \in Texts : ~TagRow(g, note)
  PROVE  Known(f)' = Known(f) /\ typed' = typed
<1>1. CASE rows' = rows /\ annotations' = annotations /\ typed' = typed
  BY <1>1 DEF Known
<1>2. CASE FinishParsing
  <2>1. Known(f) = IF f \in DOMAIN annotations' THEN annotations'[f] ELSE Untagged
    BY <1>2, RememberedIsKnown
  <2>2. f \in DOMAIN rows' =>
          rows'[f] = IF f \in DOMAIN annotations' THEN annotations'[f] ELSE Untagged
    BY <1>2, LoadAssumption, RowsRebuilt
  <2> QED
    BY <1>2, <2>1, <2>2 DEF Known, FinishParsing
<1> QED
  BY <1>1, <1>2 DEF Next, vars, LoadUnusable, LoadFiles, ParseRaises, FinishScanning,
     ScanRaises, ExportKept, ExportAfterScan

\* Nothing but tagging changes what is known of a file, whatever is loaded, cancelled,
\* loaded inside another load or exported (__main__.py:51, 456-460) - save a load of a
\* folder without .pf files, which forgets (the run load_lost_tags).
THEOREM RescansKeep == Spec => RescanKeepsAnnotations
<1> DEFINE Keeps == (~ \E d \in Folders : LoadWithoutFiles(d)) /\ tags' = tags =>
                      \A f \in Files : Known(f)' = Known(f)
<1>1. IInv /\ [Next]_vars => Keeps
  <2> SUFFICES ASSUME IInv, [Next]_vars, ~ \E d \in Folders : LoadWithoutFiles(d), tags' = tags,
                      NEW f \in Files
               PROVE  Known(f)' = Known(f)
    OBVIOUS
  <2>1. tags \in Nat
    <3>1. MaxTags \in Nat /\ tags \in 0 .. MaxTags
      BY LoadAssumption DEF LoadAssumption, IInv, TypeOK
    <3> QED
      BY <3>1
  <2>2. \A g \in Files, note \in Texts : ~TagRow(g, note)
    BY <2>1 DEF TagRow
  <2> QED
    BY <2>2, KnownStays
<1>2. IInv /\ [Next]_vars => [Keeps]_vars
  BY <1>1
<1> QED
  BY <1>2, IInvHolds, PTL DEF Spec, RescanKeepsAnnotations

\* __main__.py:51, "Survives a re-scan": a file that was tagged is known as tagged ever
\* after, in every session in which no folder without .pf files is loaded.  That load
\* is the only thing that loses a tag (load_lost_tags): nesting, Cancel, files that go
\* and come back and exports never do.
THEOREM TagsOutliveLoads ==
  Spec /\ [][\A d \in Folders : ~LoadWithoutFiles(d)]_vars => []TagsSurvive
<1>1. Init => TagsSurvive
  BY DEF Init, TagsSurvive
<1>2. IInv /\ TagsSurvive /\ [Next]_vars /\ [\A d \in Folders : ~LoadWithoutFiles(d)]_vars
        => TagsSurvive'
  <2> SUFFICES ASSUME IInv, TagsSurvive, [Next]_vars,
                      [\A d \in Folders : ~LoadWithoutFiles(d)]_vars
               PROVE  TagsSurvive'
    OBVIOUS
  <2>1. DOMAIN typed \subseteq Files
    BY DEF IInv, TypeOK
  <2>2. ASSUME NEW f \in Files, NEW note \in Texts, TagRow(f, note) PROVE TagsSurvive'
    <3>1. /\ annotations' = annotations /\ DOMAIN rows' = DOMAIN rows /\ f \in DOMAIN rows
          /\ rows'[f].tag = TRUE /\ \A g \in DOMAIN rows : g # f => rows'[g] = rows[g]
          /\ DOMAIN typed' = DOMAIN typed \cup {f}
      BY <2>2 DEF TagRow
    <3> QED
      BY <3>1 DEF TagsSurvive, Known
  <2>3. CASE UNCHANGED vars
    BY <2>3 DEF vars, TagsSurvive, Known
  <2>4. CASE /\ \A d \in Folders : ~LoadWithoutFiles(d)
             /\ \A f \in Files, note \in Texts : ~TagRow(f, note)
    <3>1. \A f \in Files : Known(f)' = Known(f)
      BY <2>4, KnownStays
    <3>2. DOMAIN typed' \subseteq Files /\ DOMAIN typed' = DOMAIN typed
      BY <2>1, <2>4, KnownStays DEF Next, LoadUnusable, LoadFiles, FinishParsing, ParseRaises,
         FinishScanning, ScanRaises, ExportKept, ExportAfterScan, vars
    <3> QED
      BY <3>1, <3>2 DEF TagsSurvive
  <2> QED
    BY <2>2, <2>3, <2>4
<1> QED
  BY <1>1, <1>2, IInvHolds, PTL DEF Spec
=============================================================================
