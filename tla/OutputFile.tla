----------------------------- MODULE OutputFile -----------------------------
(***************************************************************************)
(* prefetch_core/output.py: atomic_write (one target) and                  *)
(* atomic_write_pair (the artifact export and its summary).  Every export  *)
(* writes temporaries beside its targets, flushes and fsyncs them, and     *)
(* only then renames them over the targets; whatever fails before, the     *)
(* `finally` unlinks the temporaries.  Exports may fail at every call, be  *)
(* killed, run beside each other, or lose the power with the directory     *)
(* entry of a rename not yet on the disk (nothing fsyncs the directory).   *)
(*                                                                         *)
(* A content is the number of the export that wrote it, whether all of it  *)
(* is there, and whether it was fsynced before it got its name.            *)
(***************************************************************************)
EXTENDS Naturals, Sequences

CONSTANTS
  Exporters,      \* processes: CLI runs, GUI windows
  Targets,        \* file names
  Plans,          \* target sequences an export may be given: <<t>> or <<first, second>>
  MaxExports,     \* bound on the exports started
  MaxKills,       \* bound on the processes killed
  MaxPowerLosses  \* bound on the machine losing power

\* The summary is named after the paths file (export.py:136-138) and is never that file.
ASSUME OutputAssumption ==
  /\ Plans \subseteq Seq(Targets)
  /\ \A p \in Plans : p # <<>> /\ \A i, j \in DOMAIN p : p[i] = p[j] => i = j
  /\ MaxExports \in Nat /\ MaxKills \in Nat /\ MaxPowerLosses \in Nat

Contents == [export : 0 .. MaxExports, whole : BOOLEAN, synced : BOOLEAN]

VARIABLES
  seen,      \* target -> content a reader finds under that name
  disk,      \* target -> content whose name certainly survives a power loss
  pc,        \* exporter -> where in the context manager it is
  plan,      \* exporter -> targets of its export
  serial,    \* exporter -> number of its export
  temps,     \* exporter -> its temporaries, in the order of plan
  moved,     \* exporter -> how many of them have been renamed
  outcome,   \* exporter -> how its last export ended
  exports, kills, losses,
  contested  \* history: exporter -> names others have renamed onto since it began

exporter == <<pc, plan, serial, temps, moved, outcome>>
bounds   == <<exports, kills, losses>>
vars     == <<seen, disk, exporter, bounds, contested>>

Places   == {"idle", "creating", "writing", "syncing", "publishing", "cleanup"}
Outcomes == {"none", "ok", "error", "killed"}

\* Export 0 is whatever was there before, complete; a new temporary is empty.
Before == [export |-> 0, whole |-> TRUE, synced |-> TRUE]

Fresh(x) == [export |-> serial[x], whole |-> FALSE, synced |-> FALSE]

Init ==
  /\ seen = [t \in Targets |-> Before]
  /\ disk = [t \in Targets |-> Before]
  /\ pc = [x \in Exporters |-> "idle"]
  /\ plan = [x \in Exporters |-> <<>>]
  /\ serial = [x \in Exporters |-> 0]
  /\ temps = [x \in Exporters |-> <<>>]
  /\ moved = [x \in Exporters |-> 0]
  /\ outcome = [x \in Exporters |-> "none"]
  /\ exports = 0 /\ kills = 0 /\ losses = 0
  /\ contested = [x \in Exporters |-> {}]

\* History only: the others learn that x has renamed onto t.
Contest(x, t) ==
  contested' = [y \in Exporters |-> IF y = x THEN contested[y] ELSE contested[y] \cup {t}]

Start(x) ==
  /\ pc[x] = "idle"
  /\ exports < MaxExports
  /\ exports' = exports + 1
  /\ serial' = [serial EXCEPT ![x] = exports + 1]
  /\ \E p \in Plans : plan' = [plan EXCEPT ![x] = p]
  /\ pc' = [pc EXCEPT ![x] = "creating"]
  /\ outcome' = [outcome EXCEPT ![x] = "none"]
  /\ contested' = [contested EXCEPT ![x] = {}]
  /\ UNCHANGED <<seen, disk, temps, moved, kills, losses>>

\* mkstemp beside the next target.
CreateTemp(x) ==
  /\ pc[x] = "creating"
  /\ temps' = [temps EXCEPT ![x] = Append(@, Fresh(x))]
  /\ pc' = [pc EXCEPT ![x] = IF Len(temps'[x]) = Len(plan[x]) THEN "writing" ELSE @]
  /\ UNCHANGED <<seen, disk, plan, serial, moved, outcome, bounds, contested>>

\* Mutant of WriteBody: no flush, no fsync, straight to the renames.
WriteBodyUnsynced(x) ==
  /\ pc[x] = "writing"
  /\ temps' = [temps EXCEPT ![x] = [i \in DOMAIN @ |-> [@[i] EXCEPT !.whole = TRUE]]]
  /\ pc' = [pc EXCEPT ![x] = "publishing"]
  /\ UNCHANGED <<seen, disk, plan, serial, moved, outcome, bounds, contested>>

\* The body of the with-block writes every row of every file.
WriteBody(x) ==
  /\ pc[x] = "writing"
  /\ temps' = [temps EXCEPT ![x] = [i \in DOMAIN @ |-> [@[i] EXCEPT !.whole = TRUE]]]
  /\ pc' = [pc EXCEPT ![x] = "syncing"]
  /\ UNCHANGED <<seen, disk, plan, serial, moved, outcome, bounds, contested>>

\* Mutant of SyncTemp: each file is renamed as soon as it is synced.
SyncTempAndReplace(x) ==
  /\ pc[x] = "syncing"
  /\ \E i \in DOMAIN temps[x] :
       /\ ~temps[x][i].synced
       /\ \A j \in 1 .. i - 1 : temps[x][j].synced
       /\ temps' = [temps EXCEPT ![x][i].synced = TRUE]
       /\ seen' = [seen EXCEPT ![plan[x][i]] = temps'[x][i]]
       /\ pc' = [pc EXCEPT ![x] = IF i = Len(plan[x]) THEN "cleanup" ELSE @]
       /\ outcome' = [outcome EXCEPT ![x] = IF i = Len(plan[x]) THEN "ok" ELSE @]
  /\ UNCHANGED <<disk, plan, serial, moved, bounds, contested>>

\* flush, fsync and close, one file after the other, all before any rename.
SyncTemp(x) ==
  /\ pc[x] = "syncing"
  /\ \E i \in DOMAIN temps[x] :
       /\ ~temps[x][i].synced
       /\ \A j \in 1 .. i - 1 : temps[x][j].synced
       /\ temps' = [temps EXCEPT ![x][i].synced = TRUE]
  /\ pc' = [pc EXCEPT ![x] =
              IF \A i \in DOMAIN temps[x] : temps'[x][i].synced THEN "publishing" ELSE @]
  /\ UNCHANGED <<seen, disk, plan, serial, moved, outcome, bounds, contested>>

\* Mutant of Publish: the second file of a pair is forgotten.
PublishFirstOnly(x) ==
  /\ pc[x] = "publishing"
  /\ seen' = [seen EXCEPT ![plan[x][1]] = temps[x][1]]
  /\ moved' = [moved EXCEPT ![x] = 1]
  /\ pc' = [pc EXCEPT ![x] = "cleanup"]
  /\ outcome' = [outcome EXCEPT ![x] = "ok"]
  /\ Contest(x, plan[x][1])
  /\ UNCHANGED <<disk, plan, serial, temps, bounds>>

\* os.replace of the next temporary over its target.
Publish(x) ==
  LET i == moved[x] + 1 IN
  /\ pc[x] = "publishing"
  /\ seen' = [seen EXCEPT ![plan[x][i]] = temps[x][i]]
  /\ moved' = [moved EXCEPT ![x] = i]
  /\ pc' = [pc EXCEPT ![x] = IF i = Len(plan[x]) THEN "cleanup" ELSE @]
  /\ outcome' = [outcome EXCEPT ![x] = IF i = Len(plan[x]) THEN "ok" ELSE @]
  /\ Contest(x, plan[x][i])
  /\ UNCHANGED <<disk, plan, serial, temps, bounds>>

\* Any call raises: mkstemp, the body, flush or fsync, and - on a target that
\* is open elsewhere or is a directory - os.replace.
Fail(x) ==
  /\ pc[x] \in {"creating", "writing", "syncing", "publishing"}
  /\ pc' = [pc EXCEPT ![x] = "cleanup"]
  /\ outcome' = [outcome EXCEPT ![x] = "error"]
  /\ UNCHANGED <<seen, disk, plan, serial, temps, moved, bounds, contested>>

\* `finally`: close what is open and unlink the temporaries that still exist.
Cleanup(x) ==
  /\ pc[x] = "cleanup"
  /\ temps' = [temps EXCEPT ![x] = <<>>]
  /\ moved' = [moved EXCEPT ![x] = 0]
  /\ pc' = [pc EXCEPT ![x] = "idle"]
  /\ UNCHANGED <<seen, disk, plan, serial, outcome, bounds, contested>>

\* The process dies; no `finally` runs and its temporaries stay behind.
Kill(x) ==
  /\ pc[x] # "idle"
  /\ kills < MaxKills
  /\ kills' = kills + 1
  /\ temps' = [temps EXCEPT ![x] = <<>>]
  /\ moved' = [moved EXCEPT ![x] = 0]
  /\ pc' = [pc EXCEPT ![x] = "idle"]
  /\ outcome' = [outcome EXCEPT ![x] = "killed"]
  /\ UNCHANGED <<seen, disk, plan, serial, exports, losses, contested>>

\* What a target holds after a power loss that took its last rename or not:
\* bytes that were never fsynced are gone.
Survives(t, renamed) ==
  IF ~renamed THEN disk[t]
  ELSE IF seen[t].synced THEN seen[t] ELSE [seen[t] EXCEPT !.whole = FALSE]

PowerLoss ==
  /\ losses < MaxPowerLosses
  /\ losses' = losses + 1
  /\ \E kept \in SUBSET Targets :
       /\ seen' = [t \in Targets |-> Survives(t, t \in kept)]
       /\ disk' = seen'
  /\ pc' = [x \in Exporters |-> "idle"]
  /\ temps' = [x \in Exporters |-> <<>>]
  /\ moved' = [x \in Exporters |-> 0]
  /\ outcome' = [x \in Exporters |-> IF pc[x] = "idle" THEN outcome[x] ELSE "killed"]
  /\ UNCHANGED <<plan, serial, exports, kills, contested>>

Step(x) ==
  CreateTemp(x) \/ WriteBody(x) \/ SyncTemp(x) \/ Publish(x) \/ Fail(x) \/ Cleanup(x)

Next == PowerLoss \/ \E x \in Exporters : Start(x) \/ Step(x) \/ Kill(x)

Spec == Init /\ [][Next]_vars

-----------------------------------------------------------------------------
TypeOK ==
  /\ seen \in [Targets -> Contents]
  /\ disk \in [Targets -> Contents]
  /\ pc \in [Exporters -> Places]
  /\ plan \in [Exporters -> Seq(Targets)]
  /\ serial \in [Exporters -> 0 .. MaxExports]
  /\ temps \in [Exporters -> Seq(Contents)]
  /\ moved \in [Exporters -> Nat]
  /\ outcome \in [Exporters -> Outcomes]
  /\ exports \in 0 .. MaxExports /\ kills \in 0 .. MaxKills /\ losses \in 0 .. MaxPowerLosses

\* "a reader either sees the old file or the new one, never a half-written one"
\* (output.py:11), under failures, kills, concurrent exports and power losses.
TargetsWhole == \A t \in Targets : seen[t].whole

\* "a failed *write* [...] can no longer publish half a pair" (output.py:86): while an
\* export runs, no name carries it before its turn - none before every file of the
\* export is written and synced, and the summary never before its paths file.
NothingPublishedEarly ==
  \A x \in Exporters : pc[x] # "idle" =>
    \A i \in DOMAIN plan[x] :
      seen[plan[x][i]].export = serial[x] =>
        i <= moved[x] /\ pc[x] \in {"publishing", "cleanup"}

\* An export that reports success is under every one of its names, except those
\* another process has renamed onto in the meantime: no rename is skipped and none
\* fails unreported.
OkMeansPublished ==
  [][\A x \in Exporters : outcome[x] # "ok" /\ outcome'[x] = "ok" =>
       \A i \in DOMAIN plan[x] :
         seen'[plan[x][i]].export = serial[x] \/ plan[x][i] \in contested'[x]]_vars

=============================================================================
