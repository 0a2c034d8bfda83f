-------------------------- MODULE OutputFileProofs --------------------------
(***************************************************************************)
(* Safety of OutputFile for any number of exporters, targets and exports,  *)
(* any number of files in one export, kills and power losses: no name ever *)
(* leads to half a file, none to a file of an export before its turn, and  *)
(* an export that reports success is under all of its names.               *)
(***************************************************************************)
EXTENDS OutputFile, SequenceTheorems, TLAPS

USE DEF exporter, bounds

Running == {"creating", "writing", "syncing", "publishing"}

\* What is certain of the temporaries of x from where its export is.
TempsInv(x) ==
  /\ Len(temps[x]) <= Len(plan[x])
  /\ pc[x] = "idle" => temps[x] = <<>> /\ moved[x] = 0
  /\ pc[x] = "creating" => Len(temps[x]) < Len(plan[x])
  /\ pc[x] \in {"writing", "syncing", "publishing"} => Len(temps[x]) = Len(plan[x])
  /\ pc[x] \in {"creating", "writing", "syncing"} => moved[x] = 0
  /\ pc[x] = "publishing" => moved[x] < Len(plan[x])
  /\ pc[x] = "syncing" => \A i \in DOMAIN temps[x] : temps[x][i].whole
  /\ pc[x] = "publishing" => \A i \in DOMAIN temps[x] : temps[x][i].whole /\ temps[x][i].synced
  /\ \A i \in DOMAIN temps[x] : temps[x][i].export = serial[x]

\* No two exports have one number, and no file has the number of an export to come.
SerialsInv ==
  /\ \A x \in Exporters : serial[x] <= exports /\ (pc[x] # "idle" => serial[x] > 0)
  /\ \A x, y \in Exporters :
       x # y /\ pc[x] # "idle" /\ pc[y] # "idle" => serial[x] # serial[y]
  /\ \A t \in Targets : seen[t].export <= exports /\ disk[t].export <= exports

\* A name names one place of a plan.
PlansInv ==
  \A x \in Exporters :
    /\ pc[x] # "idle" => plan[x] # <<>>
    /\ \A i, j \in DOMAIN plan[x] : plan[x][i] = plan[x][j] => i = j

\* What a reader finds, and what a power loss would leave, is whole and on the disk.
FilesInv ==
  \A t \in Targets : seen[t].whole /\ seen[t].synced /\ disk[t].whole /\ disk[t].synced

\* What x has renamed is under its name, unless another has renamed onto it since.
MovedInv(x) ==
  pc[x] = "publishing" =>
    \A i \in 1 .. moved[x] :
      seen[plan[x][i]].export = serial[x] \/ plan[x][i] \in contested[x]

IInv ==
  /\ TypeOK /\ PlansInv /\ SerialsInv /\ FilesInv
  /\ \A x \in Exporters : TempsInv(x) /\ MovedInv(x)
  /\ NothingPublishedEarly
  /\ contested \in [Exporters -> SUBSET Targets]

-----------------------------------------------------------------------------
\* Type correctness.

\* The empty content list, and the contents a temporary goes through, are contents.
LEMMA FreshIsContent ==
  ASSUME TypeOK, NEW x \in Exporters
  PROVE  Fresh(x) \in Contents
BY DEF TypeOK, Fresh, Contents

\* Publishing has a next temporary, and a next name for it.
LEMMA NextToMove ==
  ASSUME IInv, NEW x \in Exporters, pc[x] = "publishing"
  PROVE  /\ moved[x] + 1 \in DOMAIN plan[x] /\ moved[x] + 1 \in DOMAIN temps[x]
         /\ moved[x] + 1 \in Nat
         /\ plan[x][moved[x] + 1] \in Targets /\ temps[x][moved[x] + 1] \in Contents
<1>1. /\ plan[x] \in Seq(Targets) /\ temps[x] \in Seq(Contents) /\ moved[x] \in Nat
      /\ moved[x] < Len(plan[x]) /\ Len(temps[x]) = Len(plan[x])
  BY DEF IInv, TypeOK, TempsInv
<1>2. moved[x] + 1 \in 1 .. Len(plan[x]) /\ moved[x] + 1 \in 1 .. Len(temps[x])
  BY <1>1
<1> QED
  BY <1>1, <1>2

\* What survives a power loss is a content.
LEMMA SurvivorIsContent ==
  ASSUME TypeOK, NEW t \in Targets, NEW r \in BOOLEAN
  PROVE  Survives(t, r) \in Contents
<1>1. disk[t] \in Contents /\ seen[t] \in Contents
  BY DEF TypeOK
<1>2. [seen[t] EXCEPT !.whole = FALSE] \in Contents
  BY <1>1 DEF Contents
<1> QED
  BY <1>1, <1>2 DEF Survives

\* Writing the bodies keeps the temporaries and their numbers.
LEMMA WriteBodyWrites ==
  ASSUME TypeOK, NEW x \in Exporters, WriteBody(x)
  PROVE  /\ temps'[x] \in Seq(Contents) /\ Len(temps'[x]) = Len(temps[x])
         /\ \A i \in DOMAIN temps'[x] :
              i \in DOMAIN temps[x] /\ temps'[x][i].whole /\ temps'[x][i].export = temps[x][i].export
<1> DEFINE new == [i \in DOMAIN temps[x] |-> [temps[x][i] EXCEPT !.whole = TRUE]]
<1>1. temps[x] \in Seq(Contents) /\ temps'[x] = new
  BY DEF WriteBody, TypeOK
<1>2. ASSUME NEW i \in DOMAIN temps[x]
      PROVE  new[i] \in Contents /\ new[i].whole /\ new[i].export = temps[x][i].export
  <2>1. temps[x][i] \in Contents /\ new[i] = [temps[x][i] EXCEPT !.whole = TRUE]
    BY <1>1
  <2> HIDE DEF new
  <2> QED
    BY <2>1 DEF Contents
<1>3. Len(temps[x]) \in Nat /\ new \in [1 .. Len(temps[x]) -> Contents]
  <2>1. Len(temps[x]) \in Nat /\ DOMAIN temps[x] = 1 .. Len(temps[x])
    BY <1>1
  <2> QED
    BY <1>2, <2>1
<1>4. new \in Seq(Contents) /\ Len(new) = Len(temps[x])
  <2>1. \A m \in Nat : \A f \in [1 .. m -> Contents] : f \in Seq(Contents) /\ Len(f) = m
    OBVIOUS
  <2> HIDE DEF new
  <2> QED
    BY <1>3, <2>1
<1> QED
  BY <1>1, <1>2, <1>4

\* Syncing one temporary changes nothing else of any.
LEMMA SyncTempSyncs ==
  ASSUME TypeOK, NEW x \in Exporters, SyncTemp(x)
  PROVE  /\ temps'[x] \in Seq(Contents) /\ Len(temps'[x]) = Len(temps[x])
         /\ \A i \in DOMAIN temps'[x] :
              /\ i \in DOMAIN temps[x] /\ temps'[x][i].whole = temps[x][i].whole
              /\ temps'[x][i].export = temps[x][i].export
<1>1. PICK i \in DOMAIN temps[x] : temps' = [temps EXCEPT ![x][i].synced = TRUE]
  BY DEF SyncTemp
<1> DEFINE new == [temps[x][i] EXCEPT !.synced = TRUE]
<1>2. temps[x] \in Seq(Contents) /\ i \in 1 .. Len(temps[x]) /\ temps[x][i] \in Contents
  BY <1>1 DEF TypeOK
<1>3. /\ new \in Contents /\ new.whole = temps[x][i].whole /\ new.export = temps[x][i].export
  BY <1>2 DEF Contents
<1>4. temps'[x] = [temps[x] EXCEPT ![i] = new]
  BY <1>1 DEF TypeOK
<1> HIDE DEF new
<1>5. /\ temps'[x] \in Seq(Contents) /\ Len(temps'[x]) = Len(temps[x])
      /\ \A j \in 1 .. Len(temps[x]) : temps'[x][j] = IF j = i THEN new ELSE temps[x][j]
  BY <1>2, <1>3, <1>4, ExceptSeq
<1> QED
  BY <1>2, <1>3, <1>5

\* Every step keeps the types.
LEMMA TypeStep ==
  ASSUME OutputAssumption, IInv, [Next]_vars
  PROVE  TypeOK'
<1>0. TypeOK
  BY DEF IInv
<1>1. CASE UNCHANGED vars
  BY <1>0, <1>1 DEF TypeOK, vars
<1>2. CASE PowerLoss
  <2>1. PICK kept \in SUBSET Targets : seen' = [t \in Targets |-> Survives(t, t \in kept)]
    BY <1>2 DEF PowerLoss
  <2>2. seen' \in [Targets -> Contents] /\ disk' = seen'
    <3>1. ASSUME NEW t \in Targets PROVE Survives(t, t \in kept) \in Contents
      <4>1. (t \in kept) \in BOOLEAN
        OBVIOUS
      <4> QED
        BY ONLY <1>0, <4>1, SurvivorIsContent
    <3> QED
      BY <1>2, <2>1, <3>1 DEF PowerLoss
  <2>3. losses' \in 0 .. MaxPowerLosses
    BY <1>0, <1>2 DEF TypeOK, PowerLoss, OutputAssumption
  <2>4. temps' \in [Exporters -> Seq(Contents)]
    BY <1>2 DEF PowerLoss
  <2> QED
    BY <1>0, <1>2, <2>2, <2>3, <2>4 DEF TypeOK, PowerLoss, Places, Outcomes
<1>3. ASSUME NEW x \in Exporters, Start(x) PROVE TypeOK'
  <2>1. PICK p \in Plans : plan' = [plan EXCEPT ![x] = p]
    BY <1>3 DEF Start
  <2>2. p \in Seq(Targets)
    BY DEF OutputAssumption
  <2>3. exports' \in 0 .. MaxExports
    BY <1>0, <1>3 DEF TypeOK, Start, OutputAssumption
  <2> QED
    BY <1>0, <1>3, <2>1, <2>2, <2>3 DEF TypeOK, Start, Places, Outcomes
<1>4. ASSUME NEW x \in Exporters, CreateTemp(x) PROVE TypeOK'
  <2>1. Append(temps[x], Fresh(x)) \in Seq(Contents)
    BY <1>0, FreshIsContent DEF TypeOK
  <2> QED
    BY <1>0, <1>4, <2>1 DEF TypeOK, CreateTemp, Places
<1>5. ASSUME NEW x \in Exporters, WriteBody(x) PROVE TypeOK'
  BY <1>0, <1>5, WriteBodyWrites DEF TypeOK, WriteBody, Places
<1>6. ASSUME NEW x \in Exporters, SyncTemp(x) PROVE TypeOK'
  BY <1>0, <1>6, SyncTempSyncs DEF TypeOK, SyncTemp, Places
<1>7. ASSUME NEW x \in Exporters, Publish(x) PROVE TypeOK'
  BY <1>0, <1>7, NextToMove DEF TypeOK, Publish, Places, Outcomes
<1>8. ASSUME NEW x \in Exporters, Fail(x) PROVE TypeOK'
  BY <1>0, <1>8 DEF TypeOK, Fail, Places, Outcomes
<1>9. ASSUME NEW x \in Exporters, Cleanup(x) PROVE TypeOK'
  BY <1>0, <1>9 DEF TypeOK, Cleanup, Places
<1>10. ASSUME NEW x \in Exporters, Kill(x) PROVE TypeOK'
  <2>1. kills' \in 0 .. MaxKills
    BY <1>0, <1>10 DEF TypeOK, Kill, OutputAssumption
  <2> QED
    BY <1>0, <1>10, <2>1 DEF TypeOK, Kill, Places, Outcomes
<1> QED
  BY <1>1, <1>2, <1>3, <1>4, <1>5, <1>6, <1>7, <1>8, <1>9, <1>10 DEF Next, Step

-----------------------------------------------------------------------------
\* An export's own state moves with its own steps only.
LEMMA OthersStay ==
  ASSUME TypeOK, NEW x \in Exporters, NEW y \in Exporters, x # y,
         Start(x) \/ Step(x) \/ Kill(x)
  PROVE  /\ pc'[y] = pc[y] /\ plan'[y] = plan[y] /\ serial'[y] = serial[y]
         /\ temps'[y] = temps[y] /\ moved'[y] = moved[y]
<1>1. /\ pc' = [pc EXCEPT ![x] = pc'[x]] /\ plan' = [plan EXCEPT ![x] = plan'[x]]
      /\ serial' = [serial EXCEPT ![x] = serial'[x]] /\ temps' = [temps EXCEPT ![x] = temps'[x]]
      /\ moved' = [moved EXCEPT ![x] = moved'[x]]
  <2>1. CASE Start(x)
    BY <2>1 DEF Start, TypeOK
  <2>2. CASE CreateTemp(x)
    BY <2>2 DEF CreateTemp, TypeOK
  <2>3. CASE WriteBody(x)
    BY <2>3 DEF WriteBody, TypeOK
  <2>4. CASE SyncTemp(x)
    <3>1. PICK i \in DOMAIN temps[x] : temps' = [temps EXCEPT ![x][i].synced = TRUE]
      BY <2>4 DEF SyncTemp
    <3> QED
      BY <2>4, <3>1 DEF SyncTemp, TypeOK
  <2>5. CASE Publish(x)
    BY <2>5 DEF Publish, TypeOK
  <2>6. CASE Fail(x) \/ Cleanup(x) \/ Kill(x)
    BY <2>6 DEF Fail, Cleanup, Kill, TypeOK
  <2> QED
    BY <2>1, <2>2, <2>3, <2>4, <2>5, <2>6 DEF Step
<1> QED
  BY <1>1 DEF TypeOK

\* Where nothing of an export moves, what is certain of it stays certain.
LEMMA TempsUnmoved ==
  ASSUME NEW x, TempsInv(x), pc'[x] = pc[x], plan'[x] = plan[x], serial'[x] = serial[x],
         temps'[x] = temps[x], moved'[x] = moved[x]
  PROVE  TempsInv(x)'
BY DEF TempsInv

\* Every step keeps what is certain of the temporaries of an export.
LEMMA TempsStep ==
  ASSUME OutputAssumption, IInv, [Next]_vars, NEW x \in Exporters
  PROVE  TempsInv(x)'
<1>0. TypeOK /\ TempsInv(x) /\ plan[x] \in Seq(Targets) /\ temps[x] \in Seq(Contents)
  BY DEF IInv, TypeOK
<1>1. Len(temps[x]) \in Nat /\ Len(plan[x]) \in Nat /\ moved[x] \in Nat
  BY <1>0 DEF TypeOK
<1>2. CASE UNCHANGED vars
  BY <1>0, <1>2, TempsUnmoved DEF vars
<1>3. ASSUME NEW y \in Exporters, y # x, Start(y) \/ Step(y) \/ Kill(y) PROVE TempsInv(x)'
  BY <1>0, <1>3, OthersStay, TempsUnmoved
\* Nothing is left of the export.
<1>4. ASSUME pc'[x] = "idle", temps'[x] = <<>>, moved'[x] = 0, plan'[x] \in Seq(Targets)
      PROVE  TempsInv(x)'
  <2>1. Len(temps'[x]) = 0 /\ Len(plan'[x]) \in Nat /\ DOMAIN temps'[x] = {}
    BY <1>4
  <2> QED
    BY <1>4, <2>1 DEF TempsInv
<1>5. CASE PowerLoss
  BY <1>0, <1>4, <1>5 DEF PowerLoss
<1>6. CASE Cleanup(x) \/ Kill(x)
  BY <1>0, <1>4, <1>6 DEF Cleanup, Kill, TypeOK
<1>7. CASE Start(x)
  <2>1. PICK p \in Plans : plan' = [plan EXCEPT ![x] = p]
    BY <1>7 DEF Start
  <2>2. p \in Seq(Targets) /\ p # <<>> /\ plan'[x] = p
    BY <1>0, <2>1 DEF OutputAssumption, TypeOK
  <2>3. Len(p) \in Nat /\ Len(p) > 0
    BY <2>2
  <2>4. pc'[x] = "creating" /\ temps'[x] = <<>> /\ moved'[x] = 0
    BY <1>0, <1>7 DEF Start, TempsInv, TypeOK
  <2> QED
    BY <2>2, <2>3, <2>4 DEF TempsInv
<1>8. CASE CreateTemp(x)
  <2>1. /\ temps'[x] = Append(temps[x], Fresh(x)) /\ plan'[x] = plan[x] /\ moved'[x] = moved[x]
        /\ serial'[x] = serial[x] /\ pc[x] = "creating"
        /\ pc'[x] = IF Len(temps'[x]) = Len(plan[x]) THEN "writing" ELSE "creating"
    BY <1>0, <1>8 DEF CreateTemp, TypeOK
  <2>2. /\ Len(temps'[x]) = Len(temps[x]) + 1
        /\ \A i \in DOMAIN temps'[x] : temps'[x][i].export = serial[x]
    <3>1. Fresh(x).export = serial[x]
      BY DEF Fresh
    <3>2. /\ Len(temps'[x]) = Len(temps[x]) + 1
          /\ \A i \in DOMAIN temps'[x] :
               temps'[x][i] = IF i = Len(temps[x]) + 1 THEN Fresh(x) ELSE temps[x][i]
          /\ DOMAIN temps'[x] = 1 .. Len(temps[x]) + 1
      BY <1>0, <1>1, <2>1
    <3>3. \A i \in DOMAIN temps'[x] : i # Len(temps[x]) + 1 => i \in DOMAIN temps[x]
      BY <1>0, <1>1, <3>2
    <3> QED
      BY <1>0, <3>1, <3>2, <3>3 DEF TempsInv
  <2> QED
    BY <1>0, <1>1, <2>1, <2>2 DEF TempsInv
<1>9. CASE WriteBody(x)
  <2>1. /\ plan'[x] = plan[x] /\ moved'[x] = moved[x] /\ serial'[x] = serial[x]
        /\ pc[x] = "writing" /\ pc'[x] = "syncing"
    BY <1>0, <1>9 DEF WriteBody, TypeOK
  <2> QED
    BY <1>0, <1>1, <1>9, <2>1, WriteBodyWrites DEF TempsInv
<1>10. CASE SyncTemp(x)
  <2>1. /\ plan'[x] = plan[x] /\ moved'[x] = moved[x] /\ serial'[x] = serial[x]
        /\ pc[x] = "syncing"
        /\ pc'[x] = IF \A i \in DOMAIN temps[x] : temps'[x][i].synced THEN "publishing" ELSE "syncing"
    BY <1>0, <1>10 DEF SyncTemp, TypeOK
  <2>2. Len(plan[x]) > 0
    BY <1>0, <1>1, <1>10 DEF TempsInv, SyncTemp
  <2>3. /\ Len(temps'[x]) = Len(temps[x])
        /\ \A i \in DOMAIN temps'[x] : i \in DOMAIN temps[x] /\ temps'[x][i].whole = temps[x][i].whole
                                        /\ temps'[x][i].export = temps[x][i].export
        /\ DOMAIN temps'[x] = DOMAIN temps[x]
    <3>1. temps[x] \in Seq(Contents)
      BY <1>0 DEF TypeOK
    <3> QED
      BY <1>0, <1>10, <3>1, SyncTempSyncs
  <2>4. \A i \in DOMAIN temps'[x] : temps'[x][i].whole /\ temps'[x][i].export = serial[x]
    BY <1>0, <1>1, <2>1, <2>3 DEF TempsInv
  <2>5. Len(temps'[x]) = Len(plan[x]) /\ moved[x] = 0
    BY <1>0, <1>1, <2>1, <2>3 DEF TempsInv
  <2>6. pc'[x] = "publishing" => \A i \in DOMAIN temps'[x] : temps'[x][i].synced
    BY <2>1, <2>3
  <2> QED
    BY <2>1, <2>2, <2>4, <2>5, <2>6 DEF TempsInv
<1>11. CASE Publish(x)
  <2>1. /\ plan'[x] = plan[x] /\ moved'[x] = moved[x] + 1 /\ serial'[x] = serial[x]
        /\ temps'[x] = temps[x] /\ pc[x] = "publishing"
        /\ pc'[x] = IF moved[x] + 1 = Len(plan[x]) THEN "cleanup" ELSE "publishing"
    BY <1>0, <1>11 DEF Publish, TypeOK
  <2> QED
    BY <1>0, <1>1, <2>1 DEF TempsInv
<1>12. CASE Fail(x)
  <2>1. /\ plan'[x] = plan[x] /\ serial'[x] = serial[x] /\ temps'[x] = temps[x] /\ pc'[x] = "cleanup"
    BY <1>0, <1>12 DEF Fail, TypeOK
  <2> QED
    BY <1>0, <2>1 DEF TempsInv
<1> QED
  BY <1>2, <1>3, <1>5, <1>6, <1>7, <1>8, <1>9, <1>10, <1>11, <1>12 DEF Next, Step

-----------------------------------------------------------------------------
\* What a step does to the files: nothing, a rename of a whole and synced
\* temporary, or a power loss that goes back to what the disk has.

\* Only a rename and a power loss change what a reader finds.
LEMMA FilesMove ==
  ASSUME IInv, [Next]_vars
  PROVE  \/ seen' = seen /\ disk' = disk
         \/ PowerLoss
         \/ disk' = disk /\ \E x \in Exporters : Publish(x)
BY DEF Next, Step, vars, Start, CreateTemp, WriteBody, SyncTemp, Publish, Fail, Cleanup, Kill

\* A rename puts a whole, synced file of this export under its next name.
LEMMA RenameIsWhole ==
  ASSUME IInv, NEW x \in Exporters, Publish(x)
  PROVE  /\ pc[x] = "publishing"
         /\ seen' = [seen EXCEPT ![plan[x][moved[x] + 1]] = temps[x][moved[x] + 1]]
         /\ plan[x][moved[x] + 1] \in Targets /\ moved[x] + 1 \in DOMAIN plan[x]
         /\ temps[x][moved[x] + 1].whole /\ temps[x][moved[x] + 1].synced
         /\ temps[x][moved[x] + 1].export = serial[x]
<1>1. pc[x] = "publishing"
  BY DEF Publish
<1>2. TempsInv(x)
  BY DEF IInv
<1> QED
  BY <1>1, <1>2, NextToMove DEF Publish, TempsInv

\* Where everything is synced a power loss leaves what was seen or what was on the disk.
LEMMA PowerLossKeeps ==
  ASSUME IInv, PowerLoss, NEW t \in Targets
  PROVE  seen'[t] \in {seen[t], disk[t]} /\ disk'[t] = seen'[t]
<1>1. PICK kept \in SUBSET Targets : seen' = [u \in Targets |-> Survives(u, u \in kept)]
  BY DEF PowerLoss
<1>2. seen'[t] = Survives(t, t \in kept) /\ disk'[t] = seen'[t]
  BY <1>1 DEF PowerLoss
<1>3. seen[t].synced
  BY DEF IInv, FilesInv
<1> QED
  BY <1>2, <1>3 DEF Survives

\* Every step leaves whole, synced files behind.
LEMMA FilesStep ==
  ASSUME IInv, [Next]_vars
  PROVE  FilesInv'
<1>0. FilesInv /\ TypeOK
  BY DEF IInv
<1>1. CASE seen' = seen /\ disk' = disk
  BY <1>0, <1>1 DEF FilesInv
<1>2. CASE PowerLoss
  BY <1>0, <1>2, PowerLossKeeps DEF FilesInv
<1>3. ASSUME NEW x \in Exporters, Publish(x), disk' = disk PROVE FilesInv'
  BY <1>0, <1>3, RenameIsWhole DEF FilesInv, TypeOK
<1> QED
  BY <1>1, <1>2, <1>3, FilesMove

\* A plan is set by Start only.
LEMMA PlansStep ==
  ASSUME OutputAssumption, IInv, [Next]_vars
  PROVE  PlansInv'
<1>0. PlansInv /\ TypeOK
  BY DEF IInv
<1> SUFFICES ASSUME NEW x \in Exporters
             PROVE  /\ pc'[x] # "idle" => plan'[x] # <<>>
                    /\ \A i, j \in DOMAIN plan'[x] : plan'[x][i] = plan'[x][j] => i = j
  BY DEF PlansInv
<1>1. CASE UNCHANGED vars
  BY <1>0, <1>1 DEF vars, PlansInv
<1>2. CASE PowerLoss
  BY <1>0, <1>2 DEF PowerLoss, PlansInv
<1>3. ASSUME NEW y \in Exporters, y # x, Start(y) \/ Step(y) \/ Kill(y)
      PROVE  pc'[x] = pc[x] /\ plan'[x] = plan[x]
  BY <1>0, <1>3, OthersStay
<1>4. CASE Start(x)
  <2>1. PICK p \in Plans : plan' = [plan EXCEPT ![x] = p]
    BY <1>4 DEF Start
  <2>2. plan'[x] = p
    BY <1>0, <2>1 DEF TypeOK
  <2> QED
    BY <2>2 DEF OutputAssumption
<1>5. CASE Step(x) \/ Kill(x)
  <2>1. plan'[x] = plan[x] /\ pc[x] # "idle"
    BY <1>5 DEF Step, CreateTemp, WriteBody, SyncTemp, Publish, Fail, Cleanup, Kill
  <2> QED
    BY <1>0, <2>1 DEF PlansInv
<1> QED
  BY <1>0, <1>1, <1>2, <1>3, <1>4, <1>5 DEF Next, PlansInv

\* Numbers are given once, in order.
LEMMA SerialsStep ==
  ASSUME OutputAssumption, IInv, [Next]_vars
  PROVE  SerialsInv'
<1>0. SerialsInv /\ TypeOK
  BY DEF IInv
<1>1. exports \in Nat /\ (\A x \in Exporters : serial[x] \in Nat) /\ exports <= exports'
  BY <1>0 DEF TypeOK, Next, Step, vars, PowerLoss, Start, CreateTemp, WriteBody, SyncTemp,
     Publish, Fail, Cleanup, Kill, OutputAssumption
<1>2. \A t \in Targets : seen'[t].export <= exports' /\ disk'[t].export <= exports'
  <2> SUFFICES ASSUME NEW t \in Targets
               PROVE  seen'[t].export <= exports' /\ disk'[t].export <= exports'
    OBVIOUS
  <2>0. /\ seen[t].export \in Nat /\ disk[t].export \in Nat /\ exports' \in Nat
        /\ seen[t].export <= exports /\ disk[t].export <= exports
    BY <1>0, TypeStep DEF SerialsInv, TypeOK, Contents
  <2>1. CASE seen' = seen /\ disk' = disk
    BY <1>1, <2>0, <2>1
  <2>2. CASE PowerLoss
    BY <1>1, <2>0, <2>2, PowerLossKeeps
  <2>3. ASSUME NEW x \in Exporters, Publish(x), disk' = disk
        PROVE  seen'[t].export <= exports' /\ disk'[t].export <= exports'
    <3>1. seen'[t].export \in {seen[t].export, serial[x]}
      <4>1. seen \in [Targets -> Contents]
        BY <1>0 DEF TypeOK
      <4>2. seen'[t] = seen[t] \/ seen'[t] = temps[x][moved[x] + 1]
        BY <2>3, <4>1, RenameIsWhole
      <4>3. temps[x][moved[x] + 1].export = serial[x]
        BY <2>3, RenameIsWhole
      <4> QED
        BY <4>2, <4>3
    <3>2. serial[x] \in Nat /\ serial[x] <= exports /\ exports \in Nat /\ exports <= exports'
      BY <1>0, <1>1 DEF SerialsInv
    <3>3. seen'[t].export <= exports'
      BY <2>0, <3>1, <3>2
    <3>4. disk'[t].export <= exports'
      BY <1>1, <2>0, <2>3
    <3> QED
      BY <3>3, <3>4
  <2> QED
    BY <2>1, <2>2, <2>3, FilesMove
<1>3. CASE UNCHANGED vars
  BY <1>0, <1>2, <1>3 DEF vars, SerialsInv
<1>4. CASE PowerLoss
  <2>1. serial' = serial /\ exports' = exports /\ \A x \in Exporters : pc'[x] = "idle"
    BY <1>4 DEF PowerLoss
  <2> QED
    BY <1>0, <1>2, <2>1 DEF SerialsInv
<1>5. ASSUME NEW x \in Exporters, Start(x) PROVE SerialsInv'
  <2>1. /\ exports' = exports + 1 /\ serial' = [serial EXCEPT ![x] = exports + 1]
        /\ pc' = [pc EXCEPT ![x] = "creating"]
    BY <1>5 DEF Start
  <2>2. \A y \in Exporters : y # x => serial'[y] = serial[y] /\ pc'[y] = pc[y]
    BY <1>0, <2>1 DEF TypeOK
  <2>3. serial'[x] = exports + 1
    BY <1>0, <2>1 DEF TypeOK
  <2>4. exports' \in Nat /\ \A y \in Exporters : serial[y] < exports'
    BY <1>0, <1>1, <2>1 DEF SerialsInv, TypeOK
  <2>5. \A y \in Exporters : serial'[y] <= exports' /\ (pc'[y] # "idle" => serial'[y] > 0)
    BY <1>0, <1>1, <2>1, <2>2, <2>3, <2>4 DEF SerialsInv, TypeOK
  <2>6. \A y, z \in Exporters :
          y # z /\ pc'[y] # "idle" /\ pc'[z] # "idle" => serial'[y] # serial'[z]
    <3>1. \A y, z \in Exporters : y # z /\ pc[y] # "idle" /\ pc[z] # "idle" => serial[y] # serial[z]
      BY <1>0 DEF SerialsInv
    <3>2. \A y \in Exporters : y # x => serial'[y] # serial'[x]
      BY <1>1, <2>1, <2>2, <2>3, <2>4
    <3> QED
      BY <2>2, <3>1, <3>2
  <2> QED
    BY <1>2, <2>5, <2>6 DEF SerialsInv
<1>6. ASSUME NEW x \in Exporters, Step(x) \/ Kill(x) PROVE SerialsInv'
  <2>1. serial' = serial /\ exports' = exports /\ pc[x] # "idle"
    BY <1>6 DEF Step, CreateTemp, WriteBody, SyncTemp, Publish, Fail, Cleanup, Kill
  <2>2. \A y \in Exporters : y # x => pc'[y] = pc[y]
    BY <1>0, <1>6, OthersStay
  <2> QED
    BY <1>0, <1>2, <2>1, <2>2 DEF SerialsInv
<1> QED
  BY <1>3, <1>4, <1>5, <1>6 DEF Next

-----------------------------------------------------------------------------
\* NothingPublishedEarly, said of one exporter.
Early(x) ==
  pc[x] # "idle" =>
    \A i \in DOMAIN plan[x] :
      seen[plan[x][i]].export = serial[x] =>
        i <= moved[x] /\ pc[x] \in {"publishing", "cleanup"}

\* While the own state of an export rests, no other gives a file its number.
LEMMA EarlyUnmoved ==
  ASSUME IInv, NEW x \in Exporters, pc'[x] = pc[x], plan'[x] = plan[x], serial'[x] = serial[x],
         moved'[x] = moved[x],
         NEW y \in Exporters, y # x, seen' = seen \/ Publish(y)
  PROVE  Early(x)'
<1>0. Early(x) /\ TypeOK
  BY DEF IInv, NothingPublishedEarly, Early
<1>1. CASE seen' = seen
  BY <1>0, <1>1 DEF Early
<1>2. CASE Publish(y)
  <2>1. pc[x] # "idle" => serial[y] # serial[x]
    <3>1. pc[y] # "idle"
      BY <1>2 DEF Publish
    <3>2. SerialsInv
      BY DEF IInv
    <3> QED
      BY <3>1, <3>2 DEF SerialsInv
  <2> SUFFICES ASSUME pc[x] # "idle", NEW i \in DOMAIN plan[x],
                      seen'[plan[x][i]].export = serial[x]
               PROVE  i <= moved[x] /\ pc[x] \in {"publishing", "cleanup"}
    BY DEF Early
  <2>2. plan[x][i] \in Targets
    BY <1>0 DEF TypeOK
  <2>3. seen'[plan[x][i]] = seen[plan[x][i]]
    <3>1. seen \in [Targets -> Contents]
      BY <1>0 DEF TypeOK
    <3>2. \/ seen'[plan[x][i]] = seen[plan[x][i]]
          \/ seen'[plan[x][i]] = temps[y][moved[y] + 1]
      BY <1>2, <2>2, <3>1, RenameIsWhole
    <3>3. temps[y][moved[y] + 1].export = serial[y]
      BY <1>2, RenameIsWhole
    <3> QED
      BY <2>1, <3>2, <3>3
  <2> QED
    BY <1>0, <2>3 DEF Early
<1> QED
  BY <1>1, <1>2

\* No step brings a file of an export under a name before its turn.
LEMMA EarlyStep ==
  ASSUME OutputAssumption, IInv, [Next]_vars
  PROVE  NothingPublishedEarly'
<1> SUFFICES ASSUME NEW x \in Exporters PROVE Early(x)'
  BY DEF NothingPublishedEarly, Early
<1>0. Early(x) /\ TypeOK /\ TempsInv(x) /\ plan[x] \in Seq(Targets) /\ moved[x] \in Nat
  BY DEF IInv, NothingPublishedEarly, Early, TypeOK
<1>1. CASE UNCHANGED vars
  BY <1>0, <1>1 DEF vars, Early
<1>2. CASE PowerLoss
  BY <1>2 DEF PowerLoss, Early
<1>3. ASSUME NEW y \in Exporters, y # x, Start(y) \/ Step(y) \/ Kill(y) PROVE Early(x)'
  <2>1. seen' = seen \/ Publish(y)
    BY <1>3 DEF Start, Step, CreateTemp, WriteBody, SyncTemp, Publish, Fail, Cleanup, Kill
  <2>2. pc'[x] = pc[x] /\ plan'[x] = plan[x] /\ serial'[x] = serial[x] /\ moved'[x] = moved[x]
    BY <1>0, <1>3, OthersStay
  <2> QED
    BY <1>3, <2>1, <2>2, EarlyUnmoved
<1>4. CASE Start(x)
  <2>1. PICK p \in Plans : plan' = [plan EXCEPT ![x] = p]
    BY <1>4 DEF Start
  <2>2. plan'[x] \in Seq(Targets) /\ serial'[x] = exports + 1 /\ seen' = seen
    BY <1>0, <1>4, <2>1 DEF OutputAssumption, TypeOK, Start
  <2>3. \A t \in Targets : seen[t].export # exports + 1
    <3>1. \A t \in Targets : seen[t].export <= exports /\ seen[t].export \in Nat /\ exports \in Nat
      BY <1>0 DEF IInv, SerialsInv, TypeOK, Contents
    <3> QED
      BY <3>1
  <2> QED
    BY <2>2, <2>3 DEF Early
<1>5. CASE CreateTemp(x) \/ WriteBody(x) \/ SyncTemp(x) \/ Fail(x)
  <2>1. /\ seen' = seen /\ plan'[x] = plan[x] /\ serial'[x] = serial[x] /\ moved'[x] = moved[x]
        /\ pc[x] # "idle"
        /\ pc'[x] \in {"publishing", "cleanup"} \/ pc[x] \notin {"publishing", "cleanup"}
    BY <1>0, <1>5 DEF CreateTemp, WriteBody, SyncTemp, Fail, TypeOK
  <2> QED
    BY <1>0, <2>1 DEF Early
<1>6. CASE Publish(x)
  <2>1. /\ plan'[x] = plan[x] /\ serial'[x] = serial[x] /\ moved'[x] = moved[x] + 1
        /\ pc'[x] \in {"publishing", "cleanup"} /\ pc[x] = "publishing"
    BY <1>0, <1>6 DEF Publish, TypeOK
  <2> SUFFICES ASSUME NEW i \in DOMAIN plan[x], seen'[plan[x][i]].export = serial[x]
               PROVE  i <= moved[x] + 1
    BY <2>1 DEF Early
  <2>2. i \in Nat /\ plan[x][i] \in Targets
    BY <1>0
  <2>3. CASE i = moved[x] + 1
    BY <1>0, <2>3
  <2>4. CASE i # moved[x] + 1
    <3>1. plan[x][i] # plan[x][moved[x] + 1]
      BY <1>6, <2>4, RenameIsWhole DEF IInv, PlansInv
    <3>2. seen'[plan[x][i]] = seen[plan[x][i]]
      BY <1>0, <1>6, <2>2, <3>1, RenameIsWhole DEF TypeOK
    <3> QED
      BY <1>0, <2>1, <2>2, <3>2 DEF Early
  <2> QED
    BY <2>3, <2>4
<1>7. CASE Cleanup(x) \/ Kill(x)
  BY <1>0, <1>7 DEF Cleanup, Kill, Early, TypeOK
<1> QED
  BY <1>1, <1>2, <1>3, <1>4, <1>5, <1>6, <1>7 DEF Next, Step

-----------------------------------------------------------------------------
\* What is told of renames is true: the names others have renamed onto are known.
LEMMA ContestedStep ==
  ASSUME OutputAssumption, IInv, [Next]_vars
  PROVE  contested' \in [Exporters -> SUBSET Targets]
<1>0. contested \in [Exporters -> SUBSET Targets]
  BY DEF IInv
<1>1. ASSUME NEW x \in Exporters, Publish(x) PROVE contested' \in [Exporters -> SUBSET Targets]
  <2>1. /\ contested' = [y \in Exporters |-> IF y = x THEN contested[y]
                                             ELSE contested[y] \cup {plan[x][moved[x] + 1]}]
        /\ plan[x][moved[x] + 1] \in Targets
    BY <1>1, RenameIsWhole DEF Publish, Contest
  <2> QED
    BY <1>0, <2>1
<1>2. CASE \A x \in Exporters : ~Publish(x)
  BY <1>0, <1>2 DEF Next, Step, vars, PowerLoss, Start, CreateTemp, WriteBody, SyncTemp, Fail,
     Cleanup, Kill
<1> QED
  BY <1>1, <1>2

\* A rename of x itself, seen from the names it has renamed by then.
LEMMA OwnRename ==
  ASSUME IInv, NEW x \in Exporters, Publish(x)
  PROVE  \A i \in 1 .. moved[x] + 1 :
           seen'[plan[x][i]].export = serial[x] \/ plan[x][i] \in contested'[x]
<1>0. /\ TypeOK /\ MovedInv(x) /\ plan[x] \in Seq(Targets) /\ moved[x] \in Nat
      /\ moved[x] + 1 \in DOMAIN plan[x] /\ contested \in [Exporters -> SUBSET Targets]
      /\ pc[x] = "publishing"
  BY RenameIsWhole DEF IInv, TypeOK
<1>1. contested'[x] = contested[x]
  BY <1>0 DEF Publish, Contest
<1> TAKE i \in 1 .. moved[x] + 1
<1>2. plan[x][i] \in Targets
  BY <1>0
<1>3. CASE i = moved[x] + 1
  BY <1>0, <1>2, <1>3, RenameIsWhole DEF TypeOK
<1>4. CASE i # moved[x] + 1
  <2>1. i \in 1 .. moved[x]
    BY <1>0, <1>4
  <2>2. seen[plan[x][i]].export = serial[x] \/ plan[x][i] \in contested[x]
    BY <1>0, <2>1 DEF MovedInv
  <2>3. seen'[plan[x][i]].export \in {seen[plan[x][i]].export, serial[x]}
    BY <1>0, <1>2, RenameIsWhole DEF TypeOK
  <2> QED
    BY <1>1, <2>2, <2>3
<1> QED
  BY <1>3, <1>4

\* Every step keeps what is known of the names an export has renamed.
LEMMA MovedStep ==
  ASSUME OutputAssumption, IInv, [Next]_vars, NEW x \in Exporters
  PROVE  MovedInv(x)'
<1>0. /\ TypeOK /\ MovedInv(x) /\ TempsInv(x) /\ plan[x] \in Seq(Targets) /\ moved[x] \in Nat
      /\ contested \in [Exporters -> SUBSET Targets]
  BY DEF IInv, TypeOK
<1>1. CASE UNCHANGED vars
  BY <1>0, <1>1 DEF vars, MovedInv
<1>2. CASE PowerLoss
  BY <1>2 DEF PowerLoss, MovedInv
<1>3. ASSUME NEW y \in Exporters, y # x, Start(y) \/ Step(y) \/ Kill(y) PROVE MovedInv(x)'
  <2>1. pc'[x] = pc[x] /\ plan'[x] = plan[x] /\ serial'[x] = serial[x] /\ moved'[x] = moved[x]
    BY <1>0, <1>3, OthersStay
  <2>2. \A t \in Targets : \/ seen'[t] = seen[t] /\ contested[x] \subseteq contested'[x]
                           \/ t \in contested'[x]
    <3>1. CASE Publish(y)
      BY <1>0, <1>3, <3>1, RenameIsWhole DEF Publish, Contest, TypeOK
    <3>2. CASE ~Publish(y)
      BY <1>0, <1>3, <3>2 DEF Start, Step, CreateTemp, WriteBody, SyncTemp, Fail, Cleanup, Kill
    <3> QED
      BY <3>1, <3>2
  <2>3. pc[x] = "publishing" => \A i \in 1 .. moved[x] : plan[x][i] \in Targets
    BY <1>0 DEF TempsInv
  <2> QED
    BY <1>0, <2>1, <2>2, <2>3 DEF MovedInv
<1>4. CASE Start(x) \/ CreateTemp(x) \/ WriteBody(x) \/ Fail(x) \/ Cleanup(x) \/ Kill(x)
  BY <1>0, <1>4 DEF Start, CreateTemp, WriteBody, Fail, Cleanup, Kill, MovedInv, TypeOK
<1>5. CASE SyncTemp(x)
  <2>1. moved'[x] = 0 /\ 1 .. 0 = {}
    BY <1>0, <1>5 DEF SyncTemp, TempsInv
  <2> QED
    BY <2>1 DEF MovedInv
<1>6. CASE Publish(x)
  <2>1. plan'[x] = plan[x] /\ serial'[x] = serial[x] /\ moved'[x] = moved[x] + 1
    BY <1>0, <1>6 DEF Publish, TypeOK
  <2> QED
    BY <1>6, <2>1, OwnRename DEF MovedInv
<1> QED
  BY <1>1, <1>2, <1>3, <1>4, <1>5, <1>6 DEF Next, Step

-----------------------------------------------------------------------------
\* IInv is inductive and holds from the start.
LEMMA IInvHolds == Spec => []IInv
<1>1. OutputAssumption
  BY OutputAssumption
<1>2. Init => IInv
  <2> SUFFICES ASSUME Init PROVE IInv
    OBVIOUS
  <2>1. TypeOK
    BY <1>1 DEF Init, TypeOK, Before, Contents, Places, Outcomes, OutputAssumption
  <2>2. PlansInv /\ SerialsInv /\ FilesInv /\ NothingPublishedEarly
    BY DEF Init, PlansInv, SerialsInv, FilesInv, NothingPublishedEarly, Before
  <2>3. \A x \in Exporters : TempsInv(x) /\ MovedInv(x)
    <3>1. ASSUME NEW x \in Exporters
          PROVE  temps[x] = <<>> /\ plan[x] = <<>> /\ moved[x] = 0 /\ pc[x] = "idle"
      BY DEF Init
    <3>2. ASSUME NEW x \in Exporters
          PROVE  /\ Len(temps[x]) <= Len(plan[x]) /\ DOMAIN temps[x] = {}
      BY <3>1
    <3> QED
      BY <3>1, <3>2 DEF TempsInv, MovedInv
  <2>4. contested \in [Exporters -> SUBSET Targets]
    BY DEF Init
  <2> QED
    BY <2>1, <2>2, <2>3, <2>4 DEF IInv
<1>3. IInv /\ [Next]_vars => IInv'
  BY <1>1, TypeStep, PlansStep, SerialsStep, FilesStep, TempsStep, MovedStep, EarlyStep,
     ContestedStep DEF IInv
<1> QED
  BY <1>2, <1>3, PTL DEF Spec

\* Every reachable state is well typed.
THEOREM OutputTypes == Spec => []TypeOK
<1>1. IInv => TypeOK
  BY DEF IInv
<1> QED
  BY <1>1, IInvHolds, PTL

\* A reader finds the old file or the new one under every name, never a half-written
\* one, whatever fails, is killed or runs beside it, and after any number of power
\* losses (output.py:11): what is renamed has been written and synced before.
THEOREM NoHalfFile == Spec => []TargetsWhole
<1>1. IInv => TargetsWhole
  BY DEF IInv, FilesInv, TargetsWhole
<1> QED
  BY <1>1, IInvHolds, PTL

\* No file of an export is under its name before all of them are written and
\* synced, and none before those ahead of it (output.py:86).
THEOREM NoEarlyFile == Spec => []NothingPublishedEarly
<1>1. IInv => NothingPublishedEarly
  BY DEF IInv
<1> QED
  BY <1>1, IInvHolds, PTL

\* An export turns "ok" with the rename of its last file only.
LEMMA OkIsLastRename ==
  ASSUME IInv, [Next]_vars, NEW x \in Exporters, outcome[x] # "ok", outcome'[x] = "ok"
  PROVE  Publish(x) /\ moved[x] + 1 = Len(plan[x])
<1>0. TypeOK
  BY DEF IInv
<1>1. CASE UNCHANGED vars \/ PowerLoss
  BY <1>0, <1>1 DEF vars, PowerLoss, TypeOK
<1>2. ASSUME NEW y \in Exporters, Start(y) \/ Step(y) \/ Kill(y)
      PROVE  Publish(x) /\ moved[x] + 1 = Len(plan[x])
  BY <1>0, <1>2 DEF Start, Step, CreateTemp, WriteBody, SyncTemp, Publish, Fail, Cleanup, Kill,
     TypeOK
<1> QED
  BY <1>1, <1>2 DEF Next

\* An export that reports success is under every one of its names, except those
\* another has renamed onto since it began.
THEOREM SuccessIsPublished == Spec => OkMeansPublished
<1> DEFINE Ok == \A x \in Exporters : outcome[x] # "ok" /\ outcome'[x] = "ok" =>
                   \A i \in DOMAIN plan[x] :
                     seen'[plan[x][i]].export = serial[x] \/ plan[x][i] \in contested'[x]
<1>1. IInv /\ [Next]_vars => Ok
  <2> SUFFICES ASSUME IInv, [Next]_vars,
                      NEW x \in Exporters, outcome[x] # "ok", outcome'[x] = "ok",
                      NEW i \in DOMAIN plan[x]
               PROVE  seen'[plan[x][i]].export = serial[x] \/ plan[x][i] \in contested'[x]
    OBVIOUS
  <2>1. Publish(x) /\ moved[x] + 1 = Len(plan[x])
    BY OkIsLastRename
  <2>2. i \in 1 .. moved[x] + 1
    BY <2>1 DEF IInv, TypeOK
  <2> QED
    BY <2>1, <2>2, OwnRename
<1>2. IInv /\ [Next]_vars => [Ok]_vars
  BY <1>1
<1> QED
  BY <1>2, IInvHolds, PTL DEF Spec, OkMeansPublished
=============================================================================
