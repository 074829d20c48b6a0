------------------------ MODULE OperatorScriptsProofs ------------------------
(***************************************************************************)
(* The scripts that operators run on the host, for every number of files,  *)
(* writes, runs and edits: what the storage migration, the ClickHouse      *)
(* remediation and the proxy update leave behind wherever they end.        *)
(***************************************************************************)
EXTENDS StorageMigration, ClickhouseRemediation, ProxyUpdate, TLAPS

-----------------------------------------------------------------------------
(* The storage migration. *)

\* A rollback knows what to restore.
RollbackPrepared == step \in RollbackSteps => backup # NoBackup

\* The types, part by part.
TreesOK == rootfs \in Content /\ data \in Content /\ latest \in Content /\ writes \in 0..MaxWrites
LayoutsOK == bound \in Layouts /\ fstab \in Layouts /\ attached \in Layouts
BackupOK == backup = NoBackup \/ backup \in Layouts
FlagsOK ==
    /\ markers \subseteq {"staged", "cutover", "verified", "retired"}
    /\ recorded \in BOOLEAN /\ evidence \in BOOLEAN /\ direct \in BOOLEAN
    /\ running \in BOOLEAN /\ passedOver \in BOOLEAN
StepOK ==
    /\ step \in {"idle", "retire"} \cup CutoverSteps \cup RollbackSteps
    /\ last \in Commands
    /\ RollbackPrepared

\* They hold in whatever order the phases are run.
TypesInv == TreesOK /\ LayoutsOK /\ BackupOK /\ FlagsOK /\ StepOK

\* The staged copy is not newer than a file it is a copy of, which is what
\* makes the final cp -u bring every file up to date.
CopyIsOlder == \A t \in Trees, f \in Files : rootfs[t][f] # 0 => data[t][f] <= rootfs[t][f]

\* The writes are numbered as they happen.
Numbered == \A t \in Trees, f \in Files : rootfs[t][f] <= writes /\ data[t][f] <= writes

\* Between commands: what is mounted and listed after each of them.
AtRest ==
    /\ last \in {"none", "stage", "rollback"} /\ step = "idle" => bound = {} /\ fstab = {}
    /\ last \in {"none", "rollback"} => step = "idle"
    /\ last = "interrupted" => step \in {"idle"} \cup RollbackSteps
    /\ last \in {"cutover", "verify"} =>
           step = "idle" /\ ~direct /\ bound = Trees /\ fstab = Trees
    /\ last = "recreate" => /\ step \in {"idle", "retire"} /\ direct
                            /\ fstab = Trees /\ "graphroot" \in bound
    /\ last \in {"retire", "cleanup"} =>
           step = "idle" /\ direct /\ bound = {"graphroot"} /\ fstab = {"graphroot"}

\* Within a cutover: the services are down from the copy on, and fstab is
\* written before anything is mounted.
InCutover ==
    step \in CutoverSteps =>
        /\ last = "stage"
        /\ step # "stop" => ~running
        /\ bound = IF step = "start" THEN Trees ELSE {}
        /\ fstab = IF step \in {"mount", "start"} THEN Trees ELSE {}

\* Within a rollback that has restored fstab without passing anything over:
\* nothing is left on /data.
InRollback ==
    /\ step \in RollbackSteps => last = "interrupted"
    /\ step = "start again" => bound = {} /\ fstab = {}

\* Where the script is, and what is mounted and listed there.
Position ==
    /\ backup \in {NoBackup, {}}
    /\ step = "retire" => last = "recreate" /\ bound = {"graphroot"}
    /\ AtRest /\ InCutover /\ InRollback

\* /data has all files before fstab sends anyone there.
CopyComplete == step \in {"fstab", "mount", "start"} => data = rootfs

\* What the services are led to and what they use.
FstabLeadsToData == View(OnData(fstab)) = latest
AttachedAsListed == attached = IF running THEN OnData(fstab) ELSE {}

\* The copy has been brought as far as the phase promises.
CopyOnCourse == Numbered /\ CopyComplete /\ (last = "stage" => ~direct /\ CopyIsOlder)

\* As long as no rollback has passed anything over, and with the phases in the
\* runbook's order: fstab leads to what the services last wrote, also while they
\* are down, and to the copies that they use, for a reboot may come at any time.
OnCourse == Position /\ CopyOnCourse /\ FstabLeadsToData /\ AttachedAsListed

\* The inductive invariant.
MigrationInv == TypesInv /\ (~passedOver => OnCourse)


\* A tree with one more write is still a tree.
LEMMA ContentWritten ==
    ASSUME NEW c \in Content, NEW t \in Trees, NEW f \in Files, NEW v \in 0..MaxWrites
    PROVE  [c EXCEPT ![t][f] = v] \in Content
  <1>1. [c[t] EXCEPT ![f] = v] \in [Files -> 0..MaxWrites]
    BY DEF Content
  <1> QED BY <1>1 DEF Content

\* Trees without files are trees.
LEMMA NothingIsContent == Nothing \in Content /\ \A t \in Trees, f \in Files : Nothing[t][f] = 0
  BY MigrationAssumption DEF Nothing, Content

\* Copying makes trees of trees.
LEMMA ContentCopied ==
    ASSUME rootfs \in Content, data \in Content
    PROVE  /\ Staged(rootfs, data) \in Content /\ Updated(rootfs, data) \in Content
           /\ \A done, copy : copy \in Content => Copied(done, copy) \in Content
  <1>1. Staged(rootfs, data) \in Content
    BY DEF Staged, Content
  <1>2. Updated(rootfs, data) \in Content
    BY DEF Updated, Content
  <1>3. ASSUME NEW done, NEW copy \in Content PROVE Copied(done, copy) \in Content
    BY DEF Copied, Content
  <1> QED BY <1>1, <1>2, <1>3

\* The layouts that the script produces.
LEMMA SomeLayouts ==
    /\ {} \in Layouts /\ Trees \in Layouts /\ {"graphroot"} \in Layouts
    /\ \A b \in Layouts : \A t : b \ {t} \in Layouts
    /\ \A b : OnData(b) \in Layouts
    /\ \A b \in Layouts : "graphroot" \in b => b \ {"service"} = {"graphroot"}
  BY DEF Layouts, Trees, OnData

\* The types hold before the first command.
LEMMA TypesStart == MigrationInit => TypesInv
  <1> SUFFICES ASSUME MigrationInit PROVE TypesInv
    OBVIOUS
  <1>1. rootfs \in Content /\ data \in Content /\ latest \in Content
    BY NothingIsContent DEF MigrationInit
  <1>2. bound \in Layouts /\ fstab \in Layouts /\ attached \in Layouts
    BY SomeLayouts DEF MigrationInit
  <1>3. writes \in 0..MaxWrites
    BY MigrationAssumption DEF MigrationInit
  <1>4. /\ markers = {} /\ recorded \in BOOLEAN /\ evidence \in BOOLEAN /\ direct \in BOOLEAN
        /\ running \in BOOLEAN /\ passedOver \in BOOLEAN /\ step = "idle" /\ last = "none"
        /\ backup = NoBackup
    BY DEF MigrationInit
  <1> QED BY <1>1, <1>2, <1>3, <1>4
      DEF TypesInv, TreesOK, LayoutsOK, BackupOK, FlagsOK, StepOK, RollbackPrepared, Commands,
          RollbackSteps

\* Every step keeps the trees.
LEMMA TreesStep == TypesInv /\ MigrationNext => TreesOK'
  <1> SUFFICES ASSUME TreesOK, MigrationNext PROVE TreesOK'
    BY DEF TypesInv
  <1> USE DEF TreesOK
  <1>1. ASSUME NEW t \in Trees, NEW f \in Files, Write(t, f) PROVE TreesOK'
    <2>1. PICK version \in {0, writes + 1} :
              /\ latest' = [latest EXCEPT ![t][f] = version]
              /\ IF t \in attached
                 THEN data' = [data EXCEPT ![t][f] = version] /\ UNCHANGED rootfs
                 ELSE rootfs' = [rootfs EXCEPT ![t][f] = version] /\ UNCHANGED data
      BY <1>1 DEF Write
    <2>2. writes < MaxWrites /\ writes' = writes + 1
      BY <1>1 DEF Write
    <2>3. version \in 0..MaxWrites /\ writes' \in 0..MaxWrites
      BY <2>2, MigrationAssumption
    <2>4. /\ [rootfs EXCEPT ![t][f] = version] \in Content
          /\ [data EXCEPT ![t][f] = version] \in Content
          /\ [latest EXCEPT ![t][f] = version] \in Content
      BY <2>3, ContentWritten, Zenon
    <2> QED BY <2>1, <2>3, <2>4
  <1>2. CASE Stage \/ StageFails \/ CutoverCopy \/ CutoverFails
    <2>1. data' \in Content
      BY <1>2, ContentCopied DEF Stage, StageFails, CutoverCopy, CutoverFails
    <2>2. UNCHANGED <<rootfs, writes, latest>>
      BY <1>2 DEF Stage, StageFails, CutoverCopy, CutoverFails, history
    <2> QED BY <2>1, <2>2
  <1>3. CASE Cleanup
    BY <1>3, NothingIsContent DEF Cleanup, history
  <1>4. CASE RollbackFstab
    BY <1>4 DEF RollbackFstab, files
  <1>5. CASE \/ KeepEvidence \/ CutoverBegin \/ CutoverStop \/ CutoverFstab \/ CutoverMount
             \/ CutoverStart \/ RollbackBegin \/ RollbackStop
             \/ RollbackUnmount("service", "unmount service", "unmount graphroot")
             \/ RollbackUnmount("graphroot", "unmount graphroot", "restore fstab")
             \/ RollbackStart \/ Verify \/ Recreate \/ RetireUnmount \/ RetireFstab
             \/ Interrupt \/ Reboot
    <2>1. UNCHANGED <<files, history>>
      BY <1>5 DEF KeepEvidence, CutoverBegin, CutoverStop, CutoverFstab, CutoverMount,
                  CutoverStart, RollbackBegin, RollbackStop, RollbackUnmount, RollbackStart,
                  Verify, Recreate, RetireUnmount, RetireFstab, Interrupt, Reboot
    <2> QED BY <2>1 DEF files, history
  <1> QED BY <1>1, <1>2, <1>3, <1>4, <1>5 DEF MigrationNext, RollbackStep

\* Every step keeps the layouts.
LEMMA LayoutsStep == TypesInv /\ MigrationNext => LayoutsOK' /\ BackupOK'
  <1> SUFFICES ASSUME LayoutsOK, BackupOK, RollbackPrepared, MigrationNext
               PROVE  LayoutsOK' /\ BackupOK'
    BY DEF TypesInv, StepOK
  <1>1. backup' \in {backup, NoBackup, fstab}
    BY DEF MigrationNext, Write, KeepEvidence, Stage, StageFails, CutoverBegin, CutoverStop,
           CutoverCopy, CutoverFstab, CutoverMount, CutoverStart, CutoverFails, RollbackBegin,
           RollbackStep, RollbackStop, RollbackUnmount, RollbackFstab, RollbackStart, Verify,
           Recreate, RetireUnmount, RetireFstab, Cleanup, Interrupt, Reboot, PruneState, state
  <1>2. RollbackFstab \/ fstab' \in {fstab, Trees, {"graphroot"}}
    BY DEF MigrationNext, Write, KeepEvidence, Stage, StageFails, CutoverBegin, CutoverStop,
           CutoverCopy, CutoverFstab, CutoverMount, CutoverStart, CutoverFails, RollbackBegin,
           RollbackStep, RollbackStop, RollbackUnmount, RollbackStart, Verify,
           Recreate, RetireUnmount, RetireFstab, Cleanup, Interrupt, Reboot, files
  <1>3. \/ bound' \in {bound, Trees, {"graphroot"}, fstab}
        \/ \E t \in Trees : bound' = bound \ {t}
    BY DEF MigrationNext, Write, KeepEvidence, Stage, StageFails, CutoverBegin, CutoverStop,
           CutoverCopy, CutoverFstab, CutoverMount, CutoverStart, CutoverFails, RollbackBegin,
           RollbackStep, RollbackStop, RollbackUnmount, RollbackFstab, RollbackStart, Verify,
           Recreate, RetireUnmount, RetireFstab, Cleanup, Interrupt, Reboot, Trees
  <1>4. attached' \in {attached, {}, Trees, OnData(bound), OnData(fstab)}
    BY DEF MigrationNext, Write, KeepEvidence, Stage, StageFails, CutoverBegin, CutoverStop,
           CutoverCopy, CutoverFstab, CutoverMount, CutoverStart, CutoverFails, RollbackBegin,
           RollbackStep, RollbackStop, RollbackUnmount, RollbackFstab, RollbackStart, Verify,
           Recreate, RetireUnmount, RetireFstab, Cleanup, Interrupt, Reboot, services, StopServices, StartRecorded
  <1>5. RollbackFstab => fstab' \in Layouts
    <2>1. RollbackFstab => fstab' = backup /\ step \in RollbackSteps
      BY DEF RollbackFstab, Proceed, RollbackSteps
    <2> QED BY <2>1 DEF BackupOK, RollbackPrepared
  <1>6. bound' \in Layouts
    <2>1. CASE bound' \in {bound, Trees, {"graphroot"}, fstab}
      BY <2>1, SomeLayouts DEF LayoutsOK
    <2>2. ASSUME NEW t \in Trees, bound' = bound \ {t} PROVE bound' \in Layouts
      BY <2>2, SomeLayouts DEF LayoutsOK
    <2> QED BY <1>3, <2>1, <2>2
  <1>7. attached' \in Layouts
    BY <1>4, SomeLayouts DEF LayoutsOK
  <1> QED BY <1>1, <1>2, <1>5, <1>6, <1>7, SomeLayouts DEF BackupOK, LayoutsOK

\* Every step keeps the flags.
LEMMA FlagsStep == TypesInv /\ MigrationNext => FlagsOK'
  <1> SUFFICES ASSUME FlagsOK, MigrationNext PROVE FlagsOK'
    BY DEF TypesInv
  <1>1. \E m \in {"staged", "cutover", "verified", "retired"} :
            markers' \in {markers, {}, markers \cup {m}}
    BY DEF MigrationNext, Write, KeepEvidence, Stage, StageFails, CutoverBegin, CutoverStop,
           CutoverCopy, CutoverFstab, CutoverMount, CutoverStart, CutoverFails, RollbackBegin,
           RollbackStep, RollbackStop, RollbackUnmount, RollbackFstab, RollbackStart, Verify,
           Recreate, RetireUnmount, RetireFstab, Cleanup, Interrupt, Reboot, PruneState, state
  <1>2. recorded' \in {recorded, running, FALSE}
    BY DEF MigrationNext, Write, KeepEvidence, Stage, StageFails, CutoverBegin, CutoverStop,
           CutoverCopy, CutoverFstab, CutoverMount, CutoverStart, CutoverFails, RollbackBegin,
           RollbackStep, RollbackStop, RollbackUnmount, RollbackFstab, RollbackStart, Verify,
           Recreate, RetireUnmount, RetireFstab, Cleanup, Interrupt, Reboot, PruneState, state
  <1>3. evidence' \in {evidence, TRUE}
    BY DEF MigrationNext, Write, KeepEvidence, Stage, StageFails, CutoverBegin, CutoverStop,
           CutoverCopy, CutoverFstab, CutoverMount, CutoverStart, CutoverFails, RollbackBegin,
           RollbackStep, RollbackStop, RollbackUnmount, RollbackFstab, RollbackStart, Verify,
           Recreate, RetireUnmount, RetireFstab, Cleanup, Interrupt, Reboot, Proceed
  <1>4. direct' \in BOOLEAN
    BY DEF FlagsOK, MigrationNext, Write, KeepEvidence, Stage, StageFails, CutoverBegin, CutoverStop,
           CutoverCopy, CutoverFstab, CutoverMount, CutoverStart, CutoverFails, RollbackBegin,
           RollbackStep, RollbackStop, RollbackUnmount, RollbackFstab, RollbackStart, Verify,
           Recreate, RetireUnmount, RetireFstab, Cleanup, Interrupt, Reboot
  <1>5. running' \in BOOLEAN
    BY DEF FlagsOK, MigrationNext, Write, KeepEvidence, Stage, StageFails, CutoverBegin, CutoverStop,
           CutoverCopy, CutoverFstab, CutoverMount, CutoverStart, CutoverFails, RollbackBegin,
           RollbackStep, RollbackStop, RollbackUnmount, RollbackFstab, RollbackStart, Verify,
           Recreate, RetireUnmount, RetireFstab, Cleanup, Interrupt, Reboot, services, StopServices, StartRecorded
  <1>6. passedOver' \in BOOLEAN
    BY DEF FlagsOK, MigrationNext, Write, KeepEvidence, Stage, StageFails, CutoverBegin, CutoverStop,
           CutoverCopy, CutoverFstab, CutoverMount, CutoverStart, CutoverFails, RollbackBegin,
           RollbackStep, RollbackStop, RollbackUnmount, RollbackFstab, RollbackStart, Verify,
           Recreate, RetireUnmount, RetireFstab, Cleanup, Interrupt, Reboot, history
  <1> QED BY <1>1, <1>2, <1>3, <1>4, <1>5, <1>6 DEF FlagsOK

\* Every step leads to a step, and a rollback is begun with something to restore.
LEMMA StepStep == TypesInv /\ MigrationNext => StepOK'
  <1> SUFFICES ASSUME StepOK, MigrationNext PROVE StepOK'
    BY DEF TypesInv
  <1> USE DEF StepOK, RollbackPrepared, CutoverSteps, RollbackSteps, Proceed, state
  <1>1. InterruptedCommand \in Commands
    BY DEF InterruptedCommand, Commands
  <1>2. CASE \E t \in Trees, f \in Files : Write(t, f)
    BY <1>2 DEF Write
  <1>3. CASE \/ KeepEvidence \/ Stage \/ StageFails \/ Verify \/ Recreate \/ RetireUnmount
             \/ RetireFstab \/ Cleanup
    BY <1>3 DEF KeepEvidence, Stage, StageFails, Verify, Recreate, RetireUnmount, RetireFstab,
                Cleanup, Commands, MayRun
  <1>4. CASE \/ CutoverBegin \/ CutoverStop \/ CutoverCopy \/ CutoverFstab \/ CutoverMount
             \/ CutoverStart \/ CutoverFails
    BY <1>4 DEF CutoverBegin, CutoverStop, CutoverCopy, CutoverFstab, CutoverMount,
                CutoverStart, CutoverFails, Commands
  <1>5. CASE RollbackBegin \/ RollbackStep
    BY <1>5 DEF RollbackBegin, RollbackStep, RollbackStop, RollbackUnmount, RollbackFstab,
                RollbackStart, Commands
  <1>6. CASE Interrupt \/ Reboot
    BY <1>1, <1>6 DEF Interrupt, Reboot
  <1> QED BY <1>2, <1>3, <1>4, <1>5, <1>6 DEF MigrationNext

\* Every step keeps the types.
LEMMA TypesStep == TypesInv /\ [MigrationNext]_migrationVars => TypesInv'
  <1>1. ASSUME TypesInv, UNCHANGED migrationVars PROVE TypesInv'
    <2>1. UNCHANGED <<rootfs, data, bound, fstab, backup, markers, recorded, evidence, direct,
                      running, attached, step, last, writes, latest, passedOver>>
      BY <1>1 DEF migrationVars, files, state, services, history
    <2>2. TreesOK' /\ LayoutsOK' /\ BackupOK'
      BY <1>1, <2>1 DEF TypesInv, TreesOK, LayoutsOK, BackupOK
    <2>3. FlagsOK' /\ StepOK'
      BY <1>1, <2>1 DEF TypesInv, FlagsOK, StepOK, RollbackPrepared
    <2> QED BY <2>2, <2>3 DEF TypesInv
  <1> QED BY <1>1, TreesStep, LayoutsStep, FlagsStep, StepStep DEF TypesInv

\* What the services find on /data under the layouts that the script produces.
LEMMA DataUnder ==
    /\ OnData({}) = {} /\ OnData(Trees) = Trees /\ (direct => OnData({"graphroot"}) = Trees)
    /\ OnData({})' = {} /\ OnData(Trees)' = Trees /\ (direct' => OnData({"graphroot"})' = Trees)
  BY DEF OnData, Trees

\* The commands that the runbook lets an operator run.
LEMMA RunbookOrder ==
    ASSUME InOrder, last \in Commands
    PROVE  /\ MayRun("stage") => step = "idle" /\ last \in {"none", "stage", "rollback"}
           /\ MayRun("cutover") => step = "idle" /\ last = "stage"
           /\ MayRun("verify") => step = "idle" /\ last = "cutover"
           /\ MayRun("recreate") => step = "idle" /\ last = "verify"
           /\ MayRun("retire") => step = "idle" /\ last = "recreate"
           /\ MayRun("cleanup") => step = "idle" /\ last = "retire"
           /\ MayRun("rollback") => step = "idle" /\ last \notin {"none", "rollback", "cleanup"}
  BY DEF MayRun, Following, Commands

\* A rollback that has passed over something is not forgotten.
LEMMA PassedOverStays == MigrationNext /\ ~passedOver' => ~passedOver
  BY DEF MigrationNext, Write, KeepEvidence, Stage, StageFails, CutoverBegin, CutoverStop,
         CutoverCopy, CutoverFstab, CutoverMount, CutoverStart, CutoverFails, RollbackBegin,
         RollbackStep, RollbackStop, RollbackUnmount, RollbackFstab, RollbackStart, Verify,
         Recreate, RetireUnmount, RetireFstab, Cleanup, Interrupt, Reboot, history

\* The script's position, after every step.
LEMMA PositionStep ==
    ASSUME TypesInv, OnCourse, InOrder, MigrationNext, ~passedOver'
    PROVE  Position'
  <1> USE DEF Position
  <1>0. Position /\ last \in Commands /\ bound \in Layouts
    BY DEF OnCourse, TypesInv, StepOK, LayoutsOK
  <1>1. CASE KeepEvidence \/ \E t \in Trees, f \in Files : Write(t, f)
    <2>1. UNCHANGED <<bound, fstab, backup, direct, running, step, last>>
      BY <1>1 DEF KeepEvidence, Write, state, services
    <2> QED BY <1>0, <2>1 DEF AtRest, InCutover, InRollback
  <1>2. CASE Stage \/ StageFails
    <2>1. step = "idle" /\ bound = {} /\ fstab = {}
      BY <1>0, <1>2, RunbookOrder DEF Stage, StageFails, AtRest
    <2>2. /\ last' \in {"none", "stage"} /\ backup' \in {backup, NoBackup}
          /\ UNCHANGED <<bound, fstab, step>>
      BY <1>2 DEF Stage, StageFails, PruneState
    <2> QED BY <1>0, <2>1, <2>2 DEF AtRest, InCutover, InRollback, CutoverSteps, RollbackSteps
  <1>3. CASE CutoverBegin
    <2>1. step = "idle" /\ last = "stage" /\ bound = {} /\ fstab = {}
      BY <1>0, <1>3, RunbookOrder DEF CutoverBegin, AtRest
    <2>2. backup' = {} /\ step' = "stop" /\ UNCHANGED <<bound, fstab, last>>
      BY <1>3, <2>1 DEF CutoverBegin
    <2> QED BY <2>1, <2>2 DEF AtRest, InCutover, InRollback, RollbackSteps
  <1>4. CASE CutoverStop \/ CutoverCopy \/ CutoverFstab \/ CutoverMount
    <2>1. /\ step \in CutoverSteps /\ step' \in CutoverSteps \ {"stop"} /\ UNCHANGED last
          /\ backup' \in {backup, NoBackup}
      BY <1>4 DEF CutoverStop, CutoverCopy, CutoverFstab, CutoverMount, Proceed, CutoverSteps,
                  PruneState, state
    <2>2. ~running'
      BY <1>0, <1>4 DEF CutoverStop, CutoverCopy, CutoverFstab, CutoverMount, Proceed,
                  InCutover, CutoverSteps, StopServices, services
    <2>3. bound' = IF step' = "start" THEN Trees ELSE {}
      BY <1>0, <1>4 DEF CutoverStop, CutoverCopy, CutoverFstab, CutoverMount, Proceed,
                  InCutover, CutoverSteps
    <2>4. fstab' = IF step' \in {"mount", "start"} THEN Trees ELSE {}
      BY <1>0, <1>4 DEF CutoverStop, CutoverCopy, CutoverFstab, CutoverMount, Proceed,
                  InCutover, CutoverSteps
    <2>5. last' = "stage"
      BY <1>0, <2>1 DEF InCutover
    <2>6. AtRest' /\ InRollback'
      BY <2>1, <2>5 DEF AtRest, InRollback, CutoverSteps, RollbackSteps
    <2> QED BY <1>0, <2>1, <2>2, <2>3, <2>4, <2>5, <2>6 DEF InCutover, CutoverSteps
  <1>5. CASE CutoverStart
    <2>1. bound = Trees /\ fstab = Trees /\ last = "stage" /\ ~direct
      BY <1>0, <1>5 DEF CutoverStart, InCutover, CutoverSteps, OnCourse, CopyOnCourse
    <2>2. step' = "idle" /\ last' = "cutover" /\ UNCHANGED <<bound, fstab, backup, direct>>
      BY <1>5 DEF CutoverStart
    <2> QED BY <1>0, <2>1, <2>2 DEF AtRest, InCutover, InRollback, CutoverSteps, RollbackSteps
  <1>6. CASE CutoverFails \/ RollbackBegin
    <2>1. step' = "stop again" /\ last' = "interrupted" /\ UNCHANGED backup
      BY <1>6 DEF CutoverFails, RollbackBegin, state
    <2> QED BY <1>0, <2>1 DEF AtRest, InCutover, InRollback, CutoverSteps, RollbackSteps
  <1>7. CASE RollbackStep
    <2>1. last = "interrupted" \/ step = "start again"
      BY <1>0, <1>7 DEF RollbackStep, RollbackStop, RollbackUnmount, RollbackFstab, RollbackStart,
                        Proceed, InRollback, RollbackSteps
    <2>2. CASE RollbackStart
      <3>1. bound = {} /\ fstab = {} /\ step' = "idle" /\ last' = "rollback"
            /\ UNCHANGED <<bound, fstab, backup>>
        BY <1>0, <2>2 DEF RollbackStart, InRollback, RollbackSteps, state
      <3> QED BY <1>0, <3>1 DEF AtRest, InCutover, InRollback, CutoverSteps, RollbackSteps
    <2>3. CASE RollbackFstab
      <3>1. bound' = {} /\ fstab' = {}
        <4>1. bound = {} /\ UNCHANGED bound /\ fstab' = backup /\ step \in RollbackSteps
          BY <2>3 DEF RollbackFstab, Proceed, RollbackSteps
        <4> QED BY <1>0, <4>1 DEF TypesInv, StepOK, RollbackPrepared
      <3>2. step' = "start again" /\ last' = "interrupted" /\ UNCHANGED backup
        BY <2>1, <2>3 DEF RollbackFstab, Proceed, state
      <3> QED BY <1>0, <3>1, <3>2 DEF AtRest, InCutover, InRollback, CutoverSteps, RollbackSteps
    <2>4. CASE /\ RollbackStep /\ ~RollbackStart /\ ~RollbackFstab
      <3>1. /\ step' \in RollbackSteps \ {"start again"} /\ last' = "interrupted"
            /\ UNCHANGED backup
        BY <2>1, <2>4 DEF RollbackStep, RollbackStop, RollbackUnmount, Proceed, state,
                          RollbackSteps
      <3> QED BY <1>0, <3>1 DEF AtRest, InCutover, InRollback, CutoverSteps, RollbackSteps
    <2> QED BY <1>7, <2>2, <2>3, <2>4
  <1>8. CASE Verify \/ Recreate
    <2>1. step = "idle" /\ bound = Trees /\ fstab = Trees
      BY <1>0, <1>8, RunbookOrder DEF Verify, Recreate, AtRest
    <2>2. /\ \/ last' = "verify" /\ ~direct'
             \/ last' = "recreate" /\ direct'
          /\ UNCHANGED <<bound, fstab, backup, step>>
      BY <1>0, <1>8, RunbookOrder DEF Verify, Recreate, AtRest, state
    <2> QED BY <1>0, <2>1, <2>2
        DEF AtRest, InCutover, InRollback, CutoverSteps, RollbackSteps, Trees
  <1>9. CASE RetireUnmount
    <2>1. last = "recreate" /\ step = "idle" /\ direct /\ "graphroot" \in bound /\ fstab = Trees
      BY <1>0, <1>9, RunbookOrder DEF RetireUnmount, AtRest
    <2>2. bound' = {"graphroot"}
      BY <1>0, <1>9, <2>1, SomeLayouts DEF RetireUnmount
    <2>3. step' = "retire" /\ UNCHANGED <<fstab, backup, direct, last>>
      BY <1>9 DEF RetireUnmount, state
    <2> QED BY <1>0, <2>1, <2>2, <2>3
        DEF AtRest, InCutover, InRollback, CutoverSteps, RollbackSteps
  <1>10. CASE RetireFstab \/ Cleanup
    <2>1. step' = "idle" /\ bound' = {"graphroot"} /\ fstab' = {"graphroot"} /\ direct'
          /\ last' \in {"retire", "cleanup"} /\ UNCHANGED backup
      BY <1>0, <1>10, RunbookOrder DEF RetireFstab, Cleanup, AtRest, state
    <2> QED BY <1>0, <2>1 DEF AtRest, InCutover, InRollback, CutoverSteps, RollbackSteps
  <1>11. CASE Interrupt \/ Reboot
    <2>1. /\ step' = "idle" /\ last' = InterruptedCommand
          /\ UNCHANGED <<fstab, backup, direct>>
          /\ (bound' = bound /\ step # "idle") \/ bound' = fstab
      BY <1>11 DEF Interrupt, Reboot, state
    <2>2. \/ InterruptedCommand = last /\ step = "idle"
          \/ InterruptedCommand = "recreate" /\ last = "recreate" /\ step = "retire"
          \/ InterruptedCommand = "interrupted"
      BY <1>0 DEF InterruptedCommand
    <2>3. AtRest'
      <3>1. CASE step = "idle" /\ bound' = fstab
        BY <1>0, <2>1, <2>2, <3>1 DEF AtRest, Trees, InterruptedCommand
      <3>2. CASE step = "retire"
        BY <1>0, <2>1, <2>2, <3>2 DEF AtRest, Trees, InterruptedCommand
      <3>3. CASE InterruptedCommand = "interrupted"
        BY <2>1, <3>3 DEF AtRest
      <3> QED BY <2>1, <2>2, <3>1, <3>2, <3>3
    <2> QED BY <1>0, <2>1, <2>3 DEF InCutover, InRollback, CutoverSteps, RollbackSteps
  <1> QED BY <1>1, <1>2, <1>3, <1>4, <1>5, <1>6, <1>7, <1>8, <1>9, <1>10, <1>11
      DEF MigrationNext, RollbackStep

\* The copy, after every step.
LEMMA CopyStep ==
    ASSUME TypesInv, OnCourse, InOrder, MigrationNext, ~passedOver'
    PROVE  CopyOnCourse'
  <1> USE DEF CopyOnCourse
  <1>0. Position /\ CopyOnCourse /\ AttachedAsListed /\ TreesOK /\ last \in Commands
    BY DEF OnCourse, TypesInv, StepOK
  <1>1. ASSUME NEW t \in Trees, NEW f \in Files, Write(t, f) PROVE CopyOnCourse'
    <2>1. PICK version \in {0, writes + 1} :
              IF t \in attached
              THEN data' = [data EXCEPT ![t][f] = version] /\ UNCHANGED rootfs
              ELSE rootfs' = [rootfs EXCEPT ![t][f] = version] /\ UNCHANGED data
      BY <1>1 DEF Write
    <2>2. running /\ writes' = writes + 1 /\ UNCHANGED <<direct, step, last>>
      BY <1>1 DEF Write
    <2>3. \A u \in Trees, g \in Files :
              /\ rootfs'[u][g] = IF u = t /\ g = f /\ t \notin attached
                                 THEN version ELSE rootfs[u][g]
              /\ data'[u][g] = IF u = t /\ g = f /\ t \in attached THEN version ELSE data[u][g]
      BY <1>0, <2>1 DEF TreesOK, Content
    <2>4. writes \in Int /\ version \in Int /\ version <= writes + 1
      BY <1>0 DEF TreesOK
    <2>5. Numbered'
      <3> SUFFICES ASSUME NEW u \in Trees, NEW g \in Files
                   PROVE  rootfs'[u][g] <= writes' /\ data'[u][g] <= writes'
        BY DEF Numbered
      <3>1. rootfs[u][g] <= writes /\ data[u][g] <= writes
        BY <1>0 DEF Numbered
      <3>2. rootfs[u][g] \in Int /\ data[u][g] \in Int
        BY <1>0 DEF TreesOK, Content
      <3>3. rootfs'[u][g] \in {version, rootfs[u][g]} /\ data'[u][g] \in {version, data[u][g]}
        BY <2>3
      <3> QED BY <2>2, <2>4, <3>1, <3>2, <3>3
    <2>6. step \notin {"fstab", "mount", "start"}
      BY <1>0, <2>2 DEF Position, InCutover, CutoverSteps
    <2>7. last = "stage" => CopyIsOlder'
      <3> SUFFICES ASSUME last = "stage", NEW u \in Trees, NEW g \in Files, rootfs'[u][g] # 0
                   PROVE  data'[u][g] <= rootfs'[u][g]
        BY DEF CopyIsOlder
      <3>1. attached = {}
        <4>1. fstab = {}
          BY <1>0, <2>6 DEF Position, AtRest, InCutover, InRollback, TypesInv, StepOK, CutoverSteps
        <4> QED BY <1>0, <4>1, DataUnder DEF AttachedAsListed
      <3>2. data[u][g] <= writes /\ data[u][g] \in Int /\ rootfs[u][g] \in Int
        BY <1>0 DEF TreesOK, Content, Numbered
      <3>3. data'[u][g] = data[u][g]
        BY <2>3, <3>1
      <3>4. CASE u = t /\ g = f
        <4>1. rootfs'[u][g] = version /\ version = writes + 1
          BY <2>3, <3>1, <3>4
        <4> QED BY <2>4, <3>2, <3>3, <4>1
      <3>5. CASE ~(u = t /\ g = f)
        <4>1. rootfs'[u][g] = rootfs[u][g]
          BY <2>3, <3>5
        <4> QED BY <1>0, <3>3, <4>1 DEF CopyIsOlder
      <3> QED BY <3>4, <3>5
    <2> QED BY <1>0, <2>2, <2>5, <2>6, <2>7 DEF CopyComplete
  <1>2. CASE Stage
    <2>1. /\ step = "idle" /\ data' = Staged(rootfs, data) /\ direct' = FALSE
          /\ UNCHANGED <<rootfs, step, writes>>
      BY <1>2 DEF Stage, MayRun, history
    <2>2. \A t \in Trees, f \in Files :
              data'[t][f] = IF rootfs[t][f] # 0 THEN rootfs[t][f] ELSE data[t][f]
      BY <2>1 DEF Staged
    <2>3. Numbered' /\ CopyIsOlder'
      BY <1>0, <2>1, <2>2 DEF Numbered, CopyIsOlder, TreesOK, Content
    <2> QED BY <2>1, <2>3 DEF CopyComplete
  <1>3. CASE StageFails
    <2>1. PICK done \in SUBSET (Trees \ bound) : data' = Copied(done, Staged(rootfs, data))
      BY <1>3 DEF StageFails
    <2>2. last' = "none" /\ step = "idle" /\ UNCHANGED <<rootfs, step, writes>>
      BY <1>3 DEF StageFails, MayRun, history
    <2>3. \A t \in Trees, f \in Files : data'[t][f] \in {rootfs[t][f], data[t][f]}
      BY <2>1 DEF Copied, Staged
    <2>4. Numbered'
      BY <1>0, <2>2, <2>3 DEF Numbered
    <2> QED BY <2>2, <2>4 DEF CopyComplete
  <1>4. CASE CutoverCopy \/ CutoverFails
    <2>1. /\ step \in CutoverSteps /\ UNCHANGED <<rootfs, writes, direct>>
          /\ \/ data' = data
             \/ \E done \in SUBSET Trees : data' = Copied(done, Updated(rootfs, data))
             \/ data' = Updated(rootfs, data)
      BY <1>4 DEF CutoverCopy, CutoverFails, Proceed, CutoverSteps, history
    <2>2. last = "stage" /\ ~direct /\ CopyIsOlder
      BY <1>0, <2>1 DEF Position, InCutover
    <2>3. ASSUME NEW t \in Trees, NEW f \in Files
          PROVE  /\ data'[t][f] \in {rootfs[t][f], data[t][f]}
                 /\ (IF rootfs[t][f] = 0 \/ rootfs[t][f] > data[t][f]
                     THEN rootfs[t][f] ELSE data[t][f]) = rootfs[t][f]
      <3>1. data'[t][f] \in {rootfs[t][f], data[t][f]}
        BY <2>1 DEF Copied, Updated
      <3>2. rootfs[t][f] \in Int /\ data[t][f] \in Int
        BY <1>0 DEF TreesOK, Content
      <3>3. rootfs[t][f] # 0 => data[t][f] <= rootfs[t][f]
        BY <2>2 DEF CopyIsOlder
      <3> QED BY <3>1, <3>2, <3>3
    <2>4. Numbered'
      BY <1>0, <2>1, <2>3 DEF Numbered
    <2>5. CASE CutoverCopy
      <3>1. data' = [t \in Trees |-> [f \in Files |-> rootfs[t][f]]]
        BY <2>3, <2>5 DEF CutoverCopy, Updated
      <3>2. data' = rootfs
        BY <1>0, <3>1 DEF TreesOK, Content
      <3>3. CopyIsOlder'
        BY <1>0, <2>1, <3>2 DEF CopyIsOlder, TreesOK, Content
      <3> QED BY <2>1, <2>2, <2>4, <3>2, <3>3 DEF CopyComplete
    <2>6. CASE CutoverFails
      BY <2>4, <2>6 DEF CutoverFails, CopyComplete
    <2> QED BY <1>4, <2>5, <2>6
  <1>5. CASE Cleanup
    <2>1. /\ rootfs' = Nothing /\ last' = "cleanup" /\ step = "idle"
          /\ UNCHANGED <<data, step, writes>>
      BY <1>5 DEF Cleanup, MayRun, history
    <2>2. Numbered'
      <3> SUFFICES ASSUME NEW u \in Trees, NEW g \in Files
                   PROVE  rootfs'[u][g] <= writes' /\ data'[u][g] <= writes'
        BY DEF Numbered
      <3> QED BY <1>0, <2>1, NothingIsContent DEF Numbered, TreesOK
    <2> QED BY <2>1, <2>2 DEF CopyComplete
  <1>6. CASE \/ KeepEvidence \/ CutoverBegin \/ CutoverStop \/ CutoverFstab \/ CutoverMount
             \/ CutoverStart \/ RollbackBegin \/ RollbackStep \/ Verify \/ Recreate
             \/ RetireUnmount \/ RetireFstab \/ Interrupt \/ Reboot
    <2>1. UNCHANGED <<rootfs, data, writes>>
      BY <1>6 DEF KeepEvidence, CutoverBegin, CutoverStop, CutoverFstab, CutoverMount,
                  CutoverStart, RollbackBegin, RollbackStep, RollbackStop, RollbackUnmount,
                  RollbackFstab, RollbackStart, Verify, Recreate, RetireUnmount, RetireFstab,
                  Interrupt, Reboot, files, history
    <2>2. Numbered' /\ (CopyIsOlder => CopyIsOlder')
      BY <1>0, <2>1 DEF Numbered, CopyIsOlder
    <2>3. last' = "stage" => last = "stage" /\ UNCHANGED direct
      BY <1>6 DEF KeepEvidence, CutoverBegin, CutoverStop, CutoverFstab, CutoverMount,
                  CutoverStart, RollbackBegin, RollbackStep, RollbackStop, RollbackUnmount,
                  RollbackFstab, RollbackStart, Verify, Recreate, RetireUnmount, RetireFstab,
                  Interrupt, Reboot, InterruptedCommand, Proceed
    <2>4. step' \in {"fstab", "mount", "start"} => step \in {"fstab", "mount", "start"}
      BY <1>6 DEF KeepEvidence, CutoverBegin, CutoverStop, CutoverFstab, CutoverMount,
                  CutoverStart, RollbackBegin, RollbackStep, RollbackStop, RollbackUnmount,
                  RollbackFstab, RollbackStart, Verify, Recreate, RetireUnmount, RetireFstab,
                  Interrupt, Reboot, Proceed
    <2> QED BY <1>0, <2>1, <2>2, <2>3, <2>4 DEF CopyComplete
  <1> QED BY <1>1, <1>2, <1>3, <1>4, <1>5, <1>6 DEF MigrationNext

\* What the running services use, after every step.
LEMMA AttachedStep ==
    ASSUME TypesInv, OnCourse, InOrder, MigrationNext, ~passedOver'
    PROVE  AttachedAsListed'
  <1> USE DEF AttachedAsListed
  <1>0. Position /\ AttachedAsListed /\ last \in Commands /\ running \in BOOLEAN
    BY DEF OnCourse, TypesInv, StepOK, FlagsOK
  <1>1. CASE \/ KeepEvidence \/ (\E t \in Trees, f \in Files : Write(t, f))
             \/ CutoverBegin \/ CutoverCopy \/ CutoverMount \/ RollbackBegin
             \/ RollbackUnmount("service", "unmount service", "unmount graphroot")
             \/ RollbackUnmount("graphroot", "unmount graphroot", "restore fstab")
             \/ Verify \/ RetireUnmount \/ Cleanup
    <2>1. UNCHANGED <<fstab, direct, running, attached>>
      BY <1>1 DEF KeepEvidence, Write, CutoverBegin, CutoverCopy, CutoverMount, RollbackBegin,
                  RollbackUnmount, Verify, RetireUnmount, Cleanup, services
    <2> QED BY <1>0, <2>1 DEF OnData
  <1>2. CASE Stage \/ StageFails
    <2>1. fstab = {}
      BY <1>0, <1>2, RunbookOrder DEF Stage, StageFails, Position, AtRest
    <2>2. UNCHANGED <<fstab, running, attached>>
      BY <1>2 DEF Stage, StageFails, services
    <2> QED BY <1>0, <2>1, <2>2, DataUnder
  <1>3. CASE CutoverStop \/ RollbackStop
    <2>1. \/ running' = FALSE /\ attached' = {}
          \/ UNCHANGED <<fstab, direct, running, attached>>
      BY <1>3 DEF CutoverStop, RollbackStop, StopServices, services
    <2> QED BY <1>0, <2>1 DEF OnData
  <1>4. CASE CutoverFstab
    <2>1. ~running /\ UNCHANGED <<running, attached>>
      BY <1>0, <1>4 DEF CutoverFstab, Proceed, Position, InCutover, CutoverSteps, services
    <2> QED BY <1>0, <2>1
  <1>5. CASE CutoverStart \/ CutoverFails \/ RollbackStart \/ Interrupt
    <2>1. /\ UNCHANGED <<fstab, direct>>
          /\ \/ UNCHANGED <<running, attached>>
             \/ step \in {"start", "start again"} /\ StartRecorded
      BY <1>5 DEF CutoverStart, CutoverFails, RollbackStart, Interrupt, services
    <2>2. step \in {"start", "start again"} => bound = fstab
      BY <1>0 DEF Position, InCutover, InRollback, CutoverSteps
    <2>3. OnData(fstab)' = OnData(fstab)
      BY <2>1 DEF OnData
    <2>4. CASE UNCHANGED <<running, attached>>
      BY <1>0, <2>3, <2>4
    <2>5. CASE step \in {"start", "start again"} /\ StartRecorded
      <3>1. CASE running \/ ~recorded
        <4>1. attached' = attached /\ (running' <=> running)
          BY <2>5, <3>1 DEF StartRecorded
        <4> QED BY <1>0, <2>3, <4>1
      <3>2. CASE ~running /\ recorded
        <4>1. attached' = OnData(fstab) /\ running'
          BY <2>2, <2>5, <3>2 DEF StartRecorded
        <4> QED BY <2>3, <4>1
      <3> QED BY <3>1, <3>2
    <2> QED BY <2>1, <2>4, <2>5
  <1>6. CASE RollbackFstab
    <2>1. attached = {} /\ fstab' = backup /\ step \in RollbackSteps
          /\ UNCHANGED <<running, attached>>
      BY <1>6 DEF RollbackFstab, Proceed, RollbackSteps, services
    <2>2. fstab' = {}
      BY <1>0, <2>1 DEF Position, TypesInv, StepOK, RollbackPrepared
    <2> QED BY <2>1, <2>2, DataUnder
  <1>7. CASE Recreate
    <2>1. fstab' = Trees /\ running' = TRUE /\ attached' = Trees
      BY <1>0, <1>7, RunbookOrder DEF Recreate, Position, AtRest
    <2> QED BY <2>1, DataUnder
  <1>8. CASE RetireFstab
    <2>1. /\ direct /\ fstab = Trees /\ fstab' = {"graphroot"}
          /\ UNCHANGED <<direct, running, attached>>
      BY <1>0, <1>8 DEF RetireFstab, Position, AtRest, services
    <2> QED BY <1>0, <2>1, DataUnder
  <1>9. CASE Reboot
    BY <1>9 DEF Reboot, OnData
  <1> QED BY <1>1, <1>2, <1>3, <1>4, <1>5, <1>6, <1>7, <1>8, <1>9 DEF MigrationNext, RollbackStep

\* What fstab leads to, after every step.
LEMMA DataStep ==
    ASSUME TypesInv, OnCourse, InOrder, MigrationNext, ~passedOver'
    PROVE  FstabLeadsToData'
  <1> USE DEF FstabLeadsToData
  <1>0. /\ Position /\ CopyOnCourse /\ FstabLeadsToData /\ AttachedAsListed
        /\ TreesOK /\ last \in Commands
    BY DEF OnCourse, TypesInv, StepOK
  <1>1. ASSUME NEW t \in Trees, NEW f \in Files, Write(t, f) PROVE FstabLeadsToData'
    <2>1. PICK version \in {0, writes + 1} :
              /\ latest' = [latest EXCEPT ![t][f] = version]
              /\ IF t \in attached
                 THEN data' = [data EXCEPT ![t][f] = version] /\ UNCHANGED rootfs
                 ELSE rootfs' = [rootfs EXCEPT ![t][f] = version] /\ UNCHANGED data
      BY <1>1 DEF Write
    <2>2. running /\ attached = OnData(fstab) /\ UNCHANGED <<fstab, direct>>
      BY <1>0, <1>1 DEF Write, AttachedAsListed
    <2>3. \A u \in Trees : latest[u] = IF u \in attached THEN data[u] ELSE rootfs[u]
      BY <1>0, <2>2 DEF View
    <2>4. latest' = [u \in Trees |-> IF u \in attached THEN data'[u] ELSE rootfs'[u]]
      BY <1>0, <2>1, <2>3 DEF TreesOK, Content
    <2>5. OnData(fstab)' = attached
      BY <2>2 DEF OnData
    <2> QED BY <2>4, <2>5 DEF View
  <1>2. CASE Stage \/ StageFails
    <2>1. fstab = {} /\ UNCHANGED <<fstab, rootfs, latest>>
      BY <1>0, <1>2, RunbookOrder DEF Stage, StageFails, Position, AtRest, history
    <2> QED BY <1>0, <2>1, DataUnder DEF View
  <1>3. CASE CutoverCopy \/ CutoverFails
    <2>1. UNCHANGED <<fstab, direct, rootfs, latest>> /\ step \in CutoverSteps
      BY <1>3 DEF CutoverCopy, CutoverFails, Proceed, CutoverSteps, history
    <2>2. CASE step \in {"copy"}
      <3>1. fstab = {}
        BY <1>0, <2>2 DEF Position, InCutover, CutoverSteps
      <3> QED BY <1>0, <2>1, <3>1, DataUnder DEF View
    <2>3. CASE step # "copy"
      <3>1. UNCHANGED data
        BY <1>3, <2>3 DEF CutoverCopy, CutoverFails, Proceed
      <3> QED BY <1>0, <2>1, <3>1 DEF View, OnData
    <2> QED BY <2>2, <2>3
  <1>4. CASE CutoverFstab
    <2>1. /\ fstab = {} /\ fstab' = Trees /\ data = rootfs
          /\ UNCHANGED <<rootfs, data, latest>>
      BY <1>0, <1>4 DEF CutoverFstab, Proceed, Position, InCutover, CutoverSteps, CopyOnCourse,
                        CopyComplete, files, history
    <2>2. View(OnData(fstab)) = [t \in Trees |-> rootfs[t]]
      BY <2>1, DataUnder DEF View
    <2>3. View(OnData(fstab))' = [t \in Trees |-> data[t]]
      BY <2>1, DataUnder DEF View
    <2> QED BY <1>0, <2>1, <2>2, <2>3
  <1>5. CASE RollbackFstab
    <2>1. fstab' = backup /\ step \in RollbackSteps /\ latest' = rootfs /\ UNCHANGED rootfs
      BY <1>5 DEF RollbackFstab, Proceed, RollbackSteps, files
    <2>2. fstab' = {}
      BY <1>0, <2>1 DEF Position, TypesInv, StepOK, RollbackPrepared
    <2>3. View(OnData(fstab))' = [t \in Trees |-> rootfs[t]]
      BY <2>1, <2>2, DataUnder DEF View
    <2> QED BY <1>0, <2>1, <2>3 DEF TreesOK, Content
  <1>6. CASE Recreate \/ RetireFstab \/ Cleanup
    <2>1. OnData(fstab) = Trees /\ OnData(fstab)' = Trees /\ UNCHANGED <<data, latest>>
      <3>1. CASE Recreate
        BY <1>0, <3>1, RunbookOrder, DataUnder DEF Recreate, Position, AtRest, files, history
      <3>2. CASE RetireFstab
        BY <1>0, <3>2, DataUnder DEF RetireFstab, Position, AtRest, files, history
      <3>3. CASE Cleanup
        BY <1>0, <3>3, RunbookOrder, DataUnder DEF Cleanup, Position, AtRest, history
      <3> QED BY <1>6, <3>1, <3>2, <3>3
    <2> QED BY <1>0, <2>1 DEF View
  <1>7. CASE \/ KeepEvidence \/ CutoverBegin \/ CutoverStop \/ CutoverMount \/ CutoverStart
             \/ RollbackBegin \/ RollbackStop
             \/ RollbackUnmount("service", "unmount service", "unmount graphroot")
             \/ RollbackUnmount("graphroot", "unmount graphroot", "restore fstab")
             \/ RollbackStart \/ Verify \/ RetireUnmount \/ Interrupt \/ Reboot
    <2>1. UNCHANGED <<rootfs, data, fstab, direct, latest>>
      BY <1>7 DEF KeepEvidence, CutoverBegin, CutoverStop, CutoverMount, CutoverStart,
                  RollbackBegin, RollbackStop, RollbackUnmount, RollbackStart, Verify,
                  RetireUnmount, Interrupt, Reboot, files, history
    <2> QED BY <1>0, <2>1 DEF View, OnData
  <1> QED BY <1>1, <1>2, <1>3, <1>4, <1>5, <1>6, <1>7 DEF MigrationNext, RollbackStep

\* The invariant holds before the first command.
LEMMA CourseStart == MigrationInit => MigrationInv
  <1> SUFFICES ASSUME MigrationInit PROVE OnCourse
    BY TypesStart DEF MigrationInv
  <1>1. View(OnData(fstab)) = latest /\ attached = OnData(fstab)
    BY NothingIsContent, DataUnder DEF MigrationInit, View, Content
  <1>2. Numbered
    BY NothingIsContent, MigrationAssumption DEF MigrationInit, Numbered
  <1>3. Position
    BY DEF MigrationInit, Position, AtRest, InCutover, InRollback, CutoverSteps, RollbackSteps
  <1>4. CopyOnCourse
    BY <1>2 DEF MigrationInit, CopyOnCourse, CopyComplete
  <1> QED BY <1>1, <1>3, <1>4
      DEF MigrationInit, OnCourse, FstabLeadsToData, AttachedAsListed

\* Every step keeps it.
LEMMA CourseStep ==
    ASSUME InOrder
    PROVE  MigrationInv /\ [MigrationNext]_migrationVars => MigrationInv'
  <1>1. ASSUME MigrationInv, UNCHANGED migrationVars PROVE MigrationInv'
    <2>1. TypesInv'
      BY <1>1, TypesStep DEF MigrationInv
    <2>2. UNCHANGED <<rootfs, data, bound, fstab, backup, markers, recorded, evidence, direct,
                      running, attached, step, last, writes, latest, passedOver>>
      BY <1>1 DEF migrationVars, files, state, services, history
    <2>3. Position => Position'
      BY <2>2 DEF Position, AtRest, InCutover, InRollback
    <2>4. CopyOnCourse => CopyOnCourse'
      BY <2>2 DEF CopyOnCourse, Numbered, CopyComplete, CopyIsOlder
    <2>5. (FstabLeadsToData => FstabLeadsToData') /\ (AttachedAsListed => AttachedAsListed')
      BY <2>2 DEF FstabLeadsToData, AttachedAsListed, View, OnData
    <2> QED BY <1>1, <2>1, <2>2, <2>3, <2>4, <2>5 DEF MigrationInv, OnCourse
  <1>2. ASSUME MigrationInv, MigrationNext PROVE MigrationInv'
    <2>1. TypesInv'
      BY <1>2, TypesStep DEF MigrationInv
    <2>2. ASSUME ~passedOver' PROVE OnCourse'
      <3>1. TypesInv /\ OnCourse
        BY <1>2, <2>2, PassedOverStays DEF MigrationInv
      <3> QED BY <1>2, <2>2, <3>1, PositionStep, CopyStep, AttachedStep, DataStep DEF OnCourse
    <2> QED BY <2>1, <2>2 DEF MigrationInv
  <1> QED BY <1>1, <1>2

\* The state of the host has its type in every reachable state, and a rollback
\* has an fstab to restore, in whatever order the phases are run.
THEOREM MigrationTypeCorrect == MigrationSpec => []MigrationTypeOK
  <1>1. TypesInv => MigrationTypeOK
    BY DEF TypesInv, TreesOK, LayoutsOK, BackupOK, FlagsOK, StepOK, RollbackPrepared, MigrationTypeOK
  <1> QED BY <1>1, TypesStart, TypesStep, PTL DEF MigrationSpec

\* With the phases in the runbook's order and as long as no rollback has gone on
\* over a container that did not stop or a bind that it could not unmount: a
\* reboot, at any point of any phase, leaves running services on the copies
\* that they are on.
THEOREM RebootIsSafe ==
    ASSUME InOrder
    PROVE  MigrationSpec => []RebootKeepsView
  <1>1. MigrationInv => RebootKeepsView
    BY DEF MigrationInv, OnCourse, AttachedAsListed, RebootKeepsView
  <1>2. MigrationInv /\ [MigrationNext]_migrationVars => MigrationInv'
    BY CourseStep
  <1> QED BY <1>1, <1>2, CourseStart, PTL DEF MigrationSpec

\* With the phases in the runbook's order and as long as no rollback has gone on
\* over a container or a bind: running services find what they last wrote, or
\* what a rollback restored, through every phase, failed cutover, interruption
\* and reboot.
THEOREM MigrationKeepsData ==
    ASSUME InOrder
    PROVE  MigrationSpec => []ServicesKeepTheirData
  <1>1. MigrationInv => ServicesKeepTheirData
    BY DEF MigrationInv, OnCourse, AttachedAsListed, FstabLeadsToData, ServicesKeepTheirData
  <1>2. MigrationInv /\ [MigrationNext]_migrationVars => MigrationInv'
    BY CourseStep
  <1> QED BY <1>1, <1>2, CourseStart, PTL DEF MigrationSpec

-----------------------------------------------------------------------------
(* The ClickHouse remediation. *)

BeforeMutation == {"compose", "logging", "profilers", "check"}
AfterMutation == {"stop", "copy_logging", "copy_profilers", "start", "verify"}
HostTrap == {"restore_compose", "remove", "restore_deployed"}
ContainerTrap == {"stop_again", "restore_inside", "start_again"}
Trap == HostTrap \cup ContainerTrap \cup {"judge"}

\* The backup is what the run has found, but for copies whose failure it ignored.
BackupFaithful ==
    /\ saved.compose = found.compose /\ saved.deployed = found.deployed
    /\ ~ignored => saved.inside = found.inside

\* The container is as the run has found it; it may have been restarted.
ContainerUntouched == inside = found.inside /\ active \in {found.active, inside}

\* How far the trap has put things back, if nothing of it has failed.
TrapInv ==
    ~failed =>
        /\ at \in (Trap \ {"restore_compose"}) => compose = found.compose
        /\ at \in ContainerTrap \cup {"judge"} => deployed = found.deployed
        /\ ~ignored =>
              /\ at = "restore_inside" => active = Down
              /\ at = "start_again" => active = Down /\ inside = found.inside
              /\ at = "judge" => /\ inside = found.inside
                                 /\ active = inside \/ (~mutated /\ active = found.active)

\* The inductive invariant: what each stage of a run may rely on.
RemediationInv ==
    /\ mutated \in BOOLEAN /\ failed \in BOOLEAN /\ ignored \in BOOLEAN
    /\ RollbackVerdictOtherwiseTrue
    /\ at # "idle" => verdict = "none"
    /\ at = "backup" => /\ ~mutated /\ ~failed /\ ~ignored
                        /\ compose = found.compose /\ deployed = found.deployed
                        /\ ContainerUntouched
    /\ at \in BeforeMutation \cup AfterMutation => ~failed
    /\ at \in BeforeMutation \cup AfterMutation \cup Trap => BackupFaithful
    /\ at \in BeforeMutation => ~mutated
    /\ at \in AfterMutation \cup ContainerTrap => mutated
    /\ at \in BeforeMutation \cup Trap /\ ~mutated => ContainerUntouched
    /\ TrapInv

\* The invariant holds before the first run.
LEMMA RemediationInitInv == RemediationInit => RemediationInv
  BY DEF RemediationInit, RemediationInv, RollbackVerdictOtherwiseTrue, TrapInv, BeforeMutation,
         AfterMutation, HostTrap, ContainerTrap, Trap

\* Every step of the script, and of Podman meanwhile, preserves the invariant.
LEMMA RemediationNextInv ==
    RemediationInv /\ [RemediationNext]_remediationVars => RemediationInv'
  <1> SUFFICES ASSUME RemediationInv, [RemediationNext]_remediationVars
               PROVE  RemediationInv'
    OBVIOUS
  <1> USE DEF RemediationInv, RollbackVerdictOtherwiseTrue, TrapInv, BackupFaithful,
              ContainerUntouched, BeforeMutation, AfterMutation, HostTrap, ContainerTrap,
              Trap, Step, remote, script
  <1>1. CASE Begin
    BY <1>1 DEF Begin
  <1>2. CASE Backup
    <2>1. /\ at = "backup" /\ at' = "compose" /\ ignored' \in BOOLEAN
          /\ ~ignored' => saved'.inside = inside
          /\ UNCHANGED <<remote, mutated, failed, verdict, found, runs>>
      BY <1>2 DEF Backup
    <2>2. saved'.compose = compose /\ saved'.deployed = deployed
      BY <1>2 DEF Backup
    <2> QED BY <2>1, <2>2
  <1>3. CASE BackupFails
    BY <1>3 DEF BackupFails
  <1>4. CASE InstallCompose
    BY <1>4 DEF InstallCompose
  <1>5. CASE Install("logging", "profilers") \/ Install("profilers", "check")
    <2>1. /\ at \in {"logging", "profilers"} /\ at' \in {"profilers", "check"}
          /\ UNCHANGED <<compose, inside, active, script>>
      BY <1>5 DEF Install
    <2> QED BY <2>1
  <1>6. CASE Checked
    BY <1>6 DEF Checked
  <1>7. CASE \/ StopContainer \/ Start
             \/ CopyIn("logging", "copy_logging", "copy_profilers")
             \/ CopyIn("profilers", "copy_profilers", "start")
    <2>1. /\ at \in {"stop", "copy_logging", "copy_profilers", "start"}
          /\ at' \in {"copy_logging", "copy_profilers", "start", "verify"}
          /\ UNCHANGED <<compose, deployed, script>>
      BY <1>7 DEF StopContainer, Start, CopyIn
    <2> QED BY <2>1
  <1>8. CASE Verified
    BY <1>8 DEF Verified
  <1>9. CASE Fails
    <2>1. at \in {"compose", "check", "stop", "copy_logging", "copy_profilers", "start",
                  "verify", "logging", "profilers"} /\ at' = "restore_compose"
      BY <1>9 DEF Fails, Settings
    <2>2. at \notin {"copy_logging", "copy_profilers"} => inside' = inside
      BY <1>9 DEF Fails
    <2>3. UNCHANGED <<active, saved, mutated, failed, verdict, found, ignored, runs>>
      BY <1>9 DEF Fails
    <2> QED BY <2>1, <2>2, <2>3
  <1>10. CASE RestoreCompose \/ Remove
    BY <1>10 DEF RestoreCompose, Remove
  <1>11. CASE RestoreDeployed
    BY <1>11 DEF RestoreDeployed
  <1>12. CASE StopAgain
    BY <1>12 DEF StopAgain
  <1>13. CASE RestoreInside
    BY <1>13 DEF RestoreInside
  <1>14. CASE StartAgain
    BY <1>14 DEF StartAgain
  <1>15. CASE RestoreHostFails
    <2>1. /\ at \in HostTrap /\ at' = (IF mutated THEN "stop_again" ELSE "judge") /\ failed'
          /\ UNCHANGED <<inside, active, saved, mutated, verdict, found, ignored, runs>>
      BY <1>15 DEF RestoreHostFails
    <2> QED BY <2>1
  <1>16. CASE RestoreContainerFails
    <2>1. /\ at \in ContainerTrap /\ at' = "judge" /\ failed'
          /\ UNCHANGED <<compose, deployed, saved, mutated, verdict, found, ignored, runs>>
      BY <1>16 DEF RestoreContainerFails
    <2> QED BY <2>1
  <1>17. CASE Judge
    BY <1>17 DEF Judge
  <1>18. CASE Killed
    BY <1>18 DEF Killed
  <1>19. CASE ContainerRestarts
    BY <1>19 DEF ContainerRestarts
  <1>20. CASE UNCHANGED remediationVars
    BY <1>20 DEF remediationVars
  <1> QED BY <1>1, <1>2, <1>3, <1>4, <1>5, <1>6, <1>7, <1>8, <1>9, <1>10, <1>11, <1>12,
             <1>13, <1>14, <1>15, <1>16, <1>17, <1>18, <1>19, <1>20 DEF RemediationNext

\* When the script says that the previous configuration is active again, the
\* files on the host are the ones that the run has found, whatever failed when,
\* in this run or in the ones before it; and so are the container's settings and
\* what ClickHouse runs with, unless the run has passed over a failed backup copy
\* or a container that did not stop (lines 72 and 95 of the script).
THEOREM VerdictIsOtherwiseTrue == RemediationSpec => []RollbackVerdictOtherwiseTrue
  <1>1. RemediationInv => RollbackVerdictOtherwiseTrue
    BY DEF RemediationInv
  <1> QED BY <1>1, RemediationInitInv, RemediationNextInv, PTL DEF RemediationSpec

-----------------------------------------------------------------------------
(* The reverse proxy. *)

Config == [legacy: BOOLEAN, edit: Nat]

\* The inductive invariant: what the updater has cleaned stays clean, and what
\* it has read is at worst older than what it is going to replace.
ProxyInv ==
    /\ database \in Config /\ generated \in Config /\ loaded \in Config /\ read \in Config
    /\ edits \in Nat
    /\ doing = "update" /\ ~read.legacy => ~database.legacy
    /\ doing \in {"read", "replace", "recreate", "reload"} => ~database.legacy
    /\ doing = "replace" /\ ~read.legacy => ~generated.legacy
    /\ doing \in {"recreate", "reload"} => ~generated.legacy
    /\ doing # "idle" => hosts
    /\ doing = "reload" => container # "old"
    /\ ProxyStaysConfigured

\* The invariant holds of the proxy as it is found.
LEMMA ProxyInitInv == ProxyInit => ProxyInv
  BY DEF ProxyInit, ProxyInv, ProxyStaysConfigured, Original, Config

\* Every step of the updater and of the proxy manager preserves the invariant.
LEMMA ProxyNextInv == ProxyInv /\ [ProxyNext]_proxyVars => ProxyInv'
  <1> SUFFICES ASSUME ProxyInv, [ProxyNext]_proxyVars PROVE ProxyInv'
    OBVIOUS
  <1> USE DEF ProxyInv, ProxyStaysConfigured, Config, Does
  <1>1. Cleaned(read) \in Config /\ ~Cleaned(read).legacy
    BY DEF Cleaned
  <1>2. CASE UpdateCompose \/ SelectConfig \/ ReadGenerated
    BY <1>2 DEF UpdateCompose, SelectConfig, ReadGenerated
  <1>3. CASE UpdateDatabase
    BY <1>1, <1>3 DEF UpdateDatabase
  <1>4. CASE ReplaceGenerated
    BY <1>1, <1>4 DEF ReplaceGenerated
  <1>5. CASE RecreateProxy \/ RecreateFails \/ Reload
    BY <1>5 DEF RecreateProxy, RecreateFails, Reload
  <1>6. CASE ScriptEnds
    BY <1>6 DEF ScriptEnds
  <1>7. CASE Edit
    <2>1. database' \in Config /\ database'.legacy = database.legacy
      BY <1>7 DEF Edit
    <2> QED BY <1>7, <2>1 DEF Edit
  <1>8. CASE UNCHANGED proxyVars
    BY <1>8 DEF proxyVars
  <1> QED BY <1>2, <1>3, <1>4, <1>5, <1>6, <1>7, <1>8 DEF ProxyNext

\* The update of the proxy, as a specification of its own.
ProxySpec == ProxyInit /\ [][ProxyNext]_proxyVars

\* Once an update has succeeded, no edit and no later update that ends half-way,
\* be it without a running proxy, brings the legacy locations back or drops the trace hosts.
THEOREM ProxyUpdateHolds == ProxySpec => []ProxyStaysConfigured
  <1>1. ProxyInv => ProxyStaysConfigured
    BY DEF ProxyInv
  <1> QED BY <1>1, ProxyInitInv, ProxyNextInv, PTL DEF ProxySpec
=============================================================================
