-------------------------- MODULE StorageMigration --------------------------
(***************************************************************************)
(* The guarded move of the platform's storage from the root file system to *)
(* /data: the phases of deploy/voice-trace/scripts/migrate-storage-on-     *)
(* host.sh, the services that run on the storage meanwhile, and the script *)
(* or the host going down between two of its steps.                        *)
(*                                                                         *)
(* Two trees move: "graphroot" (the Podman graphroot with its overlay      *)
(* propagation and the CNI state) and "service" (the release data and the  *)
(* auth data), whose binds are the legacy ones.  A file is the number of   *)
(* the write that left it, which is also its modification time; 0 is a     *)
(* missing file.                                                           *)
(***************************************************************************)
EXTENDS Integers

CONSTANTS
    Files,       \* files of each tree
    InOrder,     \* the operator runs the phases in the runbook's order
    MaxWrites,   \* bound: writes of the services
    NoBackup     \* fstab.before does not exist

Trees == {"graphroot", "service"}
Layouts == SUBSET Trees    \* the binds that are listed or mounted
Content == [Trees -> [Files -> 0..MaxWrites]]
Nothing == [t \in Trees |-> [f \in Files |-> 0]]

ASSUME MigrationAssumption ==
    /\ InOrder \in BOOLEAN /\ MaxWrites \in Nat
    /\ \A layout \in Layouts : layout # NoBackup

VARIABLES
    rootfs,      \* the content of the trees on the root file system
    data,        \* their content on /data
    bound,       \* the trees whose /data copy is mounted over the old path
    fstab,       \* the trees that /etc/fstab lists as binds
    backup,      \* fstab.before
    markers,     \* the marker files of the evidence directory
    recorded,    \* running-containers.txt names the services
    evidence,    \* the old release has an evidence directory too
    direct,      \* the containers in /data's graphroot use /data volumes
    running,     \* the services run
    attached,    \* the trees that they use on /data since they were started
    step,        \* the step the script is about to take, or "idle"
    last,        \* the last command that ended
    writes,      \* writes so far
    latest,      \* what the services have last written, or found restored
    passedOver   \* a rollback went on over what it could not stop or unmount

files == <<rootfs, data>>
state == <<backup, markers, recorded>>    \* STATE_DIR
services == <<running, attached>>
history == <<writes, latest, passedOver>>
migrationVars == <<files, bound, fstab, state, evidence, direct, services, step, last, history>>

Commands == {"none", "stage", "cutover", "verify", "recreate", "retire",
             "cleanup", "rollback", "interrupted"}
CutoverSteps == {"stop", "copy", "fstab", "mount", "start"}
RollbackSteps == {"stop again", "unmount service", "unmount graphroot", "restore fstab",
                  "start again"}

\* Every variable has its type, and a rollback under way has an fstab to restore.
MigrationTypeOK ==
    /\ rootfs \in Content /\ data \in Content /\ latest \in Content
    /\ bound \in Layouts /\ fstab \in Layouts /\ (backup = NoBackup \/ backup \in Layouts)
    /\ attached \in Layouts
    /\ markers \subseteq {"staged", "cutover", "verified", "retired"}
    /\ recorded \in BOOLEAN /\ evidence \in BOOLEAN /\ direct \in BOOLEAN
    /\ running \in BOOLEAN /\ passedOver \in BOOLEAN
    /\ step \in {"idle", "retire"} \cup CutoverSteps \cup RollbackSteps
    /\ step \in RollbackSteps => backup # NoBackup
    /\ last \in Commands
    /\ writes \in 0..MaxWrites

MigrationInit ==
    /\ rootfs = Nothing /\ data = Nothing /\ latest = Nothing
    /\ bound = {} /\ fstab = {} /\ backup = NoBackup
    /\ markers = {} /\ recorded = FALSE /\ evidence \in BOOLEAN /\ direct = FALSE
    /\ running = TRUE /\ attached = {} /\ step = "idle" /\ last = "none"
    /\ writes = 0 /\ passedOver = FALSE

-----------------------------------------------------------------------------
(* The services *)

\* The trees that services find on /data when they are started under binds.
\* Containers that were recreated with /data volumes are known to /data's
\* graphroot only.
OnData(binds) ==
    {t \in Trees : t \in binds \/ (t = "service" /\ direct /\ "graphroot" \in binds)}

View(trees) == [t \in Trees |-> IF t \in trees THEN data[t] ELSE rootfs[t]]

\* start_recorded_containers: those that still run stay as they are.
StartRecorded ==
    /\ running' = (running \/ recorded)
    /\ attached' = IF running \/ ~recorded THEN attached ELSE OnData(bound)

StopServices == running' = FALSE /\ attached' = {}

\* A file is written, or removed.
Write(t, f) ==
    /\ running /\ writes < MaxWrites
    /\ writes' = writes + 1
    /\ \E version \in {0, writes + 1} :
          /\ latest' = [latest EXCEPT ![t][f] = version]
          /\ IF t \in attached
             THEN data' = [data EXCEPT ![t][f] = version] /\ UNCHANGED rootfs
             ELSE rootfs' = [rootfs EXCEPT ![t][f] = version] /\ UNCHANGED data
    /\ UNCHANGED <<bound, fstab, state, evidence, direct, services, step, last, passedOver>>

\* Somebody keeps evidence under the old release.
KeepEvidence ==
    /\ ~evidence /\ evidence' = TRUE
    /\ UNCHANGED <<files, bound, fstab, state, direct, services, step, last, history>>

-----------------------------------------------------------------------------
(* The operator.  The runbook: preflight, stage, cutover, verify, recreate  *)
(* the platform, retire-legacy-binds, cleanup-old-graphroot; and rollback   *)
(* before cleanup.                                                         *)

Following(command) ==
    CASE command = "none"        -> {"stage"}
      [] command = "stage"       -> {"stage", "cutover", "rollback"}
      [] command = "cutover"     -> {"verify", "rollback"}
      [] command = "verify"      -> {"recreate", "rollback"}
      [] command = "recreate"    -> {"retire", "rollback"}
      [] command = "retire"      -> {"cleanup", "rollback"}
      [] command = "cleanup"     -> {}
      [] command = "rollback"    -> {"stage"}
      [] command = "interrupted" -> {"rollback"}

MayRun(command) == step = "idle" /\ (InOrder => command \in Following(last))

\* The next step of a command that is under way.
Proceed(from, to) == step = from /\ step' = to /\ UNCHANGED <<last, evidence>>

-----------------------------------------------------------------------------
(* stage and cutover.  Copying a tree whose old path is bound to the copy   *)
(* itself fails: cp finds both files to be the same.                       *)

\* stage copies what there is and leaves extra files of the destination alone.
Staged(source, destination) ==
    [t \in Trees |-> [f \in Files |->
        IF source[t][f] # 0 THEN source[t][f] ELSE destination[t][f]]]

\* The final copy removes extra files; cp -u keeps a newer destination.
Updated(source, destination) ==
    [t \in Trees |-> [f \in Files |->
        IF source[t][f] = 0 \/ source[t][f] > destination[t][f]
        THEN source[t][f] ELSE destination[t][f]]]

\* What the copy of some of the trees has made of the destination.
Copied(done, copy) == [t \in Trees |-> IF t \in done THEN copy[t] ELSE data[t]]

\* copy_stage ends with the evidence: if the old release has some, what is not
\* in it is pruned from the new one, STATE_DIR included.
PruneState == backup' = NoBackup /\ markers' = {} /\ recorded' = FALSE

Stage ==
    /\ MayRun("stage") /\ bound = {} /\ ~evidence
    /\ recorded' = running
    /\ data' = Staged(rootfs, data)
    /\ direct' = FALSE
    /\ markers' = markers \cup {"staged"}
    /\ last' = "stage"
    /\ UNCHANGED <<rootfs, bound, fstab, backup, evidence, services, step, history>>

\* A copy fails or is cut off, or STATE_DIR is gone when the marker is written.
\* Whatever was staged before, the operator stages again.
StageFails ==
    /\ MayRun("stage")
    /\ \E done \in SUBSET (Trees \ bound) :
          /\ data' = Copied(done, Staged(rootfs, data))
          /\ direct' = (direct /\ "graphroot" \notin done)
          /\ IF done = Trees /\ evidence
             THEN PruneState
             ELSE recorded' = running /\ UNCHANGED <<backup, markers>>
    /\ last' = "none"
    /\ UNCHANGED <<rootfs, bound, fstab, evidence, services, step, history>>

CutoverBegin ==
    /\ MayRun("cutover")
    /\ "staged" \in markers /\ recorded /\ "verified" \notin markers
    /\ backup' = fstab
    /\ step' = "stop"
    /\ UNCHANGED <<files, bound, fstab, markers, recorded, evidence, direct, services,
                   last, history>>

\* Mutant: the services keep running.
NotStopped ==
    /\ Proceed("stop", "copy")
    /\ UNCHANGED <<files, bound, fstab, state, direct, services, history>>

CutoverStop ==
    /\ Proceed("stop", "copy")
    /\ StopServices
    /\ UNCHANGED <<files, bound, fstab, state, direct, history>>

CutoverCopy ==
    /\ Proceed("copy", "fstab")
    /\ bound = {}
    /\ data' = Updated(rootfs, data)
    /\ IF evidence THEN PruneState ELSE UNCHANGED state
    /\ UNCHANGED <<rootfs, bound, fstab, direct, services, history>>

\* Mutant: the binds are mounted but not listed.
FstabNotWritten ==
    /\ Proceed("fstab", "mount")
    /\ UNCHANGED <<files, bound, fstab, state, direct, services, history>>

\* The new fstab is put together in STATE_DIR, next to fstab.before.
CutoverFstab ==
    /\ Proceed("fstab", "mount")
    /\ backup # NoBackup
    /\ fstab' = Trees
    /\ UNCHANGED <<files, bound, state, direct, services, history>>

CutoverMount ==
    /\ Proceed("mount", "start")
    /\ bound' = Trees
    /\ UNCHANGED <<files, fstab, state, direct, services, history>>

CutoverStart ==
    /\ step = "start" /\ step' = "idle"
    /\ StartRecorded
    /\ markers' = markers \cup {"cutover"}
    /\ last' = "cutover"
    /\ UNCHANGED <<files, bound, fstab, backup, recorded, evidence, direct, history>>

\* A command of the cutover fails, perhaps half-way, and the ERR trap rolls
\* back.  Without fstab.before it gives up at once, as if interrupted.
CutoverFails ==
    /\ step \in CutoverSteps /\ backup # NoBackup
    /\ step' = "stop again" /\ last' = "interrupted"
    /\ \E done \in SUBSET Trees :
          data' = IF step = "copy" THEN Copied(done, Updated(rootfs, data)) ELSE data
    /\ bound' \in {bound} \cup (IF step = "mount" THEN {{"graphroot"}} ELSE {})
    /\ UNCHANGED services \/ (step = "start" /\ StartRecorded)
    /\ UNCHANGED <<rootfs, fstab, state, evidence, direct, history>>

-----------------------------------------------------------------------------
(* rollback, as a command and as the ERR trap of cutover.  Containers that  *)
(* do not stop and binds that cannot be unmounted are passed over ("|| true"). *)

\* Mutant: fstab.before need not exist.
RollbackUnchecked ==
    /\ MayRun("rollback")
    /\ step' = "stop again" /\ last' = "interrupted"
    /\ UNCHANGED <<files, bound, fstab, state, evidence, direct, services, history>>

RollbackBegin ==
    /\ MayRun("rollback") /\ backup # NoBackup
    /\ step' = "stop again" /\ last' = "interrupted"
    /\ UNCHANGED <<files, bound, fstab, state, evidence, direct, services, history>>

RollbackStop ==
    /\ Proceed("stop again", "unmount service")
    /\ StopServices \/ UNCHANGED services
    /\ UNCHANGED <<files, bound, fstab, state, direct, history>>

RollbackUnmount(t, from, to) ==
    /\ Proceed(from, to)
    /\ bound' \in {bound, bound \ {t}}
    /\ UNCHANGED <<files, fstab, state, direct, services, history>>

\* From here on the root file system is what a reboot leads to.
RollbackFstab ==
    /\ Proceed("restore fstab", "start again")
    /\ fstab' = backup
    /\ latest' = rootfs
    /\ passedOver' = (passedOver \/ bound # {} \/ attached # {})
    /\ UNCHANGED <<files, bound, state, direct, services, writes>>

RollbackStart ==
    /\ step = "start again" /\ step' = "idle"
    /\ StartRecorded
    /\ last' = "rollback"
    /\ UNCHANGED <<files, bound, fstab, state, evidence, direct, history>>

RollbackStep ==
    \/ RollbackStop
    \/ RollbackUnmount("service", "unmount service", "unmount graphroot")
    \/ RollbackUnmount("graphroot", "unmount graphroot", "restore fstab")
    \/ RollbackFstab \/ RollbackStart

-----------------------------------------------------------------------------
(* verify, the recreation of the platform, retire-legacy-binds, cleanup *)

Verify ==
    /\ MayRun("verify")
    /\ "cutover" \in markers /\ "graphroot" \in bound /\ running
    /\ \E f \in Files : data["service"][f] # 0
    /\ markers' = markers \cup {"verified"}
    /\ last' = "verify"
    /\ UNCHANGED <<files, bound, fstab, backup, recorded, evidence, direct, services, step,
                   history>>

Recreate ==
    /\ MayRun("recreate") /\ "verified" \in markers /\ "graphroot" \in bound
    /\ direct' = TRUE
    /\ running' = TRUE /\ attached' = Trees
    /\ last' = "recreate"
    /\ UNCHANGED <<files, bound, fstab, state, evidence, step, history>>

\* No container known to the graphroot in use has a legacy volume.
RetireUnmount ==
    /\ MayRun("retire") /\ "verified" \in markers
    /\ direct /\ "graphroot" \in bound
    /\ bound' = bound \ {"service"}
    /\ step' = "retire"
    /\ UNCHANGED <<files, fstab, state, evidence, direct, services, last, history>>

RetireFstab ==
    /\ step = "retire" /\ step' = "idle"
    /\ fstab' = {"graphroot"}
    /\ markers' = markers \cup {"retired"}
    /\ last' = "retire"
    /\ UNCHANGED <<files, bound, backup, recorded, evidence, direct, services, history>>

\* What the root file system holds under the mount points is deleted.
Cleanup ==
    /\ MayRun("cleanup") /\ {"verified", "retired"} \subseteq markers
    /\ rootfs' = Nothing
    /\ last' = "cleanup"
    /\ UNCHANGED <<data, bound, fstab, state, evidence, direct, services, step, history>>

-----------------------------------------------------------------------------
(* Failures *)

InterruptedCommand ==
    IF step = "idle" THEN last
    ELSE IF step = "retire" THEN "recreate" ELSE "interrupted"

\* The script dies without its trap: the connection to the host is lost, die
\* is called, or a rollback fails.
Interrupt ==
    /\ step # "idle" /\ step' = "idle"
    /\ last' = InterruptedCommand
    /\ UNCHANGED services \/ (step \in {"start", "start again"} /\ StartRecorded)
    /\ UNCHANGED <<files, bound, fstab, state, evidence, direct, history>>

\* The host mounts what fstab lists and starts the services.
Reboot ==
    /\ bound' = fstab
    /\ running' = TRUE /\ attached' = OnData(fstab)
    /\ step' = "idle"
    /\ last' = InterruptedCommand
    /\ UNCHANGED <<files, fstab, state, evidence, direct, history>>

MigrationNext ==
    \/ \E t \in Trees, f \in Files : Write(t, f)
    \/ KeepEvidence
    \/ Stage \/ StageFails
    \/ CutoverBegin \/ CutoverStop \/ CutoverCopy \/ CutoverFstab \/ CutoverMount
    \/ CutoverStart \/ CutoverFails
    \/ RollbackBegin \/ RollbackStep
    \/ Verify \/ Recreate \/ RetireUnmount \/ RetireFstab \/ Cleanup
    \/ Interrupt \/ Reboot

MigrationSpec == MigrationInit /\ [][MigrationNext]_migrationVars

-----------------------------------------------------------------------------
(* Properties.  A rollback that has passed over a container or a bind and    *)
(* then restored fstab leaves the services on a copy that the next reboot    *)
(* takes from them (RollbackRestoresRootData shows it).  It is the one       *)
(* exception that the first two have to make, and they make it for good.     *)

\* Unless a rollback has passed over something: whenever the services run they
\* find what they last wrote, or what a rollback has restored.  No phase, failed
\* cutover, interruption, also of a rollback, or reboot makes them continue on
\* a stale copy.
ServicesKeepTheirData == running /\ ~passedOver => View(attached) = latest

\* Unless a rollback has passed over something: a reboot never moves running
\* services to the other copy, for fstab leads to the copies that they use.
RebootKeepsView == running /\ ~passedOver => attached = OnData(fstab)

\* After a rollback that has reported success the services use the root file
\* system: "rollback restored the original root-filesystem data" (migrate-
\* storage-on-host.sh:186).
RollbackRestoresRootData == last = "rollback" /\ running => attached = {}

\* Cleanup never changes the files that running services use: it clears
\* obsolete copies only (migrate-storage-on-host.sh:291).
CleanupClearsOnlyCopies ==
    [][last' = "cleanup" /\ rootfs' # rootfs /\ running => View(attached)' = View(attached)]_migrationVars
=============================================================================
