------------------------ MODULE ClickhouseRemediation ------------------------
(***************************************************************************)
(* scripts/remediate-clickhouse-logging.sh: it installs a Compose file and *)
(* two ClickHouse settings on the host, copies the settings into the       *)
(* running container and restarts it.  Any remote command may fail; the    *)
(* EXIT trap then puts everything back, with remote commands that may fail *)
(* as well, and leaves its verdict in the evidence.  The script may be     *)
(* killed without its trap, and run again.                                 *)
(***************************************************************************)
EXTENDS Naturals, Functions

CONSTANTS MaxRuns    \* bound: runs of the script

ASSUME RemediationAssumption == MaxRuns \in Nat

Settings == {"logging", "profilers"}
Before == [Settings -> {"absent", "earlier"}]
Down == [s \in Settings |-> "none"]    \* a stopped ClickHouse

VARIABLES
    compose,     \* "baseline", "new", or "broken" by half a copy
    deployed,    \* the settings in the deploy directory of the host
    inside,      \* the settings in the file system of the container
    active,      \* the settings ClickHouse runs with, or Down
    saved,       \* the backup directory
    mutated,     \* container_mutated
    failed,      \* rollback_failed
    at,          \* the next command of the script, or "idle"
    verdict,     \* how the last run ended
    found,       \* what the last run started from
    ignored,     \* a command failed whose failure the script ignores
    runs

remote == <<compose, deployed, inside, active>>
script == <<saved, mutated, failed, verdict, found, ignored, runs>>
remediationVars == <<remote, script, at>>

RemediationInit ==
    /\ compose = "baseline" /\ deployed \in Before /\ inside \in Before /\ active = inside
    /\ saved = <<>> /\ mutated = FALSE /\ failed = FALSE
    /\ at = "idle" /\ verdict = "none" /\ found = <<>> /\ ignored = FALSE /\ runs = 0

Step(from, to) == at = from /\ at' = to

-----------------------------------------------------------------------------
(* Preconditions and backup, before the trap is set *)

\* The Compose file must be the expected one, and ClickHouse must answer.
Begin ==
    /\ runs < MaxRuns /\ compose = "baseline" /\ active # Down
    /\ Step("idle", "backup")
    /\ found' = [compose |-> compose, deployed |-> deployed, inside |-> inside, active |-> active]
    /\ mutated' = FALSE /\ failed' = FALSE /\ ignored' = FALSE /\ verdict' = "none"
    /\ runs' = runs + 1
    /\ UNCHANGED <<remote, saved>>

\* A setting that cannot be copied out of the container counts as absent.
Backup ==
    /\ Step("backup", "compose")
    /\ \E copied \in SUBSET Settings :
          /\ saved' = [compose |-> compose, deployed |-> deployed,
                       inside |-> [s \in Settings |-> IF s \in copied THEN inside[s] ELSE "absent"]]
          /\ ignored' = (saved'.inside # inside)
    /\ UNCHANGED <<remote, mutated, failed, verdict, found, runs>>

BackupFails ==
    /\ Step("backup", "idle")
    /\ verdict' = "aborted"
    /\ UNCHANGED <<remote, saved, mutated, failed, found, ignored, runs>>

-----------------------------------------------------------------------------
(* The change *)

InstallCompose ==
    /\ Step("compose", "logging")
    /\ compose' = "new"
    /\ UNCHANGED <<deployed, inside, active, script>>

Install(s, next) ==
    /\ Step(s, next)
    /\ deployed' = [deployed EXCEPT ![s] = "new"]
    /\ UNCHANGED <<compose, inside, active, script>>

\* Mutant: the container counts as changed only after it was.
CheckedLate ==
    /\ Step("check", "stop")
    /\ UNCHANGED <<remote, script>>

\* Compose accepts the file; from here on the container counts as changed.
Checked ==
    /\ Step("check", "stop")
    /\ mutated' = TRUE
    /\ UNCHANGED <<remote, saved, failed, verdict, found, ignored, runs>>

StopContainer ==
    /\ Step("stop", "copy_logging")
    /\ active' = Down
    /\ UNCHANGED <<compose, deployed, inside, script>>

CopyIn(s, from, to) ==
    /\ Step(from, to)
    /\ inside' = [inside EXCEPT ![s] = deployed[s]]
    /\ UNCHANGED <<compose, deployed, active, script>>

Start ==
    /\ Step("start", "verify")
    /\ active' = inside
    /\ UNCHANGED <<compose, deployed, inside, script>>

\* Log tables are truncated, business tables and evidence are compared.
Verified ==
    /\ Step("verify", "idle")
    /\ verdict' = "remediated"
    /\ UNCHANGED <<remote, saved, mutated, failed, found, ignored, runs>>

\* What is left when some of the settings have been put in place.
Partly(current, target) ==
    {[s \in Settings |-> IF s \in done THEN target[s] ELSE current[s]] : done \in SUBSET Settings}

\* A command of the change fails; half a copy leaves a broken file.
Fails ==
    /\ at \in {"compose", "check", "stop", "copy_logging", "copy_profilers", "start", "verify"} \cup Settings
    /\ at' = "restore_compose"
    /\ compose' \in {compose} \cup (IF at = "compose" THEN {"broken"} ELSE {})
    /\ deployed' \in {deployed} \cup {[deployed EXCEPT ![s] = "broken"] : s \in Settings \cap {at}}
    /\ inside' \in {inside} \cup (CASE at = "copy_logging" -> {[inside EXCEPT !["logging"] = "broken"]}
                                    [] at = "copy_profilers" -> {[inside EXCEPT !["profilers"] = "broken"]}
                                    [] OTHER -> {})
    /\ UNCHANGED <<active, script>>

-----------------------------------------------------------------------------
(* The EXIT trap *)

RestoreCompose ==
    /\ Step("restore_compose", "remove")
    /\ compose' = saved.compose
    /\ UNCHANGED <<deployed, inside, active, script>>

Remove ==
    /\ Step("remove", "restore_deployed")
    /\ deployed' = [s \in Settings |-> "absent"]
    /\ UNCHANGED <<compose, inside, active, script>>

RestoreDeployed ==
    /\ Step("restore_deployed", IF mutated THEN "stop_again" ELSE "judge")
    /\ deployed' = saved.deployed
    /\ UNCHANGED <<compose, inside, active, script>>

\* A failure to stop the container is ignored.
StopAgain ==
    /\ Step("stop_again", "restore_inside")
    /\ \/ active' = Down /\ UNCHANGED ignored
       \/ ignored' = TRUE /\ UNCHANGED active
    /\ UNCHANGED <<compose, deployed, inside, saved, mutated, failed, verdict, found, runs>>

RestoreInside ==
    /\ Step("restore_inside", "start_again")
    /\ inside' = saved.inside
    /\ UNCHANGED <<compose, deployed, active, script>>

\* Starting a container that runs does nothing.
StartAgain ==
    /\ Step("start_again", "judge")
    /\ active' = IF active = Down THEN inside ELSE active
    /\ UNCHANGED <<compose, deployed, inside, script>>

\* The host part fails and the container is restored all the same.
RestoreHostFails ==
    /\ at' = IF mutated THEN "stop_again" ELSE "judge"
    /\ \/ at = "restore_compose" /\ compose' \in {compose, "broken"} /\ UNCHANGED deployed
       \/ /\ at = "remove" /\ UNCHANGED compose
          /\ deployed' \in Partly(deployed, [s \in Settings |-> "absent"])
       \/ at = "restore_deployed" /\ UNCHANGED compose /\ deployed' \in Partly(deployed, saved.deployed)
    /\ failed' = TRUE
    /\ UNCHANGED <<inside, active, saved, mutated, verdict, found, ignored, runs>>

\* The container part fails, or ClickHouse does not answer after it.
RestoreContainerFails ==
    /\ at' = "judge"
    /\ \/ at = "stop_again" /\ UNCHANGED <<inside, active>>
       \/ at = "restore_inside" /\ inside' \in Partly(inside, saved.inside) /\ UNCHANGED active
       \/ /\ at = "start_again" /\ UNCHANGED inside
          /\ active' \in {active, IF active = Down THEN inside ELSE active}
    /\ failed' = TRUE
    /\ UNCHANGED <<compose, deployed, saved, mutated, verdict, found, ignored, runs>>

Judge ==
    /\ Step("judge", "idle")
    /\ verdict' = IF failed THEN "rollback failed" ELSE "rollback succeeded"
    /\ UNCHANGED <<remote, saved, mutated, failed, found, ignored, runs>>

-----------------------------------------------------------------------------

\* The script is killed, or loses its own host.
Killed ==
    /\ at # "idle" /\ at' = "idle"
    /\ verdict' = "killed"
    /\ UNCHANGED <<remote, saved, mutated, failed, found, ignored, runs>>

\* Podman restarts the container.
ContainerRestarts ==
    /\ active # Down
    /\ active' = inside
    /\ UNCHANGED <<compose, deployed, inside, script, at>>

RemediationNext ==
    \/ Begin \/ Backup \/ BackupFails
    \/ InstallCompose \/ Install("logging", "profilers") \/ Install("profilers", "check")
    \/ Checked \/ StopContainer
    \/ CopyIn("logging", "copy_logging", "copy_profilers")
    \/ CopyIn("profilers", "copy_profilers", "start")
    \/ Start \/ Verified \/ Fails
    \/ RestoreCompose \/ Remove \/ RestoreDeployed \/ StopAgain \/ RestoreInside \/ StartAgain
    \/ RestoreHostFails \/ RestoreContainerFails \/ Judge
    \/ Killed \/ ContainerRestarts

RemediationSpec == RemediationInit /\ [][RemediationNext]_remediationVars

-----------------------------------------------------------------------------
(* Properties.  The script passes over two failures: a setting that cannot be *)
(* copied out of the container is backed up as absent (line 72), and a        *)
(* container that does not stop is started "again" all the same (line 95).    *)
(* "ignored" says whether one of them has happened in the run.                *)

\* The verdict "rollback succeeded" means that the host has the files it had,
\* whatever failed when, also in a second run after one that was killed or
\* could not roll back.  If moreover neither of the two failures was passed
\* over, the container has its settings back and ClickHouse runs with them.
\* With one of them that part is false: see PreviousIsActive.
RollbackVerdictOtherwiseTrue ==
    verdict = "rollback succeeded" =>
        /\ compose = found.compose /\ deployed = found.deployed
        /\ ~ignored => /\ inside = found.inside
                       /\ active = inside \/ (~mutated /\ active = found.active)

\* What the verdict says, whatever was passed over: "ROLLBACK SUCCEEDED:
\* previous ClickHouse configuration is active" (remediate-clickhouse-
\* logging.sh:102).  The previous one is what ClickHouse ran with, or what it
\* would have run with after a restart.
PreviousIsActive == verdict = "rollback succeeded" => active \in {found.active, found.inside}
=============================================================================
