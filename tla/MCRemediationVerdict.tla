------------------------ MODULE MCRemediationVerdict ------------------------
(* ClickhouseRemediation from a host that has none of the settings yet: what *)
(* is backed up as absent is absent.                                         *)
EXTENDS ClickhouseRemediation

FirstRun == RemediationInit /\ \A s \in Settings : inside[s] = "absent" /\ deployed[s] = "absent"

FirstSpec == FirstRun /\ [][RemediationNext]_remediationVars
=============================================================================
