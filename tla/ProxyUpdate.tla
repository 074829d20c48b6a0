----------------------------- MODULE ProxyUpdate -----------------------------
(***************************************************************************)
(* scripts/configure-voice-trace-npm.sh with update_npm_compose.py: the    *)
(* trace routes of the reverse proxy.  Three places are changed one after  *)
(* the other (the Compose file, the proxy manager's database, the nginx    *)
(* file it generates), then the proxy is recreated and reloaded.  The      *)
(* script may end between any two steps and is then run again, while the   *)
(* manager goes on: an administrator's edit makes it write the file anew   *)
(* from its database and reload nginx.                                     *)
(***************************************************************************)
EXTENDS Naturals

CONSTANTS MaxEdits    \* bound: edits of the administrator

ASSUME ProxyAssumption == MaxEdits \in Nat

VARIABLES
    hosts,         \* the Compose file names the trace hosts
    database,      \* advanced_config: has it the legacy locations, and which edit
    generated,     \* the generated file, likewise
    loaded,        \* what nginx runs with
    container,     \* the proxy runs with the trace hosts, with the old ones, or not
    read,          \* what the updater has read
    doing,         \* the updater's next step, or "idle"
    configured,    \* a run has ended with success
    edits

proxyVars == <<hosts, database, generated, loaded, container, read, doing, configured, edits>>

Original == [legacy |-> TRUE, edit |-> 0]

ProxyInit ==
    /\ hosts = FALSE /\ container = "old"
    /\ database = Original /\ generated = Original /\ loaded = Original /\ read = Original
    /\ doing = "idle" /\ configured = FALSE /\ edits = 0

\* remove_legacy_agent_locations
Cleaned(config) == [config EXCEPT !.legacy = FALSE]

Does(step, next) == doing = step /\ doing' = next

\* update_file: the new file replaces the old one.
UpdateCompose ==
    /\ Does("idle", "select")
    /\ hosts' = TRUE
    /\ UNCHANGED <<database, generated, loaded, container, read, configured, edits>>

SelectConfig ==
    /\ Does("select", "update")
    /\ read' = database
    /\ UNCHANGED <<hosts, database, generated, loaded, container, configured, edits>>

\* Mutant: the generated file is all that is changed.
UpdateNothing ==
    /\ Does("update", "read")
    /\ UNCHANGED <<hosts, database, generated, loaded, container, read, configured, edits>>

\* What was read is written back without the legacy locations.
UpdateDatabase ==
    /\ Does("update", "read")
    /\ database' = IF read.legacy THEN Cleaned(read) ELSE database
    /\ UNCHANGED <<hosts, generated, loaded, container, read, configured, edits>>

ReadGenerated ==
    /\ Does("read", "replace")
    /\ read' = generated
    /\ UNCHANGED <<hosts, database, generated, loaded, container, configured, edits>>

ReplaceGenerated ==
    /\ Does("replace", "recreate")
    /\ generated' = IF read.legacy THEN Cleaned(read) ELSE generated
    /\ UNCHANGED <<hosts, database, loaded, container, read, configured, edits>>

\* podman-compose up --force-recreate: nginx starts with the file as it is.
RecreateProxy ==
    /\ Does("recreate", "reload")
    /\ container' = IF hosts THEN "trace" ELSE "old"
    /\ loaded' = generated
    /\ UNCHANGED <<hosts, database, generated, read, configured, edits>>

\* The old container is removed, and the new one does not start.
RecreateFails ==
    /\ Does("recreate", "idle")
    /\ container' = "gone"
    /\ UNCHANGED <<hosts, database, generated, loaded, read, configured, edits>>

Reload ==
    /\ Does("reload", "idle")
    /\ loaded' = generated
    /\ configured' = TRUE
    /\ UNCHANGED <<hosts, database, generated, container, read, edits>>

\* A command fails without an effect, or the script is killed.
ScriptEnds ==
    /\ Does(doing, "idle") /\ doing # "idle"
    /\ UNCHANGED <<hosts, database, generated, loaded, container, read, configured, edits>>

\* An administrator changes the proxy host, without the legacy locations in
\* mind.  The proxy manager runs in the proxy's container.
Edit ==
    /\ edits < MaxEdits /\ container # "gone"
    /\ edits' = edits + 1
    /\ database' = [database EXCEPT !.edit = edits + 1]
    /\ generated' = database'
    /\ loaded' = database'
    /\ UNCHANGED <<hosts, container, read, doing, configured>>

ProxyNext ==
    \/ UpdateCompose \/ SelectConfig \/ UpdateDatabase \/ ReadGenerated \/ ReplaceGenerated
    \/ RecreateProxy \/ RecreateFails \/ Reload \/ ScriptEnds \/ Edit

-----------------------------------------------------------------------------
(* Properties *)

\* Once a run has ended with success the proxy, whenever it serves, does so
\* without the legacy locations and with the trace hosts for good: no edit in
\* between or later, and no further run that ends half-way, brings them back
\* from the database or from the generated file.
ProxyStaysConfigured ==
    configured =>
        /\ hosts /\ container # "old"
        /\ ~database.legacy /\ ~generated.legacy /\ ~loaded.legacy
=============================================================================
