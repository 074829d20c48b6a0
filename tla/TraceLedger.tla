----------------------------- MODULE TraceLedger -----------------------------
(***************************************************************************)
(* What the gateway promises an uploader, without saying how it is kept: a *)
(* set of payloads, at most one under a key, of which a crash may forget   *)
(* the latest changes but none that has been promised.                     *)
(*                                                                         *)
(* The inbox of the gateway, TraceInbox, implements this module: it is the *)
(* "pre-ACK durability guarantee" of internal/inbox/store.go, line 211,    *)
(* written as a machine that has nothing but the guarantee.                *)
(***************************************************************************)
CONSTANTS Keys, Digests

VARIABLES
    visible,   \* <<key, digest>> of the payloads kept
    durable,   \* what a crash leaves of them
    promised   \* what the uploaders were told is kept

ledger == <<visible, durable, promised>>

Payloads == Keys \X Digests

Init ==
    /\ visible = {}
    /\ durable = {}
    /\ promised = {}

\* A payload under a new key; the payload of a kept key is never replaced.
Put(k, d) ==
    /\ \A e \in Digests : <<k, e>> \notin visible
    /\ visible' = visible \cup {<<k, d>>}
    /\ UNCHANGED <<durable, promised>>

\* Payloads leave for good, and with them what was promised about them.
Discharge(ks) ==
    /\ visible' = {p \in visible : p[1] \notin ks}
    /\ promised' = {p \in promised : p[1] \notin ks}
    /\ UNCHANGED durable

\* Everything kept becomes durable, and only then is any of it promised.
Flush(acknowledged) ==
    /\ acknowledged \subseteq visible
    /\ durable' = visible
    /\ promised' = promised \cup acknowledged
    /\ UNCHANGED visible

Crash ==
    /\ visible' = durable
    /\ UNCHANGED <<durable, promised>>

Next ==
    \/ \E k \in Keys, d \in Digests : Put(k, d)
    \/ \E ks \in SUBSET Keys : Discharge(ks)
    \/ \E acknowledged \in SUBSET Payloads : Flush(acknowledged)
    \/ Crash

Spec == Init /\ [][Next]_ledger

-----------------------------------------------------------------------------
(* What follows from the steps alone. *)

LedgerTypeOK ==
    /\ visible \subseteq Payloads
    /\ durable \subseteq Payloads
    /\ promised \subseteq Payloads

\* A key is never kept with two payloads.
OnePayload(kept) == \A p, q \in kept : p[1] = q[1] => p = q

\* No crash forgets what was promised, and what is promised, kept or left by
\* a crash names one payload under a key.
PromisesKept ==
    /\ promised \subseteq visible \cap durable
    /\ OnePayload(visible)
    /\ OnePayload(durable)
=============================================================================
