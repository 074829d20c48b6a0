----------------------------- MODULE TraceInbox -----------------------------
(***************************************************************************)
(* The durable inbox, BoltStore of internal/inbox/store.go, under          *)
(* arbitrary callers.  The database is opened with NoSync, so a commit     *)
(* makes a transaction visible to every reader and only the explicit fsync *)
(* that follows it makes the transaction survive a power loss.  Both are   *)
(* done under writeMu, but readers do not take writeMu: they see what is   *)
(* committed and not yet synced.                                           *)
(*                                                                         *)
(* db is the committed content, disk what a power loss leaves of it.  The  *)
(* operating system may write db back at any time; a power loss is taken   *)
(* to leave a whole commit (torn pages are bbolt's concern, not modelled). *)
(***************************************************************************)
EXTENDS InboxStore

CONSTANTS
    SyncMayFail,    \* fsync can return an error
    RetryTimes      \* bound: the retry times a caller of MarkRetry passes

VARIABLES
    db,        \* the committed store
    disk,      \* the store a power loss leaves
    open,      \* the store is open: closed is not set and the process lives
    writer,    \* the caller between its commit and the end of its fsync
    clock,     \* the wall clock
    owned,     \* <<key, digest>> of the batches acknowledged as accepted
    vouched    \* <<key, digest>> of the batches acknowledged as duplicate

vars == <<db, disk, open, writer, clock, owned, vouched>>

ASSUME SyncAssumption == SyncMayFail \in BOOLEAN
ASSUME RetryAssumption == RetryTimes \subseteq Time \ {0}

\* No caller holds writeMu.  grants: what a successful fsync acknowledges.
Idle == [busy |-> FALSE, grants |-> {}]
Syncing(grants) == [busy |-> TRUE, grants |-> grants]

TypeOK ==
    /\ db \in Store
    /\ disk \in Store
    /\ open \in BOOLEAN
    /\ writer \in [busy: BOOLEAN, grants: SUBSET (Keys \X Digests)]
    /\ clock \in Time \ {0}
    /\ owned \subseteq Keys \X Digests
    /\ vouched \subseteq Keys \X Digests

Init ==
    /\ db = EmptyStore
    /\ disk = EmptyStore
    /\ open = TRUE
    /\ writer = Idle
    /\ clock = 1
    /\ owned = {}
    /\ vouched = {}

\* writeMu is free and the store is not closed.
CanWrite == open /\ ~writer.busy

\* A transaction commits and its fsync begins; an acknowledgement for a
\* batch that the transaction discharges from the inbox ends with it.
Commit(tx, grants, discharged) ==
    /\ db' = tx
    /\ writer' = Syncing(grants)
    /\ owned' = {a \in owned : a[1] \notin discharged}
    /\ vouched' = {a \in vouched : a[1] \notin discharged}
    /\ UNCHANGED <<disk, open, clock>>

-----------------------------------------------------------------------------
(* Callers.  A refused call (a conflict, a failed storage check, a missing *)
(* batch, a closed store) rolls its transaction back and changes nothing.  *)

Accept(k, d) ==
    /\ CanWrite
    /\ AcceptOutcome(db, k, d) = "accepted"
    /\ db.seq < MaxSeq
    /\ Commit(AcceptTx(db, k, d, clock), {<<k, d>>}, {})

\* Mutant: the duplicate is looked up without writeMu.
AcceptDuplicateUnlocked(k, d) ==
    /\ open
    /\ AcceptOutcome(db, k, d) = "duplicate"
    /\ vouched' = IF Holds(db, k, d) THEN vouched \cup {<<k, d>>} ELSE vouched
    /\ UNCHANGED <<db, disk, open, writer, clock, owned>>

\* A duplicate returns without an fsync.  It vouches for the payload as
\* long as the inbox has it to deliver.
AcceptDuplicate(k, d) ==
    /\ CanWrite
    /\ AcceptOutcome(db, k, d) = "duplicate"
    /\ vouched' = IF Holds(db, k, d) THEN vouched \cup {<<k, d>>} ELSE vouched
    /\ UNCHANGED <<db, disk, open, writer, clock, owned>>

MarkRetry(k, retryAt) ==
    /\ CanWrite
    /\ k \in Queued(db)
    /\ db.batches[k].attempts < MaxAttempts
    /\ Commit(RetryTx(db, k, retryAt), {}, {})

MarkDelivered(k, at) ==
    /\ CanWrite
    /\ k \in Queued(db)
    /\ Commit(DeliveredTx(db, k, at), {}, {k})

MarkQuarantined(k, at) ==
    /\ CanWrite
    /\ k \in Queued(db)
    /\ Commit(QuarantinedTx(db, k, at), {}, {})

\* Nothing is synced when nothing was collected.
CollectReceipts ==
    /\ CanWrite
    /\ LET tx == CollectTx(db, clock)
       IN  /\ tx # db
           /\ Commit(tx, {}, Quarantined(db) \ Quarantined(tx))

Replay(replayed) ==
    /\ CanWrite
    /\ db.seq + Cardinality(replayed) <= MaxSeq
    /\ \E order \in ReplayOrders(db, replayed) :
           Commit(ReplayTx(db, order), {}, {})

ReplayQuarantined(k) == k \in Quarantined(db) /\ Replay({k})

ReplayAllQuarantined == Quarantined(db) # {} /\ Replay(Quarantined(db))

Sync == CanWrite /\ Commit(db, {}, {})

\* Mutant: the caller is answered without an fsync.
SyncSkipped ==
    /\ writer.busy
    /\ owned' = owned \cup writer.grants
    /\ writer' = Idle
    /\ UNCHANGED <<db, disk, open, clock, vouched>>

\* The end of the caller's fsync, which releases writeMu.
SyncDone ==
    /\ writer.busy
    /\ disk' = db
    /\ owned' = owned \cup writer.grants
    /\ writer' = Idle
    /\ UNCHANGED <<db, open, clock, vouched>>

SyncFailed ==
    /\ SyncMayFail
    /\ writer.busy
    /\ writer' = Idle
    /\ UNCHANGED <<db, disk, open, clock, owned, vouched>>

\* Close sets closed and syncs; the database is closed whatever the result.
Close ==
    /\ CanWrite
    /\ open' = FALSE
    /\ writer' = Syncing({})
    /\ UNCHANGED <<db, disk, clock, owned, vouched>>

-----------------------------------------------------------------------------
(* Open, and what happens around the process. *)

\* Open syncs before it returns a store; if that fails it returns none.
Open ==
    /\ ~open /\ ~writer.busy
    /\ open' = TRUE
    /\ disk' = db
    /\ UNCHANGED <<db, writer, clock, owned, vouched>>

\* The process dies, at any point; the page cache survives it.
Kill ==
    /\ open \/ writer.busy
    /\ open' = FALSE
    /\ writer' = Idle
    /\ UNCHANGED <<db, disk, clock, owned, vouched>>

PowerLoss ==
    /\ open' = FALSE
    /\ writer' = Idle
    /\ db' = disk
    /\ UNCHANGED <<disk, clock, owned, vouched>>

\* The operating system writes dirty pages back on its own.
Writeback ==
    /\ disk' = db
    /\ UNCHANGED <<db, open, writer, clock, owned, vouched>>

Tick ==
    /\ clock < MaxTime
    /\ clock' = clock + 1
    /\ UNCHANGED <<db, disk, open, writer, owned, vouched>>

Next ==
    \/ \E k \in Keys, d \in Digests : Accept(k, d) \/ AcceptDuplicate(k, d)
    \/ \E k \in Keys, at \in 1..clock : MarkDelivered(k, at) \/ MarkQuarantined(k, at)
    \/ \E k \in Keys, retryAt \in RetryTimes : MarkRetry(k, retryAt)
    \/ \E k \in Keys : ReplayQuarantined(k)
    \/ CollectReceipts \/ ReplayAllQuarantined \/ Sync \/ SyncDone \/ SyncFailed
    \/ Close \/ Open \/ Kill \/ PowerLoss \/ Writeback \/ Tick

Spec == Init /\ [][Next]_vars

-----------------------------------------------------------------------------
(* Properties *)

\* Every committed store and every store a crash can leave is consistent:
\* the FIFO index, the batches, the receipts and the quarantine agree.
StoresConsistent == Consistent(db) /\ Consistent(disk)

\* A batch acknowledged as accepted is on disk with the payload that was
\* acknowledged until it is delivered, expires or is evicted: no crash, failed
\* fsync or re-upload loses or replaces it (pre-ACK durability of Accept).
AcceptedSurvivesPowerLoss == \A a \in owned : Holds(disk, a[1], a[2])

\* The same for a batch acknowledged as duplicate.
DuplicateSurvivesPowerLoss == \A a \in vouched : Holds(disk, a[1], a[2])

\* While the process runs, pending receipts and their batches leave the
\* inbox through delivery or quarantine only, and a terminal receipt leaves it
\* only when its retention has passed (CollectReceipts never touches pending
\* state and keeps idempotency for the retention window).
ReceiptsOutliveRetention ==
    [][open /\ open' =>
        \A k \in Keys : db.receipts[k] # Absent /\ db'.receipts[k] = Absent =>
            /\ db.receipts[k].state # "pending"
            /\ db.receipts[k].completedAt
                 + (IF db.receipts[k].state = "delivered"
                    THEN ReceiptRetention ELSE QuarantineRetention) <= clock]_vars

\* A payload dropped from quarantine before its retention makes room only for
\* ones with a higher current number, which a replay renews: not necessarily
\* for ones accepted later (EvictionInAcceptanceOrder).  As many as the cap
\* allows are kept.
EvictionKeepsNewest ==
    [][open /\ open' =>
        \A k \in Quarantined(db) \ Quarantined(db') :
            (/\ db'.batches[k] = Absent
             /\ db.receipts[k].completedAt + QuarantineRetention > clock) =>
            /\ Cardinality(Quarantined(db')) = MaxQuarantineEntries
            /\ \A j \in Quarantined(db') :
                   db'.quarantine[j].seq > db.quarantine[k].seq]_vars

\* While the process runs the FIFO order of queued batches never changes and
\* whatever enters the queue enters behind all of them (strict FIFO: retries,
\* collection and replay reorder nothing).
QueueOrderStable ==
    [][open /\ open' =>
        \A k \in Queued(db) \cap Queued(db') :
            /\ db'.batches[k].seq = db.batches[k].seq
            /\ \A j \in Queued(db') \ Queued(db) :
                   db'.batches[j].seq > db.batches[k].seq]_vars

\* Replaying every quarantined batch requeues them in the order in which
\* they were accepted (store.go:468, the comment on ReplayAllQuarantined).
ReplayInAcceptanceOrder ==
    [][open /\ open' =>
        \A j, k \in Quarantined(db) \cap Queued(db') :
            db.quarantine[j].acceptedAt < db.quarantine[k].acceptedAt =>
                db'.batches[j].seq < db'.batches[k].seq]_vars

\* Quarantine over its cap loses "the oldest quarantined payloads (by original
\* acceptance sequence)" (store.go:428, the comment on evictQuarantineOverflow).
EvictionInAcceptanceOrder ==
    [][open /\ open' =>
        \A j \in Quarantined(db'), k \in Quarantined(db) \ Quarantined(db') :
            (/\ j \in Quarantined(db) /\ db'.batches[k] = Absent
             /\ db.receipts[k].completedAt + QuarantineRetention > clock) =>
            db.quarantine[k].acceptedAt <= db.quarantine[j].acceptedAt]_vars

-----------------------------------------------------------------------------
(* The inbox is a ledger of what it has acknowledged. *)

\* The payloads of a store, queued or in quarantine.
Contents(s) == {p \in Keys \X Digests : Holds(s, p[1], p[2])}

Ledger == INSTANCE TraceLedger
    WITH visible <- Contents(db), durable <- Contents(disk), promised <- owned

\* Every step of the inbox is a step of the ledger or none: a payload is never
\* replaced under its key, moving it between queue and quarantine loses none,
\* and an acknowledgement comes with the fsync that makes its payload durable
\* (pre-ACK durability, store.go:211).
ImplementsLedger == Ledger!Spec

-----------------------------------------------------------------------------
(* The strengthening of AcceptedSurvivesPowerLoss that every step preserves. *)

\* What has been acknowledged as accepted is in both stores, and what the
\* running fsync is about to acknowledge has been committed.
OwnershipInv ==
    /\ \A a \in owned : Holds(db, a[1], a[2]) /\ Holds(disk, a[1], a[2])
    /\ \A a \in writer.grants : Holds(db, a[1], a[2])

\* The inductive invariant of the inbox.
IInv == TypeOK /\ StoresConsistent /\ OwnershipInv

\* Without fsync errors nothing committed is left unsynced between calls.
SyncedBetweenCalls == open /\ ~writer.busy => disk = db

\* What a duplicate vouched for is then in both stores.
DuplicateInv ==
    /\ SyncedBetweenCalls
    /\ \A a \in vouched : Holds(db, a[1], a[2]) /\ Holds(disk, a[1], a[2])
=============================================================================
