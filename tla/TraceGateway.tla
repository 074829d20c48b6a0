---------------------------- MODULE TraceGateway ----------------------------
(***************************************************************************)
(* The running gateway: upload handlers (internal/server), the delivery    *)
(* worker (internal/delivery), the receipt collector and the supervisor    *)
(* (cmd/gateway), all on one inbox, with the process dying and being       *)
(* restarted by the orchestrator.                                          *)
(*                                                                         *)
(* The goroutines interleave at their calls.  Every write of the inbox is  *)
(* two steps of its caller, the transaction and the end of the fsync, and  *)
(* holder is the caller that has writeMu in between.  What a handler does  *)
(* before Accept (authentication, validation) is left out: it decides      *)
(* whether Accept is called and shares no state with the rest.             *)
(***************************************************************************)
EXTENDS TraceInbox, RetryPolicy

CONSTANTS
    Handlers,              \* goroutines serving uploads
    Responses,             \* [status, failed]: what Upstream.Send can return
    OperatorRetryLimit,    \* Options.OperatorRetryLimit
    MaxFaults,             \* bound: crashes, stops and fsync errors
    Nobody                 \* writeMu is free

Callers == Handlers \cup {"worker", "collector", "health", "supervisor"}

ASSUME GatewayAssumption ==
    /\ OperatorRetryLimit \in Nat \ {0} /\ MaxFaults \in Nat
    /\ Nobody \notin Callers
    /\ Handlers \cap {"worker", "collector", "health", "supervisor"} = {}

VARIABLES
    holder,       \* the caller that has writeMu
    handler,      \* per handler: where it is and what it uploads
    worker,       \* where Worker.Run is
    head,         \* what the worker's last PeekEligible returned
    nextRetry,    \* what its last NextRetryAt returned
    trigger,      \* the wakeup channel holds a token
    cancelled,    \* workerCtx is cancelled
    collector,    \* where runReceiptGC is
    supervisor,   \* where superviseGateway is
    admitting,    \* the HTTP server takes new requests
    received,     \* <<key, digest>> the upstream has answered with a 2xx
    faults        \* faults so far

inboxVars == vars
workerVars == <<worker, head, nextRetry>>
gatewayVars == <<inboxVars, holder, handler, workerVars, trigger, cancelled,
                 collector, supervisor, admitting, received, faults>>

HandlerPC == {"idle", "accept", "fsync", "trigger"}
WorkerPC == {"peek", "send", "delivered", "retry", "quarantined", "fsync",
             "look", "wait", "returned", "joining", "done"}
SupervisorPC == {"watch", "drain", "drainDead", "join", "close", "fsync", "exited"}

NoHead == [key |-> Absent, digest |-> Absent, attempts |-> 0, at |-> 0]
NoUpload == [pc |-> "idle", key |-> Absent, digest |-> Absent]

GatewayTypeOK ==
    /\ TypeOK
    /\ holder \in Callers \cup {Nobody}
    /\ handler \in [Handlers -> [pc: HandlerPC, key: Keys \cup {Absent},
                                 digest: Digests \cup {Absent}]]
    /\ worker \in WorkerPC
    /\ head \in [key: Keys \cup {Absent}, digest: Digests \cup {Absent},
                 attempts: 0..MaxAttempts, at: Time]
    /\ nextRetry \in Time
    /\ trigger \in BOOLEAN /\ cancelled \in BOOLEAN /\ admitting \in BOOLEAN
    /\ collector \in {"tick", "fsync", "done"}
    /\ supervisor \in SupervisorPC
    /\ received \subseteq Keys \X Digests
    /\ faults \in 0..MaxFaults

GatewayInit ==
    /\ Init
    /\ holder = Nobody
    /\ handler = [h \in Handlers |-> NoUpload]
    /\ worker = "peek"
    /\ head = NoHead
    /\ nextRetry = 0
    /\ trigger = FALSE
    /\ cancelled = FALSE
    /\ collector = "tick"
    /\ supervisor = "watch"
    /\ admitting = TRUE
    /\ received = {}
    /\ faults = 0

Running == supervisor # "exited"

\* who takes writeMu with its transaction, and gives it back after its fsync.
Takes(who) == holder = Nobody /\ holder' = who
Releases(who) == holder = who /\ holder' = Nobody

\* The fsync of who ends, without or with an error.
FsyncDone(who) == SyncDone /\ Releases(who) /\ UNCHANGED faults
FsyncFailed(who) ==
    /\ SyncFailed /\ Releases(who)
    /\ faults < MaxFaults /\ faults' = faults + 1

-----------------------------------------------------------------------------
(* Upload handlers: serveTrace from its call of Accept on. *)

Goto(h, pc) == handler' = [handler EXCEPT ![h].pc = pc]
Reply(h) == handler' = [handler EXCEPT ![h] = NoUpload]
OthersUnchanged ==
    UNCHANGED <<workerVars, cancelled, collector, supervisor, admitting, received>>

HandlerReceive(h, k, d) ==
    /\ Running /\ admitting
    /\ handler[h].pc = "idle"
    /\ handler' = [handler EXCEPT ![h] = [pc |-> "accept", key |-> k, digest |-> d]]
    /\ UNCHANGED <<inboxVars, holder, trigger, faults>> /\ OthersUnchanged

HandlerAccept(h) ==
    /\ handler[h].pc = "accept"
    /\ Accept(handler[h].key, handler[h].digest)
    /\ Takes(h) /\ Goto(h, "fsync")
    /\ UNCHANGED <<trigger, faults>> /\ OthersUnchanged

HandlerDuplicate(h) ==
    /\ handler[h].pc = "accept"
    /\ AcceptDuplicate(handler[h].key, handler[h].digest)
    /\ Goto(h, "trigger")
    /\ UNCHANGED <<holder, trigger, faults>> /\ OthersUnchanged

\* A request cancelled by its client, which may be at any time, a conflict, a
\* refusal of the storage guard or a closed store: 409 or 503.
HandlerRefused(h) ==
    /\ handler[h].pc = "accept"
    /\ Reply(h)
    /\ UNCHANGED <<inboxVars, holder, trigger, faults>> /\ OthersUnchanged

\* Mutant: the accepted batch is answered without a wakeup.
HandlerSyncedSilently(h) ==
    /\ handler[h].pc = "fsync"
    /\ FsyncDone(h) /\ Reply(h)
    /\ UNCHANGED trigger /\ OthersUnchanged

HandlerSynced(h) ==
    /\ handler[h].pc = "fsync"
    /\ FsyncDone(h) /\ Goto(h, "trigger")
    /\ UNCHANGED trigger /\ OthersUnchanged

HandlerSyncFailed(h) ==
    /\ handler[h].pc = "fsync"
    /\ FsyncFailed(h) /\ Reply(h)
    /\ UNCHANGED trigger /\ OthersUnchanged

\* Both outcomes wake the worker before the 200 is written.
HandlerTrigger(h) ==
    /\ handler[h].pc = "trigger"
    /\ trigger' = TRUE
    /\ Reply(h)
    /\ UNCHANGED <<inboxVars, holder, faults>> /\ OthersUnchanged

\* The health handler fsyncs the store.
HealthSync ==
    /\ Running /\ admitting /\ Sync /\ Takes("health")
    /\ UNCHANGED <<handler, trigger, faults>> /\ OthersUnchanged

HealthSynced ==
    /\ FsyncDone("health") \/ FsyncFailed("health")
    /\ UNCHANGED <<handler, trigger>> /\ OthersUnchanged

-----------------------------------------------------------------------------
(* The delivery worker: Run, deliverHead and wait. *)

WorkerGoto(pc) == worker' = pc /\ UNCHANGED <<head, nextRetry>>
WorkerOnly ==
    UNCHANGED <<inboxVars, holder, handler, collector, supervisor, admitting, faults>>

\* The context is cancelled or the store is closed: the call returns an error.
StoreRefuses == cancelled \/ ~open

WorkerPeek ==
    /\ worker = "peek" /\ ~StoreRefuses
    /\ LET k == PeekEligible(db, clock)
       IN  IF k = Absent
           THEN worker' = "look" /\ head' = NoHead
           ELSE /\ worker' = "send"
                /\ head' = [key |-> k, digest |-> db.batches[k].digest,
                            attempts |-> db.batches[k].attempts, at |-> clock]
    /\ UNCHANGED <<nextRetry, trigger, cancelled, received>> /\ WorkerOnly

\* A 2xx answer means that the upstream has the payload, also when reading
\* the rest of the answer fails.
WorkerSend ==
    /\ worker = "send"
    /\ \E r \in Responses :
          LET class == Classify(r.status, r.failed, head.attempts, OperatorRetryLimit)
          IN  /\ class = "retryable" => head.attempts < MaxAttempts
              /\ worker' = CASE class = "success"   -> "delivered"
                             [] class = "retryable" -> "retry"
                             [] class = "permanent" -> "quarantined"
              /\ received' = IF r.status \in 200..299
                             THEN received \cup {<<head.key, head.digest>>}
                             ELSE received
    /\ UNCHANGED <<head, nextRetry, trigger, cancelled>> /\ WorkerOnly

\* MarkDelivered, MarkQuarantined or MarkRetry; the first two with the time
\* read before the send.
WorkerMark ==
    /\ ~cancelled
    /\ \/ worker = "delivered" /\ MarkDelivered(head.key, head.at)
       \/ worker = "quarantined" /\ MarkQuarantined(head.key, head.at)
       \/ /\ worker = "retry"
          /\ \E at \in RetryTimes : (at > clock \/ at = MaxTime) /\ MarkRetry(head.key, at)
    /\ Takes("worker") /\ WorkerGoto("fsync")
    /\ UNCHANGED <<handler, trigger, cancelled, collector, supervisor,
                   admitting, received, faults>>

WorkerSynced ==
    /\ worker = "fsync"
    /\ \/ FsyncDone("worker") /\ WorkerGoto("peek")
       \/ FsyncFailed("worker") /\ WorkerGoto("returned")
    /\ UNCHANGED <<handler, trigger, cancelled, collector, supervisor, admitting, received>>

WorkerLook ==
    /\ worker = "look" /\ ~StoreRefuses
    /\ worker' = "wait"
    /\ nextRetry' = NextRetryAt(db)
    /\ UNCHANGED <<head, trigger, cancelled, received>> /\ WorkerOnly

\* Mutant: the worker sleeps without a timer.
WorkerWakeUntimed ==
    /\ worker = "wait"
    /\ \/ cancelled /\ UNCHANGED trigger
       \/ trigger /\ trigger' = FALSE
    /\ WorkerGoto("peek")
    /\ UNCHANGED <<cancelled, received>> /\ WorkerOnly

\* wait: the context, the trigger, or the retry time of the head.
WorkerWake ==
    /\ worker = "wait"
    /\ \/ cancelled /\ UNCHANGED trigger
       \/ trigger /\ trigger' = FALSE
       \/ nextRetry # 0 /\ nextRetry <= clock /\ UNCHANGED trigger
    /\ WorkerGoto("peek")
    /\ UNCHANGED <<cancelled, received>> /\ WorkerOnly

\* Run returns: nil when the context is cancelled, otherwise an error.
WorkerReturn ==
    /\ worker \in {"peek", "delivered", "quarantined", "retry", "look"}
    /\ StoreRefuses
    /\ WorkerGoto("returned")
    /\ UNCHANGED <<trigger, cancelled, received>> /\ WorkerOnly

\* Mutant: the collector is waited for without being cancelled.
WorkerJoinOnly ==
    /\ worker = "returned"
    /\ WorkerGoto("joining")
    /\ UNCHANGED <<trigger, cancelled, received>> /\ WorkerOnly

\* The goroutine around Run cancels the collector and waits for its end.
WorkerCancel ==
    /\ worker = "returned"
    /\ cancelled' = TRUE
    /\ WorkerGoto("joining")
    /\ UNCHANGED <<trigger, received>> /\ WorkerOnly

WorkerDone ==
    /\ worker = "joining" /\ collector = "done"
    /\ WorkerGoto("done")
    /\ UNCHANGED <<trigger, cancelled, received>> /\ WorkerOnly

-----------------------------------------------------------------------------
(* runReceiptGC *)

CollectorUnchanged ==
    UNCHANGED <<handler, workerVars, trigger, cancelled, supervisor, admitting, received>>

CollectorTick ==
    /\ Running /\ collector = "tick" /\ ~cancelled
    /\ CollectReceipts /\ Takes("collector")
    /\ collector' = "fsync"
    /\ UNCHANGED faults /\ CollectorUnchanged

\* A failed collection is retried at the next tick.
CollectorSynced ==
    /\ collector = "fsync"
    /\ FsyncDone("collector") \/ FsyncFailed("collector")
    /\ collector' = "tick"
    /\ CollectorUnchanged

CollectorDone ==
    /\ Running /\ collector = "tick" /\ StoreRefuses
    /\ collector' = "done"
    /\ UNCHANGED <<inboxVars, holder, faults>> /\ CollectorUnchanged

-----------------------------------------------------------------------------
(* superviseGateway and shutdownGateway *)

SupervisorUnchanged == UNCHANGED <<handler, workerVars, trigger, collector, received>>

\* The process is told to stop: admission is shut down first.
Signal ==
    /\ supervisor = "watch" /\ faults < MaxFaults
    /\ supervisor' = "drain" /\ admitting' = FALSE /\ faults' = faults + 1
    /\ UNCHANGED <<inboxVars, holder, cancelled>> /\ SupervisorUnchanged

\* The listener fails; requests on open connections go on.
ListenFailed ==
    /\ supervisor = "watch" /\ faults < MaxFaults
    /\ supervisor' = "join" /\ cancelled' = TRUE /\ faults' = faults + 1
    /\ UNCHANGED <<inboxVars, holder, admitting>> /\ SupervisorUnchanged

\* The worker has stopped outside of shutdown.
WorkerLost ==
    /\ supervisor = "watch" /\ worker = "done"
    /\ supervisor' = "drainDead" /\ cancelled' = TRUE /\ admitting' = FALSE
    /\ UNCHANGED <<inboxVars, holder, faults>> /\ SupervisorUnchanged

\* Mutant: the worker is waited for without being cancelled.
DrainedOnly ==
    /\ \/ supervisor = "drain" /\ supervisor' = "join"
       \/ supervisor = "drainDead" /\ supervisor' = "close"
    /\ UNCHANGED <<inboxVars, holder, cancelled, admitting, faults>> /\ SupervisorUnchanged

\* Shutdown returns when no request is in flight, or after its timeout.
Drained ==
    /\ \/ supervisor = "drain" /\ supervisor' = "join" /\ cancelled' = TRUE
       \/ supervisor = "drainDead" /\ supervisor' = "close" /\ UNCHANGED cancelled
    /\ UNCHANGED <<inboxVars, holder, admitting, faults>> /\ SupervisorUnchanged

Join ==
    /\ supervisor = "join" /\ worker = "done"
    /\ supervisor' = "close"
    /\ UNCHANGED <<inboxVars, holder, cancelled, admitting, faults>> /\ SupervisorUnchanged

SupervisorClose ==
    /\ supervisor = "close"
    /\ Close /\ Takes("supervisor")
    /\ supervisor' = "fsync"
    /\ UNCHANGED <<cancelled, admitting, faults>> /\ SupervisorUnchanged

\* Nothing of the process is left.
Gone ==
    /\ holder' = Nobody
    /\ handler' = [h \in Handlers |-> NoUpload]
    /\ worker' = "done"
    /\ head' = NoHead
    /\ nextRetry' = 0
    /\ trigger' = FALSE
    /\ cancelled' = TRUE
    /\ collector' = "done"
    /\ supervisor' = "exited"
    /\ admitting' = FALSE
    /\ UNCHANGED received

Exit ==
    /\ supervisor = "fsync" /\ holder = "supervisor"
    /\ \/ SyncDone /\ UNCHANGED faults
       \/ SyncFailed /\ faults < MaxFaults /\ faults' = faults + 1
    /\ Gone

Crash ==
    /\ Running /\ faults < MaxFaults /\ faults' = faults + 1
    /\ Kill \/ PowerLoss
    /\ Gone

\* The orchestrator restarts the container; runGateway opens the store.
Restart ==
    /\ ~Running
    /\ Open
    /\ worker' = "peek" /\ cancelled' = FALSE /\ collector' = "tick"
    /\ supervisor' = "watch" /\ admitting' = TRUE
    /\ UNCHANGED <<holder, handler, head, nextRetry, trigger, received, faults>>

ProcessUnchanged ==
    UNCHANGED <<holder, handler, workerVars, trigger, cancelled, collector,
                supervisor, admitting, received, faults>>
TimePasses == Tick /\ ProcessUnchanged
PagesWritten == Writeback /\ ProcessUnchanged

-----------------------------------------------------------------------------

HandlerStep(h) ==
    \/ HandlerAccept(h) \/ HandlerDuplicate(h) \/ HandlerRefused(h)
    \/ HandlerSynced(h) \/ HandlerSyncFailed(h) \/ HandlerTrigger(h)
WorkerStep ==
    \/ WorkerPeek \/ WorkerSend \/ WorkerMark \/ WorkerSynced \/ WorkerLook
    \/ WorkerWake \/ WorkerReturn \/ WorkerCancel \/ WorkerDone
CollectorStep == CollectorTick \/ CollectorSynced \/ CollectorDone
SupervisorStep == WorkerLost \/ Drained \/ Join \/ SupervisorClose \/ Exit

GatewayNext ==
    \/ \E h \in Handlers, k \in Keys, d \in Digests : HandlerReceive(h, k, d)
    \/ \E h \in Handlers : HandlerStep(h)
    \/ HealthSync \/ HealthSynced
    \/ WorkerStep \/ CollectorStep \/ SupervisorStep
    \/ Signal \/ ListenFailed \/ Crash \/ Restart
    \/ TimePasses \/ PagesWritten

GatewaySpec == GatewayInit /\ [][GatewayNext]_gatewayVars

\* Every goroutine keeps running; writeMu is handed out fairly (sync.Mutex
\* turns to FIFO order when a waiter starves); the orchestrator restarts the
\* process; time passes.
Fairness ==
    /\ \A h \in Handlers : SF_gatewayVars(HandlerStep(h))
    /\ WF_gatewayVars(HealthSynced)
    /\ SF_gatewayVars(WorkerStep)
    /\ SF_gatewayVars(CollectorSynced \/ CollectorDone)
    /\ SF_gatewayVars(SupervisorStep)
    /\ WF_gatewayVars(Restart)
    /\ WF_gatewayVars(TimePasses)

FairGatewaySpec == GatewaySpec /\ Fairness

-----------------------------------------------------------------------------
(* Properties *)

\* The batch that the worker is sending or about to mark is still the queued
\* FIFO head, unchanged since the worker read it without a lock: no upload,
\* collection or crash gets between PeekEligible and the Mark call (which would
\* kill the worker with ErrBatchNotFound or mark another payload).
InFlightIsHead ==
    Running /\ worker \in {"send", "delivered", "retry", "quarantined"} =>
        /\ FifoHead(db) = head.key
        /\ db.batches[head.key].digest = head.digest
        /\ db.batches[head.key].attempts = head.attempts

\* A receipt says delivered, in memory or after a crash, only if the upstream
\* has answered that very payload with a 2xx (at-least-once delivery).
DeliveredWasReceived ==
    \A s \in {db, disk}, k \in Keys :
        s.receipts[k] # Absent /\ s.receipts[k].state = "delivered" =>
            <<k, s.receipts[k].digest>> \in received

\* No wakeup is lost: when the worker sleeps without a timer and a batch it
\* owes to a client is queued, a wakeup is in the channel or on its way.
NoLostWakeup ==
    Running /\ worker = "wait" /\ nextRetry = 0 /\ ~cancelled
        /\ (\E a \in owned : a[1] \in Queued(db)) =>
        trigger \/ \E h \in Handlers : handler[h].pc = "trigger"

\* A batch acknowledged as accepted does not stay queued forever, across
\* crashes, restarts, retries and failed fsyncs (trace-upload-continuity.md: an
\* accepted batch is delivered or quarantined), provided that the upstream gives
\* it an answer that is not retryable: MaxAttempts bounds the retryable ones.
OwnedLeavesQueue ==
    \A a \in Keys \X Digests :
        (a \in owned /\ a[1] \in Queued(db)) ~> (a \notin owned \/ a[1] \notin Queued(db))

\* A worker that has stopped takes admission and the process down with it:
\* the gateway never keeps acknowledging uploads while delivery is dead.
DeadWorkerEndsAdmission == (Running /\ worker = "returned") ~> ~admitting

\* Once it begins, a shutdown ends: the worker, the collector, the handlers
\* and Close do not wait for each other in a circle.
ShutdownEnds == (supervisor \notin {"watch", "exited"}) ~> ~Running
-----------------------------------------------------------------------------
(* The strengthening of the invariants above that every step preserves. *)

\* writeMu is held by the caller whose fsync runs, and only an upload's fsync
\* acknowledges anything.
LockInv ==
    /\ writer.busy <=> holder # Nobody
    /\ \A h \in Handlers : holder = h <=> handler[h].pc = "fsync"
    /\ holder = "worker" <=> worker = "fsync"
    /\ holder = "collector" <=> collector = "fsync"
    /\ holder = "supervisor" <=> supervisor = "fsync"
    /\ holder \notin Handlers => writer.grants = {}

\* The stages of a shutdown: Close comes after the end of the worker, and the
\* end of the worker after that of the collector.
ShutdownInv ==
    /\ open <=> supervisor \notin {"fsync", "exited"}
    /\ supervisor \in {"drainDead", "close", "fsync", "exited"} => worker = "done"
    /\ worker \in {"joining", "done"} => cancelled
    /\ worker = "done" => collector = "done"

\* A handler that has called Accept has an upload, the worker past its peek a
\* batch, which it looked at in the past.
UploadsInv ==
    /\ \A h \in Handlers : handler[h].pc # "idle" =>
           handler[h].key \in Keys /\ handler[h].digest \in Digests
    /\ worker \in {"send", "delivered", "retry", "quarantined"} =>
           head.key \in Keys /\ head.at \in 1..clock
    /\ worker = "delivered" => <<head.key, head.digest>> \in received

\* A wakeup is in the channel or on its way.
WakeupDue == trigger \/ \E h \in Handlers : handler[h].pc = "trigger"

\* A batch that the gateway owes to a client is queued.
OwedQueued == \E a \in owned : a[1] \in Queued(db)

\* Before the worker has read the retry time it is going to wait for, that
\* time or a wakeup covers what is owed.
WakeupInv ==
    /\ worker = "look" /\ ~cancelled /\ OwedQueued => NextRetryAt(db) # 0 \/ WakeupDue
    /\ worker = "wait" /\ nextRetry = 0 /\ ~cancelled /\ OwedQueued => WakeupDue

\* The inductive invariant of the gateway.
GatewayInv ==
    /\ IInv /\ GatewayTypeOK
    /\ LockInv /\ ShutdownInv /\ UploadsInv
    /\ InFlightIsHead /\ DeliveredWasReceived /\ WakeupInv
=============================================================================
