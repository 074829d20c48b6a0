-------------------------- MODULE TraceGatewayProofs --------------------------
(***************************************************************************)
(* The running gateway, for every value of the constants: any number of    *)
(* upload handlers, any answers of the upstream, any number of faults.     *)
(* Each of its steps is a step of the inbox, so what is proved of the      *)
(* inbox holds of the gateway; what its own goroutines have to get right   *)
(* follows from the invariant GatewayInv, which every step preserves.      *)
(***************************************************************************)
EXTENDS TraceGateway, TraceInboxProofs

-----------------------------------------------------------------------------
(* The head of the queue. *)

\* The head is the queued batch with the smallest number.
LEMMA HeadIsFirst ==
    ASSUME NEW s, Good(s)
    PROVE  IF Queued(s) = {} THEN FifoHead(s) = Absent
           ELSE /\ FifoHead(s) \in Queued(s)
                /\ \A j \in Queued(s) : s.batches[FifoHead(s)].seq <= s.batches[j].seq
  <1> DEFINE used == {n \in Seqs : s.fifo[n] # Absent}
             first == CHOOSE n \in used : \A m \in used : n <= m
  <1>1. /\ s.fifo \in [Seqs -> Keys \cup {Absent}]
        /\ s.batches \in [Keys -> Batch \cup {Absent}]
        /\ FifoIndexExact(s) /\ Absent \notin Keys
    BY StoreFields, AbsentAssumption DEF Good, Consistent
  <1>2. ASSUME NEW k \in Queued(s)
        PROVE  s.batches[k].seq \in used /\ s.fifo[s.batches[k].seq] = k
    <2>1. k \in Keys /\ s.batches[k] \in Batch
      BY <1>1 DEF Queued
    <2>2. s.batches[k].seq \in Seqs
      BY <2>1 DEF Batch
    <2> QED BY <1>1, <2>1, <2>2 DEF FifoIndexExact, Queued
  <1>3. ASSUME NEW n \in used PROVE s.fifo[n] \in Queued(s) /\ s.batches[s.fifo[n]].seq = n
    BY <1>1 DEF FifoIndexExact, Queued
  <1>4. CASE Queued(s) = {}
    <2>1. used = {}
      BY <1>3, <1>4
    <2> QED BY <1>4, <2>1 DEF FifoHead
  <1>5. CASE Queued(s) # {}
    <2>1. used # {} /\ used \subseteq Seqs
      BY <1>2, <1>5
    <2>2. IsFiniteSet(Seqs) /\ Seqs \subseteq Int
      BY BoundsAssumption, FS_Interval DEF Seqs
    <2>3. PICK o \in used : \A n \in used \ {o} : n > o
      <3> DEFINE f == [n \in Seqs |-> n]
      <3>1. f \in [Seqs -> Int] /\ (\A m, n \in Seqs : f[m] = f[n] => m = n)
        BY <2>2
      <3>2. \A n \in used : f[n] = n
        OBVIOUS
      <3> HIDE DEF f, used
      <3>3. PICK o \in used : \A n \in used \ {o} : f[n] > f[o]
        BY <2>1, <2>2, <3>1, Lowest
      <3> QED BY <3>2, <3>3
    <2>4. first \in used /\ \A m \in used : first <= m
      <3>1. \A m \in used : m \in Int
        BY <2>1, <2>2
      <3>2. \A m \in used : o <= m
        BY <2>3, <3>1
      <3> HIDE DEF used
      <3> QED BY <2>3, <3>2
    <2>5. FifoHead(s) = s.fifo[first]
      BY <2>1 DEF FifoHead
    <2> HIDE DEF used, first
    <2>6. FifoHead(s) \in Queued(s) /\ s.batches[FifoHead(s)].seq = first
      BY <1>3, <2>4, <2>5
    <2> QED BY <1>2, <1>5, <2>4, <2>6
  <1> QED BY <1>4, <1>5

\* A queued batch that no queued batch precedes is the head.
LEMMA FirstIsHead ==
    ASSUME NEW s, Good(s), NEW k \in Queued(s),
           \A j \in Queued(s) : s.batches[k].seq <= s.batches[j].seq
    PROVE  FifoHead(s) = k
  <1>1. FifoHead(s) \in Queued(s) /\ s.batches[FifoHead(s)].seq <= s.batches[k].seq
    BY HeadIsFirst
  <1>2. \A j \in Queued(s) : j \in Keys /\ s.batches[j].seq \in Seqs
    BY StoreFields DEF Good, Queued, Batch
  <1>3. s.batches[FifoHead(s)].seq = s.batches[k].seq
    <2>1. s.batches[k].seq <= s.batches[FifoHead(s)].seq
      BY <1>1
    <2> QED BY <1>1, <1>2, <2>1 DEF Seqs
  <1> QED BY <1>1, <1>2, <1>3 DEF Good, Consistent, FifoIndexExact, Queued

\* From the store s to t the head of a queue that has one stays as it is.
HeadKept(s, t) ==
    Queued(s) # {} => /\ FifoHead(t) = FifoHead(s)
                      /\ t.batches[FifoHead(s)] = s.batches[FifoHead(s)]

\* The head depends on the batches alone.
LEMMA SameBatchesSameHead ==
    ASSUME NEW s, Good(s), NEW t, Good(t), t.batches = s.batches
    PROVE  FifoHead(t) = FifoHead(s)
  <1>1. Queued(t) = Queued(s)
    BY DEF Queued
  <1>2. CASE Queued(s) = {}
    BY <1>1, <1>2, HeadIsFirst
  <1>3. CASE Queued(s) # {}
    BY <1>1, <1>3, HeadIsFirst, FirstIsHead
  <1> QED BY <1>2, <1>3

\* An accepted batch does not get before the head.
LEMMA AcceptKeepsHead ==
    ASSUME NEW s, Good(s), NEW k \in Keys, NEW d \in Digests, NEW now \in Time \ {0},
           AcceptOutcome(s, k, d) = "accepted", s.seq < MaxSeq
    PROVE  /\ HeadKept(s, AcceptTx(s, k, d, now))
           /\ Queued(AcceptTx(s, k, d, now)) \subseteq Queued(s) \cup {k}
  <1> DEFINE t == AcceptTx(s, k, d, now)
             b == [digest |-> d, seq |-> s.seq + 1, acceptedAt |-> now,
                   attempts |-> 0, nextRetry |-> 0]
  <1>1. Good(t)
    BY AcceptTxGood
  <1>2. /\ s.batches \in [Keys -> Batch \cup {Absent}]
        /\ s.receipts \in [Keys -> Receipt \cup {Absent}]
        /\ s.seq \in 0..MaxSeq /\ s.receipts[k] = Absent
    BY StoreFields DEF Good, AcceptOutcome
  <1>3. \A j \in Keys : t.batches[j] = IF j = k THEN b ELSE s.batches[j]
    BY <1>2 DEF AcceptTx
  <1>4. s.batches[k] = Absent
    BY <1>2 DEF Good, Consistent, PendingIffQueued
  <1>5. b.seq = s.seq + 1
    OBVIOUS
  <1> HIDE DEF t, b
  <1>6. Queued(t) \subseteq Queued(s) \cup {k}
    BY <1>3 DEF Queued
  <1>7. ASSUME Queued(s) # {}
        PROVE  /\ FifoHead(t) = FifoHead(s)
               /\ t.batches[FifoHead(s)] = s.batches[FifoHead(s)]
    <2> DEFINE head0 == FifoHead(s)
    <2>1. head0 \in Queued(s) /\ \A j \in Queued(s) : s.batches[head0].seq <= s.batches[j].seq
      BY <1>7, HeadIsFirst
    <2>2. head0 \in Keys /\ head0 # k /\ t.batches[head0] = s.batches[head0]
      BY <1>3, <1>4, <2>1 DEF Queued
    <2>3. head0 \in Queued(t)
      BY <2>1, <2>2 DEF Queued
    <2>4. s.batches[head0].seq <= s.seq /\ s.batches[head0].seq \in Int
      BY <1>2, <2>1 DEF Good, Consistent, SequencesDistinct, Queued, Batch, Seqs
    <2> HIDE DEF head0
    <2>5. ASSUME NEW j \in Queued(t) PROVE t.batches[head0].seq <= t.batches[j].seq
      <3>1. CASE j = k
        <4>1. t.batches[j].seq = s.seq + 1
          BY <1>3, <1>5, <3>1
        <4> QED BY <1>2, <2>2, <2>4, <4>1
      <3>2. CASE j # k
        BY <1>3, <1>6, <2>1, <2>2, <3>2 DEF Queued
      <3> QED BY <3>1, <3>2
    <2>6. FifoHead(t) = head0
      BY <1>1, <2>3, <2>5, FirstIsHead
    <2> QED BY <2>2, <2>6 DEF head0
  <1> QED BY <1>6, <1>7 DEF HeadKept, t

-----------------------------------------------------------------------------
(* The gateway's steps are steps of the inbox. *)

\* Every step of an upload handler or the health handler, as one of the inbox.
LEMMA HandlersStepInbox ==
    ASSUME GatewayInv,
           (\E h \in Handlers, k \in Keys, d \in Digests : HandlerReceive(h, k, d))
           \/ (\E h \in Handlers : HandlerStep(h)) \/ HealthSync \/ HealthSynced
    PROVE  [Next]_vars
  <1>1. ASSUME NEW h \in Handlers, HandlerAccept(h) PROVE Next
    <2>1. handler[h].key \in Keys /\ handler[h].digest \in Digests
      BY <1>1 DEF HandlerAccept, GatewayInv, UploadsInv
    <2> QED BY <1>1, <2>1 DEF HandlerAccept, Next
  <1>2. ASSUME NEW h \in Handlers, HandlerDuplicate(h) PROVE Next
    <2>1. handler[h].key \in Keys /\ handler[h].digest \in Digests
      BY <1>2 DEF HandlerDuplicate, GatewayInv, UploadsInv
    <2> QED BY <1>2, <2>1 DEF HandlerDuplicate, Next
  <1>3. ASSUME NEW h \in Handlers, HandlerRefused(h) \/ HandlerTrigger(h) PROVE UNCHANGED vars
    BY <1>3 DEF HandlerRefused, HandlerTrigger, inboxVars
  <1>4. ASSUME NEW h \in Handlers, HandlerSynced(h) \/ HandlerSyncFailed(h) PROVE Next
    BY <1>4 DEF HandlerSynced, HandlerSyncFailed, FsyncDone, FsyncFailed, Next
  <1>5. ASSUME NEW h \in Handlers, NEW k \in Keys, NEW d \in Digests, HandlerReceive(h, k, d)
        PROVE  UNCHANGED vars
    BY <1>5 DEF HandlerReceive, inboxVars
  <1>6. ASSUME HealthSync \/ HealthSynced PROVE Next
    BY <1>6 DEF HealthSync, HealthSynced, FsyncDone, FsyncFailed, Next
  <1> QED BY <1>1, <1>2, <1>3, <1>4, <1>5, <1>6 DEF HandlerStep

\* The same for the delivery worker, which marks the batch it has looked at.
LEMMA WorkerStepsInbox ==
    ASSUME GatewayInv, WorkerStep
    PROVE  [Next]_vars
  <1>1. CASE WorkerMark
    <2>1. head.key \in Keys /\ head.at \in 1..clock
      BY <1>1 DEF WorkerMark, GatewayInv, UploadsInv
    <2> QED BY <1>1, <2>1 DEF WorkerMark, Next
  <1>2. CASE WorkerSynced
    BY <1>2 DEF WorkerSynced, FsyncDone, FsyncFailed, Next
  <1>3. ASSUME WorkerPeek \/ WorkerSend \/ WorkerLook \/ WorkerWake \/ WorkerReturn
               \/ WorkerCancel \/ WorkerDone
        PROVE  UNCHANGED vars
    BY <1>3 DEF WorkerPeek, WorkerSend, WorkerLook, WorkerWake, WorkerReturn,
                WorkerCancel, WorkerDone, WorkerOnly, inboxVars
  <1> QED BY <1>1, <1>2, <1>3 DEF WorkerStep

\* The same for the collector, the supervisor and the world around them.
LEMMA ProcessStepsInbox ==
    ASSUME CollectorStep \/ SupervisorStep \/ Signal \/ ListenFailed \/ Crash \/ Restart
           \/ TimePasses \/ PagesWritten
    PROVE  [Next]_vars
  <1>1. CASE CollectorStep
    BY <1>1 DEF CollectorStep, CollectorTick, CollectorSynced, CollectorDone, FsyncDone,
                FsyncFailed, inboxVars, Next
  <1>2. CASE SupervisorStep
    BY <1>2 DEF SupervisorStep, WorkerLost, Drained, Join, SupervisorClose, Exit,
                inboxVars, Next
  <1>3. CASE Signal \/ ListenFailed
    BY <1>3 DEF Signal, ListenFailed, inboxVars
  <1>4. CASE Crash \/ Restart \/ TimePasses \/ PagesWritten
    BY <1>4 DEF Crash, Restart, TimePasses, PagesWritten, Next
  <1> QED BY <1>1, <1>2, <1>3, <1>4

\* Every step of the gateway is a step of the inbox or leaves it alone.
LEMMA GatewayStepsInbox == GatewayInv /\ [GatewayNext]_gatewayVars => [Next]_vars
  <1>1. UNCHANGED gatewayVars => UNCHANGED vars
    BY DEF gatewayVars, inboxVars
  <1> QED BY <1>1, HandlersStepInbox, WorkerStepsInbox, ProcessStepsInbox DEF GatewayNext

-----------------------------------------------------------------------------
(* Types. *)

\* A handler moves on or takes another upload: handler keeps its type.
LEMMA HandlerType ==
    ASSUME GatewayTypeOK, NEW h \in Handlers
    PROVE  /\ \A pc \in HandlerPC : Goto(h, pc) =>
                  handler' \in [Handlers -> [pc: HandlerPC, key: Keys \cup {Absent},
                                             digest: Digests \cup {Absent}]]
           /\ Reply(h) =>
                  handler' \in [Handlers -> [pc: HandlerPC, key: Keys \cup {Absent},
                                             digest: Digests \cup {Absent}]]
  BY DEF GatewayTypeOK, Goto, Reply, NoUpload, HandlerPC

\* What the worker reads of the inbox has its type.
LEMMA PeekType ==
    ASSUME NEW s, Good(s), NEW now \in Time, PeekEligible(s, now) # Absent
    PROVE  LET k == PeekEligible(s, now)
           IN  /\ k = FifoHead(s) /\ k \in Queued(s) /\ k \in Keys
               /\ s.batches[k] \in Batch
  <1>1. PeekEligible(s, now) = FifoHead(s) /\ FifoHead(s) # Absent
    BY DEF PeekEligible
  <1>2. FifoHead(s) \in Queued(s)
    BY <1>1, HeadIsFirst
  <1> QED BY <1>1, <1>2, StoreFields DEF Good, Queued

LEMMA NextRetryType ==
    ASSUME NEW s, Good(s)
    PROVE  NextRetryAt(s) \in Time
  <1>1. CASE FifoHead(s) = Absent
    BY <1>1, BoundsAssumption DEF NextRetryAt, Time
  <1>2. CASE FifoHead(s) # Absent
    <2>1. FifoHead(s) \in Queued(s)
      BY <1>2, HeadIsFirst
    <2>2. s.batches[FifoHead(s)] \in Batch
      BY <2>1, StoreFields DEF Good, Queued
    <2> QED BY <1>2, <2>2 DEF NextRetryAt, Batch
  <1> QED BY <1>1, <1>2

\* classify gives every attempt one of three meanings, and calls it a success
\* only if the upstream has the payload.
LEMMA ClassifyMeaning ==
    ASSUME NEW status, NEW failed \in BOOLEAN, NEW attempts, NEW limit
    PROVE  LET class == Classify(status, failed, attempts, limit)
           IN  /\ class \in {"success", "retryable", "permanent"}
               /\ class = "success" => status \in 200..299 /\ ~failed
  BY DEF Classify

\* A step keeps the types of the gateway.
LEMMA GatewayTypeNext == GatewayInv /\ [GatewayNext]_gatewayVars => GatewayTypeOK'
  <1> SUFFICES ASSUME GatewayInv, [GatewayNext]_gatewayVars PROVE GatewayTypeOK'
    OBVIOUS
  <1>1. TypeOK' /\ TypeOK /\ GatewayTypeOK /\ Good(db)
    BY GatewayStepsInbox, NextInv DEF GatewayInv, IInv, Good, StoresConsistent, TypeOK
  <1> USE DEF GatewayTypeOK, Callers
  <1>0. faults < MaxFaults /\ faults' = faults + 1 => faults' \in 0..MaxFaults
    BY <1>1, GatewayAssumption
  <1>2. ASSUME NEW h \in Handlers, NEW k \in Keys, NEW d \in Digests, HandlerReceive(h, k, d)
        PROVE  GatewayTypeOK'
    BY <1>1, <1>2 DEF HandlerReceive, OthersUnchanged, workerVars, HandlerPC
  <1>3. ASSUME NEW h \in Handlers, HandlerStep(h) PROVE GatewayTypeOK'
    <2>1. handler' \in [Handlers -> [pc: HandlerPC, key: Keys \cup {Absent},
                                     digest: Digests \cup {Absent}]]
      BY <1>1, <1>3, HandlerType
      DEF HandlerStep, HandlerAccept, HandlerDuplicate, HandlerRefused, HandlerSynced,
          HandlerSyncFailed, HandlerTrigger, HandlerPC
    <2>2. /\ holder' \in Callers \cup {Nobody} /\ trigger' \in BOOLEAN
          /\ faults' \in 0..MaxFaults
      BY <1>1, <1>3, <1>0
      DEF HandlerStep, HandlerAccept, HandlerDuplicate, HandlerRefused, HandlerSynced,
          HandlerSyncFailed, HandlerTrigger, Takes, FsyncDone, FsyncFailed, Releases
    <2>3. OthersUnchanged
      BY <1>3
      DEF HandlerStep, HandlerAccept, HandlerDuplicate, HandlerRefused, HandlerSynced,
          HandlerSyncFailed, HandlerTrigger
    <2> QED BY <1>1, <2>1, <2>2, <2>3 DEF OthersUnchanged, workerVars
  <1>4. CASE HealthSync \/ HealthSynced
    BY <1>1, <1>4, <1>0
    DEF HealthSync, HealthSynced, Takes, FsyncDone, FsyncFailed, Releases, OthersUnchanged,
        workerVars
  <1>5. CASE WorkerPeek
    <2>1. head' \in [key: Keys \cup {Absent}, digest: Digests \cup {Absent},
                     attempts: 0..MaxAttempts, at: Time]
      <3>1. CASE PeekEligible(db, clock) = Absent
        BY <1>5, <3>1, BoundsAssumption DEF WorkerPeek, NoHead, Time
      <3>2. CASE PeekEligible(db, clock) # Absent
        BY <1>1, <1>5, <3>2, PeekType DEF WorkerPeek, TypeOK, Batch
      <3> QED BY <3>1, <3>2
    <2> QED BY <1>1, <1>5, <2>1 DEF WorkerPeek, WorkerOnly, WorkerPC
  <1>6. CASE WorkerSend
    <2>1. worker' \in WorkerPC
      BY <1>6 DEF WorkerSend, WorkerPC, Classify
    <2>2. head.key \in Keys /\ head.digest \in Digests
      <3>1. Running
        BY <1>6 DEF WorkerSend, GatewayInv, ShutdownInv, Running
      <3>2. head.key \in Queued(db) /\ db.batches[head.key].digest = head.digest
        BY <1>1, <1>6, <3>1, AbsentAssumption, HeadIsFirst
        DEF GatewayInv, InFlightIsHead, UploadsInv, WorkerSend
      <3> QED BY <1>1, <3>2, StoreFields DEF Queued, Good, Batch
    <2>3. received' \subseteq received \cup {<<head.key, head.digest>>}
      BY <1>6 DEF WorkerSend
    <2>4. received' \subseteq Keys \X Digests
      BY <1>1, <2>2, <2>3
    <2> QED BY <1>1, <1>6, <2>1, <2>4 DEF WorkerSend, WorkerOnly
  <1>7. CASE WorkerMark \/ WorkerSynced
    BY <1>1, <1>7, <1>0
    DEF WorkerMark, WorkerSynced, WorkerGoto, WorkerPC, Takes, FsyncDone, FsyncFailed, Releases
  <1>8. CASE WorkerLook
    BY <1>1, <1>8, NextRetryType DEF WorkerLook, WorkerOnly, WorkerPC
  <1>9. CASE WorkerWake \/ WorkerReturn \/ WorkerCancel \/ WorkerDone
    BY <1>1, <1>9
    DEF WorkerWake, WorkerReturn, WorkerCancel, WorkerDone, WorkerGoto, WorkerOnly, WorkerPC
  <1>10. CASE CollectorStep
    BY <1>1, <1>10, <1>0
    DEF CollectorStep, CollectorTick, CollectorSynced, CollectorDone, CollectorUnchanged,
        Takes, FsyncDone, FsyncFailed, Releases, workerVars
  <1>11. CASE WorkerLost \/ Drained \/ Join \/ SupervisorClose \/ Signal \/ ListenFailed
    BY <1>1, <1>11, <1>0
    DEF WorkerLost, Drained, Join, SupervisorClose, Signal, ListenFailed,
        SupervisorUnchanged, SupervisorPC, Takes, workerVars
  <1>12. CASE Exit \/ Crash
    <2>1. Gone /\ faults' \in 0..MaxFaults
      BY <1>1, <1>0, <1>12 DEF Exit, Crash
    <2>2. handler' \in [Handlers -> [pc: HandlerPC, key: Keys \cup {Absent},
                                     digest: Digests \cup {Absent}]]
      BY <2>1 DEF Gone, NoUpload, HandlerPC
    <2>3. /\ head' \in [key: Keys \cup {Absent}, digest: Digests \cup {Absent},
                        attempts: 0..MaxAttempts, at: Time]
          /\ nextRetry' \in Time
      BY <2>1, BoundsAssumption DEF Gone, NoHead, Time
    <2> QED BY <1>1, <2>1, <2>2, <2>3 DEF Gone, WorkerPC, SupervisorPC
  <1>13. CASE Restart
    BY <1>1, <1>13 DEF Restart, WorkerPC, SupervisorPC
  <1>14. CASE TimePasses \/ PagesWritten \/ UNCHANGED gatewayVars
    BY <1>1, <1>14 DEF TimePasses, PagesWritten, ProcessUnchanged, gatewayVars, workerVars
  <1> QED BY <1>2, <1>3, <1>4, <1>5, <1>6, <1>7, <1>8, <1>9, <1>10, <1>11, <1>12, <1>13,
             <1>14 DEF GatewayNext, WorkerStep, SupervisorStep

-----------------------------------------------------------------------------
(* writeMu and the stages of a shutdown. *)

\* A transaction busies the writer, and only Accept's will acknowledge; the
\* end of an fsync frees it.
LEMMA WriterMoves ==
    /\ \A k \in Keys, d \in Digests : Accept(k, d) => writer' = Syncing({<<k, d>>}) /\ open' = open
    /\ \A k \in Keys : \A at :
           MarkDelivered(k, at) \/ MarkQuarantined(k, at) \/ MarkRetry(k, at) =>
               writer' = Syncing({}) /\ open' = open
    /\ CollectReceipts \/ Sync => writer' = Syncing({}) /\ open' = open
    /\ Close => writer' = Syncing({}) /\ ~open'
    /\ SyncDone \/ SyncFailed => writer' = Idle /\ open' = open
    /\ Kill \/ PowerLoss => writer' = Idle /\ ~open'
    /\ Open => writer' = writer /\ ~writer.busy /\ open'
    /\ \A k \in Keys, d \in Digests : AcceptDuplicate(k, d) => writer' = writer /\ open' = open
    /\ Writeback \/ Tick \/ UNCHANGED vars => writer' = writer /\ open' = open
  BY DEF Accept, MarkDelivered, MarkQuarantined, MarkRetry, CollectReceipts, Sync, Close,
         SyncDone, SyncFailed, Kill, PowerLoss, Open, AcceptDuplicate, Writeback, Tick, vars,
         Commit

\* A step keeps writeMu with the caller whose fsync runs.
LEMMA LockNext == GatewayInv /\ [GatewayNext]_gatewayVars => LockInv'
  <1> SUFFICES ASSUME GatewayInv, [GatewayNext]_gatewayVars PROVE LockInv'
    OBVIOUS
  <1>1. /\ LockInv /\ UploadsInv /\ Nobody \notin Handlers
        /\ Nobody \notin {"worker", "collector", "health", "supervisor"}
        /\ \A h \in Handlers : h \notin {"worker", "collector", "health", "supervisor"}
        /\ handler \in [Handlers -> [pc: HandlerPC, key: Keys \cup {Absent},
                                     digest: Digests \cup {Absent}]]
    BY GatewayAssumption DEF GatewayInv, GatewayTypeOK, Callers
  <1>2. \A g \in SUBSET (Keys \X Digests) : Syncing(g).busy /\ Syncing(g).grants = g
    BY DEF Syncing
  <1>3. ~Idle.busy /\ Idle.grants = {}
    BY DEF Idle
  <1> USE DEF LockInv
  <1>4. ASSUME NEW h \in Handlers, NEW k \in Keys, NEW d \in Digests, HandlerReceive(h, k, d)
        PROVE  LockInv'
    BY <1>1, <1>4, WriterMoves DEF HandlerReceive, OthersUnchanged, workerVars, inboxVars
  <1>5. ASSUME NEW h \in Handlers, HandlerAccept(h) PROVE LockInv'
    <2>1. handler[h].key \in Keys /\ handler[h].digest \in Digests /\ writer'.busy
      BY <1>1, <1>5, WriterMoves DEF HandlerAccept, UploadsInv, Syncing
    <2> QED BY <1>1, <1>5, <2>1 DEF HandlerAccept, Takes, Goto, OthersUnchanged, workerVars
  <1>6. ASSUME NEW h \in Handlers, HandlerSynced(h) \/ HandlerSyncFailed(h) PROVE LockInv'
    <2>1. writer' = Idle /\ holder = h /\ holder' = Nobody
      BY <1>6, WriterMoves DEF HandlerSynced, HandlerSyncFailed, FsyncDone, FsyncFailed, Releases
    <2>2. \A j \in Handlers : handler'[j].pc = "fsync" <=> j # h /\ handler[j].pc = "fsync"
      BY <1>1, <1>6 DEF HandlerSynced, HandlerSyncFailed, Goto, Reply, NoUpload
    <2>3. UNCHANGED <<worker, collector, supervisor>>
      BY <1>6 DEF HandlerSynced, HandlerSyncFailed, OthersUnchanged, workerVars
    <2> QED BY <1>1, <1>3, <2>1, <2>2, <2>3
  <1>7. ASSUME NEW h \in Handlers, HandlerDuplicate(h) \/ HandlerRefused(h) \/ HandlerTrigger(h)
        PROVE  LockInv'
    <2>1. writer' = writer /\ UNCHANGED <<holder, worker, collector, supervisor>>
      <3>1. HandlerDuplicate(h) => handler[h].key \in Keys /\ handler[h].digest \in Digests
        BY <1>1 DEF HandlerDuplicate, UploadsInv
      <3> QED BY <1>7, <3>1, WriterMoves
          DEF HandlerDuplicate, HandlerRefused, HandlerTrigger, OthersUnchanged, workerVars,
              inboxVars
    <2>2. \A j \in Handlers : handler'[j].pc = "fsync" <=> handler[j].pc = "fsync"
      BY <1>1, <1>7
      DEF HandlerDuplicate, HandlerRefused, HandlerTrigger, Goto, Reply, NoUpload
    <2> QED BY <1>1, <2>1, <2>2
  <1>8. CASE HealthSync
    BY <1>1, <1>2, <1>8, WriterMoves DEF HealthSync, Takes, OthersUnchanged, workerVars
  <1>9. CASE HealthSynced
    BY <1>1, <1>3, <1>9, WriterMoves
    DEF HealthSynced, FsyncDone, FsyncFailed, Releases, OthersUnchanged, workerVars
  <1>10. CASE WorkerMark
    <2>1. head.key \in Keys
      BY <1>1, <1>10 DEF WorkerMark, UploadsInv
    <2>2. writer' = Syncing({})
      BY <1>10, <2>1, WriterMoves DEF WorkerMark
    <2> QED BY <1>1, <1>2, <1>10, <2>2 DEF WorkerMark, Takes, WorkerGoto
  <1>11. CASE WorkerSynced
    BY <1>1, <1>3, <1>11, WriterMoves
    DEF WorkerSynced, FsyncDone, FsyncFailed, Releases, WorkerGoto
  <1>12. ASSUME WorkerPeek \/ WorkerSend \/ WorkerLook \/ WorkerWake \/ WorkerReturn
                \/ WorkerCancel \/ WorkerDone
         PROVE  LockInv'
    <2>1. writer' = writer /\ UNCHANGED <<holder, handler, collector, supervisor>>
      BY <1>12, WriterMoves
      DEF WorkerPeek, WorkerSend, WorkerLook, WorkerWake, WorkerReturn, WorkerCancel,
          WorkerDone, WorkerOnly, inboxVars
    <2>2. worker # "fsync" /\ worker' # "fsync"
      BY <1>12
      DEF WorkerPeek, WorkerSend, WorkerLook, WorkerWake, WorkerReturn, WorkerCancel,
          WorkerDone, WorkerGoto, Classify
    <2> QED BY <1>1, <2>1, <2>2
  <1>13. CASE CollectorStep
    BY <1>1, <1>2, <1>3, <1>13, WriterMoves
    DEF CollectorStep, CollectorTick, CollectorSynced, CollectorDone, CollectorUnchanged,
        FsyncDone, FsyncFailed, Releases, Takes, workerVars, inboxVars
  <1>14. CASE WorkerLost \/ Drained \/ Join \/ Signal \/ ListenFailed
    BY <1>1, <1>14, WriterMoves
    DEF WorkerLost, Drained, Join, Signal, ListenFailed, SupervisorUnchanged, workerVars,
        inboxVars
  <1>15. CASE SupervisorClose
    BY <1>1, <1>2, <1>15, WriterMoves
    DEF SupervisorClose, SupervisorUnchanged, Takes, workerVars
  <1>16. CASE Exit \/ Crash
    BY <1>1, <1>3, <1>16, WriterMoves DEF Exit, Crash, Gone, NoUpload
  <1>17. CASE Restart
    BY <1>1, <1>17, WriterMoves DEF Restart, Running
  <1>18. CASE TimePasses \/ PagesWritten \/ UNCHANGED gatewayVars
    BY <1>1, <1>18, WriterMoves
    DEF TimePasses, PagesWritten, ProcessUnchanged, gatewayVars, workerVars, inboxVars
  <1> QED BY <1>4, <1>5, <1>6, <1>7, <1>8, <1>9, <1>10, <1>11, <1>12, <1>13, <1>14, <1>15,
             <1>16, <1>17, <1>18 DEF GatewayNext, HandlerStep, WorkerStep, SupervisorStep

\* A step keeps the stages of a shutdown in order.
LEMMA ShutdownNext == GatewayInv /\ [GatewayNext]_gatewayVars => ShutdownInv'
  <1> SUFFICES ASSUME GatewayInv, [GatewayNext]_gatewayVars PROVE ShutdownInv'
    OBVIOUS
  <1>1. ShutdownInv /\ UploadsInv
    BY DEF GatewayInv
  <1> USE DEF ShutdownInv
  <1>2. ASSUME NEW h \in Handlers, HandlerStep(h) PROVE ShutdownInv'
    <2>1. handler[h].pc # "idle" => handler[h].key \in Keys /\ handler[h].digest \in Digests
      BY <1>1 DEF UploadsInv
    <2>2. open' = open
      BY <1>2, <2>1, WriterMoves
      DEF HandlerStep, HandlerAccept, HandlerDuplicate, HandlerRefused, HandlerSynced,
          HandlerSyncFailed, HandlerTrigger, FsyncDone, FsyncFailed, inboxVars
    <2>3. UNCHANGED <<worker, cancelled, collector, supervisor>>
      BY <1>2
      DEF HandlerStep, HandlerAccept, HandlerDuplicate, HandlerRefused, HandlerSynced,
          HandlerSyncFailed, HandlerTrigger, OthersUnchanged, workerVars
    <2> QED BY <1>1, <2>2, <2>3
  <1>3. CASE (\E h \in Handlers, k \in Keys, d \in Digests : HandlerReceive(h, k, d))
             \/ HealthSync \/ HealthSynced
    BY <1>1, <1>3, WriterMoves
    DEF HandlerReceive, HealthSync, HealthSynced, FsyncDone, FsyncFailed, OthersUnchanged,
        workerVars, inboxVars
  <1>4. CASE WorkerStep
    <2>1. open' = open
      <3>1. WorkerMark => head.key \in Keys
        BY <1>1 DEF WorkerMark, UploadsInv
      <3>2. WorkerMark => open' = open
        BY <3>1, WriterMoves DEF WorkerMark
      <3> QED BY <1>4, <3>2, WriterMoves
          DEF WorkerStep, WorkerPeek, WorkerSend, WorkerSynced, WorkerLook, WorkerWake,
              WorkerReturn, WorkerCancel, WorkerDone, FsyncDone, FsyncFailed, WorkerOnly,
              inboxVars
    <2>2. UNCHANGED <<collector, supervisor>> /\ (cancelled => cancelled') /\ worker # "done"
      BY <1>4
      DEF WorkerStep, WorkerPeek, WorkerSend, WorkerMark, WorkerSynced, WorkerLook,
          WorkerWake, WorkerReturn, WorkerCancel, WorkerDone, WorkerOnly
    <2>3. /\ worker' = "joining" => cancelled'
          /\ worker' = "done" => worker = "joining" /\ collector = "done"
      BY <1>4
      DEF WorkerStep, WorkerPeek, WorkerSend, WorkerMark, WorkerSynced, WorkerLook,
          WorkerWake, WorkerReturn, WorkerCancel, WorkerDone, WorkerGoto, Classify
    <2> QED BY <1>1, <2>1, <2>2, <2>3
  <1>5. CASE CollectorStep
    BY <1>1, <1>5, WriterMoves
    DEF CollectorStep, CollectorTick, CollectorSynced, CollectorDone, CollectorUnchanged,
        FsyncDone, FsyncFailed, workerVars, inboxVars
  <1>6. CASE WorkerLost \/ Drained \/ Join \/ Signal \/ ListenFailed
    BY <1>1, <1>6, WriterMoves
    DEF WorkerLost, Drained, Join, Signal, ListenFailed, SupervisorUnchanged, workerVars,
        inboxVars
  <1>7. CASE SupervisorClose
    BY <1>1, <1>7, WriterMoves DEF SupervisorClose, SupervisorUnchanged, workerVars
  <1>8. CASE Exit \/ Crash
    BY <1>1, <1>8, WriterMoves DEF Exit, Crash, Gone
  <1>9. CASE Restart
    BY <1>1, <1>9, WriterMoves DEF Restart
  <1>10. CASE TimePasses \/ PagesWritten \/ UNCHANGED gatewayVars
    BY <1>1, <1>10, WriterMoves
    DEF TimePasses, PagesWritten, ProcessUnchanged, gatewayVars, workerVars, inboxVars
  <1> QED BY <1>2, <1>3, <1>4, <1>5, <1>6, <1>7, <1>8, <1>9, <1>10
      DEF GatewayNext, SupervisorStep

\* While the worker has a batch in flight, that batch is queued.
LEMMA InFlightQueued ==
    ASSUME GatewayInv, worker \in {"send", "delivered", "retry", "quarantined"}
    PROVE  /\ Running
           /\ head.key \in Keys /\ head.key \in Queued(db) /\ FifoHead(db) = head.key
           /\ db.batches[head.key] \in Batch
           /\ db.batches[head.key].digest = head.digest /\ head.digest \in Digests
           /\ db.batches[head.key].attempts = head.attempts
  <1>1. Running
    BY DEF GatewayInv, ShutdownInv, Running
  <1>2. Good(db)
    BY DEF GatewayInv, IInv, TypeOK, StoresConsistent, Good
  <1>3. /\ head.key \in Keys /\ FifoHead(db) = head.key
        /\ db.batches[head.key].digest = head.digest
        /\ db.batches[head.key].attempts = head.attempts
    BY <1>1 DEF GatewayInv, UploadsInv, InFlightIsHead
  <1>4. head.key \in Queued(db)
    BY <1>2, <1>3, HeadIsFirst, AbsentAssumption
  <1>5. db.batches[head.key] \in Batch
    BY <1>2, <1>3, <1>4, StoreFields DEF Good, Queued
  <1>6. head.digest \in Digests
    BY <1>3, <1>5 DEF Batch
  <1> QED BY <1>1, <1>3, <1>4, <1>5, <1>6

-----------------------------------------------------------------------------
(* Uploads and what the worker has in flight. *)

\* The clock does not go back.
LEMMA ClockGrows == TypeOK /\ [Next]_vars => clock' \in Time /\ 1..clock \subseteq 1..(clock')
  <1> SUFFICES ASSUME TypeOK, [Next]_vars
               PROVE  clock' \in Time /\ 1..clock \subseteq 1..(clock')
    OBVIOUS
  <1>1. clock' = clock \/ (clock < MaxTime /\ clock' = clock + 1)
    BY DEF Next, vars, Accept, AcceptDuplicate, MarkDelivered, MarkQuarantined, MarkRetry,
           ReplayQuarantined, CollectReceipts, ReplayAllQuarantined, Replay, Sync, SyncDone,
           SyncFailed, Close, Open, Kill, PowerLoss, Writeback, Tick, Commit
  <1> QED BY <1>1, BoundsAssumption DEF TypeOK, Time

\* A step that leaves the worker's batch and the handlers' uploads alone, or
\* drops some of the latter.
LEMMA UploadsKept ==
    ASSUME GatewayInv, [GatewayNext]_gatewayVars, received \subseteq received',
           \A h \in Handlers : handler'[h].pc # "idle" =>
               handler'[h].key \in Keys /\ handler'[h].digest \in Digests,
           \/ worker' \notin {"send", "delivered", "retry", "quarantined"}
           \/ worker' = worker /\ head' = head
    PROVE  UploadsInv'
  <1>1. 1..clock \subseteq 1..(clock')
    BY GatewayStepsInbox, ClockGrows DEF GatewayInv, IInv
  <1> QED BY <1>1 DEF GatewayInv, UploadsInv

\* A step keeps the uploads of the handlers and the batch of the worker.
LEMMA UploadsNext == GatewayInv /\ [GatewayNext]_gatewayVars => UploadsInv'
  <1> SUFFICES ASSUME GatewayInv, [GatewayNext]_gatewayVars PROVE UploadsInv'
    OBVIOUS
  <1> DEFINE HandlersKept == \A h \in Handlers : handler'[h].pc # "idle" =>
                                 handler'[h].key \in Keys /\ handler'[h].digest \in Digests
  <1>1. /\ UploadsInv
        /\ handler \in [Handlers -> [pc: HandlerPC, key: Keys \cup {Absent},
                                     digest: Digests \cup {Absent}]]
    BY DEF GatewayInv, GatewayTypeOK
  <1>2. handler' = handler => HandlersKept
    BY <1>1 DEF UploadsInv
  <1>3. ASSUME NEW h \in Handlers, NEW k \in Keys, NEW d \in Digests, HandlerReceive(h, k, d)
        PROVE  UploadsInv'
    <2>1. HandlersKept
      BY <1>1, <1>3 DEF HandlerReceive, UploadsInv
    <2> QED BY <1>3, <2>1, UploadsKept DEF HandlerReceive, OthersUnchanged, workerVars
  <1>4. ASSUME NEW h \in Handlers, HandlerStep(h) PROVE UploadsInv'
    <2>1. \A pc \in HandlerPC : handler[h].pc # "idle" /\ Goto(h, pc) => HandlersKept
      BY <1>1 DEF Goto, UploadsInv
    <2>2. Reply(h) => HandlersKept
      BY <1>1 DEF Reply, NoUpload, UploadsInv
    <2> HIDE DEF HandlersKept
    <2>3. HandlersKept
      BY <1>4, <2>1, <2>2
      DEF HandlerStep, HandlerAccept, HandlerDuplicate, HandlerRefused, HandlerSynced,
          HandlerSyncFailed, HandlerTrigger, HandlerPC
    <2>4. OthersUnchanged
      BY <1>4
      DEF HandlerStep, HandlerAccept, HandlerDuplicate, HandlerRefused, HandlerSynced,
          HandlerSyncFailed, HandlerTrigger
    <2> QED BY <2>3, <2>4, UploadsKept DEF OthersUnchanged, workerVars, HandlersKept
  <1>5. CASE HealthSync \/ HealthSynced
    BY <1>2, <1>5, UploadsKept DEF HealthSync, HealthSynced, OthersUnchanged, workerVars
  <1>6. CASE WorkerPeek
    <2>1. HandlersKept /\ clock' = clock /\ received' = received
      BY <1>2, <1>6 DEF WorkerPeek, WorkerOnly, inboxVars, vars
    <2>2. CASE PeekEligible(db, clock) = Absent
      BY <1>6, <2>1, <2>2, UploadsKept DEF WorkerPeek
    <2>3. CASE PeekEligible(db, clock) # Absent
      <3>1. Good(db) /\ clock \in Time \ {0}
        BY DEF GatewayInv, IInv, TypeOK, StoresConsistent, Good
      <3>2. head'.key \in Keys /\ head'.at = clock /\ worker' = "send"
        BY <1>6, <2>3, <3>1, PeekType DEF WorkerPeek
      <3>3. clock \in 1..clock
        BY <3>1, BoundsAssumption DEF Time
      <3> HIDE DEF HandlersKept
      <3>4. worker' # "delivered" /\ head'.at \in 1..(clock')
        BY <2>1, <3>2, <3>3
      <3> QED BY <2>1, <3>2, <3>4 DEF UploadsInv, HandlersKept
    <2> QED BY <2>2, <2>3
  <1>7. CASE WorkerSend
    <2>1. HandlersKept /\ clock' = clock /\ head' = head
      BY <1>2, <1>7 DEF WorkerSend, WorkerOnly, inboxVars, vars
    <2>2. worker = "send" /\ received \subseteq received'
      BY <1>7 DEF WorkerSend
    <2>3. worker' = "delivered" => <<head.key, head.digest>> \in received'
      BY <1>7 DEF WorkerSend, Classify
    <2> QED BY <1>1, <2>1, <2>2, <2>3 DEF UploadsInv
  <1>8. CASE WorkerMark \/ WorkerSynced
    BY <1>2, <1>8, UploadsKept DEF WorkerMark, WorkerSynced, WorkerGoto
  <1>9. CASE WorkerLook \/ WorkerWake \/ WorkerReturn \/ WorkerCancel \/ WorkerDone
    BY <1>2, <1>9, UploadsKept
    DEF WorkerLook, WorkerWake, WorkerReturn, WorkerCancel, WorkerDone, WorkerGoto, WorkerOnly
  <1>10. CASE CollectorStep
    BY <1>2, <1>10, UploadsKept
    DEF CollectorStep, CollectorTick, CollectorSynced, CollectorDone, CollectorUnchanged,
        workerVars
  <1>11. CASE WorkerLost \/ Drained \/ Join \/ SupervisorClose \/ Signal \/ ListenFailed
    BY <1>2, <1>11, UploadsKept
    DEF WorkerLost, Drained, Join, SupervisorClose, Signal, ListenFailed,
        SupervisorUnchanged, workerVars
  <1>12. CASE Exit \/ Crash
    <2>1. HandlersKept
      BY <1>12 DEF Exit, Crash, Gone, NoUpload
    <2> QED BY <1>12, <2>1, UploadsKept DEF Exit, Crash, Gone
  <1>13. CASE Restart
    BY <1>2, <1>13, UploadsKept DEF Restart
  <1>14. CASE TimePasses \/ PagesWritten \/ UNCHANGED gatewayVars
    BY <1>2, <1>14, UploadsKept
    DEF TimePasses, PagesWritten, ProcessUnchanged, gatewayVars, workerVars
  <1> QED BY <1>3, <1>4, <1>5, <1>6, <1>7, <1>8, <1>9, <1>10, <1>11, <1>12, <1>13, <1>14
      DEF GatewayNext, WorkerStep, SupervisorStep

\* Accept and garbage collection leave the head and the batches that are owed
\* where they are, as does whatever does not write the inbox.
QueueOnlyGrows ==
    \/ UNCHANGED db
    \/ \E k \in Keys, d \in Digests : Accept(k, d)
    \/ CollectReceipts

LEMMA QueueGrows ==
    ASSUME IInv, QueueOnlyGrows
    PROVE  /\ HeadKept(db, db')
           /\ \A a \in owned : a[1] \in Queued(db') => a[1] \in Queued(db)
  <1>1. Good(db) /\ clock \in Time \ {0} /\ OwnershipInv /\ TypeOK
    BY DEF IInv, TypeOK, StoresConsistent, Good
  <1>2. CASE UNCHANGED db
    BY <1>2 DEF HeadKept
  <1>3. ASSUME NEW k \in Keys, NEW d \in Digests, Accept(k, d)
        PROVE  /\ HeadKept(db, db')
               /\ \A a \in owned : a[1] \in Queued(db') => a[1] \in Queued(db)
    <2>1. /\ AcceptOutcome(db, k, d) = "accepted" /\ db.seq < MaxSeq
          /\ db' = AcceptTx(db, k, d, clock)
      BY <1>3 DEF Accept, Commit
    <2>2. HeadKept(db, db') /\ Queued(db') \subseteq Queued(db) \cup {k}
      BY <1>1, <2>1, AcceptKeepsHead
    <2>3. \A e \in Digests : ~Holds(db, k, e)
      BY <1>1, <2>1, AcceptTxHolds
    <2>4. \A a \in owned : a[1] # k
      BY <1>1, <2>3 DEF OwnershipInv, TypeOK
    <2> QED BY <2>2, <2>4
  <1>4. CASE CollectReceipts
    <2> DEFINE tx == CollectTx(db, clock)
    <2>1. db' = tx
      BY <1>4 DEF CollectReceipts, Commit
    <2>2. Good(tx) /\ tx.batches = db.batches
      BY <1>1, CollectTxGood
    <2> HIDE DEF tx
    <2>3. FifoHead(tx) = FifoHead(db) /\ Queued(tx) = Queued(db)
      BY <1>1, <2>2, SameBatchesSameHead DEF Queued
    <2> QED BY <2>1, <2>2, <2>3 DEF HeadKept
  <1> QED BY <1>2, <1>3, <1>4 DEF QueueOnlyGrows

\* The steps of the gateway that write the inbox otherwise: the worker's Mark
\* calls and a power loss.
LEMMA WritersOfTheQueue ==
    GatewayInv /\ [GatewayNext]_gatewayVars => QueueOnlyGrows \/ WorkerMark \/ Crash
  <1> SUFFICES ASSUME GatewayInv, [GatewayNext]_gatewayVars, ~WorkerMark, ~Crash
               PROVE  QueueOnlyGrows
    OBVIOUS
  <1> USE DEF QueueOnlyGrows
  <1>1. ASSUME NEW h \in Handlers, HandlerStep(h) PROVE QueueOnlyGrows
    <2>1. CASE HandlerAccept(h)
      <3>1. handler[h].key \in Keys /\ handler[h].digest \in Digests
        BY <2>1 DEF HandlerAccept, GatewayInv, UploadsInv
      <3> QED BY <2>1, <3>1 DEF HandlerAccept
    <2>2. ASSUME HandlerDuplicate(h) \/ HandlerRefused(h) \/ HandlerSynced(h)
                 \/ HandlerSyncFailed(h) \/ HandlerTrigger(h)
          PROVE  UNCHANGED db
      BY <2>2
      DEF HandlerDuplicate, HandlerRefused, HandlerSynced, HandlerSyncFailed, HandlerTrigger,
          FsyncDone, FsyncFailed, SyncDone, SyncFailed, AcceptDuplicate, inboxVars, vars
    <2> QED BY <1>1, <2>1, <2>2 DEF HandlerStep
  <1>2. CASE (\E h \in Handlers, k \in Keys, d \in Digests : HandlerReceive(h, k, d))
             \/ HealthSync \/ HealthSynced
    BY <1>2
    DEF HandlerReceive, HealthSync, HealthSynced, FsyncDone, FsyncFailed, SyncDone,
        SyncFailed, Sync, Commit, inboxVars, vars
  <1>3. CASE WorkerStep
    BY <1>3
    DEF WorkerStep, WorkerPeek, WorkerSend, WorkerSynced, WorkerLook, WorkerWake, WorkerReturn,
        WorkerCancel, WorkerDone, FsyncDone, FsyncFailed, SyncDone, SyncFailed, WorkerOnly,
        inboxVars, vars
  <1>4. CASE CollectorStep
    BY <1>4
    DEF CollectorStep, CollectorTick, CollectorSynced, CollectorDone, FsyncDone, FsyncFailed,
        SyncDone, SyncFailed, inboxVars, vars
  <1>5. CASE SupervisorStep \/ Signal \/ ListenFailed
    BY <1>5
    DEF SupervisorStep, WorkerLost, Drained, Join, SupervisorClose, Exit, Signal,
        ListenFailed, SyncDone, SyncFailed, Close, inboxVars, vars
  <1>6. CASE Restart \/ TimePasses \/ PagesWritten \/ UNCHANGED gatewayVars
    BY <1>6
    DEF Restart, TimePasses, PagesWritten, Open, Tick, Writeback, gatewayVars, inboxVars, vars
  <1> QED BY <1>1, <1>2, <1>3, <1>4, <1>5, <1>6 DEF GatewayNext

\* Apart from the worker's own, no step touches what the worker has in flight.
LEMMA OthersLeaveHead ==
    GatewayInv /\ [GatewayNext]_gatewayVars =>
        \/ WorkerPeek \/ WorkerSend
        \/ worker' \notin {"send", "delivered", "retry", "quarantined"}
        \/ worker' = worker /\ head' = head /\ QueueOnlyGrows
  <1> SUFFICES ASSUME GatewayInv, [GatewayNext]_gatewayVars, ~WorkerPeek, ~WorkerSend,
                      ~(worker' = worker /\ head' = head /\ QueueOnlyGrows)
               PROVE  worker' \notin {"send", "delivered", "retry", "quarantined"}
    OBVIOUS
  <1>1. CASE WorkerMark \/ Crash
    BY <1>1 DEF WorkerMark, WorkerGoto, Crash, Gone
  <1>2. ASSUME NEW h \in Handlers, HandlerStep(h) PROVE worker' = worker /\ head' = head
    BY <1>2
    DEF HandlerStep, HandlerAccept, HandlerDuplicate, HandlerRefused, HandlerSynced,
        HandlerSyncFailed, HandlerTrigger, OthersUnchanged, workerVars
  <1>3. ASSUME (\E h \in Handlers, k \in Keys, d \in Digests : HandlerReceive(h, k, d))
               \/ HealthSync \/ HealthSynced \/ CollectorStep
        PROVE  worker' = worker /\ head' = head
    BY <1>3
    DEF HandlerReceive, HealthSync, HealthSynced, OthersUnchanged, CollectorStep,
        CollectorTick, CollectorSynced, CollectorDone, CollectorUnchanged, workerVars
  <1>4. CASE WorkerStep
    BY <1>1, <1>4
    DEF WorkerStep, WorkerSynced, WorkerLook, WorkerWake, WorkerReturn, WorkerCancel,
        WorkerDone, WorkerGoto
  <1>5. ASSUME WorkerLost \/ Drained \/ Join \/ SupervisorClose \/ Signal \/ ListenFailed
        PROVE  worker' = worker /\ head' = head
    BY <1>5
    DEF WorkerLost, Drained, Join, SupervisorClose, Signal, ListenFailed,
        SupervisorUnchanged, workerVars
  <1>6. CASE Exit \/ Restart
    BY <1>6 DEF Exit, Gone, Restart
  <1>7. ASSUME TimePasses \/ PagesWritten \/ UNCHANGED gatewayVars
        PROVE  worker' = worker /\ head' = head
    BY <1>7 DEF TimePasses, PagesWritten, ProcessUnchanged, gatewayVars, workerVars
  <1> QED BY <1>1, <1>2, <1>3, <1>4, <1>5, <1>6, <1>7, WritersOfTheQueue
      DEF GatewayNext, SupervisorStep

\* A step keeps the batch in flight the queued head.
LEMMA InFlightNext == GatewayInv /\ [GatewayNext]_gatewayVars => InFlightIsHead'
  <1> SUFFICES ASSUME GatewayInv, [GatewayNext]_gatewayVars,
                      (worker \in {"send", "delivered", "retry", "quarantined"})'
               PROVE  /\ FifoHead(db') = head'.key
                      /\ db'.batches[head'.key].digest = head'.digest
                      /\ db'.batches[head'.key].attempts = head'.attempts
    BY DEF InFlightIsHead
  <1>1. CASE WorkerPeek
    <2>1. db' = db /\ Good(db) /\ clock \in Time
      BY <1>1 DEF WorkerPeek, WorkerOnly, inboxVars, vars, GatewayInv, IInv, TypeOK,
                  StoresConsistent, Good
    <2>2. PeekEligible(db, clock) # Absent
      BY <1>1 DEF WorkerPeek
    <2> QED BY <1>1, <2>1, <2>2, PeekType DEF WorkerPeek
  <1>2. CASE WorkerSend
    BY <1>2, InFlightQueued DEF WorkerSend, WorkerOnly, inboxVars, vars
  <1>3. ASSUME worker' = worker, head' = head, QueueOnlyGrows
        PROVE  /\ FifoHead(db') = head'.key
               /\ db'.batches[head'.key].digest = head'.digest
               /\ db'.batches[head'.key].attempts = head'.attempts
    <2>1. HeadKept(db, db')
      BY <1>3, QueueGrows DEF GatewayInv
    <2> QED BY <1>3, <2>1, InFlightQueued DEF HeadKept
  <1> QED BY <1>1, <1>2, <1>3, OthersLeaveHead

-----------------------------------------------------------------------------
(* Deliveries. *)

\* The receipts of s that say delivered tell the truth.
Truthful(s, known) ==
    \A k \in Keys : s.receipts[k] # Absent /\ s.receipts[k].state = "delivered" =>
        <<k, s.receipts[k].digest>> \in known

\* Truth does not change as more is received.
LEMMA TruthGrows ==
    ASSUME NEW s, NEW known, NEW more, known \subseteq more, Truthful(s, known)
    PROVE  Truthful(s, more)
  BY DEF Truthful

\* A new receipt is pending.
LEMMA AcceptTruthful ==
    ASSUME NEW s, Good(s), NEW k \in Keys, NEW d \in Digests, NEW now, NEW known,
           Truthful(s, known)
    PROVE  Truthful(AcceptTx(s, k, d, now), known)
  <1> DEFINE t == AcceptTx(s, k, d, now)
             r == [digest |-> d, state |-> "pending", acceptedAt |-> now, completedAt |-> 0]
  <1>1. \A j \in Keys : t.receipts[j] = IF j = k THEN r ELSE s.receipts[j]
    BY StoreFields DEF Good, AcceptTx
  <1>2. r.state # "delivered"
    OBVIOUS
  <1> HIDE DEF t, r
  <1> QED BY <1>1, <1>2 DEF Truthful, t

\* From s to t the receipt of k is completed.
Completes(s, t, k, state, at) ==
    t.receipts = [s.receipts EXCEPT ![k] = Completed(s.receipts[k], state, at)]

\* A completed receipt keeps its digest.
LEMMA CompleteTruthful ==
    ASSUME NEW s, Good(s), NEW t, NEW k \in Queued(s), NEW state, NEW at, NEW known,
           Completes(s, t, k, state, at),
           state = "delivered" => <<k, s.batches[k].digest>> \in known,
           Truthful(s, known)
    PROVE  Truthful(t, known)
  <1>1. /\ s.receipts \in [Keys -> Receipt \cup {Absent}]
        /\ k \in Keys /\ s.receipts[k] # Absent /\ s.receipts[k].digest = s.batches[k].digest
    BY StoreFields DEF Good, Consistent, PendingIffQueued, PayloadMatchesReceipt, Queued
  <1>2. \A j \in Keys :
            t.receipts[j] = IF j = k THEN Completed(s.receipts[k], state, at) ELSE s.receipts[j]
    BY <1>1 DEF Completes
  <1>3. /\ Completed(s.receipts[k], state, at).state = state
        /\ Completed(s.receipts[k], state, at).digest = s.batches[k].digest
    BY <1>1 DEF Completed, Receipt
  <1> QED BY <1>2, <1>3 DEF Truthful

\* Collection forgets receipts and changes none.
LEMMA CollectTruthful ==
    ASSUME NEW s, NEW now, NEW known, Truthful(s, known)
    PROVE  Truthful(CollectTx(s, now), known)
  <1> DEFINE t == CollectTx(s, now)
  <1>1. \A k \in Keys : t.receipts[k] = Absent \/ t.receipts[k] = s.receipts[k]
    BY DEF CollectTx
  <1> HIDE DEF t
  <1> QED BY <1>1 DEF Truthful, t

\* What the gateway writes to the inbox, and what the disk gets, tells the
\* truth about deliveries.
LEMMA DeliveredNext == GatewayInv /\ [GatewayNext]_gatewayVars => DeliveredWasReceived'
  <1> SUFFICES ASSUME GatewayInv, [GatewayNext]_gatewayVars
               PROVE  Truthful(db', received') /\ Truthful(disk', received')
    BY DEF Truthful, DeliveredWasReceived
  <1>1. Good(db) /\ Truthful(db, received) /\ Truthful(disk, received)
    BY DEF GatewayInv, IInv, TypeOK, StoresConsistent, Good, DeliveredWasReceived, Truthful
  <1>2. received \subseteq received'
    <2>1. \A h \in Handlers : HandlerStep(h) => received' = received
      BY DEF HandlerStep, HandlerAccept, HandlerDuplicate, HandlerRefused, HandlerSynced,
             HandlerSyncFailed, HandlerTrigger, OthersUnchanged
    <2>2. (\E h \in Handlers, k \in Keys, d \in Digests : HandlerReceive(h, k, d))
          \/ HealthSync \/ HealthSynced => received' = received
      BY DEF HandlerReceive, HealthSync, HealthSynced, OthersUnchanged
    <2>3. WorkerStep => received \subseteq received'
      BY DEF WorkerStep, WorkerPeek, WorkerSend, WorkerMark, WorkerSynced, WorkerLook,
             WorkerWake, WorkerReturn, WorkerCancel, WorkerDone
    <2>4. CollectorStep \/ SupervisorStep \/ Signal \/ ListenFailed => received' = received
      BY DEF CollectorStep, CollectorTick, CollectorSynced, CollectorDone,
             CollectorUnchanged, SupervisorStep, WorkerLost, Drained, Join,
             SupervisorClose, Exit, Gone, Signal, ListenFailed, SupervisorUnchanged
    <2>5. Crash \/ Restart \/ TimePasses \/ PagesWritten \/ UNCHANGED gatewayVars =>
              received' = received
      BY DEF Crash, Gone, Restart, TimePasses, PagesWritten, ProcessUnchanged, gatewayVars
    <2> QED BY <2>1, <2>2, <2>3, <2>4, <2>5 DEF GatewayNext
  <1>3. disk' = disk \/ disk' = db
    <2>1. [Next]_vars
      BY GatewayStepsInbox
    <2> QED BY <2>1
        DEF Next, vars, Accept, AcceptDuplicate, MarkDelivered, MarkQuarantined, MarkRetry,
            ReplayQuarantined, CollectReceipts, ReplayAllQuarantined, Replay, Sync,
            SyncDone, SyncFailed, Close, Open, Kill, PowerLoss, Writeback, Tick, Commit
  <1>4. Truthful(db', received)
    <2>1. ASSUME NEW k \in Keys, NEW d \in Digests, Accept(k, d)
          PROVE  Truthful(db', received)
      BY <1>1, <2>1, AcceptTruthful DEF Accept, Commit
    <2>2. CASE CollectReceipts
      BY <1>1, <2>2, CollectTruthful DEF CollectReceipts, Commit
    <2>3. CASE Crash
      BY <1>1, <2>3 DEF Crash, Kill, PowerLoss
    <2>4. CASE WorkerMark
      <3>1. worker \in {"delivered", "quarantined", "retry"}
        BY <2>4 DEF WorkerMark
      <3>2. head.key \in Queued(db) /\ db.batches[head.key].digest = head.digest
        BY <3>1, InFlightQueued
      <3>3. CASE worker = "delivered" /\ MarkDelivered(head.key, head.at)
        <4>1. <<head.key, head.digest>> \in received
          BY <3>3 DEF GatewayInv, UploadsInv
        <4>2. db' = DeliveredTx(db, head.key, head.at)
          BY <3>3 DEF MarkDelivered, Commit
        <4>3. Completes(db, db', head.key, "delivered", head.at)
          BY <4>2 DEF DeliveredTx, Completes
        <4> QED BY <1>1, <3>2, <4>1, <4>3, CompleteTruthful
      <3>4. CASE MarkQuarantined(head.key, head.at)
        <4>1. db' = QuarantinedTx(db, head.key, head.at)
          BY <3>4 DEF MarkQuarantined, Commit
        <4>2. Completes(db, db', head.key, "quarantined", head.at)
          BY <4>1 DEF QuarantinedTx, Completes
        <4> QED BY <1>1, <3>2, <4>2, CompleteTruthful
      <3>5. ASSUME NEW at \in RetryTimes, MarkRetry(head.key, at)
            PROVE  Truthful(db', received)
        <4>1. db'.receipts = db.receipts
          BY <1>1, <3>5 DEF MarkRetry, Commit, RetryTx, Good, Store
        <4> QED BY <1>1, <4>1 DEF Truthful
      <3> QED BY <2>4, <3>3, <3>4, <3>5 DEF WorkerMark
    <2> QED BY <1>1, <2>1, <2>2, <2>3, <2>4, WritersOfTheQueue DEF QueueOnlyGrows
  <1> QED BY <1>1, <1>2, <1>3, <1>4, TruthGrows

-----------------------------------------------------------------------------
(* Wakeups. *)

\* Only the end of an fsync adds to what is owed: what it acknowledges.
LEMMA OwnedMoves ==
    /\ \A k \in Keys, d \in Digests : Accept(k, d) \/ AcceptDuplicate(k, d) => owned' \subseteq owned
    /\ CollectReceipts \/ Sync \/ Close => owned' \subseteq owned
    /\ SyncDone => owned' = owned \cup writer.grants
    /\ SyncFailed \/ Open \/ Writeback \/ Tick \/ UNCHANGED vars => owned' = owned
  BY DEF Accept, AcceptDuplicate, CollectReceipts, Sync, Close, SyncDone, SyncFailed, Open,
         Writeback, Tick, vars, Commit

\* A step of another goroutine than the worker leaves the worker covered if
\* no wakeup is lost and nothing comes to be owed without one.
LEMMA WakeupKept ==
    ASSUME GatewayInv, QueueOnlyGrows, UNCHANGED <<worker, nextRetry>>, cancelled => cancelled',
           WakeupDue => WakeupDue', owned' \subseteq owned \/ WakeupDue'
    PROVE  WakeupInv'
  <1> SUFFICES ASSUME ~WakeupDue', OwedQueued', ~cancelled'
               PROVE  /\ worker' = "look" => NextRetryAt(db') # 0
                      /\ ~(worker' = "wait" /\ nextRetry' = 0)
    BY DEF WakeupInv
  <1>1. WakeupInv /\ IInv
    BY DEF GatewayInv
  <1>2. /\ HeadKept(db, db')
        /\ \A a \in owned : a[1] \in Queued(db') => a[1] \in Queued(db)
    BY <1>1, QueueGrows
  <1>3. OwedQueued /\ ~WakeupDue /\ ~cancelled
    BY <1>2 DEF OwedQueued
  <1>4. Queued(db) # {}
    BY <1>3 DEF OwedQueued
  <1>5. NextRetryAt(db') = NextRetryAt(db)
    BY <1>2, <1>4 DEF HeadKept, NextRetryAt
  <1> QED BY <1>1, <1>3, <1>5 DEF WakeupInv

\* No step of the gateway puts the worker to sleep on a batch it owes.
LEMMA WakeupNext == GatewayInv /\ [GatewayNext]_gatewayVars => WakeupInv'
  <1> SUFFICES ASSUME GatewayInv, [GatewayNext]_gatewayVars PROVE WakeupInv'
    OBVIOUS
  <1>1. /\ WakeupInv /\ LockInv /\ UploadsInv /\ Good(db) /\ clock \in Time \ {0}
        /\ handler \in [Handlers -> [pc: HandlerPC, key: Keys \cup {Absent},
                                     digest: Digests \cup {Absent}]]
    BY DEF GatewayInv, GatewayTypeOK, IInv, TypeOK, StoresConsistent, Good
  <1>2. ~WorkerMark /\ ~Crash => QueueOnlyGrows
    BY WritersOfTheQueue
  <1>3. worker' \notin {"look", "wait"} => WakeupInv'
    BY DEF WakeupInv
  <1>4. ASSUME handler' = handler, trigger' = trigger PROVE WakeupDue => WakeupDue'
    BY <1>4 DEF WakeupDue
  <1>5. ASSUME NEW h \in Handlers, NEW k \in Keys, NEW d \in Digests, HandlerReceive(h, k, d)
        PROVE  WakeupInv'
    <2>1. WakeupDue => WakeupDue'
      BY <1>1, <1>5 DEF HandlerReceive, WakeupDue
    <2>2. QueueOnlyGrows /\ owned' = owned
      BY <1>5, OwnedMoves DEF HandlerReceive, QueueOnlyGrows, inboxVars, vars
    <2> QED BY <1>5, <2>1, <2>2, WakeupKept DEF HandlerReceive, OthersUnchanged, workerVars
  <1>6. ASSUME NEW h \in Handlers, HandlerStep(h) PROVE WakeupInv'
    <2>1. OthersUnchanged /\ QueueOnlyGrows
      <3>1. OthersUnchanged
        BY <1>6
        DEF HandlerStep, HandlerAccept, HandlerDuplicate, HandlerRefused, HandlerSynced,
            HandlerSyncFailed, HandlerTrigger
      <3>2. CASE HandlerAccept(h)
        <4>1. handler[h].key \in Keys /\ handler[h].digest \in Digests
          BY <1>1, <3>2 DEF HandlerAccept, UploadsInv
        <4> QED BY <3>1, <3>2, <4>1 DEF HandlerAccept, QueueOnlyGrows
      <3>3. CASE ~HandlerAccept(h)
        BY <1>6, <3>1, <3>3
        DEF HandlerStep, HandlerDuplicate, HandlerRefused, HandlerSynced, HandlerSyncFailed,
            HandlerTrigger, FsyncDone, FsyncFailed, SyncDone, SyncFailed, AcceptDuplicate,
            inboxVars, vars, QueueOnlyGrows
      <3> QED BY <3>2, <3>3
    <2>2. WakeupDue => WakeupDue'
      BY <1>1, <1>6
      DEF HandlerStep, HandlerAccept, HandlerDuplicate, HandlerRefused, HandlerSynced,
          HandlerSyncFailed, HandlerTrigger, Goto, Reply, WakeupDue
    <2>3. owned' \subseteq owned \/ WakeupDue'
      <3>1. CASE HandlerSynced(h)
        BY <1>1, <3>1 DEF HandlerSynced, Goto, WakeupDue
      <3>2. CASE HandlerAccept(h) \/ HandlerDuplicate(h)
        <4>1. handler[h].key \in Keys /\ handler[h].digest \in Digests
          BY <1>1, <3>2 DEF HandlerAccept, HandlerDuplicate, UploadsInv
        <4> QED BY <3>2, <4>1, OwnedMoves DEF HandlerAccept, HandlerDuplicate
      <3>3. CASE HandlerRefused(h) \/ HandlerSyncFailed(h) \/ HandlerTrigger(h)
        BY <3>3, OwnedMoves
        DEF HandlerRefused, HandlerSyncFailed, HandlerTrigger, FsyncFailed, inboxVars
      <3> QED BY <1>6, <3>1, <3>2, <3>3 DEF HandlerStep
    <2> QED BY <2>1, <2>2, <2>3, WakeupKept DEF OthersUnchanged, workerVars
  <1>7. CASE HealthSync \/ HealthSynced
    <2>1. owned' \subseteq owned
      <3>1. holder = "health" => writer.grants = {}
        BY <1>1, GatewayAssumption DEF LockInv
      <3> QED BY <1>7, <3>1, OwnedMoves
          DEF HealthSync, HealthSynced, FsyncDone, FsyncFailed, Releases
    <2>2. QueueOnlyGrows
      BY <1>7 DEF HealthSync, HealthSynced, FsyncDone, FsyncFailed, Sync, SyncDone,
                  SyncFailed, Commit, QueueOnlyGrows
    <2> QED BY <1>4, <1>7, <2>1, <2>2, WakeupKept
        DEF HealthSync, HealthSynced, OthersUnchanged, workerVars
  <1>8. CASE WorkerPeek
    <2>1. db' = db /\ owned' = owned
      BY <1>8 DEF WorkerPeek, WorkerOnly, inboxVars, vars
    <2>2. ASSUME PeekEligible(db, clock) = Absent, OwedQueued PROVE NextRetryAt(db) # 0
      <3>1. Queued(db) # {}
        BY <2>2 DEF OwedQueued
      <3>2. FifoHead(db) \in Queued(db) /\ FifoHead(db) # Absent
        BY <1>1, <3>1, HeadIsFirst, AbsentAssumption DEF Queued
      <3>3. ~(db.batches[FifoHead(db)].nextRetry <= clock)
        BY <2>2, <3>2 DEF PeekEligible
      <3>4. db.batches[FifoHead(db)].nextRetry \in Time
        BY <1>1, <3>2, StoreFields DEF Good, Queued, Batch
      <3> QED BY <1>1, <3>2, <3>3, <3>4, BoundsAssumption DEF NextRetryAt, Time
    <2>3. \/ worker' = "look" /\ PeekEligible(db, clock) = Absent
          \/ worker' = "send"
      BY <1>8 DEF WorkerPeek
    <2> QED BY <1>3, <2>1, <2>2, <2>3 DEF WakeupInv, OwedQueued
  <1>9. CASE WorkerLook
    BY <1>1, <1>4, <1>9 DEF WorkerLook, WorkerOnly, inboxVars, vars, WakeupInv, OwedQueued
  <1>10. ASSUME WorkerSend \/ WorkerMark \/ WorkerSynced \/ WorkerWake \/ WorkerReturn
                \/ WorkerCancel \/ WorkerDone
         PROVE  WakeupInv'
    BY <1>3, <1>10
    DEF WorkerSend, WorkerMark, WorkerSynced, WorkerWake, WorkerReturn, WorkerCancel,
        WorkerDone, WorkerGoto, Classify
  <1>11. CASE CollectorStep
    <2>1. owned' \subseteq owned
      <3>1. holder = "collector" => writer.grants = {}
        BY <1>1, GatewayAssumption DEF LockInv
      <3> QED BY <1>11, <3>1, OwnedMoves
          DEF CollectorStep, CollectorTick, CollectorSynced, CollectorDone, FsyncDone,
              FsyncFailed, Releases, inboxVars
    <2>2. QueueOnlyGrows
      BY <1>11
      DEF CollectorStep, CollectorTick, CollectorSynced, CollectorDone, FsyncDone,
          FsyncFailed, SyncDone, SyncFailed, inboxVars, vars, QueueOnlyGrows
    <2> QED BY <1>4, <1>11, <2>1, <2>2, WakeupKept
        DEF CollectorStep, CollectorTick, CollectorSynced, CollectorDone, CollectorUnchanged,
            workerVars
  <1>12. CASE WorkerLost \/ Drained \/ Join \/ SupervisorClose \/ Signal \/ ListenFailed
    <2>1. owned' \subseteq owned
      BY <1>12, OwnedMoves
      DEF WorkerLost, Drained, Join, SupervisorClose, Signal, ListenFailed, inboxVars
    <2>2. QueueOnlyGrows
      BY <1>12
      DEF WorkerLost, Drained, Join, SupervisorClose, Signal, ListenFailed, Close,
          inboxVars, vars, QueueOnlyGrows
    <2>3. UNCHANGED <<worker, nextRetry, handler, trigger>> /\ (cancelled => cancelled')
      BY <1>12
      DEF WorkerLost, Drained, Join, SupervisorClose, Signal, ListenFailed,
          SupervisorUnchanged, workerVars
    <2> QED BY <1>4, <2>1, <2>2, <2>3, WakeupKept
  <1>13. CASE Exit \/ Crash \/ Restart
    BY <1>3, <1>13 DEF Exit, Crash, Gone, Restart
  <1>14. CASE TimePasses \/ PagesWritten \/ UNCHANGED gatewayVars
    <2>1. UNCHANGED <<worker, nextRetry, handler, trigger, cancelled>>
      BY <1>14 DEF TimePasses, PagesWritten, ProcessUnchanged, gatewayVars, workerVars
    <2>2. db' = db /\ owned' = owned
      BY <1>14 DEF TimePasses, PagesWritten, Tick, Writeback, gatewayVars, inboxVars, vars
    <2> QED BY <1>4, <2>1, <2>2, WakeupKept DEF QueueOnlyGrows
  <1> QED BY <1>5, <1>6, <1>7, <1>8, <1>9, <1>10, <1>11, <1>12, <1>13, <1>14
      DEF GatewayNext, WorkerStep, SupervisorStep

-----------------------------------------------------------------------------
(* What holds of the gateway. *)

\* The invariant holds when the gateway starts on a new inbox.
LEMMA GatewayInitInv == GatewayInit => GatewayInv
  <1> SUFFICES ASSUME GatewayInit PROVE GatewayInv
    OBVIOUS
  <1>1. IInv
    BY InitInv DEF GatewayInit
  <1>2. GatewayTypeOK
    <2>1. handler \in [Handlers -> [pc: HandlerPC, key: Keys \cup {Absent},
                                    digest: Digests \cup {Absent}]]
      BY DEF GatewayInit, NoUpload, HandlerPC
    <2>2. /\ head \in [key: Keys \cup {Absent}, digest: Digests \cup {Absent},
                       attempts: 0..MaxAttempts, at: Time]
          /\ nextRetry \in Time /\ faults \in 0..MaxFaults
      BY BoundsAssumption, GatewayAssumption DEF GatewayInit, NoHead, Time
    <2> QED BY <1>1, <2>1, <2>2 DEF GatewayInit, GatewayTypeOK, IInv, WorkerPC, SupervisorPC
  <1>3. LockInv
    BY GatewayAssumption DEF GatewayInit, Init, LockInv, Idle, NoUpload, Callers
  <1>4. ShutdownInv /\ UploadsInv /\ WakeupInv
    BY DEF GatewayInit, Init, ShutdownInv, UploadsInv, WakeupInv, NoUpload
  <1>5. InFlightIsHead /\ DeliveredWasReceived
    BY DEF GatewayInit, Init, InFlightIsHead, DeliveredWasReceived, EmptyStore
  <1> QED BY <1>1, <1>2, <1>3, <1>4, <1>5 DEF GatewayInv

\* Every step of the gateway preserves the invariant.
LEMMA GatewayNextInv == GatewayInv /\ [GatewayNext]_gatewayVars => GatewayInv'
  <1>1. GatewayInv /\ [GatewayNext]_gatewayVars => IInv'
    BY GatewayStepsInbox, NextInv DEF GatewayInv
  <1> QED BY <1>1, GatewayTypeNext, LockNext, ShutdownNext, UploadsNext, InFlightNext,
             DeliveredNext, WakeupNext DEF GatewayInv

\* The state of the gateway has its type in every reachable state.
THEOREM GatewayTypeCorrect == GatewaySpec => []GatewayTypeOK
  <1>1. GatewayInv => GatewayTypeOK
    BY DEF GatewayInv
  <1> QED BY <1>1, GatewayInitInv, GatewayNextInv, PTL DEF GatewaySpec

\* The batch that the worker sends and then marks is the queued head, as it
\* was when the worker read it: no upload, collection or fault gets between
\* PeekEligible and the Mark call, which is not under one lock.
THEOREM InFlightStaysHead == GatewaySpec => []InFlightIsHead
  <1>1. GatewayInv => InFlightIsHead
    BY DEF GatewayInv
  <1> QED BY <1>1, GatewayInitInv, GatewayNextInv, PTL DEF GatewaySpec

\* No receipt, committed or left by a crash, says delivered of a payload that
\* the upstream has not answered with a 2xx.
THEOREM DeliveredIsTrue == GatewaySpec => []DeliveredWasReceived
  <1>1. GatewayInv => DeliveredWasReceived
    BY DEF GatewayInv
  <1> QED BY <1>1, GatewayInitInv, GatewayNextInv, PTL DEF GatewaySpec

\* The worker never sleeps without a timer on a batch that is owed, unless a
\* wakeup is in the channel or a handler is about to send it.
THEOREM WakeupsArrive == GatewaySpec => []NoLostWakeup
  <1>1. GatewayInv => NoLostWakeup
    BY DEF GatewayInv, WakeupInv, WakeupDue, OwedQueued, NoLostWakeup
  <1> QED BY <1>1, GatewayInitInv, GatewayNextInv, PTL DEF GatewaySpec

\* In a running process the store is closed only after the worker and the
\* collector have ended: neither meets a closed store in the middle of its work.
THEOREM CloseComesLast ==
    GatewaySpec => [](Running /\ ~open => worker = "done" /\ collector = "done")
  <1>1. GatewayInv => (Running /\ ~open => worker = "done" /\ collector = "done")
    BY DEF GatewayInv, ShutdownInv, Running
  <1> QED BY <1>1, GatewayInitInv, GatewayNextInv, PTL DEF GatewaySpec

\* The gateway uses the inbox as the inbox expects: its behaviours are
\* behaviours of the inbox under arbitrary callers.
THEOREM GatewayRunsInbox == GatewaySpec => Spec
  <1>1. GatewayInit => Init
    BY DEF GatewayInit
  <1> QED BY <1>1, GatewayInitInv, GatewayNextInv, GatewayStepsInbox, PTL
      DEF GatewaySpec, Spec

\* So the promises of the inbox are kept by the running gateway: acknowledged
\* batches survive every crash, what it shows is the ledger of what it has
\* acknowledged, and order, retention and eviction are as promised.
THEOREM GatewayKeepsPromises ==
    GatewaySpec => /\ []StoresConsistent /\ []AcceptedSurvivesPowerLoss
                   /\ ImplementsLedger
                   /\ QueueOrderStable /\ ReceiptsOutliveRetention /\ EvictionKeepsNewest
  BY GatewayRunsInbox, StoresStayConsistent, AcceptedIsDurable, InboxImplementsLedger,
     QueueKeepsOrder, ReceiptsLast, EvictionFollowsNumbers, PTL
=============================================================================
