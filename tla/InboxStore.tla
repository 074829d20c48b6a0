----------------------------- MODULE InboxStore -----------------------------
(***************************************************************************)
(* The data of the durable trace inbox and its transactions: one operator  *)
(* per bbolt transaction of internal/inbox/store.go, from a store value    *)
(* to the store value it commits.  A store value is the content of the     *)
(* five buckets.  An absent entry of a bucket is the value Absent.         *)
(*                                                                         *)
(* A payload is abstracted to its digest: two uploads of one batch differ  *)
(* exactly when their digests do.  Time is a small clock that starts at 1, *)
(* and 0 is Go's zero time.                                                *)
(***************************************************************************)
EXTENDS Integers, FiniteSets

CONSTANTS
    Keys,                 \* receipt keys: account_id and batch_id
    Digests,              \* payload digests
    Absent,               \* the missing entry of a bucket
    MaxSeq,               \* bound: sequence numbers the inbox hands out
    MaxAttempts,          \* bound: delivery attempts counted for one batch
    MaxTime,              \* bound: the largest clock value
    ReceiptRetention,     \* Options.ReceiptRetention
    QuarantineRetention,  \* Options.QuarantineRetention
    MaxQuarantineEntries  \* Options.MaxQuarantineEntries

Seqs == 1..MaxSeq
Time == 0..MaxTime

Batch == [digest: Digests, seq: Seqs, acceptedAt: Time,
          attempts: 0..MaxAttempts, nextRetry: Time]

ReceiptState == {"pending", "delivered", "quarantined"}
Receipt == [digest: Digests, state: ReceiptState,
            acceptedAt: Time, completedAt: Time]

ASSUME KeysAssumption == IsFiniteSet(Keys)
ASSUME AbsentAssumption == Absent \notin Keys \cup Batch \cup Receipt
ASSUME BoundsAssumption ==
    /\ MaxSeq \in Nat /\ MaxAttempts \in Nat /\ MaxTime \in Nat \ {0}
ASSUME OptionsAssumption ==
    /\ ReceiptRetention \in Nat \ {0} /\ QuarantineRetention \in Nat \ {0}
    /\ MaxQuarantineEntries \in Nat \ {0}

Store == [seq: 0..MaxSeq,
          batches: [Keys -> Batch \cup {Absent}],
          fifo: [Seqs -> Keys \cup {Absent}],
          receipts: [Keys -> Receipt \cup {Absent}],
          quarantine: [Keys -> Batch \cup {Absent}]]

EmptyStore == [seq |-> 0,
               batches |-> [k \in Keys |-> Absent],
               fifo |-> [n \in Seqs |-> Absent],
               receipts |-> [k \in Keys |-> Absent],
               quarantine |-> [k \in Keys |-> Absent]]

Queued(s) == {k \in Keys : s.batches[k] # Absent}
Quarantined(s) == {k \in Keys : s.quarantine[k] # Absent}

-----------------------------------------------------------------------------
(* Reads.  Both look at the first FIFO entry only, so a delayed head holds *)
(* everything behind it back.  The error for an entry without its batch is *)
(* left out: FifoIndexExact excludes it.                                   *)

FifoHead(s) ==
    LET used == {n \in Seqs : s.fifo[n] # Absent}
    IN  IF used = {} THEN Absent
        ELSE s.fifo[CHOOSE n \in used : \A m \in used : n <= m]

\* Mutant: a delayed head is skipped.
PeekPastHead(s, now) ==
    LET due == {n \in Seqs : s.fifo[n] # Absent /\ s.batches[s.fifo[n]].nextRetry <= now}
    IN  IF due = {} THEN Absent
        ELSE s.fifo[CHOOSE n \in due : \A m \in due : n <= m]

\* The head if its retry time has come, otherwise Absent.
PeekEligible(s, now) ==
    LET head == FifoHead(s)
    IN  IF head # Absent /\ s.batches[head].nextRetry <= now THEN head ELSE Absent

\* The retry time of the head; 0 when there is none or it has no delay.
NextRetryAt(s) ==
    LET head == FifoHead(s)
    IN  IF head = Absent THEN 0 ELSE s.batches[head].nextRetry

-----------------------------------------------------------------------------
(* Accept *)

AcceptOutcome(s, k, d) ==
    IF s.receipts[k] = Absent THEN "accepted"
    ELSE IF s.receipts[k].digest = d THEN "duplicate" ELSE "conflict"

\* Mutant: the sequence number is the length of the queue, not a counter.
AcceptTxReusing(s, k, d, now) ==
    LET n == Cardinality(Queued(s)) + 1
    IN  [s EXCEPT
            !.seq = IF n > @ THEN n ELSE @,
            !.batches = [@ EXCEPT ![k] = [digest |-> d, seq |-> n, acceptedAt |-> now,
                                          attempts |-> 0, nextRetry |-> 0]],
            !.fifo = [@ EXCEPT ![n] = k],
            !.receipts = [@ EXCEPT ![k] = [digest |-> d, state |-> "pending",
                                           acceptedAt |-> now, completedAt |-> 0]]]

AcceptTx(s, k, d, now) ==
    LET n == s.seq + 1
    IN  [seq |-> n,
         batches |-> [s.batches EXCEPT ![k] =
             [digest |-> d, seq |-> n, acceptedAt |-> now,
              attempts |-> 0, nextRetry |-> 0]],
         fifo |-> [s.fifo EXCEPT ![n] = k],
         receipts |-> [s.receipts EXCEPT ![k] =
             [digest |-> d, state |-> "pending",
              acceptedAt |-> now, completedAt |-> 0]],
         quarantine |-> s.quarantine]

-----------------------------------------------------------------------------
(* The delivery worker's updates.  Each needs s.batches[k] # Absent:       *)
(* lookupBatch fails with ErrBatchNotFound otherwise.                      *)

RetryTx(s, k, retryAt) ==
    LET b == s.batches[k]
        retried == [b EXCEPT !.attempts = b.attempts + 1, !.nextRetry = retryAt]
    IN  [s EXCEPT !.batches = [s.batches EXCEPT ![k] = retried]]

\* Mutant: the expiry is stored where the completion time belongs.
CompletedAtExpiry(r, state, at) ==
    [r EXCEPT !.state = state, !.completedAt = at + ReceiptRetention]

\* The receipt of k enters a terminal state.
Completed(r, state, at) == [r EXCEPT !.state = state, !.completedAt = at]

\* Mutant: the FIFO index keeps the delivered batch.
DeliveredTxIndexed(s, k, at) ==
    [s EXCEPT !.batches = [@ EXCEPT ![k] = Absent],
              !.receipts = [@ EXCEPT ![k] = Completed(@, "delivered", at)]]

DeliveredTx(s, k, at) ==
    [seq |-> s.seq,
     batches |-> [s.batches EXCEPT ![k] = Absent],
     fifo |-> [s.fifo EXCEPT ![s.batches[k].seq] = Absent],
     receipts |-> [s.receipts EXCEPT ![k] = Completed(@, "delivered", at)],
     quarantine |-> s.quarantine]

\* Mutant: the payload is dropped when the quarantine is full.
QuarantinedTxFull(s, k, at) ==
    [s EXCEPT !.batches = [@ EXCEPT ![k] = Absent],
              !.fifo = [@ EXCEPT ![s.batches[k].seq] = Absent],
              !.receipts = [@ EXCEPT ![k] = Completed(@, "quarantined", at)],
              !.quarantine = IF Cardinality(Quarantined(s)) < MaxQuarantineEntries
                             THEN [@ EXCEPT ![k] = s.batches[k]] ELSE @]

QuarantinedTx(s, k, at) ==
    [seq |-> s.seq,
     batches |-> [s.batches EXCEPT ![k] = Absent],
     fifo |-> [s.fifo EXCEPT ![s.batches[k].seq] = Absent],
     receipts |-> [s.receipts EXCEPT ![k] = Completed(@, "quarantined", at)],
     quarantine |-> [s.quarantine EXCEPT ![k] = s.batches[k]]]

-----------------------------------------------------------------------------
(* Garbage collection *)

\* Mutant: retention ends one tick early.
ExpiredEarly(s, now) ==
    {k \in Keys :
        /\ s.receipts[k] # Absent
        /\ s.receipts[k].completedAt # 0
        /\ s.receipts[k].completedAt
             + (IF s.receipts[k].state = "delivered"
                THEN ReceiptRetention ELSE QuarantineRetention) <= now + 1}

Expired(s, now) ==
    {k \in Keys :
        /\ s.receipts[k] # Absent
        /\ s.receipts[k].completedAt # 0
        /\ \/ /\ s.receipts[k].state = "delivered"
              /\ s.receipts[k].completedAt + ReceiptRetention <= now
           \/ /\ s.receipts[k].state = "quarantined"
              /\ s.receipts[k].completedAt + QuarantineRetention <= now}

\* Mutant: the newest payloads are evicted.
OverflowNewest(s, held) ==
    {k \in held :
        Cardinality({j \in held : s.quarantine[j].seq < s.quarantine[k].seq})
            >= MaxQuarantineEntries}

\* The payloads of held above the cap: the oldest, by the current sequence
\* number.  A replay has renewed it (ReplayTx).
Overflow(s, held) ==
    {k \in held :
        Cardinality({j \in held : s.quarantine[j].seq > s.quarantine[k].seq})
            >= MaxQuarantineEntries}

CollectTx(s, now) ==
    LET expired == Expired(s, now)
        purged == {k \in expired : s.receipts[k].state = "quarantined"}
        evicted == Overflow(s, Quarantined(s) \ purged)
    IN  [s EXCEPT
            !.receipts = [k \in Keys |-> IF k \in expired THEN Absent ELSE @[k]],
            !.quarantine = [k \in Keys |->
                IF k \in purged \cup evicted THEN Absent ELSE @[k]]]

-----------------------------------------------------------------------------
(* Quarantine replay.  order gives each replayed batch its new sequence    *)
(* number: one batch gets the next number, all of them get the next ones   *)
(* in the order of the numbers they were quarantined with.  The branch     *)
(* that makes a new receipt is left out: QuarantineHasReceipt excludes it. *)

ReplayOrders(s, replayed) ==
    {order \in [replayed -> (s.seq + 1)..(s.seq + Cardinality(replayed))] :
        \A j, k \in replayed :
            order[j] < order[k] <=> s.quarantine[j].seq < s.quarantine[k].seq}

ReplayTx(s, order) ==
    LET replayed == DOMAIN order
    IN  [seq |-> s.seq + Cardinality(replayed),
         batches |-> [k \in Keys |->
             IF k \in replayed
             THEN [s.quarantine[k] EXCEPT
                      !.seq = order[k], !.attempts = 0, !.nextRetry = 0]
             ELSE s.batches[k]],
         fifo |-> [n \in Seqs |->
             IF \E k \in replayed : order[k] = n
             THEN CHOOSE k \in replayed : order[k] = n
             ELSE s.fifo[n]],
         receipts |-> [k \in Keys |->
             IF k \in replayed
             THEN [s.receipts[k] EXCEPT !.state = "pending", !.completedAt = 0]
             ELSE s.receipts[k]],
         quarantine |-> [k \in Keys |->
             IF k \in replayed THEN Absent ELSE s.quarantine[k]]]

-----------------------------------------------------------------------------
(* What every committed store satisfies. *)

\* The FIFO index and the batches point at each other.
FifoIndexExact(s) ==
    \A n \in Seqs, k \in Keys :
        s.fifo[n] = k <=> s.batches[k] # Absent /\ s.batches[k].seq = n

\* A batch is queued exactly while its receipt is pending.
PendingIffQueued(s) ==
    \A k \in Keys :
        s.batches[k] # Absent
            <=> s.receipts[k] # Absent /\ s.receipts[k].state = "pending"

\* A quarantined payload has a receipt that says so.
QuarantineHasReceipt(s) ==
    \A k \in Quarantined(s) :
        s.receipts[k] # Absent /\ s.receipts[k].state = "quarantined"

\* A payload the inbox holds is the one its receipt vouches for.
PayloadMatchesReceipt(s) ==
    /\ \A k \in Queued(s) : s.receipts[k].digest = s.batches[k].digest
    /\ \A k \in Quarantined(s) : s.receipts[k].digest = s.quarantine[k].digest

\* Only terminal receipts carry a completion time.
CompletionTimes(s) ==
    \A k \in Keys : s.receipts[k] # Absent =>
        (s.receipts[k].completedAt = 0 <=> s.receipts[k].state = "pending")

\* Every number in use was handed out, and to one batch only.
SequencesDistinct(s) ==
    /\ \A k \in Queued(s) : s.batches[k].seq <= s.seq
    /\ \A k \in Quarantined(s) : s.quarantine[k].seq <= s.seq
    /\ \A j, k \in Quarantined(s) :
           s.quarantine[j].seq = s.quarantine[k].seq => j = k
    /\ \A j \in Queued(s), k \in Quarantined(s) :
           s.batches[j].seq # s.quarantine[k].seq

Consistent(s) ==
    /\ FifoIndexExact(s)
    /\ PendingIffQueued(s)
    /\ QuarantineHasReceipt(s)
    /\ PayloadMatchesReceipt(s)
    /\ CompletionTimes(s)
    /\ SequencesDistinct(s)

\* The payload of k with digest d is in the inbox: queued or in quarantine.
Holds(s, k, d) ==
    \/ s.batches[k] # Absent /\ s.batches[k].digest = d
    \/ s.quarantine[k] # Absent /\ s.quarantine[k].digest = d
=============================================================================
