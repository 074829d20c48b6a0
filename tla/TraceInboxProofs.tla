-------------------------- MODULE TraceInboxProofs --------------------------
(***************************************************************************)
(* Every transaction of the inbox maps a consistent store to a consistent  *)
(* store and keeps the payloads it does not discharge.  So the durable     *)
(* inbox keeps its promises for every value of the constants, its steps    *)
(* respect the order and the retention it promises, and it implements the  *)
(* ledger.                                                                 *)
(***************************************************************************)
EXTENDS TraceInbox, SetLemmas

-----------------------------------------------------------------------------
(* The transactions *)

\* A store that is well formed and consistent.
Good(s) == s \in Store /\ Consistent(s)

\* The fields of a store have their types.
LEMMA StoreFields ==
    ASSUME NEW s \in Store
    PROVE  /\ s.seq \in 0..MaxSeq
           /\ s.batches \in [Keys -> Batch \cup {Absent}]
           /\ s.fifo \in [Seqs -> Keys \cup {Absent}]
           /\ s.receipts \in [Keys -> Receipt \cup {Absent}]
           /\ s.quarantine \in [Keys -> Batch \cup {Absent}]
  BY DEF Store

\* A record built field by field from values of the right types is a store.
LEMMA StoreIntro ==
    ASSUME NEW n \in 0..MaxSeq,
           NEW b \in [Keys -> Batch \cup {Absent}],
           NEW f \in [Seqs -> Keys \cup {Absent}],
           NEW r \in [Keys -> Receipt \cup {Absent}],
           NEW q \in [Keys -> Batch \cup {Absent}]
    PROVE  [seq |-> n, batches |-> b, fifo |-> f, receipts |-> r, quarantine |-> q]
               \in Store
  BY DEF Store

\* The empty inbox, as Open creates it, is consistent.
LEMMA EmptyStoreGood == Good(EmptyStore)
  <1>1. EmptyStore \in Store
    BY BoundsAssumption, StoreIntro, 0 \in 0..MaxSeq DEF EmptyStore
  <1>2. Consistent(EmptyStore)
    BY AbsentAssumption
    DEF EmptyStore, Consistent, FifoIndexExact, PendingIffQueued, QuarantineHasReceipt,
        PayloadMatchesReceipt, CompletionTimes, SequencesDistinct, Queued, Quarantined
  <1> QED BY <1>1, <1>2 DEF Good

\* Accept of a key without a receipt enqueues the batch at the tail.
LEMMA AcceptTxGood ==
    ASSUME NEW s, Good(s), NEW k \in Keys, NEW d \in Digests, NEW now \in Time \ {0},
           AcceptOutcome(s, k, d) = "accepted", s.seq < MaxSeq
    PROVE  Good(AcceptTx(s, k, d, now))
  <1> DEFINE n == s.seq + 1
             b == [digest |-> d, seq |-> n, acceptedAt |-> now, attempts |-> 0, nextRetry |-> 0]
             r == [digest |-> d, state |-> "pending", acceptedAt |-> now, completedAt |-> 0]
             t == AcceptTx(s, k, d, now)
  <1>1. s \in Store /\ Consistent(s)
    BY DEF Good
  <1>2. /\ s.seq \in 0..MaxSeq
        /\ s.batches \in [Keys -> Batch \cup {Absent}]
        /\ s.fifo \in [Seqs -> Keys \cup {Absent}]
        /\ s.receipts \in [Keys -> Receipt \cup {Absent}]
        /\ s.quarantine \in [Keys -> Batch \cup {Absent}]
    BY <1>1, StoreFields
  <1>3. n \in Seqs /\ n \in 0..MaxSeq
    BY <1>2, BoundsAssumption DEF Seqs
  <1>4. b \in Batch /\ r \in Receipt
    BY <1>3, BoundsAssumption DEF Batch, Receipt, Time, ReceiptState
  <1>5. b # Absent /\ r # Absent /\ k # Absent
    BY <1>4, AbsentAssumption
  <1>6. s.receipts[k] = Absent /\ s.batches[k] = Absent /\ s.quarantine[k] = Absent
    <2>1. s.receipts[k] = Absent
      BY DEF AcceptOutcome
    <2> QED BY <1>1, <2>1 DEF Consistent, PendingIffQueued, QuarantineHasReceipt, Quarantined
  <1>7. t = [seq |-> n, batches |-> [s.batches EXCEPT ![k] = b],
             fifo |-> [s.fifo EXCEPT ![n] = k],
             receipts |-> [s.receipts EXCEPT ![k] = r], quarantine |-> s.quarantine]
    BY DEF AcceptTx
  <1> HIDE DEF t, b, r, n
  <1>8. t \in Store
    <2>1. [s.batches EXCEPT ![k] = b] \in [Keys -> Batch \cup {Absent}]
      BY <1>2, <1>4
    <2>2. [s.fifo EXCEPT ![n] = k] \in [Seqs -> Keys \cup {Absent}]
      BY <1>2, <1>3
    <2>3. [s.receipts EXCEPT ![k] = r] \in [Keys -> Receipt \cup {Absent}]
      BY <1>2, <1>4
    <2> QED BY <1>2, <1>3, <1>7, <2>1, <2>2, <2>3, StoreIntro
  <1>9. \A j \in Keys : /\ t.batches[j] = IF j = k THEN b ELSE s.batches[j]
                        /\ t.receipts[j] = IF j = k THEN r ELSE s.receipts[j]
                        /\ t.quarantine[j] = s.quarantine[j]
    BY <1>2, <1>7
  <1>10. \A m \in Seqs : t.fifo[m] = IF m = n THEN k ELSE s.fifo[m]
    BY <1>2, <1>7
  <1>11. b.seq = n /\ b.digest = d /\ r.digest = d /\ r.state = "pending" /\ r.completedAt = 0
    BY DEF b, r
  <1>12. \A j \in Keys : s.batches[j] # Absent => s.batches[j].seq # n
    BY <1>1, <1>2 DEF Consistent, SequencesDistinct, Queued, n, Batch, Seqs
  <1>13. FifoIndexExact(t)
    <2> SUFFICES ASSUME NEW m \in Seqs, NEW j \in Keys
                 PROVE  t.fifo[m] = j <=> t.batches[j] # Absent /\ t.batches[j].seq = m
      BY DEF FifoIndexExact
    <2>1. s.fifo[m] = j <=> s.batches[j] # Absent /\ s.batches[j].seq = m
      BY <1>1 DEF Consistent, FifoIndexExact
    <2> QED BY <2>1, <1>5, <1>6, <1>9, <1>10, <1>11, <1>12
  <1>14. PendingIffQueued(t)
    BY <1>1, <1>5, <1>9, <1>11 DEF Consistent, PendingIffQueued
  <1>15. QuarantineHasReceipt(t) /\ PayloadMatchesReceipt(t)
    BY <1>1, <1>5, <1>6, <1>9, <1>11
    DEF Consistent, QuarantineHasReceipt, PayloadMatchesReceipt, Quarantined, Queued
  <1>16. CompletionTimes(t)
    BY <1>1, <1>9, <1>11 DEF Consistent, CompletionTimes
  <1>17. SequencesDistinct(t)
    <2>1. t.seq = n /\ n = s.seq + 1
      BY <1>7 DEF n
    <2>2. \A j \in Queued(s) : s.batches[j].seq <= s.seq /\ s.batches[j].seq \in Int
      BY <1>1, <1>2 DEF Consistent, SequencesDistinct, Queued, Batch, Seqs
    <2>3. \A j \in Quarantined(s) : s.quarantine[j].seq <= s.seq /\ s.quarantine[j].seq \in Int
      BY <1>1, <1>2 DEF Consistent, SequencesDistinct, Quarantined, Batch, Seqs
    <2>4. Quarantined(t) = Quarantined(s)
      BY <1>9 DEF Quarantined
    <2>5. \A j \in Queued(t) : j = k \/ j \in Queued(s)
      BY <1>9 DEF Queued
    <2>6. \A j \in Queued(t) : t.batches[j].seq <= t.seq
      BY <2>1, <2>2, <2>5, <1>2, <1>9, <1>11 DEF Queued
    <2>7. \A j \in Quarantined(t) : t.quarantine[j].seq <= t.seq
      BY <2>1, <2>3, <2>4, <1>2, <1>9 DEF Quarantined
    <2>8. \A i, j \in Quarantined(t) : t.quarantine[i].seq = t.quarantine[j].seq => i = j
      BY <1>1, <2>4, <1>9 DEF Quarantined, Consistent, SequencesDistinct
    <2>9. \A i \in Queued(t), j \in Quarantined(t) : t.batches[i].seq # t.quarantine[j].seq
      BY <1>1, <2>1, <2>3, <2>4, <2>5, <1>2, <1>9, <1>11
      DEF Queued, Quarantined, Consistent, SequencesDistinct
    <2> QED BY <2>6, <2>7, <2>8, <2>9 DEF SequencesDistinct
  <1> QED BY <1>8, <1>13, <1>14, <1>15, <1>16, <1>17 DEF Good, Consistent, t

\* A retry changes the attempt count and the retry time of one batch only.
LEMMA RetryTxGood ==
    ASSUME NEW s, Good(s), NEW k \in Queued(s), NEW retryAt \in Time,
           s.batches[k].attempts < MaxAttempts
    PROVE  Good(RetryTx(s, k, retryAt))
  <1> DEFINE b == [s.batches[k] EXCEPT !.attempts = s.batches[k].attempts + 1,
                                       !.nextRetry = retryAt]
             t == RetryTx(s, k, retryAt)
  <1>1. s \in Store /\ Consistent(s) /\ k \in Keys /\ s.batches[k] # Absent
    BY DEF Good, Queued
  <1>2. /\ s.seq \in 0..MaxSeq
        /\ s.batches \in [Keys -> Batch \cup {Absent}]
        /\ s.fifo \in [Seqs -> Keys \cup {Absent}]
        /\ s.receipts \in [Keys -> Receipt \cup {Absent}]
        /\ s.quarantine \in [Keys -> Batch \cup {Absent}]
    BY <1>1, StoreFields
  <1>3. s.batches[k] \in Batch
    BY <1>1, <1>2
  <1>4. b \in Batch /\ b.seq = s.batches[k].seq /\ b.digest = s.batches[k].digest
    <2>1. s.batches[k].attempts + 1 \in 0..MaxAttempts
      BY <1>3, BoundsAssumption DEF Batch
    <2> QED BY <1>3, <2>1 DEF Batch
  <1>5. b # Absent
    BY <1>4, AbsentAssumption
  <1>6. t = [seq |-> s.seq, batches |-> [s.batches EXCEPT ![k] = b],
             fifo |-> s.fifo, receipts |-> s.receipts, quarantine |-> s.quarantine]
    BY <1>1 DEF RetryTx, Store
  <1> HIDE DEF t, b
  <1>7. t \in Store
    <2>1. [s.batches EXCEPT ![k] = b] \in [Keys -> Batch \cup {Absent}]
      BY <1>2, <1>4
    <2> QED BY <1>2, <1>6, <2>1, StoreIntro
  <1>8. \A j \in Keys : t.batches[j] = IF j = k THEN b ELSE s.batches[j]
    BY <1>2, <1>6
  <1>9. /\ t.seq = s.seq /\ t.fifo = s.fifo
        /\ t.receipts = s.receipts /\ t.quarantine = s.quarantine
    BY <1>6
  <1>10. Queued(t) = Queued(s) /\ Quarantined(t) = Quarantined(s)
    BY <1>1, <1>5, <1>8, <1>9 DEF Queued, Quarantined
  <1>11. FifoIndexExact(t) /\ PendingIffQueued(t)
    BY <1>1, <1>4, <1>5, <1>8, <1>9 DEF Consistent, FifoIndexExact, PendingIffQueued
  <1>12. QuarantineHasReceipt(t) /\ CompletionTimes(t)
    BY <1>1, <1>9, <1>10 DEF Consistent, QuarantineHasReceipt, CompletionTimes
  <1>13. PayloadMatchesReceipt(t) /\ SequencesDistinct(t)
    BY <1>1, <1>4, <1>8, <1>9, <1>10
    DEF Consistent, PayloadMatchesReceipt, SequencesDistinct, Queued
  <1> QED BY <1>7, <1>11, <1>12, <1>13 DEF Good, Consistent, t

\* A delivered batch leaves the queue and its receipt becomes terminal.
LEMMA DeliveredTxGood ==
    ASSUME NEW s, Good(s), NEW k \in Queued(s), NEW at \in Time \ {0}
    PROVE  Good(DeliveredTx(s, k, at))
  <1> DEFINE r == Completed(s.receipts[k], "delivered", at)
             n == s.batches[k].seq
             t == DeliveredTx(s, k, at)
  <1>1. s \in Store /\ Consistent(s) /\ k \in Keys /\ s.batches[k] # Absent
    BY DEF Good, Queued
  <1>2. /\ s.seq \in 0..MaxSeq
        /\ s.batches \in [Keys -> Batch \cup {Absent}]
        /\ s.fifo \in [Seqs -> Keys \cup {Absent}]
        /\ s.receipts \in [Keys -> Receipt \cup {Absent}]
        /\ s.quarantine \in [Keys -> Batch \cup {Absent}]
    BY <1>1, StoreFields
  <1>3. s.batches[k] \in Batch /\ n \in Seqs
    BY <1>1, <1>2 DEF Batch
  <1>4. s.receipts[k] # Absent /\ s.receipts[k] \in Receipt /\ s.receipts[k].state = "pending"
    BY <1>1, <1>2 DEF Consistent, PendingIffQueued
  <1>5. r \in Receipt /\ r.state = "delivered" /\ r.completedAt = at
    BY <1>4 DEF Completed, Receipt, ReceiptState
  <1>6. r # Absent
    BY <1>5, AbsentAssumption
  <1>7. t = [seq |-> s.seq, batches |-> [s.batches EXCEPT ![k] = Absent],
             fifo |-> [s.fifo EXCEPT ![n] = Absent],
             receipts |-> [s.receipts EXCEPT ![k] = r], quarantine |-> s.quarantine]
    BY <1>1, <1>2 DEF DeliveredTx
  <1>8. \A m \in Seqs : Absent \notin Keys
    BY AbsentAssumption
  <1> HIDE DEF t, r, n
  <1>9. t \in Store
    <2>1. [s.batches EXCEPT ![k] = Absent] \in [Keys -> Batch \cup {Absent}]
      BY <1>2
    <2>2. [s.fifo EXCEPT ![n] = Absent] \in [Seqs -> Keys \cup {Absent}]
      BY <1>2
    <2>3. [s.receipts EXCEPT ![k] = r] \in [Keys -> Receipt \cup {Absent}]
      BY <1>2, <1>5
    <2> QED BY <1>2, <1>7, <2>1, <2>2, <2>3, StoreIntro
  <1>10. \A j \in Keys : /\ t.batches[j] = IF j = k THEN Absent ELSE s.batches[j]
                         /\ t.receipts[j] = IF j = k THEN r ELSE s.receipts[j]
    BY <1>2, <1>7
  <1>11. \A m \in Seqs : t.fifo[m] = IF m = n THEN Absent ELSE s.fifo[m]
    BY <1>2, <1>7
  <1>12. t.seq = s.seq /\ t.quarantine = s.quarantine
    BY <1>7
  <1>13. FifoIndexExact(t)
    <2> SUFFICES ASSUME NEW m \in Seqs, NEW j \in Keys
                 PROVE  t.fifo[m] = j <=> t.batches[j] # Absent /\ t.batches[j].seq = m
      BY DEF FifoIndexExact
    <2>1. s.fifo[m] = j <=> s.batches[j] # Absent /\ s.batches[j].seq = m
      BY <1>1 DEF Consistent, FifoIndexExact
    <2>2. s.fifo[n] = k
      BY <1>1, <1>3 DEF Consistent, FifoIndexExact, n
    <2>3. j # Absent /\ k # Absent
      BY <1>1, AbsentAssumption
    <2>4. j = k => s.batches[j].seq = n
      BY DEF n
    <2> QED BY <2>1, <2>2, <2>3, <2>4, <1>10, <1>11
  <1>14. PendingIffQueued(t)
    BY <1>1, <1>5, <1>10 DEF Consistent, PendingIffQueued
  <1>15. s.quarantine[k] = Absent
    BY <1>1, <1>4 DEF Consistent, QuarantineHasReceipt, Quarantined
  <1>16. QuarantineHasReceipt(t) /\ PayloadMatchesReceipt(t)
    BY <1>1, <1>10, <1>12, <1>15
    DEF Consistent, QuarantineHasReceipt, PayloadMatchesReceipt, Quarantined, Queued
  <1>17. CompletionTimes(t)
    BY <1>1, <1>5, <1>10 DEF Consistent, CompletionTimes
  <1>18. SequencesDistinct(t)
    BY <1>1, <1>10, <1>12 DEF Consistent, SequencesDistinct, Queued, Quarantined
  <1> QED BY <1>9, <1>13, <1>14, <1>16, <1>17, <1>18 DEF Good, Consistent, t

\* A quarantined batch moves from the queue to the quarantine.
LEMMA QuarantinedTxGood ==
    ASSUME NEW s, Good(s), NEW k \in Queued(s), NEW at \in Time \ {0}
    PROVE  Good(QuarantinedTx(s, k, at))
  <1> DEFINE r == Completed(s.receipts[k], "quarantined", at)
             b == s.batches[k]
             t == QuarantinedTx(s, k, at)
  <1>1. s \in Store /\ Consistent(s) /\ k \in Keys /\ s.batches[k] # Absent
    BY DEF Good, Queued
  <1>2. /\ s.seq \in 0..MaxSeq
        /\ s.batches \in [Keys -> Batch \cup {Absent}]
        /\ s.fifo \in [Seqs -> Keys \cup {Absent}]
        /\ s.receipts \in [Keys -> Receipt \cup {Absent}]
        /\ s.quarantine \in [Keys -> Batch \cup {Absent}]
    BY <1>1, StoreFields
  <1>3. b \in Batch /\ b # Absent /\ b.seq \in Seqs
    BY <1>1, <1>2 DEF Batch
  <1>4. s.receipts[k] # Absent /\ s.receipts[k] \in Receipt /\ s.receipts[k].state = "pending"
    BY <1>1, <1>2 DEF Consistent, PendingIffQueued
  <1>5. /\ r \in Receipt /\ r.state = "quarantined" /\ r.completedAt = at
        /\ r.digest = s.receipts[k].digest
    BY <1>4 DEF Completed, Receipt, ReceiptState
  <1>6. r # Absent
    BY <1>5, AbsentAssumption
  <1>7. t = [seq |-> s.seq, batches |-> [s.batches EXCEPT ![k] = Absent],
             fifo |-> [s.fifo EXCEPT ![b.seq] = Absent],
             receipts |-> [s.receipts EXCEPT ![k] = r],
             quarantine |-> [s.quarantine EXCEPT ![k] = b]]
    BY <1>1, <1>2 DEF QuarantinedTx
  <1>8. r.digest = b.digest
    BY <1>1, <1>5 DEF Consistent, PayloadMatchesReceipt, Queued
  <1> HIDE DEF t, r
  <1>9. t \in Store
    <2>1. [s.batches EXCEPT ![k] = Absent] \in [Keys -> Batch \cup {Absent}]
      BY <1>2
    <2>2. [s.fifo EXCEPT ![b.seq] = Absent] \in [Seqs -> Keys \cup {Absent}]
      BY <1>2
    <2>3. [s.receipts EXCEPT ![k] = r] \in [Keys -> Receipt \cup {Absent}]
      BY <1>2, <1>5
    <2>4. [s.quarantine EXCEPT ![k] = b] \in [Keys -> Batch \cup {Absent}]
      BY <1>2, <1>3
    <2> QED BY <1>2, <1>7, <2>1, <2>2, <2>3, <2>4, StoreIntro
  <1>10. \A j \in Keys : /\ t.batches[j] = IF j = k THEN Absent ELSE s.batches[j]
                         /\ t.receipts[j] = IF j = k THEN r ELSE s.receipts[j]
                         /\ t.quarantine[j] = IF j = k THEN b ELSE s.quarantine[j]
    BY <1>2, <1>7
  <1>11. \A m \in Seqs : t.fifo[m] = IF m = b.seq THEN Absent ELSE s.fifo[m]
    BY <1>2, <1>7
  <1>12. t.seq = s.seq
    BY <1>7
  <1>13. FifoIndexExact(t)
    <2> SUFFICES ASSUME NEW m \in Seqs, NEW j \in Keys
                 PROVE  t.fifo[m] = j <=> t.batches[j] # Absent /\ t.batches[j].seq = m
      BY DEF FifoIndexExact
    <2>1. s.fifo[m] = j <=> s.batches[j] # Absent /\ s.batches[j].seq = m
      BY <1>1 DEF Consistent, FifoIndexExact
    <2>2. s.fifo[b.seq] = k
      BY <1>1, <1>3 DEF Consistent, FifoIndexExact
    <2>3. j # Absent /\ k # Absent
      BY <1>1, AbsentAssumption
    <2> QED BY <2>1, <2>2, <2>3, <1>10, <1>11
  <1>14. PendingIffQueued(t)
    BY <1>1, <1>5, <1>10 DEF Consistent, PendingIffQueued
  <1>15. QuarantineHasReceipt(t) /\ PayloadMatchesReceipt(t)
    BY <1>1, <1>5, <1>6, <1>8, <1>10
    DEF Consistent, QuarantineHasReceipt, PayloadMatchesReceipt, Quarantined, Queued
  <1>16. CompletionTimes(t)
    BY <1>1, <1>5, <1>10 DEF Consistent, CompletionTimes
  <1>17. SequencesDistinct(t)
    <2>1. Queued(t) = Queued(s) \ {k} /\ Quarantined(t) = Quarantined(s) \cup {k}
      BY <1>1, <1>10 DEF Queued, Quarantined
    <2>2. k \in Queued(s)
      OBVIOUS
    <2>3. \A j \in Queued(s) : j # k => s.batches[j].seq # b.seq
      BY <1>1, <1>2, <1>3 DEF Consistent, FifoIndexExact, Queued
    <2> QED BY <1>1, <1>10, <1>12, <2>1, <2>2, <2>3
        DEF Consistent, SequencesDistinct, Queued, Quarantined
  <1> QED BY <1>9, <1>13, <1>14, <1>15, <1>16, <1>17 DEF Good, Consistent, t

\* Collection removes terminal receipts and quarantined payloads only.
LEMMA CollectTxGood ==
    ASSUME NEW s, Good(s), NEW now \in Time
    PROVE  /\ Good(CollectTx(s, now))
           /\ CollectTx(s, now).batches = s.batches
           /\ Quarantined(CollectTx(s, now)) \subseteq Quarantined(s)
           /\ \A k \in Quarantined(CollectTx(s, now)) :
                 CollectTx(s, now).quarantine[k] = s.quarantine[k]
  <1> DEFINE t == CollectTx(s, now)
  <1>1. s \in Store /\ Consistent(s)
    BY DEF Good
  <1>2. /\ s.seq \in 0..MaxSeq
        /\ s.batches \in [Keys -> Batch \cup {Absent}]
        /\ s.fifo \in [Seqs -> Keys \cup {Absent}]
        /\ s.receipts \in [Keys -> Receipt \cup {Absent}]
        /\ s.quarantine \in [Keys -> Batch \cup {Absent}]
    BY <1>1, StoreFields
  <1>3. PICK gone : \E purged :
            /\ gone = Expired(s, now)
            /\ purged = {k \in gone : s.receipts[k].state = "quarantined"}
                         \cup Overflow(s, Quarantined(s) \
                                 {k \in gone : s.receipts[k].state = "quarantined"})
    OBVIOUS
  <1>4. PICK purged :
            /\ gone = Expired(s, now)
            /\ purged = {k \in gone : s.receipts[k].state = "quarantined"}
                         \cup Overflow(s, Quarantined(s) \
                                 {k \in gone : s.receipts[k].state = "quarantined"})
    BY <1>3
  <1>5. t = [s EXCEPT
                !.receipts = [k \in Keys |-> IF k \in gone THEN Absent ELSE s.receipts[k]],
                !.quarantine = [k \in Keys |-> IF k \in purged THEN Absent ELSE s.quarantine[k]]]
    BY <1>4 DEF CollectTx
  <1>6. t = [seq |-> s.seq, batches |-> s.batches, fifo |-> s.fifo,
             receipts |-> [k \in Keys |-> IF k \in gone THEN Absent ELSE s.receipts[k]],
             quarantine |-> [k \in Keys |-> IF k \in purged THEN Absent ELSE s.quarantine[k]]]
    BY <1>1, <1>5 DEF Store
  <1>7. \A k \in gone : /\ k \in Keys /\ s.receipts[k] # Absent
                        /\ s.receipts[k].completedAt # 0
                        /\ s.receipts[k].state = "quarantined" => k \in purged
    BY <1>4 DEF Expired
  <1> HIDE DEF t
  <1>8. t \in Store
    <2>1. [k \in Keys |-> IF k \in gone THEN Absent ELSE s.receipts[k]]
            \in [Keys -> Receipt \cup {Absent}]
      BY <1>2
    <2>2. [k \in Keys |-> IF k \in purged THEN Absent ELSE s.quarantine[k]]
            \in [Keys -> Batch \cup {Absent}]
      BY <1>2
    <2> QED BY <1>2, <1>6, <2>1, <2>2, StoreIntro
  <1>9. \A k \in Keys :
            /\ t.receipts[k] = IF k \in gone THEN Absent ELSE s.receipts[k]
            /\ t.quarantine[k] = IF k \in purged THEN Absent ELSE s.quarantine[k]
    BY <1>6
  <1>10. t.seq = s.seq /\ t.batches = s.batches /\ t.fifo = s.fifo
    BY <1>6
  <1>11. \A k \in gone : s.receipts[k].state # "pending" /\ s.batches[k] = Absent
    BY <1>1, <1>7 DEF Consistent, CompletionTimes, PendingIffQueued
  <1>12. \A k \in Quarantined(t) : k \in Quarantined(s) /\ t.quarantine[k] = s.quarantine[k]
    BY <1>9 DEF Quarantined
  <1>13. FifoIndexExact(t) /\ PendingIffQueued(t)
    BY <1>1, <1>9, <1>10, <1>11 DEF Consistent, FifoIndexExact, PendingIffQueued
  <1>14. \A k \in Quarantined(t) : k \notin gone
    BY <1>1, <1>7, <1>9 DEF Quarantined, Consistent, QuarantineHasReceipt
  <1>15. QuarantineHasReceipt(t) /\ PayloadMatchesReceipt(t)
    BY <1>1, <1>9, <1>10, <1>11, <1>12, <1>14
    DEF Consistent, QuarantineHasReceipt, PayloadMatchesReceipt, Queued, Quarantined
  <1>16. CompletionTimes(t)
    BY <1>1, <1>9 DEF Consistent, CompletionTimes
  <1>17. SequencesDistinct(t)
    BY <1>1, <1>10, <1>12 DEF Consistent, SequencesDistinct, Queued
  <1> QED BY <1>8, <1>10, <1>12, <1>13, <1>15, <1>16, <1>17 DEF Good, Consistent, t

\* Replay requeues quarantined batches under fresh sequence numbers.
LEMMA ReplayTxGood ==
    ASSUME NEW s, Good(s), NEW replayed, replayed \subseteq Quarantined(s),
           NEW order \in ReplayOrders(s, replayed),
           s.seq + Cardinality(replayed) <= MaxSeq
    PROVE  Good(ReplayTx(s, order))
  <1> DEFINE t == ReplayTx(s, order)
             b(k) == [s.quarantine[k] EXCEPT !.seq = order[k], !.attempts = 0, !.nextRetry = 0]
             r(k) == [s.receipts[k] EXCEPT !.state = "pending", !.completedAt = 0]
             owner(n) == CHOOSE k \in replayed : order[k] = n
             top == s.seq + Cardinality(replayed)
  <1>1. s \in Store /\ Consistent(s) /\ replayed \subseteq Keys
    BY DEF Good, Quarantined
  <1>2. /\ s.seq \in 0..MaxSeq
        /\ s.batches \in [Keys -> Batch \cup {Absent}]
        /\ s.fifo \in [Seqs -> Keys \cup {Absent}]
        /\ s.receipts \in [Keys -> Receipt \cup {Absent}]
        /\ s.quarantine \in [Keys -> Batch \cup {Absent}]
    BY <1>1, StoreFields
  <1>3. Cardinality(replayed) \in Nat
    BY <1>1, KeysAssumption, FS_Subset, FS_CardinalityType
  <1>4. top \in 0..MaxSeq
    BY <1>2, <1>3, BoundsAssumption
  <1>5. /\ order \in [replayed -> (s.seq + 1)..top]
        /\ \A j, k \in replayed :
               order[j] < order[k] <=> s.quarantine[j].seq < s.quarantine[k].seq
    BY DEF ReplayOrders
  <1>6. \A k \in replayed : order[k] \in Seqs /\ order[k] > s.seq /\ order[k] <= top
    BY <1>2, <1>4, <1>5, BoundsAssumption DEF Seqs
  <1>7. \A k \in replayed :
            /\ k \in Keys /\ s.quarantine[k] # Absent /\ s.quarantine[k] \in Batch
            /\ s.receipts[k] # Absent /\ s.receipts[k] \in Receipt
            /\ s.receipts[k].digest = s.quarantine[k].digest
            /\ s.receipts[k].state = "quarantined" /\ s.batches[k] = Absent
    BY <1>1, <1>2
    DEF Quarantined, Consistent, QuarantineHasReceipt, PayloadMatchesReceipt, PendingIffQueued
  <1>8. \A k \in replayed :
            /\ b(k) \in Batch /\ b(k).seq = order[k] /\ b(k).digest = s.quarantine[k].digest
            /\ b(k) # Absent
    <2> TAKE k \in replayed
    <2> DEFINE q == s.quarantine[k]
    <2>0. /\ q \in Batch /\ order[k] \in Seqs
          /\ 0 \in Time /\ 0 \in 0..MaxAttempts
      BY <1>6, <1>7, BoundsAssumption DEF Time
    <2>1. b(k) \in Batch /\ b(k).seq = order[k] /\ b(k).digest = q.digest
      <3> HIDE DEF q
      <3>1. b(k) = [q EXCEPT !.seq = order[k], !.attempts = 0, !.nextRetry = 0]
        BY DEF q
      <3> HIDE DEF b
      <3> QED BY <2>0, <3>1 DEF Batch
    <2> QED BY <2>1, AbsentAssumption
  <1>9. \A k \in replayed :
            /\ r(k) \in Receipt /\ r(k).state = "pending" /\ r(k).completedAt = 0
            /\ r(k).digest = s.receipts[k].digest /\ r(k) # Absent
    <2> TAKE k \in replayed
    <2> DEFINE e == s.receipts[k]
    <2>0. e \in Receipt /\ 0 \in Time
      BY <1>7, BoundsAssumption DEF Time
    <2>1. /\ r(k) \in Receipt /\ r(k).state = "pending" /\ r(k).completedAt = 0
          /\ r(k).digest = e.digest
      <3> HIDE DEF e
      <3>1. r(k) = [e EXCEPT !.state = "pending", !.completedAt = 0]
        BY DEF e
      <3> HIDE DEF r
      <3> QED BY <2>0, <3>1 DEF Receipt, ReceiptState
    <2> QED BY <2>1, AbsentAssumption
  <1>10. \A j, k \in replayed : order[j] = order[k] => j = k
    <2> SUFFICES ASSUME NEW j \in replayed, NEW k \in replayed, order[j] = order[k]
                 PROVE  j = k
      OBVIOUS
    <2>1. s.quarantine[j].seq \in Int /\ s.quarantine[k].seq \in Int
      BY <1>7 DEF Batch, Seqs
    <2>2. order[j] \in Int /\ order[k] \in Int
      BY <1>6 DEF Seqs
    <2>3. s.quarantine[j].seq = s.quarantine[k].seq
      BY <1>5, <2>1, <2>2
    <2> QED BY <1>1, <1>7, <2>3 DEF Consistent, SequencesDistinct, Quarantined
  <1>11. \A k \in replayed : owner(order[k]) = k
    BY <1>10
  <1>12. DOMAIN order = replayed
    BY <1>5
  <1>13. t = [seq |-> top,
              batches |-> [k \in Keys |-> IF k \in replayed THEN b(k) ELSE s.batches[k]],
              fifo |-> [n \in Seqs |-> IF \E k \in replayed : order[k] = n
                                        THEN owner(n) ELSE s.fifo[n]],
              receipts |-> [k \in Keys |-> IF k \in replayed THEN r(k) ELSE s.receipts[k]],
              quarantine |-> [k \in Keys |-> IF k \in replayed THEN Absent ELSE s.quarantine[k]]]
    BY <1>12 DEF ReplayTx
  <1> HIDE DEF t, b, r, owner, top
  <1>14. t \in Store
    <2>1. [k \in Keys |-> IF k \in replayed THEN b(k) ELSE s.batches[k]]
            \in [Keys -> Batch \cup {Absent}]
      BY <1>2, <1>8
    <2>2. [n \in Seqs |-> IF \E k \in replayed : order[k] = n THEN owner(n) ELSE s.fifo[n]]
            \in [Seqs -> Keys \cup {Absent}]
      BY <1>2, <1>7, <1>11
    <2>3. [k \in Keys |-> IF k \in replayed THEN r(k) ELSE s.receipts[k]]
            \in [Keys -> Receipt \cup {Absent}]
      BY <1>2, <1>9
    <2>4. [k \in Keys |-> IF k \in replayed THEN Absent ELSE s.quarantine[k]]
            \in [Keys -> Batch \cup {Absent}]
      BY <1>2
    <2> QED BY <1>4, <1>13, <2>1, <2>2, <2>3, <2>4, StoreIntro
  <1>15. \A k \in Keys :
            /\ t.batches[k] = IF k \in replayed THEN b(k) ELSE s.batches[k]
            /\ t.receipts[k] = IF k \in replayed THEN r(k) ELSE s.receipts[k]
            /\ t.quarantine[k] = IF k \in replayed THEN Absent ELSE s.quarantine[k]
    BY <1>13
  <1>16. \A n \in Seqs : t.fifo[n] = IF \E k \in replayed : order[k] = n
                                     THEN owner(n) ELSE s.fifo[n]
    BY <1>13
  <1>17. t.seq = top
    BY <1>13
  <1>18. \A k \in Keys : s.batches[k] # Absent =>
            s.batches[k].seq \in Int /\ s.batches[k].seq <= s.seq
    BY <1>1, <1>2 DEF Consistent, SequencesDistinct, Queued, Batch, Seqs
  <1>19. FifoIndexExact(t)
    <2> SUFFICES ASSUME NEW n \in Seqs, NEW k \in Keys
                 PROVE  t.fifo[n] = k <=> t.batches[k] # Absent /\ t.batches[k].seq = n
      BY DEF FifoIndexExact
    <2>1. s.fifo[n] = k <=> s.batches[k] # Absent /\ s.batches[k].seq = n
      BY <1>1 DEF Consistent, FifoIndexExact
    <2>2. CASE \E j \in replayed : order[j] = n
      <3>1. PICK j \in replayed : order[j] = n
        BY <2>2
      <3>2. t.fifo[n] = j
        BY <2>2, <3>1, <1>11, <1>16
      <3>3. n > s.seq /\ n \in Int
        BY <1>6, <3>1 DEF Seqs
      <3>4. CASE k \in replayed
        BY <3>1, <3>2, <3>4, <1>8, <1>10, <1>15
      <3>5. CASE k \notin replayed
        BY <3>1, <3>2, <3>3, <3>5, <1>2, <1>15, <1>18
      <3> QED BY <3>4, <3>5
    <2>3. CASE ~ \E j \in replayed : order[j] = n
      BY <2>1, <2>3, <1>7, <1>8, <1>15, <1>16
    <2> QED BY <2>2, <2>3
  <1>20. PendingIffQueued(t)
    BY <1>1, <1>8, <1>9, <1>15 DEF Consistent, PendingIffQueued
  <1>21. Quarantined(t) = Quarantined(s) \ replayed /\ Queued(t) = Queued(s) \cup replayed
    BY <1>7, <1>8, <1>15 DEF Quarantined, Queued
  <1>22. QuarantineHasReceipt(t)
    BY <1>1, <1>15, <1>21 DEF Consistent, QuarantineHasReceipt, Quarantined
  <1>23. PayloadMatchesReceipt(t)
    BY <1>1, <1>7, <1>8, <1>9, <1>15, <1>21
    DEF Consistent, PayloadMatchesReceipt, Quarantined, Queued
  <1>24. CompletionTimes(t)
    BY <1>1, <1>9, <1>15 DEF Consistent, CompletionTimes
  <1>25. SequencesDistinct(t)
    <2>1. \A k \in Quarantined(t) : /\ k \in Quarantined(s) /\ k \in Keys
                                    /\ t.quarantine[k] = s.quarantine[k]
                                    /\ s.quarantine[k].seq \in Int
                                    /\ s.quarantine[k].seq <= s.seq
      BY <1>1, <1>2, <1>15, <1>21
      DEF Quarantined, Consistent, SequencesDistinct, Batch, Seqs
    <2>2. s.seq \in Int /\ top \in Int /\ s.seq <= top
      BY <1>2, <1>3 DEF top
    <2>3. \A k \in Queued(t) : /\ k \in Keys
                               /\ \/ k \in replayed /\ t.batches[k].seq = order[k]
                                  \/ k \in Queued(s) /\ t.batches[k] = s.batches[k]
      BY <1>7, <1>8, <1>15, <1>21 DEF Queued
    <2>4. \A k \in replayed : order[k] \in Int /\ order[k] > s.seq /\ order[k] <= top
      BY <1>6 DEF Seqs
    <2>5. \A k \in Queued(t) : t.batches[k].seq <= t.seq
      BY <2>2, <2>3, <2>4, <1>17, <1>18 DEF Queued
    <2>6. \A k \in Quarantined(t) : t.quarantine[k].seq <= t.seq
      BY <2>1, <2>2, <1>17
    <2>7. \A j, k \in Quarantined(t) : t.quarantine[j].seq = t.quarantine[k].seq => j = k
      BY <2>1, <1>1 DEF Consistent, SequencesDistinct
    <2>8. \A j \in Queued(t), k \in Quarantined(t) : t.batches[j].seq # t.quarantine[k].seq
      <3> TAKE j \in Queued(t), k \in Quarantined(t)
      <3>1. CASE j \in replayed /\ t.batches[j].seq = order[j]
        BY <3>1, <2>1, <2>2, <2>4
      <3>2. CASE j \in Queued(s) /\ t.batches[j] = s.batches[j]
        BY <3>2, <2>1, <1>1 DEF Consistent, SequencesDistinct
      <3> QED BY <2>3, <3>1, <3>2
    <2> QED BY <2>5, <2>6, <2>7, <2>8 DEF SequencesDistinct
  <1> QED BY <1>14, <1>19, <1>20, <1>22, <1>23, <1>24, <1>25 DEF Good, Consistent, t

-----------------------------------------------------------------------------
(* The payloads a transaction keeps. *)

\* Accept keeps every payload the inbox holds and adds its own, the first under
\* its key.
LEMMA AcceptTxHolds ==
    ASSUME NEW s, Good(s), NEW k \in Keys, NEW d \in Digests, NEW now \in Time \ {0},
           AcceptOutcome(s, k, d) = "accepted", s.seq < MaxSeq
    PROVE  /\ \A e \in Digests : ~Holds(s, k, e)
           /\ \A j \in Keys, e \in Digests :
                  Holds(AcceptTx(s, k, d, now), j, e)
                      <=> Holds(s, j, e) \/ (j = k /\ e = d)
  <1> DEFINE n == s.seq + 1
             b == [digest |-> d, seq |-> n, acceptedAt |-> now, attempts |-> 0, nextRetry |-> 0]
             t == AcceptTx(s, k, d, now)
  <1>1. s.batches \in [Keys -> Batch \cup {Absent}] /\ s.seq \in 0..MaxSeq
    BY StoreFields DEF Good
  <1>2. b \in Batch
    BY <1>1, BoundsAssumption DEF Batch, Time, Seqs
  <1>3. b # Absent
    BY <1>2, AbsentAssumption
  <1>4. t.batches = [s.batches EXCEPT ![k] = b] /\ t.quarantine = s.quarantine
    BY DEF AcceptTx
  <1>5. s.batches[k] = Absent /\ s.quarantine[k] = Absent
    BY DEF AcceptOutcome, Good, Consistent, PendingIffQueued, QuarantineHasReceipt, Quarantined
  <1>6. t.batches[k] = b /\ b.digest = d
    BY <1>1, <1>4
  <1> QED BY <1>1, <1>3, <1>4, <1>5, <1>6 DEF Holds

\* Recording a retry keeps every payload.
LEMMA RetryTxHolds ==
    ASSUME NEW s, Good(s), NEW k \in Queued(s), NEW retryAt \in Time,
           s.batches[k].attempts < MaxAttempts
    PROVE  \A j \in Keys, e \in Digests :
               Holds(RetryTx(s, k, retryAt), j, e) <=> Holds(s, j, e)
  <1> DEFINE t == RetryTx(s, k, retryAt)
             b == [s.batches[k] EXCEPT !.attempts = s.batches[k].attempts + 1,
                                       !.nextRetry = retryAt]
  <1>1. /\ s \in Store /\ k \in Keys /\ s.batches[k] # Absent
        /\ s.batches \in [Keys -> Batch \cup {Absent}]
    BY StoreFields DEF Good, Queued
  <1>2. t.batches = [s.batches EXCEPT ![k] = b] /\ t.quarantine = s.quarantine
    BY <1>1 DEF RetryTx, Store
  <1>3. t.batches[k] = b /\ b.digest = s.batches[k].digest
    BY <1>1, <1>2 DEF Batch
  <1>4. t \in Store /\ Consistent(t) /\ PendingIffQueued(s) /\ t.receipts = s.receipts
    BY <1>1, RetryTxGood DEF Good, Consistent, RetryTx, Store
  <1>5. t.batches[k] # Absent
    BY <1>1, <1>4 DEF Consistent, PendingIffQueued
  <1> QED BY <1>1, <1>2, <1>3, <1>5 DEF Holds

\* Recording a delivery drops the payload of its batch and no other.
LEMMA DeliveredTxHolds ==
    ASSUME NEW s, Good(s), NEW k \in Queued(s), NEW at \in Time \ {0}
    PROVE  \A j \in Keys, e \in Digests :
               Holds(DeliveredTx(s, k, at), j, e) <=> j # k /\ Holds(s, j, e)
  <1>1. s.quarantine[k] = Absent
    BY DEF Good, Consistent, PendingIffQueued, QuarantineHasReceipt, Queued, Quarantined
  <1> QED BY <1>1, StoreFields DEF Good, DeliveredTx, Holds

\* Moving a batch to quarantine keeps every payload, its own included.
LEMMA QuarantinedTxHolds ==
    ASSUME NEW s, Good(s), NEW k \in Queued(s), NEW at \in Time \ {0}
    PROVE  \A j \in Keys, e \in Digests :
               Holds(QuarantinedTx(s, k, at), j, e) <=> Holds(s, j, e)
  <1> DEFINE t == QuarantinedTx(s, k, at)
  <1>1. /\ k \in Keys /\ s.batches[k] # Absent
        /\ s.batches \in [Keys -> Batch \cup {Absent}]
        /\ s.quarantine \in [Keys -> Batch \cup {Absent}]
    BY StoreFields DEF Good, Queued
  <1>2. \A j \in Keys : /\ t.batches[j] = IF j = k THEN Absent ELSE s.batches[j]
                        /\ t.quarantine[j] = IF j = k THEN s.batches[k] ELSE s.quarantine[j]
    BY <1>1 DEF QuarantinedTx
  <1>3. s.quarantine[k] = Absent
    BY <1>1 DEF Good, Consistent, PendingIffQueued, QuarantineHasReceipt, Quarantined
  <1> QED BY <1>1, <1>2, <1>3 DEF Holds

\* Replaying quarantined batches keeps every payload.
LEMMA ReplayTxHolds ==
    ASSUME NEW s, Good(s), NEW replayed, replayed \subseteq Quarantined(s),
           NEW order \in ReplayOrders(s, replayed),
           s.seq + Cardinality(replayed) <= MaxSeq
    PROVE  \A j \in Keys, e \in Digests :
               Holds(ReplayTx(s, order), j, e) <=> Holds(s, j, e)
  <1> DEFINE t == ReplayTx(s, order)
  <1>1. /\ replayed \subseteq Keys
        /\ \A j \in replayed : s.quarantine[j] # Absent /\ s.quarantine[j] \in Batch
        /\ DOMAIN order = replayed
    BY StoreFields DEF Good, Quarantined, ReplayOrders
  <1>2. \A j \in Keys :
            IF j \in replayed
            THEN t.batches[j] = [s.quarantine[j] EXCEPT
                                    !.seq = order[j], !.attempts = 0, !.nextRetry = 0]
            ELSE t.batches[j] = s.batches[j] /\ t.quarantine[j] = s.quarantine[j]
    BY <1>1 DEF ReplayTx
  <1>3. \A j \in replayed : t.batches[j].digest = s.quarantine[j].digest
    BY <1>1, <1>2 DEF Batch
  <1>4. Good(t) /\ \A j \in replayed : t.receipts[j].state = "pending" /\ t.quarantine[j] = Absent
    <2>1. \A j \in replayed : s.receipts[j] \in Receipt
      BY <1>1, StoreFields DEF Good, Consistent, QuarantineHasReceipt, Quarantined
    <2>2. \A j \in replayed :
              /\ t.receipts[j] = [s.receipts[j] EXCEPT !.state = "pending", !.completedAt = 0]
              /\ t.quarantine[j] = Absent
      BY <1>1 DEF ReplayTx
    <2> QED BY <2>1, <2>2, ReplayTxGood DEF Receipt
  <1>5. \A j \in replayed : t.batches[j] # Absent
    <2> TAKE j \in replayed
    <2>1. s.receipts[j] \in Receipt
      BY <1>1, StoreFields DEF Good, Consistent, QuarantineHasReceipt, Quarantined
    <2>2. t.receipts[j] = [s.receipts[j] EXCEPT !.state = "pending", !.completedAt = 0]
      BY <1>1 DEF ReplayTx
    <2>3. t.receipts[j] \in Receipt
      <3> DEFINE r == s.receipts[j]
      <3> HIDE DEF r, t
      <3>1. t.receipts[j] = [r EXCEPT !.state = "pending", !.completedAt = 0]
        BY <2>2 DEF r
      <3>2. r \in Receipt /\ 0 \in Time
        BY <2>1, BoundsAssumption DEF r, Time
      <3> QED BY <3>1, <3>2 DEF Receipt, ReceiptState
    <2>4. t.receipts[j] # Absent
      BY <2>3, AbsentAssumption
    <2> QED BY <1>1, <1>4, <2>4 DEF Good, Consistent, PendingIffQueued
  <1>6. \A j \in replayed : s.batches[j] = Absent
    BY <1>1 DEF Good, Consistent, PendingIffQueued, QuarantineHasReceipt, Quarantined
  <1>7. ASSUME NEW j \in replayed, NEW e PROVE Holds(t, j, e) <=> Holds(s, j, e)
    BY <1>1, <1>3, <1>4, <1>5, <1>6 DEF Holds
  <1>8. ASSUME NEW j \in Keys \ replayed, NEW e PROVE Holds(t, j, e) <=> Holds(s, j, e)
    BY <1>2 DEF Holds
  <1> QED BY <1>7, <1>8

-----------------------------------------------------------------------------
(* The steps of the inbox *)

\* The transaction tx keeps every payload outside discharged and holds what
\* its fsync is going to acknowledge.
SoundCommit(tx, grants, discharged) ==
    /\ CanWrite
    /\ Good(tx)
    /\ grants \in SUBSET (Keys \X Digests)
    /\ \A a \in grants : Holds(tx, a[1], a[2])
    /\ \A j \in Keys \ discharged, e \in Digests : Holds(db, j, e) => Holds(tx, j, e)
    /\ Commit(tx, grants, discharged)

CommitStep == \E tx, grants, discharged : SoundCommit(tx, grants, discharged)

\* The steps that commit nothing.
QuietStep ==
    \/ \E k \in Keys, d \in Digests : AcceptDuplicate(k, d)
    \/ SyncDone \/ SyncFailed \/ Close \/ Open \/ Kill \/ PowerLoss \/ Writeback \/ Tick

\* The invariant holds of a new, empty inbox.
LEMMA InitInv == Init => IInv
  <1> SUFFICES ASSUME Init PROVE IInv
    OBVIOUS
  <1>1. Good(EmptyStore) /\ 1 \in Time \ {0}
    BY EmptyStoreGood, BoundsAssumption DEF Time
  <1> QED BY <1>1 DEF Init, IInv, TypeOK, StoresConsistent, OwnershipInv, Good, Idle

\* Every transaction of the inbox is a sound one.
LEMMA CommitsAreSound == IInv /\ Next => CommitStep \/ QuietStep
  <1> SUFFICES ASSUME IInv, Next PROVE CommitStep \/ QuietStep
    OBVIOUS
  <1>1. Good(db) /\ Good(disk) /\ TypeOK /\ OwnershipInv
    BY DEF IInv, TypeOK, StoresConsistent, Good
  <1>2. 1..clock \subseteq Time \ {0}
    BY <1>1, BoundsAssumption DEF TypeOK, Time
  <1>3. ASSUME NEW k \in Keys, NEW d \in Digests, Accept(k, d) PROVE CommitStep
    <2>1. /\ CanWrite /\ AcceptOutcome(db, k, d) = "accepted" /\ db.seq < MaxSeq
          /\ Commit(AcceptTx(db, k, d, clock), {<<k, d>>}, {})
      BY <1>3 DEF Accept
    <2>2. clock \in Time \ {0}
      BY <1>1 DEF TypeOK
    <2>3. /\ Good(AcceptTx(db, k, d, clock)) /\ Holds(AcceptTx(db, k, d, clock), k, d)
          /\ \A j \in Keys, e \in Digests :
                 Holds(db, j, e) => Holds(AcceptTx(db, k, d, clock), j, e)
      BY <1>1, <2>1, <2>2, AcceptTxGood, AcceptTxHolds
    <2> QED BY <2>1, <2>3 DEF CommitStep, SoundCommit
  <1>5. ASSUME NEW k \in Keys, NEW at \in 1..clock, MarkDelivered(k, at) PROVE CommitStep
    <2>1. CanWrite /\ k \in Queued(db) /\ Commit(DeliveredTx(db, k, at), {}, {k})
      BY <1>5 DEF MarkDelivered
    <2>2. Good(DeliveredTx(db, k, at))
      BY <1>1, <1>2, <2>1, DeliveredTxGood
    <2>3. \A j \in Keys \ {k}, e \in Digests :
              Holds(db, j, e) => Holds(DeliveredTx(db, k, at), j, e)
      BY <1>1, <1>2, <2>1, DeliveredTxHolds
    <2> QED BY <2>1, <2>2, <2>3 DEF CommitStep, SoundCommit
  <1>6. ASSUME NEW k \in Keys, NEW at \in 1..clock, MarkQuarantined(k, at) PROVE CommitStep
    <2>1. CanWrite /\ k \in Queued(db) /\ Commit(QuarantinedTx(db, k, at), {}, {})
      BY <1>6 DEF MarkQuarantined
    <2>2. Good(QuarantinedTx(db, k, at))
      BY <1>1, <1>2, <2>1, QuarantinedTxGood
    <2>3. \A j \in Keys, e \in Digests :
              Holds(db, j, e) => Holds(QuarantinedTx(db, k, at), j, e)
      BY <1>1, <1>2, <2>1, QuarantinedTxHolds
    <2> QED BY <2>1, <2>2, <2>3 DEF CommitStep, SoundCommit
  <1>7. ASSUME NEW k \in Keys, NEW retryAt \in RetryTimes, MarkRetry(k, retryAt) PROVE CommitStep
    <2>1. /\ CanWrite /\ k \in Queued(db) /\ db.batches[k].attempts < MaxAttempts
          /\ Commit(RetryTx(db, k, retryAt), {}, {})
      BY <1>7 DEF MarkRetry
    <2>2. retryAt \in Time
      BY RetryAssumption
    <2>3. Good(RetryTx(db, k, retryAt))
      BY <1>1, <2>1, <2>2, RetryTxGood
    <2>4. \A j \in Keys, e \in Digests : Holds(db, j, e) => Holds(RetryTx(db, k, retryAt), j, e)
      BY <1>1, <2>1, <2>2, RetryTxHolds
    <2> QED BY <2>1, <2>3, <2>4 DEF CommitStep, SoundCommit
  <1>8. ASSUME CollectReceipts PROVE CommitStep
    <2> DEFINE tx == CollectTx(db, clock)
    <2>1. CanWrite /\ Commit(tx, {}, Quarantined(db) \ Quarantined(tx))
      BY <1>8 DEF CollectReceipts
    <2>2. /\ Good(tx) /\ tx.batches = db.batches
          /\ \A k \in Quarantined(tx) : tx.quarantine[k] = db.quarantine[k]
      BY <1>1, CollectTxGood DEF TypeOK
    <2>3. \A j \in Keys \ (Quarantined(db) \ Quarantined(tx)), e \in Digests :
              Holds(db, j, e) => Holds(tx, j, e)
      <3> HIDE DEF tx
      <3> QED BY <2>2 DEF Holds, Quarantined
    <2> HIDE DEF tx
    <2> QED BY <2>1, <2>2, <2>3 DEF CommitStep, SoundCommit
  <1>9. ASSUME NEW replayed \in SUBSET Quarantined(db), Replay(replayed) PROVE CommitStep
    <2>1. CanWrite /\ db.seq + Cardinality(replayed) <= MaxSeq
      BY <1>9 DEF Replay
    <2>2. PICK order \in ReplayOrders(db, replayed) : Commit(ReplayTx(db, order), {}, {})
      BY <1>9 DEF Replay
    <2>3. Good(ReplayTx(db, order))
      BY <1>1, <2>1, ReplayTxGood
    <2>4. \A j \in Keys, e \in Digests : Holds(db, j, e) => Holds(ReplayTx(db, order), j, e)
      BY <1>1, <2>1, ReplayTxHolds
    <2> QED BY <2>1, <2>2, <2>3, <2>4 DEF CommitStep, SoundCommit
  <1>10. ASSUME NEW k \in Keys, ReplayQuarantined(k) PROVE CommitStep
    BY <1>9, <1>10 DEF ReplayQuarantined
  <1>11. CASE ReplayAllQuarantined
    BY <1>9, <1>11 DEF ReplayAllQuarantined
  <1>12. CASE Sync
    <2>1. CanWrite /\ Commit(db, {}, {})
      BY <1>12 DEF Sync
    <2> QED BY <1>1, <2>1 DEF CommitStep, SoundCommit
  <1> QED BY <1>3, <1>5, <1>6, <1>7, <1>8, <1>10, <1>11, <1>12 DEF Next, QuietStep

\* A sound transaction preserves the invariant: what is owned stays held.
LEMMA CommitKeepsInv == IInv /\ CommitStep => IInv'
  <1> SUFFICES ASSUME IInv, NEW tx, NEW grants, NEW discharged,
                      SoundCommit(tx, grants, discharged)
               PROVE  IInv'
    BY DEF CommitStep
  <1> USE DEF SoundCommit, Commit
  <1>1. TypeOK'
    BY DEF IInv, TypeOK, Good, Syncing
  <1>2. StoresConsistent'
    BY DEF IInv, StoresConsistent, Good
  <1>3. OwnershipInv'
    <2>1. \A a \in owned' : /\ a \in owned /\ a[1] \in Keys \ discharged /\ a[2] \in Digests
      BY DEF IInv, TypeOK
    <2>2. \A a \in owned' : Holds(db', a[1], a[2]) /\ Holds(disk', a[1], a[2])
      BY <2>1 DEF IInv, OwnershipInv, Holds
    <2>3. writer'.grants = grants
      BY DEF Syncing
    <2> QED BY <2>2, <2>3 DEF OwnershipInv, Holds
  <1> QED BY <1>1, <1>2, <1>3 DEF IInv

\* Every step of the inbox preserves the invariant.
LEMMA NextInv == IInv /\ [Next]_vars => IInv'
  <1> SUFFICES ASSUME IInv, [Next]_vars PROVE IInv'
    OBVIOUS
  <1>1. Good(db) /\ Good(disk) /\ TypeOK /\ OwnershipInv
    BY DEF IInv, TypeOK, StoresConsistent, Good
  <1>4. ASSUME NEW k \in Keys, NEW d \in Digests, AcceptDuplicate(k, d) PROVE IInv'
    BY <1>1, <1>4 DEF AcceptDuplicate, IInv, TypeOK, StoresConsistent, OwnershipInv, Good, Holds
  <1>13. CASE SyncDone
    BY <1>1, <1>13
    DEF SyncDone, IInv, TypeOK, StoresConsistent, OwnershipInv, Good, Idle, Holds
  <1>14. CASE SyncFailed
    BY <1>1, <1>14
    DEF SyncFailed, IInv, TypeOK, StoresConsistent, OwnershipInv, Good, Idle, Holds
  <1>15. CASE Close
    BY <1>1, <1>15
    DEF Close, IInv, TypeOK, StoresConsistent, OwnershipInv, Good, Syncing, Holds
  <1>16. CASE Open
    BY <1>1, <1>16
    DEF Open, IInv, TypeOK, StoresConsistent, OwnershipInv, Good, Holds
  <1>17. CASE Kill
    BY <1>1, <1>17
    DEF Kill, IInv, TypeOK, StoresConsistent, OwnershipInv, Good, Idle, Holds
  <1>18. CASE PowerLoss
    BY <1>1, <1>18
    DEF PowerLoss, IInv, TypeOK, StoresConsistent, OwnershipInv, Good, Idle, Holds
  <1>19. CASE Writeback
    BY <1>1, <1>19
    DEF Writeback, IInv, TypeOK, StoresConsistent, OwnershipInv, Good, Holds
  <1>20. CASE Tick
    <2>1. clock + 1 \in Time \ {0}
      BY <1>1, <1>20, BoundsAssumption DEF Tick, TypeOK, Time
    <2> QED BY <1>1, <1>20, <2>1
        DEF Tick, IInv, TypeOK, StoresConsistent, OwnershipInv, Good, Holds
  <1>21. CASE UNCHANGED vars
    BY <1>21 DEF vars, IInv, TypeOK, StoresConsistent, OwnershipInv, Holds
  <1> QED BY <1>4, <1>13, <1>14, <1>15, <1>16, <1>17, <1>18, <1>19, <1>20, <1>21,
             CommitsAreSound, CommitKeepsInv DEF QuietStep

\* The state of the inbox has its type in every reachable state.
THEOREM TypeCorrect == Spec => []TypeOK
  <1>1. IInv => TypeOK
    BY DEF IInv
  <1> QED BY <1>1, InitInv, NextInv, PTL DEF Spec

\* Every committed store, and every store a crash can leave, is consistent.
THEOREM StoresStayConsistent == Spec => []StoresConsistent
  <1>1. IInv => StoresConsistent
    BY DEF IInv
  <1> QED BY <1>1, InitInv, NextInv, PTL DEF Spec

\* No crash, failed fsync or re-upload loses a batch that Accept has
\* acknowledged as accepted.
THEOREM AcceptedIsDurable == Spec => []AcceptedSurvivesPowerLoss
  <1>1. IInv => AcceptedSurvivesPowerLoss
    BY DEF IInv, OwnershipInv, AcceptedSurvivesPowerLoss
  <1> QED BY <1>1, InitInv, NextInv, PTL DEF Spec

-----------------------------------------------------------------------------
(* Duplicates, when fsync reports no errors. *)

\* The invariant about duplicates holds of a new, empty inbox.
LEMMA DuplicateInit == Init => DuplicateInv
  BY DEF Init, DuplicateInv, SyncedBetweenCalls

\* A transaction keeps what a duplicate has vouched for, and hides the
\* unsynced store from new duplicates until its fsync has ended.
LEMMA CommitKeepsDuplicates == IInv /\ DuplicateInv /\ CommitStep => DuplicateInv'
  <1> SUFFICES ASSUME IInv, DuplicateInv, NEW tx, NEW grants, NEW discharged,
                      SoundCommit(tx, grants, discharged)
               PROVE  DuplicateInv'
    BY DEF CommitStep
  <1> USE DEF SoundCommit, Commit
  <1>1. SyncedBetweenCalls'
    BY DEF SyncedBetweenCalls, Syncing
  <1>2. \A a \in vouched' : a \in vouched /\ a[1] \in Keys \ discharged /\ a[2] \in Digests
    BY DEF IInv, TypeOK
  <1>3. \A a \in vouched' : Holds(db', a[1], a[2]) /\ Holds(disk', a[1], a[2])
    BY <1>2 DEF DuplicateInv, Holds
  <1> QED BY <1>1, <1>3 DEF DuplicateInv

\* Every step preserves the invariant about duplicates if fsync cannot fail.
LEMMA DuplicateNext ==
    ASSUME SyncMayFail = FALSE
    PROVE  IInv /\ DuplicateInv /\ [Next]_vars => DuplicateInv'
  <1> SUFFICES ASSUME IInv, DuplicateInv, [Next]_vars PROVE DuplicateInv'
    OBVIOUS
  <1> USE DEF DuplicateInv, SyncedBetweenCalls
  <1>1. ASSUME NEW k \in Keys, NEW d \in Digests, AcceptDuplicate(k, d) PROVE DuplicateInv'
    <2>1. disk = db /\ UNCHANGED <<db, disk, open, writer>>
      BY <1>1 DEF AcceptDuplicate, CanWrite
    <2>2. \A a \in vouched' : a \in vouched \/ Holds(db, a[1], a[2])
      BY <1>1 DEF AcceptDuplicate
    <2> QED BY <2>1, <2>2 DEF Holds
  <1>2. CASE SyncDone
    BY <1>2 DEF SyncDone, Holds
  <1>3. CASE SyncFailed
    BY <1>3 DEF SyncFailed
  <1>4. CASE Close
    BY <1>4 DEF Close, Holds
  <1>5. CASE Open
    BY <1>5 DEF Open, Holds
  <1>6. CASE Kill
    BY <1>6 DEF Kill, Holds
  <1>7. CASE PowerLoss
    BY <1>7 DEF PowerLoss, Holds
  <1>8. CASE Writeback
    BY <1>8 DEF Writeback, Holds
  <1>9. CASE Tick
    BY <1>9 DEF Tick, Holds
  <1>10. CASE UNCHANGED vars
    BY <1>10 DEF vars, Holds
  <1> QED BY <1>1, <1>2, <1>3, <1>4, <1>5, <1>6, <1>7, <1>8, <1>9, <1>10,
             CommitsAreSound, CommitKeepsDuplicates DEF QuietStep

\* As long as fsync reports no error, a batch acknowledged as duplicate
\* survives every crash like one acknowledged as accepted.
THEOREM DuplicateIsDurable ==
    ASSUME SyncMayFail = FALSE
    PROVE  Spec => []DuplicateSurvivesPowerLoss
  <1>1. DuplicateInv => DuplicateSurvivesPowerLoss
    BY DEF DuplicateInv, DuplicateSurvivesPowerLoss
  <1>2. IInv /\ DuplicateInv /\ [Next]_vars => DuplicateInv'
    BY DuplicateNext
  <1> QED BY <1>1, <1>2, InitInv, NextInv, DuplicateInit, PTL DEF Spec

-----------------------------------------------------------------------------
(* The inbox implements the ledger: its initial state is the ledger's, and *)
(* under the inductive invariant each of its steps is a step of the ledger *)
(* or changes nothing there.                                               *)

\* The ledger as the inbox presents it.
Shown == <<Contents(db), Contents(disk), owned>>

\* A new inbox is an empty ledger.
LEMMA InitImplements == Init => Ledger!Init
  BY DEF Init, Ledger!Init, Contents, EmptyStore, Holds

\* A commit acknowledges nothing yet and leaves the disk to the fsync.
LEMMA CommitShows ==
    ASSUME IInv, NEW tx, NEW grants, NEW discharged, Commit(tx, grants, discharged)
    PROVE  /\ Contents(db)' = Contents(tx)
           /\ Contents(disk)' = Contents(disk)
           /\ owned' = {a \in owned : a[1] \notin discharged}
  BY DEF Commit, Contents, Holds

\* A transaction that keeps what is held and discharges nothing is a stutter.
LEMMA KeepingStutters ==
    ASSUME IInv, NEW tx, Commit(tx, {}, {}),
           \A j \in Keys, e \in Digests : Holds(tx, j, e) <=> Holds(db, j, e)
    PROVE  UNCHANGED Shown
  <1>1. Contents(tx) = Contents(db)
    BY DEF Contents
  <1>2. /\ Contents(db)' = Contents(tx) /\ Contents(disk)' = Contents(disk)
        /\ owned' = {a \in owned : a[1] \notin {}}
    BY CommitShows
  <1> QED BY <1>1, <1>2 DEF Shown

\* An accepted upload is put under a new key.
LEMMA AcceptPuts ==
    ASSUME IInv, NEW k \in Keys, NEW d \in Digests, Accept(k, d)
    PROVE  Ledger!Put(k, d)
  <1> DEFINE tx == AcceptTx(db, k, d, clock)
  <1>1. /\ AcceptOutcome(db, k, d) = "accepted" /\ db.seq < MaxSeq
        /\ Commit(tx, {<<k, d>>}, {})
    BY DEF Accept
  <1>2. Good(db) /\ clock \in Time \ {0}
    BY DEF IInv, TypeOK, StoresConsistent, Good
  <1>3. /\ \A e \in Digests : ~Holds(db, k, e)
        /\ \A j \in Keys, e \in Digests :
               Holds(tx, j, e) <=> Holds(db, j, e) \/ (j = k /\ e = d)
    BY <1>1, <1>2, AcceptTxHolds
  <1> HIDE DEF tx
  <1>4. /\ Contents(db)' = Contents(tx) /\ Contents(disk)' = Contents(disk)
        /\ owned' = {a \in owned : a[1] \notin {}}
    BY <1>1, CommitShows
  <1>5. \A e \in Digests : <<k, e>> \notin Contents(db)
    BY <1>3 DEF Contents
  <1>6. Contents(tx) = Contents(db) \cup {<<k, d>>}
    BY <1>3 DEF Contents
  <1> QED BY <1>4, <1>5, <1>6 DEF Ledger!Put

\* A transaction that drops the payloads of some keys discharges them.
LEMMA DroppingDischarges ==
    ASSUME IInv, NEW tx, NEW ks \in SUBSET Keys, Commit(tx, {}, ks),
           \A j \in Keys, e \in Digests : Holds(tx, j, e) <=> j \notin ks /\ Holds(db, j, e)
    PROVE  Ledger!Discharge(ks)
  <1>1. Contents(tx) = {p \in Contents(db) : p[1] \notin ks}
    BY DEF Contents
  <1>2. /\ Contents(db)' = Contents(tx) /\ Contents(disk)' = Contents(disk)
        /\ owned' = {a \in owned : a[1] \notin ks}
    BY CommitShows
  <1> QED BY <1>1, <1>2 DEF Ledger!Discharge

\* Every step of the inbox is a step of the ledger or none.
LEMMA NextImplements == IInv /\ [Next]_vars => [Ledger!Next]_Shown
  <1> SUFFICES ASSUME IInv, [Next]_vars PROVE Ledger!Next \/ UNCHANGED Shown
    OBVIOUS
  <1>1. Good(db) /\ TypeOK /\ OwnershipInv
    BY DEF IInv, TypeOK, StoresConsistent, Good
  <1>2. 1..clock \subseteq Time \ {0}
    BY <1>1, BoundsAssumption DEF TypeOK, Time
  <1>3. ASSUME NEW k \in Keys, NEW d \in Digests, Accept(k, d) PROVE Ledger!Next
    BY <1>3, AcceptPuts DEF Ledger!Next
  <1>4. ASSUME NEW k \in Keys, NEW d \in Digests, AcceptDuplicate(k, d) PROVE UNCHANGED Shown
    BY <1>4 DEF AcceptDuplicate, Shown, Contents, Holds
  <1>5. ASSUME NEW k \in Keys, NEW at \in 1..clock, MarkDelivered(k, at) PROVE Ledger!Next
    <2>1. k \in Queued(db) /\ Commit(DeliveredTx(db, k, at), {}, {k})
      BY <1>5 DEF MarkDelivered
    <2>2. \A j \in Keys, e \in Digests :
              Holds(DeliveredTx(db, k, at), j, e) <=> j \notin {k} /\ Holds(db, j, e)
      BY <1>1, <1>2, <2>1, DeliveredTxHolds
    <2>3. Ledger!Discharge({k})
      BY <2>1, <2>2, DroppingDischarges
    <2> QED BY <2>3 DEF Ledger!Next
  <1>6. ASSUME NEW k \in Keys, NEW at \in 1..clock, MarkQuarantined(k, at)
        PROVE  UNCHANGED Shown
    <2>1. k \in Queued(db) /\ Commit(QuarantinedTx(db, k, at), {}, {})
      BY <1>6 DEF MarkQuarantined
    <2> QED BY <1>1, <1>2, <2>1, QuarantinedTxHolds, KeepingStutters
  <1>7. ASSUME NEW k \in Keys, NEW retryAt \in RetryTimes, MarkRetry(k, retryAt)
        PROVE  UNCHANGED Shown
    <2>1. /\ k \in Queued(db) /\ db.batches[k].attempts < MaxAttempts
          /\ Commit(RetryTx(db, k, retryAt), {}, {})
      BY <1>7 DEF MarkRetry
    <2> QED BY <1>1, <2>1, RetryAssumption, RetryTxHolds, KeepingStutters
  <1>8. CASE CollectReceipts
    <2> DEFINE tx == CollectTx(db, clock)
               gone == Quarantined(db) \ Quarantined(tx)
    <2>1. Commit(tx, {}, gone)
      BY <1>8 DEF CollectReceipts
    <2>2. /\ tx.batches = db.batches /\ Quarantined(tx) \subseteq Quarantined(db)
          /\ \A k \in Quarantined(tx) : tx.quarantine[k] = db.quarantine[k]
      BY <1>1, CollectTxGood DEF TypeOK
    <2>3. \A k \in gone : db.batches[k] = Absent
      BY <1>1 DEF Good, Consistent, PendingIffQueued, QuarantineHasReceipt, Quarantined
    <2>4. gone \in SUBSET Keys
      BY DEF Quarantined
    <2> HIDE DEF tx
    <2>5. \A j \in Keys, e \in Digests : Holds(tx, j, e) <=> j \notin gone /\ Holds(db, j, e)
      BY <2>2, <2>3 DEF Holds, Quarantined
    <2>6. Ledger!Discharge(gone)
      BY <2>1, <2>4, <2>5, DroppingDischarges
    <2> QED BY <2>4, <2>6 DEF Ledger!Next
  <1>9. ASSUME NEW replayed \in SUBSET Quarantined(db), Replay(replayed) PROVE UNCHANGED Shown
    <2>1. PICK order \in ReplayOrders(db, replayed) : Commit(ReplayTx(db, order), {}, {})
      BY <1>9 DEF Replay
    <2>2. db.seq + Cardinality(replayed) <= MaxSeq
      BY <1>9 DEF Replay
    <2>3. \A j \in Keys, e \in Digests : Holds(ReplayTx(db, order), j, e) <=> Holds(db, j, e)
      BY <1>1, <2>2, ReplayTxHolds
    <2> QED BY <2>1, <2>3, KeepingStutters
  <1>10. ASSUME NEW k \in Keys, ReplayQuarantined(k) PROVE UNCHANGED Shown
    BY <1>9, <1>10 DEF ReplayQuarantined
  <1>11. CASE ReplayAllQuarantined
    BY <1>9, <1>11 DEF ReplayAllQuarantined
  <1>12. CASE Sync
    BY <1>12, KeepingStutters DEF Sync
  <1>13. CASE SyncDone
    <2>1. writer.grants \in SUBSET (Keys \X Digests) /\ writer.grants \subseteq Contents(db)
      BY <1>1 DEF TypeOK, OwnershipInv, Contents
    <2>2. Ledger!Flush(writer.grants)
      BY <1>13, <2>1 DEF SyncDone, Ledger!Flush, Contents, Holds
    <2> QED BY <2>1, <2>2 DEF Ledger!Next, Ledger!Payloads
  <1>14. CASE Open \/ Writeback
    <2>1. disk' = db /\ UNCHANGED <<db, owned>>
      BY <1>14 DEF Open, Writeback
    <2>2. Ledger!Flush({})
      BY <2>1 DEF Ledger!Flush, Contents, Holds
    <2> QED BY <2>2 DEF Ledger!Next
  <1>15. CASE PowerLoss
    <2>1. Ledger!Crash
      BY <1>15 DEF PowerLoss, Ledger!Crash, Contents, Holds
    <2> QED BY <2>1 DEF Ledger!Next
  <1>16. CASE SyncFailed \/ Close \/ Kill \/ Tick \/ UNCHANGED vars
    BY <1>16 DEF SyncFailed, Close, Kill, Tick, vars, Shown, Contents, Holds
  <1> QED BY <1>3, <1>4, <1>5, <1>6, <1>7, <1>8, <1>10, <1>11, <1>12, <1>13, <1>14,
             <1>15, <1>16 DEF Next

\* The inbox implements the ledger of what it has acknowledged.
THEOREM InboxImplementsLedger == Spec => ImplementsLedger
  <1>1. IInv /\ [Next]_vars => [Ledger!Next]_(Ledger!ledger)
    BY NextImplements DEF Shown, Ledger!ledger
  <1> QED BY <1>1, InitImplements, InitInv, NextInv, PTL
      DEF Spec, ImplementsLedger, Ledger!Spec

-----------------------------------------------------------------------------
(* What follows from the ledger alone: its promises are kept.  With the     *)
(* refinement they are promises of the inbox.                               *)

\* The invariant of the ledger, which its steps preserve as it stands.
LedgerInv == Ledger!LedgerTypeOK /\ Ledger!PromisesKept

\* Nothing is promised of an empty ledger.
LEMMA LedgerInit == Ledger!Init => LedgerInv
  BY DEF Ledger!Init, LedgerInv, Ledger!LedgerTypeOK, Ledger!PromisesKept, Ledger!OnePayload

\* Every step of the ledger preserves its invariant.
LEMMA LedgerNext == LedgerInv /\ [Ledger!Next]_Shown => LedgerInv'
  <1> SUFFICES ASSUME LedgerInv, [Ledger!Next]_Shown PROVE LedgerInv'
    OBVIOUS
  <1> USE DEF LedgerInv, Ledger!LedgerTypeOK, Ledger!PromisesKept, Ledger!OnePayload,
              Ledger!Payloads
  <1>1. ASSUME NEW k \in Keys, NEW d \in Digests, Ledger!Put(k, d) PROVE LedgerInv'
    <2>1. \A p \in Contents(db)' :
              p \in Keys \X Digests /\ (p \in Contents(db) \/ p = <<k, d>>)
      BY <1>1 DEF Ledger!Put
    <2>2. \A p \in Contents(db) : p \in Keys \X Digests /\ p[1] # k
      BY <1>1 DEF Ledger!Put
    <2>3. \A p, q \in Contents(db)' : p[1] = q[1] => p = q
      BY <2>1, <2>2
    <2>4. /\ Contents(disk)' = Contents(disk) /\ owned' = owned
          /\ Contents(db) \subseteq Contents(db)'
      BY <1>1 DEF Ledger!Put
    <2> QED BY <2>1, <2>3, <2>4
  <1>2. ASSUME NEW ks \in SUBSET Keys, Ledger!Discharge(ks) PROVE LedgerInv'
    BY <1>2 DEF Ledger!Discharge
  <1>3. ASSUME NEW acknowledged \in SUBSET (Keys \X Digests), Ledger!Flush(acknowledged)
        PROVE  LedgerInv'
    BY <1>3 DEF Ledger!Flush
  <1>4. CASE Ledger!Crash
    BY <1>4 DEF Ledger!Crash
  <1>5. CASE UNCHANGED Shown
    BY <1>5 DEF Shown
  <1> QED BY <1>1, <1>2, <1>3, <1>4, <1>5 DEF Ledger!Next

\* In every reachable state of the ledger what was promised is kept, and a
\* crash would leave it: the durability guarantee as the uploader sees it.
THEOREM PromisesAreKept == Ledger!Spec => []Ledger!PromisesKept
  <1>1. LedgerInv => Ledger!PromisesKept
    BY DEF LedgerInv
  <1>2. LedgerInv /\ [Ledger!Next]_(Ledger!ledger) => LedgerInv'
    BY LedgerNext DEF Ledger!ledger, Shown
  <1> QED BY <1>1, <1>2, LedgerInit, PTL DEF Ledger!Spec

\* The inbox keeps the promises of the ledger, because it implements it.
THEOREM InboxKeepsPromises == Spec => []Ledger!PromisesKept
  BY InboxImplementsLedger, PromisesAreKept, PTL DEF ImplementsLedger

-----------------------------------------------------------------------------
(* What a step of the running inbox may never do: reorder its queue,       *)
(* forget a receipt before its time, or evict a payload that there is room *)
(* for or that is newer than others.                                       *)

\* From the store s to t, batches that stay queued keep their numbers and
\* new ones get numbers that s has not handed out.
OrderKept(s, t) ==
    /\ \A k \in Queued(s) \cap Queued(t) : t.batches[k].seq = s.batches[k].seq
    /\ \A k \in Queued(t) \ Queued(s) : t.batches[k].seq > s.seq

\* A receipt of s that t does not have was expired at the time now.
ReceiptsKept(s, t, now) ==
    \A k \in Keys : s.receipts[k] # Absent /\ t.receipts[k] = Absent => k \in Expired(s, now)

\* The properties of one step, in terms of the stores around it.
StepSound == OrderKept(db, db') /\ ReceiptsKept(db, db', clock)

\* A completed receipt is a receipt.
LEMMA CompletedReceipt ==
    ASSUME NEW r \in Receipt, NEW state \in ReceiptState, NEW at \in Time
    PROVE  Completed(r, state, at) \in Receipt /\ Completed(r, state, at) # Absent
  <1>1. Completed(r, state, at) \in Receipt
    BY DEF Completed, Receipt
  <1> QED BY <1>1, AbsentAssumption

\* The same for the pending receipt of a replayed batch.
LEMMA ReopenedReceipt ==
    ASSUME NEW r \in Receipt
    PROVE  [r EXCEPT !.state = "pending", !.completedAt = 0] # Absent
  <1>1. 0 \in Time
    BY BoundsAssumption DEF Time
  <1>2. [r EXCEPT !.state = "pending", !.completedAt = 0] \in Receipt
    BY <1>1 DEF Receipt, ReceiptState
  <1> QED BY <1>2, AbsentAssumption

\* An accepted batch enters behind the queue.
LEMMA AcceptTxSound ==
    ASSUME NEW s, Good(s), NEW k \in Keys, NEW d \in Digests, NEW now \in Time \ {0},
           AcceptOutcome(s, k, d) = "accepted", s.seq < MaxSeq
    PROVE  /\ OrderKept(s, AcceptTx(s, k, d, now))
           /\ ReceiptsKept(s, AcceptTx(s, k, d, now), now)
  <1> DEFINE n == s.seq + 1
             b == [digest |-> d, seq |-> n, acceptedAt |-> now, attempts |-> 0, nextRetry |-> 0]
             t == AcceptTx(s, k, d, now)
  <1>1. /\ s.batches \in [Keys -> Batch \cup {Absent}]
        /\ s.receipts \in [Keys -> Receipt \cup {Absent}]
        /\ s.seq \in 0..MaxSeq /\ s.receipts[k] = Absent
    BY StoreFields DEF Good, AcceptOutcome
  <1>2. \A j \in Keys : /\ t.batches[j] = IF j = k THEN b ELSE s.batches[j]
                        /\ j # k => t.receipts[j] = s.receipts[j]
    BY <1>1 DEF AcceptTx
  <1>3. b.seq = n /\ n > s.seq
    BY <1>1, BoundsAssumption
  <1>4. s.batches[k] = Absent
    BY <1>1 DEF Good, Consistent, PendingIffQueued
  <1> HIDE DEF t, b, n
  <1>5. OrderKept(s, t)
    BY <1>2, <1>3, <1>4 DEF OrderKept, Queued
  <1>6. ReceiptsKept(s, t, now)
    BY <1>1, <1>2 DEF ReceiptsKept
  <1> QED BY <1>5, <1>6 DEF t

\* A retry leaves the queue as it is.
LEMMA RetryTxSound ==
    ASSUME NEW s, Good(s), NEW k \in Queued(s), NEW retryAt \in Time, NEW now
    PROVE  OrderKept(s, RetryTx(s, k, retryAt)) /\ ReceiptsKept(s, RetryTx(s, k, retryAt), now)
  <1> DEFINE b == [s.batches[k] EXCEPT !.attempts = s.batches[k].attempts + 1,
                                       !.nextRetry = retryAt]
             t == RetryTx(s, k, retryAt)
  <1>1. /\ s \in Store /\ k \in Keys /\ s.batches[k] # Absent
        /\ s.batches \in [Keys -> Batch \cup {Absent}]
    BY StoreFields DEF Good, Queued
  <1>2. t.batches = [s.batches EXCEPT ![k] = b] /\ t.receipts = s.receipts
    BY <1>1 DEF RetryTx, Store
  <1>3. b.seq = s.batches[k].seq
    BY <1>1 DEF Batch
  <1>4. \A j \in Keys : t.batches[j] = IF j = k THEN b ELSE s.batches[j]
    BY <1>1, <1>2
  <1> HIDE DEF t, b
  <1>5. OrderKept(s, t)
    BY <1>1, <1>3, <1>4 DEF OrderKept, Queued
  <1>6. ReceiptsKept(s, t, now)
    BY <1>2 DEF ReceiptsKept
  <1> QED BY <1>5, <1>6 DEF t

\* A batch that leaves the queue moves no other, and keeps a receipt.
LEMMA LeavingSound ==
    ASSUME NEW s, Good(s), NEW k \in Queued(s), NEW at \in Time, NEW now,
           NEW state \in ReceiptState, NEW t,
           t.batches = [s.batches EXCEPT ![k] = Absent],
           t.receipts = [s.receipts EXCEPT ![k] = Completed(s.receipts[k], state, at)]
    PROVE  OrderKept(s, t) /\ ReceiptsKept(s, t, now)
  <1>1. /\ s.batches \in [Keys -> Batch \cup {Absent}]
        /\ s.receipts \in [Keys -> Receipt \cup {Absent}]
        /\ k \in Keys /\ s.receipts[k] \in Receipt
    BY StoreFields DEF Good, Consistent, PendingIffQueued, Queued
  <1>2. Completed(s.receipts[k], state, at) # Absent
    BY <1>1, CompletedReceipt
  <1>3. OrderKept(s, t)
    BY <1>1 DEF OrderKept, Queued
  <1>4. ReceiptsKept(s, t, now)
    BY <1>1, <1>2 DEF ReceiptsKept
  <1> QED BY <1>3, <1>4

\* Collection touches no queued batch and only expired receipts.
LEMMA CollectTxSound ==
    ASSUME NEW s, Good(s), NEW now \in Time
    PROVE  OrderKept(s, CollectTx(s, now)) /\ ReceiptsKept(s, CollectTx(s, now), now)
  <1> DEFINE t == CollectTx(s, now)
  <1>1. t.batches = s.batches
    BY CollectTxGood
  <1>2. \A k \in Keys : t.receipts[k] = IF k \in Expired(s, now) THEN Absent ELSE s.receipts[k]
    BY DEF CollectTx, Good, Store
  <1> HIDE DEF t
  <1>3. OrderKept(s, t)
    BY <1>1 DEF OrderKept, Queued
  <1>4. ReceiptsKept(s, t, now)
    BY <1>2 DEF ReceiptsKept
  <1> QED BY <1>3, <1>4 DEF t

\* Replayed batches enter behind the queue, with their receipts.
LEMMA ReplayTxSound ==
    ASSUME NEW s, Good(s), NEW replayed, replayed \subseteq Quarantined(s),
           NEW order \in ReplayOrders(s, replayed), NEW now
    PROVE  OrderKept(s, ReplayTx(s, order)) /\ ReceiptsKept(s, ReplayTx(s, order), now)
  <1> DEFINE b(j) == [s.quarantine[j] EXCEPT !.seq = order[j], !.attempts = 0, !.nextRetry = 0]
             r(j) == [s.receipts[j] EXCEPT !.state = "pending", !.completedAt = 0]
             t == ReplayTx(s, order)
  <1>1. /\ replayed \subseteq Keys /\ s.seq \in 0..MaxSeq
        /\ \A j \in replayed : s.quarantine[j] \in Batch /\ s.receipts[j] \in Receipt
        /\ DOMAIN order = replayed
        /\ order \in [replayed -> (s.seq + 1)..(s.seq + Cardinality(replayed))]
    BY StoreFields DEF Good, Consistent, QuarantineHasReceipt, Quarantined, ReplayOrders
  <1>2. \A j \in Keys : /\ t.batches[j] = IF j \in replayed THEN b(j) ELSE s.batches[j]
                        /\ t.receipts[j] = IF j \in replayed THEN r(j) ELSE s.receipts[j]
    BY <1>1 DEF ReplayTx
  <1>3. \A j \in replayed : b(j).seq = order[j]
    BY <1>1 DEF Batch
  <1>4. \A j \in replayed : order[j] > s.seq
    BY <1>1, BoundsAssumption
  <1>5. \A j \in replayed : r(j) # Absent
    BY <1>1, ReopenedReceipt
  <1>6. \A j \in replayed : s.batches[j] = Absent
    BY DEF Good, Consistent, PendingIffQueued, QuarantineHasReceipt, Quarantined
  <1> HIDE DEF t, b, r
  <1>7. OrderKept(s, t)
    BY <1>2, <1>3, <1>4, <1>6 DEF OrderKept, Queued
  <1>8. ReceiptsKept(s, t, now)
    BY <1>2, <1>5 DEF ReceiptsKept
  <1> QED BY <1>7, <1>8 DEF t

\* Every step of the running inbox is sound.
LEMMA RunningStepSound == IInv /\ [Next]_vars /\ open' => StepSound
  <1> SUFFICES ASSUME IInv, [Next]_vars, open' PROVE StepSound
    OBVIOUS
  <1>1. Good(db) /\ clock \in Time \ {0}
    BY DEF IInv, TypeOK, StoresConsistent, Good
  <1>2. 1..clock \subseteq Time
    BY <1>1, BoundsAssumption DEF Time
  <1>3. db' = db => StepSound
    BY DEF StepSound, OrderKept, ReceiptsKept, Queued
  <1>4. ASSUME NEW k \in Keys, NEW d \in Digests, Accept(k, d) PROVE StepSound
    BY <1>1, <1>4, AcceptTxSound DEF Accept, Commit, StepSound
  <1>5. ASSUME NEW k \in Keys, NEW at \in 1..clock, MarkDelivered(k, at) PROVE StepSound
    <2>1. k \in Queued(db) /\ db' = DeliveredTx(db, k, at)
      BY <1>5 DEF MarkDelivered, Commit
    <2>2. /\ db'.batches = [db.batches EXCEPT ![k] = Absent]
          /\ db'.receipts = [db.receipts EXCEPT
                                ![k] = Completed(db.receipts[k], "delivered", at)]
      BY <2>1 DEF DeliveredTx
    <2> QED BY <1>1, <1>2, <2>1, <2>2, LeavingSound DEF ReceiptState, StepSound
  <1>6. ASSUME NEW k \in Keys, NEW at \in 1..clock, MarkQuarantined(k, at) PROVE StepSound
    <2>1. k \in Queued(db) /\ db' = QuarantinedTx(db, k, at)
      BY <1>6 DEF MarkQuarantined, Commit
    <2>2. /\ db'.batches = [db.batches EXCEPT ![k] = Absent]
          /\ db'.receipts = [db.receipts EXCEPT
                                ![k] = Completed(db.receipts[k], "quarantined", at)]
      BY <2>1 DEF QuarantinedTx
    <2> QED BY <1>1, <1>2, <2>1, <2>2, LeavingSound DEF ReceiptState, StepSound
  <1>7. ASSUME NEW k \in Keys, NEW retryAt \in RetryTimes, MarkRetry(k, retryAt) PROVE StepSound
    BY <1>1, <1>7, RetryAssumption, RetryTxSound DEF MarkRetry, Commit, StepSound
  <1>8. CASE CollectReceipts
    BY <1>1, <1>8, CollectTxSound DEF CollectReceipts, Commit, StepSound
  <1>9. ASSUME NEW replayed \in SUBSET Quarantined(db), Replay(replayed) PROVE StepSound
    BY <1>1, <1>9, ReplayTxSound DEF Replay, Commit, StepSound
  <1>10. ASSUME NEW k \in Keys, ReplayQuarantined(k) PROVE StepSound
    BY <1>9, <1>10 DEF ReplayQuarantined
  <1>11. CASE ReplayAllQuarantined
    BY <1>9, <1>11 DEF ReplayAllQuarantined
  <1>12. ASSUME NEW k \in Keys, NEW d \in Digests, AcceptDuplicate(k, d) PROVE StepSound
    BY <1>3, <1>12 DEF AcceptDuplicate
  <1>13. CASE Sync \/ SyncDone \/ SyncFailed \/ Open \/ Writeback \/ Tick \/ UNCHANGED vars
    BY <1>3, <1>13
    DEF Sync, Commit, SyncDone, SyncFailed, Open, Writeback, Tick, vars
  <1>14. ~Close /\ ~Kill /\ ~PowerLoss
    BY DEF Close, Kill, PowerLoss
  <1> QED BY <1>4, <1>5, <1>6, <1>7, <1>8, <1>10, <1>11, <1>12, <1>13, <1>14 DEF Next

\* No step of the running inbox reorders its queue: retries, collection and
\* replay leave the order of the queued batches alone, and whatever enters the
\* queue enters behind all of them.
THEOREM QueueKeepsOrder == Spec => QueueOrderStable
  <1> DEFINE Stable ==
        open /\ open' =>
            \A k \in Queued(db) \cap Queued(db') :
                /\ db'.batches[k].seq = db.batches[k].seq
                /\ \A j \in Queued(db') \ Queued(db) :
                       db'.batches[j].seq > db.batches[k].seq
  <1>1. IInv /\ [Next]_vars => Stable
    <2> SUFFICES ASSUME IInv, [Next]_vars, open', NEW k \in Queued(db) \cap Queued(db'),
                        NEW j \in Queued(db') \ Queued(db)
                 PROVE  db'.batches[j].seq > db.batches[k].seq
      BY RunningStepSound DEF StepSound, OrderKept
    <2>1. Good(db) /\ Good(db)'
      BY NextInv DEF IInv, TypeOK, StoresConsistent, Good
    <2>2. /\ db.seq \in Int /\ db.batches[k].seq \in Int /\ db.batches[k].seq <= db.seq
      BY <2>1, StoreFields, BoundsAssumption
      DEF Good, Consistent, SequencesDistinct, Queued, Batch, Seqs
    <2>3. db'.batches[j].seq \in Int
      BY <2>1, StoreFields, BoundsAssumption DEF Good, Queued, Batch, Seqs, Store
    <2>4. db'.batches[j].seq > db.seq
      BY RunningStepSound DEF StepSound, OrderKept
    <2> QED BY <2>2, <2>3, <2>4
  <1>2. IInv /\ [Next]_vars => [Stable]_vars
    BY <1>1
  <1> QED BY <1>2, InitInv, NextInv, PTL DEF Spec, QueueOrderStable

\* No step of the running inbox forgets the receipt of a pending batch, or a
\* terminal one within its retention: re-uploads are recognised that long.
THEOREM ReceiptsLast == Spec => ReceiptsOutliveRetention
  <1> DEFINE Outlive ==
        open /\ open' =>
            \A k \in Keys : db.receipts[k] # Absent /\ db'.receipts[k] = Absent =>
                /\ db.receipts[k].state # "pending"
                /\ db.receipts[k].completedAt
                     + (IF db.receipts[k].state = "delivered"
                        THEN ReceiptRetention ELSE QuarantineRetention) <= clock
  <1>1. IInv /\ [Next]_vars => Outlive
    <2> SUFFICES ASSUME IInv, [Next]_vars, open', NEW k \in Keys,
                        db.receipts[k] # Absent, db'.receipts[k] = Absent
                 PROVE  /\ db.receipts[k].state # "pending"
                        /\ db.receipts[k].completedAt
                             + (IF db.receipts[k].state = "delivered"
                                THEN ReceiptRetention ELSE QuarantineRetention) <= clock
      OBVIOUS
    <2>1. k \in Expired(db, clock)
      BY RunningStepSound DEF StepSound, ReceiptsKept
    <2> QED BY <2>1 DEF Expired
  <1>2. IInv /\ [Next]_vars => [Outlive]_vars
    BY <1>1
  <1> QED BY <1>2, InitInv, NextInv, PTL DEF Spec, ReceiptsOutliveRetention
-----------------------------------------------------------------------------
(* Eviction. *)

\* Of distinct numbers in a finite set one is the smallest.
LEMMA Lowest ==
    ASSUME NEW S, IsFiniteSet(S), NEW f \in [S -> Int], \A j, k \in S : f[j] = f[k] => j = k,
           NEW T, T \subseteq S, T # {}
    PROVE  \E o \in T : \A j \in T \ {o} : f[j] > f[o]
  <1> DEFINE UpTo(k) == {j \in S : f[j] <= f[k]}
             Family == {UpTo(k) : k \in T}
  <1>1. Family \subseteq SUBSET S
    OBVIOUS
  <1>2. Family # {}
    <2>1. PICK k \in T : TRUE
      OBVIOUS
    <2>2. UpTo(k) \in Family
      OBVIOUS
    <2> QED BY <2>2
  <1>3. PICK a \in Family : \A b \in Family : b \subseteq a => b = a
    <2> HIDE DEF Family
    <2> QED BY <1>1, <1>2, LeastSet
  <1>4. PICK o \in T : a = UpTo(o)
    OBVIOUS
  <1>5. ASSUME NEW j \in T \ {o}, ~(f[j] > f[o]) PROVE FALSE
    <2>1. f[j] \in Int /\ f[o] \in Int /\ f[j] # f[o]
      OBVIOUS
    <2>2. UpTo(j) \subseteq UpTo(o) /\ o \in UpTo(o) /\ o \notin UpTo(j)
      BY <1>5, <2>1
    <2>3. UpTo(j) \in Family
      OBVIOUS
    <2> HIDE DEF UpTo, Family
    <2> QED BY <1>3, <1>4, <2>2, <2>3
  <1> QED BY <1>5

\* And one is the largest.
LEMMA Highest ==
    ASSUME NEW S, IsFiniteSet(S), NEW f \in [S -> Int], \A j, k \in S : f[j] = f[k] => j = k,
           NEW T, T \subseteq S, T # {}
    PROVE  \E o \in T : \A j \in T \ {o} : f[o] > f[j]
  <1> DEFINE g == [k \in S |-> -f[k]]
  <1>1. g \in [S -> Int] /\ \A j, k \in S : g[j] = g[k] => j = k
    OBVIOUS
  <1>2. \A k \in S : f[k] \in Int /\ g[k] = -f[k]
    OBVIOUS
  <1> HIDE DEF g
  <1>3. PICK o \in T : \A j \in T \ {o} : g[j] > g[o]
    BY <1>1, Lowest
  <1>4. \A j \in T \ {o} : f[o] > f[j]
    BY <1>2, <1>3
  <1> QED BY <1>4

\* The members of S with a larger number than k.
Larger(S, f, k) == {j \in S : f[j] > f[k]}

\* Of distinct numbers in a finite set let go all that have max or more above
\* them: if there are any, what stays is the max largest.
LEMMA Largest ==
    ASSUME NEW S, IsFiniteSet(S), NEW f \in [S -> Int], \A j, k \in S : f[j] = f[k] => j = k,
           NEW max \in Nat \ {0},
           NEW Gone, Gone \subseteq S, Gone # {},
           \A k \in S : k \in Gone <=> Cardinality(Larger(S, f, k)) >= max
    PROVE  /\ Cardinality(S \ Gone) = max
           /\ \A j \in S \ Gone, k \in Gone : f[j] > f[k]
  <1> DEFINE Above(k) == Larger(S, f, k)
             Kept == S \ Gone
  <1> USE DEF Larger
  <1>1. \A k \in S : Above(k) \in SUBSET S /\ IsFiniteSet(Above(k)) /\ Cardinality(Above(k)) \in Nat
    BY FS_Subset, FS_CardinalityType
  <1>2. \A k \in S : /\ k \in Gone => Cardinality(Above(k)) >= max
                     /\ k \in Kept => Cardinality(Above(k)) < max
    <2>1. \A k \in S : k \in Gone <=> Cardinality(Above(k)) >= max
      OBVIOUS
    <2>2. \A k \in Kept : k \in S /\ k \notin Gone
      OBVIOUS
    <2>3. ASSUME NEW k \in Kept PROVE Cardinality(Above(k)) < max
      <3>1. ~(Cardinality(Above(k)) >= max)
        BY <2>1, <2>2
      <3>2. Cardinality(Above(k)) \in Nat
        BY <1>1, <2>2
      <3> HIDE DEF Above
      <3> QED BY <3>1, <3>2
    <2> HIDE DEF Above, Kept
    <2> QED BY <2>1, <2>3
  <1>3. \A j, k \in S : f[j] > f[k] => Above(j) \in SUBSET Above(k)
    OBVIOUS
  <1>4. \A j, k \in S : f[j] > f[k] => Cardinality(Above(j)) <= Cardinality(Above(k))
    BY <1>1, <1>3, FS_Subset
  <1>5. \A j, k \in S : f[k] \in Int /\ f[j] \in Int /\ (f[j] = f[k] => j = k)
    OBVIOUS
  <1>6. /\ Kept \in SUBSET S /\ Gone \in SUBSET S
        /\ \A k \in S : k \in Kept <=> k \notin Gone
    OBVIOUS
  <1>7. \A j, k \in S : j \in Above(k) <=> f[j] > f[k]
    OBVIOUS
  <1> HIDE DEF Above, Kept, Larger
  <1>8. \A j \in Kept, k \in Gone : f[j] > f[k]
    <2> SUFFICES ASSUME NEW j \in Kept, NEW k \in Gone, f[k] > f[j] PROVE FALSE
      BY <1>5, <1>6
    <2>1. Cardinality(Above(k)) <= Cardinality(Above(j))
      BY <1>4, <1>6
    <2>2. Cardinality(Above(k)) >= max /\ Cardinality(Above(j)) < max
      BY <1>2, <1>6
    <2>3. Cardinality(Above(k)) \in Nat /\ Cardinality(Above(j)) \in Nat
      BY <1>1, <1>6
    <2> QED BY <2>1, <2>2, <2>3
  <1>9. IsFiniteSet(Kept) /\ Cardinality(Kept) \in Nat
    BY <1>6, FS_Subset, FS_CardinalityType
  <1>10. Cardinality(Kept) >= max
    <2>1. PICK e \in Gone : \A j \in Gone \ {e} : f[e] > f[j]
      BY <1>6, Highest
    <2>2. Above(e) \in SUBSET Kept
      <3> SUFFICES ASSUME NEW j \in S, f[j] > f[e], j \in Gone PROVE FALSE
        BY <1>1, <1>6, <1>7
      <3>1. j # e /\ f[e] > f[j]
        BY <1>5, <1>6, <2>1
      <3> QED BY <1>5, <1>6, <3>1
    <2>3. Cardinality(Above(e)) <= Cardinality(Kept)
      BY <1>9, <2>2, FS_Subset
    <2>4. Cardinality(Above(e)) >= max /\ Cardinality(Above(e)) \in Nat
      BY <1>1, <1>2, <1>6
    <2> QED BY <1>9, <2>3, <2>4
  <1>11. Cardinality(Kept) <= max
    <2>1. Kept # {}
      <3>1. Cardinality({}) = 0 /\ max >= 1
        BY FS_EmptySet
      <3>2. Cardinality(Kept) # Cardinality({})
        BY <1>9, <1>10, <3>1
      <3> QED BY <3>2
    <2>2. PICK o \in Kept : \A j \in Kept \ {o} : f[j] > f[o]
      BY <1>6, <2>1, Lowest
    <2>3. Kept \ {o} \in SUBSET Above(o)
      BY <1>6, <1>7, <2>2
    <2>4. Cardinality(Kept \ {o}) = Cardinality(Kept) - 1
      BY <1>9, <2>2, FS_RemoveElement
    <2>5. Cardinality(Kept \ {o}) <= Cardinality(Above(o))
      BY <1>1, <1>6, <2>3, FS_Subset
    <2>6. Cardinality(Above(o)) < max /\ Cardinality(Above(o)) \in Nat
      BY <1>1, <1>2, <1>6
    <2> QED BY <1>9, <2>4, <2>5, <2>6
  <1> QED BY <1>8, <1>9, <1>10, <1>11 DEF Kept

\* What leaves the quarantine of s for t without being requeued or expired
\* leaves a full quarantine of newer payloads.
EvictionSound(s, t, now) ==
    \A k \in Quarantined(s) \ Quarantined(t) :
        t.batches[k] = Absent /\ s.receipts[k].completedAt + QuarantineRetention > now =>
            /\ Cardinality(Quarantined(t)) = MaxQuarantineEntries
            /\ \A j \in Quarantined(t) : t.quarantine[j].seq > s.quarantine[k].seq

\* Collection evicts the oldest payloads, and no more than it has to.
LEMMA CollectTxEvicts ==
    ASSUME NEW s, Good(s), NEW now \in Time
    PROVE  EvictionSound(s, CollectTx(s, now), now)
  <1> DEFINE t == CollectTx(s, now)
             purged == {k \in Expired(s, now) : s.receipts[k].state = "quarantined"}
             held == Quarantined(s) \ purged
             gone == Overflow(s, held)
             f == [k \in held |-> s.quarantine[k].seq]
  <1>1. \A k \in Keys : t.quarantine[k] = IF k \in purged \cup gone THEN Absent ELSE s.quarantine[k]
    BY DEF CollectTx, Good, Store
  <1>2. held \subseteq Keys /\ held \subseteq Quarantined(s) /\ IsFiniteSet(held)
    BY KeysAssumption, FS_Subset DEF Quarantined
  <1>3. \A k \in held : s.quarantine[k] \in Batch
    BY <1>2, StoreFields DEF Good, Quarantined
  <1>4. f \in [held -> Int]
    BY <1>3, BoundsAssumption DEF Batch, Seqs
  <1>5. \A j, k \in held : f[j] = f[k] => j = k
    BY <1>2 DEF Good, Consistent, SequencesDistinct
  <1>6. \A k \in held : k \in gone <=> Cardinality(Larger(held, f, k)) >= MaxQuarantineEntries
    <2>1. ASSUME NEW k \in held
          PROVE  Larger(held, f, k) = {j \in held : s.quarantine[j].seq > s.quarantine[k].seq}
      BY DEF Larger
    <2> QED BY <2>1 DEF Overflow
  <1>7. \A k \in purged : s.receipts[k].completedAt + QuarantineRetention <= now
    BY DEF Expired
  <1>8. purged \subseteq Keys /\ gone \subseteq held
    BY DEF Expired, Overflow
  <1>9. \A k \in held : f[k] = s.quarantine[k].seq
    OBVIOUS
  <1> HIDE DEF f
  <1>10. gone # {} => /\ Cardinality(held \ gone) = MaxQuarantineEntries
                      /\ \A j \in held \ gone, k \in gone : f[j] > f[k]
    <2>1. IsFiniteSet(held)
      BY <1>2
    <2> HIDE DEF held, gone
    <2> SUFFICES ASSUME gone # {}
                 PROVE  /\ Cardinality(held \ gone) = MaxQuarantineEntries
                        /\ \A j \in held \ gone, k \in gone : f[j] > f[k]
      OBVIOUS
    <2>2. MaxQuarantineEntries \in Nat \ {0}
      BY OptionsAssumption
    <2>3. gone \subseteq held
      BY <1>8
    <2> QED BY <1>4, <1>5, <1>6, <2>1, <2>2, <2>3, Largest
  <1> HIDE DEF gone
  <1>11. Quarantined(t) = held \ gone
    BY <1>1, <1>2, <1>8 DEF Quarantined
  <1>12. \A k \in held \ gone : t.quarantine[k] = s.quarantine[k]
    BY <1>1, <1>2
  <1>13. \A k \in Quarantined(s) : s.receipts[k].completedAt \in Int
    BY StoreFields, BoundsAssumption
    DEF Good, Consistent, QuarantineHasReceipt, Quarantined, Receipt, Time
  <1>14. now \in Int /\ QuarantineRetention \in Int
    BY OptionsAssumption, BoundsAssumption DEF Time
  <1> SUFFICES ASSUME NEW k \in Quarantined(s) \ Quarantined(t),
                      s.receipts[k].completedAt + QuarantineRetention > now
               PROVE  /\ Cardinality(Quarantined(t)) = MaxQuarantineEntries
                      /\ \A j \in Quarantined(t) : t.quarantine[j].seq > s.quarantine[k].seq
    BY DEF EvictionSound
  <1>15. k \notin purged
    BY <1>7, <1>13, <1>14
  <1>16. k \in gone
    BY <1>11, <1>15
  <1> QED BY <1>8, <1>9, <1>10, <1>11, <1>12, <1>16

\* Every other step of the running inbox keeps or requeues what it quarantined.
LEMMA RunningStepEvicts == IInv /\ [Next]_vars /\ open' => EvictionSound(db, db', clock)
  <1> SUFFICES ASSUME IInv, [Next]_vars, open' PROVE EvictionSound(db, db', clock)
    OBVIOUS
  <1>1. Good(db) /\ clock \in Time
    BY DEF IInv, TypeOK, StoresConsistent, Good
  <1>2. /\ db.batches \in [Keys -> Batch \cup {Absent}]
        /\ db.quarantine \in [Keys -> Batch \cup {Absent}]
    BY <1>1, StoreFields DEF Good
  <1>3. db'.quarantine = db.quarantine => EvictionSound(db, db', clock)
    BY DEF EvictionSound, Quarantined
  <1>4. ASSUME NEW k \in Keys, NEW d \in Digests, Accept(k, d) PROVE EvictionSound(db, db', clock)
    BY <1>1, <1>3, <1>4 DEF Accept, Commit, AcceptTx
  <1>5. ASSUME NEW k \in Keys, NEW at \in 1..clock, MarkDelivered(k, at)
        PROVE  EvictionSound(db, db', clock)
    BY <1>3, <1>5 DEF MarkDelivered, Commit, DeliveredTx
  <1>6. ASSUME NEW k \in Keys, NEW at \in 1..clock, MarkQuarantined(k, at)
        PROVE  EvictionSound(db, db', clock)
    <2>1. db'.quarantine = [db.quarantine EXCEPT ![k] = db.batches[k]] /\ db.batches[k] # Absent
      BY <1>6 DEF MarkQuarantined, Commit, QuarantinedTx, Queued
    <2>2. Quarantined(db) \subseteq Quarantined(db')
      BY <1>2, <2>1 DEF Quarantined
    <2> QED BY <2>2 DEF EvictionSound
  <1>7. ASSUME NEW k \in Keys, NEW retryAt \in RetryTimes, MarkRetry(k, retryAt)
        PROVE  EvictionSound(db, db', clock)
    BY <1>1, <1>3, <1>7 DEF MarkRetry, Commit, RetryTx, Good, Store
  <1>8. CASE CollectReceipts
    BY <1>1, <1>8, CollectTxEvicts DEF CollectReceipts, Commit
  <1>9. ASSUME NEW replayed \in SUBSET Quarantined(db), Replay(replayed)
        PROVE  EvictionSound(db, db', clock)
    <2>1. PICK order \in ReplayOrders(db, replayed) : db' = ReplayTx(db, order)
      BY <1>9 DEF Replay, Commit
    <2>2. DOMAIN order = replayed
      BY <2>1 DEF ReplayOrders
    <2>3. \A k \in Keys : k \notin replayed => db'.quarantine[k] = db.quarantine[k]
      BY <2>1, <2>2 DEF ReplayTx
    <2>4. \A k \in replayed : k \in Queued(db')
      <3> SUFFICES ASSUME NEW k \in replayed PROVE db'.batches[k] # Absent
        BY <1>9 DEF Queued, Quarantined
      <3> DEFINE reopened == [db.receipts[k] EXCEPT !.state = "pending", !.completedAt = 0]
      <3>1. k \in Keys /\ db.receipts[k] \in Receipt
        BY <1>1, <1>9, StoreFields
        DEF Good, Consistent, QuarantineHasReceipt, Quarantined
      <3>2. db'.receipts[k] = reopened
        BY <2>1, <2>2, <3>1 DEF ReplayTx
      <3>3. reopened # Absent /\ reopened.state = "pending"
        BY <3>1, ReopenedReceipt DEF Receipt
      <3>4. PendingIffQueued(db')
        BY NextInv DEF IInv, StoresConsistent, Consistent
      <3> QED BY <3>1, <3>2, <3>3, <3>4 DEF PendingIffQueued
    <2>5. Quarantined(db) \ Quarantined(db') \subseteq replayed
      BY <2>3 DEF Quarantined
    <2> QED BY <2>4, <2>5 DEF EvictionSound, Queued
  <1>10. ASSUME NEW k \in Keys, ReplayQuarantined(k) PROVE EvictionSound(db, db', clock)
    BY <1>9, <1>10 DEF ReplayQuarantined
  <1>11. CASE ReplayAllQuarantined
    BY <1>9, <1>11 DEF ReplayAllQuarantined
  <1>12. ASSUME NEW k \in Keys, NEW d \in Digests, AcceptDuplicate(k, d)
         PROVE  EvictionSound(db, db', clock)
    BY <1>3, <1>12 DEF AcceptDuplicate
  <1>13. CASE Sync \/ SyncDone \/ SyncFailed \/ Open \/ Writeback \/ Tick \/ UNCHANGED vars
    BY <1>3, <1>13
    DEF Sync, Commit, SyncDone, SyncFailed, Open, Writeback, Tick, vars
  <1>14. ~Close /\ ~Kill /\ ~PowerLoss
    BY DEF Close, Kill, PowerLoss
  <1> QED BY <1>4, <1>5, <1>6, <1>7, <1>8, <1>10, <1>11, <1>12, <1>13, <1>14 DEF Next

\* No step of the running inbox evicts a payload before its retention while
\* there is room, or keeps one with a lower current sequence number, which a
\* replay renews, than the one it evicts.
THEOREM EvictionFollowsNumbers == Spec => EvictionKeepsNewest
  <1> DEFINE Keeps ==
        open /\ open' =>
            \A k \in Quarantined(db) \ Quarantined(db') :
                (/\ db'.batches[k] = Absent
                 /\ db.receipts[k].completedAt + QuarantineRetention > clock) =>
                /\ Cardinality(Quarantined(db')) = MaxQuarantineEntries
                /\ \A j \in Quarantined(db') :
                       db'.quarantine[j].seq > db.quarantine[k].seq
  <1>1. IInv /\ [Next]_vars => [Keeps]_vars
    BY RunningStepEvicts DEF EvictionSound
  <1> QED BY <1>1, InitInv, NextInv, PTL DEF Spec, EvictionKeepsNewest
=============================================================================
