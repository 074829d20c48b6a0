SPECIFICATION Spec
CONSTANTS
    Absent = Absent
    Keys = {k1, k2}
    Digests = {d1}
    MaxSeq = 3
    MaxAttempts = 1
    MaxTime = 2
    ReceiptRetention = 1
    QuarantineRetention = 1
    MaxQuarantineEntries = 1
    SyncMayFail = TRUE
    RetryTimes = {2}
SYMMETRY Symmetry
INVARIANTS
    StoresConsistent
    AcceptedSurvivesPowerLoss
PROPERTIES
    ImplementsLedger
    EvictionKeepsNewest
    QueueOrderStable
