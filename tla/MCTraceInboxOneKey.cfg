SPECIFICATION Spec
CONSTANTS
    Absent = Absent
    Keys = {k1}
    Digests = {d1, d2}
    MaxSeq = 4
    MaxAttempts = 1
    MaxTime = 4
    ReceiptRetention = 1
    QuarantineRetention = 1
    MaxQuarantineEntries = 1
    SyncMayFail = FALSE
    RetryTimes = {2, 3}
SYMMETRY Symmetry
INVARIANTS
    TypeOK
    DuplicateSurvivesPowerLoss
PROPERTIES
    ReceiptsOutliveRetention
