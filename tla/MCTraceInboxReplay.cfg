SPECIFICATION Spec
CONSTANTS
    Absent = Absent
    Keys = {k1, k2}
    Digests = {d1}
    MaxSeq = 5
    MaxAttempts = 0
    MaxTime = 2
    ReceiptRetention = 1
    QuarantineRetention = 1
    MaxQuarantineEntries = 2
    SyncMayFail = FALSE
    RetryTimes = {2}
PROPERTIES
    ReplayInAcceptanceOrder
