SPECIFICATION Spec
CONSTANTS
    Absent = Absent
    Keys = {k1, k2}
    Digests = {d1}
    MaxSeq = 3
    MaxAttempts = 0
    MaxTime = 3
    ReceiptRetention = 1
    QuarantineRetention = 2
    MaxQuarantineEntries = 1
    SyncMayFail = FALSE
    RetryTimes = {3}
PROPERTIES
    EvictionInAcceptanceOrder
