SPECIFICATION FairGatewaySpec
CONSTANTS
    Keys = {k1}
    Digests = {d1}
    Absent = Absent
    Handlers = {h1}
    Nobody = Nobody
    Responses <- AllResponses
    OperatorRetryLimit = 2
    MaxFaults = 2
    MaxSeq = 1
    MaxAttempts = 1
    MaxTime = 2
    ReceiptRetention = 1
    QuarantineRetention = 1
    MaxQuarantineEntries = 1
    SyncMayFail = TRUE
    RetryTimes = {2}
PROPERTIES
    OwnedLeavesQueue
    DeadWorkerEndsAdmission
    ShutdownEnds
