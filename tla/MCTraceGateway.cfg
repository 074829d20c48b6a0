SPECIFICATION GatewaySpec
CONSTANTS
    Keys = {k1, k2}
    Digests = {d1}
    Absent = Absent
    Handlers = {h1}
    Nobody = Nobody
    Responses <- AllResponses
    OperatorRetryLimit = 2
    MaxFaults = 1
    MaxSeq = 2
    MaxAttempts = 1
    MaxTime = 2
    ReceiptRetention = 1
    QuarantineRetention = 1
    MaxQuarantineEntries = 1
    SyncMayFail = TRUE
    RetryTimes = {2}
SYMMETRY Symmetry
INVARIANTS
    GatewayTypeOK
    InFlightIsHead
    DeliveredWasReceived
    NoLostWakeup
