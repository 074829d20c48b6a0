SPECIFICATION PartsSpec
CONSTANTS
    Requests = {r1, r2}
    Accounts = {a1}
    Spellings <- SomeSpellings
    Lower <- SomeLower
    Payloads = {p1, p2}
    Garbled = Garbled
    Absent = Absent
    MaxTokens = 2
    BaseRetries = {0, 1, 3, 40}
    MaxRetries = {0, 1, 7, 16, 33}
    DefaultBase = 2
    DefaultMax = 30
    RetryAfterCap = 60
    MinimumDelay = 1
    Second = 15
    MaxDuration = 255
    Headers <- SomeHeaders
    Jitters <- SomeJitters
    MaxRetried = 6
    MaxInt = 127
    PageSizes = {4, 16}
    AllocSizes = {0, 20, 120}
    Records = {1, 30, 62, 127}
    Ceilings = {60, 127}
    Reserves = {20}
    Sizes = {12}
    Frees = {0, 61, 127}
SYMMETRY Symmetry
INVARIANTS
    TypeOK
    NoFalseRevocation
    GoodStandingIsRetried
    StoredWasActive
    AcknowledgedIsStored
    OneBatchPerId
    StallBounded
    RetryAfterHonoured
    BackoffDoubles
    GuardExact
CHECK_DEADLOCK FALSE
