SPECIFICATION PartsSpec
CONSTANTS
    Sources = {s1, s2, s3}
    Limit = 2
    Window = 3
    Maximum = 2
    MaxDelay = 1
    MaxTime = 5
    NoWindow = NoWindow
    Calls = {c1}
    Bills <- SomeBills
    Odd <- OddUsages
    Rooms = {1, 2}
    MaxInt = 127
    MaxAttempts = 2
    MaxSpans = 3
    MaxDepth = 3
    MaxWidth = 2
    MaxExact = 8
    Keys = {"name", "input", "password", "audio", "principal", "observed"}
    AudioKeys = {"audio"}
    CredentialKeys = {"password"}
    CanonicalKeys = {"principal", "observed"}
    IdentityKey = "principal"
    InputKey = "input"
    ObservedKey = "observed"
    Values <- SomeValues
    JSONs <- SomeJSONs
    Uploads <- SomeUploads
    Files = {f1, f2}
    InOrder = TRUE
    MaxWrites = 3
    NoBackup = NoBackup
    MaxRuns = 2
    MaxEdits = 3
SYMMETRY Symmetry
INVARIANTS
    LimiterTypeOK
    TableBounded
    RateBounded
    TypeOK
    ReportsShowTheBill
    LastAttemptAccounted
    NothingCountedTwice
    RedactionIsExact
    MigrationTypeOK
    ServicesKeepTheirData
    RebootKeepsView
    RollbackVerdictOtherwiseTrue
    ProxyStaysConfigured
PROPERTIES
    RefusedForCause
    WindowsRunOut
CHECK_DEADLOCK FALSE
