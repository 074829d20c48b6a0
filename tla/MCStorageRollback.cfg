SPECIFICATION MigrationSpec
CONSTANTS
    Files = {f1}
    InOrder = TRUE
    MaxWrites = 2
    NoBackup = NoBackup
INVARIANTS
    RollbackRestoresRootData
