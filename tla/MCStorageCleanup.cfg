SPECIFICATION MigrationSpec
CONSTANTS
    Files = {f1}
    InOrder = FALSE
    MaxWrites = 2
    NoBackup = NoBackup
PROPERTIES
    CleanupClearsOnlyCopies
