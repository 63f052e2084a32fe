SPECIFICATION BackupSpec
CONSTANTS
    MaxVersion = 3
    MaxKills = 1
CHECK_DEADLOCK FALSE
INVARIANTS
    ArchiveRestorable
