SPECIFICATION BackupSpec
CONSTANTS
    MaxVersion = 4
    MaxKills = 4
CHECK_DEADLOCK FALSE
INVARIANTS
    TypeOK
    WrittenRestorable
    BegunArchived
PROPERTIES
    RestartKeepsCatalog
    ComesUpReadable
