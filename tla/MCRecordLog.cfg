SPECIFICATION FairSpec
CONSTANTS
    MaxRecords = 5
    MaxCrashes = 2
    TornWrites = FALSE
    Migrates = TRUE
INVARIANTS
    LogIsPrefix
PROPERTIES
    SyncedIsReadable
    EverythingWritten
CHECK_DEADLOCK FALSE
