SPECIFICATION Spec
CONSTANTS
    MaxRecords = 3
    MaxCrashes = 2
    TornWrites = TRUE
    Migrates = FALSE
INVARIANT AlwaysReadable
CHECK_DEADLOCK FALSE
