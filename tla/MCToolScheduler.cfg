SPECIFICATION SchedulerSpec
CONSTANTS
    Name <- MCName
    Fold <- MCFold
    AccessLists <- MCAccessLists
    MaxTasks = 4
INVARIANTS
    NoConflictingActive
    NoStrandedTask
    ConflictIsSharedFile
PROPERTIES
    ImplementsConflictOrder
