SPECIFICATION FairSpec
CONSTANTS
    Name <- MCName
    Fold <- MCFold
    AccessLists <- MCAccessLists
    MaxTasks = 3
INVARIANTS
    NoConflictingBodies
    NothingLeftBehind
PROPERTIES
    AbortEndsBatch
    BatchEnds
