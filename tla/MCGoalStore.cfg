SPECIFICATION FairSpec
CONSTANTS
    None = None
    Torn = Torn
    Budgets = {1}
    MaxGoals = 3
    MaxWrites = 2
    MaxCount = 2
    MaxCrashes = 1
INVARIANTS
    DiskFollowsMemory
    ShownIsTrue
    EveryGoalClosed
PROPERTIES
    TurnsWithinBudget
    PursuitEnds
CHECK_DEADLOCK FALSE
