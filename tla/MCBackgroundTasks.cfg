SPECIFICATION FairSpec
CONSTANTS
    Task = {t1}
    Caller = {c1, c2}
    Waiter = {w1}
    MaxRunningTasks = 1
    MaxCrashes = 2
INVARIANTS
    AnnouncedOnce
    SilencedIsSilent
PROPERTIES
    EveryEndAnnounced
    CallersComeBack
CHECK_DEADLOCK FALSE
