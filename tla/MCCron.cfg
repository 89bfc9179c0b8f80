SPECIFICATION FairSpec
CONSTANTS
    None = None
    Ids <- MCIds
    Recurring = {"r"}
    Schedule <- MCSchedule
    Share <- MCShare
    JitterPart = 2
    JitterMax = 2
    RoundMarks = {3}
    OneShotMax = 2
    StaleAge = 4
    MaxCoalesce = 2
    MaxJobs = 2
    MaxTime = 5
    MaxQueue = 1
    MaxFaults = 1
    MaxCloses = 1
    NoRun = None
    MonthDays <- MCMonthDays
    WeekDays = 2
    HoursPerDay = 2
    MinutesPerHour = 2
INVARIANTS
    CoveredOnce
    NoneSkipped
    GoneStaysGone
    ListTellsTheTick
    NextRunIsEarliest
PROPERTIES
    DueIsDelivered
CHECK_DEADLOCK FALSE
