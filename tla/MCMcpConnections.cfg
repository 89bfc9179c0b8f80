SPECIFICATION FairSpec
CONSTANTS
    None = None
    Auth = Auth
    MaxAttempts = 5
INVARIANTS
    NoClientLeftBehind
    OfferedIsLive
    SettledIsTrue
PROPERTIES
    AttemptsEnd
CHECK_DEADLOCK FALSE
