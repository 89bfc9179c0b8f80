SPECIFICATION FairSpec
CONSTANTS
    Mode = {"normal", "plan"}
    Turn = {t1, t2}
    MaxIds = 5
    MaxActs = 2
INVARIANTS
    AnsweredWhenSent
    ResumableWhenIntact
PROPERTIES
    MessagesKept
    SwitchSettles
    DeferredArrive
CHECK_DEADLOCK FALSE
