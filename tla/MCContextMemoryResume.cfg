SPECIFICATION Spec
CONSTANTS
    Mode = {"normal", "plan"}
    Turn = {t1}
    MaxIds = 6
    MaxActs = 1
INVARIANTS
    Resumable
CHECK_DEADLOCK FALSE
