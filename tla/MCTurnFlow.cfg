SPECIFICATION FairSpec
CONSTANTS
    Worker = {w1, w2}
    Steer = {s1}
INVARIANTS
    TypeOK
    SingleInFlightUnlessTakenUp
PROPERTIES
    NeverClobbered
    CancelStopsTurn
    CancelledWorkerEnds
