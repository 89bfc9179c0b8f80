SPECIFICATION Spec
CONSTANTS
    Worker = {w1, w2}
    Steer = {s1}
INVARIANT SingleInFlight
SYMMETRY SymmetricWorkers
