SPECIFICATION Spec
CONSTANTS
    Threads = {t1, t2}
INVARIANTS NoTornFrame FirstFailureWins
PROPERTIES DirectionsAreReleased
CHECK_DEADLOCK FALSE
