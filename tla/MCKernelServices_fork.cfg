CONSTANTS
    N = 3
    Nobody = Nobody
    Closed = Closed
    Faults <- AllFaults
    StrayDigit = TRUE
SPECIFICATION Spec
INVARIANTS
    RestoredAfterForkError
