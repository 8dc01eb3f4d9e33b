CONSTANTS
    N = 1
    Nobody = Nobody
    Closed = Closed
    Faults <- NoFaults
    StrayDigit = FALSE
SPECIFICATION FairSpec
PROPERTIES
    WakesUp
