CONSTANTS
    W = 2
    H = 2
    N = 2
    T = 2
    SOURCE = "CURRENT_SOURCE"
    U = 5
    IR = 1
    K = 1
    Garbage = 99
    Faults <- SpawnFaults
SPECIFICATION FairSpec
PROPERTIES
    ArgsDeallocated
CHECK_DEADLOCK FALSE
