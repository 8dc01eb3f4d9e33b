CONSTANTS
    W = 3
    H = 6
    N = 3
    T = 4
    SOURCE = "CURRENT_SOURCE"
    U = 5
    IR = 1
    K = 1
    Garbage = 99
    Faults <- HandledFaults
SPECIFICATION FairSpec
INVARIANTS
    TypeOK
    NoDataRace
    QuitAgreement
    NoUseAfterFree
    CleanExit
    ReadsNeighbours
PROPERTIES
    ImplementsSequential
    Terminates
