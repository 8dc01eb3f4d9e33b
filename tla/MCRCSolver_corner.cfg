CONSTANTS
    W = 3
    H = 2
    N = 2
    T = 4
    SOURCE = "CURRENT_SOURCE"
    U = 5
    IR = 1
    K = 1
    Garbage = 99
    Faults <- NoFaults
SPECIFICATION Spec
INVARIANTS
    CornerVoltageConstant
