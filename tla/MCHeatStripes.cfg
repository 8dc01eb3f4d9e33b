CONSTANTS
    xx = 12
    Total = 4
    A = 1
    T_0 = 0
    LEFT = 2
    RIGHT = 3
    LEFT_KIND = "1TYPE"
    RIGHT_KIND = "2TYPE"
    Garbage = 99
    tt = 4
    Solution <- HeatSolution
    Faults <- AllFaults
SPECIFICATION FairSpec
INVARIANTS
    TypeOK
    SkewBounded
    BuffersBounded
    HaloIsCurrent
    FinalResult
    CleanFinalize
PROPERTIES
    ImplementsHeatEquation
    Terminates
