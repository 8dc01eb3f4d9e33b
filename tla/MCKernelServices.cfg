CONSTANTS
    N = 2
    Nobody = Nobody
    Closed = Closed
    Faults <- AllFaults
    StrayDigit = TRUE
SPECIFICATION FairSpec
INVARIANTS
    TypeOK
    OneReader
    ModeOfReader
    TerminalRestored
PROPERTIES
    ImplementsConsole
    ResumesUnlessMissed
    ServicesEnd
