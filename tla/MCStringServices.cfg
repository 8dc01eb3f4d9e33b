CONSTANTS
    BufferSize = 2
    Memory = 8
    CallocMayFail = TRUE
    SizeMax = 63
    Bytes <- MCBytes
    Inputs <- MCInputs
    Unset = Unset
    MaxInput = 4
SPECIFICATION FairSpec
INVARIANTS
    TypeOK
    Terminated
    InBounds
    Result
    WholeLines
    AllFreed
PROPERTIES
    Returns
