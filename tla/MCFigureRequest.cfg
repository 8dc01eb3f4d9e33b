CONSTANTS
    first = first
    second = second
    broken = broken
    None = None
    Requests = {r1, r2}
    Rows <- MCRows
    Incomplete <- MCIncomplete
    Tables <- MCTables
    MaxConnections = 2
SPECIFICATION FairSpec
INVARIANTS
    TypeOK
    ConnectionsClosed
    AnswerTells
PROPERTY
    RequestsAnswered
