CONSTANTS
    Hosts <- MCHosts
    Paths <- MCPaths
    Segments <- MCSegments
    Relative = Relative
    NoUrl = NoUrl
    Words <- MCWords
    UrlOf <- MCUrlOf
    NumberOf <- MCNumberOf
    NotANumber = NotANumber
    SizeMax = 9
    QuitWords <- MCQuitWords
    NewLine = NewLine
    Lines <- MCLines
    LinkLists <- MCLinkLists
    BufSize = 2
    MaxResponse = 2
    MaxFds = 7
SPECIFICATION FairSpec
INVARIANTS
    TypeOK
    UrlGiven
    StreamsClosed
    ResponseOfThisVisit
PROPERTIES
    ImplementsHistory
    VisitEnds
