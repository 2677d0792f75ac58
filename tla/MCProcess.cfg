\* Two connections, both listeners, the ways to start and to stop.
CONSTANTS
    h1 = h1
    h2 = h2
    Conns = {h1, h2}
    Requests <- MCRequests
    Sources <- MCSources
    Blank = Blank
    Unreadable = Unreadable
    NoConfig = NoConfig
    Null = Null
    NotString = NotString
    ValidIds = {"id"}
    NoIdentity = NoIdentity
    InvalidUser = InvalidUser
    NoRequest = NoRequest
    NoAuth = NoAuth
SPECIFICATION FairSpec
CHECK_DEADLOCK FALSE
INVARIANTS
    TypeOK
    NothingLeft
    ExitCode
    NoLocalFallback
    GraceRespected
    SourcePrecedence
    OnlyAdmissibleForwarded
    TraceWhole
PROPERTIES
    ImplementsService
    SignalStops
    FailureStops
    RequestsEnd
