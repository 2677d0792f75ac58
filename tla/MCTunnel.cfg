\* What a tunnel client sees of the grace period.
CONSTANTS
    h1 = h1
    h2 = h2
    Conns = {h1, h2}
    Requests <- MCRequests
    Sources <- MCSources
    Blank = Blank
    Unreadable = Unreadable
    NoConfig = NoConfig
    Null = Null
    NotString = NotString
    ValidIds = {"id"}
    NoIdentity = NoIdentity
    InvalidUser = InvalidUser
    NoRequest = NoRequest
    NoAuth = NoAuth
SPECIFICATION Spec
CHECK_DEADLOCK FALSE
INVARIANTS
    TunnelGrace
