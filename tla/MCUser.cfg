\* Two users of one key.
CONSTANTS
    h1 = h1
    h2 = h2
    Conns = {h1, h2}
    Requests <- MCUsers
    Sources <- MCLocal
    Blank = Blank
    Unreadable = Unreadable
    NoConfig = NoConfig
    Null = Null
    NotString = NotString
    ValidIds = {"id"}
    NoIdentity = NoIdentity
    InvalidUser = InvalidUser
    NoRequest = NoRequest
    NoAuth = NoAuth
SPECIFICATION Spec
CHECK_DEADLOCK FALSE
INVARIANTS
    UsersApart
