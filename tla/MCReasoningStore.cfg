\* No statement fails and the clock runs forward: the limits are exact, and every call ends.
CONSTANTS
    g1 = g1
    g2 = g2
    main = main
    k1 = k1
    k2 = k2
    k3 = k3
    r1 = r1
    r2 = r2
    Handlers = {g1, g2}
    Main = main
    Keys = {k1, k2, k3}
    Reasonings = {r1}
    NoReasoning = NoReasoning
    NoOne = NoOne
    KeyLists <- MCTwoMessages
    MaxRows = 1
    MaxAgeSeconds = 1
    TicksPerSecond = 2
    ClockSteps <- MCForward
    MaxClock = 4
    StatementsMayFail = FALSE
SPECIFICATION FairSpec
INVARIANTS
    TypeOK
    NoUseAfterClose
    RowLimit
    NoKeyPassedOver
PROPERTIES
    EvictionJustified
    CallsEnd
