\* Any statement may fail and the wall clock may step back.
CONSTANTS
    g1 = g1
    g2 = g2
    main = main
    k1 = k1
    k2 = k2
    k3 = k3
    r1 = r1
    r2 = r2
    Handlers = {g1, g2}
    Main = main
    Keys = {k1, k2}
    Reasonings = {r1, r2}
    NoReasoning = NoReasoning
    NoOne = NoOne
    KeyLists <- MCAlias
    MaxRows = 1
    MaxAgeSeconds = 1
    TicksPerSecond = 1
    ClockSteps <- MCUneven
    MaxClock = 2
    StatementsMayFail = TRUE
SYMMETRY MCSymmetry
SPECIFICATION Spec
INVARIANTS
    RowLimit
    NoKeyPassedOver
PROPERTIES
    EvictionJustified
    ImplementsCache
