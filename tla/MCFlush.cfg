\* The handler has no Flusher.
CONSTANTS
    x1 = x1
    x2 = x2
    Indices = {0, 1}
    Contexts = {x1, x2}
    Segments = {"a", "r", "r1", "sp", "nl"}
    Chunks <- MCChunks
    MaxChunks = 3
    Recovered = TRUE
    Display = TRUE
    Absent = Absent
    Null = Null
    NoId = NoId
    NoReasoning = NoReasoning
    RecoverySystemText = "recovered"
SPECIFICATION Spec
CHECK_DEADLOCK FALSE
INVARIANTS
    NothingHeldBack
