\* A legacy client with a tool turn from before the proxy, strict and recovery mode; a row is lost.
CONSTANTS
    c1 = c1
    c2 = c2
    p1 = p1
    p2 = p2
    Clients = {c1}
    Profiles = {p1}
    Keepers = {}
    Histories <- MCForeign
    Questions <- MCQuestions
    Answers <- MCAnswer
    ToolNames <- MCNames
    Arguments <- MCArguments
    CallIds <- MCIds
    Legacy = {c1}
    Thinking = "enabled"
    Strategies = {"recover", "reject"}
    DisplayReasoning = TRUE
    NoId = NoId
    NoReasoning = NoReasoning
    RecoverySystemText = "recovered"
    MaxResponses = 3
    MaxMessages = 6
    MaxEvictions = 1
SPECIFICATION FairSpec
CHECK_DEADLOCK FALSE
PROPERTIES
    RepairEnds
INVARIANTS
    TypeOK
    ForwardComplete
    NoticeNotCrossed
    RecoveryVisible
    RecordedIsFound
