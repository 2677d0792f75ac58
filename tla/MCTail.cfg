\* Recovery drops answers it could have kept.
CONSTANTS
    c1 = c1
    c2 = c2
    p1 = p1
    p2 = p2
    Clients = {c1}
    Profiles = {p1}
    Keepers = {}
    Histories <- MCEmpty
    Questions <- MCQuestions
    Answers <- MCAnswer
    ToolNames <- MCNames
    Arguments <- MCArguments
    CallIds <- MCIds
    Legacy = {}
    Thinking = "enabled"
    Strategies = {"recover"}
    DisplayReasoning = TRUE
    NoId = NoId
    NoReasoning = NoReasoning
    RecoverySystemText = "recovered"
    MaxResponses = 2
    MaxMessages = 6
    MaxEvictions = 1
SPECIFICATION Spec
CHECK_DEADLOCK FALSE
PROPERTIES
    TailKept
