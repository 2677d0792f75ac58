\* An answer may begin with a newline.
CONSTANTS
    c1 = c1
    c2 = c2
    p1 = p1
    p2 = p2
    Clients = {c1}
    Profiles = {p1}
    Keepers = {}
    Histories <- MCEmpty
    Questions <- MCQuestions
    Answers <- MCNewline
    ToolNames <- MCNames
    Arguments <- MCArguments
    CallIds <- MCIds
    Legacy = {}
    Thinking = "enabled"
    Strategies = {"reject"}
    DisplayReasoning = TRUE
    NoId = NoId
    NoReasoning = NoReasoning
    RecoverySystemText = "recovered"
    MaxResponses = 3
    MaxMessages = 8
    MaxEvictions = 0
SPECIFICATION Spec
CHECK_DEADLOCK FALSE
INVARIANTS
    RecordedIsFound
