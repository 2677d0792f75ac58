\* Two clients, two profiles, concurrent requests.
CONSTANTS
    c1 = c1
    c2 = c2
    p1 = p1
    p2 = p2
    Clients = {c1, c2}
    Profiles = {p1, p2}
    Keepers = {}
    Histories <- MCEmpty
    Questions <- MCQuestions
    Answers <- MCAnswers
    ToolNames <- MCNames
    Arguments <- MCArguments
    CallIds <- MCIds
    Legacy = {}
    Thinking = "enabled"
    Strategies = {"recover"}
    DisplayReasoning = TRUE
    NoId = NoId
    NoReasoning = NoReasoning
    RecoverySystemText = "recovered"
    MaxResponses = 2
    MaxMessages = 3
    MaxEvictions = 0
SPECIFICATION Spec
CHECK_DEADLOCK FALSE
INVARIANTS
    Isolation
    RestoredIsOwn
