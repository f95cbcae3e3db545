SPECIFICATION FairSpec
CONSTANTS
    sA = sA
    sB = sB
    sC = sC
    nA = nA
    nB = nB
    nC = nC
    x = x
    y = y
    z = z
    Unsent = Unsent
    Requests <- ParsedRequests
    NotJson <- MCNotJson
    MaxCalls = 2
    SampleBudget = 1
    DocumentBudget = 3
    StartDeadline = 5
    Margin = 2
    Slack = 1
PROPERTIES
    EveryGradeReturns
    OrphansEnd
CHECK_DEADLOCK FALSE
