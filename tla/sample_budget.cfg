SPECIFICATION Spec
CONSTANTS
    sA = sA
    sB = sB
    sC = sC
    nA = nA
    nB = nB
    nC = nC
    x = x
    y = y
    z = z
    Unsent = Unsent
    Requests <- MCRequests
    NotJson <- MCNotJson
    MaxCalls = 3
    SampleBudget = 1
    DocumentBudget = 3
    StartDeadline = 5
    Margin = 2
    Slack = 1
INVARIANTS
    TypeOK
    NoStaleVerdict
    RecordIsTrue
    OneWorker
    DocumentCapped
    LossCostsOnlyItsSample
PROPERTIES
    KeepsItsPromise
CHECK_DEADLOCK FALSE
