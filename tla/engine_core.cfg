SPECIFICATION FairSpec
CONSTANTS
    Tree <- CoreTree
    BranchNames <- MCBranchNames
    StepNames <- MCStepNames
    Exits <- MCExits
    MaxRequests = 5
    MaxFailures = 1
INVARIANTS
    TypeOK
    RetryBudget
    HistoryComplete
    WaitsForAnswer
    NoStepSkipped
    NoDeadEnd
PROPERTIES
    ImplementsTreeWalk
    RequestsAnswered
CHECK_DEADLOCK FALSE
