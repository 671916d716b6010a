SPECIFICATION Spec
CONSTANTS
    Tree <- AskOnErrorTree
    BranchNames <- MCBranchNames
    StepNames <- MCStepNames
    Exits <- MCExits
    MaxRequests = 5
    MaxFailures = 1
INVARIANT
    WaitsForAnswer
CHECK_DEADLOCK FALSE
