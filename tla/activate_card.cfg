SPECIFICATION ActivationSpec
CONSTANTS
    Tree <- ActivateCardTree
    BranchNames <- ActivateCardBranches
    StepNames <- ActivateCardSteps
    Exits <- ActivateCardExits
    MaxRequests = 8
    MaxFailures = 1
INVARIANTS
    UsesConfirmedDigits
    LeavesAsFound
    NoDeadEnd
CHECK_DEADLOCK FALSE
