SPECIFICATION PaymentSpec
CONSTANTS
    Tree <- MakePaymentTree
    BranchNames <- MakePaymentBranches
    StepNames <- MakePaymentSteps
    Exits <- MakePaymentExits
    Plans <- RecordedPlans
    MaxRequests = 4
    MaxFailures = 0
INVARIANT
    SwitchGoesOn
CHECK_DEADLOCK FALSE
