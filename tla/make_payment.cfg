SPECIFICATION PaymentSpec
CONSTANTS
    Tree <- MakePaymentTree
    BranchNames <- MakePaymentBranches
    StepNames <- MakePaymentSteps
    Exits <- MakePaymentExits
    Plans <- BankAccountPlans
    MaxRequests = 4
    MaxFailures = 1
INVARIANTS
    PaysWhatWasAgreed
    ToldOnlyWhenSubmitted
    PaysAgainOnlyWhenUnheard
    FieldsStoredBeforeRead
    FailsOnlyAfterCutoff
CHECK_DEADLOCK FALSE
