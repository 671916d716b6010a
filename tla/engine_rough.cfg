SPECIFICATION Spec
CONSTANTS
    Tree <- RoughTree
    BranchNames <- MCBranchNames
    StepNames <- MCStepNames
    Exits <- MCExits
    MaxRequests = 4
    MaxFailures = 1
INVARIANTS
    CurrentStepResolves
    AnswersWhatWasAsked
PROPERTIES
    FinishedIsFinal
CHECK_DEADLOCK FALSE
