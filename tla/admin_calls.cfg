SPECIFICATION Spec
CONSTANTS
    Calls = {c1, c2}
    Users = {tester, lead}
    Admins = {lead}
    NoUser = NoUser
    Workers = {w1, w2}
    CreatedWith <- MCCreatedWith
    ChangedTo <- MCChangedTo
    MaxRequests = 6
    MaxSchedules = 1
    MaxChanges = 2
    MaxFailures = 1
INVARIANTS
    AdminTypeOK
    TradedOnce
    ClaimedIsServed
    
    ScheduledForCaller
    OneLegEach
SYMMETRY CallsAndWorkers
CHECK_DEADLOCK FALSE
