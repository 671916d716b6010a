SPECIFICATION Spec
CONSTANTS
    Calls = {c}
    Threads = {t}
    Workers = {w1, w2}
    InFlight = 1
    MaxRequests = 4
    MaxContacts = 1
    MaxTransfers = 1
    MaxFailures = 1
INVARIANTS
    LegsTypeOK
    OneActiveLeg
    VendorAgrees
    ReportEndsCall
    DispositionTells
CHECK_DEADLOCK FALSE
