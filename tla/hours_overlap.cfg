SPECIFICATION Spec
CONSTANTS
    Queues <- OneQueue
    Listings <- OneListing
    Night = 3
    MaxSpans = 2
    MaxChanges = 1
INVARIANTS
    NoOverlappingHours
CHECK_DEADLOCK FALSE
