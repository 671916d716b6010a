SPECIFICATION FairSpec
CONSTANTS
    Queues <- MCQueues
    Listings <- MCListings
    Night = 1
    MaxSpans = 1
    MaxChanges = 2
INVARIANTS
    RoutingTypeOK
    DialsListed
    LeavesOnlyWhenClosed
PROPERTIES
    LookupsEnd
