SPECIFICATION Spec
CONSTANTS
    t1 = t1
    t2 = t2
    v1 = v1
    Latest = Latest
    NoTag = NoTag
    Same = Same
    w1 = w1
    w2 = w2
    Trees = {t1, t2}
    Tags = {v1, Latest}
    Workers = {w1, w2}
    MaxConfigs = 2
    MaxRuns = 1
    MaxEdits = 1
    Queues = {"q1", "q2"}
    RoutingFiles <- MCRoutingFiles
    GreetingFiles <- MCGreetingFiles
    HolidayFiles <- MCHolidayFiles
    MaxCommands = 3
INVARIANTS
    RunKeepsItsTree
    ActiveNameResolves
    CommandsDoAsListed
CHECK_DEADLOCK FALSE
SYMMETRY MCSymmetry
