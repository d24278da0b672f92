SPECIFICATION Spec
CONSTANTS
    NumChunks = 3
    MaxMatched = 1
    FlushRows = 2
    MaxRuns = 3
    PartialWrites = {}
    Pid = {p1, p2}
    Workers = 2
    InFlight = 2
    MaxTasksPerChild = 2
    Torn = Torn
    Hole = Hole
INVARIANTS
    TypeOK
    CommittedDurable
    CommittedInOrder
    BoundedInFlight
    ExactlyOnce
PROPERTIES
    KeepsPromise
    EveryRunEnds
CHECK_DEADLOCK FALSE
