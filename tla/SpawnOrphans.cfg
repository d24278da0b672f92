SPECIFICATION SpecOrphans
CONSTANTS
    NumChunks = 2
    MaxMatched = 1
    FlushRows = 2
    MaxRuns = 2
    PartialWrites = {}
    Pid = {p1, p2}
    Workers = 2
    InFlight = 2
    MaxTasksPerChild = 2
    Torn = Torn
    Hole = Hole
INVARIANT ExactlyOnce
CHECK_DEADLOCK FALSE
