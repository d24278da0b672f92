SPECIFICATION SpecWorkerDeath
CONSTANTS
    NumChunks = 2
    MaxMatched = 1
    FlushRows = 2
    MaxRuns = 1
    PartialWrites = {}
    Pid = {p1, p2}
    Workers = 2
    InFlight = 2
    MaxTasksPerChild = 2
    Torn = Torn
    Hole = Hole
PROPERTY EveryRunEnds
CHECK_DEADLOCK FALSE
