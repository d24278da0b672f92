SPECIFICATION Spec
CONSTANTS
    NumChunks = 3
    MaxMatched = 2
    FlushRows = 2
    MaxRuns = 3
    PartialWrites = {"torn"}
    ManifestInOutDir = FALSE
    OutputFile = OutputFile
    Torn = Torn
    Hole = Hole
INVARIANTS
    TypeOK
    CommittedDurable
    CommittedIntact
    ExactlyOnce
    SummaryExact
    IInv
PROPERTIES
    CommittedForever
    KeepsPromise
    EventuallyAllCommitted
CHECK_DEADLOCK FALSE
