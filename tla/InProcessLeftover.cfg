SPECIFICATION Spec
CONSTANTS
    NumChunks = 2
    MaxMatched = 2
    FlushRows = 2
    MaxRuns = 2
    PartialWrites = {"torn"}
    ManifestInOutDir = FALSE
    OutputFile = OutputFile
    Torn = Torn
    Hole = Hole
INVARIANT NoRowTwice
CHECK_DEADLOCK FALSE
