SPECIFICATION Spec
CONSTANTS
    NumChunks = 2
    MaxMatched = 1
    FlushRows = 2
    MaxRuns = 3
    PartialWrites = {"unterminated"}
    ManifestInOutDir = FALSE
    OutputFile = OutputFile
    Torn = Torn
    Hole = Hole
PROPERTY CommittedForever
CHECK_DEADLOCK FALSE
