SPECIFICATION FairSpec
CONSTANTS
    N = 3
    Parallelisms <- MCParallelisms
    Cpus = 1
    None = None
INVARIANTS
    ReportInFileOrder
    AbortsOnlyByWorker
    StatusAsDocumented
PROPERTIES
    BatchEnds
CHECK_DEADLOCK FALSE
