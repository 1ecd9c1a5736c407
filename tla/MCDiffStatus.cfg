SPECIFICATION Spec
CONSTANTS
    N = 3
    Parallelisms <- MCParallelisms
    Cpus = 1
    None = None
INVARIANTS
    DiffExitsAsHelped
CHECK_DEADLOCK FALSE
