SPECIFICATION Spec
CONSTANTS
    t1 = t1
    t2 = t2
    Threads = {t1, t2}
    Worker = worker
    NoOne = none
    Sizes = {1, 2, 3}
    MaxRecords = 2
    MaxBytes = 3
    MaxRecord = 2
    BufferSize = 2
    HasTimer = TRUE
    Modes = {TRUE, FALSE}
    RollbackFails = FALSE
    MaxCalls = 3
    MaxFails = 1
SYMMETRY Symmetric
INVARIANTS PendingInOrder WatermarkHonest WithinLimits
PROPERTY ImplementsLog FrozenWhenClosed
