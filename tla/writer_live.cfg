SPECIFICATION FairSpec
CONSTANTS
    t1 = t1
    t2 = t2
    Threads = {t1, t2}
    Worker = worker
    NoOne = none
    Sizes = {1, 2}
    MaxRecords = 2
    MaxBytes = 3
    MaxRecord = 2
    BufferSize = 1
    HasTimer = TRUE
    Modes = {TRUE, FALSE}
    RollbackFails = TRUE
    MaxCalls = 3
    MaxFails = 1
PROPERTY CallsReturn PendingDrains
INVARIANT RepeatsFlagged
