SPECIFICATION Spec
CONSTANTS
    t1 = t1
    t2 = t2
    Threads = {t1}
    Worker = worker
    NoOne = none
    Sizes = {1, 2}
    MaxRecords = 2
    MaxBytes = 3
    MaxRecord = 2
    BufferSize = 2
    HasTimer = TRUE
    Modes = {TRUE}
    RollbackFails = TRUE
    MaxCalls = 4
    MaxFails = 2
PROPERTY DurableStays
