SPECIFICATION FairSpec
CONSTANTS
    t1 = t1
    t2 = t2
    t3 = t3
    Threads = {t1, t2, t3}
    Guests = {t3}
    Toll = 4
    NoOne = NoOne
    MaxRuns = 2
    MaxRows = 1
    MaxCalls = 8
    MaxNesting = 3
    MaxCuts = 1
INVARIANTS ShutdownComplete OneWriter
PROPERTY CallsReturn
CHECK_DEADLOCK FALSE
