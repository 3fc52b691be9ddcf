SPECIFICATION Spec
CONSTANTS
    t1 = t1
    t2 = t2
    t3 = t3
    Threads = {t1, t2, t3}
    NoOne = none
    Inline = TRUE
    Interrupts = TRUE
    SinkLogs = FALSE
    MaxRows = 5
    MaxCalls = 5
    MaxNesting = 6
SYMMETRY Symmetric
INVARIANTS CommitOrder StopsAtTarget
