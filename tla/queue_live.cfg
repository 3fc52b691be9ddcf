SPECIFICATION FairSpec
CONSTANTS
    t1 = t1
    t2 = t2
    t3 = t3
    Threads = {t1, t2}
    NoOne = none
    Inline = FALSE
    Interrupts = FALSE
    SinkLogs = TRUE
    MaxRows = 4
    MaxCalls = 5
    MaxNesting = 5
INVARIANT QuietMeansDelivered
PROPERTY CallsReturn
