SPECIFICATION FairLaneSpec
CONSTANTS
    t1 = t1
    t2 = t2
    t3 = t3
    Callers = {t1, t2}
    NoOne = none
    QueueSize = 1
    Policies = {"block", "drop_oldest", "drop_new"}
    k1 = k1
    k2 = k2
    Keys = {k1, k2}
    MaxSeen = 1
    MaxMessages = 3
    MaxCloses = 1
INVARIANTS DeliveredInOrder RepeatsSummarised
PROPERTY FlushMeansHandled AcceptedIsHandled CallsReturn
