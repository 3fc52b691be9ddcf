SPECIFICATION FairSpec
CONSTANTS
    t1 = t1
    dog = dog
    Threads = {t1, dog}
    Dog = dog
    Rules <- SomeRules
    MaxErrors = 3
    MaxRules = 2
    MaxPasses = 4
    MaxNesting = 2
    MaxTime = 1
INVARIANTS Episodes FiresEarned DisabledForErrors
PROPERTY PassesEnd
CHECK_DEADLOCK FALSE
