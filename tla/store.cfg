SPECIFICATION Spec
CONSTANTS
    k1 = k1
    k2 = k2
    Keys = {k1, k2}
    Settings <- MCSettings
    CacheRows = 1
    Oversize = TRUE
    MaxStep = 2
    MaxCalls = 3
    MaxRestarts = 1
SYMMETRY Symmetric
INVARIANTS OrdinalIsLine StepsAdvance MergeFlagged QueryExact NothingVanishes
PROPERTY BudgetMet
