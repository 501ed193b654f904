CONSTANTS
    r1 = r1
    r2 = r2
    Row <- TwoRows
    Upgrade = FALSE
    MaxConcurrent = 1
    MaxCancels = 1
    MaxFaults = 1
SPECIFICATION Spec
INVARIANT ParentAgrees
PROPERTY EndedRowsEndTask
