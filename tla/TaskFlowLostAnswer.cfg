CONSTANTS
    r1 = r1
    r2 = r2
    Row <- TwoRows
    Upgrade = FALSE
    MaxConcurrent = 2
    MaxCancels = 0
    MaxFaults = 0
SPECIFICATION Spec
INVARIANT AnswerIsShown
