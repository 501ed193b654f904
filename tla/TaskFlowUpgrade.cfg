CONSTANTS
    r1 = r1
    r2 = r2
    Row <- TwoRows
    Upgrade = TRUE
    MaxConcurrent = 2
    MaxCancels = 1
    MaxFaults = 1
SPECIFICATION Safety
SYMMETRY RowSymmetry
INVARIANTS
    TypeOK
    CompletedMeansAnswered
    SuccessMeansAnswered
    NoRowLeftPending
PROPERTIES
    EndedStaysEnded
    StoredAnswerStands
    KeepsPromise
