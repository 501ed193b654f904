SPECIFICATION Spec
CONSTANTS
    r1 = r1
    r2 = r2
    p1 = p1
    p2 = p2
    c1 = c1
    c2 = c2
    t1 = t1
    None = None
    Row = {r1, r2}
    Page = {p1, p2}
    Conn = {c1, c2}
    TaskOf <- OneTask
INVARIANTS
    TypeOK
    ShownWasStored
    GonePagesForgotten
PROPERTIES
    PushEnds
    AnswersAreTaken
    PushReachesAll
CHECK_DEADLOCK FALSE
