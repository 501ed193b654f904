SPECIFICATION Safety
CONSTANTS
    m1 = m1
    m2 = m2
    a1 = a1
    a2 = a2
    a3 = a3
    Machine = {m1, m2}
    Sender <- OneEach
    MachineOf <- Owner
    Home <- Together
    Enrolled = {m1}
    Address = {a1, a2}
    Id = {i1, i2, i3}
    NoId = NoId
    NoSender = NoSender
    MaxListed = 2
    Bound <- AdminBounds
PROPERTIES
    RestartKeepsOneRow
SYMMETRY IdSymmetry
CHECK_DEADLOCK FALSE
