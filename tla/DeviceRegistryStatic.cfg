SPECIFICATION Safety
CONSTANTS
    m1 = m1
    m2 = m2
    a1 = a1
    a2 = a2
    a3 = a3
    Machine = {m1, m2}
    Sender <- TwoAndOne
    MachineOf <- Owner
    Home <- Apart
    Enrolled = {m1, m2}
    Address = {a1, a2}
    Id = {i1, i2}
    NoId = NoId
    NoSender = NoSender
    MaxListed = 0
    Bound <- StaticBounds
INVARIANTS
    TypeOK
    OneRowPerAddress
    DistinctIdentities
PROPERTIES
    RestoredOnlyByReinstall
    KeepsPromise
SYMMETRY IdSymmetry
CHECK_DEADLOCK FALSE
