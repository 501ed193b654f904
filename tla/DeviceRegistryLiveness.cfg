SPECIFICATION Spec
CONSTANTS
    m1 = m1
    m2 = m2
    a1 = a1
    a2 = a2
    a3 = a3
    Machine = {m1}
    Sender <- Two
    MachineOf <- Owner
    Home <- Apart
    Enrolled = {m1}
    Address = {a1, a2}
    Id = {i1, i2}
    NoId = NoId
    NoSender = NoSender
    MaxListed = 1
    Bound <- LivenessBounds
PROPERTIES
    AgentIsRecognised
CHECK_DEADLOCK FALSE
