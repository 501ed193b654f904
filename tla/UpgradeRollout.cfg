SPECIFICATION Spec
CONSTANTS
    first = first
    good = good
    dud = dud
    hung = hung
    file = file
    Latest = Latest
    Torn = Torn
    None = None
    Program = {first, good, dud, hung}
    First = first
    Works = {first, good}
    Hangs = {hung}
    Push = {file}
    UPLOAD_KEEP = 2
    FaultKind = {"remove", "del", "move", "copy", "restore", "power"}
    MaxFaults = 2
INVARIANTS
    TypeOK
    SomethingToRun
PROPERTIES
    EndsAsIntended
    ServiceReturns
