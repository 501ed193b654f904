CONSTANTS
    d1 = d1
    d2 = d2
    c1 = c1
    c2 = c2
    c3 = c3
    e1 = e1
    Device = {d1, d2}
    Conn <- ThreeAndOne
    DeviceOf <- MCDeviceOf
    NoConn = NoConn
    Peers = 2
    Beating = {}
    MaxFaults = 1
SPECIFICATION Safety
SYMMETRY ConnSymmetry
INVARIANTS
    TypeOK
    EntryIsServed
    ReplacementIsExclusive
    OnlineHasWriter
PROPERTIES
    ReplacedIsClosed
    KeepsPromise
    LinksAsAssumed
