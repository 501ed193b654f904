CONSTANTS
    d1 = d1
    d2 = d2
    c1 = c1
    c2 = c2
    c3 = c3
    e1 = e1
    Device = {d1, d2}
    Conn <- TwoAndOne
    DeviceOf <- MCDeviceOf
    NoConn = NoConn
    Peers = 1
    Beating = {d2}
    MaxFaults = 0
SPECIFICATION Spec
PROPERTY OfflineOnlyWithoutConnection
