SPECIFICATION Spec
CONSTANTS
    Users = {u1}
    Hosts = {h1}
    NPages = 4
    NRing = 2
    Saved = "ack"
    NAddrs = 1
    ArpSize = 1
    MaxPackets = 2
    MaxCalls = 1
INVARIANT QueuesSound
PROPERTY PacketsHandled
CHECK_DEADLOCK FALSE
