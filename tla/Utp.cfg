SPECIFICATION Spec
CONSTANTS
    Initiator = a
    Acceptor = b
    Modulus = 16
    FirstSeq <- WrapSoon
    MaxReorder = 4
    DupAckLimit = 1
    Mss = 2
    Resends = 2
    SynResends = 1
    FinResends = 2
    Workloads <- OneOrBothWays
    MaxFaults = 1
    HalfClosers = {a}
INVARIANTS OutbufExact AckedIsReceived
PROPERTIES ImplementsStream
CHECK_DEADLOCK FALSE
