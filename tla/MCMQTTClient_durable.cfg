SPECIFICATION Spec
CONSTANTS
    f1 = f1
    f2 = f2
    NoFilter = NoFilter
    Filters <- OneFilter
    AppCalls <- PublishCalls
    MaxHandlers = 1
    MaxPacketId = 3
    CleanSession = FALSE
    KeepAliveInterval = 0
    CommandTimeout = 1
    YieldTime = 1
    NetCapacity = 2
    SplitReads = FALSE
INVARIANTS
    TypeOK
    ClientInv
PROPERTIES
    InflightKept
