SPECIFICATION Spec
CONSTANTS
    f1 = f1
    f2 = f2
    NoFilter = NoFilter
    Filters <- OneFilter
    AppCalls <- MainCalls
    MaxHandlers = 1
    MaxPacketId = 2
    CleanSession = TRUE
    KeepAliveInterval = 0
    CommandTimeout = 1
    YieldTime = 1
    NetCapacity = 2
    SplitReads = TRUE
INVARIANTS
    SessionAgreement
