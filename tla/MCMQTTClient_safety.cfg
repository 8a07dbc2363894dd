SPECIFICATION Spec
CONSTANTS
    f1 = f1
    f2 = f2
    NoFilter = NoFilter
    Filters <- OneFilter
    AppCalls <- SafetyCalls
    MaxHandlers = 1
    MaxPacketId = 1
    CleanSession = TRUE
    KeepAliveInterval = 1
    CommandTimeout = 1
    YieldTime = 1
    NetCapacity = 2
    SplitReads = FALSE
INVARIANTS
    SessionAgreement
    SubscriptionAgreement
    ClientInv
