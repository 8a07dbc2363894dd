SPECIFICATION FairSpec
CONSTANTS
    f1 = f1
    f2 = f2
    NoFilter = NoFilter
    Filters <- TwoFilters
    AppCalls <- LiveCalls
    MaxHandlers = 1
    MaxPacketId = 1
    CleanSession = TRUE
    KeepAliveInterval = 2
    CommandTimeout = 1
    YieldTime = 1
    NetCapacity = 1
    SplitReads = FALSE
INVARIANTS
    SubscriptionAgreement
PROPERTIES
    SilenceDetected
    ImplementsFairContract
