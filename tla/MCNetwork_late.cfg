SPECIFICATION FairSpec
CONSTANTS
    a1 = a1
    a2 = a2
    s1 = s1
    s2 = s2
    NoAddress = NoAddress
    NoServer = NoServer
    MAX_SOCK_NUM = 2
    RxLimit = 1
    MaxWait = 0
    Addresses <- TwoAddresses
    Servers <- OneServer
    Pool <- JustA1
    RecvTimeout = 0
    Interval = 1
    MaxRetries = 1
    MaxXid = 1
    WriteTimeout = 0
    ConnectTimeouts <- AtOnce
    ReadTimeouts <- AtOnce
    Lengths <- Two
PROPERTIES
    ReadTimesHold
