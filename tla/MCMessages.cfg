SPECIFICATION MCSpec
CONSTANTS
    Strings <- MCStrings
    StringLen <- MCStringLen
    Requests <- MCRequests
    Slack <- MCSlack
    Arriving <- MCArriving
    buflen = 133
    Filters <- MCFilters
    Topics <- MCTopics
    Names <- MCNames
    Address <- MCAddress
    Ids = {1, 2}
    Ports = {1}
    Replies <- MCReplies
    Interval = 1
    ReceiveTime = 1
    MaxLookups = 2
    MaxCopies = 1
    MaxInbox = 2
INVARIANTS
    LengthsRight PacketsArrive ReaderInv MatchAgrees LookupInv
PROPERTIES
    ReaderEnds LookupEnds
CHECK_DEADLOCK FALSE

