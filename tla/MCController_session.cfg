SPECIFICATION FairSpec
CONSTANTS
    NumInputs = 1
    NumOutputs = 1
    NumProbes = 1
    NumAnnouncements = 2
    Numbers <- SmallNumbers
    Timers <- TwoTimers
    StackIsZero = TRUE
INVARIANTS
    TypeOK
    SessionViewed
    LoopInv
PROPERTIES
    Recovers
    Reinitialises
