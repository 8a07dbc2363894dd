SPECIFICATION FairSpec
CONSTANTS
    NumInputs = 1
    NumOutputs = 1
    NumProbes = 1
    NumAnnouncements = 0
    Numbers <- SmallNumbers
    Timers <- SlowTimers
    StackIsZero = TRUE
PROPERTIES
    ChangesReported
