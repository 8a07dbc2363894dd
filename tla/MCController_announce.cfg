SPECIFICATION Spec
CONSTANTS
    NumInputs = 1
    NumOutputs = 1
    NumProbes = 1
    NumAnnouncements = 2
    Numbers <- SmallNumbers
    Timers <- AllTimers
    StackIsZero = FALSE
INVARIANTS
    AnnouncedWhileOpen
