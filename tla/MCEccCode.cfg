SPECIFICATION Spec
CONSTANTS
    NoValue = NoValue
    WordBits = 4
    MemBits = 18
    Measurements = 20
    RtcCounters <- SomeCounters
    SleepCounters <- OtherCounters
    Noises <- UpToThree
INVARIANTS
    SameResponse
    ErrorsExact
    MasksFill
    TablesDecode
CHECK_DEADLOCK FALSE
