SPECIFICATION FairSpec
CONSTANTS
    NoBlob = NoBlob
    NoResponse = NoResponse
    Measurements = 20
    RetryLimit = 5
    MaxCycles = 2
    MaxFlashes = 1
INVARIANTS
    HelperConsistent
    ReadyHeld
    WakeFindsData
    RetryBounded
PROPERTIES
    ImplementsStableIdentity
    BootDecides
CHECK_DEADLOCK FALSE
