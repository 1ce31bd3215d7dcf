SPECIFICATION Spec
CONSTANTS
    NoBlob = NoBlob
    NoResponse = NoResponse
    Measurements = 3
    RetryLimit = 1
    MaxCycles = 1
    MaxFlashes = 0
INVARIANTS
    FrequencyErased
CHECK_DEADLOCK FALSE
