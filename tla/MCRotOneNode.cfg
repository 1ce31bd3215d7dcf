SPECIFICATION Spec
CONSTANTS
    Client = Client
    NoPeer = NoPeer
    NoMsg = NoMsg
    NoEntry = NoEntry
    NoValue = NoValue
    Malformed = Malformed
    ClientKey = ClientKey
    n1 = n1
    n2 = n2
    i1 = i1
    i2 = i2
    v1 = v1
    v2 = v2
    b1 = b1
    b2 = b2
    k1 = k1
    k1x = k1x
    k2 = k2
    IdB = b1
    ServerIds = {b1, b2}
    Verifiers = {v1, v2}
    Devices = {n1}
    Ids = {i1}
    PubKeys = {k1, k1x, Malformed}
    ReconKeys <- OneNode
    NvsContents <- OneNodeNvs
    Registries <- OneNodeRegistry
    Faults = {"reset", "silent", "slow", "power", "wifi", "crypto", "client"}
    MaxConns = 2
    MaxOps = 0
INVARIANTS
    KeyAgreement
    ServerAuthentic
    PayloadAuthentic
PROPERTIES
    InFlightOnce
    ImplementsMutualAuth
CHECK_DEADLOCK FALSE
