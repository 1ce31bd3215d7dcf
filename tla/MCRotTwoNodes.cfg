SPECIFICATION FairSpec
CONSTANTS
    Client = Client
    NoPeer = NoPeer
    NoMsg = NoMsg
    NoEntry = NoEntry
    NoValue = NoValue
    Malformed = Malformed
    ClientKey = ClientKey
    n1 = n1
    n2 = n2
    i1 = i1
    i2 = i2
    v1 = v1
    v2 = v2
    b1 = b1
    b2 = b2
    k1 = k1
    k1x = k1x
    k2 = k2
    IdB = b1
    ServerIds = {b1, b2}
    Verifiers = {v1, v2}
    Devices = {n1, n2}
    Ids = {i1, i2}
    PubKeys = {k1, k2, Malformed}
    ReconKeys <- TwoNodes
    NvsContents <- TwoNodesNvs
    Registries <- TwoNodesRegistry
    Faults = {"power"}
    MaxConns = 3
    MaxOps = 0
INVARIANTS
    NodeAuthentic
PROPERTIES
    NodeServed
CHECK_DEADLOCK FALSE
