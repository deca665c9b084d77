\* Overlapping requests, a crash; two connections of one device; two bridges.
CONSTANTS
    c1 = c1  c2 = c2  d1 = d1
    Conns = {c1, c2}
    Device <- MCDevice
    MaxWork = 3
    MaxRequests = 3
    MaxCrashes = 1
    b1 = b1  b2 = b2
    Bridges = {b1, b2}
    Soldiers = {soldier}
    NoOne = NoOne
    StaleTime = 1
    MaxTicks = 3
    MaxReports = 2
SPECIFICATION NodeSpec
SYMMETRY NodeSymmetry
INVARIANTS
    NodeTypeOK
    ServingNodeRuns
    LeaksAccounted
    ReconfiguredTruth
    ListenerTruth
    OwnTrackNotEchoed
    FanOutServes
    MapTruth
PROPERTY DeletedOnlySilent
CHECK_DEADLOCK FALSE
