\* One PUT whose config validates and whose node does not start.
CONSTANTS
    c1 = c1  c2 = c2  d1 = d1
    Conns = {c1}
    Device <- MCDevice
    MaxWork = 1
    MaxRequests = 1
    MaxCrashes = 0
    b1 = b1  b2 = b2
    Bridges = {b1, b2}
    Soldiers = {soldier}
    NoOne = NoOne
    StaleTime = 1
    MaxTicks = 1
    MaxReports = 0
SPECIFICATION NodeSpec
INVARIANT NeverLeftDown
CHECK_DEADLOCK FALSE
