\* Three requests, overlapping or not: what survives the missing lock.
CONSTANTS
    s1 = s1  s2 = s2  r1 = r1  r2 = r2  r3 = r3  p = p  q = q
    Servers = {s1, s2}
    Params = {p, q}
    Requests = {r1, r2, r3}
    Absent = Absent
    NoRequest = NoRequest
    Initial <- MCInitial
SPECIFICATION Spec
SYMMETRY Symmetry
INVARIANTS
    TypeOK
    NoStrayConnector
    SequentialTruth
CHECK_DEADLOCK FALSE
