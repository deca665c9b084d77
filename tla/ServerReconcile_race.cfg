\* Two overlapping requests: the live and persisted truth.
CONSTANTS
    s1 = s1  s2 = s2  r1 = r1  r2 = r2  r3 = r3  p = p  q = q
    Servers = {s1, s2}
    Params = {p, q}
    Requests = {r1, r2}
    Absent = Absent
    NoRequest = NoRequest
    Initial <- MCInitial
SPECIFICATION Spec
INVARIANT LiveTruth
CHECK_DEADLOCK FALSE
