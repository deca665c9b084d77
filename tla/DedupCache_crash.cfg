\* The purge thread between the length test and the subscript.
CONSTANTS
    k1 = k1  k2 = k2  k3 = k3  k4 = k4  k5 = k5  k6 = k6
    Keys = {k1, k2}
    NoKey = NoKey
    Window = 1
SPECIFICATION Spec
INVARIANT EveryFrameDecided
