\* Three sends, a queue of two, a connection that breaks and one that stays, a stop.
CONSTANTS
    f1 = f1  f2 = f2  f3 = f3
    Frames = {f1, f2, f3}
    Flush = Flush
    QueueMax = 2
    MaxBackoff = 4
    MaxConnects = 2
    MaxFailures = 1
    MaxStops = 1
SPECIFICATION FairSpec
INVARIANTS
    TypeOK
    DropsAccounted
    FlushInOrder
PROPERTIES
    QueueDrains
    SendsReturn
CHECK_DEADLOCK FALSE
