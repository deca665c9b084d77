\* Copies and bridging between two nodes; handlers at three, one late and faulty,
\* one partner with another codec.
CONSTANTS
    a = a  b = b  c = c  eud = eud  NoNode = NoNode
    m1 = m1  m2 = m2  mx = mx  h1 = h1  h2 = h2  h3 = h3
    Nodes = {a, b, c}
    Origins = {a, b, c, eud}
    Msgs = {m1, m2, mx}
    Types = {"track", "order"}
    Handlers = {h1, h2, h3}
    Origin <- MCOrigin
    Type <- MCType
    Subs <- MCSubs
    InitHandlers <- MCTwoHandlers
    Key <- MCSameKey
    CodecOf <- MCCodec
    Repeat = 2
    Window = 1
    Faulty = {h3}
    MaxLoss = 1
    MaxEdits = 1
    MaxForgets = 2
SPECIFICATION MCSpec
INVARIANTS
    TypeOK
    AtMostOncePerMemory
    LoopbackIgnored
    NoFalseDuplicate
    RepetitionDelivers
    HandledOncePerDispatch
    ShieldedHandlerServed
CHECK_DEADLOCK FALSE
