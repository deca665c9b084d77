\* A blocked bridged originator.
CONSTANTS
    a = a  b = b  c = c  eud = eud  NoNode = NoNode
    m1 = m1  m2 = m2  mx = mx  h1 = h1  h2 = h2  h3 = h3
    Nodes = {a, b}
    Origins = {a, b, eud}
    Msgs = {mx}
    Types = {"track"}
    Handlers = {}
    Origin <- MCOrigin
    Type <- MCType
    Subs <- MCSubs
    InitHandlers <- MCNoHandlers
    Key <- MCSameKey
    CodecOf <- MCCodec
    Repeat = 2
    Window = 1
    Faulty = {}
    MaxLoss = 0
    MaxEdits = 1
    MaxForgets = 0
SPECIFICATION BypassSpec
PROPERTY BlockedNeverEnters
CHECK_DEADLOCK FALSE
