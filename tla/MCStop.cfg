SPECIFICATION FairSpec
CONSTANTS
    a = a  b = b  c = c  d = d  v = v  w = w  p = p  q = q
    NoNode = NoNode
    Node = {a, b, c}
    Deps <- PairAndOne
    Priority <- Size3
    Worker = {w}
    Client = {p, q}
    Program <- ResetAndStop
    Strategy = "propagate"
    MayFail = {a}
    Panics = {b}
    MaxGraphSize = 1
INVARIANTS
    OneCopyEach
    GraphBounded
PROPERTIES
    RefinesTaskOrder
    NothingAfterStop
    RestingEngineStops
CHECK_DEADLOCK FALSE
