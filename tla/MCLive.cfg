SPECIFICATION FairSpec
CONSTANTS
    a = a  b = b  c = c  d = d  v = v  w = w  p = p  q = q
    NoNode = NoNode
    Node = {a, b, c}
    Deps <- PairAndOne
    Priority <- Size3
    Worker = {w}
    Client = {p, q}
    Program <- PauseAndResume
    Strategy = "isolate"
    MayFail = {a, b, c}
    Panics = {}
    MaxGraphSize = 2
INVARIANTS
    SignalsCoverQueue
PROPERTIES
    EveryNodeFinishes
    WaitForReturns
CHECK_DEADLOCK FALSE
