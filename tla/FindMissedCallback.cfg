SPECIFICATION Spec
CONSTANTS
    a = a  b = b  c = c  d = d  v = v  w = w  p = p  q = q
    NoNode = NoNode
    Node = {a, b, c}
    Deps <- PairAndOne
    Priority <- Size3
    Worker = {w}
    Client = {p}
    Program <- StartThenPush
    Strategy = "propagate"
    MayFail = {a, b, c}
    Panics = {}
    MaxGraphSize = 3
INVARIANTS
    CompletedNodesLeaveGraph
CHECK_DEADLOCK FALSE
