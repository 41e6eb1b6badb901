SPECIFICATION FairSpec
CONSTANTS
    a = a  b = b  c = c  d = d  v = v  w = w  p = p  q = q
    NoNode = NoNode
    Node = {1, 2, 3, 4, 5}
    Deps <- Alone5
    Priority <- Size5
    Worker = {w}
    Client = {p, q}
    Program <- StatsMeanwhile
    Strategy = "propagate"
    MayFail = {}
    Panics = {}
    MaxGraphSize = 5
PROPERTIES
    StatsReturn
CHECK_DEADLOCK FALSE
