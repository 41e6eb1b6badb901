SPECIFICATION FairSpec
CONSTANTS
    a = a  b = b  c = c  d = d  v = v  w = w  p = p  q = q
    NoNode = NoNode
    Node = {a, b, c, d}
    Deps <- Diamond
    Priority <- Size4
    Worker = {v, w}
    Client = {p}
    Program <- DiamondThenStart
    Strategy = "propagate"
    MayFail = {a, b, c, d}
    Panics = {}
    MaxGraphSize = 3
INVARIANTS
    TypeOK
    QuietEngineIsDone
PROPERTIES
    RefinesTaskOrder
    SleepsOnlyWhenFull
CHECK_DEADLOCK FALSE
