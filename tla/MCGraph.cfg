SPECIFICATION FairSpec
CONSTANTS
    a = a  b = b  c = c  d = d
    Node = {a, b, c, d}
    Deps <- Shared
    MaxGraphSize = 3
    Strategy = "propagate"
INVARIANTS
    TypeOK
    DependencyOrder
    PublishesLiveNodesOnce
    CancelledNeverRuns
    CountsPending
PROPERTIES
    RefinesTaskOrder
    ClosedFormIsRecursion
    WiredGraphFinishes
CHECK_DEADLOCK FALSE
