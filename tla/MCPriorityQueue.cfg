SPECIFICATION Spec
CONSTANTS
    Item = {1, 2, 3, 4, 5, 6, 7}
    Priority <- Priorities
    MaxFirst = TRUE
PROPERTIES
    RefinesPriorityOrder
