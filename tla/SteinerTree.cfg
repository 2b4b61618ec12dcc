SPECIFICATION Spec
CONSTANTS
    NoPt = NoPt
    l1 = l1
    l2 = l2
    l3 = l3
    Loc = {l1, l2, l3}
    Nets <- MCNets
CHECK_DEADLOCK FALSE
INVARIANTS
    PinsMatchPoints
    LeftRightIsTree
PROPERTIES
    Terminates
