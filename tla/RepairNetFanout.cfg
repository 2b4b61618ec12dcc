SPECIFICATION Spec
CONSTANTS
    NoPt = NoPt
    NoPin = NoPin
    Drvr = Drvr
    A = A
    B = B
    C = C
    D = D
    Trees <- ManyLoads
    Lengths = {1}
    PinCaps = {1}
    PinFanouts = {1}
    MaxCaps = {}
    MaxFanouts = {2}
    MaxLengths = {0}
    INF = 99
    WireCap = 1
    BufCap = 1
    BufFanout = 1
INVARIANTS
    FanoutRepaired
CHECK_DEADLOCK FALSE
