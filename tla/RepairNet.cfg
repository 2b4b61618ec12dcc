SPECIFICATION Spec
CONSTANTS
    NoPt = NoPt
    NoPin = NoPin
    Drvr = Drvr
    A = A
    B = B
    C = C
    D = D
    Trees <- FewLoads
    Lengths = {0, 1, 4}
    PinCaps = {1}
    PinFanouts = {1}
    MaxCaps = {4}
    MaxFanouts = {2}
    MaxLengths = {0, 3}
    INF = 99
    WireCap = 1
    BufCap = 1
    BufFanout = 1
CHECK_DEADLOCK FALSE
INVARIANTS
    TypeOK
    LoadsWaiting
    NoLoop
    EveryRepeaterDrives
    EstimatesExact
    LengthRepaired
    RepeatersOnWire
PROPERTIES
    InsertsRepeaters
    Terminates
