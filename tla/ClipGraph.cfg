\* Calls with and without a file and coordinates, between them moves and deletions.
CONSTANTS
    a = a  b = b  c = c  d = d
    n1 = n1  n2 = n2  n3 = n3  n4 = n4  n5 = n5  f1 = f1
    Inst = {a, b, c, d}
    Net = {n1, n2, n3, n4, n5}
    Tile = {1, 2, 3}
    Boxes <- MCBoxes
    Clips <- MCClips
    NetType <- MCNetType
    Terms <- MCTerms
    File = {f1}
    Calls <- MCCalls
    Half = 32
    NoClip = NoClip  NoInst = NoInst  NoFile = NoFile
    MaxSteps = 3
SPECIFICATION Spec
CHECK_DEADLOCK FALSE
INVARIANTS WeightsArePositive
PROPERTIES GraphIsClipOfWhole
