\* repair_clock_nets adds nets that clk_nets_ never learns of.
CONSTANTS
    g1 = g1  g2 = g2  x1 = x1  x2 = x2  b1 = b1  b2 = b2  b3 = b3
    n1 = n1  n2 = n2  n3 = n3  n4 = n4  m1 = m1  m2 = m2  m3 = m3
    in1 = in1  clk = clk  out1 = out1
    Inst = {g1, g2, x1, x2, b1, b2}
    NetId = {n1, n2, n3, n4, m1, m2}
    InPort = {in1, clk}
    OutPort = {out1}
    ClkPort = {clk}
    Sizes = {1, 2}
    BufferArea = 1
    NoNet = NoNet
    Designs <- MCClockTree
    Commands = {"repair_clock_nets", "resize"}
    AreaLimits = {}
    MaxCommands = 2
SPECIFICATION Spec
SYMMETRY MCSymmetry
CHECK_DEADLOCK FALSE
PROPERTIES ClockHandsOff
