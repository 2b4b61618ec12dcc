\* remove_buffers leaves design_area_ as it was.
CONSTANTS
    g1 = g1  g2 = g2  x1 = x1  x2 = x2  b1 = b1  b2 = b2  b3 = b3
    n1 = n1  n2 = n2  n3 = n3  n4 = n4  m1 = m1  m2 = m2  m3 = m3
    in1 = in1  clk = clk  out1 = out1
    Inst = {g1, g2, x1, x2, b1, b2}
    NetId = {n1, n2, n3, n4, m1, m2}
    InPort = {in1, clk}
    OutPort = {out1}
    ClkPort = {clk}
    Sizes = {1}
    BufferArea = 1
    NoNet = NoNet
    Designs <- MCBufferChain
    Commands = {"remove_buffers", "report_design_area"}
    AreaLimits = {}
    MaxCommands = 2
SPECIFICATION Spec
SYMMETRY MCSymmetry
CHECK_DEADLOCK FALSE
INVARIANTS DesignAreaExact
