\* Sessions of MaxSteps commands; two files of each kind.
CONSTANTS
    buf = buf  ff = ff  box = box
    f1 = f1  f2 = f2  l1 = l1  l2 = l2  hier = hier  feed = feed
    Lef = {f1, f2}
    Liberty = {l1, l2}
    VerilogFile = {hier, feed}
    Cell = {buf, ff, box}
    Masters <- MCMasters
    LibCells <- MCLibCells
    Verilog <- MCVerilog
    NoLef = NoLef  NoLiberty = NoLiberty  NoVerilog = NoVerilog
    NoBlock = NoBlock  NoCell = NoCell
    MaxSteps = 8
SPECIFICATION Spec
CHECK_DEADLOCK FALSE
INVARIANTS FlatIsHierarchical FirstLibertyIsLinked
PROPERTIES NetworkFollowsBlock
