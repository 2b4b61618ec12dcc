----------------------------- MODULE MCResizer -----------------------------
(***************************************************************************)
(* Small netlists for Resizer.                                             *)
(***************************************************************************)
EXTENDS Resizer, TLC

CONSTANTS g1, g2, x1, x2, b1, b2, b3,       \* instances; b1..b3 start free
          n1, n2, n3, n4, m1, m2, m3,       \* nets; m1..m3 start free
          in1, clk, out1                    \* ports

MCSymmetry == Permutations({b1, b2, b3} \cap Inst) \cup Permutations({m1, m2, m3} \cap NetId)

\* The netlist with instances K (kinds) and terminals C, and signals G on its nets.
MkDesign(K, C, G, sp) ==
    [insts |-> DOMAIN K,
     kind |-> [i \in Inst |-> IF i \in DOMAIN K THEN K[i] ELSE "gate"],
     size |-> [i \in Inst |-> CHOOSE s \in Sizes : TRUE],
     nets |-> DOMAIN G,
     special |-> sp,
     conn |-> [p \in Pin |-> IF p \in DOMAIN C THEN C[p] ELSE NoNet],
     sig |-> [n \in NetId |-> IF n \in DOMAIN G THEN G[n] ELSE <<"none", TRUE>>]]

\* in1 -> g1.a, x1 (buffer) -> x2 (buffer) -> g2.a; g1 -> out1; clk -> g1.b, g2.b
BufferChain ==
    MkDesign(g1 :> "gate" @@ g2 :> "gate" @@ x1 :> "buf" @@ x2 :> "buf",
             in1 :> n1 @@ In(g1) :> n1
             @@ Out(g1) :> n2 @@ out1 :> n2 @@ In(x1) :> n2
             @@ Out(x1) :> n3 @@ In(x2) :> n3
             @@ Out(x2) :> n4 @@ In(g2) :> n4,
             n1 :> <<in1, TRUE>> @@ n2 :> <<g1, TRUE>> @@ n3 :> <<g1, TRUE>>
             @@ n4 :> <<g1, TRUE>>,
             {})

\* clk -> x1 (inverter) -> x2 (inverter), g1.b; x2 -> g2.b; g1 -> g2.a
ClockTree ==
    MkDesign(g1 :> "gate" @@ g2 :> "gate" @@ x1 :> "inv" @@ x2 :> "inv",
             clk :> n1 @@ In(x1) :> n1
             @@ Out(x1) :> n2 @@ In(x2) :> n2 @@ In2(g1) :> n2
             @@ Out(x2) :> n3 @@ In2(g2) :> n3
             @@ Out(g1) :> n4 @@ In(g2) :> n4,
             n1 :> <<clk, TRUE>> @@ n2 :> <<clk, FALSE>> @@ n3 :> <<clk, TRUE>>
             @@ n4 :> <<g1, TRUE>>,
             {})

\* x1 (tie) -> g1.a, out1; in1 -> x2 (buffer) -> g2.a; clk -> g2.b
TieNet ==
    MkDesign(g1 :> "gate" @@ g2 :> "gate" @@ x1 :> "tie" @@ x2 :> "buf",
             Out(x1) :> n1 @@ In(g1) :> n1 @@ out1 :> n1
             @@ in1 :> n2 @@ In(x2) :> n2
             @@ Out(x2) :> n3 @@ In(g2) :> n3
             @@ clk :> n4 @@ In2(g2) :> n4,
             n1 :> <<"tie", TRUE>> @@ n2 :> <<in1, TRUE>> @@ n3 :> <<in1, TRUE>>
             @@ n4 :> <<clk, TRUE>>,
             {})

\* A netlist with loose ends: x1 (buffer) and x2 (inverter on the clock) drive nothing,
\* g1 drives the special net n2, nothing drives n3.
LooseEnds ==
    MkDesign(g1 :> "gate" @@ g2 :> "gate" @@ x1 :> "buf" @@ x2 :> "inv",
             in1 :> n1 @@ In(g1) :> n1 @@ In(x1) :> n1
             @@ Out(g1) :> n2 @@ In(g2) :> n2
             @@ In2(g1) :> n3
             @@ clk :> n4 @@ In2(g2) :> n4 @@ In(x2) :> n4,
             n1 :> <<in1, TRUE>> @@ n2 :> <<g1, TRUE>> @@ n3 :> <<"none", TRUE>>
             @@ n4 :> <<clk, TRUE>>,
             {n2})

\* Special nets on a port, on a gate and on the way to an output: in1 -> g1.a is special,
\* g1 -> x1 (buffer) is not, x1 -> out1, g2.a is; a tie cell x2 drives nothing.
SpecialNets ==
    MkDesign(g1 :> "gate" @@ g2 :> "gate" @@ x1 :> "buf" @@ x2 :> "tie",
             in1 :> n1 @@ In(g1) :> n1
             @@ Out(g1) :> n2 @@ In(x1) :> n2
             @@ Out(x1) :> n3 @@ out1 :> n3 @@ In(g2) :> n3
             @@ clk :> n4 @@ In2(g1) :> n4 @@ In2(g2) :> n4,
             n1 :> <<in1, TRUE>> @@ n2 :> <<g1, TRUE>> @@ n3 :> <<g1, TRUE>>
             @@ n4 :> <<clk, TRUE>>,
             {n1, n3})

MCDesigns      == {BufferChain, ClockTree, TieNet, LooseEnds, SpecialNets}
MCClockTree    == {ClockTree}
MCBufferChain  == {BufferChain}
MCCacheDesigns == {ClockTree, SpecialNets}
=============================================================================
