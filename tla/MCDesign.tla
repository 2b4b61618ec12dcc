----------------------------- MODULE MCDesign -----------------------------
(***************************************************************************)
(* Libraries and netlists for Design.                                      *)
(***************************************************************************)
EXTENDS Design

CONSTANTS buf, ff, box,     \* cells
          f1, f2,           \* LEF files
          l1, l2,           \* liberty files
          hier, feed        \* Verilog files

\* The pin p of buf is missing from the second LEF file.
MCMasters == f1 :> (buf :> {"A", "Z"} @@ ff :> {"D", "Q", "CP"}) @@ f2 :> (buf :> {"A"})

MCLibCells == l1 :> {buf} @@ l2 :> {buf, ff}

\* dbSta/test/hier1.v, with the output of the second block left open and a black box.
Hier ==
    [insts    |-> "b1/u1" :> buf @@ "b1/r1" :> ff @@ "b2/u1" :> buf @@ "b2/r1" :> ff @@ "x" :> box,
     nets     |-> <<"in", "clk", "b1out", "b1/in", "b1/clk", "b1/u1out", "b1/out",
                    "b2/in", "b2/clk", "b2/u1out", "b2/out">>,
     top      |-> {"in", "clk", "b1out"},
     constant |-> {},
     terms    |-> <<<<"b1/in", "in">>, <<"b1/clk", "clk">>, <<"b1/out", "b1out">>,
                    <<"b2/in", "b1out">>, <<"b2/clk", "clk">>>>,
     pins     |-> <<"b1/u1", "A">> :> "b1/in" @@ <<"b1/u1", "Z">> :> "b1/u1out"
               @@ <<"b1/r1", "D">> :> "b1/u1out" @@ <<"b1/r1", "CP">> :> "b1/clk"
               @@ <<"b1/r1", "Q">> :> "b1/out"
               @@ <<"b2/u1", "A">> :> "b2/in" @@ <<"b2/u1", "Z">> :> "b2/u1out"
               @@ <<"b2/r1", "D">> :> "b2/u1out" @@ <<"b2/r1", "CP">> :> "b2/clk"
               @@ <<"b2/r1", "Q">> :> "b2/out" @@ <<"x", "A">> :> "b2/out",
     ports    |-> "in" :> [net |-> "in", dir |-> "input"]
               @@ "clk" :> [net |-> "clk", dir |-> "bidirect"]
               @@ "out" :> [net |-> "b1out", dir |-> "tristate"]]

\* A child ties two of its ports together, another its pin to ground; two levels deep, a
\* child ties a port to one that is left open.
Feed ==
    [insts    |-> "u1" :> buf @@ "c/d/u2" :> buf @@ "c/r" :> ff,
     nets     |-> <<"a", "b", "y", "zero_", "c/p", "c/k", "c/o", "c/d/i", "c/d/w">>,
     top      |-> {"a", "b", "y", "zero_"},
     constant |-> {"zero_"},
     terms    |-> <<<<"c/p", "a">>, <<"c/p", "b">>, <<"c/k", "zero_">>,
                    <<"c/d/i", "c/p">>, <<"c/d/w", "y">>, <<"c/d/w", "c/o">>>>,
     pins     |-> <<"u1", "A">> :> "a" @@ <<"u1", "Z">> :> "y"
               @@ <<"c/d/u2", "A">> :> "c/d/i" @@ <<"c/d/u2", "Z">> :> "c/d/w"
               @@ <<"c/r", "D">> :> "c/p" @@ <<"c/r", "CP">> :> "c/k" @@ <<"c/r", "Q">> :> "y",
     ports    |-> "a" :> [net |-> "a", dir |-> "input"]
               @@ "b" :> [net |-> "b", dir |-> "output"]
               @@ "y" :> [net |-> "y", dir |-> "unknown"]]

MCVerilog == hier :> Hier @@ feed :> Feed

===========================================================================
