---------------------------- MODULE MCClipGraph ----------------------------
(***************************************************************************)
(* A small block for ClipGraph.                                            *)
(***************************************************************************)
EXTENDS ClipGraph, TLC

CONSTANTS a, b, c, d,          \* instances
          n1, n2, n3, n4, n5,  \* nets
          f1                   \* a file

Term(i, io) == [inst |-> i, io |-> io, sig |-> "signal"]

MCBoxes == {{1, 2}, {3}}
MCClips == {{1}, {2, 3}}

MCNetType == n1 :> "signal" @@ n2 :> "signal" @@ n3 :> "signal" @@ n4 :> "clock" @@ n5 :> "power"

\* n1: a drives the others and itself; n2: a port drives b and c, a supply terminal of d
\* hangs on it; n3: c and d drive it, b is the load.
MCTerms ==
    n1 :> <<Term(b, "input"), Term(a, "output"), Term(a, "input"), Term(c, "input"), Term(d, "input")>>
    @@ n2 :> <<Term(b, "input"), Term(c, "input"), [inst |-> d, io |-> "input", sig |-> "power"]>>
    @@ n3 :> <<Term(d, "output"), Term(b, "input"), Term(c, "output")>>
    @@ n4 :> <<Term(b, "input"), Term(c, "input")>>
    @@ n5 :> <<[inst |-> a, io |-> "input", sig |-> "power"]>>

Call(m, w, f, cl) == [model |-> m, weight |-> w, file |-> f, clip |-> cl]

MCCalls ==
    {Call(m, w, x[1], x[2]) : m \in {"default", "clique"}, w \in {"default", "c"},
                              x \in {<<f1, {1}>>, <<f1, {2, 3}>>, <<NoFile, {1}>>, <<f1, NoClip>>}}
    \cup {Call(m, w, f1, {2, 3}) : m \in {"star", "unknown"}, w \in {"b", "d", "e", "unknown"}}

=============================================================================
