--------------------------- MODULE MCRepairHold ---------------------------
(***************************************************************************)
(* Four paths for RepairHold.                                              *)
(***************************************************************************)
EXTENDS RepairHold, TLC

CONSTANTS d1, d2, d3, d4, e1, e2, e3, p1, p2, p3, p4

\* e1 behind d1 and d2, e2 behind d2 and d3, and behind the special net of d4 alone; e3
\* is a clock endpoint behind d3.
MCThrough == p1 :> {d1, d2} @@ p2 :> {d2, d3} @@ p3 :> {d4} @@ p4 :> {d3}
MCTo == p1 :> e1 @@ p2 :> e2 @@ p3 :> e2 @@ p4 :> e3

MCSlacks == {-3, -1, 0}
MCAreaLimits == {-1, 0, 2}

=============================================================================
