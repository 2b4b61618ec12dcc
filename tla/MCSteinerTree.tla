--------------------------- MODULE MCSteinerTree ---------------------------
(***************************************************************************)
(* SteinerTree for TLC.                                                    *)
(***************************************************************************)
EXTENDS SteinerTree

CONSTANTS l1, l2, l3

\* Up to three pins anywhere, four pins at two locations, five at one.
MCNets == [1..2 -> Loc] \cup [1..3 -> Loc] \cup [1..4 -> {l1, l2}] \cup [1..5 -> {l1}]

=============================================================================
