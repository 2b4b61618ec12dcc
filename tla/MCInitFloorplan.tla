-------------------------- MODULE MCInitFloorplan --------------------------
(***************************************************************************)
(* Small floorplans for InitFloorplan.                                     *)
(***************************************************************************)
EXTENDS InitFloorplan, TLC

CONSTANTS m1, m2, m3 \* layers

MCSite == [dx |-> 2, dy |-> 3]

\* m1 has horizontal tracks, m2 and m3 vertical ones; m3 has no pitch.
MCDirection == m1 :> "Y" @@ m2 :> "X" @@ m3 :> "X"
MCPitch == m1 :> 2 @@ m2 :> 3 @@ m3 :> 0
MCOffset == m1 :> 0 @@ m2 :> 1 @@ m3 :> 0

Area(d, c) == [die |-> d, core |-> c]

\* Off the site grid, at the origin and not, too narrow, too low, corners swapped.
MCAreas ==
    {Area(Rect(0, 0, 11, 10), Rect(3, 4, 10, 10)),
     Area(Rect(0, 0, 9, 13), Rect(0, 0, 9, 13)),
     Area(Rect(3, 2, 12, 14), Rect(5, 5, 11, 12)),
     Area(Rect(0, 0, 8, 8), Rect(2, 1, 3, 8)),
     Area(Rect(12, 12, 0, 0), Rect(11, 10, 3, 4))}

MCShapes ==
    {[util |-> u, ratio |-> r, bottom |-> 1, top |-> 2, left |-> 3, right |-> 0] :
     u \in {30, 100}, r \in {1, 2}}

NoFile == [status |-> "none", lines |-> <<>>]
Line(l, a, o, p) == [layer |-> l, axis |-> a, offset |-> o, pitch |-> p]
GoodFile == [status |-> "good",
             lines |-> <<Line(m1, "X", 1, 2), Line(m1, "Y", 2, 3), Line(m1, "X", 12, 4)>>]
BadFile == [status |-> "bad", lines |-> <<Line(m2, "X", 1, 2)>>]

MCTrackFiles == {NoFile, GoodFile, BadFile}
MCOldGrids == {<<>>, m2 :> <<Pattern("file", "X", 0, 3, 3)>>}

=============================================================================
