---------------------------- MODULE MCRepairNet ----------------------------
(***************************************************************************)
(* RepairNet for TLC, on the shapes of Steiner trees with up to four loads *)
(* (the two children of a point are not interchangeable: a tie goes to the *)
(* right one).  Points are numbered as in SteinerTree: the d pins first.   *)
(***************************************************************************)
EXTENDS RepairNet

CONSTANTS Drvr, A, B, C, D \* pins

\* A tree of points 0..m, from the sequences of children and pins of the points in order.
FromZero(f) == [p \in 0..Len(f) - 1 |-> f[p + 1]]

MakeTree(left, right, pin) ==
    [pts |-> 0..Len(pin) - 1, root |-> 0,
     left |-> FromZero(left), right |-> FromZero(right), pin |-> FromZero(pin)]

TwoPins == MakeTree(<<1, NoPt>>, <<NoPt, NoPt>>, <<Drvr, A>>)

ThreePins ==
    MakeTree(<<3, NoPt, NoPt, 1>>, <<NoPt, NoPt, NoPt, 2>>, <<Drvr, A, B, NoPin>>)

\* The branch with two loads on the right, and on the left.
FourPins ==
    MakeTree(<<4, NoPt, NoPt, NoPt, 1, 2>>, <<NoPt, NoPt, NoPt, NoPt, 5, 3>>,
             <<Drvr, A, B, C, NoPin, NoPin>>)

FourPinsLeft ==
    MakeTree(<<4, NoPt, NoPt, NoPt, 5, 2>>, <<NoPt, NoPt, NoPt, NoPt, 1, 3>>,
             <<Drvr, A, B, C, NoPin, NoPin>>)

\* Two branches with two loads each.
FivePins ==
    MakeTree(<<5, NoPt, NoPt, NoPt, NoPt, 6, 1, 3>>,
             <<NoPt, NoPt, NoPt, NoPt, NoPt, 7, 2, 4>>,
             <<Drvr, A, B, C, D, NoPin, NoPin, NoPin>>)

FewLoads == {TwoPins, ThreePins, FourPins, FourPinsLeft}
ManyLoads == {FivePins}

=============================================================================
