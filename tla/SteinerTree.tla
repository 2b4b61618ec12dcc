---------------------------- MODULE SteinerTree ----------------------------
(***************************************************************************)
(* src/src/resizer/src/SteinerTree.cc: how Flute's tree of a net becomes   *)
(* the binary tree on which the resizer recurses.                          *)
(*                                                                         *)
(* Flute takes locations and returns a tree on 2d - 2 points, each with    *)
(* the index n of a neighbour (the root names itself).  The first d points *)
(* are the pins, in an order of Flute's own, the others Steiner points.    *)
(* setTree finds out which pin is which point; several pins may lie at     *)
(* one location.  findLeftRights directs the tree away from the driver.    *)
(***************************************************************************)
EXTENDS Naturals, Sequences, FiniteSets, RootedTree

CONSTANTS
    Loc,  \* where a pin may lie
    Nets  \* the locations of the pins 1..d of a net

ASSUME SteinerAssumption == /\ NoPt \notin Nat
                            /\ \A f \in Nets : f \in Seq(Loc) /\ Len(f) > 1

VARIABLES
    location,            \* the location of each pin; the pins are 1..d in name order
    drivers,             \* the pins that drive the net
    branch, n,           \* tree_: the locations of the pin points, the neighbours
    phase,               \* where makeSteinerTree is
    i,                   \* index of its loop
    loc_pins_map,        \* the pins at a location that have no point yet
    steiner_pt_pin_map_,
    pin_steiner_pt_map_,
    adj,                 \* adj1, adj2, adj3: the neighbours of a point
    left_, right_,
    stack                \* the calls of findLeftRights that have not returned

net == <<location, drivers, branch, n>>
maps == <<loc_pins_map, steiner_pt_pin_map_, pin_steiner_pt_map_>>
vars == <<net, phase, i, maps, adj, left_, right_, stack>>

pinCount == Len(location)
Pins == 1..pinCount
branchCount == 2 * pinCount - 2
Pt == 0..branchCount - 1
PinPt == 0..pinCount - 1

(***************************************************************************)
(* Flute: pins are leaves, Steiner points have three neighbours, and every *)
(* point leads to the one root.  A tree of two pins has no Steiner point.  *)
(***************************************************************************)
Neighbours(f, p) == {q \in DOMAIN f \ {p} : f[q] = p} \cup ({f[p]} \ {p})

IsFluteTree(d, f) ==
    /\ \A p \in DOMAIN f : Cardinality(Neighbours(f, p)) = (IF p < d THEN 1 ELSE 3)
    /\ \A S \in SUBSET (d..2 * d - 3) :
          S # {} /\ (\A p \in S : f[p] \in S) => \E p \in S : f[p] = p
    /\ Cardinality({p \in DOMAIN f : f[p] = p}) = 1

FluteTrees(d) ==
    IF d = 2
    THEN {[p \in 0..1 |-> 1]}
    ELSE {f \in [0..2 * d - 3 -> d..2 * d - 3] : IsFluteTree(d, f)}

PinsAt(l) == {p \in Pins : location[p] = l}

\* Flute keeps the locations and permutes them.
Permuted == \A l \in Loc : Cardinality({p \in PinPt : branch[p] = l}) = Cardinality(PinsAt(l))

\* The pins at l in the order of their names.
InOrder(S) == CHOOSE s \in [1..Cardinality(S) -> S] : \A j, k \in DOMAIN s : j < k => s[j] < s[k]

Init ==
    /\ location \in Nets
    /\ drivers \in (SUBSET Pins) \ {{}}
    /\ branch \in [PinPt -> Loc] /\ Permuted
    /\ n \in FluteTrees(pinCount)
    /\ phase = "setTree" /\ i = 0
    /\ loc_pins_map = [l \in Loc |-> InOrder(PinsAt(l))]
    /\ steiner_pt_pin_map_ = << >> /\ pin_steiner_pt_map_ = << >>
    /\ adj = [p \in Pt |-> << >>]
    /\ left_ = [p \in Pt |-> NoPt] /\ right_ = [p \in Pt |-> NoPt]
    /\ stack = << >>

-----------------------------------------------------------------------------
Extended(f, x, y) == [z \in DOMAIN f \cup {x} |-> IF z = x THEN y ELSE f[z]]

\* Mutant: the pin stays among those of its location.
SetTreeShared ==
    LET pins == loc_pins_map[branch[i]]
        pin == pins[Len(pins)]
    IN /\ phase = "setTree" /\ i < pinCount
       /\ steiner_pt_pin_map_' = Extended(steiner_pt_pin_map_, i, pin)
       /\ pin_steiner_pt_map_' = Extended(pin_steiner_pt_map_, pin, i)
       /\ i' = i + 1
       /\ UNCHANGED <<net, phase, loc_pins_map, adj, left_, right_, stack>>

\* setTree: point i is the last of the pins at its location that has no point yet.
SetTree ==
    LET pins == loc_pins_map[branch[i]]
        pin == pins[Len(pins)]
    IN /\ phase = "setTree" /\ i < pinCount
       /\ steiner_pt_pin_map_' = Extended(steiner_pt_pin_map_, i, pin)
       /\ pin_steiner_pt_map_' = Extended(pin_steiner_pt_map_, pin, i)
       /\ loc_pins_map' = [loc_pins_map EXCEPT ![branch[i]] = SubSeq(pins, 1, Len(pins) - 1)]
       /\ i' = i + 1
       /\ UNCHANGED <<net, phase, adj, left_, right_, stack>>

TreeIsSet ==
    /\ phase = "setTree" /\ i = pinCount
    /\ phase' = "adjacent" /\ i' = 0
    /\ UNCHANGED <<net, maps, adj, left_, right_, stack>>

\* A fourth neighbour would take the place of the third.
AddAdj(a, p, q) ==
    [a EXCEPT ![p] = IF Len(a[p]) < 3 THEN Append(a[p], q) ELSE [a[p] EXCEPT ![3] = q]]

\* findLeftRights: the edge of point i, in both directions.
FindAdjacent ==
    LET j == n[i]
    IN /\ phase = "adjacent" /\ i < branchCount
       /\ adj' = IF j # i THEN AddAdj(AddAdj(adj, i, j), j, i) ELSE adj
       /\ i' = i + 1
       /\ UNCHANGED <<net, phase, maps, left_, right_, stack>>

\* drvrPt: the first point whose pin drives the net.
drvrPt == CHOOSE p \in PinPt : /\ steiner_pt_pin_map_[p] \in drivers
                               /\ \A q \in 0..p - 1 : steiner_pt_pin_map_[q] \notin drivers

FindLeftRights ==
    LET root_adj == adj[drvrPt][1]
    IN /\ phase = "adjacent" /\ i = branchCount
       /\ phase' = "leftRight"
       /\ left_' = [left_ EXCEPT ![drvrPt] = root_adj]
       /\ stack' = <<[from |-> drvrPt, to |-> root_adj, k |-> 1]>>
       /\ UNCHANGED <<net, i, maps, adj, right_>>

Top == stack[Len(stack)]
Below == SubSeq(stack, 1, Len(stack) - 1)
Calling(p) == phase = "leftRight" /\ stack # << >> /\ Top.to = p

\* Mutant: the call on top treats the same neighbour again.
SameAdj == stack

\* The call on top goes on to its next neighbour.
NextAdj == Append(Below, [Top EXCEPT !.k = @ + 1])
Call(q) == Append(NextAdj, [from |-> Top.to, to |-> q, k |-> 1])

Visits(p, q) ==
    /\ Calling(p) /\ p >= pinCount
    /\ Top.k <= Len(adj[p]) /\ q = adj[p][Top.k]
    /\ q # Top.from

VisitLeft(p, q) ==
    /\ Visits(p, q) /\ q # p /\ left_[p] = NoPt
    /\ left_' = [left_ EXCEPT ![p] = q]
    /\ stack' = Call(q)
    /\ UNCHANGED <<net, phase, i, maps, adj, right_>>

\* Mutant: what is below the right child is not visited.
VisitRightShallow(p, q) ==
    /\ Visits(p, q) /\ q # p /\ left_[p] # NoPt /\ right_[p] = NoPt
    /\ right_' = [right_ EXCEPT ![p] = q]
    /\ stack' = NextAdj
    /\ UNCHANGED <<net, phase, i, maps, adj, left_>>

VisitRight(p, q) ==
    /\ Visits(p, q) /\ q # p /\ left_[p] # NoPt /\ right_[p] = NoPt
    /\ right_' = [right_ EXCEPT ![p] = q]
    /\ stack' = Call(q)
    /\ UNCHANGED <<net, phase, i, maps, adj, left_>>

\* The neighbour the call came from.
SkipFrom(p) ==
    /\ Calling(p) /\ p >= pinCount
    /\ Top.k <= Len(adj[p]) /\ adj[p][Top.k] = Top.from
    /\ stack' = NextAdj
    /\ UNCHANGED <<net, phase, i, maps, adj, left_, right_>>

\* The calls for the three neighbours are done, or p is a pin, where the tree ends.
Return(p) ==
    /\ Calling(p) /\ (p < pinCount \/ Top.k > Len(adj[p]))
    /\ stack' = Below
    /\ UNCHANGED <<net, phase, i, maps, adj, left_, right_>>

Finish ==
    /\ phase = "leftRight" /\ stack = << >>
    /\ phase' = "done"
    /\ UNCHANGED <<net, i, maps, adj, left_, right_, stack>>

Next ==
    \/ SetTree \/ TreeIsSet \/ FindAdjacent \/ FindLeftRights
    \/ \E p, q \in Pt : VisitLeft(p, q) \/ VisitRight(p, q)
    \/ \E p \in Pt : SkipFrom(p) \/ Return(p)
    \/ Finish

\* The function runs until it returns.
Spec == Init /\ [][Next]_vars /\ WF_vars(Next)

-----------------------------------------------------------------------------
\* However many pins share a location, and in whatever order Flute returns the locations,
\* each point gets a pin that lies where the point does, no pin gets two points, and the
\* two maps are each other's inverses; setTree never takes the last pin of an empty list,
\* and at the end every pin has a point.
PinsMatchPoints ==
    /\ phase = "setTree" /\ i < pinCount => loc_pins_map[branch[i]] # << >>
    /\ \A p \in DOMAIN steiner_pt_pin_map_ :
          /\ location[steiner_pt_pin_map_[p]] = branch[p]
          /\ pin_steiner_pt_map_[steiner_pt_pin_map_[p]] = p
    /\ phase # "setTree" => DOMAIN pin_steiner_pt_map_ = Pins

\* The recursion ends with the binary tree its users expect, whatever pin drives the net
\* and wherever Flute put its root, and its edges are the edges of Flute's tree.
LeftRightIsTree ==
    phase = "done" =>
       /\ IsRootedTree(Pt, PinPt, drvrPt, left_, right_)
       /\ \A p \in Pt : \A q \in Children(left_, right_, p) : n[p] = q \/ n[q] = p

\* The recursion returns.
Terminates == <>(phase = "done")

=============================================================================
