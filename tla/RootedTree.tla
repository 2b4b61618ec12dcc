----------------------------- MODULE RootedTree -----------------------------
(***************************************************************************)
(* What findLeftRights() of SteinerTree.cc makes of a Steiner tree, and    *)
(* what the recursions of the resizer take for granted: a binary tree on   *)
(* the points pts, whose root is the driver's pin.                         *)
(***************************************************************************)
CONSTANT NoPt \* SteinerTree::null_pt

Children(left, right, p) == {left[p], right[p]} \ {NoPt}

\* The driver has one child, every other pin none, every Steiner point two; every point
\* but the root has exactly one parent; and the root reaches every point.
IsRootedTree(pts, pins, root, left, right) ==
    /\ root \in pins /\ pins \subseteq pts /\ NoPt \notin pts
    /\ left \in [pts -> pts \cup {NoPt}] /\ right \in [pts -> pts \cup {NoPt}]
    /\ left[root] # NoPt /\ right[root] = NoPt
    /\ \A p \in pins \ {root} : left[p] = NoPt /\ right[p] = NoPt
    /\ \A p \in pts \ pins : left[p] # NoPt /\ right[p] # NoPt /\ left[p] # right[p]
    /\ \A p \in pts : root \notin Children(left, right, p)
    /\ \A p \in pts \ {root} : \E q \in pts : p \in Children(left, right, q)
    /\ \A q, r \in pts : q # r => Children(left, right, q) \cap Children(left, right, r) = {}
    /\ \A S \in SUBSET pts :
          root \in S /\ (\A p \in S : Children(left, right, p) \subseteq S) => S = pts

=============================================================================
