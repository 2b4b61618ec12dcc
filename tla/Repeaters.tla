----------------------------- MODULE Repeaters -----------------------------
(***************************************************************************)
(* What repeater insertion promises of one net: a repeater takes over some *)
(* of the terminals that are still on the net, and is driven by the net    *)
(* itself.  Nothing is said of where and why.                              *)
(*                                                                         *)
(* Net 0 is the net that is repaired; net k is the one repeater k drives.  *)
(* A terminal is a load pin, or the input of a repeater, named by its      *)
(* number.                                                                 *)
(***************************************************************************)
EXTENDS Naturals

VARIABLES
    loads, \* the load pins of the net
    n,     \* how many repeaters were made
    on     \* the net of each terminal

rvars == <<loads, n, on>>

RepeatersTypeOK ==
    /\ n \in Nat /\ loads \cap Nat = {}
    /\ on \in [loads \cup 1..n -> 0..n]

RepeatersInit == n = 0 /\ on = [x \in loads |-> 0]

OnNet(k) == {x \in DOMAIN on : on[x] = k}

\* Mutant: the input of the repeater goes to its own net.
TakeOverItself(S) ==
    /\ n' = n + 1
    /\ on' = [x \in DOMAIN on \cup {n + 1} |-> IF x \in S \cup {n + 1} THEN n + 1 ELSE on[x]]

\* The next repeater takes over the terminals S.
TakeOver(S) ==
    /\ n' = n + 1
    /\ on' = [x \in DOMAIN on \cup {n + 1} |->
                 IF x \in S THEN n + 1 ELSE IF x = n + 1 THEN 0 ELSE on[x]]

Insert ==
    /\ \E S \in SUBSET OnNet(0) : S # {} /\ TakeOver(S)
    /\ UNCHANGED loads

RepeatersSpec == RepeatersInit /\ [][Insert]_rvars

-----------------------------------------------------------------------------
\* No repeater drives itself, through whatever others: what drives the input of a
\* repeater is the net that is repaired or a repeater made later.
NoLoop == \A k \in 1..n : on[k] = 0 \/ on[k] > k

\* No repeater is left without a load, whatever is done to its net later.
EveryRepeaterDrives == \A k \in 1..n : OnNet(k) # {}

=============================================================================
