-------------------------- MODULE RepairNet_proofs --------------------------
(***************************************************************************)
(* Proofs about RepairNet, for any set of trees, lengths and limits.       *)
(*                                                                         *)
(* The invariant says where the recursion is: the points that have added   *)
(* up their children are closed downwards, the point of the call on top is *)
(* not among them until it joins, and every branch that waits to be added  *)
(* up has a load.  The wire is counted in units on the ways up from the    *)
(* terminals; that is at the end, with the lemmas about trees it needs.    *)
(***************************************************************************)
EXTENDS RepairNet, Counting_proofs

\* Where the recursion is.
Recursion ==
    /\ \A p \in joined : Below(p) \subseteq joined
    /\ pc # "back" => pt \notin joined \/ pc = "done"
    /\ pc = "back" => pt \in joined \ {tree.root} /\ Parent(pt) \notin joined
    /\ pc \in {"left", "right", "join"} => Below(pt) \subseteq joined
    /\ pc \in {"left", "right"} => /\ repeater_left => tree.left[pt] # NoPt
                                   /\ repeater_right => tree.right[pt] # NoPt
    /\ \A p \in tree.pts \ joined : res[p] = Nothing

\* A branch that waits to be added up has a load.
BranchesLoaded ==
    \A p \in joined \ {tree.root} : Parent(p) \notin joined => res[p].load_pins # {}

RepairInv == TypeOK /\ Recursion /\ BranchesLoaded /\ LoadsWaiting

-----------------------------------------------------------------------------
(***************************************************************************)
(* The tree.                                                               *)
(***************************************************************************)
LEMMA TreeFacts ==
    ASSUME tree \in Trees
    PROVE  /\ tree.root \in tree.pts /\ NoPt \notin tree.pts
           /\ tree.left \in [tree.pts -> tree.pts \cup {NoPt}]
           /\ tree.right \in [tree.pts -> tree.pts \cup {NoPt}]
           /\ tree.left[tree.root] # NoPt /\ tree.right[tree.root] = NoPt
           /\ \A p \in LoadPts(tree) : tree.left[p] = NoPt /\ tree.right[p] = NoPt
           /\ \A p \in tree.pts \ (LoadPts(tree) \cup {tree.root}) :
                 /\ tree.pin[p] = NoPin
                 /\ tree.left[p] # NoPt /\ tree.right[p] # NoPt /\ tree.left[p] # tree.right[p]
           /\ \A p, q \in LoadPts(tree) : tree.pin[p] = tree.pin[q] => p = q
           /\ loads \cap Nat = {}
  BY RepairNetAssumption DEF IsTree, IsRootedTree, LoadPts, LoadPins, loads

LEMMA BelowFacts ==
    ASSUME tree \in Trees
    PROVE  /\ \A q \in tree.pts : Below(q) \subseteq tree.pts \ {tree.root}
           /\ \A q \in tree.pts : \A p \in Below(q) : Parent(p) = q /\ p # q
           /\ \A p \in tree.pts \ {tree.root} : Parent(p) \in tree.pts /\ p \in Below(Parent(p))
  <1> USE DEF Below
  <1>1. /\ \A q \in tree.pts : tree.root \notin Below(q)
        /\ \A p \in tree.pts \ {tree.root} : \E q \in tree.pts : p \in Below(q)
        /\ \A q, r \in tree.pts : q # r => Below(q) \cap Below(r) = {}
        /\ \A S \in SUBSET tree.pts :
              tree.root \in S /\ (\A p \in S : Below(p) \subseteq S) => S = tree.pts
    BY RepairNetAssumption DEF IsTree, IsRootedTree
  <1>2. \A q \in tree.pts : Below(q) \subseteq tree.pts \ {tree.root}
    BY <1>1, TreeFacts DEF Children
  <1>3. \A p \in tree.pts \ {tree.root} : Parent(p) \in tree.pts /\ p \in Below(Parent(p))
    BY <1>1 DEF Parent
  <1>4. ASSUME NEW q \in tree.pts, NEW p \in Below(q)
        PROVE  Parent(p) = q
    BY <1>1, <1>2, <1>3
  <1>5. ASSUME NEW q \in tree.pts
        PROVE  q \notin Below(q)
    <2> SUFFICES ASSUME q \in Below(q) PROVE FALSE
      OBVIOUS
    <2> DEFINE S == tree.pts \ {q}
    <2>1. tree.root \in S
      BY <1>1, TreeFacts
    <2>2. \A p \in S : Below(p) \subseteq S
      BY <1>1, <1>2
    <2>3. S = tree.pts
      BY <1>1, <2>1, <2>2
    <2> QED
      BY <2>3
  <1> QED
    BY <1>2, <1>3, <1>4, <1>5

\* The pins that wait are pins of the net or repeaters.
LEMMA WaitingOnNet ==
    ASSUME TypeOK, LoadsWaiting
    PROVE  /\ \A p \in tree.pts : res[p].load_pins \subseteq Net!OnNet(0)
           /\ Net!OnNet(0) \subseteq DOMAIN on
           /\ DOMAIN on = loads \cup 1..n
           /\ n + 1 \notin DOMAIN on
  <1>1. DOMAIN on = loads \cup 1..n /\ n \in Nat /\ tree \in Trees
    BY DEF TypeOK
  <1>2. n + 1 \notin DOMAIN on
    BY <1>1, TreeFacts
  <1> QED
    BY <1>1, <1>2 DEF LoadsWaiting, Net!OnNet

-----------------------------------------------------------------------------
(***************************************************************************)
(* makeRepeater.                                                           *)
(***************************************************************************)
LEMMA MakeRepeaterKeepsLoads ==
    ASSUME RepairInv, UNCHANGED <<given, joined>>,
           NEW p \in tree.pts, res[p].load_pins # {},
           NEW place \in tree.pts \X Int, NEW within \in Int, NEW outside \in Int,
           MakeRepeater(p, place, within, outside)
    PROVE  /\ n' \in Nat /\ on' \in [loads \cup 1..n' -> 0..n']
           /\ at' \in Seq(tree.pts \X Int) /\ Len(at') = n'
           /\ res' \in [tree.pts -> Result']
           /\ \A q \in tree.pts : q # p => res'[q] = res[q]
           /\ res'[p].load_pins # {}
           /\ LoadsWaiting'
           /\ [Net!Insert]_<<loads, n, on>>
  <1> USE DEF RepairInv
  <1>1. tree \in Trees /\ n \in Nat /\ at \in Seq(tree.pts \X Int) /\ Len(at) = n
        /\ res \in [tree.pts -> Result] /\ on \in [loads \cup 1..n -> 0..n]
    BY DEF TypeOK
  <1>2. tree' = tree /\ joined' = joined /\ loads' = loads /\ LoadPts(tree)' = LoadPts(tree)
    BY DEF given, loads, LoadPins, LoadPts
  <1>3. CASE /\ Net!TakeOver(res[p].load_pins)
             /\ at' = Append(at, place)
             /\ res' = [res EXCEPT ![p] = [wire_length |-> within, pin_cap |-> BufCap,
                                           fanout |-> BufFanout, load_pins |-> {n + 1}]]
    <2> DEFINE S == res[p].load_pins
    <2>1. S \subseteq Net!OnNet(0) /\ n + 1 \notin DOMAIN on /\ DOMAIN on = loads \cup 1..n
      BY WaitingOnNet
    <2>2. n' = n + 1 /\ DOMAIN on' = DOMAIN on \cup {n + 1}
      BY <1>3 DEF Net!TakeOver
    <2>3. on' \in [loads \cup 1..n' -> 0..n']
      <3>1. DOMAIN on \cup {n + 1} = loads \cup 1..n'
        BY <1>1, <2>1, <2>2
      <3>2. \A x \in DOMAIN on \cup {n + 1} :
               (IF x \in S THEN n + 1 ELSE IF x = n + 1 THEN 0 ELSE on[x]) \in 0..n'
        BY <1>1, <2>1, <2>2
      <3> QED
        BY <1>3, <3>1, <3>2 DEF Net!TakeOver
    <2>4. at' \in Seq(tree.pts \X Int) /\ Len(at') = n'
      BY <1>1, <1>3, <2>2
    <2>5. res' \in [tree.pts -> Result']
      <3>1. \A q \in tree.pts : res[q] \in Result'
        BY <1>1, <2>2 DEF Result
      <3>2. [wire_length |-> within, pin_cap |-> BufCap,
             fanout |-> BufFanout, load_pins |-> {n + 1}] \in Result'
        BY <2>2, RepairNetAssumption DEF Result
      <3> QED
        BY <1>1, <1>3, <3>1, <3>2
    <2>6. /\ \A q \in tree.pts : q # p => res'[q] = res[q]
          /\ res'[p].load_pins = {n + 1}
      BY <1>1, <1>3
    <2>7. Net!OnNet(0)' = (Net!OnNet(0) \ S) \cup {n + 1}
      <3>1. \A x \in DOMAIN on' :
               on'[x] = IF x \in S THEN n + 1 ELSE IF x = n + 1 THEN 0 ELSE on[x]
        BY <1>3, <2>2 DEF Net!TakeOver
      <3>2. n + 1 # 0 /\ n + 1 \notin S
        BY <1>1, <2>1 DEF Net!OnNet
      <3> QED
        BY <2>1, <2>2, <3>1, <3>2 DEF Net!OnNet
    <2>8. LoadsWaiting'
      <3>1. \A q \in tree.pts : res[q].load_pins \subseteq DOMAIN on
        BY WaitingOnNet
      <3>2. \A q \in LoadPts(tree) : tree.pin[q] \in loads
        BY DEF loads, LoadPins
      <3>3. \A q, r \in tree.pts : q # r => res'[q].load_pins \cap res'[r].load_pins = {}
        BY <2>1, <2>6, <3>1 DEF LoadsWaiting
      <3>4. (UNION {res'[q].load_pins : q \in tree.pts}) \cup
               {tree.pin[q] : q \in LoadPts(tree) \ joined} = (Net!OnNet(0) \ S) \cup {n + 1}
        <4>1. \A x : x \in (UNION {res'[q].load_pins : q \in tree.pts}) <=>
                     x = n + 1 \/ \E q \in tree.pts \ {p} : x \in res[q].load_pins
          BY <2>6
        <4>2. \A q \in tree.pts \ {p} : res[q].load_pins \cap S = {}
          BY DEF LoadsWaiting
        <4>3. \A q \in LoadPts(tree) \ joined : tree.pin[q] \notin S
          BY DEF LoadsWaiting
        <4>4. \A x : x \in Net!OnNet(0) <=>
                     \/ \E q \in tree.pts : x \in res[q].load_pins
                     \/ \E q \in LoadPts(tree) \ joined : x = tree.pin[q]
          BY DEF LoadsWaiting
        <4> QED
          BY <4>1, <4>2, <4>3, <4>4
      <3>5. \A q \in tree.pts : \A r \in LoadPts(tree) \ joined : tree.pin[r] \notin res'[q].load_pins
        BY <2>1, <2>6, <3>2 DEF LoadsWaiting
      <3> QED
        BY <1>2, <2>7, <3>3, <3>4, <3>5 DEF LoadsWaiting
    <2>9. Net!Insert
      BY <1>2, <1>3, <2>1 DEF Net!Insert
    <2> QED
      BY <1>1, <2>2, <2>3, <2>4, <2>5, <2>6, <2>8, <2>9
  <1>4. CASE /\ ~inCore
             /\ res' = [res EXCEPT ![p].wire_length = outside]
             /\ UNCHANGED repeaters
    <2>1. n' = n /\ on' = on /\ at' = at
      BY <1>4 DEF repeaters
    <2>2. /\ \A q \in tree.pts : q # p => res'[q] = res[q]
          /\ \A q \in tree.pts : res'[q].load_pins = res[q].load_pins
          /\ res' \in [tree.pts -> Result]
      BY <1>1, <1>4 DEF Result
    <2>3. Result' = Result
      BY <2>1 DEF Result
    <2>4. Net!OnNet(0)' = Net!OnNet(0)
      BY <2>1 DEF Net!OnNet
    <2>5. LoadsWaiting'
      BY <1>2, <2>2, <2>4 DEF LoadsWaiting
    <2> QED
      BY <1>1, <1>2, <2>1, <2>2, <2>3, <2>5
  <1> QED
    BY <1>3, <1>4 DEF MakeRepeater

-----------------------------------------------------------------------------
(***************************************************************************)
(* The steps.                                                              *)
(***************************************************************************)
LEMMA InitRepair == Init => RepairInv
  <1> SUFFICES ASSUME Init PROVE RepairInv
    OBVIOUS
  <1> USE DEF Init
  <1>1. \A p \in tree.pts : res[p].load_pins = {}
    BY DEF Nothing
  <1>2. TypeOK
    <2>1. /\ len \in [tree.pts \ {tree.root} -> Nat]
          /\ pinCap \in [loads -> Nat] /\ pinFanout \in [loads -> Nat]
          /\ max_cap \in Nat /\ max_fanout \in Nat /\ max_length \in Nat
      BY RepairNetAssumption
    <2>2. res \in [tree.pts -> Result]
      BY DEF Nothing, Result
    <2>3. on \in [loads \cup 1..n -> 0..n]
      OBVIOUS
    <2>4. at \in Seq(tree.pts \X Int) /\ Len(at) = n
      OBVIOUS
    <2>5. tree \in Trees /\ tree.root \in tree.pts
      BY TreeFacts
    <2>6. /\ pc \in {"check", "call", "left", "right", "join", "back", "done"}
          /\ pt \in tree.pts /\ joined \subseteq tree.pts /\ length \in Int /\ n \in Nat
      BY <2>5
    <2>7. inCore \in BOOLEAN /\ repeater_left \in BOOLEAN /\ repeater_right \in BOOLEAN
      OBVIOUS
    <2> HIDE DEF Init
    <2> QED
      BY <2>1, <2>2, <2>3, <2>4, <2>5, <2>6, <2>7 DEF TypeOK
  <1>3. Recursion
    BY DEF Recursion
  <1>4. BranchesLoaded
    BY DEF BranchesLoaded
  <1>5. LoadsWaiting
    <2>1. Net!OnNet(0) = loads
      BY DEF Net!OnNet
    <2>2. loads = {tree.pin[p] : p \in LoadPts(tree) \ joined}
      BY DEF loads, LoadPins
    <2> QED
      BY <1>1, <2>1, <2>2 DEF LoadsWaiting
  <1> QED
    BY <1>2, <1>3, <1>4, <1>5 DEF RepairInv

\* A step that changes neither the net nor what waits only moves the recursion on.
LEMMA MoveOn ==
    ASSUME RepairInv, UNCHANGED <<given, joined, res, repeaters>>,
           pc' \in {"check", "call", "left", "right", "join", "back", "done"},
           pt' \in tree.pts, length' \in Int,
           repeater_left' \in BOOLEAN, repeater_right' \in BOOLEAN
    PROVE  TypeOK' /\ BranchesLoaded' /\ LoadsWaiting'
  <1> USE DEF RepairInv, given, repeaters
  <1>1. loads' = loads /\ LoadPts(tree)' = LoadPts(tree)
    BY DEF loads, LoadPins, LoadPts
  <1>2. TypeOK'
    BY <1>1 DEF TypeOK, Result
  <1>3. BranchesLoaded'
    BY DEF BranchesLoaded, Parent, Below
  <1>4. LoadsWaiting'
    BY <1>1 DEF LoadsWaiting, Net!OnNet
  <1> QED
    BY <1>2, <1>3, <1>4

LEMMA CheckStep ==
    ASSUME RepairInv, Check PROVE RepairInv'
  <1>1. TypeOK' /\ BranchesLoaded' /\ LoadsWaiting'
    BY MoveOn DEF Check, RepairInv, TypeOK
  <1>2. Recursion'
    BY DEF RepairInv, Check, Recursion, Below, Parent, given
  <1> QED
    BY <1>1, <1>2 DEF RepairInv

LEMMA CallStep ==
    ASSUME RepairInv, NEW p \in tree.pts, Call(p) PROVE RepairInv'
  <1>1. TypeOK' /\ BranchesLoaded' /\ LoadsWaiting'
    BY MoveOn DEF Call, RepairInv, TypeOK
  <1>2. Recursion'
    BY DEF RepairInv, Call, Recursion, Below, Parent, given
  <1> QED
    BY <1>1, <1>2 DEF RepairInv

\* A repeater goes to a branch that is there: two branches of nothing are over no limit.
LEMMA DecideStep ==
    ASSUME RepairInv, Decide PROVE RepairInv'
  <1> DEFINE left == Of(tree.left[pt])
             right == Of(tree.right[pt])
  <1> USE DEF RepairInv
  <1>1. /\ tree \in Trees /\ pt \in tree.pts /\ res \in [tree.pts -> Result]
        /\ max_cap \in Nat /\ max_fanout \in Nat /\ max_length \in Nat
    BY DEF TypeOK
  <1>2. repeater_left' \in BOOLEAN /\ repeater_right' \in BOOLEAN
    BY DEF Decide, LeftFor, RightFor, Over
  <1>3. TypeOK' /\ BranchesLoaded' /\ LoadsWaiting'
    BY <1>2, MoveOn DEF Decide, TypeOK
  <1>4. repeater_left' => tree.left[pt] # NoPt
    <2> SUFFICES ASSUME tree.left[pt] = NoPt PROVE ~repeater_left'
      OBVIOUS
    <2>1. tree.right[pt] = NoPt
      BY <1>1, TreeFacts
    <2>2. left = Nothing /\ right = Nothing
      BY <2>1 DEF Of
    <2>3. \A max \in Nat : ~LeftFor(max, 0, 0)
      BY DEF LeftFor, Over
    <2>4. 0 * WireCap = 0
      BY RepairNetAssumption
    <2> QED
      BY <1>1, <2>2, <2>3, <2>4 DEF Decide, Nothing
  <1>5. repeater_right' => tree.right[pt] # NoPt
    <2> SUFFICES ASSUME tree.right[pt] = NoPt PROVE ~repeater_right'
      OBVIOUS
    <2>1. right = Nothing
      BY DEF Of
    <2>2. \A max \in Nat, x \in Int : ~RightFor(max, x, 0)
      BY DEF RightFor, Over
    <2>3. left.wire_length \in Int /\ left.pin_cap \in Int /\ left.fanout \in Int
      BY <1>1, TreeFacts DEF Of, Nothing, Result
    <2>4. 0 + 0 * WireCap = 0 /\ left.pin_cap + left.wire_length * WireCap \in Int
      BY <2>3, RepairNetAssumption
    <2> QED
      BY <1>1, <2>1, <2>2, <2>3, <2>4 DEF Decide, Nothing
  <1>6. Recursion'
    <2>1. pt' = pt /\ joined' = joined /\ res' = res /\ tree' = tree /\ pc' = "left"
      BY DEF Decide, given
    <2>2. pt \notin joined /\ Below(pt) \subseteq joined
      BY DEF Decide, Recursion
    <2> QED
      BY <1>4, <1>5, <2>1, <2>2 DEF Recursion, Below, Parent
  <1> QED
    BY <1>3, <1>6

\* A repeater on one of the two branches.
LEMMA RepairBranch ==
    ASSUME RepairInv, pc \in {"left", "right"}, pc' \in {"right", "join"},
           NEW p \in Below(pt),
           MakeRepeater(p, <<pt, 0>>, 0, Of(p).wire_length),
           UNCHANGED <<given, pt, joined, repeater_left, repeater_right, length>>
    PROVE  RepairInv' /\ [Net!Insert]_<<loads, n, on>>
  <1> USE DEF RepairInv
  <1>1. /\ tree \in Trees /\ pt \in tree.pts /\ res \in [tree.pts -> Result]
        /\ joined \subseteq tree.pts
    BY DEF TypeOK
  <1>2. p \in tree.pts \ {tree.root} /\ Parent(p) = pt /\ p \in joined /\ pt \notin joined
    BY <1>1, BelowFacts DEF Recursion
  <1>3. res[p].load_pins # {}
    BY <1>2 DEF BranchesLoaded
  <1>4. <<pt, 0>> \in tree.pts \X Int /\ Of(p).wire_length \in Int
    BY <1>1, <1>2, TreeFacts DEF Of, Result
  <1>5. /\ n' \in Nat /\ on' \in [loads \cup 1..n' -> 0..n']
        /\ at' \in Seq(tree.pts \X Int) /\ Len(at') = n'
        /\ res' \in [tree.pts -> Result']
        /\ \A q \in tree.pts : q # p => res'[q] = res[q]
        /\ res'[p].load_pins # {}
        /\ LoadsWaiting'
        /\ [Net!Insert]_<<loads, n, on>>
    BY <1>2, <1>3, <1>4, MakeRepeaterKeepsLoads
  <1>6. TypeOK'
    <2>1. loads' = loads
      BY DEF given, loads, LoadPins, LoadPts
    <2> QED
      BY <1>5, <2>1 DEF TypeOK, given
  <1>7. Recursion'
    BY <1>1, <1>2, <1>5 DEF Recursion, Below, Parent, given
  <1>8. BranchesLoaded'
    <2>1. joined' = joined /\ tree' = tree
      BY DEF given
    <2>2. \A q : Parent(q)' = Parent(q)
      BY <2>1 DEF Parent, Below
    <2>3. \A q \in tree.pts : res[q].load_pins # {} => res'[q].load_pins # {}
      BY <1>5
    <2> QED
      BY <1>1, <2>1, <2>2, <2>3 DEF BranchesLoaded
  <1> QED
    BY <1>5, <1>6, <1>7, <1>8

LEMMA NoRepeaterStep ==
    ASSUME RepairInv, pc \in {"left", "right"}, pc' \in {"right", "join"},
           UNCHANGED <<given, pt, joined, repeater_left, repeater_right, length, res, repeaters>>
    PROVE  RepairInv'
  <1>1. TypeOK' /\ BranchesLoaded' /\ LoadsWaiting'
    BY MoveOn DEF RepairInv, TypeOK
  <1>2. Recursion'
    BY DEF RepairInv, Recursion, Below, Parent, given
  <1> QED
    BY <1>1, <1>2 DEF RepairInv

LEMMA RepairLeftStep ==
    ASSUME RepairInv, RepairLeft PROVE RepairInv' /\ [Net!Insert]_<<loads, n, on>>
  <1>1. CASE repeater_left
    <2>1. tree.left[pt] \in Below(pt)
      BY <1>1 DEF RepairInv, Recursion, RepairLeft, Below, Children
    <2> QED
      BY <1>1, <2>1, RepairBranch DEF RepairLeft
  <1>2. CASE ~repeater_left
    BY <1>2, NoRepeaterStep DEF RepairLeft, given, repeaters, loads, LoadPins, LoadPts
  <1> QED
    BY <1>1, <1>2

LEMMA RepairRightStep ==
    ASSUME RepairInv, RepairRight PROVE RepairInv' /\ [Net!Insert]_<<loads, n, on>>
  <1>1. CASE repeater_right
    <2>1. tree.right[pt] \in Below(pt)
      BY <1>1 DEF RepairInv, Recursion, RepairRight, Below, Children
    <2> QED
      BY <1>1, <2>1, RepairBranch DEF RepairRight
  <1>2. CASE ~repeater_right
    BY <1>2, NoRepeaterStep DEF RepairRight, given, repeaters, loads, LoadPins, LoadPts
  <1> QED
    BY <1>1, <1>2

\* What the call leaves at its point is what its children had and its own pin.
LEMMA JoinStep ==
    ASSUME RepairInv, Join PROVE RepairInv'
  <1> DEFINE left == Of(tree.left[pt])
             right == Of(tree.right[pt])
             edge == IF pt = tree.root \/ max_length = 0 THEN 0 ELSE len[pt]
             sum == [wire_length |-> left.wire_length + right.wire_length + edge,
                     pin_cap |-> left.pin_cap + right.pin_cap + Own.pin_cap,
                     fanout |-> left.fanout + right.fanout + Own.fanout,
                     load_pins |-> left.load_pins \cup right.load_pins \cup Own.load_pins]
  <1> USE DEF RepairInv
  <1>1. /\ tree \in Trees /\ pt \in tree.pts /\ res \in [tree.pts -> Result]
        /\ joined \subseteq tree.pts /\ pt \notin joined /\ Below(pt) \subseteq joined
        /\ max_length \in Nat /\ len \in [tree.pts \ {tree.root} -> Nat]
    BY DEF Join, TypeOK, Recursion
  <1>2. UNCHANGED <<given, repeaters, pt>>
    BY DEF Join
  <1>3. loads' = loads /\ LoadPts(tree)' = LoadPts(tree) /\ Net!OnNet(0)' = Net!OnNet(0)
        /\ Result' = Result
    BY <1>2 DEF given, repeaters, loads, LoadPins, LoadPts, Net!OnNet, Result
  <1>4. /\ \A p : Parent(p)' = Parent(p) /\ Below(p)' = Below(p)
        /\ tree' = tree /\ pt' = pt /\ joined' = joined \cup {pt}
    BY <1>2 DEF given, Parent, Below, Join
  <1>5. /\ left \in Result /\ right \in Result
        /\ left.load_pins = UNION {res[p].load_pins : p \in {tree.left[pt]} \ {NoPt}}
        /\ right.load_pins = UNION {res[p].load_pins : p \in {tree.right[pt]} \ {NoPt}}
    BY <1>1, TreeFacts DEF Of, Nothing, Result
  <1>6. left.load_pins \cup right.load_pins = UNION {res[p].load_pins : p \in Below(pt)}
    BY <1>5 DEF Below, Children
  <1>7. Own \in Result /\ Own.load_pins = {tree.pin[p] : p \in LoadPts(tree) \cap {pt}}
    <2>1. CASE pt \in LoadPts(tree)
      <3>1. tree.pin[pt] \in loads /\ pt # tree.root /\ tree.pin[pt] # NoPin
        BY <2>1 DEF loads, LoadPins, LoadPts
      <3>2. /\ pinCap[tree.pin[pt]] \in Nat /\ pinFanout[tree.pin[pt]] \in Nat
            /\ tree.pin[pt] \in DOMAIN on
        BY <3>1 DEF TypeOK
      <3> QED
        BY <2>1, <3>1, <3>2 DEF Own, Result
    <2>2. CASE pt \notin LoadPts(tree)
      <3>1. pt = tree.root \/ tree.pin[pt] = NoPin
        BY <1>1, <2>2 DEF LoadPts
      <3> QED
        BY <2>2, <3>1 DEF Own, Nothing, Result
    <2> QED
      BY <2>1, <2>2
  <1>8. edge \in Nat
    BY <1>1
  <1>9. sum \in Result
    BY <1>5, <1>7, <1>8 DEF Result
  <1>10. /\ res' \in [tree.pts -> Result]
         /\ res'[pt] = sum
         /\ \A p \in Below(pt) : res'[p] = Nothing
         /\ \A p \in tree.pts \ (Below(pt) \cup {pt}) : res'[p] = res[p]
    <2>1. res' = [p \in tree.pts |->
                     IF p = pt THEN sum ELSE IF p \in Below(pt) THEN Nothing ELSE res[p]]
      BY DEF Join
    <2>2. Nothing \in Result
      BY DEF Nothing, Result
    <2>3. Below(pt) \subseteq tree.pts \ {pt}
      BY <1>1, BelowFacts
    <2> QED
      BY <1>1, <1>9, <2>1, <2>2, <2>3
  <1>11. res'[pt].load_pins = left.load_pins \cup right.load_pins \cup Own.load_pins
    BY <1>10
  <1> HIDE DEF sum, left, right, edge
  <1>12. TypeOK'
    <2>1. length' \in Int /\ pc' \in {"done", "back"}
          /\ repeater_left' = repeater_left /\ repeater_right' = repeater_right
      BY <1>8 DEF Join, edge
    <2> QED
      BY <1>1, <1>2, <1>3, <1>4, <1>10, <2>1 DEF TypeOK, given, repeaters
  <1>13. Recursion'
    <2>1. pc' = IF pt = tree.root THEN "done" ELSE "back"
      BY DEF Join
    <2>2. \A p \in joined' : Below(p) \subseteq joined'
      BY <1>1, <1>4 DEF Recursion
    <2>3. pt # tree.root => Parent(pt) \notin joined'
      BY <1>1, <1>4, BelowFacts DEF Recursion
    <2>4. \A p \in tree.pts \ joined' : res'[p] = Nothing
      BY <1>1, <1>4, <1>10 DEF Recursion
    <2> QED
      BY <1>1, <1>4, <2>1, <2>2, <2>3, <2>4 DEF Recursion
  <1>14. BranchesLoaded'
    <2>1. ASSUME pt # tree.root
          PROVE  res'[pt].load_pins # {}
      <3>1. CASE pt \in LoadPts(tree)
        BY <1>7, <1>11, <3>1
      <3>2. CASE pt \notin LoadPts(tree)
        <4>1. tree.left[pt] \in Below(pt)
          BY <1>1, <2>1, <3>2, TreeFacts DEF Below, Children
        <4>2. res[tree.left[pt]].load_pins # {}
          BY <1>1, <4>1, BelowFacts DEF BranchesLoaded
        <4> QED
          BY <1>6, <1>11, <4>1, <4>2
      <3> QED
        BY <3>1, <3>2
    <2>2. ASSUME NEW p \in joined \ {tree.root}, Parent(p) \notin joined'
          PROVE  res'[p].load_pins # {}
      BY <1>1, <1>4, <1>10, <2>2, BelowFacts DEF BranchesLoaded
    <2> QED
      BY <1>4, <2>1, <2>2 DEF BranchesLoaded
  <1>15. LoadsWaiting'
    <2>1. \A p \in tree.pts : res[p].load_pins \cap Own.load_pins = {}
      BY <1>1, <1>7 DEF LoadsWaiting
    <2>2. \A p \in tree.pts :
             \A x : x \in res'[p].load_pins <=>
                \/ p \notin Below(pt) \cup {pt} /\ x \in res[p].load_pins
                \/ p = pt /\ x \in Own.load_pins
                \/ p = pt /\ \E q \in Below(pt) : x \in res[q].load_pins
      <3>1. pt \notin Below(pt)
        BY <1>1, BelowFacts
      <3>2. Nothing.load_pins = {}
        BY DEF Nothing
      <3> QED
        BY <1>6, <1>10, <1>11, <3>1, <3>2
    <2>3. Below(pt) \subseteq tree.pts /\ res[pt].load_pins = {}
      BY <1>1, BelowFacts DEF Recursion, Nothing
    <2>4. \A p, q \in tree.pts : p # q => res'[p].load_pins \cap res'[q].load_pins = {}
      <3> SUFFICES ASSUME NEW p \in tree.pts, NEW q \in tree.pts, p # q,
                          NEW x \in res'[p].load_pins
                   PROVE  x \notin res'[q].load_pins
        OBVIOUS
      <3>1. \A r, s \in tree.pts : x \in res[r].load_pins /\ x \in res[s].load_pins => r = s
        BY DEF LoadsWaiting
      <3> QED
        BY <1>1, <2>1, <2>2, <2>3, <3>1
    <2>5. ASSUME NEW x
          PROVE  x \in Net!OnNet(0) <=>
                    \/ \E p \in tree.pts : x \in res'[p].load_pins
                    \/ \E p \in LoadPts(tree) \ joined' : x = tree.pin[p]
      <3>1. x \in Net!OnNet(0) <=>
                    \/ \E p \in tree.pts : x \in res[p].load_pins
                    \/ \E p \in LoadPts(tree) \ joined : x = tree.pin[p]
        BY DEF LoadsWaiting
      <3>2. (\E p \in LoadPts(tree) \ joined : x = tree.pin[p]) <=>
               x \in Own.load_pins \/ \E p \in LoadPts(tree) \ joined' : x = tree.pin[p]
        BY <1>1, <1>4, <1>7
      <3>3. (\E p \in tree.pts : x \in res'[p].load_pins) <=>
               x \in Own.load_pins \/ \E p \in tree.pts : x \in res[p].load_pins
        BY <1>1, <2>2, <2>3
      <3> QED
        BY <3>1, <3>2, <3>3
    <2>6. \A p \in tree.pts : \A q \in LoadPts(tree) \ joined' : tree.pin[q] \notin res'[p].load_pins
      <3> SUFFICES ASSUME NEW p \in tree.pts, NEW q \in LoadPts(tree) \ joined'
                   PROVE  tree.pin[q] \notin res'[p].load_pins
        OBVIOUS
      <3>1. \A r \in tree.pts : tree.pin[q] \notin res[r].load_pins
        BY <1>4 DEF LoadsWaiting
      <3>2. tree.pin[q] \notin Own.load_pins
        BY <1>1, <1>4, <1>7, TreeFacts
      <3> QED
        BY <2>2, <2>3, <3>1, <3>2
    <2>7. (UNION {res'[p].load_pins : p \in tree.pts}) \cup
             {tree.pin[p] : p \in LoadPts(tree) \ joined'} = Net!OnNet(0)
      BY <2>5
    <2> QED
      BY <1>3, <1>4, <2>4, <2>6, <2>7 DEF LoadsWaiting
  <1> QED
    BY <1>12, <1>13, <1>14, <1>15

LEMMA BackUpStep ==
    ASSUME RepairInv, BackUp PROVE RepairInv' /\ [Net!Insert]_<<loads, n, on>>
  <1> DEFINE buf_dist == length - (res[pt].wire_length - max_length)
             left == length - buf_dist
  <1> USE DEF RepairInv
  <1>1. /\ tree \in Trees /\ pt \in joined \ {tree.root} /\ Parent(pt) \notin joined
        /\ res \in [tree.pts -> Result] /\ joined \subseteq tree.pts
        /\ length \in Int /\ max_length \in Nat /\ len \in [tree.pts \ {tree.root} -> Nat]
    BY DEF BackUp, TypeOK, Recursion
  <1>2. res[pt].load_pins # {}
    BY <1>1 DEF BranchesLoaded
  <1>3. left \in Int /\ <<pt, len[pt] - left>> \in tree.pts \X Int
    BY <1>1 DEF Result
  <1>4. /\ MakeRepeater(pt, <<pt, len[pt] - left>>, left, left)
        /\ UNCHANGED <<given, pc, pt, joined, repeater_left, repeater_right>> /\ length' = left
    BY DEF BackUp
  <1> HIDE DEF left
  <1>5. /\ n' \in Nat /\ on' \in [loads \cup 1..n' -> 0..n']
        /\ at' \in Seq(tree.pts \X Int) /\ Len(at') = n'
        /\ res' \in [tree.pts -> Result']
        /\ \A q \in tree.pts : q # pt => res'[q] = res[q]
        /\ res'[pt].load_pins # {}
        /\ LoadsWaiting'
        /\ [Net!Insert]_<<loads, n, on>>
    BY <1>1, <1>2, <1>3, <1>4, MakeRepeaterKeepsLoads
  <1>6. TypeOK'
    <2>1. loads' = loads
      BY <1>4 DEF given, loads, LoadPins, LoadPts
    <2> QED
      BY <1>3, <1>4, <1>5, <2>1 DEF TypeOK, given
  <1>7. /\ joined' = joined /\ tree' = tree /\ pt' = pt /\ pc' = pc
        /\ \A q : Parent(q)' = Parent(q) /\ Below(q)' = Below(q)
    BY <1>4 DEF given, Parent, Below
  <1>8. Recursion'
    BY <1>1, <1>5, <1>7 DEF Recursion, BackUp
  <1>9. BranchesLoaded'
    <2>1. \A q \in tree.pts : res[q].load_pins # {} => res'[q].load_pins # {}
      BY <1>5
    <2> QED
      BY <1>1, <1>7, <2>1 DEF BranchesLoaded
  <1> QED
    BY <1>5, <1>6, <1>8, <1>9

LEMMA ReturnStep ==
    ASSUME RepairInv, Return PROVE RepairInv'
  <1>1. /\ pt \in joined \ {tree.root} /\ Parent(pt) \notin joined /\ tree \in Trees
        /\ joined \subseteq tree.pts /\ repeater_left \in BOOLEAN /\ repeater_right \in BOOLEAN
    BY DEF Return, RepairInv, Recursion, TypeOK
  <1>2. Parent(pt) \in tree.pts
    BY <1>1, BelowFacts
  <1>3. TypeOK' /\ BranchesLoaded' /\ LoadsWaiting'
    BY <1>1, <1>2, MoveOn DEF Return
  <1>4. Recursion'
    <2>1. joined' = joined /\ tree' = tree /\ pt' = Parent(pt) /\ pc' = "call" /\ res' = res
      BY DEF Return, given
    <2> QED
      BY <1>1, <2>1 DEF RepairInv, Recursion, Below, Parent
  <1> QED
    BY <1>3, <1>4 DEF RepairInv

-----------------------------------------------------------------------------
LEMMA NextRepair ==
    ASSUME RepairInv, [Next]_vars
    PROVE  RepairInv' /\ [Net!Insert]_<<loads, n, on>>
  <1> USE DEF given, repeaters, loads, LoadPins, LoadPts
  <1>1. CASE Check
    BY <1>1, CheckStep DEF Check
  <1>2. CASE \E p \in tree.pts : Call(p)
    BY <1>2, CallStep DEF Call
  <1>3. CASE Decide
    BY <1>3, DecideStep DEF Decide
  <1>4. CASE RepairLeft
    BY <1>4, RepairLeftStep
  <1>5. CASE RepairRight
    BY <1>5, RepairRightStep
  <1>6. CASE Join
    BY <1>6, JoinStep DEF Join
  <1>7. CASE BackUp
    BY <1>7, BackUpStep
  <1>8. CASE Return
    BY <1>8, ReturnStep DEF Return
  <1>9. CASE UNCHANGED vars
    <2>1. TypeOK' /\ BranchesLoaded' /\ LoadsWaiting'
      BY <1>9, MoveOn DEF vars, RepairInv, TypeOK
    <2>2. Recursion'
      BY <1>9 DEF vars, RepairInv, Recursion, Below, Parent
    <2>3. UNCHANGED <<loads, n, on>>
      BY <1>9 DEF vars
    <2> QED
      BY <2>1, <2>2, <2>3 DEF RepairInv
  <1> QED
    BY <1>1, <1>2, <1>3, <1>4, <1>5, <1>6, <1>7, <1>8, <1>9 DEF Next

LEMMA RepairInvariant == Spec => []RepairInv
  <1>1. RepairInv /\ [Next]_vars => RepairInv'
    BY NextRepair
  <1> QED
    BY <1>1, InitRepair, PTL DEF Spec

\* The recursion's variables keep their types, for any trees, lengths and limits.
THEOREM RepairTypeCorrect == Spec => []TypeOK
  BY RepairInvariant, PTL DEF RepairInv

\* For any tree and limits, every terminal that is still on the net waits in exactly one
\* branch or is yet to be reached, so makeRepeater moves each terminal once per repeater
\* and never one that has left the net.
THEOREM NoLoadIsLost == Spec => []LoadsWaiting
  BY RepairInvariant, PTL DEF RepairInv

\* The recursion of repairNet implements repeater insertion, which is all the other
\* commands know of it: each step is the insertion of one repeater in front of some
\* terminals of the net, or none.
THEOREM ImplementsRepeaters == Spec => InsertsRepeaters
  <1>1. Init => Net!RepeatersInit
    BY DEF Init, Net!RepeatersInit
  <1>2. RepairInv /\ [Next]_vars => [Net!Insert]_(Net!rvars)
    BY NextRepair DEF Net!rvars
  <1> QED
    BY <1>1, <1>2, RepairInvariant, PTL DEF Spec, InsertsRepeaters, Net!RepeatersSpec

-----------------------------------------------------------------------------
(***************************************************************************)
(* What the promise of repeater insertion gives.                           *)
(***************************************************************************)
LEMMA InsertKeepsChains ==
    ASSUME TypeOK, n + 1 \notin DOMAIN on, NoLoop, EveryRepeaterDrives,
           [Net!Insert]_<<loads, n, on>>
    PROVE  NoLoop' /\ EveryRepeaterDrives'
  <1> USE DEF NoLoop, EveryRepeaterDrives, Net!NoLoop, Net!EveryRepeaterDrives
  <1>1. n \in Nat /\ on \in [loads \cup 1..n -> 0..n]
    BY DEF TypeOK
  <1>2. CASE Net!Insert
    <2>1. PICK S \in SUBSET Net!OnNet(0) : S # {} /\ Net!TakeOver(S)
      BY <1>2 DEF Net!Insert
    <2>2. n' = n + 1 /\ DOMAIN on' = DOMAIN on \cup {n + 1}
      BY <2>1 DEF Net!TakeOver
    <2>3. \A x \in DOMAIN on' :
             on'[x] = IF x \in S THEN n + 1 ELSE IF x = n + 1 THEN 0 ELSE on[x]
      BY <2>1, <2>2 DEF Net!TakeOver
    <2>4. S \subseteq DOMAIN on /\ \A x \in S : on[x] = 0
      BY <2>1 DEF Net!OnNet
    <2>5. ASSUME NEW k \in 1..n'
          PROVE  on'[k] = 0 \/ on'[k] > k
      <3>1. CASE k = n + 1
        BY <1>1, <2>2, <2>3, <2>4, <3>1
      <3>2. CASE k \in 1..n
        <4>1. k \in DOMAIN on' /\ k # n + 1
          BY <1>1, <2>2, <3>2
        <4>2. on[k] = 0 \/ on[k] > k
          BY <3>2
        <4> QED
          BY <1>1, <2>3, <3>2, <4>1, <4>2
      <3> QED
        BY <1>1, <2>2, <3>1, <3>2
    <2>6. ASSUME NEW k \in 1..n'
          PROVE  \E x \in DOMAIN on' : on'[x] = k
      <3>1. CASE k = n + 1
        BY <2>1, <2>2, <2>3, <2>4, <3>1
      <3>2. CASE k \in 1..n
        <4>1. PICK x \in DOMAIN on : on[x] = k
          BY <3>2 DEF Net!OnNet
        <4>2. x \notin S /\ x # n + 1
          BY <2>4, <3>2, <4>1
        <4> QED
          BY <2>2, <2>3, <4>1, <4>2
      <3> QED
        BY <1>1, <2>2, <3>1, <3>2
    <2> QED
      BY <2>5, <2>6 DEF Net!OnNet
  <1>3. CASE UNCHANGED <<loads, n, on>>
    BY <1>3 DEF Net!OnNet
  <1> QED
    BY <1>2, <1>3

LEMMA ChainInvariant == Spec => [](NoLoop /\ EveryRepeaterDrives)
  <1>1. Init => NoLoop /\ EveryRepeaterDrives
    BY DEF Init, NoLoop, EveryRepeaterDrives, Net!NoLoop, Net!EveryRepeaterDrives
  <1>2. RepairInv /\ NoLoop /\ EveryRepeaterDrives /\ [Next]_vars
           => (NoLoop /\ EveryRepeaterDrives)'
    BY NextRepair, InsertKeepsChains, WaitingOnNet DEF RepairInv
  <1> QED
    BY <1>1, <1>2, RepairInvariant, PTL DEF Spec

\* Whatever the tree and the limits, no chain of repeaters closes on itself.
THEOREM RepeatersDoNotLoop == Spec => []NoLoop
  BY ChainInvariant, PTL

\* Whatever the tree and the limits, no repeater is without a load, also after later
\* repeaters have taken over its neighbours.
THEOREM RepeatersDrive == Spec => []EveryRepeaterDrives
  BY ChainInvariant, PTL

-----------------------------------------------------------------------------
(***************************************************************************)
(* Where repairNet puts repeaters, and how much wire a branch brings to    *)
(* the point above it, when the net lies in the core and wire length has a *)
(* limit.                                                                  *)
(***************************************************************************)
WireOf(p) == Of(p).wire_length
Branches == WireOf(tree.left[pt]) + WireOf(tree.right[pt])

\* A branch whose call has returned brings no more than max_length, and what two branches
\* bring together is cut down before they are joined.  On the way up an edge, what is left
\* of it and the wire below it are within their bounds.
WireBounds ==
    /\ \A p \in tree.pts : /\ res[p].wire_length >= 0
                           /\ pc # "back" \/ p # pt => res[p].wire_length <= max_length
    /\ pc = "left" /\ Branches > max_length => repeater_left \/ repeater_right
    /\ pc = "right" /\ Branches > max_length => repeater_right
    /\ pc = "join" => Branches <= max_length
    /\ pc = "back" => /\ length \in 0..len[pt]
                      /\ res[pt].wire_length - length \in 0..max_length

WireInv == inCore /\ max_length > 0 => WireBounds

FullInv == RepairInv /\ WireInv /\ RepeatersOnWire

-----------------------------------------------------------------------------
\* What the steps do not change, and the types that lengths need.
LEMMA WireTypes ==
    ASSUME TypeOK
    PROVE  /\ tree \in Trees /\ pt \in tree.pts /\ joined \subseteq tree.pts
           /\ max_length \in Nat /\ length \in Int /\ n \in Nat
           /\ len \in [tree.pts \ {tree.root} -> Nat]
           /\ res \in [tree.pts -> Result]
           /\ \A p \in tree.pts : res[p].wire_length \in Int
           /\ at \in Seq(tree.pts \X Int) /\ Len(at) = n
           /\ WireOf(tree.left[pt]) \in Int /\ WireOf(tree.right[pt]) \in Int
  <1>1. /\ tree \in Trees /\ pt \in tree.pts /\ joined \subseteq tree.pts
        /\ max_length \in Nat /\ length \in Int /\ n \in Nat
        /\ len \in [tree.pts \ {tree.root} -> Nat]
        /\ res \in [tree.pts -> Result]
        /\ at \in Seq(tree.pts \X Int) /\ Len(at) = n
    BY DEF TypeOK
  <1>2. \A p \in tree.pts : res[p].wire_length \in Int
    BY <1>1 DEF Result
  <1>3. tree.left[pt] \in tree.pts \cup {NoPt} /\ tree.right[pt] \in tree.pts \cup {NoPt}
    BY <1>1, TreeFacts
  <1> QED
    BY <1>1, <1>2, <1>3 DEF WireOf, Of, Nothing

\* In the core a repeater resets the wire of its branch and is put where it was asked for.
LEMMA MakeRepeaterInCore ==
    ASSUME TypeOK, inCore, UNCHANGED given, RepeatersOnWire,
           NEW p \in tree.pts, NEW place \in tree.pts \X Int, NEW within, NEW outside,
           MakeRepeater(p, place, within, outside),
           place[1] # tree.root => place[2] \in 0..len[place[1]]
    PROVE  /\ res'[p].wire_length = within
           /\ \A q \in tree.pts : q # p => res'[q] = res[q]
           /\ RepeatersOnWire'
  <1>1. n' = n + 1 /\ at' = Append(at, place)
        /\ res' = [res EXCEPT ![p] = [wire_length |-> within, pin_cap |-> BufCap,
                                      fanout |-> BufFanout, load_pins |-> {n + 1}]]
    BY DEF MakeRepeater, Net!TakeOver
  <1>2. /\ res'[p].wire_length = within
        /\ \A q \in tree.pts : q # p => res'[q] = res[q]
    BY <1>1, WireTypes
  <1>3. ASSUME NEW k \in 1..n', at'[k][1] # tree.root
        PROVE  at'[k][2] \in 0..len[at'[k][1]]
    <2>1. at' \in Seq(tree.pts \X Int) /\ n \in Nat /\ Len(at) = n
      BY <1>1, WireTypes
    <2>2. CASE k = n + 1
      <3>1. at'[k] = place
        BY <1>1, <2>1, <2>2, WireTypes
      <3> QED
        BY <1>3, <3>1
    <2>3. CASE k \in 1..n
      <3>1. at'[k] = at[k]
        BY <1>1, <2>1, <2>3, WireTypes
      <3> QED
        BY <1>3, <2>3, <3>1 DEF RepeatersOnWire
    <2> QED
      BY <1>1, <2>1, <2>2, <2>3
  <1>4. RepeatersOnWire'
    BY <1>3 DEF RepeatersOnWire, given
  <1> QED
    BY <1>2, <1>4

LEMMA InitWire == Init => WireInv /\ RepeatersOnWire
  <1> SUFFICES ASSUME Init PROVE WireInv /\ RepeatersOnWire
    OBVIOUS
  <1>1. \A p \in tree.pts : res[p].wire_length = 0
    BY DEF Init, Nothing
  <1>2. max_length \in Nat /\ pc = "check" /\ n = 0
    BY RepairNetAssumption DEF Init
  <1>3. WireInv
    BY <1>1, <1>2 DEF WireInv, WireBounds
  <1> QED
    BY <1>2, <1>3 DEF RepeatersOnWire

\* A step that makes no repeater leaves the places of the others.
LEMMA SamePlaces ==
    ASSUME RepeatersOnWire, UNCHANGED <<given, repeaters>> PROVE RepeatersOnWire'
  BY DEF RepeatersOnWire, given, repeaters

LEMMA DecideWire ==
    ASSUME FullInv, Decide PROVE WireInv' /\ RepeatersOnWire'
  <1>1. RepeatersOnWire'
    BY SamePlaces DEF FullInv, Decide
  <1>2. UNCHANGED <<tree, res, pt, length, inCore, max_length>> /\ pc = "call" /\ pc' = "left"
    BY DEF Decide, given
  <1>3. ASSUME inCore, max_length > 0
        PROVE  WireBounds'
    <2>1. WireBounds
      BY <1>3 DEF FullInv, WireInv
    <2>2. Branches > max_length => repeater_left' \/ repeater_right'
      <3>1. /\ WireOf(tree.left[pt]) \in Int /\ WireOf(tree.right[pt]) \in Int
            /\ max_length \in Nat
        BY WireTypes DEF FullInv, RepairInv
      <3>2. Branches > max_length =>
               \/ LeftFor(max_length, WireOf(tree.left[pt]), WireOf(tree.right[pt]))
               \/ RightFor(max_length, WireOf(tree.left[pt]), WireOf(tree.right[pt]))
        BY <3>1 DEF Branches, LeftFor, RightFor, Over
      <3> QED
        BY <1>3, <3>2 DEF Decide, WireOf
    <2>3. Branches' = Branches
      BY <1>2 DEF Branches, WireOf, Of
    <2> QED
      BY <1>2, <2>1, <2>2, <2>3 DEF WireBounds
  <1> QED
    BY <1>1, <1>2, <1>3 DEF WireInv

\* A repeater on one branch leaves at most what the other one brings.
LEMMA BranchWire ==
    ASSUME FullInv, inCore, max_length > 0, NEW p \in Below(pt),
           MakeRepeater(p, <<pt, 0>>, 0, Of(p).wire_length), UNCHANGED <<given, pt>>,
           pc \in {"left", "right"}, pc' \in {"right", "join"}
    PROVE  /\ Branches' <= max_length /\ ~(Branches' > max_length)
           /\ \A q \in tree.pts : res'[q].wire_length >= 0 /\ res'[q].wire_length <= max_length
  <1> USE DEF FullInv, RepairInv
  <1>1. /\ tree \in Trees /\ pt \in tree.pts /\ max_length \in Nat
        /\ \A q \in tree.pts : res[q].wire_length \in Int
        /\ len \in [tree.pts \ {tree.root} -> Nat]
    BY WireTypes
  <1>2. p \in tree.pts
    BY <1>1, BelowFacts
  <1>3. \A q \in tree.pts : res[q].wire_length >= 0 /\ res[q].wire_length <= max_length
    BY DEF WireInv, WireBounds
  <1>4. /\ res'[p].wire_length = 0
        /\ \A q \in tree.pts : q # p => res'[q] = res[q]
    BY <1>1, <1>2, MakeRepeaterInCore
  <1>5. \A q \in tree.pts : res'[q].wire_length >= 0 /\ res'[q].wire_length <= max_length
    BY <1>1, <1>3, <1>4
  <1>6. tree' = tree /\ pt' = pt
    BY DEF given
  <1>7. \A q \in tree.pts \cup {NoPt} :
           /\ WireOf(q)' \in Int
           /\ 0 <= WireOf(q)' /\ WireOf(q)' <= max_length
    <2>1. \A q \in tree.pts : res'[q].wire_length \in Int
      BY <1>1, <1>4
    <2> QED
      BY <1>1, <1>5, <2>1, TreeFacts DEF WireOf, Of, Nothing
  <1>8. WireOf(p)' = 0
    BY <1>1, <1>2, <1>4, TreeFacts DEF WireOf, Of
  <1>9. /\ tree.left[pt] \in tree.pts \cup {NoPt} /\ tree.right[pt] \in tree.pts \cup {NoPt}
        /\ p = tree.left[pt] \/ p = tree.right[pt]
    BY <1>1, TreeFacts DEF Below, Children
  <1>10. Branches' = WireOf(tree.left[pt])' + WireOf(tree.right[pt])'
    BY DEF Branches
  <1> QED
    BY <1>1, <1>5, <1>6, <1>7, <1>8, <1>9, <1>10

\* A repeater at the point of the call is on the wire.
LEMMA BranchPlace ==
    ASSUME RepairInv, RepeatersOnWire, NEW p \in Below(pt),
           MakeRepeater(p, <<pt, 0>>, 0, Of(p).wire_length), UNCHANGED given
    PROVE  RepeatersOnWire'
  <1>1. CASE inCore
    <2>1. /\ TypeOK /\ tree \in Trees /\ pt \in tree.pts
          /\ len \in [tree.pts \ {tree.root} -> Nat]
      BY WireTypes DEF RepairInv
    <2>2. p \in tree.pts /\ <<pt, 0>> \in tree.pts \X Int
      BY <2>1, BelowFacts
    <2>3. pt # tree.root => 0 \in 0..len[pt]
      BY <2>1
    <2> QED
      BY <1>1, <2>1, <2>2, <2>3, MakeRepeaterInCore
  <1>2. CASE ~inCore
    BY <1>2 DEF RepeatersOnWire, given
  <1> QED
    BY <1>1, <1>2

LEMMA RepairLeftWire ==
    ASSUME FullInv, RepairLeft PROVE WireInv' /\ RepeatersOnWire'
  <1> USE DEF FullInv
  <1>1. UNCHANGED <<given, tree, pt, length, inCore, max_length, repeater_right>>
        /\ pc = "left" /\ pc' = "right"
    BY DEF RepairLeft, given
  <1>2. CASE repeater_left
    <2>1. tree.left[pt] \in Below(pt)
      BY <1>1, <1>2 DEF RepairInv, Recursion, Below, Children
    <2>2. MakeRepeater(tree.left[pt], <<pt, 0>>, 0, Of(tree.left[pt]).wire_length)
      BY <1>2 DEF RepairLeft
    <2>3. RepeatersOnWire'
      BY <1>1, <2>1, <2>2, BranchPlace
    <2>4. ASSUME inCore, max_length > 0
          PROVE  WireBounds'
      <3>1. /\ Branches' <= max_length /\ ~(Branches' > max_length)
            /\ \A q \in tree.pts : res'[q].wire_length >= 0 /\ res'[q].wire_length <= max_length
        BY <1>1, <2>1, <2>2, <2>4, BranchWire
      <3> QED
        BY <1>1, <3>1 DEF WireBounds
    <2> QED
      BY <1>1, <2>3, <2>4 DEF WireInv
  <1>3. CASE ~repeater_left
    <2>1. UNCHANGED <<res, repeaters>>
      BY <1>3 DEF RepairLeft
    <2>2. RepeatersOnWire'
      BY <1>1, <2>1, SamePlaces
    <2>3. Branches' = Branches
      BY <1>1, <2>1 DEF Branches, WireOf, Of
    <2> QED
      BY <1>1, <1>3, <2>1, <2>2, <2>3 DEF WireInv, WireBounds
  <1> QED
    BY <1>2, <1>3

LEMMA RepairRightWire ==
    ASSUME FullInv, RepairRight PROVE WireInv' /\ RepeatersOnWire'
  <1> USE DEF FullInv
  <1>1. UNCHANGED <<given, tree, pt, length, inCore, max_length>>
        /\ pc = "right" /\ pc' = "join"
    BY DEF RepairRight, given
  <1>2. CASE repeater_right
    <2>1. tree.right[pt] \in Below(pt)
      BY <1>1, <1>2 DEF RepairInv, Recursion, Below, Children
    <2>2. MakeRepeater(tree.right[pt], <<pt, 0>>, 0, Of(tree.right[pt]).wire_length)
      BY <1>2 DEF RepairRight
    <2>3. RepeatersOnWire'
      BY <1>1, <2>1, <2>2, BranchPlace
    <2>4. ASSUME inCore, max_length > 0
          PROVE  WireBounds'
      <3>1. /\ Branches' <= max_length /\ ~(Branches' > max_length)
            /\ \A q \in tree.pts : res'[q].wire_length >= 0 /\ res'[q].wire_length <= max_length
        BY <1>1, <2>1, <2>2, <2>4, BranchWire
      <3> QED
        BY <1>1, <3>1 DEF WireBounds
    <2> QED
      BY <1>1, <2>3, <2>4 DEF WireInv
  <1>3. CASE ~repeater_right
    <2>1. UNCHANGED <<res, repeaters>>
      BY <1>3 DEF RepairRight
    <2>2. RepeatersOnWire'
      BY <1>1, <2>1, SamePlaces
    <2>3. Branches' = Branches
      BY <1>1, <2>1 DEF Branches, WireOf, Of
    <2>4. Branches \in Int /\ max_length \in Nat
      BY WireTypes DEF Branches, RepairInv
    <2> QED
      BY <1>1, <1>3, <2>1, <2>2, <2>3, <2>4 DEF WireInv, WireBounds
  <1> QED
    BY <1>2, <1>3

\* The point takes over what its branches have left; beyond that comes only its own edge.
LEMMA JoinWire ==
    ASSUME FullInv, Join PROVE WireInv' /\ RepeatersOnWire'
  <1> DEFINE edge == IF pt = tree.root \/ max_length = 0 THEN 0 ELSE len[pt]
  <1> USE DEF FullInv
  <1>1. UNCHANGED <<given, repeaters, tree, len, pt, inCore, max_length>> /\ pc = "join"
        /\ pc' = IF pt = tree.root THEN "done" ELSE "back"
    BY DEF Join, given
  <1>2. RepeatersOnWire'
    BY <1>1, SamePlaces
  <1>3. ASSUME inCore, max_length > 0
        PROVE  WireBounds'
    <2>1. /\ tree \in Trees /\ pt \in tree.pts /\ max_length \in Nat
          /\ len \in [tree.pts \ {tree.root} -> Nat]
          /\ WireOf(tree.left[pt]) \in Int /\ WireOf(tree.right[pt]) \in Int
      BY WireTypes DEF RepairInv
    <2>2. /\ \A p \in tree.pts : res[p].wire_length >= 0 /\ res[p].wire_length <= max_length
          /\ Branches <= max_length
      BY <1>1, <1>3 DEF WireInv, WireBounds
    <2>3. Branches \in 0..max_length
      <3>1. tree.left[pt] \in tree.pts \cup {NoPt} /\ tree.right[pt] \in tree.pts \cup {NoPt}
        BY <2>1, TreeFacts
      <3>2. WireOf(tree.left[pt]) >= 0 /\ WireOf(tree.right[pt]) >= 0
        BY <2>2, <3>1 DEF WireOf, Of, Nothing
      <3> QED
        BY <2>1, <2>2, <3>2 DEF Branches
    <2>4. /\ length' = edge
          /\ res'[pt].wire_length = Branches + edge
          /\ \A p \in tree.pts : p # pt => res'[p] = Nothing \/ res'[p] = res[p]
      BY <2>1 DEF Join, Branches, WireOf
    <2>5. \A p \in tree.pts : p # pt => /\ res'[p].wire_length >= 0
                                         /\ res'[p].wire_length <= max_length
      BY <2>1, <2>2, <2>4 DEF Nothing
    <2>6. CASE pt = tree.root
      <3>1. pc' = "done" /\ res'[pt].wire_length = Branches
        BY <1>1, <2>3, <2>4, <2>6
      <3> QED
        BY <1>1, <2>1, <2>3, <2>5, <3>1 DEF WireBounds
    <2>7. CASE pt # tree.root
      <3>1. /\ pc' = "back" /\ length' = len[pt] /\ len[pt] \in Nat
            /\ res'[pt].wire_length = Branches + len[pt]
        BY <1>1, <1>3, <2>1, <2>4, <2>7
      <3> QED
        BY <1>1, <2>1, <2>3, <2>5, <3>1 DEF WireBounds
    <2> QED
      BY <2>6, <2>7
  <1> QED
    BY <1>1, <1>2, <1>3 DEF WireInv

\* As the wire below an edge is no longer than max_length, a repeater that comes
\* max_length above it is on the edge.
LEMMA BackUpWire ==
    ASSUME FullInv, BackUp PROVE WireInv' /\ RepeatersOnWire'
  <1> DEFINE buf_dist == length - (res[pt].wire_length - max_length)
             left == length - buf_dist
  <1> USE DEF FullInv
  <1>1. /\ UNCHANGED <<given, tree, len, pt, pc, inCore, max_length>> /\ pc = "back" /\ TooLong
        /\ length' = left
        /\ MakeRepeater(pt, <<pt, len[pt] - left>>, left, left)
    BY DEF BackUp, given
  <1>2. CASE ~inCore
    BY <1>1, <1>2 DEF WireInv, RepeatersOnWire
  <1>3. CASE inCore
    <2>1. /\ TypeOK /\ tree \in Trees /\ pt \in tree.pts /\ pt # tree.root
          /\ max_length \in Nat /\ length \in Int
          /\ len \in [tree.pts \ {tree.root} -> Nat]
          /\ \A p \in tree.pts : res[p].wire_length \in Int
      BY <1>1, WireTypes DEF RepairInv, Recursion
    <2>2. max_length > 0 /\ res[pt].wire_length > max_length
      BY <1>1 DEF TooLong
    <2>3. WireBounds
      BY <1>3, <2>2 DEF WireInv
    <2>4. /\ left = res[pt].wire_length - max_length
          /\ left \in 0..length /\ left \in 0..len[pt] /\ len[pt] \in Nat
      BY <1>1, <2>1, <2>2, <2>3 DEF WireBounds
    <2>5. /\ len[pt] - left \in 0..len[pt]
          /\ <<pt, len[pt] - left>> \in tree.pts \X Int
      BY <2>1, <2>4
    <2>6. /\ res'[pt].wire_length = left
          /\ \A q \in tree.pts : q # pt => res'[q] = res[q]
          /\ RepeatersOnWire'
      BY <1>1, <1>3, <2>1, <2>5, MakeRepeaterInCore
    <2>7. WireBounds'
      BY <1>1, <2>1, <2>2, <2>3, <2>4, <2>6 DEF WireBounds
    <2> QED
      BY <2>6, <2>7 DEF WireInv
  <1> QED
    BY <1>2, <1>3

LEMMA ReturnWire ==
    ASSUME FullInv, Return PROVE WireInv' /\ RepeatersOnWire'
  <1> USE DEF FullInv
  <1>1. /\ UNCHANGED <<given, repeaters, tree, res, inCore, max_length>>
        /\ pc' = "call" /\ ~TooLong
    BY DEF Return, given
  <1>2. max_length \in Nat /\ pt \in tree.pts /\ \A p \in tree.pts : res[p].wire_length \in Int
    BY WireTypes DEF RepairInv
  <1>3. WireInv'
    BY <1>1, <1>2 DEF WireInv, WireBounds, TooLong
  <1> QED
    BY <1>1, <1>3, SamePlaces

\* The steps that only move on.
LEMMA MoveOnWire ==
    ASSUME FullInv, UNCHANGED <<given, res, repeaters>>,
           pc # "back", pc' \in {"check", "call", "done"}
    PROVE  WireInv' /\ RepeatersOnWire'
  BY SamePlaces DEF FullInv, WireInv, WireBounds, given

LEMMA NextWire ==
    ASSUME FullInv, [Next]_vars PROVE FullInv'
  <1>1. RepairInv'
    BY NextRepair DEF FullInv
  <1> SUFFICES WireInv' /\ RepeatersOnWire'
    BY <1>1 DEF FullInv
  <1>2. CASE Check
    BY <1>2, MoveOnWire DEF Check
  <1>3. CASE \E p \in tree.pts : Call(p)
    BY <1>3, MoveOnWire DEF Call
  <1>4. CASE Decide
    BY <1>4, DecideWire
  <1>5. CASE RepairLeft
    BY <1>5, RepairLeftWire
  <1>6. CASE RepairRight
    BY <1>6, RepairRightWire
  <1>7. CASE Join
    BY <1>7, JoinWire
  <1>8. CASE BackUp
    BY <1>8, BackUpWire
  <1>9. CASE Return
    BY <1>9, ReturnWire
  <1>10. CASE UNCHANGED vars
    <2>1. UNCHANGED <<given, tree, res, pt, pc, length, inCore, max_length, len,
                      repeater_left, repeater_right, repeaters>>
      BY <1>10 DEF vars, given
    <2>2. WireInv'
      BY <2>1 DEF FullInv, WireInv, WireBounds, Branches, WireOf, Of
    <2> QED
      BY <2>1, <2>2, SamePlaces DEF FullInv
  <1> QED
    BY <1>2, <1>3, <1>4, <1>5, <1>6, <1>7, <1>8, <1>9, <1>10 DEF Next

LEMMA WireInvariant == Spec => []FullInv
  <1>1. Init => FullInv
    BY InitRepair, InitWire DEF FullInv
  <1>2. FullInv /\ [Next]_vars => FullInv'
    BY NextWire
  <1> QED
    BY <1>1, <1>2, PTL DEF Spec

\* In the core, for any tree, lengths and limits, every repeater is put on the wire it was
\* made for: backing up never leaves the edge at either end.
THEOREM RepeatersAreOnWire == Spec => []RepeatersOnWire
  BY WireInvariant, PTL DEF FullInv

\* What the property LengthRepaired rests on: in the core, for any tree, lengths and
\* limits, a branch whose call has returned brings no more wire than max_length to the
\* point above it, and neither does the driver's when the recursion is over.
BranchesShort ==
    inCore /\ max_length > 0 /\ pc # "back" =>
       \A p \in tree.pts : res[p].wire_length <= max_length

\* Every branch, whose repeaters may be anywhere below, is within max_length.
THEOREM BranchesAreShort == Spec => []BranchesShort
  <1>1. FullInv => BranchesShort
    BY DEF FullInv, WireInv, WireBounds, BranchesShort
  <1> QED
    BY <1>1, WireInvariant, PTL

-----------------------------------------------------------------------------
(***************************************************************************)
(* The points above a point.  AtOrAbove is a recursive function: that      *)
(* there is one is shown by what is in every set that holds the point and  *)
(* with a point its parent; what it returns, by induction from the root.   *)
(***************************************************************************)
LEMMA FromRoot ==
    ASSUME tree \in Trees, NEW S \in SUBSET tree.pts,
           tree.root \in S, \A p \in S : Below(p) \subseteq S
    PROVE  S = tree.pts
  BY RepairNetAssumption DEF IsTree, IsRootedTree, Below

UpClosed(S) == \A x \in S \ {tree.root} : Parent(x) \in S

LEMMA AboveEquation ==
    ASSUME tree \in Trees
    PROVE  AtOrAbove = [p \in tree.pts |->
                          {p} \cup (IF p = tree.root THEN {} ELSE AtOrAbove[Parent(p)])]
  <1> DEFINE Eq(f) == f = [p \in tree.pts |->
                             {p} \cup (IF p = tree.root THEN {} ELSE f[Parent(p)])]
             Above(p) == {q \in tree.pts : \A S \in SUBSET tree.pts :
                                              p \in S /\ UpClosed(S) => q \in S}
             f == [p \in tree.pts |-> Above(p)]
  <1>1. \A p \in tree.pts \ {tree.root} : Parent(p) \in tree.pts
    BY BelowFacts
  <1>2. ASSUME NEW p \in tree.pts
        PROVE  /\ p \in Above(p)
               /\ p = tree.root => Above(p) = {p}
               /\ p # tree.root => Above(p) = {p} \cup Above(Parent(p))
    <2>1. p \in Above(p)
      OBVIOUS
    <2>2. CASE p = tree.root
      <3>1. UpClosed({p}) /\ {p} \in SUBSET tree.pts
        BY <2>2 DEF UpClosed
      <3>2. \A q \in Above(p) : q \in {p}
        BY <3>1
      <3> QED
        BY <2>1, <2>2, <3>2
    <2>3. CASE p # tree.root
      <3> DEFINE q == Parent(p)
                 T == {p} \cup Above(q)
      <3>1. q \in tree.pts /\ q \in Above(q)
        BY <1>1, <2>3
      <3>2. ASSUME NEW x \in Above(q) \ {tree.root}
            PROVE  Parent(x) \in Above(q)
        BY <1>1 DEF UpClosed
      <3>3. UpClosed(T) /\ T \in SUBSET tree.pts
        BY <3>1, <3>2 DEF UpClosed
      <3>4. Above(p) \subseteq T
        BY <3>3
      <3>5. Above(q) \subseteq Above(p)
        BY <1>1, <2>3 DEF UpClosed
      <3> QED
        BY <2>1, <2>3, <3>4, <3>5
    <2> QED
      BY <2>1, <2>2, <2>3
  <1> HIDE DEF Above
  <1>3. Eq(f)
    <2>1. \A p \in tree.pts :
             f[p] = {p} \cup (IF p = tree.root THEN {} ELSE f[Parent(p)])
      BY <1>1, <1>2
    <2> QED
      BY <2>1
  <1>4. AtOrAbove = CHOOSE g : Eq(g)
    BY DEF AtOrAbove
  <1> HIDE DEF f
  <1>5. Eq(CHOOSE g : Eq(g))
    <2> HIDE DEF Eq
    <2> QED
      BY <1>3
  <1> QED
    BY <1>4, <1>5

LEMMA UpFacts ==
    ASSUME tree \in Trees
    PROVE  /\ AtOrAbove[tree.root] = {tree.root}
           /\ \A p \in tree.pts \ {tree.root} :
                 AtOrAbove[p] = {p} \cup AtOrAbove[Parent(p)] /\ Parent(p) \in tree.pts
           /\ \A p \in tree.pts : \A c \in Below(p) : AtOrAbove[c] = {c} \cup AtOrAbove[p]
           /\ \A p \in tree.pts : /\ p \in AtOrAbove[p] /\ tree.root \in AtOrAbove[p]
                                  /\ AtOrAbove[p] \subseteq tree.pts
  <1>1. \A p \in tree.pts :
           AtOrAbove[p] = {p} \cup (IF p = tree.root THEN {} ELSE AtOrAbove[Parent(p)])
    <2> DEFINE g == AtOrAbove
    <2>1. g = [p \in tree.pts |-> {p} \cup (IF p = tree.root THEN {} ELSE g[Parent(p)])]
      BY AboveEquation
    <2> HIDE DEF g
    <2>2. \A p \in tree.pts : g[p] = {p} \cup (IF p = tree.root THEN {} ELSE g[Parent(p)])
      BY <2>1
    <2> QED
      BY <2>2 DEF g
  <1>2. tree.root \in tree.pts
    BY TreeFacts
  <1>3. AtOrAbove[tree.root] = {tree.root}
    BY <1>1, <1>2
  <1>4. ASSUME NEW p \in tree.pts, NEW c \in Below(p)
        PROVE  AtOrAbove[c] = {c} \cup AtOrAbove[p]
    <2>1. c \in tree.pts \ {tree.root} /\ Parent(c) = p
      BY BelowFacts
    <2> QED
      BY <1>1, <2>1
  <1> DEFINE S == {p \in tree.pts : /\ p \in AtOrAbove[p] /\ tree.root \in AtOrAbove[p]
                                    /\ AtOrAbove[p] \subseteq tree.pts}
  <1>5. \A p \in S : Below(p) \subseteq S
    BY <1>4, BelowFacts
  <1>6. S = tree.pts
    <2>1. tree.root \in S
      BY <1>2, <1>3
    <2> HIDE DEF S
    <2>2. S \in SUBSET tree.pts
      BY DEF S
    <2> QED
      BY <1>5, <2>1, <2>2, FromRoot
  <1>7. \A p \in tree.pts \ {tree.root} :
           AtOrAbove[p] = {p} \cup AtOrAbove[Parent(p)] /\ Parent(p) \in tree.pts
    BY <1>1, BelowFacts
  <1> QED
    BY <1>3, <1>4, <1>6, <1>7

\* What is above a point above is above.
LEMMA UpTransitive ==
    ASSUME tree \in Trees, NEW p \in tree.pts, NEW q \in AtOrAbove[p]
    PROVE  AtOrAbove[q] \subseteq AtOrAbove[p]
  <1> DEFINE S == {r \in tree.pts : \A x \in AtOrAbove[r] : AtOrAbove[x] \subseteq AtOrAbove[r]}
  <1>1. tree.root \in S
    BY UpFacts, TreeFacts
  <1>2. ASSUME NEW r \in S, NEW c \in Below(r) PROVE c \in S
    <2>1. c \in tree.pts /\ AtOrAbove[c] = {c} \cup AtOrAbove[r]
      BY BelowFacts, UpFacts
    <2> QED
      BY <1>2, <2>1
  <1>3. S = tree.pts
    <2>1. S \in SUBSET tree.pts /\ \A r \in S : Below(r) \subseteq S
      BY <1>2
    <2> HIDE DEF S
    <2> QED
      BY <1>1, <2>1, FromRoot
  <1> QED
    BY <1>3

\* No point is above its parent, and of two points only one is above the other.
LEMMA NotAboveParent ==
    ASSUME tree \in Trees, NEW p \in tree.pts, NEW c \in Below(p)
    PROVE  c \notin AtOrAbove[p]
  <1> DEFINE S == {x \in tree.pts : c \notin AtOrAbove[x]}
  <1> SUFFICES ASSUME c \in AtOrAbove[p] PROVE FALSE
    OBVIOUS
  <1>1. c \in tree.pts \ {tree.root} /\ Parent(c) = p /\ c \in AtOrAbove[c]
    BY BelowFacts, UpFacts
  <1>2. tree.root \in S
    BY <1>1, UpFacts, TreeFacts
  <1>3. ASSUME NEW x \in S, NEW y \in Below(x) PROVE y \in S
    <2>1. y \in tree.pts /\ AtOrAbove[y] = {y} \cup AtOrAbove[x] /\ Parent(y) = x
      BY BelowFacts, UpFacts
    <2> QED
      BY <1>1, <1>3, <2>1
  <1>4. S = tree.pts
    <2>1. S \in SUBSET tree.pts /\ \A r \in S : Below(r) \subseteq S
      BY <1>3
    <2> HIDE DEF S
    <2> QED
      BY <1>2, <2>1, FromRoot
  <1> QED
    BY <1>1, <1>4

LEMMA UpOneWay ==
    ASSUME tree \in Trees, NEW a \in tree.pts, NEW b \in tree.pts,
           a \in AtOrAbove[b], b \in AtOrAbove[a]
    PROVE  a = b
  <1> SUFFICES ASSUME a # b PROVE FALSE
    OBVIOUS
  <1>1. b # tree.root
    BY UpFacts
  <1>2. Parent(b) \in tree.pts /\ a \in AtOrAbove[Parent(b)] /\ b \in Below(Parent(b))
    BY <1>1, UpFacts, BelowFacts
  <1>3. b \in AtOrAbove[Parent(b)]
    BY <1>2, UpTransitive
  <1> QED
    BY <1>2, <1>3, NotAboveParent

\* The points above a point are on one way to the root.
LEMMA OneWayUp ==
    ASSUME tree \in Trees, NEW u \in tree.pts, NEW a \in AtOrAbove[u], NEW b \in AtOrAbove[u]
    PROVE  a \in AtOrAbove[b] \/ b \in AtOrAbove[a]
  <1> DEFINE S == {r \in tree.pts : \A x, y \in AtOrAbove[r] :
                                       x \in AtOrAbove[y] \/ y \in AtOrAbove[x]}
  <1>1. tree.root \in S
    BY UpFacts, TreeFacts
  <1>2. ASSUME NEW r \in S, NEW c \in Below(r) PROVE c \in S
    <2>1. c \in tree.pts /\ AtOrAbove[c] = {c} \cup AtOrAbove[r]
      BY BelowFacts, UpFacts
    <2> QED
      BY <1>2, <2>1
  <1>3. S = tree.pts
    <2>1. S \in SUBSET tree.pts /\ \A r \in S : Below(r) \subseteq S
      BY <1>2
    <2> HIDE DEF S
    <2> QED
      BY <1>1, <2>1, FromRoot
  <1> QED
    BY <1>3

\* The ways through two points below one point do not meet.
LEMMA ChildrenApart ==
    ASSUME tree \in Trees, NEW u \in tree.pts, NEW p \in tree.pts,
           NEW c \in Below(p), NEW d \in Below(p), c \in AtOrAbove[u], d \in AtOrAbove[u]
    PROVE  c = d
  <1>1. /\ c \in tree.pts /\ d \in tree.pts
        /\ AtOrAbove[c] = {c} \cup AtOrAbove[p] /\ AtOrAbove[d] = {d} \cup AtOrAbove[p]
        /\ c \notin AtOrAbove[p] /\ d \notin AtOrAbove[p]
    BY BelowFacts, UpFacts, NotAboveParent
  <1>2. c \in AtOrAbove[d] \/ d \in AtOrAbove[c]
    BY OneWayUp
  <1> QED
    BY <1>1, <1>2

-----------------------------------------------------------------------------
(***************************************************************************)
(* The units of the wire.                                                  *)
(***************************************************************************)
Lengthy == tree \in Trees /\ len \in [tree.pts \ {tree.root} -> Nat]

LEMMA UnitFacts ==
    ASSUME Lengthy
    PROVE  /\ \A u \in Units : /\ u[1] \in tree.pts \ {tree.root} /\ u[2] \in 0..len[u[1]] - 1
                               /\ u = <<u[1], u[2]>>
           /\ \A p \in tree.pts \ {tree.root} : \A h \in 0..len[p] - 1 : <<p, h>> \in Units
  BY DEF Units

LEMMA UnitsFinite ==
    ASSUME Lengthy
    PROVE  IsFiniteSet(Units)
  <1> DEFINE P == tree.pts \ {tree.root}
             col == [p \in P |-> Column(p, 0, len[p] - 1)]
             C == {col[p] : p \in P}
  <1>1. IsFiniteSet(tree.pts)
    BY RepairNetAssumption DEF Lengthy, IsTree
  <1>2. IsFiniteSet(P)
    BY <1>1, FS_Subset
  <1>3. \A p \in P : IsFiniteSet(col[p])
    <2> TAKE p \in P
    <2> DEFINE k == len[p]
               b == k - 1
    <2>1. k \in Nat /\ b \in Int /\ 0 \in Int /\ b = 0 + k - 1
      BY DEF Lengthy
    <2> HIDE DEF k, b
    <2>2. IsFiniteSet(Column(p, 0, b))
      BY <2>1, ColumnSize
    <2> QED
      BY <2>2 DEF k, b
  <1>4. Units = UNION C
    <2>1. Units = UNION {Column(p, 0, len[p] - 1) : p \in P}
      BY Zenon DEF Units, Column
    <2>2. {Column(p, 0, len[p] - 1) : p \in P} = C
      OBVIOUS
    <2> QED
      BY <2>1, <2>2, Zenon
  <1> HIDE DEF P, col
  <1>5. IsFiniteSet(C)
    BY <1>2, ImageFinite
  <1>6. IsFiniteSet(UNION C)
    BY <1>3, <1>5, FS_UNION
  <1> QED
    BY <1>4, <1>6

\* The upper part of an edge.
LEMMA EdgePart ==
    ASSUME Lengthy, NEW p \in tree.pts \ {tree.root}, NEW h \in 0..len[p]
    PROVE  /\ IsFiniteSet({u \in Units : u[1] = p /\ h <= u[2]})
           /\ Cardinality({u \in Units : u[1] = p /\ h <= u[2]}) = len[p] - h
  <1> DEFINE k == len[p] - h
             b == len[p] - 1
             U == {u \in Units : u[1] = p /\ h <= u[2]}
  <1>1. len[p] \in Nat
    BY DEF Lengthy
  <1>2. h \in Int /\ b \in Int /\ k \in Nat /\ b = h + k - 1
    BY <1>1
  <1>3. U = Column(p, h, b)
    <2>1. ASSUME NEW u \in U PROVE u \in Column(p, h, b)
      <3>1. u[2] \in 0..len[p] - 1 /\ u = <<p, u[2]>> /\ h <= u[2]
        BY UnitFacts
      <3>2. u[2] \in h..b
        BY <1>1, <3>1
      <3> QED
        BY <3>1, <3>2 DEF Column
    <2>2. ASSUME NEW g \in h..b PROVE <<p, g>> \in U
      <3>1. g \in 0..len[p] - 1 /\ h <= g
        BY <1>1
      <3> QED
        BY <3>1, UnitFacts
    <2> QED
      BY <2>1, <2>2 DEF Column
  <1> HIDE DEF k, b, U
  <1>4. IsFiniteSet(Column(p, h, b)) /\ Cardinality(Column(p, h, b)) = k
    BY <1>2, ColumnSize
  <1>5. IsFiniteSet(U) /\ Cardinality(U) = k
    BY <1>3, <1>4, Zenon
  <1> QED
    BY <1>5 DEF U, k

\* Some of the units.
LEMMA FewerUnits ==
    ASSUME Lengthy, NEW U, NEW V, U \subseteq V, V \subseteq Units
    PROVE  /\ IsFiniteSet(U) /\ IsFiniteSet(V)
           /\ Cardinality(U) \in Nat /\ Cardinality(V) \in Nat
           /\ Cardinality(U) <= Cardinality(V)
  <1>1. IsFiniteSet(V)
    BY UnitsFinite, FS_Subset
  <1>2. IsFiniteSet(U) /\ Cardinality(U) <= Cardinality(V)
    BY <1>1, FS_Subset
  <1> QED
    BY <1>1, <1>2, FS_CardinalityType

-----------------------------------------------------------------------------
(***************************************************************************)
(* Distances from the driver are counts of units.                          *)
(***************************************************************************)
UnitsAbove(p) == {u \in Units : u[1] \in AtOrAbove[p]}

LEMMA UnitsAboveSize ==
    ASSUME Lengthy, NEW p \in tree.pts \ {tree.root}
    PROVE  Cardinality(UnitsAbove(p)) = len[p] + Cardinality(UnitsAbove(Parent(p)))
  <1> DEFINE E == {u \in Units : u[1] = p /\ 0 <= u[2]}
             A == UnitsAbove(Parent(p))
  <1>1. /\ tree \in Trees /\ p \in Below(Parent(p)) /\ Parent(p) \in tree.pts
        /\ len[p] \in Nat /\ 0 \in 0..len[p]
    BY BelowFacts DEF Lengthy
  <1>2. AtOrAbove[p] = {p} \cup AtOrAbove[Parent(p)] /\ p \notin AtOrAbove[Parent(p)]
    BY <1>1, UpFacts, NotAboveParent
  <1>3. UnitsAbove(p) = E \cup A /\ E \cap A = {}
    BY <1>2, UnitFacts DEF UnitsAbove
  <1>4. IsFiniteSet(E) /\ Cardinality(E) = len[p] - 0
    BY <1>1, EdgePart
  <1>5. IsFiniteSet(A)
    BY FewerUnits DEF UnitsAbove
  <1> HIDE DEF E, A
  <1>6. Cardinality(E \cup A) = Cardinality(E) + Cardinality(A)
    BY <1>3, <1>4, <1>5, DisjointSize
  <1>7. len[p] - 0 = len[p]
    BY <1>1
  <1> QED
    BY <1>3, <1>4, <1>6, <1>7, Zenon DEF A

LEMMA DistIsUnits ==
    ASSUME Lengthy
    PROVE  \A p \in tree.pts : DistFromDrvr[p] = Cardinality(UnitsAbove(p))
  <1> DEFINE Eq(f) == f = [p \in tree.pts |->
                             IF p = tree.root THEN 0 ELSE len[p] + f[Parent(p)]]
             f == [p \in tree.pts |-> Cardinality(UnitsAbove(p))]
  <1>0. tree \in Trees
    BY DEF Lengthy
  <1>1. \A p \in tree.pts \ {tree.root} : Parent(p) \in tree.pts
    BY <1>0, BelowFacts
  <1>2. Cardinality(UnitsAbove(tree.root)) = 0
    <2>1. UnitsAbove(tree.root) = {}
      BY <1>0, UpFacts, UnitFacts DEF UnitsAbove
    <2> QED
      BY <2>1, FS_EmptySet
  <1>3. Eq(f)
    <2>1. \A p \in tree.pts : f[p] = IF p = tree.root THEN 0 ELSE len[p] + f[Parent(p)]
      BY <1>1, <1>2, UnitsAboveSize
    <2> QED
      BY <2>1
  <1>4. DistFromDrvr = CHOOSE g : Eq(g)
    BY DEF DistFromDrvr
  <1>5. Eq(DistFromDrvr)
    <2> HIDE DEF f
    <2>1. Eq(CHOOSE g : Eq(g))
      <3> HIDE DEF Eq
      <3> QED
        BY <1>3
    <2> QED
      BY <1>4, <2>1
  <1>6. /\ DistFromDrvr[tree.root] = 0
        /\ \A p \in tree.pts \ {tree.root} : DistFromDrvr[p] = len[p] + DistFromDrvr[Parent(p)]
    <2> DEFINE g == DistFromDrvr
    <2>1. Eq(g) /\ tree.root \in tree.pts
      BY <1>0, <1>5, TreeFacts
    <2> HIDE DEF g
    <2> QED
      BY <2>1 DEF g
  <1> DEFINE S == {p \in tree.pts : DistFromDrvr[p] = Cardinality(UnitsAbove(p))}
  <1>7. tree.root \in S
    BY <1>0, <1>2, <1>6, TreeFacts
  <1>8. ASSUME NEW p \in S, NEW c \in Below(p) PROVE c \in S
    <2>1. c \in tree.pts \ {tree.root} /\ Parent(c) = p
      BY <1>0, BelowFacts
    <2>2. Cardinality(UnitsAbove(c)) = len[c] + Cardinality(UnitsAbove(p))
      BY <2>1, UnitsAboveSize
    <2> QED
      BY <1>6, <1>8, <2>1, <2>2
  <1>9. S = tree.pts
    <2>1. S \in SUBSET tree.pts /\ \A r \in S : Below(r) \subseteq S
      BY <1>8
    <2> HIDE DEF S
    <2> QED
      BY <1>0, <1>7, <2>1, FromRoot
  <1> QED
    BY <1>9

\* The farthest load is as far as any.
LEMMA MaxIsFarthest ==
    ASSUME Lengthy, NEW p \in LoadPts(tree)
    PROVE  /\ Cardinality(UnitsAbove(p)) \in Nat /\ FindMaxSteinerDist \in Int
           /\ Cardinality(UnitsAbove(p)) <= FindMaxSteinerDist
  <1> DEFINE dist == [q \in LoadPts(tree) |-> DistFromDrvr[q]]
             D == {dist[q] : q \in LoadPts(tree)}
  <1>1. \A q \in LoadPts(tree) : q \in tree.pts
    BY DEF LoadPts
  <1>2. \A q \in LoadPts(tree) : dist[q] = Cardinality(UnitsAbove(q)) /\ dist[q] \in Nat
    <2> TAKE q \in LoadPts(tree)
    <2>1. Cardinality(UnitsAbove(q)) \in Nat
      BY FewerUnits DEF UnitsAbove
    <2> QED
      BY <1>1, <2>1, DistIsUnits
  <1>3. IsFiniteSet(LoadPts(tree))
    <2>1. IsFiniteSet(tree.pts)
      BY RepairNetAssumption DEF Lengthy, IsTree
    <2> QED
      BY <1>1, <2>1, FS_Subset
  <1>4. {DistFromDrvr[q] : q \in LoadPts(tree)} = D
    OBVIOUS
  <1>5. FindMaxSteinerDist = Max(D)
    BY <1>4 DEF FindMaxSteinerDist
  <1>6. dist[p] \in D
    OBVIOUS
  <1> HIDE DEF dist
  <1>7. IsFiniteSet(D) /\ D \subseteq Int
    BY <1>2, <1>3, ImageFinite
  <1> HIDE DEF D
  <1>8. \E x \in D : \A y \in D : x >= y
    BY <1>6, <1>7, MaxOfFinite
  <1>9. Max(D) \in D /\ \A y \in D : Max(D) >= y
    BY <1>8 DEF Max
  <1> QED
    BY <1>2, <1>5, <1>6, <1>7, <1>9

-----------------------------------------------------------------------------
(***************************************************************************)
(* Fanout and capacitance of some terminals.                               *)
(***************************************************************************)
Estimate(w, c, S) == SumFunctionOnSet(w, S \cap loads) + Cardinality(S \ loads) * c

LEMMA TerminalsFinite ==
    ASSUME TypeOK
    PROVE  \A S \in SUBSET (DOMAIN on) : IsFiniteSet(S)
  <1>1. IsFiniteSet(tree.pts)
    BY RepairNetAssumption DEF TypeOK, IsTree
  <1>2. LoadPts(tree) \subseteq tree.pts
    BY DEF LoadPts
  <1>3. IsFiniteSet(LoadPts(tree))
    BY <1>1, <1>2, FS_Subset
  <1> DEFINE pin == [p \in LoadPts(tree) |-> tree.pin[p]]
  <1>4. loads = {pin[p] : p \in LoadPts(tree)}
    BY DEF loads, LoadPins
  <1> HIDE DEF pin
  <1>5. IsFiniteSet(loads)
    BY <1>3, <1>4, ImageFinite
  <1>6. IsFiniteSet(1..n)
    <2>1. n \in Int
      BY DEF TypeOK
    <2> QED
      BY <2>1, FS_Interval
  <1>7. IsFiniteSet(loads \cup 1..n) /\ DOMAIN on = loads \cup 1..n
    BY <1>5, <1>6, FS_Union DEF TypeOK
  <1> QED
    BY <1>7, FS_Subset

LEMMA EstimateNone ==
    ASSUME NEW w, NEW c \in Nat
    PROVE  Estimate(w, c, {}) = 0
  <1>1. {} \cap loads = {} /\ {} \ loads = {}
    OBVIOUS
  <1>2. SumFunctionOnSet(w, {}) = 0 /\ Cardinality({}) = 0
    BY SumNone, FS_EmptySet
  <1>3. 0 + 0 * c = 0
    OBVIOUS
  <1> QED
    BY <1>1, <1>2, <1>3, Zenon DEF Estimate

LEMMA EstimateLoad ==
    ASSUME NEW w, NEW c \in Nat, NEW x \in loads, w[x] \in Nat
    PROVE  Estimate(w, c, {x}) = w[x]
  <1>1. {x} \cap loads = {x} /\ {x} \ loads = {}
    OBVIOUS
  <1>2. SumFunctionOnSet(w, {x}) = w[x] /\ Cardinality({}) = 0
    BY SumOne, FS_EmptySet
  <1> DEFINE k == w[x]
  <1>3. k + 0 * c = k
    OBVIOUS
  <1> HIDE DEF k
  <1>4. Estimate(w, c, {x}) = k + 0 * c
    BY <1>1, <1>2, Zenon DEF Estimate, k
  <1> QED
    BY <1>3, <1>4, Zenon DEF k

LEMMA EstimateRepeater ==
    ASSUME NEW w, NEW c \in Nat, NEW x, x \notin loads
    PROVE  Estimate(w, c, {x}) = c
  <1>1. {x} \cap loads = {} /\ {x} \ loads = {x}
    OBVIOUS
  <1>2. SumFunctionOnSet(w, {}) = 0 /\ Cardinality({x}) = 1
    BY SumNone, FS_Singleton
  <1>3. 0 + 1 * c = c
    OBVIOUS
  <1> QED
    BY <1>1, <1>2, <1>3, Zenon DEF Estimate

\* What waits on two branches is estimated one by one.
LEMMA EstimateUnion ==
    ASSUME NEW w \in [loads -> Nat], NEW c \in Nat,
           NEW S, IsFiniteSet(S), NEW T, IsFiniteSet(T), S \cap T = {}
    PROVE  Estimate(w, c, S \cup T) = Estimate(w, c, S) + Estimate(w, c, T)
  <1> DEFINE SL == S \cap loads
             TL == T \cap loads
             SB == S \ loads
             TB == T \ loads
  <1>1. /\ (S \cup T) \cap loads = SL \cup TL /\ SL \cap TL = {}
        /\ (S \cup T) \ loads = SB \cup TB /\ SB \cap TB = {}
        /\ \A i \in SL \cup TL : w[i] \in Nat
    OBVIOUS
  <1>2. IsFiniteSet(SL) /\ IsFiniteSet(TL) /\ IsFiniteSet(SB) /\ IsFiniteSet(TB)
    BY FS_Subset
  <1> HIDE DEF SL, TL, SB, TB
  <1>3. /\ SumFunctionOnSet(w, SL \cup TL) = SumFunctionOnSet(w, SL) + SumFunctionOnSet(w, TL)
        /\ SumFunctionOnSet(w, SL) \in Nat /\ SumFunctionOnSet(w, TL) \in Nat
    BY <1>1, <1>2, SumUnion, SumType
  <1>4. /\ Cardinality(SB \cup TB) = Cardinality(SB) + Cardinality(TB)
        /\ Cardinality(SB) \in Nat /\ Cardinality(TB) \in Nat
    BY <1>1, <1>2, DisjointSize
  <1> DEFINE a == SumFunctionOnSet(w, SL)
             b == SumFunctionOnSet(w, TL)
             i == Cardinality(SB)
             j == Cardinality(TB)
  <1>5. Estimate(w, c, S \cup T) = (a + b) + (i + j) * c
    BY <1>1, <1>3, <1>4, Zenon DEF Estimate
  <1>6. Estimate(w, c, S) = a + i * c /\ Estimate(w, c, T) = b + j * c
    BY DEF Estimate, SL, TL, SB, TB
  <1>7. a \in Nat /\ b \in Nat /\ i \in Nat /\ j \in Nat
    BY <1>3, <1>4
  <1> HIDE DEF a, b, i, j
  <1>8. (a + b) + (i + j) * c = (a + i * c) + (b + j * c)
    BY <1>7
  <1> QED
    BY <1>5, <1>6, <1>8, Zenon

\* Of the sums EstimatesExact is about, those that do not depend on where things are.
SumsExact ==
    \A p \in tree.pts :
       /\ res[p].fanout = Estimate(pinFanout, BufFanout, res[p].load_pins)
       /\ res[p].pin_cap = Estimate(pinCap, BufCap, res[p].load_pins)

LEMMA SameSums ==
    ASSUME SumsExact, UNCHANGED <<given, res>> PROVE SumsExact'
  BY DEF SumsExact, Estimate, given, loads, LoadPins, LoadPts

\* A repeater brings its own input to its branch, whatever it has taken over.
LEMMA RepeaterSums ==
    ASSUME RepairInv, SumsExact, UNCHANGED given,
           NEW p \in tree.pts, NEW place, NEW within, NEW outside,
           MakeRepeater(p, place, within, outside)
    PROVE  SumsExact'
  <1>1. /\ tree \in Trees /\ n \in Nat /\ res \in [tree.pts -> Result]
        /\ n + 1 \notin loads
    <2>1. TypeOK /\ LoadsWaiting
      BY DEF RepairInv
    <2> QED
      BY <2>1, WaitingOnNet DEF TypeOK
  <1>2. tree' = tree /\ pinFanout' = pinFanout /\ pinCap' = pinCap /\ loads' = loads
    BY DEF given, loads, LoadPins, LoadPts
  <1>3. \A w, c, S : Estimate(w, c, S)' = Estimate(w, c, S)
    BY <1>2 DEF Estimate
  <1>4. ASSUME NEW q \in tree.pts,
               res'[q].load_pins = res[q].load_pins,
               res'[q].fanout = res[q].fanout, res'[q].pin_cap = res[q].pin_cap
        PROVE  /\ res'[q].fanout = Estimate(pinFanout, BufFanout, res'[q].load_pins)
               /\ res'[q].pin_cap = Estimate(pinCap, BufCap, res'[q].load_pins)
    BY <1>4 DEF SumsExact
  <1>5. CASE res' = [res EXCEPT ![p] = [wire_length |-> within, pin_cap |-> BufCap,
                                        fanout |-> BufFanout, load_pins |-> {n + 1}]]
    <2>1. /\ Estimate(pinFanout, BufFanout, {n + 1}) = BufFanout
          /\ Estimate(pinCap, BufCap, {n + 1}) = BufCap
      BY <1>1, EstimateRepeater, RepairNetAssumption
    <2>2. /\ res'[p].load_pins = {n + 1}
          /\ res'[p].fanout = BufFanout /\ res'[p].pin_cap = BufCap
          /\ \A q \in tree.pts : q # p => res'[q] = res[q]
      BY <1>1, <1>5
    <2>3. /\ res'[p].fanout = Estimate(pinFanout, BufFanout, res'[p].load_pins)
          /\ res'[p].pin_cap = Estimate(pinCap, BufCap, res'[p].load_pins)
      BY <2>1, <2>2, Zenon
    <2>4. \A q \in tree.pts :
             /\ res'[q].fanout = Estimate(pinFanout, BufFanout, res'[q].load_pins)
             /\ res'[q].pin_cap = Estimate(pinCap, BufCap, res'[q].load_pins)
      BY <1>4, <2>2, <2>3
    <2> QED
      BY <1>2, <1>3, <2>4 DEF SumsExact
  <1>6. CASE res' = [res EXCEPT ![p].wire_length = outside]
    <2>1. \A q \in tree.pts :
             /\ res'[q].load_pins = res[q].load_pins
             /\ res'[q].fanout = res[q].fanout /\ res'[q].pin_cap = res[q].pin_cap
      BY <1>1, <1>6 DEF Result
    <2>2. \A q \in tree.pts :
             /\ res'[q].fanout = Estimate(pinFanout, BufFanout, res'[q].load_pins)
             /\ res'[q].pin_cap = Estimate(pinCap, BufCap, res'[q].load_pins)
      BY <1>4, <2>1
    <2> QED
      BY <1>2, <1>3, <2>2 DEF SumsExact
  <1> QED
    BY <1>5, <1>6 DEF MakeRepeater

\* What two branches and the pin of their point bring.
LEMMA JoinSums ==
    ASSUME RepairInv, SumsExact, Join
    PROVE  SumsExact'
  <1> DEFINE left == Of(tree.left[pt])
             right == Of(tree.right[pt])
  <1> USE DEF RepairInv
  <1>1. /\ TypeOK /\ tree \in Trees /\ pt \in tree.pts /\ res \in [tree.pts -> Result]
        /\ pt \notin joined
        /\ pinCap \in [loads -> Nat] /\ pinFanout \in [loads -> Nat]
        /\ tree.left[pt] \in tree.pts \cup {NoPt} /\ tree.right[pt] \in tree.pts \cup {NoPt}
        /\ NoPt \notin tree.pts
    BY TreeFacts DEF Join, TypeOK, Recursion
  <1>2. tree' = tree /\ pinFanout' = pinFanout /\ pinCap' = pinCap /\ loads' = loads
    BY DEF Join, given, loads, LoadPins, LoadPts
  <1>3. \A w, c, S : Estimate(w, c, S)' = Estimate(w, c, S)
    BY <1>2 DEF Estimate
  <1>4. Estimate(pinFanout, BufFanout, {}) = 0 /\ Estimate(pinCap, BufCap, {}) = 0
    BY EstimateNone, RepairNetAssumption
  <1>5. ASSUME NEW q \in tree.pts \cup {NoPt}
        PROVE  /\ Of(q).fanout = Estimate(pinFanout, BufFanout, Of(q).load_pins)
               /\ Of(q).pin_cap = Estimate(pinCap, BufCap, Of(q).load_pins)
               /\ Of(q).load_pins \subseteq DOMAIN on
    <2>1. CASE q = NoPt
      <3>1. Of(q).fanout = 0 /\ Of(q).pin_cap = 0 /\ Of(q).load_pins = {}
        BY <2>1 DEF Of, Nothing
      <3> QED
        BY <1>4, <3>1, Zenon
    <2>2. CASE q # NoPt
      <3>1. Of(q) = res[q] /\ q \in tree.pts
        BY <2>2 DEF Of
      <3> QED
        BY <1>1, <3>1 DEF SumsExact, Result
    <2> QED
      BY <2>1, <2>2
  <1>6. /\ Own.fanout = Estimate(pinFanout, BufFanout, Own.load_pins)
        /\ Own.pin_cap = Estimate(pinCap, BufCap, Own.load_pins)
        /\ Own.load_pins \subseteq {tree.pin[p] : p \in LoadPts(tree) \cap {pt}}
        /\ Own.load_pins \subseteq DOMAIN on
    <2>1. CASE pt = tree.root \/ tree.pin[pt] = NoPin
      <3>1. Own.fanout = 0 /\ Own.pin_cap = 0 /\ Own.load_pins = {}
        BY <2>1 DEF Own, Nothing
      <3> QED
        BY <1>4, <3>1, Zenon
    <2>2. CASE ~(pt = tree.root \/ tree.pin[pt] = NoPin)
      <3> DEFINE pin == tree.pin[pt]
      <3>1. pt \in LoadPts(tree) /\ pin \in loads
        BY <1>1, <2>2 DEF LoadPts, loads, LoadPins
      <3>2. Own.fanout = pinFanout[pin] /\ Own.pin_cap = pinCap[pin] /\ Own.load_pins = {pin}
        BY <2>2 DEF Own
      <3>3. pinFanout[pin] \in Nat /\ pinCap[pin] \in Nat /\ pin \in DOMAIN on
        BY <1>1, <3>1 DEF TypeOK
      <3> HIDE DEF pin
      <3>4. /\ Estimate(pinFanout, BufFanout, {pin}) = pinFanout[pin]
            /\ Estimate(pinCap, BufCap, {pin}) = pinCap[pin]
        BY <3>1, <3>3, EstimateLoad, RepairNetAssumption
      <3>5. /\ Own.fanout = Estimate(pinFanout, BufFanout, Own.load_pins)
            /\ Own.pin_cap = Estimate(pinCap, BufCap, Own.load_pins)
        BY <3>2, <3>4, Zenon
      <3>6. /\ Own.load_pins \subseteq {tree.pin[p] : p \in LoadPts(tree) \cap {pt}}
            /\ Own.load_pins \subseteq DOMAIN on
        BY <3>1, <3>2, <3>3 DEF pin
      <3> QED
        BY <3>5, <3>6
    <2> QED
      BY <2>1, <2>2
  <1>7. /\ left.load_pins \cap right.load_pins = {}
        /\ (left.load_pins \cup right.load_pins) \cap Own.load_pins = {}
    <2>1. left.load_pins \cap right.load_pins = {}
      <3>1. CASE tree.left[pt] = NoPt \/ tree.right[pt] = NoPt
        BY <3>1 DEF Of, Nothing
      <3>2. CASE ~(tree.left[pt] = NoPt \/ tree.right[pt] = NoPt)
        <4>1. tree.left[pt] # tree.right[pt]
          BY <1>1, <3>2, TreeFacts
        <4> QED
          BY <1>1, <3>2, <4>1 DEF Of, LoadsWaiting
      <3> QED
        BY <3>1, <3>2
    <2>2. \A q \in tree.pts \cup {NoPt} : Of(q).load_pins \cap Own.load_pins = {}
      BY <1>1, <1>6 DEF Of, Nothing, LoadsWaiting
    <2> QED
      BY <1>1, <2>1, <2>2
  <1>8. IsFiniteSet(left.load_pins) /\ IsFiniteSet(right.load_pins)
        /\ IsFiniteSet(Own.load_pins) /\ IsFiniteSet(left.load_pins \cup right.load_pins)
    <2>1. /\ left.load_pins \subseteq DOMAIN on /\ right.load_pins \subseteq DOMAIN on
          /\ Own.load_pins \subseteq DOMAIN on
          /\ left.load_pins \cup right.load_pins \subseteq DOMAIN on
      BY <1>1, <1>5, <1>6
    <2> HIDE DEF left, right
    <2> QED
      BY <1>1, <2>1, TerminalsFinite
  <1> DEFINE L == left.load_pins
             R == right.load_pins
             O == Own.load_pins
             W == L \cup R
  <1>9. /\ res'[pt].load_pins = W \cup O
        /\ res'[pt].fanout = left.fanout + right.fanout + Own.fanout
        /\ res'[pt].pin_cap = left.pin_cap + right.pin_cap + Own.pin_cap
        /\ \A p \in tree.pts : p # pt => res'[p] = Nothing \/ res'[p] = res[p]
    BY <1>1 DEF Join
  <1>10. /\ left.fanout = Estimate(pinFanout, BufFanout, L)
         /\ right.fanout = Estimate(pinFanout, BufFanout, R)
         /\ left.pin_cap = Estimate(pinCap, BufCap, L)
         /\ right.pin_cap = Estimate(pinCap, BufCap, R)
    BY <1>1, <1>5
  <1> HIDE DEF left, right
  <1>11. /\ IsFiniteSet(L) /\ IsFiniteSet(R) /\ IsFiniteSet(O) /\ IsFiniteSet(W)
         /\ L \cap R = {} /\ W \cap O = {} /\ W = L \cup R
    BY <1>7, <1>8
  <1> HIDE DEF L, R, O, W
  <1>12. ASSUME NEW w \in [loads -> Nat], NEW c \in Nat
         PROVE  Estimate(w, c, W \cup O) = Estimate(w, c, L) + Estimate(w, c, R) + Estimate(w, c, O)
    <2>1. Estimate(w, c, W \cup O) = Estimate(w, c, W) + Estimate(w, c, O)
      BY <1>11, EstimateUnion
    <2>2. Estimate(w, c, L \cup R) = Estimate(w, c, L) + Estimate(w, c, R)
      BY <1>11, EstimateUnion
    <2>3. Estimate(w, c, W) = Estimate(w, c, L) + Estimate(w, c, R)
      BY <1>11, <2>2, Zenon
    <2> QED
      BY <2>1, <2>3, Zenon
  <1>13. /\ Estimate(pinFanout, BufFanout, W \cup O)
              = Estimate(pinFanout, BufFanout, L) + Estimate(pinFanout, BufFanout, R)
                  + Estimate(pinFanout, BufFanout, O)
         /\ Estimate(pinCap, BufCap, W \cup O)
              = Estimate(pinCap, BufCap, L) + Estimate(pinCap, BufCap, R)
                  + Estimate(pinCap, BufCap, O)
    BY <1>1, <1>12, RepairNetAssumption
  <1>14. /\ res'[pt].fanout = Estimate(pinFanout, BufFanout, res'[pt].load_pins)
         /\ res'[pt].pin_cap = Estimate(pinCap, BufCap, res'[pt].load_pins)
    <2>1. /\ Own.fanout = Estimate(pinFanout, BufFanout, O)
          /\ Own.pin_cap = Estimate(pinCap, BufCap, O)
      BY <1>6 DEF O
    <2> QED
      BY <1>9, <1>10, <1>13, <2>1, Zenon
  <1>15. ASSUME NEW p \in tree.pts
         PROVE  /\ res'[p].fanout = Estimate(pinFanout, BufFanout, res'[p].load_pins)
                /\ res'[p].pin_cap = Estimate(pinCap, BufCap, res'[p].load_pins)
    <2>1. CASE p = pt
      BY <1>14, <2>1
    <2>2. CASE p # pt /\ res'[p] = res[p]
      BY <2>2 DEF SumsExact
    <2>3. CASE res'[p] = Nothing
      <3>1. res'[p].fanout = 0 /\ res'[p].pin_cap = 0 /\ res'[p].load_pins = {}
        BY <2>3 DEF Nothing
      <3> QED
        BY <1>4, <3>1, Zenon
    <2> QED
      BY <1>9, <2>1, <2>2, <2>3
  <1> QED
    BY <1>2, <1>3, <1>15 DEF SumsExact

LEMMA NextSums ==
    ASSUME RepairInv, SumsExact, [Next]_vars
    PROVE  SumsExact'
  <1>1. /\ pt \in tree.pts /\ tree \in Trees
        /\ tree.left[pt] # NoPt => tree.left[pt] \in tree.pts
        /\ tree.right[pt] # NoPt => tree.right[pt] \in tree.pts
    BY TreeFacts DEF RepairInv, TypeOK
  <1>2. CASE Check \/ (\E p \in tree.pts : Call(p)) \/ Decide \/ Return \/ UNCHANGED vars
    <2>1. UNCHANGED <<given, res>>
      BY <1>2 DEF Check, Call, Decide, Return, vars
    <2> QED
      BY <2>1, SameSums
  <1>3. CASE RepairLeft
    <2>1. CASE repeater_left
      <3>1. tree.left[pt] # NoPt
        BY <1>3, <2>1 DEF RepairLeft, RepairInv, Recursion
      <3> QED
        BY <1>1, <1>3, <2>1, <3>1, RepeaterSums DEF RepairLeft
    <2>2. CASE ~repeater_left
      BY <1>3, <2>2, SameSums DEF RepairLeft
    <2> QED
      BY <2>1, <2>2
  <1>4. CASE RepairRight
    <2>1. CASE repeater_right
      <3>1. tree.right[pt] # NoPt
        BY <1>4, <2>1 DEF RepairRight, RepairInv, Recursion
      <3> QED
        BY <1>1, <1>4, <2>1, <3>1, RepeaterSums DEF RepairRight
    <2>2. CASE ~repeater_right
      BY <1>4, <2>2, SameSums DEF RepairRight
    <2> QED
      BY <2>1, <2>2
  <1>5. CASE Join
    BY <1>5, JoinSums
  <1>6. CASE BackUp
    BY <1>1, <1>6, RepeaterSums DEF BackUp
  <1> QED
    BY <1>2, <1>3, <1>4, <1>5, <1>6 DEF Next

LEMMA SumsInvariant == Spec => []SumsExact
  <1>1. Init => SumsExact
    <2> SUFFICES ASSUME Init PROVE SumsExact
      OBVIOUS
    <2>1. \A p \in tree.pts : res[p].fanout = 0 /\ res[p].pin_cap = 0 /\ res[p].load_pins = {}
      BY DEF Init, Nothing
    <2>2. Estimate(pinFanout, BufFanout, {}) = 0 /\ Estimate(pinCap, BufCap, {}) = 0
      BY EstimateNone, RepairNetAssumption
    <2>3. \A p \in tree.pts :
             /\ res[p].fanout = Estimate(pinFanout, BufFanout, res[p].load_pins)
             /\ res[p].pin_cap = Estimate(pinCap, BufCap, res[p].load_pins)
      BY <2>1, <2>2, Zenon
    <2> QED
      BY <2>3 DEF SumsExact
  <1>2. RepairInv /\ SumsExact /\ [Next]_vars => SumsExact'
    BY NextSums
  <1> QED
    BY <1>1, <1>2, RepairInvariant, PTL DEF Spec

-----------------------------------------------------------------------------
(***************************************************************************)
(* What is given does not change, nor does what is made of it.             *)
(***************************************************************************)
LEMMA GivenSame ==
    ASSUME UNCHANGED given
    PROVE  /\ tree' = tree /\ len' = len /\ max_length' = max_length /\ inCore' = inCore
           /\ loads' = loads /\ LoadPts(tree)' = LoadPts(tree)
           /\ \A p : Below(p)' = Below(p) /\ Parent(p)' = Parent(p)
           /\ AtOrAbove' = AtOrAbove
           /\ Units' = Units
           /\ Repair' = Repair
  <1> USE DEF given
  <1>1. /\ tree' = tree /\ len' = len /\ max_length' = max_length /\ inCore' = inCore
        /\ loads' = loads /\ LoadPts(tree)' = LoadPts(tree)
    BY DEF loads, LoadPins, LoadPts
  <1>2. \A p : Below(p)' = Below(p) /\ Parent(p)' = Parent(p)
    BY DEF Below, Parent
  <1>3. AtOrAbove' = AtOrAbove
    BY DEF AtOrAbove, Parent, Below
  <1>4. Units' = Units
    BY DEF Units
  <1>5. DistFromDrvr' = DistFromDrvr
    BY DEF DistFromDrvr, Parent, Below
  <1>6. FindMaxSteinerDist' = FindMaxSteinerDist
    BY <1>1, <1>5 DEF FindMaxSteinerDist
  <1>7. Repair' = Repair
    BY <1>6 DEF Repair
  <1> QED
    BY <1>1, <1>2, <1>3, <1>4, <1>7

\* How the recursion begins and ends: unless there is nothing to repair it comes back to
\* the driver, and what a call has added up waits at its point alone.
RecursionEnds ==
    /\ pc = "check" => joined = {} /\ n = 0
    /\ pc = "done" => tree.root \in joined \/ (joined = {} /\ n = 0 /\ ~Repair)
    /\ \A p \in joined \ {tree.root} : Parent(p) \in joined => res[p] = Nothing

\* A repeater changes only what waits at a point whose parent has not joined.
LEMMA RepeaterEnds ==
    ASSUME RecursionEnds, UNCHANGED <<given, joined>>, res \in [tree.pts -> Result],
           pc # "done", pc' \notin {"check", "done"}, joined \subseteq tree.pts,
           NEW p \in tree.pts, Parent(p) \notin joined, NEW place, NEW within, NEW outside,
           MakeRepeater(p, place, within, outside)
    PROVE  RecursionEnds'
  <1>1. \A q \in tree.pts : q # p => res'[q] = res[q]
    BY DEF MakeRepeater
  <1> QED
    BY <1>1, GivenSame DEF RecursionEnds

LEMMA NextEnds ==
    ASSUME RepairInv, RecursionEnds, [Next]_vars
    PROVE  RecursionEnds'
  <1> USE DEF RepairInv
  <1>1. /\ tree \in Trees /\ pt \in tree.pts /\ joined \subseteq tree.pts
        /\ res \in [tree.pts -> Result]
    BY DEF TypeOK
  <1>2. CASE Check
    BY <1>2, GivenSame DEF Check, RecursionEnds, repeaters
  <1>3. CASE (\E p \in tree.pts : Call(p)) \/ Decide \/ Return
    BY <1>3, GivenSame DEF Call, Decide, Return, RecursionEnds, repeaters
  <1>4. CASE UNCHANGED vars
    <2>1. UNCHANGED <<given, joined, pc, n, res>>
      BY <1>4 DEF vars, repeaters
    <2> QED
      BY <2>1, GivenSame DEF RecursionEnds
  <1>5. ASSUME UNCHANGED <<given, pt, joined, res, repeaters>>, pc \in {"left", "right"},
               pc' \in {"right", "join"}
        PROVE  RecursionEnds'
    BY <1>5, GivenSame DEF RecursionEnds, repeaters
  <1>6. ASSUME pc \in {"left", "right"}, NEW p \in Below(pt)
        PROVE  p \in tree.pts /\ Parent(p) \notin joined
    BY <1>1, <1>6, BelowFacts DEF Recursion
  <1>7. CASE RepairLeft
    <2>1. CASE repeater_left
      <3>1. tree.left[pt] \in Below(pt)
        BY <1>7, <2>1 DEF RepairLeft, Recursion, Below, Children
      <3> QED
        BY <1>1, <1>6, <1>7, <2>1, <3>1, RepeaterEnds DEF RepairLeft
    <2>2. CASE ~repeater_left
      BY <1>5, <1>7, <2>2 DEF RepairLeft
    <2> QED
      BY <2>1, <2>2
  <1>8. CASE RepairRight
    <2>1. CASE repeater_right
      <3>1. tree.right[pt] \in Below(pt)
        BY <1>8, <2>1 DEF RepairRight, Recursion, Below, Children
      <3> QED
        BY <1>1, <1>6, <1>8, <2>1, <3>1, RepeaterEnds DEF RepairRight
    <2>2. CASE ~repeater_right
      BY <1>5, <1>8, <2>2 DEF RepairRight
    <2> QED
      BY <2>1, <2>2
  <1>9. CASE BackUp
    BY <1>1, <1>9, RepeaterEnds DEF BackUp, Recursion
  <1>10. CASE Join
    <2>1. /\ UNCHANGED given /\ pt \notin joined /\ joined' = joined \cup {pt}
          /\ pc' = IF pt = tree.root THEN "done" ELSE "back"
      BY <1>10 DEF Join, Recursion
    <2>2. \A p \in tree.pts : p # pt =>
             res'[p] = IF p \in Below(pt) THEN Nothing ELSE res[p]
      BY <1>10 DEF Join
    <2>3. pt # tree.root => Parent(pt) \notin joined \cup {pt}
      <3>1. pt # tree.root => Parent(pt) \in tree.pts /\ pt \in Below(Parent(pt))
                              /\ Parent(pt) # pt
        BY <1>1, BelowFacts
      <3> QED
        BY <2>1, <3>1 DEF Recursion
    <2>4. \A p \in tree.pts \ {tree.root} : Parent(p) = pt => p \in Below(pt)
      BY <1>1, BelowFacts
    <2>5. \A p \in (joined \cup {pt}) \ {tree.root} :
             Parent(p) \in joined \cup {pt} => res'[p] = Nothing
      BY <1>1, <2>2, <2>3, <2>4 DEF RecursionEnds
    <2> QED
      BY <2>1, <2>5, GivenSame DEF RecursionEnds
  <1> QED
    BY <1>2, <1>3, <1>4, <1>7, <1>8, <1>9, <1>10 DEF Next

-----------------------------------------------------------------------------
(***************************************************************************)
(* Places of terminals.                                                    *)
(***************************************************************************)
LEMMA PlaceOfLoad ==
    ASSUME tree \in Trees, NEW p \in LoadPts(tree)
    PROVE  PlaceOf(tree.pin[p]) = <<p, 0>>
  <1>1. tree.pin[p] \in loads
    BY DEF loads, LoadPins
  <1>2. (CHOOSE q \in LoadPts(tree) : tree.pin[q] = tree.pin[p]) = p
    BY TreeFacts
  <1> QED
    BY <1>1, <1>2 DEF PlaceOf

LEMMA PlaceType ==
    ASSUME TypeOK, NEW x \in DOMAIN on
    PROVE  PlaceOf(x) \in tree.pts \X Int
  <1>1. tree \in Trees /\ DOMAIN on = loads \cup 1..n /\ n \in Nat
        /\ at \in Seq(tree.pts \X Int) /\ Len(at) = n
    BY DEF TypeOK
  <1>2. CASE x \in loads
    <2>1. PICK p \in LoadPts(tree) : x = tree.pin[p]
      BY <1>2 DEF loads, LoadPins
    <2>2. PlaceOf(x) = <<p, 0>>
      BY <1>1, <2>1, PlaceOfLoad
    <2> QED
      BY <2>2 DEF LoadPts
  <1>3. CASE x \notin loads
    <2>1. PlaceOf(x) = at[x] /\ x \in 1..n
      BY <1>1, <1>3 DEF PlaceOf
    <2> QED
      BY <1>1, <2>1
  <1> QED
    BY <1>2, <1>3

LEMMA UnderFacts ==
    ASSUME Lengthy, NEW place \in tree.pts \X Int, NEW u \in Units
    PROVE  /\ IsUnder(place, u) => u[1] \in AtOrAbove[place[1]]
           /\ u[1] \in AtOrAbove[place[1]] /\ u[1] # place[1] => IsUnder(place, u)
           /\ place[1] = u[1] => (IsUnder(place, u) <=> place[2] <= u[2])
  <1>1. tree \in Trees /\ place[1] \in tree.pts
    BY DEF Lengthy
  <1>2. place[1] \in AtOrAbove[place[1]]
    BY <1>1, UpFacts
  <1> QED
    BY <1>2 DEF IsUnder

\* What repeaters were made before stays where it is.
LEMMA PlacesStay ==
    ASSUME TypeOK, UNCHANGED given, at' = at \/ \E place : at' = Append(at, place)
    PROVE  /\ \A x \in DOMAIN on : PlaceOf(x)' = PlaceOf(x)
           /\ \A k \in 0..n : DriverPlace(k)' = DriverPlace(k)
  <1>1. n \in Nat /\ DOMAIN on = loads \cup 1..n
        /\ at \in Seq(tree.pts \X Int) /\ Len(at) = n
    BY DEF TypeOK
  <1>2. \A k \in 1..n : at'[k] = at[k]
    BY <1>1
  <1>3. tree' = tree /\ loads' = loads /\ LoadPts(tree)' = LoadPts(tree)
    BY GivenSame
  <1>4. ASSUME NEW x \in DOMAIN on
        PROVE  PlaceOf(x)' = PlaceOf(x)
    <2>1. CASE x \in loads
      BY <1>3, <2>1 DEF PlaceOf
    <2>2. CASE x \notin loads
      <3>1. x \in 1..n
        BY <1>1, <2>2
      <3> QED
        BY <1>2, <1>3, <2>2, <3>1 DEF PlaceOf
    <2> QED
      BY <2>1, <2>2
  <1>5. ASSUME NEW k \in 0..n
        PROVE  DriverPlace(k)' = DriverPlace(k)
    <2>1. CASE k = 0
      BY <1>3, <2>1 DEF DriverPlace
    <2>2. CASE k # 0
      <3>1. k \in 1..n
        BY <1>1, <2>2
      <3> QED
        BY <1>2, <2>2, <3>1 DEF DriverPlace
    <2> QED
      BY <2>1, <2>2
  <1> QED
    BY <1>4, <1>5

-----------------------------------------------------------------------------
(***************************************************************************)
(* The invariant: where the terminals are that wait on a branch, and that  *)
(* the wire of a branch and of the nets of the repeaters is counted.       *)
(***************************************************************************)
\* The wire from some terminals up to p, the edge above p included.
WireTo(p, S) ==
    {u \in Units : p \in AtOrAbove[u[1]] /\ \E x \in S : IsUnder(PlaceOf(x), u)}

\* The wire from some terminals up to a place.
Between(S, place) == {u \in Units : (\E x \in S : IsUnder(PlaceOf(x), u)) /\ ~IsUnder(place, u)}

WireOfNet(k) == Between(Net!OnNet(k), DriverPlace(k))

\* What waits at p is at p or below; only a repeater for a branch of pt is at pt itself.
WaitPlaces ==
    \A p \in tree.pts : \A x \in res[p].load_pins :
       \/ p \in AtOrAbove[PlaceOf(x)[1]]
       \/ pc \in {"right", "join"} /\ p \in Below(pt) /\ PlaceOf(x) = <<pt, 0>>

\* On the way up an edge, repeaters are below what is left of it.
BackPlaces ==
    pc = "back" =>
       \A x \in res[pt].load_pins : PlaceOf(x)[1] = pt => PlaceOf(x)[2] <= len[pt] - length

WireExact == \A p \in tree.pts : res[p].wire_length = Cardinality(WireTo(p, res[p].load_pins))

NetsShort == \A k \in 1..n : Cardinality(WireOfNet(k)) <= max_length

Placed == WaitPlaces /\ BackPlaces /\ WireExact /\ NetsShort

LengthInv == inCore /\ max_length > 0 => Placed

LEMMA WireToSame ==
    ASSUME UNCHANGED given, NEW p, NEW S, \A x \in S : PlaceOf(x)' = PlaceOf(x)
    PROVE  WireTo(p, S)' = WireTo(p, S)
  <1>1. /\ Units' = Units /\ AtOrAbove' = AtOrAbove
    BY GivenSame
  <1>2. \A place, u : IsUnder(place, u)' = IsUnder(place, u)
    BY <1>1 DEF IsUnder
  <1>3. \A x \in S : \A u : IsUnder(PlaceOf(x), u)' = IsUnder(PlaceOf(x), u)
    BY <1>1 DEF IsUnder
  <1> QED
    BY <1>1, <1>3 DEF WireTo

LEMMA WireOfNetSame ==
    ASSUME UNCHANGED given, NEW k, Net!OnNet(k)' = Net!OnNet(k),
           \A x \in Net!OnNet(k) : PlaceOf(x)' = PlaceOf(x),
           DriverPlace(k)' = DriverPlace(k)
    PROVE  WireOfNet(k)' = WireOfNet(k)
  <1>1. /\ Units' = Units /\ AtOrAbove' = AtOrAbove
    BY GivenSame
  <1>2. \A x \in Net!OnNet(k) : \A u : IsUnder(PlaceOf(x), u)' = IsUnder(PlaceOf(x), u)
    BY <1>1 DEF IsUnder
  <1>3. \A u : IsUnder(DriverPlace(k), u)' = IsUnder(DriverPlace(k), u)
    BY <1>1 DEF IsUnder
  <1> QED
    BY <1>1, <1>2, <1>3 DEF WireOfNet, Between

\* A step that makes no repeater.
LEMMA SameNets ==
    ASSUME TypeOK, NetsShort, UNCHANGED <<given, repeaters>>
    PROVE  NetsShort'
  <1>1. n' = n /\ on' = on /\ at' = at
    BY DEF repeaters
  <1>2. ASSUME NEW k \in 1..n
        PROVE  WireOfNet(k)' = WireOfNet(k)
    <2>1. Net!OnNet(k)' = Net!OnNet(k) /\ Net!OnNet(k) \subseteq DOMAIN on
      BY <1>1 DEF Net!OnNet
    <2>2. k \in 0..n
      BY DEF TypeOK
    <2> QED
      BY <1>1, <2>1, <2>2, PlacesStay, WireOfNetSame
  <1>3. max_length' = max_length
    BY GivenSame
  <1> QED
    BY <1>1, <1>2, <1>3 DEF NetsShort

\* A step that only moves on.
LEMMA SamePlaced ==
    ASSUME TypeOK, Placed, UNCHANGED <<given, repeaters, res>>,
           \/ /\ pc' # "back"
              /\ pc \in {"right", "join"} => pc' \in {"right", "join"} /\ pt' = pt
           \/ pc' = pc /\ pt' = pt /\ length' = length
    PROVE  Placed'
  <1> USE DEF Placed
  <1>1. NetsShort'
    BY SameNets
  <1>2. \A x \in DOMAIN on : PlaceOf(x)' = PlaceOf(x)
    BY PlacesStay DEF repeaters
  <1>3. /\ tree' = tree /\ len' = len /\ AtOrAbove' = AtOrAbove /\ res' = res
        /\ \A p : Below(p)' = Below(p)
    BY GivenSame
  <1>4. \A p \in tree.pts : res[p].load_pins \subseteq DOMAIN on
    BY DEF TypeOK, Result
  <1>5. WaitPlaces'
    BY <1>2, <1>3, <1>4 DEF WaitPlaces
  <1>6. BackPlaces'
    <2>1. pt \in tree.pts
      BY DEF TypeOK
    <2> QED
      BY <1>2, <1>3, <1>4, <2>1 DEF BackPlaces
  <1>7. WireExact'
    <2>1. ASSUME NEW p \in tree.pts
          PROVE  WireTo(p, res[p].load_pins)' = WireTo(p, res[p].load_pins)
      <3> DEFINE S == res[p].load_pins
      <3>1. \A x \in S : PlaceOf(x)' = PlaceOf(x)
        BY <1>2, <1>4
      <3>2. WireTo(p, S)' = WireTo(p, S)
        BY <1>2, <1>3, <1>4, WireToSame
      <3> QED
        BY <1>3, <3>2
    <2> QED
      BY <1>3, <2>1 DEF WireExact
  <1> QED
    BY <1>1, <1>5, <1>6, <1>7

\* The places and the nets when a repeater has been made.
LEMMA RepeaterMade ==
    ASSUME RepairInv, inCore, UNCHANGED given, NEW m, m = n + 1,
           NEW p \in tree.pts, NEW place \in tree.pts \X Int, NEW within, NEW outside,
           MakeRepeater(p, place, within, outside)
    PROVE  /\ n \in Nat /\ n' = m
           /\ res'[p].load_pins = {m} /\ res'[p].wire_length = within
           /\ \A q \in tree.pts : q # p => res'[q] = res[q]
           /\ \A q \in tree.pts : res[q].load_pins \subseteq DOMAIN on
           /\ \A x \in DOMAIN on : PlaceOf(x)' = PlaceOf(x)
           /\ PlaceOf(m)' = place /\ DriverPlace(m)' = place
           /\ \A k \in 0..n : DriverPlace(k)' = DriverPlace(k)
           /\ \A k \in 1..n : Net!OnNet(k)' = Net!OnNet(k) /\ Net!OnNet(k) \subseteq DOMAIN on
           /\ Net!OnNet(m)' = res[p].load_pins
  <1>1. TypeOK /\ LoadsWaiting
    BY DEF RepairInv
  <1>2. /\ tree \in Trees /\ n \in Nat /\ res \in [tree.pts -> Result]
        /\ on \in [loads \cup 1..n -> 0..n]
        /\ at \in Seq(tree.pts \X Int) /\ Len(at) = n
    BY <1>1 DEF TypeOK
  <1>3. /\ Net!TakeOver(res[p].load_pins)
        /\ at' = Append(at, place)
        /\ res' = [res EXCEPT ![p] = [wire_length |-> within, pin_cap |-> BufCap,
                                      fanout |-> BufFanout, load_pins |-> {m}]]
    BY DEF MakeRepeater
  <1>4. n' = m
    BY <1>3 DEF Net!TakeOver
  <1>5. /\ res'[p].load_pins = {m} /\ res'[p].wire_length = within
        /\ \A q \in tree.pts : q # p => res'[q] = res[q]
    BY <1>2, <1>3
  <1>6. /\ \A q \in tree.pts : res[q].load_pins \subseteq Net!OnNet(0)
        /\ Net!OnNet(0) \subseteq DOMAIN on /\ m \notin DOMAIN on
    BY <1>1, WaitingOnNet
  <1>7. /\ \A x \in DOMAIN on : PlaceOf(x)' = PlaceOf(x)
        /\ \A k \in 0..n : DriverPlace(k)' = DriverPlace(k)
    BY <1>1, <1>3, PlacesStay
  <1>8. PlaceOf(m)' = place /\ DriverPlace(m)' = place
    <2>1. at'[m] = place /\ m # 0
      BY <1>2, <1>3
    <2>2. m \notin loads'
      BY <1>2, <1>6, GivenSame
    <2> QED
      BY <2>1, <2>2 DEF PlaceOf, DriverPlace
  <1> DEFINE S == res[p].load_pins
  <1>9. /\ DOMAIN on' = DOMAIN on \cup {m}
        /\ \A x \in DOMAIN on' : on'[x] = IF x \in S THEN m ELSE IF x = m THEN 0 ELSE on[x]
    BY <1>3 DEF Net!TakeOver
  <1>10. \A x \in S : x \in DOMAIN on /\ on[x] = 0
    BY <1>6 DEF Net!OnNet
  <1>11. ASSUME NEW k \in 1..n
         PROVE  Net!OnNet(k)' = Net!OnNet(k) /\ Net!OnNet(k) \subseteq DOMAIN on
    <2>1. k # 0 /\ k # m
      BY <1>2
    <2>2. \A x \in DOMAIN on' : on'[x] = k <=> x \in DOMAIN on /\ on[x] = k
      BY <1>6, <1>9, <1>10, <2>1
    <2>3. \A x : x \in Net!OnNet(k)' <=> x \in DOMAIN on' /\ on'[x] = k
      BY Zenon DEF Net!OnNet
    <2>4. \A x : x \in Net!OnNet(k) <=> x \in DOMAIN on /\ on[x] = k
      BY Zenon DEF Net!OnNet
    <2>5. DOMAIN on \subseteq DOMAIN on'
      BY <1>9
    <2>6. \A x : x \in Net!OnNet(k)' <=> x \in Net!OnNet(k)
      BY <2>2, <2>3, <2>4, <2>5, Zenon
    <2> QED
      BY <2>4, <2>6
  <1>12. Net!OnNet(m)' = S
    <2>1. \A x \in DOMAIN on : on[x] # m
      BY <1>2
    <2> QED
      BY <1>2, <1>6, <1>9, <1>10, <2>1 DEF Net!OnNet
  <1> QED
    BY <1>2, <1>4, <1>5, <1>6, <1>7, <1>8, <1>11, <1>12

\* The nets when a repeater has been made: that of the repeater is new.
LEMMA RepeaterNets ==
    ASSUME RepairInv, inCore, UNCHANGED given, NetsShort,
           NEW p \in tree.pts, NEW place \in tree.pts \X Int, NEW within, NEW outside,
           MakeRepeater(p, place, within, outside),
           Cardinality(Between(res[p].load_pins, place)) <= max_length
    PROVE  NetsShort'
  <1> DEFINE S == res[p].load_pins
  <1>0. PICK m : m = n + 1
    OBVIOUS
  <1>1. /\ n \in Nat /\ n' = m
        /\ S \subseteq DOMAIN on
        /\ \A x \in DOMAIN on : PlaceOf(x)' = PlaceOf(x)
        /\ DriverPlace(m)' = place
        /\ \A k \in 0..n : DriverPlace(k)' = DriverPlace(k)
        /\ \A k \in 1..n : Net!OnNet(k)' = Net!OnNet(k) /\ Net!OnNet(k) \subseteq DOMAIN on
        /\ Net!OnNet(m)' = S
    BY <1>0, RepeaterMade
  <1>2. ASSUME NEW k \in 1..n
        PROVE  WireOfNet(k)' = WireOfNet(k)
    <2>1. k \in 0..n
      BY <1>1
    <2> QED
      BY <1>1, <2>1, WireOfNetSame
  <1>3. WireOfNet(m)' = Between(S, place)
    <2>1. Units' = Units /\ AtOrAbove' = AtOrAbove
      BY GivenSame
    <2>2. \A x \in S : \A u : IsUnder(PlaceOf(x), u)' = IsUnder(PlaceOf(x), u)
      BY <1>1, <2>1 DEF IsUnder
    <2>3. \A u : IsUnder(DriverPlace(m), u)' = IsUnder(place, u)
      BY <1>1, <2>1 DEF IsUnder
    <2> QED
      BY <1>1, <2>1, <2>2, <2>3 DEF WireOfNet, Between
  <1>4. \A k \in 1..n' : k \in 1..n \/ k = m
    BY <1>0, <1>1
  <1>5. max_length' = max_length
    BY GivenSame
  <1> QED
    BY <1>1, <1>2, <1>3, <1>4, <1>5 DEF NetsShort

\* The wire of the branches when a repeater has been made: that of its branch is new.
LEMMA RepeaterWire ==
    ASSUME RepairInv, inCore, UNCHANGED given, WireExact,
           NEW p \in tree.pts, NEW place \in tree.pts \X Int, NEW within, NEW outside,
           MakeRepeater(p, place, within, outside),
           Cardinality({u \in Units : p \in AtOrAbove[u[1]] /\ IsUnder(place, u)}) = within
    PROVE  WireExact'
  <1>0. PICK m : m = n + 1
    OBVIOUS
  <1>1. /\ res'[p].load_pins = {m} /\ res'[p].wire_length = within
        /\ \A q \in tree.pts : q # p => res'[q] = res[q]
        /\ \A q \in tree.pts : res[q].load_pins \subseteq DOMAIN on
        /\ \A x \in DOMAIN on : PlaceOf(x)' = PlaceOf(x)
        /\ PlaceOf(m)' = place
    BY <1>0, RepeaterMade
  <1>2. tree' = tree /\ Units' = Units /\ AtOrAbove' = AtOrAbove
    BY GivenSame
  <1>3. WireTo(p, res[p].load_pins)' = {u \in Units : p \in AtOrAbove[u[1]] /\ IsUnder(place, u)}
    <2>1. \A u : IsUnder(PlaceOf(m), u)' = IsUnder(place, u)
      BY <1>1, <1>2 DEF IsUnder
    <2>2. WireTo(p, res[p].load_pins)' =
             {u \in Units' : p \in AtOrAbove'[u[1]] /\ \E x \in {m} : IsUnder(PlaceOf(x), u)'}
      BY <1>1 DEF WireTo
    <2> QED
      BY <1>2, <2>1, <2>2
  <1>4. ASSUME NEW q \in tree.pts, q # p
        PROVE  WireTo(q, res[q].load_pins)' = WireTo(q, res[q].load_pins)
    BY <1>1, <1>4, WireToSame
  <1>5. ASSUME NEW q \in tree.pts
        PROVE  res'[q].wire_length = Cardinality(WireTo(q, res[q].load_pins)')
    <2>1. CASE q = p
      BY <1>1, <1>3, <2>1
    <2>2. CASE q # p
      BY <1>1, <1>4, <2>2 DEF WireExact
    <2> QED
      BY <2>1, <2>2
  <1> QED
    BY <1>2, <1>5 DEF WireExact

\* The ways up.
LEMMA WaysUp ==
    ASSUME Lengthy
    PROVE  /\ \A u \in Units : u[1] \in tree.pts
           /\ \A p \in tree.pts : p \in AtOrAbove[p]
           /\ \A q \in tree.pts : \A p \in AtOrAbove[q] : p \in tree.pts
           /\ \A a, b \in tree.pts : a \in AtOrAbove[b] /\ b \in AtOrAbove[a] => a = b
           /\ \A a, b, c \in tree.pts : a \in AtOrAbove[b] /\ b \in AtOrAbove[c] => a \in AtOrAbove[c]
           /\ \A a, b, c \in tree.pts :
                 a \in AtOrAbove[c] /\ b \in AtOrAbove[c] => a \in AtOrAbove[b] \/ b \in AtOrAbove[a]
           /\ \A p \in tree.pts : \A c \in Below(p) :
                 c \in tree.pts /\ AtOrAbove[c] = {c} \cup AtOrAbove[p] /\ c \notin AtOrAbove[p]
           /\ \A p, u \in tree.pts : \A c, d \in Below(p) :
                 c \in AtOrAbove[u] /\ d \in AtOrAbove[u] => c = d
  <1>1. tree \in Trees
    BY DEF Lengthy
  <1>2. \A u \in Units : u[1] \in tree.pts
    BY UnitFacts
  <1>3. /\ \A p \in tree.pts : p \in AtOrAbove[p]
        /\ \A q \in tree.pts : \A p \in AtOrAbove[q] : p \in tree.pts
    BY <1>1, UpFacts
  <1>4. \A a, b \in tree.pts : a \in AtOrAbove[b] /\ b \in AtOrAbove[a] => a = b
    BY <1>1, UpOneWay
  <1>5. \A a, b, c \in tree.pts : a \in AtOrAbove[b] /\ b \in AtOrAbove[c] => a \in AtOrAbove[c]
    BY <1>1, UpTransitive
  <1>6. \A a, b, c \in tree.pts :
           a \in AtOrAbove[c] /\ b \in AtOrAbove[c] => a \in AtOrAbove[b] \/ b \in AtOrAbove[a]
    BY <1>1, OneWayUp
  <1>7. \A p \in tree.pts : \A c \in Below(p) :
           c \in tree.pts /\ AtOrAbove[c] = {c} \cup AtOrAbove[p] /\ c \notin AtOrAbove[p]
    BY <1>1, BelowFacts, UpFacts, NotAboveParent
  <1>8. \A p, u \in tree.pts : \A c, d \in Below(p) :
           c \in AtOrAbove[u] /\ d \in AtOrAbove[u] => c = d
    BY <1>1, ChildrenApart
  <1> QED
    BY <1>2, <1>3, <1>4, <1>5, <1>6, <1>7, <1>8

LEMMA PlacedTypes ==
    ASSUME FullInv
    PROVE  /\ TypeOK /\ Lengthy /\ tree \in Trees /\ pt \in tree.pts /\ joined \subseteq tree.pts
           /\ max_length \in Nat /\ length \in Int /\ n \in Nat
           /\ len \in [tree.pts \ {tree.root} -> Nat]
           /\ \A p \in tree.pts : /\ res[p].wire_length \in Int
                                  /\ res[p].load_pins \subseteq DOMAIN on
                                  /\ \A x \in res[p].load_pins : PlaceOf(x) \in tree.pts \X Int
  <1>1. TypeOK
    BY DEF FullInv, RepairInv
  <1>2. \A p \in tree.pts : res[p].load_pins \subseteq DOMAIN on
    BY <1>1 DEF TypeOK, Result
  <1>3. \A p \in tree.pts : \A x \in res[p].load_pins : PlaceOf(x) \in tree.pts \X Int
    BY <1>1, <1>2, PlaceType
  <1> QED
    BY <1>1, <1>2, <1>3, WireTypes DEF Lengthy

\* A repeater on one of the branches: it is at the point of the call, so it takes over all
\* the wire of its branch, which was within the limit.
LEMMA BranchPlaced ==
    ASSUME FullInv, Placed, inCore, max_length > 0, NEW p \in Below(pt),
           MakeRepeater(p, <<pt, 0>>, 0, Of(p).wire_length), UNCHANGED <<given, pt>>,
           pc \in {"left", "right"}, pc' \in {"right", "join"}
    PROVE  Placed'
  <1> DEFINE S == res[p].load_pins
             place == <<pt, 0>>
  <1> USE DEF Placed
  <1>1. /\ TypeOK /\ Lengthy /\ tree \in Trees /\ pt \in tree.pts /\ p \in tree.pts
        /\ RepairInv /\ place \in tree.pts \X Int
        /\ max_length \in Nat /\ \A x \in S : PlaceOf(x) \in tree.pts \X Int
        /\ \A q \in tree.pts : res[q].load_pins \subseteq DOMAIN on
    BY PlacedTypes, WaysUp DEF FullInv
  <1>2. p \in AtOrAbove[p] /\ AtOrAbove[p] = {p} \cup AtOrAbove[pt] /\ p \notin AtOrAbove[pt]
    BY <1>1, WaysUp
  <1>3. Between(S, place) \subseteq WireTo(p, S)
    <2> SUFFICES ASSUME NEW u \in Units, NEW x \in S, IsUnder(PlaceOf(x), u), ~IsUnder(place, u)
                 PROVE  p \in AtOrAbove[u[1]]
      BY DEF Between, WireTo
    <2> DEFINE a == PlaceOf(x)[1]
    <2>1. a \in tree.pts /\ u[1] \in tree.pts /\ u[1] \in AtOrAbove[a] /\ PlaceOf(x) # place
      BY <1>1, UnderFacts, UnitFacts
    <2>2. p \in AtOrAbove[a]
      BY <1>1, <2>1 DEF WaitPlaces
    <2>3. u[1] \notin AtOrAbove[pt]
      <3>1. u[2] \in Nat
        BY <1>1, UnitFacts
      <3>2. place[1] = pt /\ place[2] = 0
        OBVIOUS
      <3> HIDE DEF place
      <3> QED
        BY <1>1, <3>1, <3>2 DEF IsUnder
    <2>4. p \in AtOrAbove[u[1]] \/ u[1] \in AtOrAbove[p]
      BY <1>1, <2>1, <2>2, WaysUp
    <2> QED
      BY <1>2, <2>3, <2>4
  <1>4. Cardinality(Between(S, place)) <= max_length
    <2>1. /\ Cardinality(Between(S, place)) \in Nat /\ Cardinality(WireTo(p, S)) \in Nat
          /\ Cardinality(Between(S, place)) <= Cardinality(WireTo(p, S))
      <3>1. WireTo(p, S) \subseteq Units
        BY DEF WireTo
      <3> QED
        BY <1>1, <1>3, <3>1, FewerUnits
    <2>2. res[p].wire_length = Cardinality(WireTo(p, S))
      BY <1>1 DEF WireExact
    <2>3. res[p].wire_length <= max_length
      BY <1>1 DEF FullInv, WireInv, WireBounds
    <2> QED
      BY <1>1, <2>1, <2>2, <2>3
  <1>5. NetsShort'
    BY <1>1, <1>4, RepeaterNets
  <1>6. WireExact'
    <2> DEFINE W == {u \in Units : p \in AtOrAbove[u[1]] /\ IsUnder(place, u)}
    <2>1. W = {}
      <3> SUFFICES ASSUME NEW u \in Units, p \in AtOrAbove[u[1]], IsUnder(place, u) PROVE FALSE
        OBVIOUS
      <3>1. u[1] \in AtOrAbove[pt] /\ u[1] \in tree.pts
        BY <1>1, UnderFacts, UnitFacts
      <3> QED
        BY <1>1, <1>2, <3>1, WaysUp
    <2>2. Cardinality(W) = 0
      BY <2>1, FS_EmptySet
    <2> QED
      BY <1>1, <2>2, RepeaterWire
  <1>7. PICK m : m = n + 1
    OBVIOUS
  <1>8. /\ res'[p].load_pins = {m}
        /\ \A q \in tree.pts : q # p => res'[q] = res[q]
        /\ \A x \in DOMAIN on : PlaceOf(x)' = PlaceOf(x)
        /\ PlaceOf(m)' = place
    BY <1>1, <1>7, RepeaterMade
  <1>9. WaitPlaces'
    <2>1. /\ tree' = tree /\ AtOrAbove' = AtOrAbove /\ \A q : Below(q)' = Below(q)
      BY GivenSame
    <2>2. ASSUME NEW q \in tree.pts, NEW x \in res'[q].load_pins
          PROVE  q \in AtOrAbove[PlaceOf(x)'[1]] \/ (q \in Below(pt) /\ PlaceOf(x)' = <<pt, 0>>)
      <3>1. CASE q = p
        BY <1>8, <2>2, <3>1
      <3>2. CASE q # p
        <4>1. x \in res[q].load_pins /\ PlaceOf(x)' = PlaceOf(x)
          BY <1>1, <1>8, <2>2, <3>2
        <4> QED
          BY <4>1 DEF WaitPlaces
      <3> QED
        BY <3>1, <3>2
    <2> QED
      BY <2>1, <2>2 DEF WaitPlaces
  <1>10. BackPlaces'
    BY DEF BackPlaces
  <1> QED
    BY <1>5, <1>6, <1>9, <1>10

\* Up an edge: the repeater is max_length of wire above the terminals it takes over.
LEMMA BackUpPlaced ==
    ASSUME FullInv, Placed, inCore, max_length > 0, BackUp
    PROVE  Placed'
  <1> DEFINE buf_dist == length - (res[pt].wire_length - max_length)
             left == length - buf_dist
             h == len[pt] - left
             place == <<pt, h>>
             S == res[pt].load_pins
             E == {u \in Units : u[1] = pt /\ h <= u[2]}
  <1> USE DEF Placed
  <1>1. /\ TypeOK /\ Lengthy /\ tree \in Trees /\ RepairInv
        /\ pt \in tree.pts \ {tree.root} /\ pc = "back" /\ TooLong
        /\ UNCHANGED <<given, pc, pt>> /\ length' = left
        /\ MakeRepeater(pt, place, left, left)
    BY PlacedTypes DEF BackUp, FullInv, RepairInv, Recursion
  <1>2. /\ max_length \in Nat /\ length \in Int /\ n \in Nat /\ len[pt] \in Nat
        /\ res[pt].wire_length \in Int
        /\ \A x \in S : PlaceOf(x) \in tree.pts \X Int
        /\ S \subseteq DOMAIN on
    BY <1>1, PlacedTypes
  <1>3. S # {}
    BY <1>1 DEF RepairInv, BranchesLoaded, Recursion
  <1>4. /\ left \in 0..length /\ h \in 0..len[pt] /\ left \in Nat
        /\ left = res[pt].wire_length - max_length
        /\ len[pt] - h = left /\ len[pt] - length <= h
    <2>1. /\ length \in 0..len[pt] /\ res[pt].wire_length - length \in 0..max_length
          /\ res[pt].wire_length > max_length
      BY <1>1 DEF FullInv, WireInv, WireBounds, TooLong
    <2> QED
      BY <1>2, <2>1
  <1>5. place \in tree.pts \X Int /\ place[1] = pt /\ place[2] = h
    BY <1>1, <1>2, <1>4
  <1> HIDE DEF left, h, place
  <1>6. /\ \A u \in Units : u[1] \in tree.pts /\ u[2] \in Nat
        /\ \A u \in Units : IsUnder(place, u) => u[1] \in AtOrAbove[pt]
        /\ \A u \in Units : u[1] \in AtOrAbove[pt] /\ u[1] # pt => IsUnder(place, u)
        /\ \A u \in Units : u[1] = pt => (IsUnder(place, u) <=> h <= u[2])
    BY <1>1, <1>5, UnderFacts, UnitFacts
  <1>7. {u \in Units : pt \in AtOrAbove[u[1]] /\ IsUnder(place, u)} = E
    <2>1. ASSUME NEW u \in Units, pt \in AtOrAbove[u[1]], IsUnder(place, u)
          PROVE  u[1] = pt
      BY <1>1, <1>6, <2>1, WaysUp
    <2>2. pt \in AtOrAbove[pt]
      BY <1>1, WaysUp
    <2> QED
      BY <1>6, <2>1, <2>2
  <1>8. IsFiniteSet(E) /\ Cardinality(E) = left
    BY <1>1, <1>4, EdgePart
  <1>9. E \subseteq WireTo(pt, S)
    <2> SUFFICES ASSUME NEW u \in Units, u[1] = pt, h <= u[2]
                 PROVE  \E x \in S : IsUnder(PlaceOf(x), u)
      BY <1>1, WaysUp DEF WireTo
    <2>1. PICK x \in S : TRUE
      BY <1>3
    <2> DEFINE a == PlaceOf(x)[1]
               g == PlaceOf(x)[2]
    <2>2. a \in tree.pts /\ g \in Int /\ pt \in AtOrAbove[a]
      BY <1>1, <1>2 DEF WaitPlaces
    <2>3. a = pt => g <= len[pt] - length
      BY <1>1 DEF BackPlaces
    <2>4. a = pt => g <= u[2]
      <3>1. u[2] \in Nat /\ h \in Int
        BY <1>4, <1>6
      <3> HIDE DEF a, g
      <3> QED
        BY <1>2, <1>4, <2>2, <2>3, <3>1
    <2> QED
      BY <1>2, <2>2, <2>4 DEF IsUnder
  <1>10. Between(S, place) \subseteq WireTo(pt, S) \ E
    <2> SUFFICES ASSUME NEW u \in Units, NEW x \in S, IsUnder(PlaceOf(x), u), ~IsUnder(place, u)
                 PROVE  pt \in AtOrAbove[u[1]] /\ u \notin E
      BY DEF Between, WireTo
    <2> DEFINE a == PlaceOf(x)[1]
    <2>1. a \in tree.pts /\ u[1] \in tree.pts /\ u[1] \in AtOrAbove[a]
      BY <1>1, <1>2, UnderFacts, UnitFacts
    <2>2. pt \in AtOrAbove[a]
      BY <1>1, <2>1 DEF WaitPlaces
    <2>3. pt \in AtOrAbove[u[1]] \/ u[1] \in AtOrAbove[pt]
      BY <1>1, <2>1, <2>2, WaysUp
    <2>4. pt \in AtOrAbove[pt]
      BY <1>1, WaysUp
    <2> QED
      BY <1>6, <2>3, <2>4
  <1>11. Cardinality(Between(S, place)) <= max_length
    <2> DEFINE W == WireTo(pt, S)
               D == W \ E
    <2>1. W \subseteq Units /\ D \subseteq Units
      BY DEF WireTo
    <2>2. /\ Cardinality(Between(S, place)) <= Cardinality(D)
          /\ Cardinality(Between(S, place)) \in Nat /\ Cardinality(D) \in Nat
          /\ IsFiniteSet(D)
      BY <1>1, <1>10, <2>1, FewerUnits
    <2>3. W = D \cup E /\ D \cap E = {}
      BY <1>9
    <2> HIDE DEF W, D, E
    <2>4. Cardinality(D \cup E) = Cardinality(D) + Cardinality(E)
      BY <1>8, <2>2, <2>3, DisjointSize
    <2>5. res[pt].wire_length = Cardinality(W)
      BY <1>1 DEF WireExact, W
    <2>6. res[pt].wire_length = Cardinality(D) + left
      BY <1>8, <2>3, <2>4, <2>5, Zenon
    <2>7. Cardinality(D) = max_length
      BY <1>2, <1>4, <2>2, <2>6
    <2> QED
      BY <2>2, <2>7
  <1>12. NetsShort'
    BY <1>1, <1>5, <1>11, RepeaterNets
  <1>13. WireExact'
    <2> HIDE DEF E
    <2>1. Cardinality({u \in Units : pt \in AtOrAbove[u[1]] /\ IsUnder(place, u)}) = left
      BY <1>7, <1>8
    <2> QED
      BY <1>1, <1>5, <2>1, RepeaterWire
  <1>14. PICK m : m = n + 1
    OBVIOUS
  <1>15. /\ res'[pt].load_pins = {m}
         /\ \A q \in tree.pts : q # pt => res'[q] = res[q]
         /\ \A q \in tree.pts : res[q].load_pins \subseteq DOMAIN on
         /\ \A x \in DOMAIN on : PlaceOf(x)' = PlaceOf(x)
         /\ PlaceOf(m)' = place
    BY <1>1, <1>5, <1>14, RepeaterMade
  <1>16. tree' = tree /\ len' = len /\ AtOrAbove' = AtOrAbove
    BY <1>1, GivenSame
  <1>17. WaitPlaces'
    <2>1. ASSUME NEW q \in tree.pts, NEW x \in res'[q].load_pins
          PROVE  q \in AtOrAbove[PlaceOf(x)'[1]]
      <3>1. CASE q = pt
        BY <1>1, <1>5, <1>15, <2>1, <3>1, WaysUp
      <3>2. CASE q # pt
        <4>1. x \in res[q].load_pins /\ PlaceOf(x)' = PlaceOf(x)
          BY <1>15, <2>1, <3>2
        <4> QED
          BY <1>1, <4>1 DEF WaitPlaces
      <3> QED
        BY <3>1, <3>2
    <2> QED
      BY <1>16, <2>1 DEF WaitPlaces
  <1>18. BackPlaces'
    <2>1. ASSUME NEW x \in res'[pt].load_pins
          PROVE  PlaceOf(x)'[2] <= len[pt] - length'
      <3>1. x = m
        BY <1>15, <2>1
      <3>2. PlaceOf(x)'[2] = h
        BY <1>5, <1>15, <3>1
      <3>3. h = len[pt] - length'
        BY <1>1 DEF h
      <3>4. h <= h
        BY <1>4
      <3> QED
        BY <3>2, <3>3, <3>4
    <2> QED
      BY <1>1, <1>16, <2>1 DEF BackPlaces
  <1> QED
    BY <1>12, <1>13, <1>17, <1>18

\* Two branches, their own wires apart, and the edge above their point.
LEMMA JoinPlaced ==
    ASSUME FullInv, Placed, inCore, max_length > 0, Join
    PROVE  Placed'
  <1> DEFINE left == tree.left[pt]
             right == tree.right[pt]
             edge == IF pt = tree.root \/ max_length = 0 THEN 0 ELSE len[pt]
             W(c) == WireTo(c, Of(c).load_pins)
             E == {u \in Units : u[1] = pt}
             L == Of(left).load_pins \cup Of(right).load_pins \cup Own.load_pins
  <1> USE DEF Placed
  <1>1. /\ TypeOK /\ RepairInv /\ Lengthy /\ tree \in Trees /\ pt \in tree.pts
        /\ max_length \in Nat
        /\ len \in [tree.pts \ {tree.root} -> Nat]
        /\ left \in tree.pts \cup {NoPt} /\ right \in tree.pts \cup {NoPt} /\ NoPt \notin tree.pts
        /\ UNCHANGED <<given, repeaters, pt>>
        /\ pc = "join" /\ pc' = IF pt = tree.root THEN "done" ELSE "back"
        /\ length' = edge /\ joined' = joined \cup {pt}
    BY PlacedTypes, TreeFacts DEF Join, FullInv
  <1>2. \A p \in tree.pts : \A x \in res[p].load_pins : PlaceOf(x) \in tree.pts \X Int
    BY PlacedTypes
  <1>3. /\ res'[pt].load_pins = L
        /\ res'[pt].wire_length = Of(left).wire_length + Of(right).wire_length + edge
        /\ \A p \in tree.pts : p # pt =>
              res'[p] = IF p \in Below(pt) THEN Nothing ELSE res[p]
    BY <1>1 DEF Join
  <1>4. /\ tree' = tree /\ len' = len /\ AtOrAbove' = AtOrAbove
        /\ \A x \in DOMAIN on : PlaceOf(x)' = PlaceOf(x)
    BY <1>1, GivenSame, PlacesStay DEF repeaters
  <1>5. /\ \A c \in {left, right} \ {NoPt} :
              /\ c \in Below(pt) /\ c \in tree.pts /\ Of(c) = res[c]
              /\ AtOrAbove[c] = {c} \cup AtOrAbove[pt] /\ c \notin AtOrAbove[pt]
        /\ Of(NoPt) = Nothing
        /\ pt \in AtOrAbove[pt]
    <2>1. \A c \in {left, right} \ {NoPt} : c \in Below(pt)
      BY DEF Below, Children
    <2> QED
      BY <1>1, <2>1, WaysUp DEF Of
  <1>6. ASSUME NEW x \in Own.load_pins
        PROVE  PlaceOf(x) = <<pt, 0>> /\ x \in DOMAIN on
    <2>1. pt \in LoadPts(tree) /\ x = tree.pin[pt]
      BY <1>1, <1>6 DEF Own, Nothing, LoadPts
    <2>2. x \in loads
      BY <2>1 DEF loads, LoadPins
    <2> QED
      BY <1>1, <2>1, <2>2, PlaceOfLoad DEF TypeOK
  <1>7. ASSUME NEW x \in L
        PROVE  /\ x \in DOMAIN on /\ PlaceOf(x) \in tree.pts \X Int
               /\ PlaceOf(x) = <<pt, 0>>
                     \/ \E c \in {left, right} \ {NoPt} : /\ x \in res[c].load_pins
                                                          /\ c \in AtOrAbove[PlaceOf(x)[1]]
    <2>1. CASE x \in Own.load_pins
      BY <1>1, <1>6, <2>1
    <2>2. CASE x \notin Own.load_pins
      <3>1. PICK c \in {left, right} : x \in Of(c).load_pins
        BY <1>7, <2>2
      <3>2. c # NoPt
        BY <1>5, <3>1 DEF Nothing
      <3>3. x \in res[c].load_pins /\ c \in tree.pts
        BY <1>5, <3>1, <3>2
      <3>4. x \in DOMAIN on /\ PlaceOf(x) \in tree.pts \X Int
        BY <1>2, <3>3, PlacedTypes
      <3>5. c \in AtOrAbove[PlaceOf(x)[1]] \/ PlaceOf(x) = <<pt, 0>>
        BY <3>3 DEF WaitPlaces
      <3> QED
        BY <3>2, <3>3, <3>4, <3>5
    <2> QED
      BY <2>1, <2>2
  <1>8. ASSUME NEW x \in L
        PROVE  /\ pt \in AtOrAbove[PlaceOf(x)[1]]
               /\ PlaceOf(x)[1] = pt => PlaceOf(x)[2] = 0
    <2>1. CASE PlaceOf(x) = <<pt, 0>>
      BY <1>5, <2>1
    <2>2. CASE PlaceOf(x) # <<pt, 0>>
      <3>1. PICK c \in {left, right} \ {NoPt} : c \in AtOrAbove[PlaceOf(x)[1]]
        BY <1>7, <2>2
      <3>2. PlaceOf(x)[1] \in tree.pts /\ pt \in AtOrAbove[c] /\ c \in tree.pts
        BY <1>5, <1>7
      <3>3. pt \in AtOrAbove[PlaceOf(x)[1]]
        BY <1>1, <3>1, <3>2, WaysUp
      <3> QED
        BY <1>5, <3>1, <3>3
    <2> QED
      BY <2>1, <2>2
  <1> HIDE DEF L
  <1>9. pt # tree.root => L # {}
    <2>1. RepairInv'
      BY <1>1, JoinStep
    <2>2. pt # tree.root => Parent(pt) \notin joined \cup {pt}
      <3>1. pt # tree.root => /\ Parent(pt) \in tree.pts /\ pt \in Below(Parent(pt))
                              /\ Parent(pt) # pt
        BY <1>1, BelowFacts
      <3> QED
        BY <1>1, <3>1 DEF RepairInv, Recursion
    <2>3. \A p : Parent(p)' = Parent(p)
      BY <1>1, GivenSame
    <2>4. BranchesLoaded'
      BY <2>1 DEF RepairInv
    <2> QED
      BY <1>1, <1>3, <1>4, <2>2, <2>3, <2>4 DEF BranchesLoaded
  <1>10. WireTo(pt, L) = (W(left) \cup W(right)) \cup E
    <2>1. ASSUME NEW c \in {left, right}, NEW u \in W(c)
          PROVE  u \in WireTo(pt, L)
      <3>1. c # NoPt
        BY <1>5, <2>1 DEF WireTo, Nothing
      <3>2. u \in Units /\ u[1] \in tree.pts /\ c \in AtOrAbove[u[1]]
            /\ \E x \in L : IsUnder(PlaceOf(x), u)
        BY <1>1, <2>1, UnitFacts DEF WireTo, L
      <3>3. pt \in AtOrAbove[c] /\ c \in tree.pts
        BY <1>5, <3>1
      <3>4. pt \in AtOrAbove[u[1]]
        BY <1>1, <3>2, <3>3, WaysUp
      <3> QED
        BY <3>2, <3>4 DEF WireTo
    <2>2. ASSUME NEW u \in E
          PROVE  u \in WireTo(pt, L)
      <3>1. pt # tree.root /\ u[2] \in Nat /\ u \in Units /\ u[1] = pt
        BY <1>1, UnitFacts
      <3>2. PICK x \in L : TRUE
        BY <1>9, <3>1
      <3>3. PlaceOf(x) \in tree.pts \X Int /\ pt \in AtOrAbove[PlaceOf(x)[1]]
            /\ (PlaceOf(x)[1] = pt => PlaceOf(x)[2] = 0)
        BY <1>7, <1>8
      <3>4. PlaceOf(x)[1] = pt => PlaceOf(x)[2] <= u[2]
        BY <3>1, <3>3
      <3>5. IsUnder(PlaceOf(x), u)
        BY <3>1, <3>3, <3>4 DEF IsUnder
      <3> QED
        BY <1>5, <3>1, <3>5 DEF WireTo
    <2>3. ASSUME NEW u \in WireTo(pt, L), u \notin E
          PROVE  u \in W(left) \cup W(right)
      <3>1. PICK x \in L : IsUnder(PlaceOf(x), u)
        BY DEF WireTo
      <3>2. u \in Units /\ u[1] \in tree.pts /\ pt \in AtOrAbove[u[1]] /\ u[1] # pt
        BY <1>1, <2>3, UnitFacts DEF WireTo
      <3>3. PlaceOf(x) \in tree.pts \X Int
        BY <1>7
      <3>4. u[1] \in AtOrAbove[PlaceOf(x)[1]] /\ PlaceOf(x)[1] \in tree.pts
        BY <1>1, <3>1, <3>2, <3>3, UnderFacts
      <3>5. u[1] \notin AtOrAbove[pt]
        BY <1>1, <3>2, WaysUp
      <3>6. PlaceOf(x) # <<pt, 0>>
        BY <3>4, <3>5
      <3>7. PICK c \in {left, right} \ {NoPt} :
               x \in res[c].load_pins /\ c \in AtOrAbove[PlaceOf(x)[1]]
        BY <1>7, <3>6
      <3>8. /\ c \in tree.pts /\ Of(c) = res[c] /\ AtOrAbove[c] = {c} \cup AtOrAbove[pt]
            /\ c \in AtOrAbove[c]
        BY <1>5
      <3>9. c \in AtOrAbove[u[1]] \/ u[1] \in AtOrAbove[c]
        BY <1>1, <3>2, <3>4, <3>7, <3>8, WaysUp
      <3>10. c \in AtOrAbove[u[1]]
        BY <3>5, <3>8, <3>9
      <3>11. u \in W(c)
        BY <3>1, <3>2, <3>7, <3>8, <3>10 DEF WireTo
      <3> QED
        BY <3>7, <3>11
    <2> HIDE DEF W, E
    <2> QED
      BY <2>1, <2>2, <2>3
  <1>11. /\ W(left) \cap W(right) = {}
         /\ (W(left) \cup W(right)) \cap E = {}
    <2>1. ASSUME NEW c \in {left, right}, NEW u \in W(c)
          PROVE  c # NoPt /\ c \in AtOrAbove[u[1]] /\ u[1] \in tree.pts
      BY <1>1, <1>5, <2>1, UnitFacts DEF WireTo, Nothing
    <2>2. left # NoPt /\ right # NoPt => left # right
      BY <1>1, TreeFacts
    <2>3. ASSUME NEW u \in W(left), u \in W(right) PROVE FALSE
      BY <1>1, <1>5, <2>1, <2>2, <2>3, WaysUp
    <2>4. ASSUME NEW c \in {left, right}, NEW u \in W(c), u[1] = pt PROVE FALSE
      BY <1>5, <2>1, <2>4
    <2> QED
      BY <2>3, <2>4
  <1>12. IsFiniteSet(E) /\ Cardinality(E) = edge
    <2>1. CASE pt = tree.root
      <3>1. E = {}
        BY <1>1, <2>1, UnitFacts
      <3> QED
        BY <2>1, <3>1, FS_EmptySet
    <2>2. CASE pt # tree.root
      <3>1. /\ pt \in tree.pts \ {tree.root} /\ 0 \in 0..len[pt]
            /\ edge = len[pt] /\ len[pt] - 0 = len[pt]
        BY <1>1, <2>2
      <3>2. E = {u \in Units : u[1] = pt /\ 0 <= u[2]}
        BY <1>1, UnitFacts
      <3> HIDE DEF E
      <3>3. IsFiniteSet(E) /\ Cardinality(E) = len[pt] - 0
        BY <1>1, <3>1, <3>2, EdgePart
      <3> QED
        BY <3>1, <3>3
    <2> QED
      BY <2>1, <2>2
  <1>13. ASSUME NEW c \in {left, right}
         PROVE  IsFiniteSet(W(c)) /\ Of(c).wire_length = Cardinality(W(c))
    <2>1. IsFiniteSet(W(c))
      <3>1. W(c) \subseteq Units
        BY DEF WireTo
      <3> HIDE DEF W
      <3> QED
        BY <1>1, <3>1, FewerUnits
    <2>2. CASE c = NoPt
      <3>1. W(c) = {}
        BY <1>5, <2>2 DEF WireTo, Nothing
      <3> QED
        BY <1>5, <2>1, <2>2, <3>1, FS_EmptySet DEF Nothing
    <2>3. CASE c # NoPt
      <3>1. c \in tree.pts /\ Of(c) = res[c]
        BY <1>5, <2>3
      <3>2. Of(c).wire_length = Cardinality(W(c))
        BY <3>1 DEF WireExact
      <3> QED
        BY <2>1, <3>2
    <2> QED
      BY <2>2, <2>3
  <1>14. res'[pt].wire_length = Cardinality(WireTo(pt, L))
    <2> DEFINE A == W(left)
               B == W(right)
               AB == A \cup B
    <2>1. /\ IsFiniteSet(A) /\ IsFiniteSet(B) /\ A \cap B = {} /\ AB \cap E = {}
          /\ WireTo(pt, L) = AB \cup E
          /\ Of(left).wire_length = Cardinality(A) /\ Of(right).wire_length = Cardinality(B)
      BY <1>10, <1>11, <1>13
    <2> HIDE DEF A, B, E
    <2>2. IsFiniteSet(AB) /\ Cardinality(AB) = Cardinality(A) + Cardinality(B)
      BY <2>1, DisjointSize
    <2> HIDE DEF AB
    <2>3. Cardinality(AB \cup E) = Cardinality(AB) + Cardinality(E)
      BY <1>12, <2>1, <2>2, DisjointSize
    <2> QED
      BY <1>3, <1>12, <2>1, <2>2, <2>3, Zenon
  <1>15. WaitPlaces'
    <2>1. ASSUME NEW q \in tree.pts, NEW x \in res'[q].load_pins
          PROVE  q \in AtOrAbove[PlaceOf(x)'[1]]
      <3>1. CASE q = pt
        BY <1>3, <1>4, <1>7, <1>8, <2>1, <3>1
      <3>2. CASE q # pt
        <4>1. q \notin Below(pt) /\ x \in res[q].load_pins
          BY <1>3, <2>1, <3>2 DEF Nothing
        <4>2. PlaceOf(x)' = PlaceOf(x)
          BY <1>4, <4>1, PlacedTypes
        <4> QED
          BY <4>1, <4>2 DEF WaitPlaces
      <3> QED
        BY <3>1, <3>2
    <2> QED
      BY <1>4, <2>1 DEF WaitPlaces
  <1>16. BackPlaces'
    <2>1. ASSUME NEW x \in res'[pt].load_pins, pt # tree.root, PlaceOf(x)'[1] = pt
          PROVE  PlaceOf(x)'[2] <= len[pt] - length'
      <3>1. x \in L
        BY <1>3, <2>1
      <3>2. PlaceOf(x)'[2] = 0
        BY <1>4, <1>7, <1>8, <2>1, <3>1
      <3>3. length' = len[pt] /\ len[pt] \in Nat
        BY <1>1, <2>1
      <3> QED
        BY <3>2, <3>3
    <2> QED
      BY <1>1, <1>4, <2>1 DEF BackPlaces
  <1>17. WireExact'
    <2>1. WireTo(pt, res[pt].load_pins)' = WireTo(pt, L)
      <3>1. \A x \in L : PlaceOf(x)' = PlaceOf(x)
        BY <1>4, <1>7
      <3>2. PICK S : S = L
        OBVIOUS
      <3>3. WireTo(pt, S)' = WireTo(pt, S)
        BY <1>1, <3>1, <3>2, WireToSame
      <3> QED
        BY <1>1, <1>3, <3>2, <3>3
    <2>2. ASSUME NEW q \in tree.pts, q # pt, q \notin Below(pt)
          PROVE  WireTo(q, res[q].load_pins)' = WireTo(q, res[q].load_pins)
      <3>1. \A x \in res[q].load_pins : PlaceOf(x)' = PlaceOf(x)
        BY <1>4, PlacedTypes
      <3>2. PICK S : S = res[q].load_pins
        OBVIOUS
      <3>3. WireTo(q, S)' = WireTo(q, S)
        BY <1>1, <3>1, <3>2, WireToSame
      <3>4. res'[q] = res[q]
        BY <1>3, <2>2
      <3> QED
        BY <3>2, <3>3, <3>4
    <2>3. ASSUME NEW q \in tree.pts
          PROVE  res'[q].wire_length = Cardinality(WireTo(q, res[q].load_pins)')
      <3>1. CASE q = pt
        BY <1>1, <1>14, <2>1, <3>1
      <3>2. CASE q # pt /\ q \in Below(pt)
        <4>1. res'[q].wire_length = 0 /\ res'[q].load_pins = {}
          BY <1>3, <3>2 DEF Nothing
        <4>2. WireTo(q, res[q].load_pins)' = {}
          BY <4>1 DEF WireTo
        <4> QED
          BY <4>1, <4>2, FS_EmptySet
      <3>3. CASE q # pt /\ q \notin Below(pt)
        <4>1. res'[q] = res[q]
          BY <1>3, <3>3
        <4> QED
          BY <2>2, <3>3, <4>1 DEF WireExact
      <3> QED
        BY <3>1, <3>2, <3>3
    <2> QED
      BY <1>4, <2>3 DEF WireExact
  <1>18. NetsShort'
    BY <1>1, SameNets
  <1> QED
    BY <1>15, <1>16, <1>17, <1>18

LEMMA NextPlaced ==
    ASSUME FullInv, LengthInv, [Next]_vars
    PROVE  LengthInv'
  <1> SUFFICES ASSUME inCore, max_length > 0, Placed
               PROVE  Placed'
    <2>1. inCore' = inCore /\ max_length' = max_length
      BY DEF Next, Check, Call, Decide, RepairLeft, RepairRight, Join, BackUp, Return, vars, given
    <2> QED
      BY <2>1 DEF LengthInv
  <1>1. TypeOK /\ RepairInv
    BY PlacedTypes DEF FullInv
  <1>2. CASE Check \/ (\E p \in tree.pts : Call(p)) \/ Decide \/ Return \/ UNCHANGED vars
    <2>1. UNCHANGED <<given, repeaters, res>>
      BY <1>2 DEF Check, Call, Decide, Return, vars
    <2>2. \/ pc' # "back" /\ pc \notin {"right", "join"}
          \/ pc' = pc /\ pt' = pt /\ length' = length
      BY <1>2 DEF Check, Call, Decide, Return, vars
    <2> QED
      BY <1>1, <2>1, <2>2, SamePlaced
  <1>3. CASE RepairLeft
    <2>1. CASE repeater_left
      <3>1. tree.left[pt] \in Below(pt)
        BY <1>1, <1>3, <2>1 DEF RepairLeft, RepairInv, Recursion, Below, Children
      <3> QED
        BY <1>3, <2>1, <3>1, BranchPlaced DEF RepairLeft
    <2>2. CASE ~repeater_left
      BY <1>1, <1>3, <2>2, SamePlaced DEF RepairLeft
    <2> QED
      BY <2>1, <2>2
  <1>4. CASE RepairRight
    <2>1. CASE repeater_right
      <3>1. tree.right[pt] \in Below(pt)
        BY <1>1, <1>4, <2>1 DEF RepairRight, RepairInv, Recursion, Below, Children
      <3> QED
        BY <1>4, <2>1, <3>1, BranchPlaced DEF RepairRight
    <2>2. CASE ~repeater_right
      BY <1>1, <1>4, <2>2, SamePlaced DEF RepairRight
    <2> QED
      BY <2>1, <2>2
  <1>5. CASE Join
    BY <1>5, JoinPlaced
  <1>6. CASE BackUp
    BY <1>6, BackUpPlaced
  <1> QED
    BY <1>2, <1>3, <1>4, <1>5, <1>6 DEF Next

LEMMA InitPlaced == Init => LengthInv /\ RecursionEnds
  <1> SUFFICES ASSUME Init PROVE LengthInv /\ RecursionEnds
    OBVIOUS
  <1>1. /\ \A p \in tree.pts : res[p].wire_length = 0 /\ res[p].load_pins = {}
        /\ pc = "check" /\ n = 0 /\ joined = {}
    BY DEF Init, Nothing
  <1>2. WaitPlaces /\ BackPlaces /\ NetsShort
    BY <1>1 DEF WaitPlaces, BackPlaces, NetsShort
  <1>3. WireExact
    <2>1. \A p \in tree.pts : WireTo(p, res[p].load_pins) = {}
      BY <1>1 DEF WireTo
    <2> QED
      BY <1>1, <2>1, FS_EmptySet DEF WireExact
  <1>4. RecursionEnds
    BY <1>1 DEF RecursionEnds
  <1> QED
    BY <1>2, <1>3, <1>4 DEF LengthInv, Placed

LEMMA LengthInvariant == Spec => [](LengthInv /\ RecursionEnds)
  <1>1. FullInv /\ LengthInv /\ RecursionEnds /\ [Next]_vars => (LengthInv /\ RecursionEnds)'
    BY NextPlaced, NextEnds DEF FullInv
  <1> QED
    BY <1>1, InitPlaced, WireInvariant, PTL DEF Spec

\* For any tree, loads and limits, what the recursion adds up of a branch, after any number
\* of repeaters below, is what the terminals that wait on it bring: their fanout, their
\* capacitance and, when the net lies in the core, the wire from them up to the edge above.
THEOREM EstimatesAlwaysExact == Spec => []EstimatesExact
  <1>1. SumsExact /\ LengthInv => EstimatesExact
    <2> SUFFICES ASSUME SumsExact, LengthInv, NEW p \in tree.pts
                 PROVE  LET loadPins == res[p].load_pins \cap loads
                            bufs == Cardinality(res[p].load_pins \ loads)
                        IN /\ res[p].fanout = SumFunctionOnSet(pinFanout, loadPins) + bufs * BufFanout
                           /\ res[p].pin_cap = SumFunctionOnSet(pinCap, loadPins) + bufs * BufCap
                           /\ inCore /\ max_length > 0 => res[p].wire_length = WireBelow(p)
      BY DEF EstimatesExact
    <2>1. WireBelow(p) = Cardinality(WireTo(p, res[p].load_pins))
      BY DEF WireBelow, WireTo
    <2>2. inCore /\ max_length > 0 => res[p].wire_length = WireBelow(p)
      BY <2>1 DEF LengthInv, Placed, WireExact
    <2> QED
      BY <2>2 DEF SumsExact, Estimate
  <1> QED
    BY <1>1, SumsInvariant, LengthInvariant, PTL

\* When there was nothing to repair, no load is farther from the driver than max_length.
LEMMA NothingToRepair ==
    ASSUME TypeOK, n = 0, ~Repair, max_length > 0, NEW x \in DOMAIN on
    PROVE  DistOf(x) <= max_length
  <1>1. Lengthy /\ tree \in Trees /\ max_length \in Nat /\ DOMAIN on = loads \cup 1..0
    BY DEF TypeOK, Lengthy
  <1>2. PICK p \in LoadPts(tree) : x = tree.pin[p]
    BY <1>1 DEF loads, LoadPins
  <1>3. PlaceOf(x) = <<p, 0>> /\ p \in tree.pts
    BY <1>1, <1>2, PlaceOfLoad DEF LoadPts
  <1> DEFINE D == {u \in Units : IsUnder(PlaceOf(x), u) /\ ~IsUnder(DriverPlace(on[x]), u)}
  <1>4. D \subseteq UnitsAbove(p)
    <2>1. <<p, 0>> \in tree.pts \X Int
      BY <1>3
    <2>2. \A u \in Units : IsUnder(<<p, 0>>, u) => u[1] \in AtOrAbove[p]
      BY <1>1, <2>1, UnderFacts
    <2> QED
      BY <1>3, <2>2 DEF UnitsAbove
  <1>5. /\ Cardinality(D) \in Nat
        /\ Cardinality(D) <= Cardinality(UnitsAbove(p))
    <2>1. UnitsAbove(p) \subseteq Units
      BY DEF UnitsAbove
    <2> HIDE DEF D
    <2> QED
      BY <1>1, <1>4, <2>1, FewerUnits
  <1>6. /\ Cardinality(UnitsAbove(p)) \in Nat /\ FindMaxSteinerDist \in Int
        /\ Cardinality(UnitsAbove(p)) <= FindMaxSteinerDist
    BY <1>1, MaxIsFarthest
  <1>7. ~(FindMaxSteinerDist > max_length)
    BY DEF Repair
  <1>8. Cardinality(D) <= max_length
    BY <1>1, <1>5, <1>6, <1>7
  <1> QED
    BY <1>8 DEF DistOf

\* When the recursion is over, all that is left on the net waits at the driver.
LEMMA AllAtRoot ==
    ASSUME RepairInv, RecursionEnds, tree.root \in joined
    PROVE  Net!OnNet(0) = res[tree.root].load_pins
  <1>1. tree \in Trees /\ joined \subseteq tree.pts /\ tree.root \in tree.pts
    BY TreeFacts DEF RepairInv, TypeOK
  <1>2. joined = tree.pts
    <2>1. \A p \in joined : Below(p) \subseteq joined
      BY DEF RepairInv, Recursion
    <2> QED
      BY <1>1, <2>1, FromRoot
  <1>3. \A p \in tree.pts \ {tree.root} : res[p].load_pins = {}
    BY <1>1, <1>2, BelowFacts DEF RecursionEnds, Nothing
  <1>4. LoadPts(tree) \ joined = {}
    BY <1>2 DEF LoadPts
  <1>5. (UNION {res[p].load_pins : p \in tree.pts}) \cup
           {tree.pin[p] : p \in LoadPts(tree) \ joined} = Net!OnNet(0)
    BY DEF RepairInv, LoadsWaiting
  <1>6. UNION {res[p].load_pins : p \in tree.pts} = res[tree.root].load_pins
    BY <1>1, <1>3
  <1>7. {tree.pin[p] : p \in LoadPts(tree) \ joined} = {}
    BY <1>4
  <1> QED
    BY <1>5, <1>6, <1>7

\* For any tree, loads and limits: when repairNet is through with a net in the core, no
\* terminal is farther than max_length from what drives it, and if it made any repeaters,
\* neither the net nor the net of a repeater has more wire than that.
THEOREM LengthAlwaysRepaired == Spec => []LengthRepaired
  <1>1. FullInv /\ LengthInv /\ RecursionEnds => LengthRepaired
    <2> SUFFICES ASSUME FullInv, LengthInv, RecursionEnds,
                        pc = "done", inCore, max_length > 0
                 PROVE  /\ \A x \in DOMAIN on : DistOf(x) <= max_length
                        /\ joined # {} => \A k \in 0..n : WireLength(k) <= max_length
      BY DEF LengthRepaired
    <2>1. /\ TypeOK /\ RepairInv /\ Lengthy /\ tree \in Trees /\ max_length \in Nat
          /\ n \in Nat /\ on \in [loads \cup 1..n -> 0..n] /\ Placed
      BY PlacedTypes DEF FullInv, TypeOK, LengthInv
    <2>2. CASE tree.root \notin joined
      <3>1. joined = {} /\ n = 0 /\ ~Repair
        BY <2>2 DEF RecursionEnds
      <3> QED
        BY <2>1, <3>1, NothingToRepair
    <2>3. CASE tree.root \in joined
      <3>1. \A k \in 0..n : WireLength(k) = Cardinality(WireOfNet(k))
        BY DEF WireLength, WireOfNet, Between
      <3>2. Cardinality(WireOfNet(0)) <= max_length
        <4> DEFINE S == res[tree.root].load_pins
                   W == WireTo(tree.root, S)
                   N == WireOfNet(0)
        <4>1. tree.root \in tree.pts /\ Net!OnNet(0) = S
          BY <2>1, <2>3, AllAtRoot, TreeFacts
        <4>2. N \subseteq W
          <5>1. \A u \in Units : tree.root \in AtOrAbove[u[1]]
            BY <2>1, UpFacts, UnitFacts
          <5> QED
            BY <4>1, <5>1 DEF WireOfNet, Between, WireTo
        <4>3. W \subseteq Units
          BY DEF WireTo
        <4>4. res[tree.root].wire_length = Cardinality(W)
          BY <2>1, <4>1 DEF Placed, WireExact
        <4>5. res[tree.root].wire_length <= max_length
          BY <4>1 DEF FullInv, WireInv, WireBounds
        <4> HIDE DEF W, N
        <4>6. /\ Cardinality(N) \in Nat /\ Cardinality(W) \in Nat
              /\ Cardinality(N) <= Cardinality(W)
          BY <2>1, <4>2, <4>3, FewerUnits
        <4>7. Cardinality(N) <= max_length
          BY <2>1, <4>4, <4>5, <4>6
        <4> QED
          BY <4>7 DEF N
      <3>3. \A k \in 0..n : Cardinality(WireOfNet(k)) <= max_length
        <4>1. \A k \in 0..n : k = 0 \/ k \in 1..n
          BY <2>1
        <4> QED
          BY <2>1, <3>2, <4>1 DEF Placed, NetsShort
      <3>4. ASSUME NEW x \in DOMAIN on
            PROVE  DistOf(x) <= max_length
        <4> DEFINE k == on[x]
                   D == {u \in Units : IsUnder(PlaceOf(x), u) /\ ~IsUnder(DriverPlace(k), u)}
                   N == WireOfNet(k)
        <4>1. k \in 0..n /\ x \in Net!OnNet(k)
          BY <2>1 DEF Net!OnNet
        <4>2. D \subseteq N /\ N \subseteq Units
          BY <4>1 DEF WireOfNet, Between
        <4>3. Cardinality(N) <= max_length
          BY <3>3, <4>1
        <4> HIDE DEF D, N
        <4>4. /\ Cardinality(D) \in Nat /\ Cardinality(N) \in Nat
              /\ Cardinality(D) <= Cardinality(N)
          BY <2>1, <4>2, FewerUnits
        <4>5. Cardinality(D) <= max_length
          BY <2>1, <4>3, <4>4
        <4> QED
          BY <4>5 DEF DistOf, D
      <3> QED
        BY <3>1, <3>3, <3>4
    <2> QED
      BY <2>2, <2>3
  <1> QED
    BY <1>1, WireInvariant, LengthInvariant, PTL

=============================================================================
