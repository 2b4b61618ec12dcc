----------------------------- MODULE RepairNet -----------------------------
(***************************************************************************)
(* repairNet() of src/src/resizer/src/Resizer.cc: repeaters on the Steiner *)
(* tree of one net, for its length, capacitance and fanout.                *)
(*                                                                         *)
(* The recursion goes down to the load pins and inserts repeaters on its   *)
(* way back to the driver.  A call for point pt with prev_pt above it is   *)
(* here the point pt alone: prev_pt is its parent.  What a call returns    *)
(* (wire_length, pin_cap, fanout, load_pins) is res[pt], and waits there   *)
(* for the call above to add it up.                                        *)
(*                                                                         *)
(* A place on the wire is <<p, h>>: h above point p on the way to its      *)
(* parent.  The tree comes with the lengths of its edges; what the code    *)
(* rounds to database units is exact here.                                 *)
(***************************************************************************)
EXTENDS Integers, Sequences, FiniteSetsExt, Functions, RootedTree

CONSTANTS
    Trees,      \* Steiner trees a net may have (SteinerTree!LeftRightIsTree)
    Lengths,    \* lengths of an edge
    PinCaps,    \* capacitances of a load
    PinFanouts, \* fanout loads of a load
    MaxCaps, MaxFanouts, MaxLengths, \* limits; MaxLengths holds 0 for none
    INF,        \* no limit of capacitance or fanout
    WireCap,    \* capacitance of a unit of wire
    BufCap, BufFanout, \* of the input of the buffer cell
    NoPin       \* the pin of a Steiner point

IsTree(t) ==
    LET pins == {p \in t.pts : t.pin[p] # NoPin}
    IN /\ IsFiniteSet(t.pts)
       /\ IsRootedTree(t.pts, pins, t.root, t.left, t.right)
       /\ \A p, q \in pins : t.pin[p] = t.pin[q] => p = q
       /\ \A p \in pins : t.pin[p] \notin Nat

ASSUME RepairNetAssumption ==
    /\ \A t \in Trees : IsTree(t)
    /\ Lengths \subseteq Nat /\ PinCaps \subseteq Nat /\ PinFanouts \subseteq Nat
    /\ MaxCaps \subseteq Nat /\ MaxFanouts \subseteq Nat /\ MaxLengths \subseteq Nat
    /\ INF \in Nat /\ WireCap \in Nat /\ BufCap \in Nat /\ BufFanout \in Nat

VARIABLES
    tree, len,            \* the tree and the length of the edge above each point
    pinCap, pinFanout,    \* of each load pin
    max_cap, max_fanout, max_length,
    inCore,               \* the core does not exist, or the whole net lies in it
    pc,                   \* what the call on top does next
    pt,                   \* its point
    joined,               \* the points whose calls have added up their children
    repeater_left, repeater_right,
    length,               \* what is left of the edge above pt
    res,                  \* wire_length, pin_cap, fanout and load_pins of a point
    n, on,                \* the repeaters and the net of each terminal (Repeaters)
    at                    \* the places of the repeaters

given == <<tree, len, pinCap, pinFanout, max_cap, max_fanout, max_length, inCore>>
repeaters == <<n, on, at>>
vars == <<given, pc, pt, joined, repeater_left, repeater_right, length, res, repeaters>>

Below(p) == Children(tree.left, tree.right, p)
Parent(p) == CHOOSE q \in tree.pts : p \in Below(q)
LoadPts(t) == {p \in t.pts \ {t.root} : t.pin[p] # NoPin}
LoadPins(t) == {t.pin[p] : p \in LoadPts(t)}
loads == LoadPins(tree)

Nothing == [wire_length |-> 0, pin_cap |-> 0, fanout |-> 0, load_pins |-> {}]

Net == INSTANCE Repeaters WITH loads <- loads, n <- n, on <- on

Init ==
    /\ tree \in Trees
    /\ len \in [tree.pts \ {tree.root} -> Lengths]
    /\ pinCap \in [loads -> PinCaps] /\ pinFanout \in [loads -> PinFanouts]
    /\ max_cap \in MaxCaps \cup {INF} /\ max_fanout \in MaxFanouts \cup {INF}
    /\ max_length \in MaxLengths
    /\ inCore \in BOOLEAN
    /\ pc = "check" /\ pt = tree.root /\ joined = {}
    /\ repeater_left = FALSE /\ repeater_right = FALSE /\ length = 0
    /\ res = [p \in tree.pts |-> Nothing]
    /\ n = 0 /\ on = [x \in loads |-> 0] /\ at = << >>

-----------------------------------------------------------------------------
(***************************************************************************)
(* repairNet(net, drvr): whether there is anything to repair.  A limit on  *)
(* the capacitance is there only if slew or capacitance were violated.     *)
(***************************************************************************)
DistFromDrvr ==
    LET dist[p \in tree.pts] == IF p = tree.root THEN 0 ELSE len[p] + dist[Parent(p)]
    IN dist

FindMaxSteinerDist == Max({DistFromDrvr[p] : p \in LoadPts(tree)})

Repair ==
    \/ max_cap # INF
    \/ max_fanout # INF /\ SumFunction(pinFanout) > max_fanout
    \/ max_length # 0 /\ FindMaxSteinerDist > max_length

Check ==
    /\ pc = "check"
    /\ pc' = IF Repair THEN "call" ELSE "done"
    /\ UNCHANGED <<given, pt, joined, repeater_left, repeater_right, length, res, repeaters>>

\* Mutant: what the repeater took over still waits.
MakeRepeaterKeeps(p, place, within, outside) ==
    \/ /\ Net!TakeOver(res[p].load_pins)
       /\ at' = Append(at, place)
       /\ res' = [res EXCEPT ![p] = [wire_length |-> within, pin_cap |-> BufCap,
                                     fanout |-> BufFanout, load_pins |-> @.load_pins \cup {n + 1}]]
    \/ /\ ~inCore
       /\ res' = [res EXCEPT ![p].wire_length = outside]
       /\ UNCHANGED repeaters

\* Mutant: the pin that waits is that of the repeater before.
MakeRepeaterLast(p, place, within, outside) ==
    \/ /\ Net!TakeOver(res[p].load_pins)
       /\ at' = Append(at, place)
       /\ res' = [res EXCEPT ![p] = [wire_length |-> within, pin_cap |-> BufCap,
                                     fanout |-> BufFanout, load_pins |-> {n}]]
    \/ /\ ~inCore
       /\ res' = [res EXCEPT ![p].wire_length = outside]
       /\ UNCHANGED repeaters

(***************************************************************************)
(* makeRepeater at a place, for what waits at point p.  It does nothing    *)
(* outside the core.  within and outside are the wire length afterwards.   *)
(***************************************************************************)
MakeRepeater(p, place, within, outside) ==
    \/ /\ Net!TakeOver(res[p].load_pins)
       /\ at' = Append(at, place)
       /\ res' = [res EXCEPT ![p] = [wire_length |-> within, pin_cap |-> BufCap,
                                     fanout |-> BufFanout, load_pins |-> {n + 1}]]
    \/ /\ ~inCore
       /\ res' = [res EXCEPT ![p].wire_length = outside]
       /\ UNCHANGED repeaters

(***************************************************************************)
(* repairNet(tree, pt, prev_pt): the calls for the children.               *)
(***************************************************************************)
\* Mutant: the call for the right child is missing.
CallLeft(p) ==
    /\ pc = "call" /\ p \in Below(pt) \ joined
    /\ p = tree.left[pt]
    /\ pt' = p
    /\ UNCHANGED <<given, pc, joined, repeater_left, repeater_right, length, res, repeaters>>

Call(p) ==
    /\ pc = "call" /\ p \in Below(pt) \ joined
    /\ p = tree.left[pt] \/ tree.left[pt] \in joined
    /\ pt' = p
    /\ UNCHANGED <<given, pc, joined, repeater_left, repeater_right, length, res, repeaters>>

Of(p) == IF p = NoPt THEN Nothing ELSE res[p]

\* Mutant: each branch is compared on its own.
OverAlone(max, left, right) == left > max \/ right > max

\* Which of two branches a repeater goes to if together they are over a limit.
Over(max, left, right) == left + right > max
LeftFor(max, left, right) == Over(max, left, right) /\ left > right
RightFor(max, left, right) == Over(max, left, right) /\ left <= right

Decide ==
    LET left == Of(tree.left[pt])
        right == Of(tree.right[pt])
        cap(side) == side.pin_cap + side.wire_length * WireCap
    IN /\ pc = "call" /\ Below(pt) \subseteq joined
       /\ repeater_left' =
             \/ LeftFor(max_cap, cap(left), cap(right)) /\ max_cap # INF
             \/ max_length > 0 /\ LeftFor(max_length, left.wire_length, right.wire_length)
             \/ max_fanout \notin {0, INF} /\ LeftFor(max_fanout, left.fanout, right.fanout)
       /\ repeater_right' =
             \/ RightFor(max_cap, cap(left), cap(right)) /\ max_cap # INF
             \/ max_length > 0 /\ RightFor(max_length, left.wire_length, right.wire_length)
             \/ max_fanout \notin {0, INF} /\ RightFor(max_fanout, left.fanout, right.fanout)
       /\ pc' = "left"
       /\ UNCHANGED <<given, pt, joined, length, res, repeaters>>

RepairLeft ==
    /\ pc = "left" /\ pc' = "right"
    /\ IF repeater_left
       THEN MakeRepeater(tree.left[pt], <<pt, 0>>, 0, Of(tree.left[pt]).wire_length)
       ELSE UNCHANGED <<res, repeaters>>
    /\ UNCHANGED <<given, pt, joined, repeater_left, repeater_right, length>>

RepairRight ==
    /\ pc = "right" /\ pc' = "join"
    /\ IF repeater_right
       THEN MakeRepeater(tree.right[pt], <<pt, 0>>, 0, Of(tree.right[pt]).wire_length)
       ELSE UNCHANGED <<res, repeaters>>
    /\ UNCHANGED <<given, pt, joined, repeater_left, repeater_right, length>>

\* The load at the point of the call, which is none at a Steiner point and at the driver.
Own ==
    LET pin == tree.pin[pt]
    IN IF pt = tree.root \/ pin = NoPin
       THEN Nothing
       ELSE [wire_length |-> 0, pin_cap |-> pinCap[pin], fanout |-> pinFanout[pin],
             load_pins |-> {pin}]

\* Mutant: the load pins of the right branch are forgotten.
JoinLeft ==
    LET left == Of(tree.left[pt])
        right == Of(tree.right[pt])
        edge == IF pt = tree.root \/ max_length = 0 THEN 0 ELSE len[pt]
        sum == [wire_length |-> left.wire_length + right.wire_length + edge,
                pin_cap |-> left.pin_cap + right.pin_cap + Own.pin_cap,
                fanout |-> left.fanout + right.fanout + Own.fanout,
                load_pins |-> left.load_pins \cup Own.load_pins]
    IN /\ pc = "join"
       /\ res' = [p \in tree.pts |->
                     IF p = pt THEN sum ELSE IF p \in Below(pt) THEN Nothing ELSE res[p]]
       /\ length' = edge
       /\ joined' = joined \cup {pt}
       /\ pc' = IF pt = tree.root THEN "done" ELSE "back"
       /\ UNCHANGED <<given, pt, repeater_left, repeater_right, repeaters>>

Join ==
    LET left == Of(tree.left[pt])
        right == Of(tree.right[pt])
        edge == IF pt = tree.root \/ max_length = 0 THEN 0 ELSE len[pt]
        sum == [wire_length |-> left.wire_length + right.wire_length + edge,
                pin_cap |-> left.pin_cap + right.pin_cap + Own.pin_cap,
                fanout |-> left.fanout + right.fanout + Own.fanout,
                load_pins |-> left.load_pins \cup right.load_pins \cup Own.load_pins]
    IN /\ pc = "join"
       /\ res' = [p \in tree.pts |->
                     IF p = pt THEN sum ELSE IF p \in Below(pt) THEN Nothing ELSE res[p]]
       /\ length' = edge
       /\ joined' = joined \cup {pt}
       /\ pc' = IF pt = tree.root THEN "done" ELSE "back"
       /\ UNCHANGED <<given, pt, repeater_left, repeater_right, repeaters>>

TooLong == max_length > 0 /\ res[pt].wire_length > max_length

\* Mutant: the wire below the edge is not counted.
BackUpFull ==
    LET left == length - max_length
    IN /\ pc = "back" /\ TooLong
       /\ MakeRepeater(pt, <<pt, len[pt] - left>>, left, left)
       /\ length' = left
       /\ UNCHANGED <<given, pc, pt, joined, repeater_left, repeater_right>>

\* Mutant: the wire above the repeater is not counted.
BackUpOnce ==
    LET buf_dist == length - (res[pt].wire_length - max_length)
        left == length - buf_dist
    IN /\ pc = "back" /\ TooLong
       /\ MakeRepeater(pt, <<pt, len[pt] - left>>, 0, 0)
       /\ length' = left
       /\ UNCHANGED <<given, pc, pt, joined, repeater_left, repeater_right>>

(***************************************************************************)
(* Back up from pt to prev_pt adding repeaters every max_length.  buf_dist *)
(* is the distance of the repeater from the last one.                      *)
(***************************************************************************)
BackUp ==
    LET buf_dist == length - (res[pt].wire_length - max_length)
        left == length - buf_dist
    IN /\ pc = "back" /\ TooLong
       /\ MakeRepeater(pt, <<pt, len[pt] - left>>, left, left)
       /\ length' = left
       /\ UNCHANGED <<given, pc, pt, joined, repeater_left, repeater_right>>

Return ==
    /\ pc = "back" /\ ~TooLong
    /\ pc' = "call" /\ pt' = Parent(pt) /\ length' = 0
    /\ UNCHANGED <<given, joined, repeater_left, repeater_right, res, repeaters>>

Next ==
    \/ Check
    \/ \E p \in tree.pts : Call(p)
    \/ Decide \/ RepairLeft \/ RepairRight \/ Join \/ BackUp \/ Return

\* The function runs until it returns.
Spec == Init /\ [][Next]_vars /\ WF_vars(Next)

-----------------------------------------------------------------------------
(***************************************************************************)
(* Properties.                                                             *)
(***************************************************************************)
Result == [wire_length : Int, pin_cap : Nat, fanout : Nat, load_pins : SUBSET (DOMAIN on)]

TypeOK ==
    /\ tree \in Trees
    /\ len \in [tree.pts \ {tree.root} -> Nat]
    /\ pinCap \in [loads -> Nat] /\ pinFanout \in [loads -> Nat]
    /\ max_cap \in Nat /\ max_fanout \in Nat /\ max_length \in Nat /\ inCore \in BOOLEAN
    /\ pc \in {"check", "call", "left", "right", "join", "back", "done"}
    /\ pt \in tree.pts /\ joined \subseteq tree.pts
    /\ repeater_left \in BOOLEAN /\ repeater_right \in BOOLEAN /\ length \in Int
    /\ res \in [tree.pts -> Result]
    /\ n \in Nat /\ on \in [loads \cup 1..n -> 0..n]
    /\ at \in Seq(tree.pts \X Int) /\ Len(at) = n

\* Nothing is lost and nothing is taken twice: at every step of the recursion a terminal
\* that is on the net waits in the load pins of exactly one point, or is a pin the
\* recursion has yet to reach; and what waits is still on the net.
LoadsWaiting ==
    /\ \A p, q \in tree.pts : p # q => res[p].load_pins \cap res[q].load_pins = {}
    /\ (UNION {res[p].load_pins : p \in tree.pts}) \cup
          {tree.pin[p] : p \in LoadPts(tree) \ joined} = Net!OnNet(0)
    /\ \A p \in tree.pts : \A q \in LoadPts(tree) \ joined : tree.pin[q] \notin res[p].load_pins

\* Whatever the recursion decides, the net changes as repeater insertion promises.
InsertsRepeaters == Net!RepeatersSpec

\* No chain of repeaters closes on itself.
NoLoop == Net!NoLoop

\* Every repeater drives something.
EveryRepeaterDrives == Net!EveryRepeaterDrives

(***************************************************************************)
(* The wire, in units above a point: unit <<p, h>> lies between the places *)
(* <<p, h>> and <<p, h + 1>>.  It belongs to a net if it lies on the way   *)
(* from one of its terminals up to what drives the net.                    *)
(***************************************************************************)
AtOrAbove ==
    LET up[p \in tree.pts] == {p} \cup (IF p = tree.root THEN {} ELSE up[Parent(p)])
    IN up

Units == UNION {{<<p, h>> : h \in 0..len[p] - 1} : p \in tree.pts \ {tree.root}}

IsUnder(place, unit) ==
    \/ place[1] = unit[1] /\ place[2] <= unit[2]
    \/ place[1] # unit[1] /\ unit[1] \in AtOrAbove[place[1]]

PlaceOf(x) ==
    IF x \in loads THEN <<CHOOSE p \in LoadPts(tree) : tree.pin[p] = x, 0>> ELSE at[x]

DriverPlace(k) == IF k = 0 THEN <<tree.root, 0>> ELSE at[k]

WireLength(k) ==
    Cardinality({u \in Units : /\ \E x \in Net!OnNet(k) : IsUnder(PlaceOf(x), u)
                               /\ ~IsUnder(DriverPlace(k), u)})

\* The wire below p, the edge above it included, that no repeater has taken over.
WireBelow(p) ==
    Cardinality({u \in Units : /\ p \in AtOrAbove[u[1]]
                               /\ \E x \in res[p].load_pins : IsUnder(PlaceOf(x), u)})

\* "Remaining parasiics after repeater insertion": fanout, capacitance and, inside the
\* core, wire length of a branch are those of the terminals that wait on it, after any
\* number of repeaters below.
EstimatesExact ==
    \A p \in tree.pts :
       LET loadPins == res[p].load_pins \cap loads
           bufs == Cardinality(res[p].load_pins \ loads)
       IN /\ res[p].fanout = SumFunctionOnSet(pinFanout, loadPins) + bufs * BufFanout
          /\ res[p].pin_cap = SumFunctionOnSet(pinCap, loadPins) + bufs * BufCap
          /\ inCore /\ max_length > 0 => res[p].wire_length = WireBelow(p)

\* How far terminal x is from what drives its net, along the tree.
DistOf(x) ==
    Cardinality({u \in Units : IsUnder(PlaceOf(x), u) /\ ~IsUnder(DriverPlace(on[x]), u)})

\* When the command is through with a net that lies in the core, no terminal is farther
\* than max_length from what drives it; and if repeaters were inserted for any reason, no
\* net has more wire than max_length, neither the one that was repaired nor those of the
\* repeaters.  (A net whose loads are near enough is left alone, however much wire it has.)
LengthRepaired ==
    pc = "done" /\ inCore /\ max_length > 0 =>
       /\ \A x \in DOMAIN on : DistOf(x) <= max_length
       /\ joined # {} => \A k \in 0..n : WireLength(k) <= max_length

\* In the core a repeater is on the wire between the two points it was made for.
RepeatersOnWire ==
    inCore => \A k \in 1..n : at[k][1] # tree.root => at[k][2] \in 0..len[at[k][1]]

\* "Repair ... max fanout violations": after the repair nothing drives more than max_fanout.
FanoutRepaired ==
    pc = "done" /\ inCore /\ max_fanout # INF =>
       \A k \in 0..n :
          LET terms == Net!OnNet(k)
          IN SumFunctionOnSet(pinFanout, terms \cap loads)
                + Cardinality(terms \ loads) * BufFanout <= max_fanout

\* The loop that backs up and the recursion end, inside the core or not.
Terminates == <>(pc = "done")

=============================================================================
