-------------------------- MODULE SteinerTree_proofs --------------------------
(***************************************************************************)
(* Proofs about SteinerTree, for every number of pins, every placement and *)
(* every tree that Flute may return.                                       *)
(***************************************************************************)
EXTENDS SteinerTree, Counting_proofs, SequenceTheorems

(***************************************************************************)
(* Pins and points.                                                        *)
(***************************************************************************)
Increases(s) == \A j, k \in DOMAIN s : j < k => s[j] < s[k]

LEMMA OrderExists ==
    ASSUME NEW S, IsFiniteSet(S), S \subseteq Int
    PROVE  \E s \in [1..Cardinality(S) -> S] : Increases(s)
  <1> DEFINE Ordered(T) == \E s \in [1..Cardinality(T) -> T] : Increases(s)
             B == {T \in SUBSET S : ~Ordered(T)}
  <1> SUFFICES ASSUME B # {} PROVE FALSE
    OBVIOUS
  <1>1. PICK T \in B : \A x \in T : T \ {x} \notin B
    <2>1. B \subseteq SUBSET S
      OBVIOUS
    <2> HIDE DEF B
    <2> QED
      BY <2>1, SmallestSet
  <1>2. T # {}
    <2> SUFFICES ASSUME T = {} PROVE FALSE
      OBVIOUS
    <2> DEFINE s == [x \in 1..0 |-> x]
    <2>1. s \in [1..0 -> T] /\ Increases(s)
      BY DEF Increases
    <2>2. Cardinality(T) = 0
      BY FS_EmptySet
    <2> QED
      BY <2>1, <2>2
  <1>3. PICK m \in T : \A y \in T : m >= y
    <2>1. IsFiniteSet(T) /\ T \subseteq Int
      BY FS_Subset
    <2> QED
      BY <1>2, <2>1, MaxOfFinite
  <1> DEFINE U == T \ {m}
             c == Cardinality(U)
  <1>4. c \in Nat /\ Cardinality(T) = c + 1
    <2>1. IsFiniteSet(T)
      BY FS_Subset
    <2>2. IsFiniteSet(U) /\ Cardinality(U) = Cardinality(T) - 1 /\ Cardinality(T) \in Nat
      BY <1>3, <2>1, FS_RemoveElement, FS_CardinalityType
    <2>3. c \in Nat
      BY <2>2, FS_CardinalityType
    <2> HIDE DEF U
    <2> QED
      BY <2>2, <2>3
  <1>5. Ordered(U)
    BY <1>1, <1>3
  <1> HIDE DEF c
  <1>6. PICK u \in [1..c -> U] : Increases(u)
    BY <1>5 DEF c
  <1> DEFINE s == [k \in 1..(c + 1) |-> IF k = c + 1 THEN m ELSE u[k]]
  <1>7. s \in [1..(c + 1) -> T]
    BY <1>3, <1>4, <1>6
  <1>8. Increases(s)
    <2>1. ASSUME NEW j \in 1..(c + 1), NEW k \in 1..(c + 1), j < k PROVE s[j] < s[k]
      <3>1. j \in 1..c /\ u[j] \in Int /\ m \in Int /\ u[j] # m /\ m >= u[j]
        <4>1. j \in 1..c
          BY <1>4, <2>1
        <4>2. u[j] \in U
          BY <1>6, <4>1
        <4>3. T \subseteq Int
          OBVIOUS
        <4> QED
          BY <1>3, <4>1, <4>2, <4>3
      <3>2. CASE k = c + 1
        BY <1>4, <3>1, <3>2
      <3>3. CASE k # c + 1
        <4>1. k \in 1..c
          BY <1>4, <3>3
        <4> QED
          BY <1>4, <1>6, <2>1, <3>1, <3>3, <4>1 DEF Increases
      <3> QED
        BY <3>2, <3>3
    <2> QED
      BY <2>1, <1>7 DEF Increases
  <1>9. Ordered(T)
    BY <1>4, <1>7, <1>8
  <1> QED
    BY <1>9

\* InOrder lists each element of the set once.
LEMMA InOrderLists ==
    ASSUME NEW S, IsFiniteSet(S), S \subseteq Int
    PROVE  /\ InOrder(S) \in Seq(S) /\ Len(InOrder(S)) = Cardinality(S)
           /\ \A j, k \in 1..Len(InOrder(S)) : InOrder(S)[j] = InOrder(S)[k] => j = k
           /\ \A x \in S : \E k \in 1..Len(InOrder(S)) : InOrder(S)[k] = x
  <1> DEFINE s == InOrder(S)
             c == Cardinality(S)
  <1>1. s \in [1..c -> S] /\ \A j, k \in DOMAIN s : j < k => s[j] < s[k]
    <2>1. \E t \in [1..c -> S] : \A j, k \in DOMAIN t : j < k => t[j] < t[k]
      BY OrderExists DEF Increases
    <2> QED
      BY <2>1 DEF InOrder
  <1>2. c \in Nat
    BY FS_CardinalityType
  <1> HIDE DEF s, c
  <1>3. s \in Seq(S) /\ Len(s) = c
    BY <1>1, <1>2
  <1>4. \A j, k \in 1..c : s[j] = s[k] => j = k
    <2> SUFFICES ASSUME NEW j \in 1..c, NEW k \in 1..c, j # k PROVE s[j] # s[k]
      OBVIOUS
    <2>1. s[j] \in S /\ s[k] \in S
      BY <1>1
    <2>2. j < k \/ k < j
      BY <1>2
    <2>3. s[j] < s[k] \/ s[k] < s[j]
      BY <1>1, <2>2
    <2>4. s[j] \in Int /\ s[k] \in Int
      BY <2>1
    <2> QED
      BY <2>3, <2>4
  <1>5. \A x \in S : \E k \in 1..c : s[k] = x
    <2> DEFINE T == {s[k] : k \in 1..c}
    <2>1. T \subseteq S
      BY <1>1
    <2>2. s \in Bijection(1..c, T)
      BY <1>1, <1>4 DEF Bijection, Injection, Surjection, IsInjective
    <2> HIDE DEF T
    <2>3. ExistsBijection(1..c, T)
      BY <2>2 DEF ExistsBijection
    <2>4. IsFiniteSet(1..c) /\ Cardinality(1..c) = c
      <3>1. 1 \in Int /\ c \in Int /\ c = 1 + c - 1
        BY <1>2
      <3> QED
        BY <1>2, <3>1, IntervalSize
    <2>5. Cardinality(T) = c
      BY <2>3, <2>4, FS_Bijection
    <2>6. T = S
      BY <2>1, <2>5, FS_Subset DEF c
    <2> QED
      BY <2>6 DEF T
  <1> QED
    BY <1>3, <1>4, <1>5 DEF s, c

\* The points at l from k on.
Rest(d, b, l, k) == {p \in 0..d - 1 : b[p] = l /\ k <= p}

LEMMA RestFinite ==
    ASSUME NEW d \in Nat, NEW b, NEW l, NEW k
    PROVE  IsFiniteSet(Rest(d, b, l, k)) /\ Cardinality(Rest(d, b, l, k)) \in Nat
  <1>1. IsFiniteSet(0..d - 1)
    BY FS_Interval
  <1>2. Rest(d, b, l, k) \in SUBSET (0..d - 1)
    BY DEF Rest
  <1>3. IsFiniteSet(Rest(d, b, l, k))
    BY <1>1, <1>2, FS_Subset
  <1> QED
    BY <1>3, FS_CardinalityType

LEMMA RestNext ==
    ASSUME NEW d \in Nat, NEW b, NEW k \in 0..d - 1
    PROVE  /\ Cardinality(Rest(d, b, b[k], k)) \in Nat \ {0}
           /\ Cardinality(Rest(d, b, b[k], k + 1)) = Cardinality(Rest(d, b, b[k], k)) - 1
           /\ \A l : l # b[k] => Rest(d, b, l, k + 1) = Rest(d, b, l, k)
  <1> DEFINE R == Rest(d, b, b[k], k)
  <1>1. IsFiniteSet(R) /\ Cardinality(R) \in Nat
    BY RestFinite
  <1>2. k \in R
    BY DEF Rest
  <1>3. Rest(d, b, b[k], k + 1) = R \ {k}
    BY DEF Rest
  <1>4. \A l : l # b[k] => Rest(d, b, l, k + 1) = Rest(d, b, l, k)
    BY DEF Rest
  <1> HIDE DEF R
  <1>5. Cardinality(R) # 0
    BY <1>1, <1>2, FS_EmptySet
  <1>6. Cardinality(R \ {k}) = Cardinality(R) - 1
    BY <1>1, <1>2, FS_RemoveElement
  <1> QED
    BY <1>1, <1>3, <1>4, <1>5, <1>6 DEF R

LEMMA WithoutLast ==
    ASSUME NEW S, NEW s \in Seq(S), NEW t, s # << >>, t = SubSeq(s, 1, Len(s) - 1)
    PROVE  /\ t \in Seq(S) /\ Len(t) = Len(s) - 1
           /\ \A k \in 1..Len(t) : t[k] = s[k] /\ k \in 1..Len(s) /\ k # Len(s)
           /\ Len(s) \in 1..Len(s) /\ s[Len(s)] \in S
           /\ \A k \in 1..Len(s) : k # Len(s) => k \in 1..Len(t)
  <1> DEFINE c == Len(s)
  <1>1. c \in Nat /\ c > 0
    OBVIOUS
  <1>2. \A k \in 1..c : s[k] \in S
    OBVIOUS
  <1> HIDE DEF c
  <1>3. 1 \in Int /\ c - 1 \in Int /\ \A k \in 1..(c - 1) : s[k] \in S
    BY <1>1, <1>2
  <1>4. /\ t \in Seq(S) /\ Len(t) = IF 1 <= c - 1 THEN (c - 1) - 1 + 1 ELSE 0
        /\ \A k \in 1..((c - 1) - 1 + 1) : t[k] = s[1 + k - 1]
    <2>1. t = SubSeq(s, 1, c - 1)
      BY DEF c
    <2> QED
      BY <1>3, <2>1, SubSeqProperties
  <1>5. Len(t) = c - 1
    BY <1>1, <1>4
  <1>6. \A k \in 1..(c - 1) : t[k] = s[k] /\ k \in 1..c /\ k # c
    BY <1>1, <1>4
  <1>7. \A k \in 1..Len(t) : t[k] = s[k] /\ k \in 1..c /\ k # c
    BY <1>5, <1>6, Zenon
  <1>8. c \in 1..c /\ s[c] \in S
    BY <1>1, <1>2
  <1>9. \A k \in 1..c : k # c => k \in 1..c - 1
    BY <1>1
  <1>10. \A k \in 1..c : k # c => k \in 1..Len(t)
    BY <1>5, <1>9, Zenon
  <1> QED
    BY <1>4, <1>5, <1>7, <1>8, <1>10, Zenon DEF c

-----------------------------------------------------------------------------
NetIs ==
    /\ location \in Seq(Loc) /\ pinCount \in Nat /\ pinCount > 1
    /\ drivers \in SUBSET Pins /\ drivers # {}
    /\ branch \in [PinPt -> Loc] /\ n \in FluteTrees(pinCount)

\* The lists hold the pins without a point, as many at a location as it has points left.
ListsHoldRest ==
    phase = "setTree" =>
       /\ i \in 0..pinCount
       /\ loc_pins_map \in [Loc -> Seq(Pins)]
       /\ \A l \in Loc :
             LET s == loc_pins_map[l]
             IN /\ Len(s) = Cardinality(Rest(pinCount, branch, l, i))
                /\ \A j, k \in 1..Len(s) : s[j] = s[k] => j = k
                /\ \A k \in 1..Len(s) :
                      location[s[k]] = l /\ s[k] \notin DOMAIN pin_steiner_pt_map_
       /\ \A pin \in Pins \ DOMAIN pin_steiner_pt_map_ :
             \E k \in 1..Len(loc_pins_map[location[pin]]) : loc_pins_map[location[pin]][k] = pin

MapsMatch ==
    /\ DOMAIN steiner_pt_pin_map_ = (IF phase = "setTree" THEN 0..i - 1 ELSE PinPt)
    /\ DOMAIN pin_steiner_pt_map_ \subseteq Pins
    /\ phase # "setTree" => DOMAIN pin_steiner_pt_map_ = Pins
    /\ \A p \in DOMAIN steiner_pt_pin_map_ :
          /\ steiner_pt_pin_map_[p] \in DOMAIN pin_steiner_pt_map_
          /\ location[steiner_pt_pin_map_[p]] = branch[p]
          /\ pin_steiner_pt_map_[steiner_pt_pin_map_[p]] = p
    /\ \A pin \in DOMAIN pin_steiner_pt_map_ :
          /\ pin_steiner_pt_map_[pin] \in DOMAIN steiner_pt_pin_map_
          /\ steiner_pt_pin_map_[pin_steiner_pt_map_[pin]] = pin

PinInv == NetIs /\ ListsHoldRest /\ MapsMatch

LEMMA PinInit ==
    ASSUME SteinerAssumption, Init
    PROVE  PinInv
  <1> USE DEF Init
  <1>1. NetIs
    <2>1. location \in Seq(Loc) /\ Len(location) > 1
      BY DEF SteinerAssumption
    <2>2. pinCount \in Nat /\ pinCount > 1
      BY <2>1 DEF pinCount
    <2>3. drivers \in SUBSET Pins /\ drivers # {}
      <3>1. drivers \in (SUBSET Pins) \ {{}}
        OBVIOUS
      <3> HIDE DEF Init
      <3> QED
        BY <3>1
    <2>4. branch \in [PinPt -> Loc] /\ n \in FluteTrees(pinCount)
      OBVIOUS
    <2> HIDE DEF Init
    <2> QED
      BY <2>1, <2>2, <2>3, <2>4 DEF NetIs
  <1>2. MapsMatch
    BY DEF MapsMatch
  <1>3. ListsHoldRest
    <2>1. i = 0 /\ pinCount \in Nat /\ DOMAIN pin_steiner_pt_map_ = {}
      BY <1>1 DEF NetIs
    <2>2. \A l \in Loc : /\ IsFiniteSet(PinsAt(l)) /\ PinsAt(l) \subseteq Int
                         /\ PinsAt(l) \subseteq Pins
                         /\ loc_pins_map[l] = InOrder(PinsAt(l))
      <3>1. IsFiniteSet(Pins) /\ Pins \subseteq Int
        BY <2>1, FS_Interval DEF Pins
      <3>2. \A l : PinsAt(l) \subseteq Pins
        BY DEF PinsAt
      <3>3. \A l : IsFiniteSet(PinsAt(l))
        BY <3>1, <3>2, FS_Subset
      <3> QED
        BY <3>1, <3>2, <3>3
    <2>3. ASSUME NEW l \in Loc
          PROVE  LET s == loc_pins_map[l]
                 IN /\ s \in Seq(Pins)
                    /\ Len(s) = Cardinality(Rest(pinCount, branch, l, i))
                    /\ \A j, k \in 1..Len(s) : s[j] = s[k] => j = k
                    /\ \A k \in 1..Len(s) : location[s[k]] = l
                    /\ \A pin \in Pins : location[pin] = l => \E k \in 1..Len(s) : s[k] = pin
      <3> DEFINE s == loc_pins_map[l]
      <3> HIDE DEF s, Init
      <3>1. /\ s \in Seq(PinsAt(l)) /\ Len(s) = Cardinality(PinsAt(l))
            /\ \A j, k \in 1..Len(s) : s[j] = s[k] => j = k
            /\ \A x \in PinsAt(l) : \E k \in 1..Len(s) : s[k] = x
        <4>1. IsFiniteSet(PinsAt(l)) /\ PinsAt(l) \subseteq Int /\ s = InOrder(PinsAt(l))
          BY <2>2 DEF s
        <4> QED
          BY <4>1, InOrderLists
      <3>2. Rest(pinCount, branch, l, i) = {p \in PinPt : branch[p] = l}
        BY <2>1 DEF Rest, PinPt
      <3>3. Cardinality({p \in PinPt : branch[p] = l}) = Cardinality(PinsAt(l))
        BY DEF Init, Permuted
      <3>4. \A k \in 1..Len(s) : s[k] \in PinsAt(l)
        BY <3>1
      <3>5. \A k \in 1..Len(s) : location[s[k]] = l
        BY <3>4 DEF PinsAt
      <3>6. s \in Seq(Pins)
        BY <2>2, <3>1
      <3>7. \A pin \in Pins : location[pin] = l => pin \in PinsAt(l)
        BY DEF PinsAt
      <3>8. Len(s) = Cardinality(Rest(pinCount, branch, l, i))
        BY <3>1, <3>2, <3>3
      <3> QED
        BY <3>1, <3>5, <3>6, <3>7, <3>8 DEF s
    <2>4. loc_pins_map \in [Loc -> Seq(Pins)]
      BY <2>3
    <2> HIDE DEF Init
    <2>5. \A pin \in Pins : location[pin] \in Loc
      BY <1>1 DEF NetIs, Pins, pinCount
    <2>6. i \in 0..pinCount
      BY <2>1
    <2> QED
      BY <2>1, <2>3, <2>4, <2>5, <2>6 DEF ListsHoldRest
  <1> QED
    BY <1>1, <1>2, <1>3 DEF PinInv

\* The point's list is not empty, and its last pin is at the point and has no point yet.
LEMMA LastOfList ==
    ASSUME PinInv, phase = "setTree", i < pinCount
    PROVE  LET s == loc_pins_map[branch[i]]
           IN /\ i \in 0..pinCount - 1 /\ branch[i] \in Loc /\ s \in Seq(Pins) /\ s # << >>
              /\ s[Len(s)] \in Pins /\ location[s[Len(s)]] = branch[i]
              /\ s[Len(s)] \notin DOMAIN pin_steiner_pt_map_
  <1> DEFINE s == loc_pins_map[branch[i]]
  <1>1. pinCount \in Nat /\ i \in 0..pinCount - 1
    BY DEF PinInv, NetIs, ListsHoldRest
  <1>2. branch[i] \in Loc
    BY <1>1 DEF PinInv, NetIs, PinPt
  <1>3. Cardinality(Rest(pinCount, branch, branch[i], i)) \in Nat \ {0}
    BY <1>1, RestNext
  <1>4. /\ s \in Seq(Pins) /\ Len(s) = Cardinality(Rest(pinCount, branch, branch[i], i))
        /\ \A k \in 1..Len(s) : location[s[k]] = branch[i] /\ s[k] \notin DOMAIN pin_steiner_pt_map_
    BY <1>2 DEF PinInv, ListsHoldRest
  <1> HIDE DEF s
  <1>5. s # << >>
    BY <1>3, <1>4
  <1>6. Len(s) \in 1..Len(s) /\ s[Len(s)] \in Pins
    BY <1>4, <1>5
  <1> QED
    BY <1>1, <1>2, <1>4, <1>5, <1>6 DEF s

LEMMA PinSetTree ==
    ASSUME PinInv, SetTree
    PROVE  PinInv'
  <1> DEFINE s == loc_pins_map[branch[i]]
             t == SubSeq(s, 1, Len(s) - 1)
             pin == s[Len(s)]
  <1>1. /\ phase = "setTree" /\ phase' = "setTree" /\ i < pinCount /\ i' = i + 1
        /\ steiner_pt_pin_map_' = Extended(steiner_pt_pin_map_, i, pin)
        /\ pin_steiner_pt_map_' = Extended(pin_steiner_pt_map_, pin, i)
        /\ loc_pins_map' = [loc_pins_map EXCEPT ![branch[i]] = t]
        /\ location' = location /\ drivers' = drivers /\ branch' = branch /\ n' = n
    BY DEF SetTree, net
  <1>2. /\ i \in 0..pinCount - 1 /\ branch[i] \in Loc /\ s \in Seq(Pins) /\ s # << >>
        /\ pin \in Pins /\ location[pin] = branch[i] /\ pin \notin DOMAIN pin_steiner_pt_map_
    BY <1>1, LastOfList
  <1>3. pinCount' = pinCount /\ Pins' = Pins /\ PinPt' = PinPt /\ pinCount \in Nat
    BY <1>1 DEF pinCount, Pins, PinPt, PinInv, NetIs
  <1>4. NetIs'
    BY <1>1, <1>3 DEF NetIs, PinInv
  <1>5. /\ t \in Seq(Pins) /\ Len(t) = Len(s) - 1
        /\ \A k \in 1..Len(t) : t[k] = s[k] /\ k \in 1..Len(s) /\ k # Len(s)
        /\ Len(s) \in 1..Len(s)
        /\ \A k \in 1..Len(s) : k # Len(s) => k \in 1..Len(t)
    BY <1>2, WithoutLast
  <1> HIDE DEF t
  <1>6. /\ loc_pins_map \in [Loc -> Seq(Pins)]
        /\ loc_pins_map'[branch[i]] = t
        /\ \A l \in Loc : l # branch[i] => loc_pins_map'[l] = loc_pins_map[l]
        /\ loc_pins_map' \in [Loc -> Seq(Pins)]
    <2>1. loc_pins_map \in [Loc -> Seq(Pins)]
      BY <1>1 DEF PinInv, ListsHoldRest
    <2> DEFINE Lists == Seq(Pins)
    <2>2. t \in Lists /\ loc_pins_map \in [Loc -> Lists]
      BY <1>5, <2>1
    <2> HIDE DEF Lists
    <2>3. /\ loc_pins_map'[branch[i]] = t
          /\ \A l \in Loc : l # branch[i] => loc_pins_map'[l] = loc_pins_map[l]
          /\ loc_pins_map' \in [Loc -> Lists]
      BY <1>1, <1>2, <2>2
    <2> QED
      BY <2>1, <2>3 DEF Lists
  <1>7. /\ DOMAIN pin_steiner_pt_map_' = DOMAIN pin_steiner_pt_map_ \cup {pin}
        /\ pin_steiner_pt_map_'[pin] = i
        /\ \A q \in DOMAIN pin_steiner_pt_map_ : pin_steiner_pt_map_'[q] = pin_steiner_pt_map_[q]
    BY <1>1, <1>2 DEF Extended
  <1>8. DOMAIN steiner_pt_pin_map_ = 0..i - 1
    BY <1>1 DEF PinInv, MapsMatch
  <1>9. /\ DOMAIN steiner_pt_pin_map_' = DOMAIN steiner_pt_pin_map_ \cup {i}
        /\ steiner_pt_pin_map_'[i] = pin
        /\ \A p \in DOMAIN steiner_pt_pin_map_ : steiner_pt_pin_map_'[p] = steiner_pt_pin_map_[p]
    <2>1. i \notin DOMAIN steiner_pt_pin_map_
      BY <1>2, <1>8
    <2> QED
      BY <1>1, <2>1 DEF Extended
  <1>10. MapsMatch'
    <2> USE DEF PinInv, MapsMatch
    <2>1. DOMAIN steiner_pt_pin_map_' = 0..(i + 1) - 1
      BY <1>2, <1>8, <1>9
    <2>2. DOMAIN pin_steiner_pt_map_' \subseteq Pins
      BY <1>2, <1>7
    <2>3. \A p \in DOMAIN steiner_pt_pin_map_' :
             /\ steiner_pt_pin_map_'[p] \in DOMAIN pin_steiner_pt_map_'
             /\ location[steiner_pt_pin_map_'[p]] = branch[p]
             /\ pin_steiner_pt_map_'[steiner_pt_pin_map_'[p]] = p
      BY <1>2, <1>7, <1>9
    <2>4. \A q \in DOMAIN pin_steiner_pt_map_' :
             /\ pin_steiner_pt_map_'[q] \in DOMAIN steiner_pt_pin_map_'
             /\ steiner_pt_pin_map_'[pin_steiner_pt_map_'[q]] = q
      BY <1>7, <1>9
    <2> QED
      BY <1>1, <1>3, <2>1, <2>2, <2>3, <2>4
  <1>11. ListsHoldRest'
    <2>1. ASSUME NEW l \in Loc
          PROVE  LET u == loc_pins_map'[l]
                 IN /\ Len(u) = Cardinality(Rest(pinCount, branch, l, i + 1))
                    /\ \A j, k \in 1..Len(u) : u[j] = u[k] => j = k
                    /\ \A k \in 1..Len(u) :
                          location[u[k]] = l /\ u[k] \notin DOMAIN pin_steiner_pt_map_'
      <3>1. LET u == loc_pins_map[l]
            IN /\ Len(u) = Cardinality(Rest(pinCount, branch, l, i))
               /\ \A j, k \in 1..Len(u) : u[j] = u[k] => j = k
               /\ \A k \in 1..Len(u) :
                     location[u[k]] = l /\ u[k] \notin DOMAIN pin_steiner_pt_map_
        BY <1>1 DEF PinInv, ListsHoldRest
      <3>2. CASE l = branch[i]
        <4>1. Cardinality(Rest(pinCount, branch, l, i + 1))
                = Cardinality(Rest(pinCount, branch, l, i)) - 1
          BY <1>2, <1>3, <3>2, RestNext
        <4>2. loc_pins_map'[l] = t /\ loc_pins_map[l] = s
          BY <1>6, <3>2
        <4>3. Len(t) = Cardinality(Rest(pinCount, branch, l, i + 1))
          BY <1>5, <3>1, <4>1, <4>2
        <4> HIDE DEF s
        <4>4. \A j, k \in 1..Len(t) : t[j] = t[k] => j = k
          <5>1. \A j, k \in 1..Len(s) : s[j] = s[k] => j = k
            BY <3>1, <4>2, Zenon
          <5> QED
            BY <1>5, <5>1, Zenon
        <4>5. \A k \in 1..Len(t) : location[t[k]] = l /\ t[k] \notin DOMAIN pin_steiner_pt_map_'
          BY <1>5, <1>7, <3>1, <4>2
        <4> QED
          BY <4>2, <4>3, <4>4, <4>5
      <3>3. CASE l # branch[i]
        <4>1. Rest(pinCount, branch, l, i + 1) = Rest(pinCount, branch, l, i)
          <5>1. \A m : m # branch[i] => Rest(pinCount, branch, m, i + 1)
                                           = Rest(pinCount, branch, m, i)
            BY <1>2, <1>3, RestNext
          <5> QED
            BY <3>3, <5>1, Zenon
        <4>2. loc_pins_map'[l] = loc_pins_map[l]
          BY <1>6, <3>3
        <4> HIDE DEF s
        <4> QED
          BY <1>2, <1>7, <3>1, <3>3, <4>1, <4>2
      <3> QED
        BY <3>2, <3>3
    <2>2. ASSUME NEW q \in Pins \ DOMAIN pin_steiner_pt_map_'
          PROVE  \E k \in 1..Len(loc_pins_map'[location[q]]) : loc_pins_map'[location[q]][k] = q
      <3>1. q \in Pins \ DOMAIN pin_steiner_pt_map_ /\ q # pin
        BY <1>7
      <3>2. PICK k \in 1..Len(loc_pins_map[location[q]]) : loc_pins_map[location[q]][k] = q
        BY <1>1, <3>1 DEF PinInv, ListsHoldRest
      <3>3. CASE location[q] = branch[i]
        <4>1. loc_pins_map'[location[q]] = t /\ loc_pins_map[location[q]] = s
          BY <1>6, <3>3
        <4>2. k \in 1..Len(s) /\ s[k] = q
          BY <3>2, <4>1
        <4>3. k # Len(s)
          BY <3>1, <4>2
        <4> HIDE DEF s
        <4> QED
          BY <1>5, <4>1, <4>2, <4>3
      <3>4. CASE location[q] # branch[i]
        <4>1. location[q] \in Loc
          BY DEF PinInv, NetIs, Pins, pinCount
        <4> QED
          BY <1>6, <3>2, <3>4, <4>1
      <3> QED
        BY <3>3, <3>4
    <2>3. i + 1 \in 0..pinCount
      BY <1>2, <1>3
    <2> HIDE DEF s
    <2> QED
      BY <1>1, <1>3, <1>6, <2>1, <2>2, <2>3 DEF ListsHoldRest
  <1> QED
    BY <1>4, <1>10, <1>11 DEF PinInv

LEMMA PinStep ==
    ASSUME PinInv, [Next]_vars
    PROVE  PinInv'
  <1>1. CASE SetTree
    BY <1>1, PinSetTree
  <1>2. CASE TreeIsSet
    <2>1. /\ phase = "setTree" /\ phase' = "adjacent" /\ i = pinCount
          /\ location' = location /\ drivers' = drivers /\ branch' = branch /\ n' = n
          /\ steiner_pt_pin_map_' = steiner_pt_pin_map_
          /\ pin_steiner_pt_map_' = pin_steiner_pt_map_
      BY <1>2 DEF TreeIsSet, net, maps
    <2>2. pinCount' = pinCount /\ Pins' = Pins /\ PinPt' = PinPt /\ pinCount \in Nat
      BY <2>1 DEF pinCount, Pins, PinPt, PinInv, NetIs
    <2>3. NetIs'
      BY <2>1, <2>2 DEF NetIs, PinInv
    <2>4. DOMAIN steiner_pt_pin_map_ = PinPt
      BY <2>1 DEF PinInv, MapsMatch, PinPt
    <2>5. Pins \subseteq DOMAIN pin_steiner_pt_map_
      <3> SUFFICES ASSUME NEW pin \in Pins \ DOMAIN pin_steiner_pt_map_ PROVE FALSE
        OBVIOUS
      <3> DEFINE l == location[pin]
      <3>1. l \in Loc
        BY DEF PinInv, NetIs, Pins, pinCount
      <3>2. \E k \in 1..Len(loc_pins_map[l]) : loc_pins_map[l][k] = pin
        BY <2>1 DEF PinInv, ListsHoldRest
      <3>3. Len(loc_pins_map[l]) = Cardinality(Rest(pinCount, branch, l, i))
        BY <2>1, <3>1 DEF PinInv, ListsHoldRest
      <3>4. Rest(pinCount, branch, l, i) = {}
        BY <2>1, <2>2 DEF Rest
      <3>5. Len(loc_pins_map[l]) = 0
        BY <3>3, <3>4, FS_EmptySet
      <3> QED
        BY <3>2, <3>5
    <2> QED
      BY <2>1, <2>2, <2>3, <2>4, <2>5 DEF PinInv, ListsHoldRest, MapsMatch
  <1>3. CASE ~SetTree /\ ~TreeIsSet
    <2>1. /\ location' = location /\ drivers' = drivers /\ branch' = branch /\ n' = n
          /\ steiner_pt_pin_map_' = steiner_pt_pin_map_
          /\ pin_steiner_pt_map_' = pin_steiner_pt_map_
          /\ \/ phase # "setTree" /\ phase' # "setTree"
             \/ phase' = phase /\ i' = i /\ loc_pins_map' = loc_pins_map
      BY <1>3 DEF Next, vars, net, maps, FindAdjacent, FindLeftRights, VisitLeft, VisitRight,
                  Visits, Calling, SkipFrom, Return, Finish
    <2>2. pinCount' = pinCount /\ Pins' = Pins /\ PinPt' = PinPt
      BY <2>1 DEF pinCount, Pins, PinPt
    <2>3. NetIs'
      BY <2>1, <2>2 DEF NetIs, PinInv
    <2>4. MapsMatch'
      BY <2>1, <2>2 DEF MapsMatch, PinInv
    <2>5. ListsHoldRest'
      BY <2>1, <2>2 DEF ListsHoldRest, PinInv
    <2> QED
      BY <2>3, <2>4, <2>5 DEF PinInv
  <1> QED
    BY <1>1, <1>2, <1>3

LEMMA PinsMatch ==
    ASSUME PinInv
    PROVE  PinsMatchPoints
  <1>1. phase = "setTree" /\ i < pinCount => loc_pins_map[branch[i]] # << >>
    BY LastOfList
  <1> QED
    BY <1>1 DEF PinInv, MapsMatch, PinsMatchPoints

\* SteinerTree::setTree() gives every point a pin that lies where the point does, and no pin
\* two points, however many pins share a location: it never takes the last pin of an empty
\* list, since a location has as many pins left as points.
THEOREM PinsAlwaysMatch == Spec => []PinsMatchPoints
  <1>1. Init => PinInv
    BY PinInit, SteinerAssumption
  <1>2. PinInv /\ [Next]_vars => PinInv'
    BY PinStep
  <1>3. PinInv => PinsMatchPoints
    BY PinsMatch
  <1> QED
    BY <1>1, <1>2, <1>3, PTL DEF Spec

-----------------------------------------------------------------------------
(***************************************************************************)
(* Trees as Flute gives them: each point names the next on the way to the  *)
(* root.  Without an edge the tree falls into two sides, and the sides     *)
(* beyond the edges of a point are apart.                                  *)
(***************************************************************************)
IsParents(P, f) ==
    /\ f \in [P -> P]
    /\ \E r \in P : f[r] = r
    /\ \A r, s \in P : f[r] = r /\ f[s] = s => r = s
    /\ \A S \in SUBSET P : S # {} /\ (\A p \in S : f[p] \in S) => \E p \in S : f[p] = p

\* The points on the way from y to the root, and those whose way leads over x.
Up(P, f, y) == {x \in P : \A S \in SUBSET P : y \in S /\ (\A z \in S : f[z] \in S) => x \in S}
Down(P, f, x) == {y \in P : x \in Up(P, f, y)}

Joins(f, a, b) == a # b /\ (f[b] = a \/ f[a] = b)

\* What lies beyond the edge from a to b.
Side(P, f, a, b) == IF f[b] = a THEN Down(P, f, b) ELSE P \ Down(P, f, a)

LEMMA FromRoot ==
    ASSUME NEW P, NEW f, IsParents(P, f), NEW S \in SUBSET P,
           \A r \in P : f[r] = r => r \in S, \A y \in P : f[y] \in S => y \in S
    PROVE  S = P
  <1> DEFINE T == P \ S
  <1>1. T \in SUBSET P /\ \A p \in T : f[p] \in T
    BY DEF IsParents
  <1>2. T = {}
    BY <1>1 DEF IsParents
  <1> QED
    BY <1>2

LEMMA UpFacts ==
    ASSUME NEW P, NEW f, IsParents(P, f), NEW y \in P
    PROVE  /\ f[y] \in P /\ y \in Up(P, f, y) /\ Up(P, f, y) \subseteq P
           /\ Up(P, f, y) = {y} \cup Up(P, f, f[y])
           /\ f[y] = y => Up(P, f, y) = {y}
  <1>1. f[y] \in P /\ f \in [P -> P]
    BY DEF IsParents
  <1>2. y \in Up(P, f, y) /\ Up(P, f, y) \subseteq P
    BY DEF Up
  <1>3. Up(P, f, f[y]) \subseteq Up(P, f, y)
    BY <1>1 DEF Up
  <1>4. Up(P, f, y) \subseteq {y} \cup Up(P, f, f[y])
    <2> DEFINE T == {y} \cup Up(P, f, f[y])
    <2>1. T \in SUBSET P
      BY DEF Up
    <2>2. f[y] \in Up(P, f, f[y])
      BY <1>1 DEF Up
    <2>3. \A z \in Up(P, f, f[y]) : f[z] \in Up(P, f, f[y])
      BY <1>1 DEF Up
    <2>4. y \in T /\ \A z \in T : f[z] \in T
      BY <2>2, <2>3
    <2> HIDE DEF T
    <2>5. Up(P, f, y) \subseteq T
      BY <2>1, <2>4 DEF Up
    <2> QED
      BY <2>5 DEF T
  <1>5. ASSUME f[y] = y PROVE Up(P, f, y) = {y}
    <2>1. {y} \in SUBSET P /\ \A z \in {y} : f[z] \in {y}
      BY <1>5
    <2>2. Up(P, f, y) \subseteq {y}
      BY <2>1 DEF Up
    <2> QED
      BY <1>2, <2>2
  <1> QED
    BY <1>1, <1>2, <1>3, <1>4, <1>5

\* What is on the way of a point on the way is on the way.
LEMMA UpTransitive ==
    ASSUME NEW P, NEW f, IsParents(P, f), NEW y \in P, NEW x \in Up(P, f, y)
    PROVE  Up(P, f, x) \subseteq Up(P, f, y)
  BY DEF Up

\* No way leads back.
LEMMA UpNoCycle ==
    ASSUME NEW P, NEW f, IsParents(P, f), NEW c \in P, f[c] # c
    PROVE  c \notin Up(P, f, f[c])
  <1> SUFFICES ASSUME c \in Up(P, f, f[c]) PROVE FALSE
    OBVIOUS
  <1> DEFINE S == {x \in P : c \notin Up(P, f, x)}
  <1>1. \A r \in P : f[r] = r => r \in S
    BY UpFacts
  <1>2. \A y \in P : f[y] \in S => y \in S
    BY UpFacts
  <1>3. S = P
    <2>1. S \in SUBSET P
      OBVIOUS
    <2> HIDE DEF S
    <2> QED
      BY <1>1, <1>2, <2>1, FromRoot
  <1> QED
    BY <1>3, UpFacts

\* There is one way.
LEMMA UpOneWay ==
    ASSUME NEW P, NEW f, IsParents(P, f), NEW u \in P,
           NEW a \in Up(P, f, u), NEW b \in Up(P, f, u)
    PROVE  a \in Up(P, f, b) \/ b \in Up(P, f, a)
  <1> DEFINE S == {y \in P : \A v, w \in Up(P, f, y) : v \in Up(P, f, w) \/ w \in Up(P, f, v)}
  <1>1. \A r \in P : f[r] = r => r \in S
    BY UpFacts
  <1>2. ASSUME NEW y \in P, f[y] \in S PROVE y \in S
    <2>1. Up(P, f, y) = {y} \cup Up(P, f, f[y]) /\ y \in Up(P, f, y)
      BY UpFacts
    <2> QED
      BY <1>2, <2>1
  <1>3. S = P
    <2>1. S \in SUBSET P /\ \A y \in P : f[y] \in S => y \in S
      BY <1>2
    <2> HIDE DEF S
    <2> QED
      BY <1>1, <2>1, FromRoot
  <1> QED
    BY <1>3

\* A way to a point comes over one of those below it, and over one only.
LEMMA UpThroughChild ==
    ASSUME NEW P, NEW f, IsParents(P, f), NEW u \in P, NEW p \in Up(P, f, u), p # u
    PROVE  \E c \in P : f[c] = p /\ c # p /\ c \in Up(P, f, u)
  <1> DEFINE S == {y \in P : \A x \in Up(P, f, y) :
                                x = y \/ \E c \in P : f[c] = x /\ c # x /\ c \in Up(P, f, y)}
  <1>1. \A r \in P : f[r] = r => r \in S
    BY UpFacts
  <1>2. ASSUME NEW y \in P, f[y] \in S PROVE y \in S
    <2>1. Up(P, f, y) = {y} \cup Up(P, f, f[y]) /\ y \in Up(P, f, y)
      BY UpFacts
    <2>2. ASSUME NEW x \in Up(P, f, f[y]), x # y
          PROVE  \E c \in P : f[c] = x /\ c # x /\ c \in Up(P, f, y)
      BY <1>2, <2>1, <2>2
    <2> QED
      BY <2>1, <2>2
  <1>3. S = P
    <2>1. S \in SUBSET P /\ \A y \in P : f[y] \in S => y \in S
      BY <1>2
    <2> HIDE DEF S
    <2> QED
      BY <1>1, <2>1, FromRoot
  <1> QED
    BY <1>3

LEMMA UpChildrenApart ==
    ASSUME NEW P, NEW f, IsParents(P, f), NEW u \in P, NEW c \in P, NEW d \in P,
           f[c] = f[d], f[c] # c, f[d] # d, c \in Up(P, f, u), d \in Up(P, f, u)
    PROVE  c = d
  <1>1. c \in Up(P, f, d) \/ d \in Up(P, f, c)
    BY UpOneWay
  <1>2. /\ Up(P, f, c) = {c} \cup Up(P, f, f[c]) /\ Up(P, f, d) = {d} \cup Up(P, f, f[c])
        /\ c \notin Up(P, f, f[c]) /\ d \notin Up(P, f, f[c])
    BY UpFacts, UpNoCycle
  <1> QED
    BY <1>1, <1>2

\* Around a point: every other point lies beyond one of its edges, and beyond one only.
LEMMA Around ==
    ASSUME NEW P, NEW f, IsParents(P, f), NEW x \in P
    PROVE  /\ \A y \in P \ {x} : \E c \in P : Joins(f, x, c) /\ y \in Side(P, f, x, c)
           /\ \A c \in P : Joins(f, x, c) => /\ x \notin Side(P, f, x, c)
                                             /\ Side(P, f, x, c) \subseteq P
                                             /\ Side(P, f, x, c) = P \ Side(P, f, c, x)
           /\ \A c, d \in P : Joins(f, x, c) /\ Joins(f, x, d) /\ c # d =>
                                 Side(P, f, x, c) \cap Side(P, f, x, d) = {}
  <1>1. ASSUME NEW a \in P, NEW b \in P, a # b, f[b] = a PROVE f[a] # b
    BY <1>1, UpFacts, UpNoCycle
  <1>2. ASSUME NEW y \in P \ {x}
        PROVE  \E c \in P : Joins(f, x, c) /\ y \in Side(P, f, x, c)
    <2>1. CASE x \in Up(P, f, y)
      <3>1. PICK c \in P : f[c] = x /\ c # x /\ c \in Up(P, f, y)
        BY <2>1, UpThroughChild
      <3> QED
        BY <3>1 DEF Joins, Side, Down
    <2>2. CASE x \notin Up(P, f, y)
      <3> DEFINE c == f[x]
      <3>1. c \in P
        BY UpFacts
      <3>2. c # x
        <4> SUFFICES ASSUME f[x] = x PROVE FALSE
          OBVIOUS
        <4> DEFINE S == {z \in P : x \in Up(P, f, z)}
        <4>1. \A r \in P : f[r] = r => r \in S
          BY UpFacts DEF IsParents
        <4>2. \A z \in P : f[z] \in S => z \in S
          BY UpFacts
        <4>3. S = P
          <5>1. S \in SUBSET P
            OBVIOUS
          <5> HIDE DEF S
          <5> QED
            BY <4>1, <4>2, <5>1, FromRoot
        <4> QED
          BY <2>2, <4>3
      <3>3. f[c] # x
        BY <1>1, <3>1, <3>2
      <3> QED
        BY <2>2, <3>1, <3>2, <3>3 DEF Joins, Side, Down
    <2> QED
      BY <2>1, <2>2
  <1>3. ASSUME NEW c \in P, Joins(f, x, c)
        PROVE  /\ x \notin Side(P, f, x, c)
               /\ Side(P, f, x, c) \subseteq P
               /\ Side(P, f, x, c) = P \ Side(P, f, c, x)
    <2>1. CASE f[c] = x
      <3>1. c \notin Up(P, f, x) /\ f[x] # c /\ c # x
        BY <1>1, <1>3, <2>1, UpNoCycle DEF Joins
      <3> QED
        BY <2>1, <3>1 DEF Side, Down
    <2>2. CASE f[c] # x
      <3>1. f[x] = c /\ x \in Up(P, f, x)
        BY <1>3, <2>2, UpFacts DEF Joins
      <3> QED
        BY <2>2, <3>1 DEF Side, Down
    <2> QED
      BY <2>1, <2>2
  <1>4. ASSUME NEW c \in P, NEW d \in P, Joins(f, x, c), Joins(f, x, d), c # d,
               NEW y \in Side(P, f, x, c), y \in Side(P, f, x, d)
        PROVE  FALSE
    <2>1. CASE f[c] = x /\ f[d] = x
      <3>1. y \in P /\ c \in Up(P, f, y) /\ d \in Up(P, f, y) /\ f[c] # c /\ f[d] # d
        BY <1>4, <2>1 DEF Side, Down, Joins
      <3> QED
        BY <1>4, <2>1, <3>1, UpChildrenApart
    <2>2. ASSUME NEW a \in P, NEW b \in P, f[a] = x, f[b] # x,
                 y \in Side(P, f, x, a), y \in Side(P, f, x, b)
          PROVE  FALSE
      <3>1. y \in P /\ a \in Up(P, f, y) /\ x \notin Up(P, f, y)
        BY <2>2 DEF Side, Down
      <3>2. x \in Up(P, f, a)
        BY <2>2, UpFacts
      <3> QED
        BY <3>1, <3>2, UpTransitive
    <2>3. CASE f[c] # x /\ f[d] # x
      BY <1>4, <2>3 DEF Joins
    <2> QED
      BY <1>4, <2>1, <2>2, <2>3
  <1> QED
    BY <1>2, <1>3, <1>4

\* What lies beyond an edge is its end and what lies beyond the other edges of that.
LEMMA SideSplit ==
    ASSUME NEW P, NEW f, IsParents(P, f), NEW a \in P, NEW b \in P, Joins(f, a, b)
    PROVE  /\ b \in Side(P, f, a, b)
           /\ \A y \in P : y \in Side(P, f, a, b) <=>
                 y = b \/ \E c \in P : Joins(f, b, c) /\ c # a /\ y \in Side(P, f, b, c)
  <1>1. Joins(f, b, a)
    BY DEF Joins
  <1>2. Side(P, f, a, b) = P \ Side(P, f, b, a) /\ b \notin Side(P, f, b, a)
    BY <1>1, Around
  <1>3. ASSUME NEW y \in P
        PROVE  y \in Side(P, f, a, b) <=>
                  y = b \/ \E c \in P : Joins(f, b, c) /\ c # a /\ y \in Side(P, f, b, c)
    <2>1. y # b => \E c \in P : Joins(f, b, c) /\ y \in Side(P, f, b, c)
      BY Around
    <2>2. \A c \in P : Joins(f, b, c) /\ c # a => Side(P, f, b, c) \cap Side(P, f, b, a) = {}
      BY <1>1, Around
    <2> QED
      BY <1>2, <2>1, <2>2
  <1> QED
    BY <1>2, <1>3

-----------------------------------------------------------------------------
(***************************************************************************)
(* The neighbours of the points, as findLeftRights collects them in adj1,  *)
(* adj2 and adj3.                                                          *)
(***************************************************************************)
LEMMA NoTwoCycle ==
    ASSUME NEW P, NEW f, IsParents(P, f), NEW a \in P, NEW b \in P, a # b, f[b] = a
    PROVE  f[a] # b
  BY UpFacts, UpNoCycle

LEMMA FluteFacts ==
    ASSUME NEW d \in Nat, d > 1, NEW f \in FluteTrees(d), NEW P, P = 0..2 * d - 3
    PROVE  /\ IsParents(P, f)
           /\ \A p \in P : /\ Neighbours(f, p) = {q \in P : Joins(f, p, q)}
                           /\ IsFiniteSet(Neighbours(f, p))
                           /\ Cardinality(Neighbours(f, p)) = IF p < d THEN 1 ELSE 3
  <1>1. f \in [P -> P]
    <2>1. CASE d = 2
      BY <2>1 DEF FluteTrees
    <2>2. CASE d # 2
      <3>1. f \in [0..2 * d - 3 -> d..2 * d - 3]
        BY <2>2 DEF FluteTrees
      <3> QED
        BY <3>1
    <2> QED
      BY <2>1, <2>2
  <1>2. \A p \in P : Neighbours(f, p) = {q \in P : Joins(f, p, q)}
    BY <1>1 DEF Neighbours, Joins
  <1>3. \A p \in P : IsFiniteSet(Neighbours(f, p))
    <2>1. IsFiniteSet(P)
      BY FS_Interval
    <2>2. \A p \in P : Neighbours(f, p) \in SUBSET P
      BY <1>2
    <2> QED
      BY <2>1, <2>2, FS_Subset
  <1>4. /\ \A p \in P : Cardinality(Neighbours(f, p)) = IF p < d THEN 1 ELSE 3
        /\ \E r \in P : \A x \in P : f[x] = x <=> x = r
        /\ \A S \in SUBSET P : S # {} /\ (\A p \in S : f[p] \in S) => \E p \in S : f[p] = p
    <2>1. CASE d = 2
      <3>1. P = {0, 1} /\ f[0] = 1 /\ f[1] = 1
        BY <2>1 DEF FluteTrees
      <3>2. Neighbours(f, 0) = {1} /\ Neighbours(f, 1) = {0}
        BY <1>2, <3>1 DEF Joins
      <3>3. \A p \in P : p < d /\ Cardinality(Neighbours(f, p)) = 1
        BY <2>1, <3>1, <3>2, FS_Singleton
      <3>4. \A x \in P : f[x] = x <=> x = 1
        BY <3>1
      <3>5. \A S \in SUBSET P : S # {} /\ (\A p \in S : f[p] \in S) => \E p \in S : f[p] = p
        BY <3>1
      <3> QED
        BY <3>1, <3>3, <3>4, <3>5
    <2>2. CASE d # 2
      <3>1. f \in [0..2 * d - 3 -> d..2 * d - 3] /\ IsFluteTree(d, f)
        BY <2>2 DEF FluteTrees
      <3>2. /\ \A p \in P : Cardinality(Neighbours(f, p)) = IF p < d THEN 1 ELSE 3
            /\ \A S \in SUBSET (d..2 * d - 3) :
                  S # {} /\ (\A p \in S : f[p] \in S) => \E p \in S : f[p] = p
            /\ Cardinality({p \in P : f[p] = p}) = 1
        BY <1>1, <3>1 DEF IsFluteTree
      <3>3. \E r \in P : \A x \in P : f[x] = x <=> x = r
        <4> DEFINE R == {p \in P : f[p] = p}
        <4>1. IsFiniteSet(R)
          <5>1. R \in SUBSET P /\ IsFiniteSet(P)
            BY FS_Interval
          <5> HIDE DEF R
          <5> QED
            BY <5>1, FS_Subset
        <4>2. PICK r : R = {r}
          <5> HIDE DEF R
          <5>1. Cardinality(R) = 1
            BY <3>2 DEF R
          <5> QED
            BY <4>1, <5>1, FS_Singleton
        <4>3. R \subseteq P /\ \A x \in P : f[x] = x <=> x \in R
          OBVIOUS
        <4> HIDE DEF R
        <4>4. r \in P /\ \A x \in P : f[x] = x <=> x = r
          BY <4>2, <4>3
        <4> QED
          BY <4>4
      <3>4. ASSUME NEW S \in SUBSET P, S # {}, \A p \in S : f[p] \in S
            PROVE  \E p \in S : f[p] = p
        <4> DEFINE T == S \cap (d..2 * d - 3)
        <4>1. T # {} /\ \A p \in T : f[p] \in T
          BY <3>1, <3>4
        <4> QED
          BY <3>2, <4>1
      <3> QED
        BY <3>2, <3>3, <3>4
    <2> QED
      BY <2>1, <2>2
  <1>5. IsParents(P, f)
    <2>1. PICK r \in P : \A x \in P : f[x] = x <=> x = r
      BY <1>4
    <2> QED
      BY <1>1, <1>4, <2>1 DEF IsParents
  <1> QED
    BY <1>2, <1>3, <1>4, <1>5

-----------------------------------------------------------------------------
\* s lists the members of S, each of them once.
Lists(s, S) ==
    /\ s \in Seq(S)
    /\ \A j, k \in 1..Len(s) : s[j] = s[k] => j = k
    /\ \A x \in S : \E k \in 1..Len(s) : s[k] = x

LEMMA ListsSize ==
    ASSUME NEW s, NEW S, Lists(s, S)
    PROVE  IsFiniteSet(S) /\ Cardinality(S) = Len(s) /\ Len(s) \in Nat
  <1> DEFINE c == Len(s)
  <1>1. c \in Nat /\ s \in [1..c -> S]
    BY DEF Lists
  <1>2. s \in Bijection(1..c, S)
    BY <1>1 DEF Lists, Bijection, Injection, Surjection, IsInjective
  <1> HIDE DEF c
  <1>3. ExistsBijection(1..c, S)
    BY <1>2 DEF ExistsBijection
  <1>4. IsFiniteSet(1..c) /\ Cardinality(1..c) = c
    <2>1. 1 \in Int /\ c \in Int /\ c = 1 + c - 1
      BY <1>1
    <2> QED
      BY <1>1, <2>1, IntervalSize
  <1>5. IsFiniteSet(S) /\ Cardinality(S) = c
    BY <1>3, <1>4, FS_Bijection
  <1> QED
    BY <1>1, <1>5 DEF c

LEMMA ListsAppend ==
    ASSUME NEW s, NEW S, Lists(s, S), NEW q, q \notin S
    PROVE  Lists(Append(s, q), S \cup {q})
  <1> DEFINE t == Append(s, q)
  <1>1. /\ s \in Seq(S) /\ \A k \in 1..Len(s) : s[k] \in S
        /\ \A j, k \in 1..Len(s) : s[j] = s[k] => j = k
        /\ \A x \in S : \E k \in 1..Len(s) : s[k] = x
    BY DEF Lists
  <1>2. s \in Seq(S \cup {q})
    BY <1>1
  <1>3. /\ t \in Seq(S \cup {q}) /\ Len(t) = Len(s) + 1 /\ t[Len(s) + 1] = q
        /\ \A k \in 1..Len(s) : t[k] = s[k]
    BY <1>2
  <1> HIDE DEF t
  <1>4. Len(s) \in Nat
    BY <1>1
  <1>5. \A j, k \in 1..Len(t) : t[j] = t[k] => j = k
    <2> SUFFICES ASSUME NEW j \in 1..Len(t), NEW k \in 1..Len(t), t[j] = t[k] PROVE j = k
      OBVIOUS
    <2>1. (j \in 1..Len(s) \/ j = Len(s) + 1) /\ (k \in 1..Len(s) \/ k = Len(s) + 1)
      BY <1>3, <1>4
    <2> QED
      BY <1>1, <1>3, <2>1
  <1>6. \A x \in S \cup {q} : \E k \in 1..Len(t) : t[k] = x
    <2>1. Len(s) + 1 \in 1..Len(t) /\ \A k \in 1..Len(s) : k \in 1..Len(t)
      BY <1>3, <1>4
    <2> QED
      BY <1>1, <1>3, <2>1
  <1> QED
    BY <1>3, <1>5, <1>6 DEF Lists, t

-----------------------------------------------------------------------------
\* The neighbours of p over the edges of the points before k.
Found(P, f, p, k) == {q \in P : Joins(f, p, q) /\ ((f[q] = p /\ q < k) \/ (f[p] = q /\ p < k))}

LEMMA FoundNext ==
    ASSUME NEW P, NEW f, IsParents(P, f), P \subseteq Nat, NEW k \in P
    PROVE  /\ f[k] \in P
           /\ \A p \in P : Found(P, f, p, k) \subseteq {q \in P : Joins(f, p, q)}
           /\ f[k] = k => \A p \in P : Found(P, f, p, k + 1) = Found(P, f, p, k)
           /\ f[k] # k =>
                 /\ \A p \in P \ {k, f[k]} : Found(P, f, p, k + 1) = Found(P, f, p, k)
                 /\ f[k] \notin Found(P, f, k, k) /\ k \notin Found(P, f, f[k], k)
                 /\ Joins(f, k, f[k]) /\ Joins(f, f[k], k)
                 /\ Found(P, f, k, k + 1) = Found(P, f, k, k) \cup {f[k]}
                 /\ Found(P, f, f[k], k + 1) = Found(P, f, f[k], k) \cup {k}
  <1> DEFINE j == f[k]
  <1>1. j \in P
    BY UpFacts
  <1>2. \A a \in P : a < k + 1 <=> a < k \/ a = k
    OBVIOUS
  <1>3. \A p \in P : Found(P, f, p, k) \subseteq {q \in P : Joins(f, p, q)}
    BY DEF Found
  <1>4. ASSUME NEW p \in P
        PROVE  Found(P, f, p, k + 1)
                 = Found(P, f, p, k)
                     \cup {q \in P : Joins(f, p, q) /\ ((q = k /\ p = j) \/ (p = k /\ q = j))}
    BY <1>2 DEF Found
  <1>5. ASSUME j # k
        PROVE  /\ f[j] # k /\ Joins(f, k, j) /\ Joins(f, j, k)
    BY <1>1, <1>5, NoTwoCycle DEF Joins
  <1>6. ASSUME j # k
        PROVE  j \notin Found(P, f, k, k) /\ k \notin Found(P, f, j, k)
    BY <1>1, <1>5, <1>6 DEF Found
  <1> HIDE DEF j
  <1>7. ASSUME j = k, NEW p \in P
        PROVE  Found(P, f, p, k + 1) = Found(P, f, p, k)
    <2>1. {q \in P : Joins(f, p, q) /\ ((q = k /\ p = j) \/ (p = k /\ q = j))} = {}
      BY <1>7 DEF Joins
    <2> QED
      BY <1>4, <2>1
  <1>8. ASSUME j # k
        PROVE  /\ \A p \in P \ {k, j} : Found(P, f, p, k + 1) = Found(P, f, p, k)
               /\ Found(P, f, k, k + 1) = Found(P, f, k, k) \cup {j}
               /\ Found(P, f, j, k + 1) = Found(P, f, j, k) \cup {k}
    <2>1. \A p \in P \ {k, j} :
             {q \in P : Joins(f, p, q) /\ ((q = k /\ p = j) \/ (p = k /\ q = j))} = {}
      OBVIOUS
    <2>2. {q \in P : Joins(f, k, q) /\ ((q = k /\ k = j) \/ (k = k /\ q = j))} = {j}
      BY <1>1, <1>5, <1>8
    <2>3. {q \in P : Joins(f, j, q) /\ ((q = k /\ j = j) \/ (j = k /\ q = j))} = {k}
      BY <1>1, <1>5, <1>8
    <2> QED
      BY <1>1, <1>4, <2>1, <2>2, <2>3
  <1> QED
    BY <1>1, <1>3, <1>5, <1>6, <1>7, <1>8 DEF j

-----------------------------------------------------------------------------
AdjInv ==
    /\ phase \in {"setTree", "adjacent", "leftRight", "done"}
    /\ adj \in [Pt -> Seq(Pt)]
    /\ phase = "setTree" => \A p \in Pt : adj[p] = << >>
    /\ phase = "adjacent" =>
          i \in 0..branchCount /\ \A p \in Pt : Lists(adj[p], Found(Pt, n, p, i))
    /\ phase \in {"leftRight", "done"} => \A p \in Pt : Lists(adj[p], Neighbours(n, p))

\* The points of a net with pins.
LEMMA PtFacts ==
    ASSUME PinInv
    PROVE  /\ pinCount \in Nat /\ pinCount > 1 /\ branchCount \in Nat /\ pinCount <= branchCount
           /\ Pt \subseteq Nat /\ Pt = 0..2 * pinCount - 3 /\ PinPt \subseteq Pt
           /\ \A p \in Pt : p \in PinPt <=> p < pinCount
           /\ IsParents(Pt, n)
           /\ \A p \in Pt : /\ Neighbours(n, p) = {q \in Pt : Joins(n, p, q)}
                            /\ IsFiniteSet(Neighbours(n, p))
                            /\ Cardinality(Neighbours(n, p)) = IF p \in PinPt THEN 1 ELSE 3
  <1>1. pinCount \in Nat /\ pinCount > 1 /\ n \in FluteTrees(pinCount)
    BY DEF PinInv, NetIs
  <1>2. /\ branchCount \in Nat /\ pinCount <= branchCount
        /\ Pt \subseteq Nat /\ Pt = 0..2 * pinCount - 3 /\ PinPt \subseteq Pt
        /\ \A p \in Pt : p \in PinPt <=> p < pinCount
    BY <1>1 DEF branchCount, Pt, PinPt
  <1>3. /\ IsParents(Pt, n)
        /\ \A p \in Pt : /\ Neighbours(n, p) = {q \in Pt : Joins(n, p, q)}
                         /\ IsFiniteSet(Neighbours(n, p))
                         /\ Cardinality(Neighbours(n, p)) = IF p < pinCount THEN 1 ELSE 3
    BY <1>1, <1>2, FluteFacts
  <1> QED
    BY <1>1, <1>2, <1>3

\* b is a with q behind the neighbours of p, which are S.
Adds(a, b, p, q, S) ==
    DOMAIN b = Pt /\ Lists(b[p], S \cup {q}) /\ \A r \in Pt \ {p} : b[r] = a[r]

\* A neighbour that has not been found goes behind those that have been.
LEMMA AddNeighbour ==
    ASSUME PinInv, NEW a, NEW p \in Pt, NEW q \in Pt, NEW S, Lists(a[p], S), DOMAIN a = Pt,
           S \subseteq Neighbours(n, p), q \in Neighbours(n, p), q \notin S
    PROVE  Adds(a, AddAdj(a, p, q), p, q, S)
  <1>1. IsFiniteSet(Neighbours(n, p)) /\ Cardinality(Neighbours(n, p)) \in {1, 3}
    BY PtFacts
  <1>2. IsFiniteSet(S) /\ Cardinality(S) = Len(a[p]) /\ Len(a[p]) \in Nat
    BY ListsSize
  <1>3. /\ IsFiniteSet(S \cup {q}) /\ Cardinality(S \cup {q}) = Cardinality(S) + 1
    BY <1>2, FS_AddElement
  <1>4. Cardinality(S \cup {q}) <= Cardinality(Neighbours(n, p))
    BY <1>1, FS_Subset
  <1>5. Len(a[p]) < 3
    BY <1>1, <1>2, <1>3, <1>4
  <1>6. Lists(Append(a[p], q), S \cup {q})
    BY ListsAppend
  <1> QED
    BY <1>5, <1>6 DEF AddAdj, Adds

LEMMA ListsNothing == Lists(<< >>, {})
  <1>1. << >> \in Seq({}) /\ Len(<< >>) = 0
    OBVIOUS
  <1> QED
    BY <1>1 DEF Lists

LEMMA AdjFind ==
    ASSUME PinInv, AdjInv, FindAdjacent
    PROVE  AdjInv'
  <1> DEFINE j == n[i]
             once == AddAdj(adj, i, j)
  <1>1. /\ phase = "adjacent" /\ phase' = "adjacent" /\ i < branchCount /\ i' = i + 1
        /\ adj' = IF j # i THEN AddAdj(once, j, i) ELSE adj
        /\ location' = location /\ n' = n
    BY DEF FindAdjacent, net
  <1>2. Pt' = Pt /\ branchCount' = branchCount /\ pinCount' = pinCount
    BY <1>1 DEF Pt, branchCount, pinCount
  <1>3. /\ branchCount \in Nat /\ Pt \subseteq Nat /\ IsParents(Pt, n)
        /\ \A p \in Pt : Neighbours(n, p) = {q \in Pt : Joins(n, p, q)}
    BY PtFacts
  <1>4. i \in Pt /\ i + 1 \in 0..branchCount
    BY <1>1, <1>3 DEF AdjInv, Pt
  <1>5. /\ adj \in [Pt -> Seq(Pt)]
        /\ \A p \in Pt : Lists(adj[p], Found(Pt, n, p, i))
    BY <1>1 DEF AdjInv
  <1>6. /\ j \in Pt
        /\ \A p \in Pt : Found(Pt, n, p, i) \subseteq {q \in Pt : Joins(n, p, q)}
        /\ j = i => \A p \in Pt : Found(Pt, n, p, i + 1) = Found(Pt, n, p, i)
        /\ j # i =>
              /\ \A p \in Pt \ {i, j} : Found(Pt, n, p, i + 1) = Found(Pt, n, p, i)
              /\ j \notin Found(Pt, n, i, i) /\ i \notin Found(Pt, n, j, i)
              /\ Joins(n, i, j) /\ Joins(n, j, i)
              /\ Found(Pt, n, i, i + 1) = Found(Pt, n, i, i) \cup {j}
              /\ Found(Pt, n, j, i + 1) = Found(Pt, n, j, i) \cup {i}
    BY <1>3, <1>4, FoundNext
  <1> HIDE DEF j, once
  <1>7. /\ DOMAIN adj' = Pt
        /\ \A p \in Pt : Lists(adj'[p], Found(Pt, n, p, i + 1))
    <2>1. CASE j = i
      BY <1>1, <1>5, <1>6, <2>1
    <2>2. CASE j # i
      <3>1. /\ DOMAIN once = Pt
            /\ Lists(once[i], Found(Pt, n, i, i) \cup {j})
            /\ \A r \in Pt \ {i} : once[r] = adj[r]
        <4>1. Found(Pt, n, i, i) \subseteq Neighbours(n, i) /\ j \in Neighbours(n, i)
          BY <1>3, <1>4, <1>6, <2>2
        <4> QED
          BY <1>4, <1>5, <1>6, <2>2, <4>1, AddNeighbour DEF once, Adds
      <3> DEFINE twice == AddAdj(once, j, i)
      <3>2. /\ DOMAIN twice = Pt
            /\ Lists(twice[j], Found(Pt, n, j, i) \cup {i})
            /\ \A r \in Pt \ {j} : twice[r] = once[r]
        <4>1. Found(Pt, n, j, i) \subseteq Neighbours(n, j) /\ i \in Neighbours(n, j)
          BY <1>3, <1>4, <1>6, <2>2
        <4>2. Lists(once[j], Found(Pt, n, j, i))
          BY <1>5, <1>6, <2>2, <3>1
        <4>3. i \in Pt /\ j \in Pt /\ i \notin Found(Pt, n, j, i)
          BY <1>4, <1>6, <2>2
        <4>4. /\ DOMAIN AddAdj(once, j, i) = Pt
              /\ Lists(AddAdj(once, j, i)[j], Found(Pt, n, j, i) \cup {i})
              /\ \A r \in Pt \ {j} : AddAdj(once, j, i)[r] = once[r]
          <5> DEFINE T == Found(Pt, n, j, i)
          <5>1. /\ DOMAIN once = Pt /\ Lists(once[j], T) /\ T \subseteq Neighbours(n, j)
                /\ i \in Neighbours(n, j) /\ i \notin T
            BY <3>1, <4>1, <4>2, <4>3
          <5> HIDE DEF T
          <5>2. Adds(once, AddAdj(once, j, i), j, i, T)
            BY <4>3, <5>1, AddNeighbour
          <5> QED
            BY <5>2 DEF T, Adds
        <4> QED
          BY <4>4
      <3>3. adj' = twice
        BY <1>1, <2>2
      <3> HIDE DEF twice
      <3>4. ASSUME NEW p \in Pt PROVE Lists(twice[p], Found(Pt, n, p, i + 1))
        <4>1. CASE p = i
          BY <1>4, <1>6, <2>2, <3>1, <3>2, <4>1
        <4>2. CASE p = j
          BY <1>6, <2>2, <3>2, <4>2
        <4>3. CASE p \notin {i, j}
          <5>1. twice[p] = adj[p]
            BY <3>1, <3>2, <4>3
          <5> QED
            BY <1>5, <1>6, <2>2, <4>3, <5>1
        <4> QED
          BY <4>1, <4>2, <4>3
      <3> QED
        BY <3>2, <3>3, <3>4
    <2> QED
      BY <2>1, <2>2
  <1>8. adj' \in [Pt -> Seq(Pt)]
    <2>1. \A p \in Pt : adj'[p] \in Seq(Found(Pt, n, p, i + 1))
      BY <1>7 DEF Lists
    <2>2. \A p \in Pt : Found(Pt, n, p, i + 1) \subseteq Pt
      BY DEF Found
    <2>3. \A p \in Pt : adj'[p] \in Seq(Pt)
      BY <2>1, <2>2
    <2>4. adj' = [p \in Pt |-> adj'[p]]
      <3>1. CASE j = i
        BY <1>1, <1>5, <3>1
      <3>2. CASE j # i
        BY <1>1, <1>7, <3>2 DEF AddAdj
      <3> QED
        BY <3>1, <3>2
    <2> QED
      BY <2>3, <2>4
  <1> QED
    BY <1>1, <1>2, <1>4, <1>7, <1>8 DEF AdjInv

LEMMA AdjStep ==
    ASSUME PinInv, AdjInv, [Next]_vars
    PROVE  AdjInv'
  <1>1. CASE FindAdjacent
    BY <1>1, AdjFind
  <1>2. CASE TreeIsSet
    <2>1. /\ phase = "setTree" /\ phase' = "adjacent" /\ i' = 0 /\ adj' = adj
          /\ location' = location /\ n' = n
      BY <1>2 DEF TreeIsSet, net
    <2>2. Pt' = Pt /\ branchCount' = branchCount
      BY <2>1 DEF Pt, branchCount, pinCount
    <2>3. branchCount \in Nat /\ Pt \subseteq Nat
      BY PtFacts
    <2>4. \A p \in Pt : Found(Pt, n, p, 0) = {}
      <3>1. \A q \in Pt : ~(q < 0)
        BY <2>3
      <3> QED
        BY <3>1 DEF Found
    <2>5. \A p \in Pt : Lists(adj[p], Found(Pt, n, p, 0))
      BY <2>1, <2>4, ListsNothing DEF AdjInv
    <2> QED
      BY <2>1, <2>2, <2>3, <2>5 DEF AdjInv
  <1>3. CASE FindLeftRights
    <2>1. /\ phase = "adjacent" /\ phase' = "leftRight" /\ i = branchCount /\ adj' = adj
          /\ location' = location /\ n' = n
      BY <1>3 DEF FindLeftRights, net
    <2>2. Pt' = Pt /\ branchCount' = branchCount
      BY <2>1 DEF Pt, branchCount, pinCount
    <2>3. /\ branchCount \in Nat /\ Pt \subseteq Nat
          /\ \A p \in Pt : Neighbours(n, p) = {q \in Pt : Joins(n, p, q)}
      BY PtFacts
    <2>4. \A p \in Pt : p < i
      BY <2>1, <2>3 DEF Pt
    <2>5. \A p \in Pt : Found(Pt, n, p, i) = Neighbours(n, p)
      BY <2>3, <2>4 DEF Found, Joins
    <2>6. \A p \in Pt : Lists(adj[p], Neighbours(n, p))
      BY <2>1, <2>5 DEF AdjInv
    <2> QED
      BY <2>1, <2>2, <2>6 DEF AdjInv
  <1>4. CASE ~FindAdjacent /\ ~TreeIsSet /\ ~FindLeftRights
    <2>1. /\ location' = location /\ n' = n /\ adj' = adj
          /\ \/ phase = "setTree" /\ phase' = "setTree"
             \/ phase \in {"leftRight", "done"} /\ phase' \in {"leftRight", "done"}
             \/ phase = "adjacent" /\ phase' = "adjacent" /\ i' = i
      BY <1>4 DEF Next, AdjInv, vars, net, SetTree, VisitLeft, VisitRight, Visits, Calling,
                  SkipFrom, Return, Finish
    <2>2. Pt' = Pt /\ branchCount' = branchCount
      BY <2>1 DEF Pt, branchCount, pinCount
    <2> QED
      BY <2>1, <2>2 DEF AdjInv
  <1> QED
    BY <1>1, <1>2, <1>3, <1>4

-----------------------------------------------------------------------------
(***************************************************************************)
(* How far a search that goes over one edge after the other has come.      *)
(***************************************************************************)
\* R has been reached, and the rest lies beyond the edges T, each point beyond one of them.
Covers(P, f, R, T) ==
    /\ R \subseteq P /\ T \subseteq P \X P
    /\ \A t \in T : Joins(f, t[1], t[2])
    /\ \A y \in P : y \notin R <=> \E t \in T : y \in Side(P, f, t[1], t[2])
    /\ \A s, t \in T : s # t => Side(P, f, s[1], s[2]) \cap Side(P, f, t[1], t[2]) = {}

EdgesOf(P, f, a, b) == {<<b, c>> : c \in {c \in P : Joins(f, b, c) /\ c # a}}

LEMMA CoversRoot ==
    ASSUME NEW P, NEW f, IsParents(P, f), NEW r \in P, NEW b \in P, Joins(f, r, b),
           \A c \in P : Joins(f, r, c) => c = b
    PROVE  Covers(P, f, {r}, {<<r, b>>})
  <1>1. \A y \in P \ {r} : y \in Side(P, f, r, b)
    BY Around
  <1>2. r \notin Side(P, f, r, b)
    BY Around
  <1> QED
    BY <1>1, <1>2 DEF Covers

\* Going over the edge from a to b reaches b, and leaves the edges on from there.
GoesOver(P, f, R, T, a, b) ==
    b \notin R /\ Covers(P, f, R \cup {b}, (T \ {<<a, b>>}) \cup EdgesOf(P, f, a, b))

LEMMA CoversStep ==
    ASSUME NEW P, NEW f, IsParents(P, f), NEW R, NEW T, Covers(P, f, R, T),
           NEW a, NEW b, <<a, b>> \in T
    PROVE  GoesOver(P, f, R, T, a, b)
  <1> DEFINE N == EdgesOf(P, f, a, b)
             O == T \ {<<a, b>>}
  <1>1. a \in P /\ b \in P /\ Joins(f, a, b)
    BY DEF Covers
  <1>2. /\ b \in Side(P, f, a, b)
        /\ \A y \in P : y \in Side(P, f, a, b) <=>
              y = b \/ \E c \in P : Joins(f, b, c) /\ c # a /\ y \in Side(P, f, b, c)
    BY <1>1, SideSplit
  <1>3. \A t \in N : t = <<b, t[2]>> /\ t[1] = b /\ t[2] \in P /\ Joins(f, b, t[2]) /\ t[2] # a
    BY DEF EdgesOf
  <1>4. \A c \in P : Joins(f, b, c) /\ c # a => <<b, c>> \in N
    BY DEF EdgesOf
  <1> HIDE DEF N
  <1>5. \A y \in P : y \in Side(P, f, a, b) <=> y = b \/ \E t \in N : y \in Side(P, f, t[1], t[2])
    <2>1. \A c : <<b, c>>[1] = b /\ <<b, c>>[2] = c
      OBVIOUS
    <2> QED
      BY <1>2, <1>3, <1>4, <2>1
  <1>6. \A t \in N : b \notin Side(P, f, t[1], t[2]) /\ Side(P, f, t[1], t[2]) \subseteq P
    BY <1>1, <1>3, Around
  <1>7. \A s, t \in N : s # t => Side(P, f, s[1], s[2]) \cap Side(P, f, t[1], t[2]) = {}
    <2> SUFFICES ASSUME NEW s \in N, NEW t \in N, s # t
                 PROVE  Side(P, f, s[1], s[2]) \cap Side(P, f, t[1], t[2]) = {}
      OBVIOUS
    <2>1. s[2] # t[2] /\ s[1] = b /\ t[1] = b
      BY <1>3
    <2> QED
      BY <1>1, <1>3, <2>1, Around
  <1>8. \A y \in P : y \notin R <=> \E t \in T : y \in Side(P, f, t[1], t[2])
    BY DEF Covers
  <1>9. <<a, b>>[1] = a /\ <<a, b>>[2] = b
    OBVIOUS
  <1>10. \A y \in P : y \notin R <=>
            y \in Side(P, f, a, b) \/ \E t \in O : y \in Side(P, f, t[1], t[2])
    BY <1>8, <1>9
  <1>11. \A t \in O : Side(P, f, a, b) \cap Side(P, f, t[1], t[2]) = {}
    BY <1>9 DEF Covers
  <1>12. b \notin R
    BY <1>1, <1>2, <1>10
  <1> DEFINE B(t) == Side(P, f, t[1], t[2])
             A == Side(P, f, a, b)
  <1>13. \A s, t \in O \cup N : s # t => B(s) \cap B(t) = {}
    <2>1. \A s, t \in O : s # t => B(s) \cap B(t) = {}
      BY DEF Covers
    <2>2. \A s \in O, t \in N : B(s) \cap B(t) = {}
      BY <1>5, <1>6, <1>11
    <2> HIDE DEF B, O
    <2>3. \A s, t \in N : s # t => B(s) \cap B(t) = {}
      BY <1>7 DEF B
    <2> QED
      BY <2>1, <2>2, <2>3
  <1>14. \A y \in P : y \notin R \cup {b} <=> \E t \in O \cup N : y \in B(t)
    <2>1. \A y \in P : y \in A <=> y = b \/ \E t \in N : y \in B(t)
      BY <1>5
    <2>2. \A t \in N : b \notin B(t)
      BY <1>6
    <2>3. \A t \in O : A \cap B(t) = {}
      BY <1>11
    <2>4. \A y \in P : y \notin R <=> y \in A \/ \E t \in O : y \in B(t)
      BY <1>10
    <2>5. b \in A
      BY <1>2
    <2> HIDE DEF A, B, O
    <2> QED
      BY <2>1, <2>2, <2>3, <2>4, <2>5
  <1>15. O \cup N \subseteq P \X P /\ \A t \in O \cup N : Joins(f, t[1], t[2])
    <2>1. O \subseteq P \X P /\ \A t \in O : Joins(f, t[1], t[2])
      BY DEF Covers
    <2>2. \A t \in N : t \in P \X P
      BY <1>1, <1>3
    <2> QED
      BY <1>3, <2>1, <2>2
  <1>16. R \cup {b} \subseteq P
    BY <1>1 DEF Covers
  <1> HIDE DEF O
  <1> QED
    BY <1>12, <1>13, <1>14, <1>15, <1>16 DEF Covers, GoesOver, N, O

-----------------------------------------------------------------------------
(***************************************************************************)
(* The binary tree that grows by a child at a time.                        *)
(***************************************************************************)
\* What the children lead to from r.
ReachOf(P, r, l, rt) ==
    {x \in P : \A S \in SUBSET P :
                  r \in S /\ (\A p \in S : Children(l, rt, p) \subseteq S) => x \in S}

LEMMA ReachFacts ==
    ASSUME NEW P, NEW r \in P, NEW l, NEW rt, \A p \in P : Children(l, rt, p) \subseteq P
    PROVE  /\ ReachOf(P, r, l, rt) \subseteq P /\ r \in ReachOf(P, r, l, rt)
           /\ \A p \in ReachOf(P, r, l, rt) : Children(l, rt, p) \subseteq ReachOf(P, r, l, rt)
           /\ \A S \in SUBSET P : r \in S /\ (\A p \in S : Children(l, rt, p) \subseteq S)
                                     => ReachOf(P, r, l, rt) \subseteq S
  BY DEF ReachOf

LEMMA ReachGrows ==
    ASSUME NEW P, NEW r \in P, NEW l, NEW rt, \A x \in P : Children(l, rt, x) \subseteq P,
           NEW l2, NEW rt2, NEW p \in ReachOf(P, r, l, rt), NEW q \in P, p # q,
           Children(l, rt, q) = {}, Children(l2, rt2, p) = Children(l, rt, p) \cup {q},
           \A x \in P \ {p} : Children(l2, rt2, x) = Children(l, rt, x)
    PROVE  ReachOf(P, r, l2, rt2) = ReachOf(P, r, l, rt) \cup {q}
  <1> DEFINE R == ReachOf(P, r, l, rt)
             R2 == ReachOf(P, r, l2, rt2)
             C(x) == Children(l, rt, x)
             C2(x) == Children(l2, rt2, x)
  <1>1. /\ R \subseteq P /\ r \in R /\ \A x \in R : C(x) \subseteq R
        /\ \A S \in SUBSET P : r \in S /\ (\A x \in S : C(x) \subseteq S) => R \subseteq S
    BY ReachFacts
  <1>2. \A x \in P : C2(x) \subseteq P
    BY <1>1
  <1>3. /\ R2 \subseteq P /\ r \in R2 /\ \A x \in R2 : C2(x) \subseteq R2
        /\ \A S \in SUBSET P : r \in S /\ (\A x \in S : C2(x) \subseteq S) => R2 \subseteq S
    BY <1>2, ReachFacts
  <1>4. p \in R /\ C(q) = {} /\ C2(p) = C(p) \cup {q} /\ \A x \in P \ {p} : C2(x) = C(x)
    OBVIOUS
  <1> HIDE DEF R, R2, C, C2
  <1>5. R \subseteq R2
    <2>1. \A x \in R2 : C(x) \subseteq R2
      BY <1>3, <1>4
    <2> QED
      BY <1>1, <1>3, <2>1
  <1>6. q \in R2
    BY <1>3, <1>4, <1>5
  <1>7. R2 \subseteq R \cup {q}
    <2> DEFINE S == R \cup {q}
    <2>1. S \in SUBSET P /\ r \in S
      BY <1>1
    <2>2. \A x \in S : C2(x) \subseteq S
      BY <1>1, <1>4
    <2> HIDE DEF S
    <2>3. R2 \subseteq S
      BY <1>3, <2>1, <2>2
    <2> QED
      BY <2>3 DEF S
  <1> QED
    BY <1>5, <1>6, <1>7 DEF R, R2

-----------------------------------------------------------------------------
\* The tree whose children have been found so far.
TreeSoFar(P, pins, r, f, l, rt, R) ==
    /\ l \in [P -> P \cup {NoPt}] /\ rt \in [P -> P \cup {NoPt}]
    /\ R = ReachOf(P, r, l, rt)
    /\ \A p \in P : \A q \in Children(l, rt, p) : Joins(f, p, q) /\ q # r /\ q \in R
    /\ \A p, q \in P : p # q => Children(l, rt, p) \cap Children(l, rt, q) = {}
    /\ \A x \in R \ {r} : \E p \in P : x \in Children(l, rt, p)
    /\ \A p \in P : l[p] = NoPt \/ l[p] # rt[p]
    /\ \A p \in P \ R : l[p] = NoPt /\ rt[p] = NoPt
    /\ \A p \in pins : rt[p] = NoPt /\ (p # r => l[p] = NoPt)

LEMMA NoTreeYet ==
    ASSUME NEW P, NoPt \notin P, NEW pins, pins \subseteq P, NEW r \in P, NEW f
    PROVE  TreeSoFar(P, pins, r, f, [p \in P |-> NoPt], [p \in P |-> NoPt], {r})
  <1> DEFINE l == [p \in P |-> NoPt]
  <1>1. l \in [P -> P \cup {NoPt}] /\ \A p \in P : l[p] = NoPt
    OBVIOUS
  <1>2. \A p \in P : Children(l, l, p) = {}
    BY <1>1 DEF Children
  <1> HIDE DEF l
  <1>3. ReachOf(P, r, l, l) = {r}
    <2>1. /\ r \in ReachOf(P, r, l, l)
          /\ \A S \in SUBSET P : r \in S /\ (\A p \in S : Children(l, l, p) \subseteq S)
                                    => ReachOf(P, r, l, l) \subseteq S
      BY <1>2, ReachFacts
    <2>2. {r} \in SUBSET P
      OBVIOUS
    <2> QED
      BY <1>2, <2>1, <2>2
  <1> QED
    BY <1>1, <1>2, <1>3 DEF TreeSoFar, l

LEMMA TreeGrows ==
    ASSUME NEW P, NoPt \notin P, NEW pins, pins \subseteq P, NEW r \in P, NEW f, NEW l, NEW rt,
           NEW R, TreeSoFar(P, pins, r, f, l, rt, R),
           NEW p \in R, NEW q \in P, q \notin R, Joins(f, p, q), NEW l2, NEW rt2,
           \/ l[p] = NoPt /\ (p \in pins => p = r)
              /\ l2 = [l EXCEPT ![p] = q] /\ rt2 = rt
           \/ rt[p] = NoPt /\ p \notin pins /\ rt2 = [rt EXCEPT ![p] = q] /\ l2 = l
    PROVE  TreeSoFar(P, pins, r, f, l2, rt2, R \cup {q})
  <1> DEFINE C(x) == Children(l, rt, x)
             C2(x) == Children(l2, rt2, x)
  <1>1. /\ l \in [P -> P \cup {NoPt}] /\ rt \in [P -> P \cup {NoPt}]
        /\ R = ReachOf(P, r, l, rt)
        /\ \A x \in P : C(x) = {l[x], rt[x]} \ {NoPt} /\ C(x) \subseteq P
        /\ \A x \in P : C2(x) = {l2[x], rt2[x]} \ {NoPt}
    BY DEF TreeSoFar, Children
  <1>2. R \subseteq P /\ r \in R /\ p # q /\ p \in P /\ q # NoPt /\ q # r
    BY <1>1, ReachFacts
  <1>3. /\ l2 \in [P -> P \cup {NoPt}] /\ rt2 \in [P -> P \cup {NoPt}]
        /\ \A x \in P \ {p} : l2[x] = l[x] /\ rt2[x] = rt[x]
        /\ \/ l[p] = NoPt /\ l2[p] = q /\ rt2[p] = rt[p] /\ (p \in pins => p = r)
           \/ rt[p] = NoPt /\ p \notin pins /\ l2[p] = l[p] /\ rt2[p] = q
    BY <1>1, <1>2
  <1>4. l[q] = NoPt /\ rt[q] = NoPt
    BY DEF TreeSoFar
  <1>5. \A x \in P : C(x) \subseteq R
    BY DEF TreeSoFar
  <1> HIDE DEF C, C2
  <1>6. /\ \A x \in P \ {p} : C2(x) = C(x)
        /\ C2(p) = C(p) \cup {q} /\ C(q) = {}
    <2>1. \A x \in P \ {p} : C2(x) = C(x)
      BY <1>1, <1>3
    <2>2. C2(p) = C(p) \cup {q}
      BY <1>1, <1>2, <1>3
    <2>3. C(q) = {}
      BY <1>1, <1>4
    <2> QED
      BY <2>1, <2>2, <2>3
  <1>7. R \cup {q} = ReachOf(P, r, l2, rt2)
    BY <1>1, <1>2, <1>6, ReachGrows DEF C, C2
  <1>8. \A x \in P : \A y \in C2(x) : Joins(f, x, y) /\ y # r /\ y \in R \cup {q}
    <2>1. \A x \in P : \A y \in C(x) : Joins(f, x, y) /\ y # r /\ y \in R
      BY DEF TreeSoFar, C
    <2> QED
      BY <1>2, <1>6, <2>1
  <1>9. \A x, y \in P : x # y => C2(x) \cap C2(y) = {}
    <2>1. \A x, y \in P : x # y => C(x) \cap C(y) = {}
      BY DEF TreeSoFar, C
    <2> QED
      BY <1>5, <1>6, <2>1
  <1>10. \A x \in (R \cup {q}) \ {r} : \E y \in P : x \in C2(y)
    <2>1. \A x \in R \ {r} : \E y \in P : x \in C(y)
      BY DEF TreeSoFar, C
    <2> QED
      BY <1>2, <1>6, <2>1
  <1>11. \A x \in P : l2[x] = NoPt \/ l2[x] # rt2[x]
    <2>1. \A x \in P : l[x] = NoPt \/ l[x] # rt[x]
      BY DEF TreeSoFar
    <2>2. (l[p] # NoPt => l[p] \in R) /\ (rt[p] # NoPt => rt[p] \in R)
      BY <1>1, <1>2, <1>5
    <2> QED
      BY <1>2, <1>3, <2>1, <2>2
  <1>12. \A x \in P \ (R \cup {q}) : l2[x] = NoPt /\ rt2[x] = NoPt
    BY <1>3 DEF TreeSoFar
  <1>13. \A x \in pins : rt2[x] = NoPt /\ (x # r => l2[x] = NoPt)
    BY <1>3 DEF TreeSoFar
  <1> QED
    BY <1>3, <1>7, <1>8, <1>9, <1>10, <1>11, <1>12, <1>13 DEF TreeSoFar, C, C2

-----------------------------------------------------------------------------
(***************************************************************************)
(* The calls of findLeftRights that have not returned.                     *)
(***************************************************************************)
Frame(P) == [from : P, to : P, k : Nat \ {0}]

\* The edges that a call, or the calls s, have not come to.
Ahead(a, c) ==
    {<<c.to, a[c.to][m]>> : m \in {m \in c.k..Len(a[c.to]) : a[c.to][m] # c.from}}
AheadOf(a, s) == UNION {Ahead(a, s[j]) : j \in 1..Len(s)}

\* A neighbour that the call has passed is a child, and the second one is the right child.
Seen(a, l, rt, c) ==
    /\ \A m \in 1..c.k - 1 : a[c.to][m] # c.from => l[c.to] # NoPt
    /\ \A m1, m2 \in 1..c.k - 1 :
          m1 # m2 /\ a[c.to][m1] # c.from /\ a[c.to][m2] # c.from => rt[c.to] # NoPt

Calls(P, pins, f, a, l, rt, R, s) ==
    /\ s \in Seq(Frame(P))
    /\ \A j \in 1..Len(s) : Joins(f, s[j].from, s[j].to) /\ s[j].to \in R /\ Seen(a, l, rt, s[j])
    /\ \A j, m \in 1..Len(s) : s[j].to = s[m].to => j = m
    /\ \A p \in R \ pins : (\A j \in 1..Len(s) : s[j].to # p) => l[p] # NoPt /\ rt[p] # NoPt

AllListed(P, f, a) == \A p \in P : Lists(a[p], {q \in P : Joins(f, p, q)})

LEMMA ListedFacts ==
    ASSUME NEW P, NEW f, NEW a, AllListed(P, f, a), NEW p \in P
    PROVE  /\ Len(a[p]) \in Nat
           /\ \A m \in 1..Len(a[p]) : a[p][m] \in P /\ Joins(f, p, a[p][m])
           /\ \A j, m \in 1..Len(a[p]) : a[p][j] = a[p][m] => j = m
           /\ \A q \in P : Joins(f, p, q) => \E m \in 1..Len(a[p]) : a[p][m] = q
  <1> DEFINE s == a[p]
             N == {q \in P : Joins(f, p, q)}
  <1>1. Lists(s, N)
    BY DEF AllListed
  <1>2. \A q : q \in N <=> q \in P /\ Joins(f, p, q)
    OBVIOUS
  <1> HIDE DEF s, N
  <1>3. /\ Len(s) \in Nat /\ \A m \in 1..Len(s) : s[m] \in N
        /\ \A j, m \in 1..Len(s) : s[j] = s[m] => j = m
        /\ \A q \in N : \E m \in 1..Len(s) : s[m] = q
    BY <1>1 DEF Lists
  <1> QED
    BY <1>2, <1>3 DEF s

\* The call d is c after it has come to its next neighbour.
Passes(P, f, a, c, d) ==
    LET q == a[c.to][c.k]
    IN /\ q \in P /\ Joins(f, c.to, q)
       /\ q = c.from => Ahead(a, d) = Ahead(a, c)
       /\ q # c.from => <<c.to, q>> \in Ahead(a, c) /\ Ahead(a, d) = Ahead(a, c) \ {<<c.to, q>>}

LEMMA AheadFirst ==
    ASSUME NEW P, NEW f, NEW a, AllListed(P, f, a), NEW c \in Frame(P), c.k <= Len(a[c.to]),
           NEW d \in Frame(P), d.from = c.from, d.to = c.to, d.k = c.k + 1
    PROVE  Passes(P, f, a, c, d)
  <1> DEFINE q == a[c.to][c.k]
  <1> DEFINE s == a[c.to]
             k == c.k
  <1>1. c.to \in P /\ k \in Nat \ {0}
    BY DEF Frame
  <1>2. d.from = c.from /\ d.to = c.to /\ d.k = k + 1
    OBVIOUS
  <1>3. /\ Len(s) \in Nat /\ \A m \in 1..Len(s) : s[m] \in P /\ Joins(f, c.to, s[m])
        /\ \A j, m \in 1..Len(s) : s[j] = s[m] => j = m
    BY <1>1, ListedFacts
  <1>4. k \in 1..Len(s) /\ q = s[k]
    BY <1>1, <1>3
  <1> HIDE DEF q
  <1>5. q \in P /\ Joins(f, c.to, q)
    <2> HIDE DEF s, k
    <2> QED
      BY <1>3, <1>4
  <1>6. /\ Ahead(a, c) = {<<c.to, s[m]>> : m \in {m \in k..Len(s) : s[m] # c.from}}
        /\ Ahead(a, d) = {<<c.to, s[m]>> : m \in {m \in (k + 1)..Len(s) : s[m] # c.from}}
    BY <1>2 DEF Ahead
  <1> HIDE DEF s, k
  <1>7. /\ k..Len(s) = {k} \cup (k + 1)..Len(s) /\ k \in 1..Len(s)
        /\ \A m \in (k + 1)..Len(s) : m \in 1..Len(s) /\ m # k
    BY <1>1, <1>3, <1>4
  <1>8. q = c.from => Ahead(a, d) = Ahead(a, c)
    <2> SUFFICES ASSUME q = c.from PROVE Ahead(a, d) = Ahead(a, c)
      OBVIOUS
    <2>1. {m \in (k + 1)..Len(s) : s[m] # c.from} = {m \in k..Len(s) : s[m] # c.from}
      BY <1>4, <1>7
    <2> QED
      BY <1>6, <2>1
  <1>9. ASSUME q # c.from
        PROVE  <<c.to, q>> \in Ahead(a, c) /\ Ahead(a, d) = Ahead(a, c) \ {<<c.to, q>>}
    <2> DEFINE M == {m \in (k + 1)..Len(s) : s[m] # c.from}
    <2>1. {m \in k..Len(s) : s[m] # c.from} = {k} \cup M
      BY <1>4, <1>7, <1>9
    <2>2. \A m \in M : s[m] # s[k]
      BY <1>3, <1>7
    <2>3. /\ Ahead(a, c) = {<<c.to, s[m]>> : m \in {k} \cup M}
          /\ Ahead(a, d) = {<<c.to, s[m]>> : m \in M}
      BY <1>6, <2>1
    <2> HIDE DEF M
    <2>4. \A x, y : <<c.to, x>> = <<c.to, y>> => x = y
      OBVIOUS
    <2>5. <<c.to, q>> \in Ahead(a, c)
      BY <1>4, <2>3
    <2>6. \A t : t \in Ahead(a, d) <=> t \in Ahead(a, c) /\ t # <<c.to, q>>
      BY <1>4, <2>2, <2>3, <2>4
    <2> QED
      BY <2>5, <2>6
  <1> QED
    BY <1>2, <1>5, <1>8, <1>9 DEF Passes, q

LEMMA AheadNew ==
    ASSUME NEW P, NEW f, NEW a, AllListed(P, f, a), NEW p \in P, NEW q \in P, NEW c,
           c = [from |-> p, to |-> q, k |-> 1]
    PROVE  c \in Frame(P) /\ Ahead(a, c) = EdgesOf(P, f, p, q)
  <1> DEFINE s == a[q]
             N == {y \in P : Joins(f, q, y)}
  <1>1. c \in Frame(P) /\ c.from = p /\ c.to = q /\ c.k = 1
    BY DEF Frame
  <1>2. Ahead(a, c) = {<<q, s[m]>> : m \in {m \in 1..Len(s) : s[m] # p}}
    BY <1>1 DEF Ahead
  <1>3. (\A m \in 1..Len(s) : s[m] \in N) /\ (\A x \in N : \E m \in 1..Len(s) : s[m] = x)
    BY ListedFacts
  <1>4. EdgesOf(P, f, p, q) = {<<q, y>> : y \in {y \in N : y # p}}
    BY DEF EdgesOf
  <1> HIDE DEF s, N
  <1> QED
    BY <1>1, <1>2, <1>3, <1>4

LEMMA AheadIs ==
    ASSUME NEW a, NEW s
    PROVE  /\ \A t : t \in AheadOf(a, s) <=> \E j \in 1..Len(s) : t \in Ahead(a, s[j])
           /\ \A c : \A t \in Ahead(a, c) : t[1] = c.to
  <1>1. \A c : \A t \in Ahead(a, c) : t[1] = c.to
    BY DEF Ahead
  <1>2. \A t : t \in AheadOf(a, s) <=> \E j \in 1..Len(s) : t \in Ahead(a, s[j])
    BY DEF AheadOf
  <1> QED
    BY <1>1, <1>2

\* t is s with x on top.
WithTop(X, s, t, x) ==
    /\ t \in Seq(X) /\ Len(t) = Len(s) /\ t[Len(s)] = x
    /\ \A j \in 1..Len(s) : j # Len(s) => t[j] = s[j]

LEMMA TopReplaced ==
    ASSUME NEW X, NEW s \in Seq(X), s # << >>, NEW b, b = SubSeq(s, 1, Len(s) - 1)
    PROVE  \A x \in X : WithTop(X, s, Append(b, x), x)
  <1> DEFINE h == Len(s)
  <1>1. h = Len(s) /\ h \in Nat \ {0} /\ b = SubSeq(s, 1, h - 1)
    OBVIOUS
  <1> HIDE DEF h
  <1>2. /\ b \in Seq(X) /\ Len(b) = h - 1
        /\ \A k \in 1..Len(b) : b[k] = s[k]
        /\ \A k \in 1..h : k # h => k \in 1..Len(b)
    BY <1>1, WithoutLast
  <1> TAKE x \in X
  <1>3. /\ Append(b, x) \in Seq(X) /\ Len(Append(b, x)) = Len(b) + 1 /\ Append(b, x)[Len(b) + 1] = x
        /\ \A k \in 1..Len(b) : Append(b, x)[k] = b[k]
    BY <1>2
  <1>4. Len(b) + 1 = h
    BY <1>1, <1>2
  <1>5. /\ Len(Append(b, x)) = h /\ Append(b, x)[h] = x
        /\ \A k \in 1..h : k # h => Append(b, x)[k] = s[k]
    BY <1>2, <1>3, <1>4
  <1> QED
    BY <1>3, <1>5 DEF WithTop, h

\* t is s with the call d in place of c on top.
Advanced(P, s, t, c, d) ==
    /\ c = s[Len(s)] /\ d \in Frame(P)
    /\ d.from = c.from /\ d.to = c.to /\ d.k = c.k + 1
    /\ WithTop(Frame(P), s, t, d)

LEMMA CallsSkip ==
    ASSUME NEW P, NEW pins, NEW f, NEW a, AllListed(P, f, a), NEW l, NEW rt, NEW R, NEW s,
           Calls(P, pins, f, a, l, rt, R, s), s # << >>,
           NEW c, NEW d, NEW t, Advanced(P, s, t, c, d),
           c.k <= Len(a[c.to]), a[c.to][c.k] = c.from
    PROVE  Calls(P, pins, f, a, l, rt, R, t) /\ AheadOf(a, t) = AheadOf(a, s)
  <1> DEFINE h == Len(s)
  <1>1. s \in Seq(Frame(P)) /\ h \in 1..h
    BY DEF Calls
  <1>3. /\ t \in Seq(Frame(P)) /\ Len(t) = h /\ t[h] = d /\ c = s[h] /\ d \in Frame(P)
        /\ d.from = c.from /\ d.to = c.to /\ d.k = c.k + 1
        /\ \A j \in 1..h : j # h => t[j] = s[j]
    BY DEF Advanced, WithTop
  <1>0. c \in Frame(P)
    BY <1>1, <1>3
  <1>2. Ahead(a, d) = Ahead(a, c)
    <2>1. /\ d \in Frame(P) /\ d.from = c.from /\ d.to = c.to /\ d.k = c.k + 1
          /\ c.k <= Len(a[c.to]) /\ a[c.to][c.k] = c.from
      BY <1>3
    <2>2. Passes(P, f, a, c, d)
      BY <1>0, <2>1, AheadFirst
    <2> QED
      BY <2>1, <2>2 DEF Passes
  <1> HIDE DEF h
  <1>4. s[h] = c
    BY <1>3
  <1>5. Seen(a, l, rt, d)
    <2>1. Seen(a, l, rt, c)
      BY <1>1, <1>4 DEF Calls, h
    <2>2. \A m \in 1..d.k - 1 : m \in 1..c.k - 1 \/ m = c.k
      BY <1>0, <1>3 DEF Frame
    <2>3. /\ d.to = c.to /\ d.from = c.from
          /\ \A m \in 1..c.k - 1 : a[c.to][m] # c.from => l[c.to] # NoPt
          /\ \A m1, m2 \in 1..c.k - 1 :
                m1 # m2 /\ a[c.to][m1] # c.from /\ a[c.to][m2] # c.from => rt[c.to] # NoPt
          /\ a[c.to][c.k] = c.from
      BY <1>3, <2>1 DEF Seen
    <2> QED
      BY <2>2, <2>3, Zenon DEF Seen
  <1>6. /\ \A j \in 1..h : Joins(f, s[j].from, s[j].to) /\ s[j].to \in R /\ Seen(a, l, rt, s[j])
        /\ \A j, m \in 1..h : s[j].to = s[m].to => j = m
        /\ \A p \in R \ pins : (\A j \in 1..h : s[j].to # p) => l[p] # NoPt /\ rt[p] # NoPt
    BY DEF Calls, h
  <1>7. /\ \A j \in 1..h : Ahead(a, t[j]) = Ahead(a, s[j]) /\ t[j].to = s[j].to
        /\ \A j \in 1..h : Joins(f, t[j].from, t[j].to) /\ t[j].to \in R /\ Seen(a, l, rt, t[j])
    BY <1>2, <1>3, <1>4, <1>5, <1>6
  <1>8. AheadOf(a, t) = AheadOf(a, s)
    <2>1. \A x : x \in AheadOf(a, t) <=> \E j \in 1..Len(t) : x \in Ahead(a, t[j])
      BY AheadIs
    <2>2. \A x : x \in AheadOf(a, s) <=> \E j \in 1..h : x \in Ahead(a, s[j])
      BY AheadIs DEF h
    <2> QED
      BY <1>3, <1>7, <2>1, <2>2
  <1> QED
    BY <1>3, <1>6, <1>7, <1>8 DEF Calls

\* t is s without the call c on top.
Popped(s, t, c) == s # << >> /\ c = s[Len(s)] /\ t = SubSeq(s, 1, Len(s) - 1)

LEMMA CallsReturn ==
    ASSUME NEW P, NEW pins, NEW f, NEW a, AllListed(P, f, a), NEW l, NEW rt, NEW R, NEW s,
           Calls(P, pins, f, a, l, rt, R, s),
           \A p \in pins : \A x, y \in P : Joins(f, p, x) /\ Joins(f, p, y) => x = y,
           \A p \in P \ pins : Len(a[p]) = 3,
           NEW c, c.to \in pins \/ c.k > Len(a[c.to]), NEW t, Popped(s, t, c)
    PROVE  Calls(P, pins, f, a, l, rt, R, t) /\ AheadOf(a, t) = AheadOf(a, s)
  <1> DEFINE h == Len(s)
             g == Len(t)
  <1>0. s # << >> /\ c = s[Len(s)] /\ t = SubSeq(s, 1, Len(s) - 1)
    BY DEF Popped
  <1>1. s \in Seq(Frame(P)) /\ h \in 1..h /\ c \in Frame(P)
    BY <1>0 DEF Calls
  <1>2. /\ t \in Seq(Frame(P))
        /\ \A j \in 1..g : t[j] = s[j] /\ j \in 1..h /\ j # h
        /\ \A j \in 1..h : j # h => j \in 1..g
    BY <1>0, <1>1, WithoutLast
  <1> HIDE DEF h, g
  <1>3. s[h] = c
    BY <1>0 DEF h
  <1>4. /\ \A j \in 1..h : Joins(f, s[j].from, s[j].to) /\ s[j].to \in R /\ Seen(a, l, rt, s[j])
        /\ \A j, m \in 1..h : s[j].to = s[m].to => j = m
        /\ \A p \in R \ pins : (\A j \in 1..h : s[j].to # p) => l[p] # NoPt /\ rt[p] # NoPt
    BY DEF Calls, h
  <1>5. /\ Joins(f, c.from, c.to) /\ Seen(a, l, rt, c)
        /\ c.to \in P /\ c.from \in P /\ c.k \in Nat
    BY <1>1, <1>3, <1>4 DEF Frame
  <1>6. /\ Len(a[c.to]) \in Nat
        /\ \A m \in 1..Len(a[c.to]) : a[c.to][m] \in P /\ Joins(f, c.to, a[c.to][m])
        /\ \A j, m \in 1..Len(a[c.to]) : a[c.to][j] = a[c.to][m] => j = m
    BY <1>5, ListedFacts
  <1>7. Ahead(a, c) = {}
    <2>1. CASE c.to \in pins
      <3>1. Joins(f, c.to, c.from)
        BY <1>5 DEF Joins
      <3>2. \A m \in 1..Len(a[c.to]) : a[c.to][m] = c.from
        BY <1>5, <1>6, <2>1, <3>1
      <3>3. \A m \in c.k..Len(a[c.to]) : m \in 1..Len(a[c.to])
        BY <1>1, <1>6 DEF Frame
      <3> QED
        BY <3>2, <3>3 DEF Ahead
    <2>2. CASE c.k > Len(a[c.to])
      <3>1. c.k..Len(a[c.to]) = {}
        BY <1>5, <1>6, <2>2
      <3> QED
        BY <3>1 DEF Ahead
    <2> QED
      BY <2>1, <2>2
  <1>8. ASSUME c.to \notin pins PROVE l[c.to] # NoPt /\ rt[c.to] # NoPt
    <2> DEFINE b == a[c.to]
    <2>1. Len(b) = 3 /\ c.k > 3
      BY <1>5, <1>8
    <2>2. 1 \in 1..c.k - 1 /\ 2 \in 1..c.k - 1 /\ 3 \in 1..c.k - 1
      BY <1>5, <2>1
    <2>3. b[1] # b[2] /\ b[1] # b[3] /\ b[2] # b[3]
      <3>1. 1 \in 1..Len(b) /\ 2 \in 1..Len(b) /\ 3 \in 1..Len(b) /\ 1 # 2 /\ 1 # 3 /\ 2 # 3
        BY <2>1
      <3> QED
        BY <1>6, <3>1
    <2>4. \E m1, m2 \in 1..c.k - 1 : m1 # m2 /\ b[m1] # c.from /\ b[m2] # c.from
      <3>1. CASE b[1] = c.from
        <4>1. 2 # 3 /\ b[2] # c.from /\ b[3] # c.from
          BY <2>3, <3>1
        <4> QED
          BY <2>2, <4>1
      <3>2. CASE b[2] = c.from
        <4>1. 1 # 3 /\ b[1] # c.from /\ b[3] # c.from
          BY <2>3, <3>2
        <4> QED
          BY <2>2, <4>1
      <3>3. CASE b[1] # c.from /\ b[2] # c.from
        <4>1. 1 # 2
          OBVIOUS
        <4> QED
          BY <2>2, <3>3, <4>1
      <3> QED
        BY <3>1, <3>2, <3>3
    <2> QED
      BY <1>5, <2>4 DEF Seen
  <1>9. AheadOf(a, t) = AheadOf(a, s)
    <2>1. \A x : x \in AheadOf(a, t) <=> \E j \in 1..g : x \in Ahead(a, t[j])
      BY AheadIs DEF g
    <2>2. \A x : x \in AheadOf(a, s) <=> \E j \in 1..h : x \in Ahead(a, s[j])
      BY AheadIs DEF h
    <2>3. ASSUME NEW x, NEW j \in 1..h, x \in Ahead(a, s[j])
          PROVE  \E m \in 1..g : x \in Ahead(a, t[m])
      <3>1. j # h
        <4>1. CASE j = h
          BY <1>3, <1>7, <2>3, <4>1, Zenon
        <4> QED
          BY <4>1
      <3>2. j \in 1..g /\ t[j] = s[j]
        BY <1>2, <3>1, Zenon
      <3> QED
        BY <2>3, <3>2, Zenon
    <2>4. ASSUME NEW x, NEW j \in 1..g, x \in Ahead(a, t[j])
          PROVE  \E m \in 1..h : x \in Ahead(a, s[m])
      <3>1. j \in 1..h /\ t[j] = s[j]
        BY <1>2, Zenon
      <3> QED
        BY <2>4, <3>1, Zenon
    <2>5. \A x : x \in AheadOf(a, t) <=> x \in AheadOf(a, s)
      BY <2>1, <2>2, <2>3, <2>4, Zenon
    <2> QED
      BY <2>5, Zenon
  <1>10. \A p \in R \ pins : (\A j \in 1..g : t[j].to # p) => l[p] # NoPt /\ rt[p] # NoPt
    BY <1>2, <1>3, <1>4, <1>8
  <1>11. /\ \A j \in 1..g : Joins(f, t[j].from, t[j].to) /\ t[j].to \in R /\ Seen(a, l, rt, t[j])
         /\ \A j, m \in 1..g : t[j].to = t[m].to => j = m
    BY <1>2, <1>4
  <1> QED
    BY <1>2, <1>9, <1>10, <1>11 DEF Calls, g

\* t is u with the call e on top of it.
Pushed(P, u, t, e) ==
    /\ e \in Frame(P) /\ t \in Seq(Frame(P)) /\ Len(t) = Len(u) + 1 /\ t[Len(u) + 1] = e
    /\ \A j \in 1..Len(u) : t[j] = u[j]

\* The edges left after the one from p to q has been taken.
Takes(P, f, p, q, A, B) == <<p, q>> \in A /\ B = (A \ {<<p, q>>}) \cup EdgesOf(P, f, p, q)

LEMMA AheadVisit ==
    ASSUME NEW P, NEW pins, NEW f, NEW a, AllListed(P, f, a), NEW l, NEW rt, NEW R, NEW s,
           Calls(P, pins, f, a, l, rt, R, s), s # << >>,
           NEW c, NEW d, NEW u, Advanced(P, s, u, c, d), c.k <= Len(a[c.to]),
           NEW q, q = a[c.to][c.k], q # c.from, NEW t, NEW e, Pushed(P, u, t, e),
           e = [from |-> c.to, to |-> q, k |-> 1]
    PROVE  Takes(P, f, c.to, q, AheadOf(a, s), AheadOf(a, t))
  <1> DEFINE h == Len(s)
             p == c.to
  <1>1. s \in Seq(Frame(P)) /\ h \in 1..h /\ h \in Nat
    BY DEF Calls
  <1>2. /\ Len(u) = h /\ u[h] = d /\ c = s[h] /\ d \in Frame(P)
        /\ d.from = c.from /\ d.to = c.to /\ d.k = c.k + 1
        /\ \A j \in 1..h : j # h => u[j] = s[j]
    BY DEF Advanced, WithTop
  <1>3. /\ Len(t) = h + 1 /\ t[h + 1] = e /\ \A j \in 1..h : t[j] = u[j]
    BY <1>2 DEF Pushed
  <1>4. c \in Frame(P) /\ c.to \in P
    <2>1. c \in Frame(P)
      <3> HIDE DEF Frame
      <3>1. \A j \in 1..h : s[j] \in Frame(P)
        BY <1>1
      <3> QED
        BY <1>1, <1>2, <3>1, Zenon
    <2> QED
      BY <2>1 DEF Frame
  <1>5. Passes(P, f, a, c, d)
    BY <1>2, <1>4, AheadFirst
  <1>6. q \in P /\ <<p, q>> \in Ahead(a, c) /\ Ahead(a, d) = Ahead(a, c) \ {<<p, q>>}
    BY <1>5 DEF Passes
  <1>7. Ahead(a, e) = EdgesOf(P, f, p, q)
    BY <1>4, <1>6, AheadNew
  <1>8. \A j \in 1..h : s[j].to = p => j = h
    BY <1>1, <1>2 DEF Calls
  <1>9. \A x : x \in AheadOf(a, s) <=> \E j \in 1..h : x \in Ahead(a, s[j])
    BY AheadIs
  <1>10. \A x : x \in AheadOf(a, t) <=> \E j \in 1..(h + 1) : x \in Ahead(a, t[j])
    <2>1. \A x : x \in AheadOf(a, t) <=> \E j \in 1..Len(t) : x \in Ahead(a, t[j])
      BY AheadIs
    <2> QED
      BY <1>3, <2>1
  <1> HIDE DEF h, p
  <1>11. 1..(h + 1) = 1..h \cup {h + 1}
    BY <1>1
  <1>12. \A j \in 1..h : j # h => <<p, q>> \notin Ahead(a, s[j])
    <2> SUFFICES ASSUME NEW j \in 1..h, <<p, q>> \in Ahead(a, s[j]) PROVE j = h
      OBVIOUS
    <2>1. <<p, q>>[1] = s[j].to
      BY AheadIs
    <2> QED
      BY <1>8, <2>1
  <1>13. \A x : x \in AheadOf(a, t) <=>
            \/ x \in EdgesOf(P, f, p, q)
            \/ x \in Ahead(a, d)
            \/ \E j \in 1..h : j # h /\ x \in Ahead(a, s[j])
    <2>1. \A x : x \in AheadOf(a, t) <=>
             x \in Ahead(a, t[h + 1]) \/ \E j \in 1..h : x \in Ahead(a, t[j])
      BY <1>10, <1>11
    <2>2. \A j \in 1..h : t[j] = IF j = h THEN d ELSE s[j]
      BY <1>2, <1>3
    <2>3. Ahead(a, t[h + 1]) = EdgesOf(P, f, p, q)
      BY <1>3, <1>7
    <2> QED
      BY <1>1, <2>1, <2>2, <2>3
  <1>14. \A x : x \in AheadOf(a, s) <=>
            \/ x \in Ahead(a, c)
            \/ \E j \in 1..h : j # h /\ x \in Ahead(a, s[j])
    BY <1>1, <1>2, <1>9
  <1>15. \A x : x \in AheadOf(a, t) <=> x \in (AheadOf(a, s) \ {<<p, q>>}) \cup EdgesOf(P, f, p, q)
    BY <1>6, <1>12, <1>13, <1>14
  <1>16. <<p, q>> \in AheadOf(a, s)
    BY <1>6, <1>14
  <1> QED
    BY <1>15, <1>16 DEF Takes, p

\* No child of l and rt is lost, and p has the next one in l2 and rt2.
Gains(P, l, rt, l2, rt2, p) ==
    /\ \A x \in P : (l[x] # NoPt => l2[x] # NoPt) /\ (rt[x] # NoPt => rt2[x] # NoPt)
    /\ l2[p] # NoPt
    /\ l[p] # NoPt => rt2[p] # NoPt

LEMMA CallsVisit ==
    ASSUME NEW P, NEW pins, NEW f, NEW a, AllListed(P, f, a), NEW l, NEW rt, NEW R, NEW s,
           Calls(P, pins, f, a, l, rt, R, s), s # << >>,
           NEW c, NEW d, NEW u, Advanced(P, s, u, c, d), c.k <= Len(a[c.to]),
           NEW q, q = a[c.to][c.k], q \notin R, NEW t, NEW e, Pushed(P, u, t, e),
           e = [from |-> c.to, to |-> q, k |-> 1], NEW l2, NEW rt2,
           Gains(P, l, rt, l2, rt2, c.to), R \subseteq P
    PROVE  Calls(P, pins, f, a, l2, rt2, R \cup {q}, t)
  <1> DEFINE h == Len(s)
  <1>0. /\ \A x \in P : (l[x] # NoPt => l2[x] # NoPt) /\ (rt[x] # NoPt => rt2[x] # NoPt)
        /\ l2[c.to] # NoPt /\ (l[c.to] # NoPt => rt2[c.to] # NoPt)
    BY DEF Gains
  <1>1. /\ s \in Seq(Frame(P)) /\ h \in 1..h /\ h \in Nat
        /\ \A j \in 1..h : Joins(f, s[j].from, s[j].to) /\ s[j].to \in R /\ Seen(a, l, rt, s[j])
        /\ \A j, m \in 1..h : s[j].to = s[m].to => j = m
        /\ \A p \in R \ pins : (\A j \in 1..h : s[j].to # p) => l[p] # NoPt /\ rt[p] # NoPt
    BY DEF Calls
  <1>2. /\ Len(u) = h /\ u[h] = d /\ c = s[h] /\ d \in Frame(P)
        /\ d.from = c.from /\ d.to = c.to /\ d.k = c.k + 1
        /\ \A j \in 1..h : j # h => u[j] = s[j]
    BY DEF Advanced, WithTop
  <1>3. /\ t \in Seq(Frame(P)) /\ Len(t) = h + 1 /\ t[h + 1] = e /\ \A j \in 1..h : t[j] = u[j]
    BY <1>2 DEF Pushed
  <1>4. e.from = c.to /\ e.to = q /\ e.k = 1
    OBVIOUS
  <1>5. c \in Frame(P) /\ c.to \in P /\ c.k \in Nat \ {0}
    <2>1. c \in Frame(P)
      <3> HIDE DEF Frame
      <3>1. \A j \in 1..h : s[j] \in Frame(P)
        BY <1>1
      <3> QED
        BY <1>1, <1>2, <3>1, Zenon
    <2> QED
      BY <2>1 DEF Frame
  <1>6. Joins(f, c.to, q)
    <2>1. Passes(P, f, a, c, d)
      BY <1>2, <1>5, AheadFirst
    <2> QED
      BY <2>1 DEF Passes
  <1> HIDE DEF h
  <1>7. 1..(h + 1) = 1..h \cup {h + 1} /\ h + 1 \notin 1..h
    BY <1>1
  <1>8. \A x \in Frame(P) : Seen(a, l, rt, x) => Seen(a, l2, rt2, x)
    BY <1>0 DEF Seen, Frame
  <1>9. Seen(a, l2, rt2, d)
    <2>1. Seen(a, l, rt, c) /\ d.to = c.to /\ d.from = c.from
      BY <1>1, <1>2, Zenon
    <2>2. \A m \in 1..d.k - 1 : m \in 1..c.k - 1 \/ m = c.k
      <3>1. d.k - 1 = c.k
        BY <1>2, <1>5
      <3> QED
        BY <1>5, <3>1
    <2>3. ASSUME NEW m1 \in 1..d.k - 1, NEW m2 \in 1..d.k - 1, m1 # m2,
                 a[d.to][m1] # d.from, a[d.to][m2] # d.from
          PROVE  rt2[d.to] # NoPt
      <3>1. \E m \in 1..c.k - 1 : a[c.to][m] # c.from
        BY <2>1, <2>2, <2>3
      <3> QED
        BY <1>0, <2>1, <3>1 DEF Seen
    <2> QED
      BY <1>0, <2>1, <2>3 DEF Seen
  <1>10. Seen(a, l2, rt2, e)
    <2>1. \A m \in 1..e.k - 1 : FALSE
      BY <1>4
    <2> QED
      BY <2>1 DEF Seen
  <1>11. \A j \in 1..h : s[j] \in Frame(P) /\ t[j].to = s[j].to /\ t[j].from = s[j].from
    <2>1. \A j \in 1..h : s[j] \in Frame(P)
      BY <1>1 DEF h
    <2>2. ASSUME NEW j \in 1..h PROVE t[j].to = s[j].to /\ t[j].from = s[j].from
      <3>1. CASE j = h
        BY <1>2, <1>3, <3>1, Zenon
      <3>2. CASE j # h
        BY <1>2, <1>3, <3>2, Zenon
      <3> QED
        BY <3>1, <3>2
    <2> QED
      BY <2>1, <2>2, Zenon
  <1>12. ASSUME NEW j \in 1..h
         PROVE  Seen(a, l2, rt2, t[j])
    <2>1. CASE j = h
      BY <1>2, <1>3, <1>9, <2>1, Zenon
    <2>2. CASE j # h
      <3>1. Seen(a, l2, rt2, s[j])
        BY <1>1, <1>8, <1>11, Zenon
      <3> QED
        BY <1>2, <1>3, <2>2, <3>1, Zenon
    <2> QED
      BY <2>1, <2>2
  <1>13. \A j \in 1..(h + 1) :
            Joins(f, t[j].from, t[j].to) /\ t[j].to \in R \cup {q} /\ Seen(a, l2, rt2, t[j])
    <2>1. ASSUME NEW j \in 1..h
          PROVE  Joins(f, t[j].from, t[j].to) /\ t[j].to \in R \cup {q}
      BY <1>1, <1>11
    <2>2. /\ Joins(f, t[h + 1].from, t[h + 1].to) /\ t[h + 1].to \in R \cup {q}
          /\ Seen(a, l2, rt2, t[h + 1])
      BY <1>3, <1>4, <1>6, <1>10
    <2>3. \A j \in 1..(h + 1) : j \in 1..h \/ j = h + 1
      BY <1>7
    <2> QED
      BY <1>12, <2>1, <2>2, <2>3, Zenon
  <1>14. \A j, m \in 1..(h + 1) : t[j].to = t[m].to => j = m
    <2>1. \A j \in 1..h : t[j].to \in R
      BY <1>1, <1>11, Zenon
    <2>2. t[h + 1].to = q
      BY <1>3, <1>4, Zenon
    <2>3. \A j \in 1..h : t[j].to # q
      BY <2>1, Zenon
    <2>4. \A j, m \in 1..h : t[j].to = t[m].to => j = m
      BY <1>1, <1>11, Zenon
    <2>5. \A j \in 1..(h + 1) : j \in 1..h \/ j = h + 1
      BY <1>7
    <2> QED
      BY <2>2, <2>3, <2>4, <2>5, Zenon
  <1>15. ASSUME NEW p \in (R \cup {q}) \ pins, \A j \in 1..(h + 1) : t[j].to # p
         PROVE  l2[p] # NoPt /\ rt2[p] # NoPt
    <2>1. p # q
      BY <1>3, <1>4, <1>7, <1>15
    <2>2. \A j \in 1..h : s[j].to # p
      BY <1>7, <1>11, <1>15
    <2>3. p \in R \ pins /\ p \in P
      BY <1>15, <2>1
    <2> QED
      BY <1>0, <1>1, <2>2, <2>3
  <1> QED
    BY <1>3, <1>13, <1>14, <1>15 DEF Calls

LEMMA AdvancedIs ==
    ASSUME NEW P, NEW s \in Seq(Frame(P)), s # << >>, NEW c, c = s[Len(s)],
           NEW d, d = [c EXCEPT !.k = @ + 1]
    PROVE  Advanced(P, s, Append(SubSeq(s, 1, Len(s) - 1), d), c, d)
  <1> DEFINE b == SubSeq(s, 1, Len(s) - 1)
             F == Frame(P)
  <1>1. c \in F
    OBVIOUS
  <1>2. d \in F /\ d.from = c.from /\ d.to = c.to /\ d.k = c.k + 1
    BY <1>1 DEF Frame
  <1>3. b = SubSeq(s, 1, Len(s) - 1) /\ s \in Seq(F)
    OBVIOUS
  <1> HIDE DEF b, F
  <1>4. \A x \in F : WithTop(F, s, Append(b, x), x)
    BY <1>3, TopReplaced
  <1>5. WithTop(F, s, Append(b, d), d)
    BY <1>2, <1>4
  <1> QED
    BY <1>2, <1>5 DEF Advanced, b, F

LEMMA PushedIs ==
    ASSUME NEW P, NEW u \in Seq(Frame(P)), NEW e \in Frame(P)
    PROVE  Pushed(P, u, Append(u, e), e)
  BY DEF Pushed

-----------------------------------------------------------------------------
\* Pins are leaves, the others have three neighbours, and a lists the neighbours.
Graph(P, pins, r, f, a) ==
    /\ IsParents(P, f) /\ NoPt \notin P /\ pins \subseteq P /\ r \in pins /\ AllListed(P, f, a)
    /\ \A p \in pins : Len(a[p]) = 1 /\ \A x, y \in P : Joins(f, p, x) /\ Joins(f, p, y) => x = y
    /\ \A p \in P \ pins : Len(a[p]) = 3

\* The search has found a tree on R and has calls that go on to the rest.
Search(P, pins, r, f, a, l, rt, R, s) ==
    /\ TreeSoFar(P, pins, r, f, l, rt, R) /\ l[r] # NoPt
    /\ Calls(P, pins, f, a, l, rt, R, s)
    /\ Covers(P, f, R, AheadOf(a, s))

LEMMA SearchStarts ==
    ASSUME NEW P, NEW pins, NEW r, NEW f, NEW a, Graph(P, pins, r, f, a), NEW b, b = a[r][1],
           NEW l, l = [p \in P |-> NoPt]
    PROVE  Search(P, pins, r, f, a, [l EXCEPT ![r] = b], l, {r} \cup {b},
                  <<[from |-> r, to |-> b, k |-> 1]>>)
  <1> DEFINE e == [from |-> r, to |-> b, k |-> 1]
             s == <<e>>
             l2 == [l EXCEPT ![r] = b]
  <1>1. /\ IsParents(P, f) /\ NoPt \notin P /\ pins \subseteq P /\ r \in pins /\ r \in P
        /\ AllListed(P, f, a) /\ Len(a[r]) = 1
        /\ \A x, y \in P : Joins(f, r, x) /\ Joins(f, r, y) => x = y
    BY DEF Graph
  <1>2. b \in P /\ Joins(f, r, b) /\ r # b /\ \A c \in P : Joins(f, r, c) => c = b
    <2>1. 1 \in 1..Len(a[r])
      BY <1>1
    <2>2. b \in P /\ Joins(f, r, b)
      BY <1>1, <2>1, ListedFacts
    <2> QED
      BY <1>1, <2>2 DEF Joins
  <1>3. Covers(P, f, {r}, {<<r, b>>})
    BY <1>1, <1>2, CoversRoot
  <1>4. Covers(P, f, {r} \cup {b}, ({<<r, b>>} \ {<<r, b>>}) \cup EdgesOf(P, f, r, b))
    <2> DEFINE T == {<<r, b>>}
               R == {r}
    <2>1. <<r, b>> \in T /\ Covers(P, f, R, T)
      BY <1>3
    <2> HIDE DEF T, R
    <2>2. GoesOver(P, f, R, T, r, b)
      BY <1>1, <2>1, CoversStep
    <2> QED
      BY <2>2 DEF GoesOver, T, R
  <1>5. e \in Frame(P) /\ Ahead(a, e) = EdgesOf(P, f, r, b)
    BY <1>1, <1>2, AheadNew
  <1>6. e.from = r /\ e.to = b /\ e.k = 1
    OBVIOUS
  <1> HIDE DEF e
  <1>7. s \in Seq(Frame(P)) /\ Len(s) = 1 /\ s[1] = e /\ \A j \in 1..Len(s) : j = 1
    BY <1>5
  <1> HIDE DEF s
  <1>8. AheadOf(a, s) = EdgesOf(P, f, r, b)
    <2>1. \A x : x \in AheadOf(a, s) <=> \E j \in 1..Len(s) : x \in Ahead(a, s[j])
      BY AheadIs
    <2>2. 1 \in 1..Len(s) /\ \A j \in 1..Len(s) : s[j] = e
      BY <1>7
    <2>3. \A x : x \in AheadOf(a, s) <=> x \in Ahead(a, e)
      BY <2>1, <2>2
    <2>4. AheadOf(a, s) = Ahead(a, e)
      BY <2>3
    <2> QED
      BY <1>5, <2>4
  <1>9. Covers(P, f, {r} \cup {b}, AheadOf(a, s))
    <2>1. ({<<r, b>>} \ {<<r, b>>}) \cup EdgesOf(P, f, r, b) = EdgesOf(P, f, r, b)
      OBVIOUS
    <2> QED
      BY <1>4, <1>8, <2>1
  <1>10. TreeSoFar(P, pins, r, f, l, l, {r})
    BY <1>1, NoTreeYet
  <1>11. l[r] = NoPt /\ l2 = [l EXCEPT ![r] = b] /\ l2[r] = b
    BY <1>1
  <1> HIDE DEF l2
  <1>12. TreeSoFar(P, pins, r, f, l2, l, {r} \cup {b})
    <2>1. r \in {r} /\ b \notin {r}
      BY <1>2
    <2> QED
      BY <1>1, <1>2, <1>10, <1>11, <2>1, TreeGrows
  <1>13. l2[r] # NoPt
    BY <1>1, <1>2, <1>11
  <1>14. Calls(P, pins, f, a, l2, l, {r} \cup {b}, s)
    <2>1. Seen(a, l2, l, e)
      <3>1. \A m \in 1..e.k - 1 : FALSE
        BY <1>6
      <3> QED
        BY <3>1 DEF Seen
    <2>2. \A j \in 1..Len(s) :
             Joins(f, s[j].from, s[j].to) /\ s[j].to \in {r} \cup {b} /\ Seen(a, l2, l, s[j])
      BY <1>2, <1>6, <1>7, <2>1
    <2>3. \A j, m \in 1..Len(s) : s[j].to = s[m].to => j = m
      BY <1>7
    <2>4. \A p \in ({r} \cup {b}) \ pins : ~ \A j \in 1..Len(s) : s[j].to # p
      BY <1>1, <1>6, <1>7
    <2> QED
      BY <1>7, <2>2, <2>3, <2>4 DEF Calls
  <1>15. Search(P, pins, r, f, a, l2, l, {r} \cup {b}, s)
    BY <1>9, <1>12, <1>13, <1>14 DEF Search
  <1> QED
    BY <1>15 DEF l2, s, e

\* What a visit does to the tree: q becomes the left child of p, or else the right one.
Adopts(l, rt, l2, rt2, p, q) ==
    \/ l[p] = NoPt /\ l2 = [l EXCEPT ![p] = q] /\ rt2 = rt
    \/ l[p] # NoPt /\ rt[p] = NoPt /\ rt2 = [rt EXCEPT ![p] = q] /\ l2 = l

LEMMA SearchVisits ==
    ASSUME NEW P, NEW pins, NEW r, NEW f, NEW a, Graph(P, pins, r, f, a),
           NEW l, NEW rt, NEW R, NEW s, Search(P, pins, r, f, a, l, rt, R, s), s # << >>,
           NEW c, NEW d, NEW u, Advanced(P, s, u, c, d), c.to \notin pins, c.k <= Len(a[c.to]),
           NEW q, q = a[c.to][c.k], q # c.from, NEW t, NEW e, Pushed(P, u, t, e),
           e = [from |-> c.to, to |-> q, k |-> 1], NEW l2, NEW rt2, Adopts(l, rt, l2, rt2, c.to, q)
    PROVE  Search(P, pins, r, f, a, l2, rt2, R \cup {q}, t)
  <1> DEFINE p == c.to
  <1>1. /\ IsParents(P, f) /\ NoPt \notin P /\ pins \subseteq P /\ r \in pins /\ r \in P
        /\ AllListed(P, f, a)
    BY DEF Graph
  <1>2. /\ TreeSoFar(P, pins, r, f, l, rt, R) /\ l[r] # NoPt
        /\ Calls(P, pins, f, a, l, rt, R, s)
        /\ Covers(P, f, R, AheadOf(a, s))
    BY DEF Search
  <1>3. Takes(P, f, p, q, AheadOf(a, s), AheadOf(a, t))
    BY <1>1, <1>2, AheadVisit
  <1>4. /\ <<p, q>> \in AheadOf(a, s)
        /\ AheadOf(a, t) = (AheadOf(a, s) \ {<<p, q>>}) \cup EdgesOf(P, f, p, q)
    BY <1>3 DEF Takes
  <1>5. /\ q \notin R
        /\ Covers(P, f, R \cup {q}, (AheadOf(a, s) \ {<<p, q>>}) \cup EdgesOf(P, f, p, q))
    <2>1. GoesOver(P, f, R, AheadOf(a, s), p, q)
      BY <1>1, <1>2, <1>4, CoversStep
    <2> QED
      BY <2>1 DEF GoesOver
  <1>6. Covers(P, f, R \cup {q}, AheadOf(a, t))
    BY <1>4, <1>5
  <1>7. /\ R \subseteq P /\ p \in P /\ q \in P /\ Joins(f, p, q) /\ p \in R /\ p \notin pins
    <2>1. R \subseteq P /\ \A x \in AheadOf(a, s) : x \in P \X P /\ Joins(f, x[1], x[2])
      BY <1>2 DEF Covers
    <2>2. p \in P /\ q \in P /\ Joins(f, p, q)
      BY <1>4, <2>1
    <2>3. s \in Seq(Frame(P)) /\ \A j \in 1..Len(s) : s[j].to \in R
      BY <1>2 DEF Calls
    <2>4. c = s[Len(s)]
      BY DEF Advanced
    <2>5. Len(s) \in 1..Len(s)
      BY <2>3
    <2>6. p \in R
      BY <2>3, <2>4, <2>5, Zenon
    <2> QED
      BY <2>1, <2>2, <2>6
  <1>8. l \in [P -> P \cup {NoPt}] /\ rt \in [P -> P \cup {NoPt}]
    BY <1>2 DEF TreeSoFar
  <1>9. Gains(P, l, rt, l2, rt2, p)
    BY <1>1, <1>7, <1>8 DEF Adopts, Gains
  <1>10. TreeSoFar(P, pins, r, f, l2, rt2, R \cup {q})
    <2>1. CASE l[p] = NoPt /\ l2 = [l EXCEPT ![p] = q] /\ rt2 = rt
      BY <1>1, <1>2, <1>5, <1>7, <2>1, TreeGrows
    <2>2. CASE l[p] # NoPt /\ rt[p] = NoPt /\ rt2 = [rt EXCEPT ![p] = q] /\ l2 = l
      BY <1>1, <1>2, <1>5, <1>7, <2>2, TreeGrows
    <2> QED
      BY <2>1, <2>2 DEF Adopts
  <1>11. Calls(P, pins, f, a, l2, rt2, R \cup {q}, t)
    BY <1>1, <1>2, <1>5, <1>7, <1>9, CallsVisit
  <1>12. l2[r] # NoPt
    BY <1>1, <1>2, <1>9 DEF Gains
  <1> QED
    BY <1>6, <1>10, <1>11, <1>12 DEF Search

LEMMA SearchSkips ==
    ASSUME NEW P, NEW pins, NEW r, NEW f, NEW a, Graph(P, pins, r, f, a),
           NEW l, NEW rt, NEW R, NEW s, Search(P, pins, r, f, a, l, rt, R, s), s # << >>,
           NEW c, NEW d, NEW t, Advanced(P, s, t, c, d),
           c.k <= Len(a[c.to]), a[c.to][c.k] = c.from
    PROVE  Search(P, pins, r, f, a, l, rt, R, t)
  <1>1. AllListed(P, f, a)
    BY DEF Graph
  <1>2. /\ TreeSoFar(P, pins, r, f, l, rt, R) /\ l[r] # NoPt
        /\ Calls(P, pins, f, a, l, rt, R, s)
        /\ Covers(P, f, R, AheadOf(a, s))
    BY DEF Search
  <1>3. Calls(P, pins, f, a, l, rt, R, t) /\ AheadOf(a, t) = AheadOf(a, s)
    BY <1>1, <1>2, CallsSkip
  <1> QED
    BY <1>2, <1>3 DEF Search

LEMMA SearchReturns ==
    ASSUME NEW P, NEW pins, NEW r, NEW f, NEW a, Graph(P, pins, r, f, a),
           NEW l, NEW rt, NEW R, NEW s, Search(P, pins, r, f, a, l, rt, R, s),
           NEW c, c.to \in pins \/ c.k > Len(a[c.to]), NEW t, Popped(s, t, c)
    PROVE  Search(P, pins, r, f, a, l, rt, R, t)
  <1>1. /\ AllListed(P, f, a)
        /\ \A p \in pins : \A x, y \in P : Joins(f, p, x) /\ Joins(f, p, y) => x = y
        /\ \A p \in P \ pins : Len(a[p]) = 3
    BY DEF Graph
  <1>2. /\ TreeSoFar(P, pins, r, f, l, rt, R) /\ l[r] # NoPt
        /\ Calls(P, pins, f, a, l, rt, R, s)
        /\ Covers(P, f, R, AheadOf(a, s))
    BY DEF Search
  <1>3. Calls(P, pins, f, a, l, rt, R, t) /\ AheadOf(a, t) = AheadOf(a, s)
    BY <1>1, <1>2, CallsReturn
  <1> QED
    BY <1>2, <1>3 DEF Search

\* When the last call has returned, the tree is on all points.
LEMMA SearchEnds ==
    ASSUME NEW P, NEW pins, NEW r, NEW f, NEW a, Graph(P, pins, r, f, a), NEW l, NEW rt, NEW R,
           Search(P, pins, r, f, a, l, rt, R, << >>)
    PROVE  /\ IsRootedTree(P, pins, r, l, rt)
           /\ \A p \in P : \A q \in Children(l, rt, p) : f[p] = q \/ f[q] = p
  <1>1. /\ IsParents(P, f) /\ NoPt \notin P /\ pins \subseteq P /\ r \in pins /\ r \in P
    BY DEF Graph
  <1>2. /\ TreeSoFar(P, pins, r, f, l, rt, R) /\ l[r] # NoPt
        /\ Calls(P, pins, f, a, l, rt, R, << >>)
        /\ Covers(P, f, R, AheadOf(a, << >>))
    BY DEF Search
  <1>3. AheadOf(a, << >>) = {}
    <2>1. \A x : x \in AheadOf(a, << >>) <=> \E j \in 1..Len(<< >>) : x \in Ahead(a, << >>[j])
      BY AheadIs
    <2>2. \A j \in 1..Len(<< >>) : FALSE
      OBVIOUS
    <2> QED
      BY <2>1, <2>2
  <1>4. R = P
    BY <1>2, <1>3 DEF Covers
  <1>5. \A p \in P \ pins : l[p] # NoPt /\ rt[p] # NoPt
    <2>1. \A j \in 1..Len(<< >>) : FALSE
      OBVIOUS
    <2> QED
      BY <1>2, <1>4, <2>1 DEF Calls
  <1>6. /\ l \in [P -> P \cup {NoPt}] /\ rt \in [P -> P \cup {NoPt}]
        /\ R = ReachOf(P, r, l, rt)
        /\ \A p \in P : \A q \in Children(l, rt, p) : Joins(f, p, q) /\ q # r
        /\ \A p, q \in P : p # q => Children(l, rt, p) \cap Children(l, rt, q) = {}
        /\ \A x \in R \ {r} : \E p \in P : x \in Children(l, rt, p)
        /\ \A p \in P : l[p] = NoPt \/ l[p] # rt[p]
        /\ \A p \in pins : rt[p] = NoPt /\ (p # r => l[p] = NoPt)
    BY <1>2 DEF TreeSoFar
  <1>7. \A S \in SUBSET P : r \in S /\ (\A p \in S : Children(l, rt, p) \subseteq S) => S = P
    BY <1>4, <1>6 DEF ReachOf
  <1>8. \A p \in P : \A q \in Children(l, rt, p) : f[p] = q \/ f[q] = p
    BY <1>6 DEF Joins
  <1>9. IsRootedTree(P, pins, r, l, rt)
    BY <1>1, <1>2, <1>4, <1>5, <1>6, <1>7 DEF IsRootedTree
  <1> QED
    BY <1>8, <1>9

-----------------------------------------------------------------------------
(***************************************************************************)
(* The same about the variables: the driver's point, and the steps of the  *)
(* search.                                                                 *)
(***************************************************************************)
LEMMA MinOfFinite ==
    ASSUME NEW S, IsFiniteSet(S), S \subseteq Int, S # {}
    PROVE  \E x \in S : \A y \in S : x <= y
  <1> DEFINE f == [x \in S |-> 0 - x]
             T == {f[x] : x \in S}
  <1>1. IsFiniteSet(T)
    BY ImageFinite
  <1>2. T # {} /\ \A x \in S : f[x] = 0 - x /\ f[x] \in T
    OBVIOUS
  <1>3. \A t \in T : \E x \in S : t = f[x]
    OBVIOUS
  <1> HIDE DEF f, T
  <1>4. PICK t \in T : \A u \in T : t >= u
    <2>1. \A u \in T : u \in Int
      BY <1>2, <1>3
    <2> QED
      BY <1>1, <1>2, <2>1, MaxOfFinite
  <1>5. PICK x \in S : t = 0 - x
    BY <1>2, <1>3
  <1>6. \A y \in S : 0 - x >= 0 - y
    BY <1>2, <1>4, <1>5
  <1> QED
    BY <1>6

\* The driver's point: it is one of the pin points.
LEMMA DrvrFacts ==
    ASSUME PinInv, phase # "setTree"
    PROVE  drvrPt \in PinPt
  <1> DEFINE D == {p \in PinPt : steiner_pt_pin_map_[p] \in drivers}
  <1>1. D # {}
    <2>1. PICK x \in drivers : x \in Pins
      BY DEF PinInv, NetIs
    <2>2. x \in DOMAIN pin_steiner_pt_map_ /\ DOMAIN steiner_pt_pin_map_ = PinPt
      BY <2>1 DEF PinInv, MapsMatch
    <2>3. pin_steiner_pt_map_[x] \in PinPt /\ steiner_pt_pin_map_[pin_steiner_pt_map_[x]] = x
      BY <2>2 DEF PinInv, MapsMatch
    <2> QED
      BY <2>1, <2>3
  <1>2. pinCount \in Nat
    BY PtFacts
  <1>3. IsFiniteSet(PinPt)
    BY <1>2, FS_Interval DEF PinPt
  <1>4. D \in SUBSET PinPt
    OBVIOUS
  <1>5. PinPt \subseteq Int
    BY <1>2 DEF PinPt
  <1> HIDE DEF D
  <1>6. IsFiniteSet(D) /\ D \subseteq Int
    BY <1>3, <1>4, <1>5, FS_Subset
  <1>7. PICK p \in D : \A q \in D : p <= q
    BY <1>1, <1>6, MinOfFinite
  <1>8. p \in PinPt /\ steiner_pt_pin_map_[p] \in drivers
    BY <1>7 DEF D
  <1>9. ASSUME NEW q \in 0..p - 1 PROVE steiner_pt_pin_map_[q] \notin drivers
    <2>1. q \in PinPt /\ ~(p <= q)
      BY <1>2, <1>8 DEF PinPt
    <2> QED
      BY <1>7, <2>1 DEF D
  <1> QED
    BY <1>8, <1>9 DEF drvrPt

LEMMA GraphFacts ==
    ASSUME SteinerAssumption, PinInv, phase # "setTree",
           \A p \in Pt : Lists(adj[p], Neighbours(n, p))
    PROVE  Graph(Pt, PinPt, drvrPt, n, adj)
  <1>1. /\ Pt \subseteq Nat /\ PinPt \subseteq Pt /\ IsParents(Pt, n)
        /\ \A p \in Pt : /\ Neighbours(n, p) = {q \in Pt : Joins(n, p, q)}
                         /\ IsFiniteSet(Neighbours(n, p))
                         /\ Cardinality(Neighbours(n, p)) = IF p \in PinPt THEN 1 ELSE 3
    BY PtFacts
  <1>2. drvrPt \in PinPt
    BY DrvrFacts
  <1>3. AllListed(Pt, n, adj)
    BY <1>1 DEF AllListed
  <1>4. \A p \in Pt : Len(adj[p]) = Cardinality(Neighbours(n, p))
    BY ListsSize
  <1>5. NoPt \notin Pt
    BY <1>1 DEF SteinerAssumption
  <1>6. ASSUME NEW p \in PinPt, NEW x \in Pt, NEW y \in Pt, Joins(n, p, x), Joins(n, p, y)
        PROVE  x = y
    <2> DEFINE N == Neighbours(n, p)
    <2>1. x \in N /\ y \in N
      BY <1>1, <1>6
    <2>2. IsFiniteSet(N) /\ Cardinality(N) = 1
      BY <1>1
    <2> HIDE DEF N
    <2>3. PICK z : N = {z}
      BY <2>2, FS_Singleton
    <2> QED
      BY <2>1, <2>3
  <1>7. /\ \A p \in PinPt : Len(adj[p]) = 1
        /\ \A p \in Pt \ PinPt : Len(adj[p]) = 3
    BY <1>1, <1>4
  <1> QED
    BY <1>1, <1>2, <1>3, <1>5, <1>6, <1>7 DEF Graph

\* The search so far, once findLeftRights has begun it.
SearchInv ==
    /\ phase \in {"setTree", "adjacent"} =>
          left_ = [p \in Pt |-> NoPt] /\ right_ = [p \in Pt |-> NoPt]
    /\ phase \in {"leftRight", "done"} =>
          \E R \in SUBSET Pt : Search(Pt, PinPt, drvrPt, n, adj, left_, right_, R, stack)
    /\ phase = "done" => stack = << >>

TreeInv == PinInv /\ AdjInv /\ SearchInv

LEMMA TreeInit ==
    ASSUME SteinerAssumption, Init
    PROVE  TreeInv
  <1>1. PinInv
    BY PinInit
  <1>2. AdjInv
    <2>1. phase = "setTree" /\ adj = [p \in Pt |-> << >>]
      BY DEF Init
    <2> QED
      BY <2>1 DEF AdjInv
  <1>3. SearchInv
    BY DEF Init, SearchInv
  <1> QED
    BY <1>1, <1>2, <1>3 DEF TreeInv

\* What the actions of the search leave alone.
SameTree == UNCHANGED <<net, maps, adj>>

LEMMA TreeIsSame ==
    ASSUME SameTree
    PROVE  /\ Pt' = Pt /\ PinPt' = PinPt /\ pinCount' = pinCount /\ drvrPt' = drvrPt
           /\ n' = n /\ adj' = adj
  <1>1. /\ location' = location /\ drivers' = drivers /\ n' = n /\ adj' = adj
        /\ steiner_pt_pin_map_' = steiner_pt_pin_map_
    BY DEF SameTree, net, maps
  <1>2. pinCount' = pinCount
    BY <1>1 DEF pinCount
  <1>3. Pt' = Pt /\ PinPt' = PinPt
    BY <1>2 DEF Pt, PinPt, branchCount
  <1>4. drvrPt' = drvrPt
    BY <1>1, <1>3 DEF drvrPt
  <1> QED
    BY <1>1, <1>2, <1>3, <1>4

LEMMA BeginsSearch ==
    ASSUME SteinerAssumption, TreeInv, AdjInv', FindLeftRights
    PROVE  SearchInv'
  <1> DEFINE b == adj[drvrPt][1]
             l == [p \in Pt |-> NoPt]
             l2 == [l EXCEPT ![drvrPt] = b]
             s == <<[from |-> drvrPt, to |-> b, k |-> 1]>>
             R == {drvrPt} \cup {b}
  <1>1. /\ phase = "adjacent" /\ phase' = "leftRight" /\ SameTree
        /\ left_' = [left_ EXCEPT ![drvrPt] = b] /\ right_' = right_ /\ stack' = s
    BY DEF FindLeftRights, SameTree
  <1>2. /\ Pt' = Pt /\ PinPt' = PinPt /\ drvrPt' = drvrPt /\ n' = n /\ adj' = adj
    BY <1>1, TreeIsSame
  <1>3. left_' = l2 /\ right_' = l
    BY <1>1 DEF TreeInv, SearchInv
  <1>4. \A p \in Pt : Lists(adj[p], Neighbours(n, p))
    BY <1>1, <1>2 DEF AdjInv
  <1>5. Graph(Pt, PinPt, drvrPt, n, adj)
    BY <1>1, <1>4, GraphFacts DEF TreeInv
  <1>6. Search(Pt, PinPt, drvrPt, n, adj, l2, l, R, s)
    BY <1>5, SearchStarts
  <1>7. R \in SUBSET Pt
    BY <1>6 DEF Search, Covers
  <1> HIDE DEF l, l2, s, R
  <1>8. Search(Pt', PinPt', drvrPt', n', adj', left_', right_', R, stack')
    BY <1>1, <1>2, <1>3, <1>6
  <1> QED
    BY <1>1, <1>2, <1>7, <1>8 DEF SearchInv

\* The search that goes on, in the terms of SearchSkips, SearchVisits and SearchReturns.
LEMMA InSearch ==
    ASSUME SteinerAssumption, TreeInv, phase = "leftRight"
    PROVE  /\ Graph(Pt, PinPt, drvrPt, n, adj)
           /\ \E R \in SUBSET Pt : Search(Pt, PinPt, drvrPt, n, adj, left_, right_, R, stack)
           /\ stack \in Seq(Frame(Pt))
  <1>1. Graph(Pt, PinPt, drvrPt, n, adj)
    BY GraphFacts DEF TreeInv, AdjInv
  <1>2. PICK R \in SUBSET Pt : Search(Pt, PinPt, drvrPt, n, adj, left_, right_, R, stack)
    BY DEF TreeInv, SearchInv
  <1>3. stack \in Seq(Frame(Pt))
    BY <1>2 DEF Search, Calls
  <1> QED
    BY <1>1, <1>2, <1>3

LEMMA SearchGoesOn ==
    ASSUME TreeInv, SameTree, phase' = "leftRight",
           NEW R, Search(Pt, PinPt, drvrPt, n, adj, left_', right_', R, stack')
    PROVE  SearchInv'
  <1>1. /\ Pt' = Pt /\ PinPt' = PinPt /\ drvrPt' = drvrPt /\ n' = n /\ adj' = adj
    BY TreeIsSame
  <1>2. R \in SUBSET Pt
    BY DEF Search, Covers
  <1>3. Search(Pt', PinPt', drvrPt', n', adj', left_', right_', R, stack')
    BY <1>1
  <1> QED
    BY <1>1, <1>2, <1>3 DEF SearchInv

LEMMA NextAdjIs ==
    ASSUME stack # << >>, stack \in Seq(Frame(Pt))
    PROVE  Advanced(Pt, stack, NextAdj, Top, [Top EXCEPT !.k = @ + 1])
  <1> DEFINE d == [Top EXCEPT !.k = @ + 1]
  <1>1. Advanced(Pt, stack, Append(SubSeq(stack, 1, Len(stack) - 1), d), Top, d)
    BY AdvancedIs DEF Top
  <1> QED
    BY <1>1 DEF NextAdj, Below

LEMMA SearchVisit ==
    ASSUME SteinerAssumption, TreeInv, NEW p \in Pt, NEW q \in Pt, Visits(p, q), SameTree,
           phase' = phase, stack' = Call(q), Adopts(left_, right_, left_', right_', p, q)
    PROVE  SearchInv'
  <1> DEFINE d == [Top EXCEPT !.k = @ + 1]
             e == [from |-> Top.to, to |-> q, k |-> 1]
  <1>1. /\ phase = "leftRight" /\ stack # << >> /\ Top.to = p /\ p >= pinCount
        /\ Top.k <= Len(adj[p]) /\ q = adj[p][Top.k] /\ q # Top.from
    BY DEF Visits, Calling
  <1>2. /\ Graph(Pt, PinPt, drvrPt, n, adj) /\ stack \in Seq(Frame(Pt))
        /\ \E R \in SUBSET Pt : Search(Pt, PinPt, drvrPt, n, adj, left_, right_, R, stack)
    BY <1>1, InSearch
  <1>3. PICK R \in SUBSET Pt : Search(Pt, PinPt, drvrPt, n, adj, left_, right_, R, stack)
    BY <1>2
  <1>4. p \notin PinPt
    <2>1. pinCount \in Nat /\ p \in Nat /\ (p \in PinPt <=> p < pinCount)
      BY PtFacts DEF TreeInv
    <2> QED
      BY <1>1, <2>1
  <1>5. Advanced(Pt, stack, NextAdj, Top, d)
    BY <1>1, <1>2, NextAdjIs
  <1>6. e \in Frame(Pt)
    BY <1>1 DEF Frame
  <1>7. NextAdj \in Seq(Frame(Pt))
    BY <1>5 DEF Advanced, WithTop
  <1>8. Pushed(Pt, NextAdj, Call(q), e)
    BY <1>6, <1>7, PushedIs DEF Call
  <1> HIDE DEF d, e
  <1>9. Search(Pt, PinPt, drvrPt, n, adj, left_', right_', R \cup {q}, Call(q))
    <2>1. e = [from |-> Top.to, to |-> q, k |-> 1]
      BY DEF e
    <2>2. /\ Top.to \notin PinPt /\ Top.k <= Len(adj[Top.to]) /\ q = adj[Top.to][Top.k]
          /\ Adopts(left_, right_, left_', right_', Top.to, q)
      BY <1>1, <1>4
    <2> QED
      BY <1>1, <1>2, <1>3, <1>5, <1>8, <2>1, <2>2, SearchVisits
  <1> QED
    BY <1>1, <1>9, SearchGoesOn

LEMMA SearchStep ==
    ASSUME SteinerAssumption, TreeInv, AdjInv', [Next]_vars
    PROVE  SearchInv'
  <1>1. CASE SetTree \/ TreeIsSet \/ FindAdjacent
    <2>1. /\ phase \in {"setTree", "adjacent"} /\ phase' \in {"setTree", "adjacent"}
          /\ location' = location /\ left_' = left_ /\ right_' = right_
      BY <1>1 DEF SetTree, TreeIsSet, FindAdjacent, net
    <2>2. Pt' = Pt
      BY <2>1 DEF Pt, branchCount, pinCount
    <2> QED
      BY <2>1, <2>2 DEF TreeInv, SearchInv
  <1>2. CASE FindLeftRights
    BY <1>2, BeginsSearch
  <1>3. ASSUME NEW p \in Pt, NEW q \in Pt, VisitLeft(p, q) PROVE SearchInv'
    <2>1. /\ Visits(p, q) /\ SameTree /\ phase' = phase /\ stack' = Call(q)
          /\ Adopts(left_, right_, left_', right_', p, q)
      BY <1>3 DEF VisitLeft, SameTree, Adopts
    <2> QED
      BY <2>1, SearchVisit
  <1>4. ASSUME NEW p \in Pt, NEW q \in Pt, VisitRight(p, q) PROVE SearchInv'
    <2>1. /\ Visits(p, q) /\ SameTree /\ phase' = phase /\ stack' = Call(q)
          /\ Adopts(left_, right_, left_', right_', p, q)
      BY <1>4 DEF VisitRight, SameTree, Adopts
    <2> QED
      BY <2>1, SearchVisit
  <1>5. ASSUME NEW p \in Pt, SkipFrom(p) PROVE SearchInv'
    <2>1. /\ phase = "leftRight" /\ phase' = phase /\ stack # << >> /\ stack' = NextAdj
          /\ Top.to = p /\ Top.k <= Len(adj[p]) /\ adj[p][Top.k] = Top.from
          /\ SameTree /\ left_' = left_ /\ right_' = right_
      BY <1>5 DEF SkipFrom, Calling, SameTree
    <2>2. /\ Graph(Pt, PinPt, drvrPt, n, adj) /\ stack \in Seq(Frame(Pt))
          /\ \E R \in SUBSET Pt : Search(Pt, PinPt, drvrPt, n, adj, left_, right_, R, stack)
      BY <2>1, InSearch
    <2>3. PICK R \in SUBSET Pt : Search(Pt, PinPt, drvrPt, n, adj, left_, right_, R, stack)
      BY <2>2
    <2>4. Advanced(Pt, stack, NextAdj, Top, [Top EXCEPT !.k = @ + 1])
      BY <2>1, <2>2, NextAdjIs
    <2>5. Search(Pt, PinPt, drvrPt, n, adj, left_, right_, R, NextAdj)
      BY <2>1, <2>2, <2>3, <2>4, SearchSkips
    <2> QED
      BY <2>1, <2>5, SearchGoesOn
  <1>6. ASSUME NEW p \in Pt, Return(p) PROVE SearchInv'
    <2>1. /\ phase = "leftRight" /\ phase' = phase /\ stack # << >> /\ stack' = Below
          /\ Top.to = p /\ (p < pinCount \/ Top.k > Len(adj[p]))
          /\ SameTree /\ left_' = left_ /\ right_' = right_
      BY <1>6 DEF Return, Calling, SameTree
    <2>2. /\ Graph(Pt, PinPt, drvrPt, n, adj) /\ stack \in Seq(Frame(Pt))
          /\ \E R \in SUBSET Pt : Search(Pt, PinPt, drvrPt, n, adj, left_, right_, R, stack)
      BY <2>1, InSearch
    <2>3. PICK R \in SUBSET Pt : Search(Pt, PinPt, drvrPt, n, adj, left_, right_, R, stack)
      BY <2>2
    <2>4. Popped(stack, Below, Top)
      BY <2>1 DEF Popped, Below, Top
    <2>5. Top.to \in PinPt \/ Top.k > Len(adj[Top.to])
      <3>1. p \in PinPt <=> p < pinCount
        BY PtFacts DEF TreeInv
      <3> QED
        BY <2>1, <3>1
    <2>6. Search(Pt, PinPt, drvrPt, n, adj, left_, right_, R, Below)
      BY <2>2, <2>3, <2>4, <2>5, SearchReturns
    <2> QED
      BY <2>1, <2>6, SearchGoesOn
  <1>7. CASE Finish \/ UNCHANGED vars
    <2>1. /\ SameTree /\ left_' = left_ /\ right_' = right_ /\ stack' = stack
          /\ \/ phase' = phase
             \/ phase = "leftRight" /\ stack = << >> /\ phase' = "done"
      BY <1>7 DEF Finish, vars, SameTree, net, maps
    <2>2. /\ Pt' = Pt /\ PinPt' = PinPt /\ drvrPt' = drvrPt /\ n' = n /\ adj' = adj
      BY <2>1, TreeIsSame
    <2> QED
      BY <2>1, <2>2 DEF TreeInv, SearchInv
  <1> QED
    BY <1>1, <1>2, <1>3, <1>4, <1>5, <1>6, <1>7 DEF Next

LEMMA TreeStep ==
    ASSUME SteinerAssumption, TreeInv, [Next]_vars
    PROVE  TreeInv'
  <1>1. PinInv'
    BY PinStep DEF TreeInv
  <1>2. AdjInv'
    BY AdjStep DEF TreeInv
  <1>3. SearchInv'
    BY <1>2, SearchStep
  <1> QED
    BY <1>1, <1>2, <1>3 DEF TreeInv

LEMMA TreeIsDone ==
    ASSUME SteinerAssumption, TreeInv
    PROVE  LeftRightIsTree
  <1> SUFFICES ASSUME phase = "done"
               PROVE  /\ IsRootedTree(Pt, PinPt, drvrPt, left_, right_)
                      /\ \A p \in Pt : \A q \in Children(left_, right_, p) : n[p] = q \/ n[q] = p
    BY DEF LeftRightIsTree
  <1>1. Graph(Pt, PinPt, drvrPt, n, adj)
    BY GraphFacts DEF TreeInv, AdjInv
  <1>2. PICK R \in SUBSET Pt : Search(Pt, PinPt, drvrPt, n, adj, left_, right_, R, << >>)
    BY DEF TreeInv, SearchInv
  <1> QED
    BY <1>1, <1>2, SearchEnds

\* When SteinerTree::findLeftRights() has returned, left_ and right_ are a binary tree on all
\* points with the driver's pin as its root, and its edges are those of Flute's tree.
THEOREM LeftRightAlwaysTree == Spec => []LeftRightIsTree
  <1>1. Init => TreeInv
    BY TreeInit, SteinerAssumption
  <1>2. TreeInv /\ [Next]_vars => TreeInv'
    BY TreeStep, SteinerAssumption
  <1>3. TreeInv => LeftRightIsTree
    BY TreeIsDone, SteinerAssumption
  <1> QED
    BY <1>1, <1>2, <1>3, PTL DEF Spec

===============================================================================
