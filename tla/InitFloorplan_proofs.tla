------------------------ MODULE InitFloorplan_proofs ------------------------
(***************************************************************************)
(* Proofs about InitFloorplan, for any site, grid, core and session.       *)
(***************************************************************************)
EXTENDS InitFloorplan, FiniteSetTheorems, WellFoundedInduction, TLAPS

-----------------------------------------------------------------------------
(***************************************************************************)
(* Integer division.                                                       *)
(***************************************************************************)
LEMMA Division ==
    ASSUME NEW a \in Int, NEW d \in Nat \ {0}
    PROVE  a \div d \in Int /\ a % d \in 0..d-1 /\ a = (a \div d) * d + (a % d)
  OBVIOUS

LEMMA QuotientRemainder ==
    ASSUME NEW a \in Int, NEW d \in Nat \ {0}
    PROVE  \E k \in Int, r \in 0..d-1 : k = a \div d /\ r = a % d /\ a = k * d + r
  BY Division

LEMMA ZeroRemainder ==
    ASSUME NEW a \in Int, NEW d \in Nat \ {0}, a % d = 0
    PROVE  \E j \in Int : a = j * d
  <1>1. PICK j \in Int, r \in 0..d-1 : j = a \div d /\ r = a % d /\ a = j * d + r
    BY QuotientRemainder
  <1>2. a = j * d
    BY <1>1
  <1> QED  BY <1>2

LEMMA SmallMultiple ==
    ASSUME NEW k \in Int, NEW d \in Nat \ {0}, -d < k * d, k * d < d
    PROVE  k = 0
  <1>1. CASE k >= 1
    <2>1. k * d >= d
      BY <1>1
    <2> QED  BY <2>1
  <1>2. CASE k <= -1
    <2>1. (-k) * d >= d
      BY <1>2
    <2>2. (-k) * d = -(k * d)
      OBVIOUS
    <2> QED  BY <2>1, <2>2
  <1> QED  BY <1>1, <1>2

LEMMA ModOfMultiple ==
    ASSUME NEW k \in Int, NEW d \in Nat \ {0}
    PROVE  (k * d) % d = 0
  <1> DEFINE a == k * d
             q == a \div d
             r == a % d
  <1>0. a \in Int
    OBVIOUS
  <1> HIDE DEF a
  <1>1. q \in Int /\ r \in 0..d-1 /\ a = q * d + r
    BY <1>0, Division
  <1> HIDE DEF q, r
  <1>2. (k - q) * d = a - q * d
    BY <1>1 DEF a
  <1>3. k - q = 0
    BY <1>1, <1>2, SmallMultiple
  <1>4. r = 0
    BY <1>1, <1>2, <1>3
  <1> QED  BY <1>4 DEF r, a

LEMMA MultipleOrder ==
    ASSUME NEW i \in Nat, NEW c \in Nat, i <= c, NEW d \in Nat
    PROVE  i * d \in Nat /\ i * d <= c * d
  <1>1. (c - i) * d >= 0
    OBVIOUS
  <1>2. (c - i) * d = c * d - i * d
    OBVIOUS
  <1> QED  BY <1>1, <1>2

-----------------------------------------------------------------------------
(***************************************************************************)
(* The walk around the core.                                               *)
(***************************************************************************)
LEMMA WalkLength ==
    ASSUME NEW per \in Nat, NEW count \in Nat \ {0}, NEW i \in 0..count-1
    PROVE  /\ i * (per \div count) \in Nat
           /\ i * (per \div count) + per \div count <= per
  <1> DEFINE d == per \div count
  <1>1. d \in Int /\ per % count \in 0..count-1 /\ per = d * count + (per % count)
    BY Division
  <1>2. d \in Nat
    <2>1. CASE d <= -1
      <3>1. (-d) * count >= count
        BY <2>1, <1>1
      <3> QED  BY <3>1, <1>1
    <2> QED  BY <2>1, <1>1
  <1> HIDE DEF d
  <1>3. (i + 1) * d <= count * d /\ i * d \in Nat
    BY <1>2, MultipleOrder
  <1>4. (i + 1) * d = i * d + d
    BY <1>2
  <1> QED  BY <1>1, <1>2, <1>3, <1>4 DEF d

\* PinPoint stays on the edge of the core, however the perimeter divides.
THEOREM PinPointOnEdge ==
    ASSUME NEW core \in RectOf(Int), Ordered(core),
           NEW count \in Nat \ {0}, NEW i \in 0..count-1
    PROVE  OnEdge(PinPoint(core, count, i), core)
  <1> DEFINE per == 2 * Dx(core) + 2 * Dy(core)
             loc == i * (per \div count)
  <1>1. /\ core.lx \in Int /\ core.ly \in Int /\ core.ux \in Int /\ core.uy \in Int
        /\ Dx(core) \in Nat /\ Dy(core) \in Nat
        /\ Dx(core) = core.ux - core.lx /\ Dy(core) = core.uy - core.ly
    BY DEF RectOf, Ordered, Dx, Dy
  <1>2. per \in Nat
    BY <1>1
  <1>3. loc \in Nat /\ loc + per \div count <= per
    BY <1>2, WalkLength
  <1>4. per \div count \in Nat
    BY <1>2
  <1>5. loc \in Nat /\ loc <= 2 * Dx(core) + 2 * Dy(core)
    BY <1>2, <1>3, <1>4
  <1> HIDE DEF loc
  <1>6. PinPoint(core, count, i) =
          IF loc < Dx(core) THEN [x |-> core.lx + loc, y |-> core.ly]
          ELSE IF loc < Dx(core) + Dy(core) THEN [x |-> core.ux, y |-> core.ly + (loc - Dx(core))]
          ELSE IF loc < 2 * Dx(core) + Dy(core)
               THEN [x |-> core.ux - (loc - (Dx(core) + Dy(core))), y |-> core.uy]
          ELSE [x |-> core.lx, y |-> core.uy - (loc - (2 * Dx(core) + Dy(core)))]
    BY DEF PinPoint, loc
  <1> HIDE DEF per
  <1>7. CASE loc < Dx(core)
    BY <1>1, <1>5, <1>6, <1>7 DEF OnEdge
  <1>8. CASE ~(loc < Dx(core)) /\ loc < Dx(core) + Dy(core)
    BY <1>1, <1>5, <1>6, <1>8 DEF OnEdge
  <1>9. CASE ~(loc < Dx(core)) /\ ~(loc < Dx(core) + Dy(core)) /\ loc < 2 * Dx(core) + Dy(core)
    BY <1>1, <1>5, <1>6, <1>9 DEF OnEdge
  <1>10. CASE ~(loc < Dx(core)) /\ ~(loc < Dx(core) + Dy(core)) /\ ~(loc < 2 * Dx(core) + Dy(core))
    BY <1>1, <1>5, <1>6, <1>10 DEF OnEdge
  <1> QED  BY <1>7, <1>8, <1>9, <1>10

-----------------------------------------------------------------------------
(***************************************************************************)
(* Least and greatest members.                                             *)
(***************************************************************************)
LEMMA NatMin ==
    ASSUME NEW T \in SUBSET Nat, T # {}
    PROVE  \E x \in T : \A y \in T : x <= y
  <1> DEFINE R == {ss \in Nat \X Nat : ss[1] < ss[2]}
  <1>1. IsWellFoundedOn(R, Nat)
    BY NatLessThanWellFounded DEF OpToRel
  <1> HIDE DEF R
  <1>2. PICK x \in T : \A y \in T : ~ (<<y, x>> \in R)
    BY <1>1, WFMin
  <1>3. \A y \in T : ~ (y < x)
    BY <1>2 DEF R
  <1> QED  BY <1>3

LEMMA MinFact ==
    ASSUME NEW T \in SUBSET Nat, T # {}
    PROVE  Min(T) \in T /\ \A y \in T : Min(T) <= y
  BY NatMin DEF Min

LEMMA MaxFact ==
    ASSUME NEW T \in SUBSET Nat, T # {}, NEW b \in Nat, \A y \in T : y <= b
    PROVE  Max(T) \in T /\ \A y \in T : y <= Max(T)
  <1> DEFINE U == {b - y : y \in T}
  <1>0. \A y \in T : b - y \in Nat
    OBVIOUS
  <1>1. U \in SUBSET Nat /\ U # {}
    BY <1>0
  <1> HIDE DEF U
  <1>2. PICK u \in U : \A v \in U : u <= v
    BY <1>1, NatMin
  <1> USE DEF U
  <1>3. PICK x \in T : u = b - x
    OBVIOUS
  <1>4. \A y \in T : y <= x
    <2> SUFFICES ASSUME NEW y \in T PROVE y <= x
      OBVIOUS
    <2>1. u <= b - y
      BY <1>2
    <2> QED  BY <2>1, <1>3
  <1>5. \A y \in T : x >= y
    BY <1>4
  <1>6. Max(T) \in T /\ \A y \in T : Max(T) >= y
    BY <1>5 DEF Max
  <1> QED  BY <1>6

-----------------------------------------------------------------------------
(***************************************************************************)
(* What the conversions of lengths return.                                 *)
(***************************************************************************)
LEMMA GridType ==
    ASSUME NEW d \in Nat
    PROVE  MetersToMfgGrid(d) \in Nat
  <1>1. CASE Grid # 0
    <2>1. 2 * d * UnitDbu + Grid \in Nat /\ 2 * Grid \in Nat \ {0}
      BY <1>1, FloorplanAssumption
    <2>2. (2 * d * UnitDbu + Grid) \div (2 * Grid) \in Nat
      BY <2>1
    <2> QED  BY <1>1, <2>2, FloorplanAssumption DEF MetersToMfgGrid
  <1>2. CASE Grid = 0
    BY <1>2 DEF MetersToMfgGrid
  <1> QED  BY <1>1, <1>2

LEMMA RootType ==
    ASSUME NEW n \in Nat, NEW d \in Nat \ {0}
    PROVE  NearestRoot(n, d) \in Nat
  <1> DEFINE T == {w \in 0..n : 4 * n < d * (2 * w + 1) * (2 * w + 1)}
  <1>1. n \in T
    <2>1. 4 * n < (2 * n + 1) * (2 * n + 1)
      OBVIOUS
    <2>2. (2 * n + 1) * (2 * n + 1) \in Nat
      OBVIOUS
    <2>3. (2 * n + 1) * (2 * n + 1) <= d * ((2 * n + 1) * (2 * n + 1))
      BY <2>2
    <2>4. d * (2 * n + 1) * (2 * n + 1) = d * ((2 * n + 1) * (2 * n + 1))
      OBVIOUS
    <2> QED  BY <2>1, <2>3, <2>4
  <1>a. T \in SUBSET Nat /\ T # {}
    <2>1. T \subseteq 0..n
      BY Zenon
    <2>2. 0..n \subseteq Nat
      OBVIOUS
    <2> HIDE DEF T
    <2> QED  BY <1>1, <2>1, <2>2
  <1> HIDE DEF T
  <1>2. PICK w \in T : \A v \in T : w <= v
    BY <1>a, NatMin
  <1> USE DEF T
  <1>3. w = 0 \/ d * (2 * w - 1) * (2 * w - 1) <= 4 * n
    <2> SUFFICES ASSUME w # 0 PROVE d * (2 * w - 1) * (2 * w - 1) <= 4 * n
      OBVIOUS
    <2>1. w - 1 \in 0..n /\ w - 1 \notin T
      BY <1>2
    <2>2. 2 * (w - 1) + 1 = 2 * w - 1
      OBVIOUS
    <2>3. ~(4 * n < d * (2 * w - 1) * (2 * w - 1))
      BY <2>1, <2>2
    <2>4. d * (2 * w - 1) * (2 * w - 1) \in Int
      OBVIOUS
    <2> QED  BY <2>3, <2>4
  <1>4. \E v \in 0..n : /\ 4 * n < d * (2 * v + 1) * (2 * v + 1)
                        /\ v = 0 \/ d * (2 * v - 1) * (2 * v - 1) <= 4 * n
    BY <1>3
  <1>5. NearestRoot(n, d) \in 0..n
    BY <1>4 DEF NearestRoot
  <1> QED  BY <1>5

LEMMA UtilAreasType ==
    ASSUME NEW s \in Shapes
    PROVE  UtilAreas(s) \in [die : RectOf(Nat), core : RectOf(Nat)]
  <1> DEFINE area == (DesignArea * 100) \div s.util
  <1>1. /\ s.util \in Nat \ {0} /\ s.ratio \in Nat \ {0} /\ DesignArea * 100 \in Nat
        /\ s.bottom \in Nat /\ s.top \in Nat /\ s.left \in Nat /\ s.right \in Nat
    BY FloorplanAssumption
  <1>2. area \in Nat
    BY <1>1
  <1> HIDE DEF area
  <1>3. area * s.ratio \in Nat
    BY <1>1, <1>2
  <1>4. NearestRoot(area * s.ratio, 1) \in Nat /\ NearestRoot(area, s.ratio) \in Nat
    BY <1>1, <1>2, <1>3, RootType
  <1> QED  BY <1>1, <1>4 DEF UtilAreas, Rect, RectOf, area

LEMMA DieAreaType ==
    ASSUME NEW r \in RectOf(Nat)
    PROVE  DieArea(r) \in RectOf(Nat) /\ Ordered(DieArea(r))
  <1>1. /\ MetersToMfgGrid(r.lx) \in Nat /\ MetersToMfgGrid(r.ly) \in Nat
        /\ MetersToMfgGrid(r.ux) \in Nat /\ MetersToMfgGrid(r.uy) \in Nat
    BY GridType DEF RectOf
  <1> DEFINE Corners(a, b, c, d) == Rect(Smaller(a, c), Smaller(b, d), Larger(a, c), Larger(b, d))
  <1>2. \A a, b, c, d \in Nat : Corners(a, b, c, d) \in RectOf(Nat) /\ Ordered(Corners(a, b, c, d))
    <2>1. \A a, b \in Nat : /\ Smaller(a, b) \in Nat /\ Larger(a, b) \in Nat
                            /\ Smaller(a, b) <= Larger(a, b)
      BY DEF Smaller, Larger
    <2>2. \A lx, ly, ux, uy \in Nat :
             /\ Rect(lx, ly, ux, uy) \in RectOf(Nat)
             /\ lx <= ux /\ ly <= uy => Ordered(Rect(lx, ly, ux, uy))
      BY DEF Rect, RectOf, Ordered
    <2> TAKE a, b, c, d \in Nat
    <2>3. /\ Smaller(a, c) \in Nat /\ Smaller(b, d) \in Nat
          /\ Larger(a, c) \in Nat /\ Larger(b, d) \in Nat
          /\ Smaller(a, c) <= Larger(a, c) /\ Smaller(b, d) <= Larger(b, d)
      BY <2>1, Zenon
    <2> QED  BY <2>2, <2>3, Zenon
  <1>3. DieArea(r) = Corners(MetersToMfgGrid(r.lx), MetersToMfgGrid(r.ly),
                             MetersToMfgGrid(r.ux), MetersToMfgGrid(r.uy))
    BY DEF DieArea, OnMfgGrid, Rect
  <1> HIDE DEF Corners
  <1> QED  BY <1>1, <1>2, <1>3, Zenon

LEMMA SnappedFacts ==
    ASSUME NEW r \in RectOf(Nat)
    PROVE  /\ Snapped(r) \in RectOf(Nat)
           /\ Snapped(r).lx % Site.dx = 0 /\ Snapped(r).ly % Site.dy = 0
  <1>1. /\ MetersToMfgGrid(r.lx) \in Nat /\ MetersToMfgGrid(r.ly) \in Nat
        /\ MetersToMfgGrid(r.ux) \in Nat /\ MetersToMfgGrid(r.uy) \in Nat
    BY GridType DEF RectOf
  <1>2. MetersToMfgGrid(r.lx) \div Site.dx \in Nat /\ MetersToMfgGrid(r.ly) \div Site.dy \in Nat
    BY <1>1, FloorplanAssumption
  <1>3. /\ Snapped(r).lx = (MetersToMfgGrid(r.lx) \div Site.dx) * Site.dx
        /\ Snapped(r).ly = (MetersToMfgGrid(r.ly) \div Site.dy) * Site.dy
        /\ Snapped(r).ux = MetersToMfgGrid(r.ux) /\ Snapped(r).uy = MetersToMfgGrid(r.uy)
        /\ Snapped(r) = Rect(Snapped(r).lx, Snapped(r).ly, Snapped(r).ux, Snapped(r).uy)
    BY DEF Snapped, Rect
  <1>4. Snapped(r).lx % Site.dx = 0 /\ Snapped(r).ly % Site.dy = 0
    BY <1>2, <1>3, ModOfMultiple, FloorplanAssumption
  <1>5. Snapped(r).lx \in Nat /\ Snapped(r).ly \in Nat
    BY <1>2, <1>3, FloorplanAssumption
  <1> QED  BY <1>1, <1>3, <1>4, <1>5 DEF Rect, RectOf

-----------------------------------------------------------------------------
(***************************************************************************)
(* The rows of one command.                                                *)
(***************************************************************************)
LEMMA PositiveMultiple ==
    ASSUME NEW k \in Int, NEW d \in Nat \ {0}, k * d > 0
    PROVE  k >= 1
  <1>1. CASE k <= 0
    <2>1. (-k) * d >= 0 /\ (-k) * d = -(k * d)
      BY <1>1
    <2> QED  BY <2>1
  <1> QED  BY <1>1

LEMMA Tiling ==
    ASSUME NEW lo \in Nat, NEW hi \in Nat, lo <= hi, NEW d \in Nat \ {0}
    PROVE  {lo + k * d : k \in 0..((hi - lo) \div d) - 1}
              = {y \in lo..hi - d : (y - lo) % d = 0}
  <1>0. hi - lo \in Int
    OBVIOUS
  <1>1. PICK q \in Int, r \in 0..d-1 : q = (hi - lo) \div d /\ hi - lo = q * d + r
    BY <1>0, QuotientRemainder
  <1>2. ASSUME NEW k \in 0..q - 1
        PROVE  lo + k * d \in {y \in lo..hi - d : (y - lo) % d = 0}
    <2>0. q \in Nat /\ k \in Nat /\ k + 1 \in Nat /\ k + 1 <= q
      BY <1>1
    <2>1. (k + 1) * d <= q * d /\ k * d \in Nat
      BY <2>0, MultipleOrder
    <2>2. (k + 1) * d = k * d + d
      BY <2>0
    <2>3. k * d <= q * d - d
      BY <2>0, <2>1, <2>2
    <2>4. (k * d) % d = 0
      BY ModOfMultiple
    <2>5. lo + k * d \in lo..hi - d
      BY <1>1, <2>1, <2>3
    <2>6. (lo + k * d) - lo = k * d
      BY <2>1
    <2> QED  BY <2>4, <2>5, <2>6
  <1>3. ASSUME NEW y \in lo..hi - d, (y - lo) % d = 0
        PROVE  \E k \in 0..q - 1 : y = lo + k * d
    <2> DEFINE k == (y - lo) \div d
    <2>1. k \in Int /\ y - lo = k * d
      BY <1>3, Division
    <2> HIDE DEF k
    <2>2. k * d >= 0 /\ k * d <= q * d + r - d
      BY <1>1, <2>1
    <2>3. k >= 0
      <3>1. (k + 1) * d = k * d + d
        BY <2>1
      <3>2. k + 1 \in Int /\ (k + 1) * d > 0
        BY <2>1, <2>2, <3>1
      <3>3. k + 1 >= 1
        BY <3>2, PositiveMultiple
      <3> QED  BY <2>1, <3>3
    <2>4. (q - k) * d = q * d - k * d
      BY <1>1, <2>1
    <2>5. (q - k) * d > 0
      BY <1>1, <2>1, <2>2, <2>4
    <2>6. q - k >= 1
      BY <1>1, <2>1, <2>5, PositiveMultiple
    <2>7. k \in 0..q - 1
      BY <1>1, <2>1, <2>6
    <2>8. y = lo + k * d
      BY <1>1, <2>1, <2>3
    <2> QED  BY <2>7, <2>8, Zenon
  <1> DEFINE Bottoms == {lo + k * d : k \in 0..q - 1}
             Heights == {y \in lo..hi - d : (y - lo) % d = 0}
  <1>4. Bottoms \subseteq Heights
    BY <1>2, Zenon
  <1>5. Heights \subseteq Bottoms
    BY <1>3, Zenon
  <1>6. Bottoms = Heights
    BY <1>4, <1>5, Zenon
  <1> QED  BY <1>1, <1>6, Zenon

LEMMA RowsFacts ==
    ASSUME NEW c \in RectOf(Nat), NEW call \in Nat
    PROVE  LET n == Absolute(Dx(c)) \div Site.dx
           IN  /\ n \in Nat
               /\ \A r \in MakeRows(c, call) :
                     /\ r.call = call /\ r.lx = c.lx /\ r.sites = n
                     /\ \E k \in 0..(Absolute(Dy(c)) \div Site.dy) - 1 : r.ly = c.ly + k * Site.dy
               /\ {r.ly : r \in MakeRows(c, call)}
                     = {c.ly + k * Site.dy : k \in 0..(Absolute(Dy(c)) \div Site.dy) - 1}
  <1>1. Absolute(Dx(c)) \in Nat /\ Absolute(Dy(c)) \in Nat
    BY DEF RectOf, Dx, Dy, Absolute
  <1>2. Absolute(Dx(c)) \div Site.dx \in Nat
    BY <1>1, FloorplanAssumption
  <1> DEFINE n == Absolute(Dx(c)) \div Site.dx
             K == 0..(Absolute(Dy(c)) \div Site.dy) - 1
             row(k) == [call |-> call, index |-> k, lx |-> c.lx, ly |-> c.ly + k * Site.dy,
                        sites |-> n, orient |-> IF k % 2 = 0 THEN "MX" ELSE "R0"]
  <1>3. MakeRows(c, call) = {row(k) : k \in K}
    BY DEF MakeRows
  <1>4. \A k \in K : /\ row(k).call = call /\ row(k).lx = c.lx
                      /\ row(k).sites = n /\ row(k).ly = c.ly + k * Site.dy
    OBVIOUS
  <1> HIDE DEF n, K, row
  <1>5. {r.ly : r \in MakeRows(c, call)} = {c.ly + k * Site.dy : k \in K}
    BY <1>3, <1>4
  <1>6. \A r \in MakeRows(c, call) :
           /\ r.call = call /\ r.lx = c.lx /\ r.sites = n
           /\ \E k \in K : r.ly = c.ly + k * Site.dy
    BY <1>3, <1>4
  <1> QED  BY <1>2, <1>5, <1>6 DEF n, K

\* The rows of a command fill the core it was given.
LEMMA FilledCore ==
    ASSUME NEW c \in RectOf(Nat), NEW call \in Nat, Ordered(c)
    PROVE  /\ {r.ly : r \in MakeRows(c, call)} =
                 {y \in c.ly..c.uy - Site.dy : (y - c.ly) % Site.dy = 0}
           /\ \A r \in MakeRows(c, call) :
                 r.lx = c.lx /\ c.ux - (r.lx + r.sites * Site.dx) \in 0..Site.dx - 1
  <1>1. /\ c.lx \in Nat /\ c.ux \in Nat /\ c.ly \in Nat /\ c.uy \in Nat
        /\ c.lx <= c.ux /\ c.ly <= c.uy
    BY DEF RectOf, Ordered
  <1>2. Absolute(Dx(c)) = c.ux - c.lx /\ Absolute(Dy(c)) = c.uy - c.ly
    BY <1>1 DEF Dx, Dy, Absolute
  <1>3. {c.ly + k * Site.dy : k \in 0..((c.uy - c.ly) \div Site.dy) - 1}
           = {y \in c.ly..c.uy - Site.dy : (y - c.ly) % Site.dy = 0}
    <2>1. Site.dy \in Nat \ {0}
      BY FloorplanAssumption
    <2>2. \A d \in Nat \ {0} :
             {c.ly + k * d : k \in 0..((c.uy - c.ly) \div d) - 1}
                = {y \in c.ly..c.uy - d : (y - c.ly) % d = 0}
      BY <1>1, Tiling, Zenon
    <2> QED
      BY <2>1, <2>2, Zenon
  <1> DEFINE n == (c.ux - c.lx) \div Site.dx
  <1>4. n \in Int /\ (c.ux - c.lx) - n * Site.dx \in 0..Site.dx - 1
    <2> DEFINE w == c.ux - c.lx
    <2>0. w \in Int /\ Site.dx \in Nat \ {0}
      BY <1>1, FloorplanAssumption
    <2> HIDE DEF w
    <2>1. PICK k \in Int, r \in 0..Site.dx - 1 : k = w \div Site.dx /\ w = k * Site.dx + r
      BY <2>0, QuotientRemainder
    <2>2. k \in Int /\ w - k * Site.dx \in 0..Site.dx - 1
      BY <2>0, <2>1
    <2> QED  BY <2>1, <2>2 DEF w
  <1> HIDE DEF n
  <1>5. c.ux - (c.lx + n * Site.dx) = (c.ux - c.lx) - n * Site.dx
    BY <1>1, <1>4, FloorplanAssumption
  <1>6. \A r \in MakeRows(c, call) : r.lx = c.lx /\ r.sites = n
    BY <1>2, RowsFacts DEF n
  <1>7. {r.ly : r \in MakeRows(c, call)}
           = {c.ly + k * Site.dy : k \in 0..((c.uy - c.ly) \div Site.dy) - 1}
    BY <1>2, RowsFacts
  <1> QED  BY <1>3, <1>4, <1>5, <1>6, <1>7

\* Rows start on the grid of the sites and are bounded.
LEMMA RowsOnGrid ==
    ASSUME NEW c \in RectOf(Nat), NEW call \in Nat,
           c.lx % Site.dx = 0, c.ly % Site.dy = 0
    PROVE  /\ \A r \in MakeRows(c, call) :
                 /\ r.lx \in Nat /\ r.ly \in Nat /\ r.sites \in Nat
                 /\ r.lx % Site.dx = 0 /\ r.ly % Site.dy = 0
           /\ \E b \in Nat : \A r \in MakeRows(c, call) :
                 r.lx + r.sites * Site.dx <= b /\ r.ly + Site.dy <= b
  <1> DEFINE n == Absolute(Dx(c)) \div Site.dx
             m == Absolute(Dy(c)) \div Site.dy
  <1>1. c.lx \in Nat /\ c.ly \in Nat /\ Site.dx \in Nat \ {0} /\ Site.dy \in Nat \ {0}
    BY FloorplanAssumption DEF RectOf
  <1>2. n \in Nat /\ m \in Nat
    <2>1. Absolute(Dx(c)) \in Nat /\ Absolute(Dy(c)) \in Nat
      BY DEF RectOf, Dx, Dy, Absolute
    <2> QED  BY <1>1, <2>1
  <1>3. \A r \in MakeRows(c, call) :
           /\ r.lx = c.lx /\ r.sites = n
           /\ \E k \in 0..m - 1 : r.ly = c.ly + k * Site.dy
    BY RowsFacts DEF n, m
  <1> HIDE DEF n, m
  <1>4. ASSUME NEW k \in 0..m - 1
        PROVE  /\ c.ly + k * Site.dy \in Nat /\ (c.ly + k * Site.dy) % Site.dy = 0
               /\ c.ly + k * Site.dy + Site.dy <= c.ly + m * Site.dy
    <2>1. k \in Nat /\ k + 1 \in Nat /\ k + 1 <= m
      BY <1>2
    <2>2. k * Site.dy \in Nat /\ (k + 1) * Site.dy <= m * Site.dy /\ m * Site.dy \in Nat
      BY <1>1, <1>2, <2>1, MultipleOrder
    <2>3. (k + 1) * Site.dy = k * Site.dy + Site.dy
      BY <1>1, <2>1
    <2>a. c.ly \in Int /\ Site.dy \in Nat \ {0} /\ c.ly % Site.dy = 0
      BY <1>1
    <2>4. PICK j \in Int : c.ly = j * Site.dy
      BY <2>a, ZeroRemainder
    <2>b. j + k \in Int
      BY <2>1, <2>4
    <2>5. c.ly + k * Site.dy = (j + k) * Site.dy
      BY <1>1, <2>1, <2>4
    <2>6. ((j + k) * Site.dy) % Site.dy = 0
      BY <1>1, <2>b, ModOfMultiple
    <2> QED  BY <1>1, <2>1, <2>2, <2>3, <2>5, <2>6
  <1>5. \A r \in MakeRows(c, call) :
           /\ r.lx \in Nat /\ r.ly \in Nat /\ r.sites \in Nat
           /\ r.lx % Site.dx = 0 /\ r.ly % Site.dy = 0
    BY <1>1, <1>2, <1>3, <1>4
  <1> DEFINE b == (c.lx + n * Site.dx) + (c.ly + m * Site.dy)
  <1>6. n * Site.dx \in Nat /\ m * Site.dy \in Nat
    BY <1>1, <1>2
  <1>7. b \in Nat
    BY <1>1, <1>6
  <1>8. \A r \in MakeRows(c, call) : r.lx + r.sites * Site.dx <= b /\ r.ly + Site.dy <= b
    BY <1>1, <1>3, <1>4, <1>6
  <1> QED  BY <1>5, <1>7, <1>8

-----------------------------------------------------------------------------
(***************************************************************************)
(* The invariant.                                                          *)
(***************************************************************************)
Counters == given \in Nat /\ asked.call \in 0..given /\ pinned.call \in 0..given

RowsOK ==
    /\ \A r \in rows : /\ r.call \in 1..given
                       /\ r.lx \in Nat /\ r.ly \in Nat /\ r.sites \in Nat
                       /\ r.lx % Site.dx = 0 /\ r.ly % Site.dy = 0
    /\ \E b \in Nat : \A r \in rows : r.lx + r.sites * Site.dx <= b /\ r.ly + Site.dy <= b

DieOK == die \in RectOf(Nat) /\ Ordered(die)

PinsOK ==
    pinned.call # 0 =>
       /\ pinned.core \in RectOf(Int) /\ Ordered(pinned.core)
       /\ pins = [t \in 1..TermCount |-> {PinPoint(pinned.core, TermCount, t - 1)}]

Inv == Counters /\ RowsOK /\ DieOK /\ PinsOK /\ RowsFillCore

LEMMA CoreFacts ==
    ASSUME RowsOK, DieOK
    PROVE  Core \in RectOf(Int) /\ Ordered(Core)
  <1>1. CASE rows = {}
    BY <1>1 DEF DieOK, Core, RectOf
  <1>2. CASE rows # {}
    <2> DEFINE LX == {r.lx : r \in rows}
               LY == {r.ly : r \in rows}
               UX == {r.lx + r.sites * Site.dx : r \in rows}
               UY == {r.ly + Site.dy : r \in rows}
    <2>1. PICK b \in Nat : \A r \in rows : r.lx + r.sites * Site.dx <= b /\ r.ly + Site.dy <= b
      BY DEF RowsOK
    <2>2. \A r \in rows : /\ r.lx \in Nat /\ r.ly \in Nat
                          /\ r.lx + r.sites * Site.dx \in Nat /\ r.lx <= r.lx + r.sites * Site.dx
                          /\ r.ly + Site.dy \in Nat /\ r.ly <= r.ly + Site.dy
      <3> SUFFICES ASSUME NEW r \in rows
                   PROVE  /\ r.lx \in Nat /\ r.ly \in Nat
                          /\ r.lx + r.sites * Site.dx \in Nat /\ r.lx <= r.lx + r.sites * Site.dx
                          /\ r.ly + Site.dy \in Nat /\ r.ly <= r.ly + Site.dy
        OBVIOUS
      <3>1. r.lx \in Nat /\ r.ly \in Nat /\ r.sites \in Nat /\ Site.dx \in Nat /\ Site.dy \in Nat
        BY FloorplanAssumption DEF RowsOK
      <3>2. r.sites * Site.dx \in Nat
        BY <3>1
      <3> QED  BY <3>1, <3>2
    <2>3. PICK r \in rows : TRUE
      BY <1>2
    <2>4. /\ LX \in SUBSET Nat /\ LY \in SUBSET Nat /\ UX \in SUBSET Nat /\ UY \in SUBSET Nat
          /\ r.lx \in LX /\ r.ly \in LY
          /\ r.lx + r.sites * Site.dx \in UX /\ r.ly + Site.dy \in UY
          /\ \A y \in UX : y <= b
          /\ \A y \in UY : y <= b
      BY <2>1, <2>2
    <2>5. Core = Rect(Min(LX), Min(LY), Max(UX), Max(UY))
      BY <1>2 DEF Core
    <2> HIDE DEF LX, LY, UX, UY
    <2>6. Min(LX) \in Nat /\ Min(LX) <= r.lx
      BY <2>4, MinFact
    <2>7. Min(LY) \in Nat /\ Min(LY) <= r.ly
      BY <2>4, MinFact
    <2>8. Max(UX) \in Nat /\ r.lx + r.sites * Site.dx <= Max(UX)
      BY <2>4, MaxFact
    <2>9. Max(UY) \in Nat /\ r.ly + Site.dy <= Max(UY)
      BY <2>4, MaxFact
    <2> QED  BY <2>2, <2>5, <2>6, <2>7, <2>8, <2>9 DEF Rect, RectOf, Ordered
  <1> QED  BY <1>1, <1>2

LEMMA FloorplanStep ==
    ASSUME Inv, Begin,
           NEW area \in [die : RectOf(Nat), core : RectOf(Nat)], NEW site, NEW file,
           Floorplan(area, site, file)
    PROVE  Inv'
  <1>1. /\ given \in Nat /\ given' = given + 1 /\ UNCHANGED <<pins, pinned>>
        /\ die' = DieArea(area.die)
    BY DEF Inv, Counters, Begin, Floorplan
  <1>2. DieOK'
    BY <1>1, DieAreaType DEF DieOK
  <1>3. PinsOK'
    BY <1>1 DEF Inv, PinsOK
  <1>4. CASE site = "found"
    <2> DEFINE c == Snapped(area.core)
    <2>1. /\ rows' = rows \cup MakeRows(c, given')
          /\ asked' = [call |-> given', area |-> area]
      BY <1>4 DEF Floorplan
    <2>2. c \in RectOf(Nat) /\ c.lx % Site.dx = 0 /\ c.ly % Site.dy = 0
      BY SnappedFacts
    <2>3. Counters'
      BY <1>1, <2>1 DEF Inv, Counters
    <2>4. \A r \in MakeRows(c, given') : r.call = given'
      BY <1>1, <2>2, RowsFacts
    <2>5. RowsOK'
      <3>1. PICK b \in Nat : \A r \in rows : r.lx + r.sites * Site.dx <= b /\ r.ly + Site.dy <= b
        BY DEF Inv, RowsOK
      <3>2. PICK e \in Nat : \A r \in MakeRows(c, given') :
                                r.lx + r.sites * Site.dx <= e /\ r.ly + Site.dy <= e
        BY <1>1, <2>2, RowsOnGrid
      <3>3. \A r \in MakeRows(c, given') :
               /\ r.lx \in Nat /\ r.ly \in Nat /\ r.sites \in Nat
               /\ r.lx % Site.dx = 0 /\ r.ly % Site.dy = 0
        BY <1>1, <2>2, RowsOnGrid
      <3>4. \A r \in rows : /\ r.call \in 1..given
                            /\ r.lx \in Nat /\ r.ly \in Nat /\ r.sites \in Nat
                            /\ r.lx % Site.dx = 0 /\ r.ly % Site.dy = 0
        BY DEF Inv, RowsOK
      <3> HIDE DEF c
      <3>5. \A r \in rows' : /\ r.call \in 1..given'
                             /\ r.lx \in Nat /\ r.ly \in Nat /\ r.sites \in Nat
                             /\ r.lx % Site.dx = 0 /\ r.ly % Site.dy = 0
        BY <1>1, <2>1, <2>4, <3>3, <3>4
      <3>6. \A r \in rows' : r.lx + r.sites * Site.dx \in Int /\ r.ly + Site.dy \in Int
        BY <3>5, FloorplanAssumption
      <3>7. \A r \in rows' : r.lx + r.sites * Site.dx <= b + e /\ r.ly + Site.dy <= b + e
        BY <2>1, <3>1, <3>2, <3>6
      <3>8. b + e \in Nat
        OBVIOUS
      <3> QED  BY <3>5, <3>7, <3>8 DEF RowsOK
    <2>6. LastRows' = MakeRows(c, given')
      BY <1>1, <2>1, <2>4 DEF LastRows, Inv, RowsOK
    <2>7. Snapped(asked'.area.core) = c
      BY <2>1
    <2> HIDE DEF c
    <2>8. Ordered(c) =>
             /\ {r.ly : r \in LastRows'} =
                   {y \in c.ly..c.uy - Site.dy : (y - c.ly) % Site.dy = 0}
             /\ \A r \in LastRows' :
                   r.lx = c.lx /\ c.ux - (r.lx + r.sites * Site.dx) \in 0..Site.dx - 1
      BY <1>1, <2>2, <2>6, FilledCore
    <2>9. RowsFillCore'
      BY <2>7, <2>8 DEF RowsFillCore
    <2> QED  BY <1>2, <1>3, <2>3, <2>5, <2>9 DEF Inv
  <1>5. CASE site # "found"
    <2>1. UNCHANGED <<rows, asked>>
      BY <1>5 DEF Floorplan
    <2>2. Counters' /\ RowsOK'
      BY <1>1, <2>1 DEF Inv, Counters, RowsOK
    <2>3. RowsFillCore'
      BY <2>1 DEF Inv, RowsFillCore, LastRows
    <2> QED  BY <1>2, <1>3, <2>2, <2>3 DEF Inv
  <1> QED  BY <1>4, <1>5

LEMMA SameFloorplan ==
    ASSUME Inv, given' \in {given, given + 1},
           UNCHANGED <<die, rows, pins, asked, pinned>>
    PROVE  Inv'
  <1>1. Counters' /\ RowsOK' /\ DieOK' /\ PinsOK'
    BY DEF Inv, Counters, RowsOK, DieOK, PinsOK
  <1>2. RowsFillCore'
    BY DEF Inv, RowsFillCore, LastRows
  <1> QED  BY <1>1, <1>2 DEF Inv

LEMMA InvInit == Init => Inv
  <1> SUFFICES ASSUME Init PROVE Inv
    OBVIOUS
  <1>1. Counters /\ RowsOK /\ PinsOK
    BY DEF Init, Counters, RowsOK, PinsOK
  <1>2. DieOK
    BY DEF Init, DieOK, NoRect, Rect, RectOf, Ordered
  <1>3. RowsFillCore
    BY DEF Init, RowsFillCore
  <1> QED  BY <1>1, <1>2, <1>3 DEF Inv

LEMMA InvNext == Inv /\ [Next]_vars => Inv'
  <1> SUFFICES ASSUME Inv, [Next]_vars PROVE Inv'
    OBVIOUS
  <1>1. ASSUME NEW s \in Shapes, NEW site, NEW f, InitFloorplanUtil(s, site, f)
        PROVE  Inv'
    <2>1. Begin /\ given' = given + 1
      BY <1>1 DEF InitFloorplanUtil, Begin
    <2>2. CASE linked
      <3>1. UtilAreas(s) \in [die : RectOf(Nat), core : RectOf(Nat)]
        BY UtilAreasType
      <3>2. Floorplan(UtilAreas(s), site, f)
        BY <1>1, <2>2 DEF InitFloorplanUtil
      <3> QED  BY <2>1, <3>1, <3>2, FloorplanStep
    <2>3. CASE ~linked
      BY <1>1, <2>1, <2>3, SameFloorplan DEF InitFloorplanUtil
    <2> QED  BY <2>2, <2>3
  <1>2. ASSUME NEW a \in Areas, NEW site, NEW f, InitFloorplanCore(a, site, f)
        PROVE  Inv'
    <2>1. a \in [die : RectOf(Nat), core : RectOf(Nat)]
      BY FloorplanAssumption
    <2> QED  BY <1>2, <2>1, FloorplanStep DEF InitFloorplanCore
  <1>3. CASE AutoPlacePins
    <2>1. /\ given \in Nat /\ given' = given + 1 /\ UNCHANGED <<die, rows, asked>>
          /\ pins' = [t \in 1..TermCount |-> {PinPoint(Core, TermCount, t - 1)}]
          /\ pinned' = [call |-> given', core |-> Core]
      BY <1>3 DEF AutoPlacePins, Begin, Inv, Counters
    <2>2. Counters'
      BY <2>1 DEF Inv, Counters
    <2>3. RowsOK' /\ DieOK'
      BY <2>1 DEF Inv, RowsOK, DieOK
    <2>4. RowsFillCore'
      BY <2>1 DEF Inv, RowsFillCore, LastRows
    <2>5. Core \in RectOf(Int) /\ Ordered(Core)
      BY CoreFacts DEF Inv
    <2>6. PinsOK'
      BY <2>1, <2>5 DEF PinsOK
    <2> QED  BY <2>2, <2>3, <2>4, <2>6 DEF Inv
  <1>4. CASE UNCHANGED vars
    BY <1>4, SameFloorplan DEF vars
  <1> QED  BY <1>1, <1>2, <1>3, <1>4 DEF Next

LEMMA InvAlways == Spec => []Inv
  BY InvInit, InvNext, PTL DEF Spec

-----------------------------------------------------------------------------
\* Every command's rows fill the core it asked for: no gap, nothing outside, and no
\* room for one more site (InitFloorplan::makeRows).
THEOREM RowsAlwaysFillCore == Spec => []RowsFillCore
  <1>1. Inv => RowsFillCore
    BY DEF Inv
  <1> QED  BY <1>1, InvAlways, PTL

\* However many floorplans are laid over each other, all sites lie on one grid.
THEOREM SitesAlwaysAlign == Spec => []SitesAlign
  <1>1. Inv => SitesAlign
    <2> SUFFICES ASSUME Inv, NEW r \in rows, NEW s \in rows
                 PROVE  (r.lx - s.lx) % Site.dx = 0 /\ (r.ly - s.ly) % Site.dy = 0
      BY DEF SitesAlign
    <2>1. /\ r.lx \in Int /\ r.ly \in Int /\ s.lx \in Int /\ s.ly \in Int
          /\ Site.dx \in Nat \ {0} /\ Site.dy \in Nat \ {0}
          /\ r.lx % Site.dx = 0 /\ s.lx % Site.dx = 0
          /\ r.ly % Site.dy = 0 /\ s.ly % Site.dy = 0
      BY FloorplanAssumption DEF Inv, RowsOK
    <2>2. ASSUME NEW a \in Int, NEW b \in Int, NEW d \in Nat \ {0}, a % d = 0, b % d = 0
          PROVE  (a - b) % d = 0
      <3>1. PICK k \in Int : a = k * d
        BY <2>2, ZeroRemainder
      <3>2. PICK l \in Int : b = l * d
        BY <2>2, ZeroRemainder
      <3>4. a - b = (k - l) * d
        BY <3>1, <3>2
      <3>5. k - l \in Int
        OBVIOUS
      <3> QED  BY <3>4, <3>5, ModOfMultiple
    <2> QED  BY <2>1, <2>2
  <1> QED  BY <1>1, InvAlways, PTL

\* After auto_place_pins every port has one pin, on the edge of the core.
THEOREM PinsAlwaysOnCoreEdge == Spec => []PinsOnCoreEdge
  <1>1. Inv => PinsOnCoreEdge
    <2> SUFFICES ASSUME Inv, pinned.call # 0, NEW t \in 1..TermCount
                 PROVE  Cardinality(pins[t]) = 1 /\ \A p \in pins[t] : OnEdge(p, pinned.core)
      BY DEF PinsOnCoreEdge
    <2>1. /\ pinned.core \in RectOf(Int) /\ Ordered(pinned.core)
          /\ pins[t] = {PinPoint(pinned.core, TermCount, t - 1)}
      BY DEF Inv, PinsOK
    <2>2. TermCount \in Nat \ {0} /\ t - 1 \in 0..TermCount - 1
      BY FloorplanAssumption
    <2>3. OnEdge(PinPoint(pinned.core, TermCount, t - 1), pinned.core)
      BY <2>1, <2>2, PinPointOnEdge
    <2>4. Cardinality(pins[t]) = 1
      BY <2>1, FS_Singleton
    <2> QED  BY <2>1, <2>3, <2>4
  <1> QED  BY <1>1, InvAlways, PTL

-----------------------------------------------------------------------------
(***************************************************************************)
(* Places of the pins.                                                     *)
(***************************************************************************)
LEMMA QuotientPositive ==
    ASSUME NEW a \in Nat, NEW d \in Nat \ {0}, d <= a
    PROVE  a \div d \in Nat \ {0}
  <1>1. PICK k \in Int, r \in 0..d-1 : k = a \div d /\ a = k * d + r
    BY QuotientRemainder
  <1>2. CASE k <= 0
    <2>1. (-k) * d >= 0 /\ (-k) * d = -(k * d)
      BY <1>1, <1>2
    <2> QED  BY <1>1, <2>1
  <1> QED  BY <1>1, <1>2

\* The walk meets no place of its way around twice.
LEMMA WalkApart ==
    ASSUME NEW core \in RectOf(Int), Dx(core) > 0, Dy(core) > 0,
           NEW count \in Nat \ {0}, count <= 2 * Dx(core) + 2 * Dy(core),
           NEW i \in 0..count-1, NEW j \in 0..count-1, i < j
    PROVE  PinPoint(core, count, i) # PinPoint(core, count, j)
  <1> DEFINE per == 2 * Dx(core) + 2 * Dy(core)
             d == per \div count
             a == i * d
             b == j * d
  <1>1. /\ core.lx \in Int /\ core.ly \in Int /\ core.ux \in Int /\ core.uy \in Int
        /\ Dx(core) \in Nat /\ Dy(core) \in Nat
        /\ Dx(core) = core.ux - core.lx /\ Dy(core) = core.uy - core.ly
    BY DEF RectOf, Dx, Dy
  <1>2. per \in Nat
    BY <1>1
  <1>3. a \in Nat /\ b \in Nat /\ a + d <= per /\ b + d <= per
    BY <1>2, WalkLength
  <1>4. d \in Nat \ {0}
    <2>0. per \in Nat /\ count <= per
      BY <1>2
    <2> HIDE DEF per
    <2> QED  BY <2>0, QuotientPositive
  <1> HIDE DEF d
  <1>5. a < b
    <2>1. (j - i) * d >= d
      <3>1. j - i \in Nat /\ 1 <= j - i
        OBVIOUS
      <3>2. 1 * d <= (j - i) * d
        BY <1>4, <3>1, MultipleOrder
      <3> QED  BY <1>4, <3>2
    <2>2. (j - i) * d = j * d - i * d
      BY <1>4
    <2> QED  BY <1>3, <1>4, <2>1, <2>2
  <1> HIDE DEF a, b
  <1>6. a < b /\ b < 2 * Dx(core) + 2 * Dy(core)
    BY <1>2, <1>3, <1>4, <1>5
  <1> DEFINE point(loc) ==
        IF loc < Dx(core) THEN [x |-> core.lx + loc, y |-> core.ly]
        ELSE IF loc < Dx(core) + Dy(core) THEN [x |-> core.ux, y |-> core.ly + (loc - Dx(core))]
        ELSE IF loc < 2 * Dx(core) + Dy(core)
             THEN [x |-> core.ux - (loc - (Dx(core) + Dy(core))), y |-> core.uy]
        ELSE [x |-> core.lx, y |-> core.uy - (loc - (2 * Dx(core) + Dy(core)))]
  <1>7. PinPoint(core, count, i) = point(a) /\ PinPoint(core, count, j) = point(b)
    BY DEF PinPoint, a, b, d
  <1> HIDE DEF per
  <1>8. point(a) # point(b)
    <2>1. CASE a < Dx(core)
      BY <1>1, <1>3, <1>6, <2>1
    <2>2. CASE ~(a < Dx(core)) /\ a < Dx(core) + Dy(core)
      BY <1>1, <1>3, <1>6, <2>2
    <2>3. CASE ~(a < Dx(core) + Dy(core)) /\ a < 2 * Dx(core) + Dy(core)
      BY <1>1, <1>3, <1>6, <2>3
    <2>4. CASE ~(a < 2 * Dx(core) + Dy(core))
      BY <1>1, <1>3, <1>6, <2>4
    <2> QED  BY <2>1, <2>2, <2>3, <2>4
  <1> QED  BY <1>7, <1>8

\* No two ports get the same place, if the core has an inside and a perimeter of at
\* least the ports (InitFloorplan::autoPlacePins).
THEOREM PinsAlwaysSpread == Spec => []PinsSpread
  <1>1. Inv => PinsSpread
    <2> SUFFICES ASSUME Inv, pinned.call # 0,
                        Dx(pinned.core) > 0, Dy(pinned.core) > 0,
                        2 * Dx(pinned.core) + 2 * Dy(pinned.core) >= TermCount,
                        NEW t \in 1..TermCount, NEW u \in 1..TermCount, t # u
                 PROVE  pins[t] \cap pins[u] = {}
      BY DEF PinsSpread
    <2> DEFINE point(k) == PinPoint(pinned.core, TermCount, k - 1)
    <2>1. /\ pinned.core \in RectOf(Int)
          /\ pins[t] = {point(t)} /\ pins[u] = {point(u)}
      BY DEF Inv, PinsOK
    <2>2. TermCount \in Nat \ {0} /\ t - 1 \in 0..TermCount - 1 /\ u - 1 \in 0..TermCount - 1
      BY FloorplanAssumption
    <2>3. TermCount <= 2 * Dx(pinned.core) + 2 * Dy(pinned.core)
      BY <2>1, <2>2 DEF RectOf, Dx, Dy
    <2>4. CASE t < u
      <3>1. t - 1 < u - 1
        BY <2>4
      <3>2. point(t) # point(u)
        BY <2>1, <2>2, <2>3, <3>1, WalkApart
      <3> QED  BY <2>1, <3>2
    <2>5. CASE u < t
      <3>1. u - 1 < t - 1
        BY <2>5
      <3>2. point(u) # point(t)
        BY <2>1, <2>2, <2>3, <3>1, WalkApart
      <3> QED  BY <2>1, <3>2
    <2> QED  BY <2>4, <2>5
  <1> QED  BY <1>1, InvAlways, PTL

-----------------------------------------------------------------------------
(***************************************************************************)
(* Rows and die.                                                           *)
(***************************************************************************)
LEMMA QuotientOrder ==
    ASSUME NEW a \in Nat, NEW b \in Nat, a <= b, NEW d \in Nat \ {0}
    PROVE  a \div d <= b \div d
  <1>1. PICK k \in Int, r \in 0..d-1 : k = a \div d /\ a = k * d + r
    BY QuotientRemainder
  <1>2. PICK l \in Int, s \in 0..d-1 : l = b \div d /\ b = l * d + s
    BY QuotientRemainder
  <1>3. CASE l < k
    <2>1. (k - l) * d = k * d - l * d /\ k - l \in Nat /\ 1 <= k - l
      BY <1>1, <1>2, <1>3
    <2>2. 1 * d <= (k - l) * d
      BY <2>1, MultipleOrder
    <2> QED  BY <1>1, <1>2, <2>1, <2>2
  <1> QED  BY <1>1, <1>2, <1>3

\* Rounding keeps the order of lengths, and zero.
LEMMA GridOrder ==
    ASSUME NEW a \in Nat, NEW b \in Nat, a <= b
    PROVE  MetersToMfgGrid(a) <= MetersToMfgGrid(b)
  <1>1. CASE Grid # 0
    <2> DEFINE up(x) == 2 * x * UnitDbu + Grid
    <2>1. Grid \in Nat /\ 2 * Grid \in Nat \ {0} /\ UnitDbu \in Nat
      BY <1>1, FloorplanAssumption
    <2>2. a * UnitDbu \in Nat /\ b * UnitDbu \in Nat /\ a * UnitDbu <= b * UnitDbu
      BY <2>1, MultipleOrder
    <2>3. 2 * a * UnitDbu = 2 * (a * UnitDbu) /\ 2 * b * UnitDbu = 2 * (b * UnitDbu)
      BY <2>1
    <2>4. up(a) \in Nat /\ up(b) \in Nat /\ up(a) <= up(b)
      BY <2>1, <2>2, <2>3
    <2> HIDE DEF up
    <2>5. up(a) \div (2 * Grid) \in Nat /\ up(b) \div (2 * Grid) \in Nat
      BY <2>1, <2>4
    <2>6. up(a) \div (2 * Grid) <= up(b) \div (2 * Grid)
      BY <2>1, <2>4, QuotientOrder
    <2>7. (up(a) \div (2 * Grid)) * Grid <= (up(b) \div (2 * Grid)) * Grid
      BY <2>1, <2>5, <2>6, MultipleOrder
    <2> QED  BY <1>1, <2>7 DEF MetersToMfgGrid, up
  <1>2. CASE Grid = 0
    BY <1>2 DEF MetersToMfgGrid
  <1> QED  BY <1>1, <1>2

LEMMA GridOfZero == MetersToMfgGrid(0) = 0
  <1>1. CASE Grid # 0
    <2>1. Grid \in Nat \ {0} /\ UnitDbu \in Nat
      BY <1>1, FloorplanAssumption
    <2>2. 2 * 0 * UnitDbu + Grid = Grid
      BY <2>1
    <2>3. Grid \div (2 * Grid) = 0
      <3>1. PICK k \in Int, r \in 0..(2 * Grid) - 1 : k = Grid \div (2 * Grid) /\ Grid = k * (2 * Grid) + r
        BY <2>1, QuotientRemainder
      <3>2. -(2 * Grid) < k * (2 * Grid) /\ k * (2 * Grid) < 2 * Grid
        BY <2>1, <3>1
      <3> QED  BY <2>1, <3>1, <3>2, SmallMultiple
    <2>4. 0 * Grid = 0
      BY <2>1
    <2> QED  BY <1>1, <2>2, <2>3, <2>4 DEF MetersToMfgGrid
  <1>2. CASE Grid = 0
    BY <1>2 DEF MetersToMfgGrid
  <1> QED  BY <1>1, <1>2

\* What a command was asked for is lengths.
AskedOK == asked.area \in [die : RectOf(Nat), core : RectOf(Nat)]

LEMMA AskedAlways == Spec => []AskedOK
  <1>1. Init => AskedOK
    BY DEF Init, AskedOK, NoRect, Rect, RectOf
  <1>2. AskedOK /\ [Next]_vars => AskedOK'
    <2> SUFFICES ASSUME AskedOK, [Next]_vars PROVE AskedOK'
      OBVIOUS
    <2>1. ASSUME NEW area \in [die : RectOf(Nat), core : RectOf(Nat)], NEW site, NEW f,
                 Floorplan(area, site, f)
          PROVE  AskedOK'
      BY <2>1 DEF Floorplan, AskedOK
    <2>2. ASSUME NEW s \in Shapes, NEW site, NEW f, InitFloorplanUtil(s, site, f)
          PROVE  AskedOK'
      <3>1. CASE linked
        BY <2>1, <2>2, <3>1, UtilAreasType DEF InitFloorplanUtil
      <3>2. CASE ~linked
        BY <2>2, <3>2 DEF InitFloorplanUtil, AskedOK
      <3> QED  BY <3>1, <3>2
    <2>3. ASSUME NEW a \in Areas, NEW site, NEW f, InitFloorplanCore(a, site, f)
          PROVE  AskedOK'
      BY <2>1, <2>3, FloorplanAssumption DEF InitFloorplanCore
    <2>4. CASE AutoPlacePins \/ UNCHANGED vars
      BY <2>4 DEF AutoPlacePins, vars, AskedOK
    <2> QED  BY <2>2, <2>3, <2>4 DEF Next
  <1> QED  BY <1>1, <1>2, PTL DEF Spec

\* A core asked for in a die at the origin gives rows in the die, whatever the two
\* roundings make of them (InitFloorplan::initFloorplan, makeRows).
THEOREM RowsAlwaysInDie == Spec => []RowsInDie
  <1>1. Inv /\ AskedOK => RowsInDie
    <2> DEFINE die_area == asked.area.die
               core == asked.area.core
               c == Snapped(core)
               d == DieArea(die_area)
    <2> SUFFICES ASSUME Inv, AskedOK, asked.call # 0, Ordered(core), Within(core, die_area),
                        die_area.lx = 0, die_area.ly = 0, Ordered(c), NEW r \in LastRows
                 PROVE  Within(Rect(r.lx, r.ly, r.lx + r.sites * Site.dx, r.ly + Site.dy), d)
      BY DEF RowsInDie
    <2>1. core \in RectOf(Nat) /\ die_area \in RectOf(Nat)
      BY DEF AskedOK
    <2>2. /\ core.ux \in Nat /\ core.uy \in Nat /\ die_area.ux \in Nat /\ die_area.uy \in Nat
          /\ core.ux <= die_area.ux /\ core.uy <= die_area.uy
      BY <2>1 DEF RectOf, Within
    <2>3. /\ MetersToMfgGrid(core.ux) <= MetersToMfgGrid(die_area.ux)
          /\ MetersToMfgGrid(core.uy) <= MetersToMfgGrid(die_area.uy)
          /\ MetersToMfgGrid(die_area.ux) \in Nat /\ MetersToMfgGrid(die_area.uy) \in Nat
      BY <2>2, GridOrder, GridType
    <2>4. /\ d.lx = 0 /\ d.ly = 0
          /\ d.ux = MetersToMfgGrid(die_area.ux) /\ d.uy = MetersToMfgGrid(die_area.uy)
      <3>1. \A k \in Nat : Smaller(0, k) = 0 /\ Larger(0, k) = k
        BY DEF Smaller, Larger
      <3>2. /\ d.lx = Smaller(0, MetersToMfgGrid(die_area.ux))
            /\ d.ly = Smaller(0, MetersToMfgGrid(die_area.uy))
            /\ d.ux = Larger(0, MetersToMfgGrid(die_area.ux))
            /\ d.uy = Larger(0, MetersToMfgGrid(die_area.uy))
        BY GridOfZero DEF DieArea, OnMfgGrid, Rect
      <3> QED  BY <2>3, <3>1, <3>2
    <2>5. /\ c \in RectOf(Nat)
          /\ c.ux = MetersToMfgGrid(core.ux) /\ c.uy = MetersToMfgGrid(core.uy)
      BY <2>1, SnappedFacts DEF Snapped, Rect
    <2>6. /\ r.ly \in {y \in c.ly..c.uy - Site.dy : (y - c.ly) % Site.dy = 0}
          /\ r.lx = c.lx /\ c.ux - (r.lx + r.sites * Site.dx) \in 0..Site.dx - 1
      BY DEF Inv, RowsFillCore
    <2>7. r.lx \in Nat /\ r.sites * Site.dx \in Int /\ Site.dy \in Nat
      <3>1. r.lx \in Nat /\ r.sites \in Nat /\ Site.dx \in Nat /\ Site.dy \in Nat
        BY FloorplanAssumption DEF Inv, RowsOK, LastRows
      <3> QED  BY <3>1
    <2>8. c.ux \in Nat /\ c.uy \in Nat /\ c.ly \in Nat
      BY <2>5 DEF RectOf
    <2> HIDE DEF c, d, core, die_area
    <2>9. r.ly \in Nat /\ r.ly + Site.dy <= c.uy /\ r.lx + r.sites * Site.dx <= c.ux
      BY <2>6, <2>7, <2>8
    <2> QED  BY <2>3, <2>4, <2>5, <2>7, <2>8, <2>9 DEF Within, Rect
  <1> QED  BY <1>1, InvAlways, AskedAlways, PTL

-----------------------------------------------------------------------------
(***************************************************************************)
(* Tracks.                                                                 *)
(***************************************************************************)
\* A pattern laid for the die d: by a line of the file, or by its layer.
Laid(p, d) ==
    \/ \E line \in Lines : line.pitch # 0 /\ p = FilePattern(d, line)
    \/ \E l \in Layer : Direction[l] # "none" /\ Pitch[l] # 0 /\ p = DefaultPattern(d, l)

LEMMA ExtentType ==
    ASSUME NEW d \in RectOf(Nat), Ordered(d), NEW axis \in {"X", "Y"}
    PROVE  Extent(d, axis) \in Nat /\ Origin(d, axis) \in Nat
  BY DEF RectOf, Ordered, Extent, Origin, Dx, Dy

LEMMA FilePatternType ==
    ASSUME NEW d \in RectOf(Nat), Ordered(d), NEW line \in Lines, line.pitch # 0
    PROVE  FilePattern(d, line) \in Patterns
  <1>1. /\ line.axis \in {"X", "Y"} /\ line.offset \in Nat /\ line.pitch \in Nat \ {0}
        /\ Extent(d, line.axis) \in Nat /\ Origin(d, line.axis) \in Nat
    BY ExtentType DEF Lines
  <1> DEFINE a == Extent(d, line.axis) - line.offset
  <1>2. a \in Int
    BY <1>1
  <1> HIDE DEF a
  <1>3. Truncated(a, line.pitch) \in Int
    BY <1>1, <1>2 DEF Truncated
  <1> QED  BY <1>1, <1>3 DEF FilePattern, Pattern, Patterns, a

LEMMA DefaultPatternType ==
    ASSUME NEW d \in RectOf(Nat), Ordered(d),
           NEW l \in Layer, Direction[l] # "none", Pitch[l] # 0
    PROVE  DefaultPattern(d, l) \in Patterns
  <1> DEFINE offset == IF Offset[l] = 0 THEN Pitch[l] ELSE Offset[l]
             a == Extent(d, Direction[l]) - offset
  <1>1. /\ Direction[l] \in {"X", "Y"} /\ Pitch[l] \in Nat \ {0} /\ offset \in Nat
        /\ Word \in Nat \ {0}
    BY TracksAssumption
  <1>2. Extent(d, Direction[l]) \in Nat
    BY <1>1, ExtentType
  <1>3. a \in Int
    BY <1>1, <1>2
  <1>4. DefaultPattern(d, l)
          = Pattern("layer", Direction[l], offset, (a % Word) \div Pitch[l] + 1, Pitch[l])
    BY DEF DefaultPattern
  <1> HIDE DEF a, offset
  <1>5. a % Word \in Int
    BY <1>1, <1>3
  <1>6. (a % Word) \div Pitch[l] \in Int
    BY <1>1, <1>5
  <1> QED  BY <1>1, <1>4, <1>6 DEF Pattern, Patterns

\* count tracks from s fill an extent of a from s on.
LEMMA Filling ==
    ASSUME NEW a \in Nat, NEW d \in Nat \ {0}
    PROVE  ((a \div d + 1) - 1) * d <= a /\ a < ((a \div d + 1) - 1) * d + d
  <1>1. PICK k \in Int, r \in 0..d-1 : k = a \div d /\ a = k * d + r
    BY QuotientRemainder
  <1>2. ((k + 1) - 1) * d = k * d /\ k * d \in Int
    BY <1>1
  <1> QED  BY <1>1, <1>2

LEMMA SmallRemainder ==
    ASSUME NEW d \in Nat \ {0}, NEW a \in 0..d-1
    PROVE  a % d = a
  <1>0. a \in Int
    OBVIOUS
  <1>1. PICK k \in Int, r \in 0..d-1 : r = a % d /\ a = k * d + r
    BY <1>0, QuotientRemainder
  <1>2. k = 0
    BY <1>1, SmallMultiple
  <1> QED  BY <1>1, <1>2

LEMMA LaidFillsDie ==
    ASSUME NEW d \in RectOf(Nat), Ordered(d), NEW p, Laid(p, d),
           p.start <= Origin(d, p.axis) + Extent(d, p.axis),
           Extent(d, p.axis) < Word,
           p.from = "layer" => Origin(d, p.axis) = 0
    PROVE  FillsDie(p, d)
  <1>1. CASE \E line \in Lines : line.pitch # 0 /\ p = FilePattern(d, line)
    <2>1. PICK line \in Lines : line.pitch # 0 /\ p = FilePattern(d, line)
      BY <1>1
    <2> DEFINE e == Extent(d, line.axis)
               o == Origin(d, line.axis)
               a == e - line.offset
    <2>2. line.offset \in Nat /\ line.pitch \in Nat \ {0} /\ e \in Nat /\ o \in Nat
      BY <2>1, ExtentType DEF Lines
    <2>3. /\ p.start = o + line.offset /\ p.axis = line.axis /\ p.pitch = line.pitch
          /\ p.count = Truncated(a, line.pitch) + 1
      BY <2>1 DEF FilePattern, Pattern
    <2>4. line.offset <= e
      BY <2>2, <2>3
    <2>5. a \in Nat
      BY <2>2, <2>4
    <2>6. Truncated(a, line.pitch) = a \div line.pitch
      BY <2>5 DEF Truncated
    <2> DEFINE last == ((a \div line.pitch + 1) - 1) * line.pitch
    <2>7. last <= a /\ a < last + line.pitch
      BY <2>2, <2>5, Filling
    <2>8. last \in Int
      <3> HIDE DEF a
      <3>1. a \div line.pitch \in Int
        BY <2>2, <2>5
      <3> QED  BY <2>2, <3>1
    <2>9. (p.count - 1) * p.pitch = last
      BY <2>3, <2>6
    <2> HIDE DEF last
    <2>10. o <= p.start /\ p.start + last <= o + e /\ o + e < p.start + last + line.pitch
      BY <2>2, <2>3, <2>7, <2>8
    <2> QED  BY <2>3, <2>9, <2>10 DEF FillsDie
  <1>2. CASE \E l \in Layer : Direction[l] # "none" /\ Pitch[l] # 0 /\ p = DefaultPattern(d, l)
    <2>1. PICK l \in Layer : Direction[l] # "none" /\ Pitch[l] # 0 /\ p = DefaultPattern(d, l)
      BY <1>2
    <2> DEFINE e == Extent(d, Direction[l])
               offset == IF Offset[l] = 0 THEN Pitch[l] ELSE Offset[l]
               a == e - offset
    <2>2. /\ Direction[l] \in {"X", "Y"} /\ Pitch[l] \in Nat \ {0} /\ offset \in Nat
          /\ Word \in Nat \ {0}
      BY <2>1, TracksAssumption
    <2>3. e \in Nat
      BY <2>2, ExtentType
    <2>4. /\ p.start = offset /\ p.axis = Direction[l] /\ p.pitch = Pitch[l]
          /\ p.count = (a % Word) \div Pitch[l] + 1 /\ p.from = "layer"
      BY <2>1 DEF DefaultPattern, Pattern
    <2>5. Origin(d, Direction[l]) = 0 /\ offset <= e /\ e < Word
      BY <2>2, <2>3, <2>4
    <2>6. a \in 0..Word - 1
      BY <2>2, <2>3, <2>5
    <2>7. a % Word = a
      <3> HIDE DEF a
      <3> QED  BY <2>2, <2>6, SmallRemainder
    <2> DEFINE last == ((a \div Pitch[l] + 1) - 1) * Pitch[l]
    <2>8. last <= a /\ a < last + Pitch[l]
      <3> HIDE DEF a
      <3>1. a \in Nat
        BY <2>2, <2>6
      <3> QED  BY <2>2, <3>1, Filling
    <2>9. last \in Int
      <3> HIDE DEF a
      <3>1. a \div Pitch[l] \in Int
        BY <2>2, <2>6
      <3> QED  BY <2>2, <3>1
    <2>10. (p.count - 1) * p.pitch = last
      BY <2>4, <2>7
    <2> HIDE DEF last, offset
    <2>11. 0 <= p.start /\ p.start + last <= e /\ e < p.start + last + Pitch[l]
      BY <2>2, <2>3, <2>4, <2>8, <2>9
    <2> QED  BY <2>3, <2>4, <2>5, <2>10, <2>11 DEF FillsDie
  <1> QED  BY <1>1, <1>2 DEF Laid

GridsType(gs) == \A l \in DOMAIN gs : gs[l] \in Seq(Patterns)

\* gs keeps the patterns of grids, and every other one is laid for the die d.
Grown(gs, d) ==
    /\ GridsType(gs)
    /\ DOMAIN grids \subseteq DOMAIN gs
    /\ \A l \in DOMAIN grids : Len(grids[l]) <= Len(gs[l])
    /\ \A l \in DOMAIN gs : \A k \in DOMAIN gs[l] :
          (l \in DOMAIN grids => k > Len(grids[l])) => Laid(gs[l][k], d)

LEMMA SameGrown ==
    ASSUME GridsType(grids), NEW d
    PROVE  Grown(grids, d)
  <1>1. \A l \in DOMAIN grids : Len(grids[l]) \in Nat /\ DOMAIN grids[l] = 1..Len(grids[l])
    BY DEF GridsType
  <1> QED  BY <1>1 DEF Grown

LEMMA AddPatternGrown ==
    ASSUME GridsType(grids), NEW d, NEW gs, Grown(gs, d),
           NEW l, NEW p \in Patterns, Laid(p, d)
    PROVE  Grown(AddPattern(gs, l, p), d)
  <1> DEFINE hs == AddPattern(gs, l, p)
  <1>1. DOMAIN hs = DOMAIN gs \cup {l}
    BY DEF AddPattern
  <1>2. \A k \in DOMAIN gs : k # l => hs[k] = gs[k]
    BY DEF AddPattern
  <1>3. hs[l] = IF l \in DOMAIN gs THEN Append(gs[l], p) ELSE <<p>>
    BY DEF AddPattern
  <1>4. \A k \in DOMAIN gs : gs[k] \in Seq(Patterns)
    BY DEF Grown, GridsType
  <1>5. hs[l] \in Seq(Patterns)
    <2>1. l \in DOMAIN gs => Append(gs[l], p) \in Seq(Patterns)
      BY <1>4
    <2>2. <<p>> \in Seq(Patterns)
      OBVIOUS
    <2> QED  BY <1>3, <2>1, <2>2
  <1>a. DOMAIN grids \subseteq DOMAIN gs /\ \A k \in DOMAIN grids : grids[k] \in Seq(Patterns)
    BY DEF Grown, GridsType
  <1>b. \A m \in DOMAIN gs : \A k \in DOMAIN gs[m] :
           (m \in DOMAIN grids => k > Len(grids[m])) => Laid(gs[m][k], d)
    BY DEF Grown
  <1>c. \A k \in DOMAIN grids : Len(grids[k]) <= Len(gs[k])
    BY DEF Grown
  <1> HIDE DEF hs
  <1>6. GridsType(hs)
    BY <1>1, <1>2, <1>4, <1>5 DEF GridsType
  <1>7. \A k \in DOMAIN grids : Len(grids[k]) <= Len(hs[k])
    <2> SUFFICES ASSUME NEW k \in DOMAIN grids PROVE Len(grids[k]) <= Len(hs[k])
      OBVIOUS
    <2>1. CASE k # l
      BY <1>2, <1>a, <1>c, <2>1
    <2>2. CASE k = l
      <3>1. gs[l] \in Seq(Patterns) /\ hs[l] = Append(gs[l], p) /\ grids[l] \in Seq(Patterns)
        BY <1>3, <1>4, <1>a, <2>2
      <3>2. Len(hs[l]) = Len(gs[l]) + 1 /\ Len(gs[l]) \in Nat /\ Len(grids[l]) \in Nat
        BY <3>1
      <3> QED  BY <1>c, <2>2, <3>2
    <2> QED  BY <2>1, <2>2
  <1>8. ASSUME NEW m \in DOMAIN hs, NEW k \in DOMAIN hs[m],
               m \in DOMAIN grids => k > Len(grids[m])
        PROVE  Laid(hs[m][k], d)
    <2>1. CASE m # l
      <3>1. m \in DOMAIN gs /\ hs[m] = gs[m]
        BY <1>1, <1>2, <2>1
      <3> QED  BY <1>8, <1>b, <3>1
    <2>2. CASE m = l /\ l \in DOMAIN gs
      <3>1. gs[l] \in Seq(Patterns) /\ hs[l] = Append(gs[l], p)
        BY <1>3, <1>4, <2>2
      <3>2. CASE k \in DOMAIN gs[l]
        <4>1. hs[l][k] = gs[l][k]
          BY <3>1, <3>2
        <4> QED  BY <1>8, <1>b, <2>2, <3>2, <4>1
      <3>3. CASE k \notin DOMAIN gs[l]
        <4>1. hs[l][k] = p
          BY <2>2, <3>1, <3>3
        <4> QED  BY <2>2, <4>1
      <3> QED  BY <3>2, <3>3
    <2>3. CASE m = l /\ l \notin DOMAIN gs
      BY <1>3, <2>3
    <2> QED  BY <2>1, <2>2, <2>3
  <1>9. DOMAIN grids \subseteq DOMAIN hs
    BY <1>1, <1>a
  <1> QED  BY <1>6, <1>7, <1>8, <1>9 DEF Grown, hs

\* There is a function that lays the first n lines, for every n: without one, GridsAfter
\* would say nothing.
Lays(f, d, lines, n) ==
    f = [k \in 0..n |-> IF k = 0 THEN grids
                        ELSE AddPattern(f[k - 1], lines[k].layer, FilePattern(d, lines[k]))]

LEMMA GridsAfterExists ==
    ASSUME NEW d, NEW lines, NEW n \in Nat
    PROVE  \E f : Lays(f, d, lines, n)
  <1> DEFINE step(gs, k) == AddPattern(gs, lines[k].layer, FilePattern(d, lines[k]))
             LaysTo(f, m) == f = [k \in 0..m |-> IF k = 0 THEN grids ELSE step(f[k - 1], k)]
             T == {m \in Nat : ~ \E f : LaysTo(f, m)}
  <1> HIDE DEF step
  <1>1. SUFFICES ASSUME n \in T PROVE FALSE
    BY DEF step, Lays
  <1>2. T \in SUBSET Nat /\ T # {}
    BY <1>1
  <1>3. PICK m \in T : \A k \in T : m <= k
    BY <1>2, NatMin
  <1>4. m # 0
    <2>1. LaysTo([k \in 0..0 |-> grids], 0)
      OBVIOUS
    <2> QED  BY <2>1
  <1>5. m - 1 \in Nat /\ m - 1 \notin T
    BY <1>3, <1>4
  <1>6. PICK f : LaysTo(f, m - 1)
    BY <1>5
  <1> DEFINE g == [k \in 0..m |-> IF k = m THEN step(f[m - 1], m) ELSE f[k]]
  <1>7. ASSUME NEW k \in 0..m
        PROVE  g[k] = IF k = 0 THEN grids ELSE step(g[k - 1], k)
    <2>1. CASE k = m
      BY <1>3, <1>4, <2>1
    <2>2. CASE k # m
      <3>1. k \in 0..(m - 1) /\ g[k] = f[k]
        BY <1>3, <2>2
      <3>2. f[k] = IF k = 0 THEN grids ELSE step(f[k - 1], k)
        BY <1>6, <3>1
      <3>3. k # 0 => k - 1 \in 0..m /\ k - 1 # m /\ g[k - 1] = f[k - 1]
        BY <1>3, <3>1
      <3> QED  BY <3>1, <3>2, <3>3
    <2> QED  BY <2>1, <2>2
  <1>8. LaysTo(g, m)
    BY <1>7
  <1> QED  BY <1>3, <1>8

LEMMA GridsAfterGrown ==
    ASSUME GridsType(grids), NEW d \in RectOf(Nat), Ordered(d),
           NEW lines \in Seq(Lines), \A k \in DOMAIN lines : lines[k].pitch # 0
    PROVE  Grown(GridsAfter(d, lines)[Len(lines)], d)
  <1> DEFINE n == Len(lines)
             f == GridsAfter(d, lines)
             step(gs, k) == AddPattern(gs, lines[k].layer, FilePattern(d, lines[k]))
             T == {k \in 0..n : ~ Grown(f[k], d)}
  <1>1. n \in Nat
    OBVIOUS
  <1>2. f = [k \in 0..n |-> IF k = 0 THEN grids ELSE step(f[k - 1], k)]
    <2> HIDE DEF n
    <2>1. \E g : Lays(g, d, lines, n)
      BY <1>1, GridsAfterExists
    <2> QED  BY <2>1 DEF GridsAfter, Lays, n
  <1> HIDE DEF f
  <1>3. f[0] = grids /\ \A k \in 1..n : f[k] = step(f[k - 1], k)
    BY <1>1, <1>2
  <1> HIDE DEF step
  <1>4. SUFFICES ASSUME n \in T PROVE FALSE
    BY <1>1 DEF f
  <1>5. T \in SUBSET Nat /\ T # {}
    BY <1>1, <1>4
  <1>6. PICK m \in T : \A k \in T : m <= k
    BY <1>5, NatMin
  <1>7. m # 0
    BY <1>3, SameGrown
  <1>8. m - 1 \in 0..n /\ m - 1 \notin T /\ m \in 1..n
    BY <1>1, <1>6, <1>7
  <1>9. Grown(f[m - 1], d)
    BY <1>8
  <1>10. lines[m] \in Lines /\ lines[m].pitch # 0
    <2>1. m \in DOMAIN lines
      BY <1>8
    <2> QED  BY <2>1
  <1>11. FilePattern(d, lines[m]) \in Patterns /\ Laid(FilePattern(d, lines[m]), d)
    BY <1>10, FilePatternType DEF Laid
  <1>12. Grown(step(f[m - 1], m), d)
    BY <1>9, <1>11, AddPatternGrown DEF step
  <1> QED  BY <1>3, <1>6, <1>8, <1>12

LEMMA FileLinesType ==
    ASSUME NEW file \in TrackFiles
    PROVE  FileLines(file) \in Seq(Lines)
  <1>1. file.lines \in Seq(Lines)
    BY TracksAssumption
  <1>2. \A k \in DOMAIN file.lines : LineOnGrid(file.lines[k]) \in Lines
    <2> SUFFICES ASSUME NEW k \in DOMAIN file.lines PROVE LineOnGrid(file.lines[k]) \in Lines
      OBVIOUS
    <2>1. file.lines[k] \in Lines
      BY <1>1
    <2>2. /\ MetersToMfgGrid(file.lines[k].offset) \in Nat
          /\ MetersToMfgGrid(file.lines[k].pitch) \in Nat
      BY <2>1, GridType DEF Lines
    <2> QED  BY <2>1, <2>2 DEF LineOnGrid, Lines
  <1>3. DOMAIN file.lines = 1..Len(file.lines) /\ Len(file.lines) \in Nat
    BY <1>1
  <1> QED  BY <1>2, <1>3 DEF FileLines

\* The two ways to make tracks: either lays patterns for the new die and nothing else.
LEMMA TracksGrown ==
    ASSUME GridsType(grids), NEW d \in RectOf(Nat), Ordered(d), NEW file \in TrackFiles,
           MakeTracksFromFile(file, d) \/ MakeDefaultTracks(d)
    PROVE  Grown(grids', d)
  <1>1. CASE UNCHANGED grids
    BY <1>1, SameGrown
  <1>2. CASE /\ ~ZeroPitch(file)
             /\ grids' = GridsAfter(d, FileLines(file))[Len(FileLines(file))]
    <2>1. FileLines(file) \in Seq(Lines) /\ \A k \in DOMAIN FileLines(file) : FileLines(file)[k].pitch # 0
      BY <1>2, FileLinesType DEF ZeroPitch
    <2> QED  BY <1>2, <2>1, GridsAfterGrown
  <1>3. CASE MakeDefaultTracks(d) /\ ~UNCHANGED grids
    <2> DEFINE routing == {l \in Layer : Direction[l] # "none"}
    <2>1. grids' = [l \in DOMAIN grids \cup routing |->
                            IF l \in DOMAIN grids THEN grids[l]
                            ELSE IF Pitch[l] = 0 THEN <<>> ELSE <<DefaultPattern(d, l)>>]
      BY <1>3 DEF MakeDefaultTracks
    <2>2. \A l \in DOMAIN grids : grids[l] \in Seq(Patterns) /\ grids'[l] = grids[l]
      BY <2>1 DEF GridsType
    <2>3. \A l \in DOMAIN grids : /\ Len(grids[l]) \in Nat
                                  /\ DOMAIN grids[l] = 1..Len(grids[l])
      BY <2>2
    <2>4. ASSUME NEW l \in routing, l \notin DOMAIN grids
          PROVE  grids'[l] \in Seq(Patterns) /\ \A k \in DOMAIN grids'[l] : Laid(grids'[l][k], d)
      <3>1. CASE Pitch[l] = 0
        BY <2>1, <2>4, <3>1
      <3>2. CASE Pitch[l] # 0
        <4>1. DefaultPattern(d, l) \in Patterns /\ Laid(DefaultPattern(d, l), d)
          BY <3>2, DefaultPatternType DEF Laid
        <4>2. grids'[l] = <<DefaultPattern(d, l)>>
          BY <2>1, <2>4, <3>2
        <4> QED  BY <4>1, <4>2
      <3> QED  BY <3>1, <3>2
    <2>5. DOMAIN grids' = DOMAIN grids \cup routing
      BY <2>1
    <2> HIDE DEF routing
    <2>6. GridsType(grids')
      BY <2>2, <2>4, <2>5 DEF GridsType
    <2>7. ASSUME NEW l \in DOMAIN grids', NEW k \in DOMAIN grids'[l],
                 l \in DOMAIN grids => k > Len(grids[l])
          PROVE  Laid(grids'[l][k], d)
      <3>1. CASE l \in DOMAIN grids
        BY <2>2, <2>3, <2>7, <3>1
      <3>2. CASE l \notin DOMAIN grids
        BY <2>4, <2>5, <2>7, <3>2
      <3> QED  BY <3>1, <3>2
    <2>8. \A l \in DOMAIN grids : Len(grids[l]) <= Len(grids'[l])
      BY <2>2, <2>3
    <2> QED  BY <2>5, <2>6, <2>7, <2>8 DEF Grown
  <1> QED  BY <1>1, <1>2, <1>3 DEF MakeTracksFromFile

GridsOK == GridsType(grids)

\* What a command does to the grids.
LEMMA CommandGrown ==
    ASSUME GridsOK, Next
    PROVE  UNCHANGED grids \/ (die' \in RectOf(Nat) /\ Ordered(die') /\ Grown(grids', die'))
  <1>1. ASSUME NEW area \in [die : RectOf(Nat), core : RectOf(Nat)], NEW site,
               NEW f \in TrackFiles, Floorplan(area, site, f)
        PROVE  UNCHANGED grids \/ (die' \in RectOf(Nat) /\ Ordered(die') /\ Grown(grids', die'))
    <2>1. die' \in RectOf(Nat) /\ Ordered(die')
      <3>1. die' = DieArea(area.die)
        BY <1>1 DEF Floorplan
      <3> QED  BY <3>1, DieAreaType
    <2>2. CASE site = "found"
      <3>1. MakeTracksFromFile(f, die') \/ MakeDefaultTracks(die')
        BY <1>1, <2>2 DEF Floorplan
      <3> QED  BY <2>1, <3>1, TracksGrown DEF GridsOK
    <2>3. CASE site # "found"
      BY <1>1, <2>3 DEF Floorplan
    <2> QED  BY <2>1, <2>2, <2>3
  <1>2. ASSUME NEW s \in Shapes, NEW site, NEW f \in TrackFiles, InitFloorplanUtil(s, site, f)
        PROVE  UNCHANGED grids \/ (die' \in RectOf(Nat) /\ Ordered(die') /\ Grown(grids', die'))
    <2>1. CASE linked
      BY <1>1, <1>2, <2>1, UtilAreasType DEF InitFloorplanUtil
    <2>2. CASE ~linked
      BY <1>2, <2>2 DEF InitFloorplanUtil
    <2> QED  BY <2>1, <2>2
  <1>3. ASSUME NEW a \in Areas, NEW site, NEW f \in TrackFiles, InitFloorplanCore(a, site, f)
        PROVE  UNCHANGED grids \/ (die' \in RectOf(Nat) /\ Ordered(die') /\ Grown(grids', die'))
    BY <1>1, <1>3, FloorplanAssumption DEF InitFloorplanCore
  <1>4. CASE AutoPlacePins
    BY <1>4 DEF AutoPlacePins
  <1> QED  BY <1>2, <1>3, <1>4 DEF Next

LEMMA GridsAlways == Spec => []GridsOK
  <1>1. Init => GridsOK
    BY TracksAssumption DEF Init, GridsOK, GridsType
  <1>2. GridsOK /\ [Next]_vars => GridsOK'
    BY CommandGrown DEF GridsOK, GridsType, Grown, vars
  <1> QED  BY <1>1, <1>2, PTL DEF Spec

\* The tracks a command adds fill the new die, from the file and from the layers, up to
\* the last that fits (InitFloorplan::makeTracks, both).
THEOREM TracksAlwaysFillDie == Spec => TracksFillDie
  <1> DEFINE Fill == \A p \in NewPatterns :
                /\ p.start <= Origin(die', p.axis) + Extent(die', p.axis)
                /\ Extent(die', p.axis) < Word
                /\ p.from = "layer" => Origin(die', p.axis) = 0
                => FillsDie(p, die')
  <1>1. GridsOK /\ UNCHANGED grids => NewPatterns = {}
    BY DEF GridsOK, GridsType, NewPatterns
  <1>2. Grown(grids', die') => \A p \in NewPatterns : Laid(p, die')
    BY DEF Grown, NewPatterns
  <1>3. GridsOK /\ Next => Fill
    <2> SUFFICES ASSUME GridsOK, Next PROVE Fill
      OBVIOUS
    <2>1. CASE UNCHANGED grids
      BY <1>1, <2>1
    <2>2. CASE die' \in RectOf(Nat) /\ Ordered(die') /\ Grown(grids', die')
      BY <1>2, <2>2, LaidFillsDie
    <2> QED  BY <2>1, <2>2, CommandGrown
  <1>4. GridsOK /\ [Next]_vars => [Fill]_vars
    BY <1>3
  <1> QED  BY <1>4, GridsAlways, PTL DEF Spec, TracksFillDie

-----------------------------------------------------------------------------
\* A command dies of a track grid that was there, or of a pitch that rounds to zero, and
\* of nothing else (dbTrackGrid::create, InitFloorplan::makeTracks).
THEOREM AlwaysDiesOfOldTracks == Spec => []DiesOfOldTracks
  <1>1. Init => DiesOfOldTracks
    BY DEF Init, DiesOfOldTracks
  <1>2. DiesOfOldTracks /\ [Next]_vars => DiesOfOldTracks'
    <2> SUFFICES ASSUME DiesOfOldTracks, [Next]_vars PROVE DiesOfOldTracks'
      OBVIOUS
    <2> DEFINE Excused == alive' \/ DOMAIN grids' # {} \/ \E f \in TrackFiles : ZeroPitch(f)
    <2>1. ASSUME alive, NEW area, NEW site, NEW f \in TrackFiles, Floorplan(area, site, f)
          PROVE  Excused
      BY <2>1 DEF Floorplan, MakeTracksFromFile, MakeDefaultTracks
    <2>2. ASSUME NEW s \in Shapes, NEW site, NEW f \in TrackFiles, InitFloorplanUtil(s, site, f)
          PROVE  Excused
      BY <2>1, <2>2 DEF InitFloorplanUtil, Begin
    <2>3. ASSUME NEW a \in Areas, NEW site, NEW f \in TrackFiles, InitFloorplanCore(a, site, f)
          PROVE  Excused
      BY <2>1, <2>3 DEF InitFloorplanCore, Begin
    <2>4. ASSUME AutoPlacePins PROVE Excused
      BY <2>4 DEF AutoPlacePins, Begin
    <2>5. CASE UNCHANGED vars
      BY <2>5 DEF vars, DiesOfOldTracks
    <2>6. ASSUME Excused PROVE DiesOfOldTracks'
      BY <2>6 DEF DiesOfOldTracks, ZeroPitch, FileLines, LineOnGrid, MetersToMfgGrid
    <2> QED  BY <2>2, <2>3, <2>4, <2>5, <2>6 DEF Next
  <1> QED  BY <1>1, <1>2, PTL DEF Spec

=============================================================================
