--------------------------- MODULE InitFloorplan ---------------------------
(***************************************************************************)
(* initialize_floorplan and auto_place_pins                                *)
(* (src/src/init_fp/src/InitFloorplan.cc, .tcl, .i).                       *)
(*                                                                         *)
(* The component keeps no state: every command edits the block, and what   *)
(* an earlier command left there stays.  The block is its die, rows, track *)
(* grids and pins.                                                         *)
(*                                                                         *)
(* Lengths a command is given are natural numbers of a unit the database   *)
(* unit divides (the Tcl layer refuses negative ones); the width of a core *)
(* of a given area, a square root, is rounded to that unit.                *)
(***************************************************************************)
EXTENDS Integers, Sequences, FiniteSets, FiniteSetsExt

CONSTANTS
    Site,       \* [dx, dy] of the site that is named
    Layer,      \* the layers of the technology
    Direction,  \* Direction[l]: axis of the default tracks, "none" for no routing
    Pitch, Offset,
    TermCount,  \* BTerms of the block
    Grid,       \* manufacturing grid, 0 for none
    UnitDbu,    \* database units in the unit of the commands
    Word,       \* 2^32: uint wraps there
    DesignArea, \* sum of the areas of the cells
    Areas,      \* [die, core] rectangles the second form is given
    Shapes,     \* [util, ratio, bottom, top, left, right] the first form is given
    TrackFiles, \* [status, lines] of the -tracks file
    OldGrids,   \* track grids a DEF file may have brought
    MaxCommands \* bound: the commands of one session

RectOf(S) == [lx : S, ly : S, ux : S, uy : S]

Patterns == [from : {"file", "layer"}, axis : {"X", "Y"}, start : Int, count : Int, pitch : Int]
Lines == [layer : Layer, axis : {"X", "Y"}, offset : Nat, pitch : Nat]

ASSUME FloorplanAssumption ==
    /\ Site.dx \in Nat \ {0} /\ Site.dy \in Nat \ {0}
    /\ TermCount \in Nat /\ Grid \in Nat /\ UnitDbu \in Nat \ {0} /\ DesignArea \in Nat
    /\ Areas \subseteq [die : RectOf(Nat), core : RectOf(Nat)]
    /\ Shapes \subseteq [util : 1..100, ratio : Nat \ {0},
                         bottom : Nat, top : Nat, left : Nat, right : Nat]

ASSUME TracksAssumption ==
    /\ Word \in Nat \ {0}
    /\ Direction \in [Layer -> {"X", "Y", "none"}]
    /\ Pitch \in [Layer -> Nat] /\ Offset \in [Layer -> Nat]
    /\ \A f \in TrackFiles : f.lines \in Seq(Lines)
    /\ \A g \in OldGrids : \A l \in DOMAIN g : g[l] \in Seq(Patterns)

VARIABLES
    alive,  \* the process runs
    given,  \* how many commands were given
    linked, \* a design is linked, and has a block
    die,    \* the die area of the block
    rows,   \* its rows; "call" tells which command made them
    grids,  \* grids[l]: patterns of the track grid of l, for the layers that have one
    pins,   \* pins[t]: places of the BPins of BTerm t
    asked,  \* history variable: what the last command that made rows was asked for
    pinned  \* history variable: the core the pins were placed around

vars == <<alive, given, linked, die, rows, grids, pins, asked, pinned>>

Rect(lx, ly, ux, uy) == [lx |-> lx, ly |-> ly, ux |-> ux, uy |-> uy]
Dx(r) == r.ux - r.lx
Dy(r) == r.uy - r.ly
NoRect == Rect(0, 0, 0, 0)

Absolute(x) == IF x < 0 THEN -x ELSE x

\* int division truncates toward zero.
Truncated(a, b) == IF a < 0 THEN -((-a) \div b) ELSE a \div b

-----------------------------------------------------------------------------
\* Without a manufacturing grid the database unit is taken for a nanometre.
MetersToMfgGrid(d) ==
    IF Grid # 0 THEN ((2 * d * UnitDbu + Grid) \div (2 * Grid)) * Grid ELSE d

OnMfgGrid(r) == Rect(MetersToMfgGrid(r.lx), MetersToMfgGrid(r.ly),
                     MetersToMfgGrid(r.ux), MetersToMfgGrid(r.uy))

Smaller(a, b) == IF a < b THEN a ELSE b
Larger(a, b) == IF a < b THEN b ELSE a

\* odb::Rect puts its corners in order.
DieArea(r) ==
    LET d == OnMfgGrid(r)
    IN  Rect(Smaller(d.lx, d.ux), Smaller(d.ly, d.uy), Larger(d.lx, d.ux), Larger(d.ly, d.uy))

\* The length nearest to the square root of n / d.
NearestRoot(n, d) ==
    CHOOSE w \in 0..n : /\ 4 * n < d * (2 * w + 1) * (2 * w + 1)
                        /\ w = 0 \/ d * (2 * w - 1) * (2 * w - 1) <= 4 * n

\* The die and core of the form with a utilization; ratio is 1 over the aspect ratio.
UtilAreas(s) ==
    LET area   == (DesignArea * 100) \div s.util
        width  == NearestRoot(area * s.ratio, 1)
        height == NearestRoot(area, s.ratio)
    IN  [core |-> Rect(s.left, s.bottom, s.left + width, s.bottom + height),
         die  |-> Rect(0, 0, width + s.left + s.right, height + s.top + s.bottom)]

-----------------------------------------------------------------------------
(***************************************************************************)
(* Rows.                                                                   *)
(***************************************************************************)
\* Mutant: the corner is not moved to the grid of the sites.
Unsnapped(core) == OnMfgGrid(core)

\* Mutant: the corner moves up to the grid of the sites, and the core with it.
SnappedUp(core) ==
    Rect((MetersToMfgGrid(core.lx) \div Site.dx + 1) * Site.dx,
         (MetersToMfgGrid(core.ly) \div Site.dy + 1) * Site.dy,
         MetersToMfgGrid(core.ux) + Site.dx, MetersToMfgGrid(core.uy) + Site.dy)

\* The lower left corner moves down to the grid of the sites.
Snapped(core) ==
    Rect((MetersToMfgGrid(core.lx) \div Site.dx) * Site.dx,
         (MetersToMfgGrid(core.ly) \div Site.dy) * Site.dy,
         MetersToMfgGrid(core.ux), MetersToMfgGrid(core.uy))

\* Mutant: a row more than fits.
MakeRowsRoundedUp(c, call) ==
    {[call |-> call, index |-> k, lx |-> c.lx, ly |-> c.ly + k * Site.dy,
      sites |-> Absolute(Dx(c)) \div Site.dx,
      orient |-> IF k % 2 = 0 THEN "MX" ELSE "R0"] :
     k \in 0..(Absolute(Dy(c)) \div Site.dy)}

MakeRows(c, call) ==
    {[call |-> call, index |-> k, lx |-> c.lx, ly |-> c.ly + k * Site.dy,
      sites |-> Absolute(Dx(c)) \div Site.dx,
      orient |-> IF k % 2 = 0 THEN "MX" ELSE "R0"] :
     k \in 0..(Absolute(Dy(c)) \div Site.dy) - 1}

\* dbBlock::getCoreArea: the box around all rows, the die if there are none.
Core ==
    IF rows = {} THEN die
    ELSE Rect(Min({r.lx : r \in rows}), Min({r.ly : r \in rows}),
              Max({r.lx + r.sites * Site.dx : r \in rows}),
              Max({r.ly + Site.dy : r \in rows}))

-----------------------------------------------------------------------------
(***************************************************************************)
(* Tracks.                                                                 *)
(***************************************************************************)
Extent(d, axis) == IF axis = "X" THEN Dx(d) ELSE Dy(d)
Origin(d, axis) == IF axis = "X" THEN d.lx ELSE d.ly

\* A pattern of count tracks from start on; from is "file" or "layer".
Pattern(from, axis, start, count, pitch) ==
    [from |-> from, axis |-> axis, start |-> start, count |-> count, pitch |-> pitch]

AddPattern(gs, l, pattern) ==
    [k \in DOMAIN gs \cup {l} |->
        IF k # l THEN gs[k] ELSE IF l \in DOMAIN gs THEN Append(gs[l], pattern) ELSE <<pattern>>]

\* Mutant: the offset is taken from the origin of the database.
FilePatternFromOrigin(d, line) ==
    Pattern("file", line.axis, line.offset,
            Truncated(Extent(d, line.axis) - line.offset, line.pitch) + 1, line.pitch)

FilePattern(d, line) ==
    Pattern("file", line.axis, Origin(d, line.axis) + line.offset,
            Truncated(Extent(d, line.axis) - line.offset, line.pitch) + 1, line.pitch)

\* Rounded to the grid, as every length of the file is.
LineOnGrid(line) ==
    [line EXCEPT !.offset = MetersToMfgGrid(@), !.pitch = MetersToMfgGrid(@)]

\* readTracks accepts the whole file, or the command ends before the first track.
ReadTracks(file) == file.status = "good"

FileLines(file) == [k \in DOMAIN file.lines |-> LineOnGrid(file.lines[k])]

ZeroPitch(file) == \E k \in DOMAIN FileLines(file) : FileLines(file)[k].pitch = 0

\* The grids after the first k lines, one line after the other.
GridsAfter(d, lines) ==
    LET after[k \in 0..Len(lines)] ==
          IF k = 0 THEN grids
          ELSE AddPattern(after[k - 1], lines[k].layer, FilePattern(d, lines[k]))
    IN  after

\* A pitch that rounds to zero divides by zero.
MakeTracksFromFile(file, d) ==
    LET lines == FileLines(file)
    IN  IF ~ReadTracks(file) THEN UNCHANGED <<alive, grids>>
        ELSE IF ZeroPitch(file)
             THEN alive' = FALSE /\ UNCHANGED grids
             ELSE grids' = GridsAfter(d, lines)[Len(lines)] /\ UNCHANGED alive

\* uint - int is uint: a die narrower than the offset wraps.
DefaultPattern(d, l) ==
    LET axis == Direction[l]
        offset == IF Offset[l] = 0 THEN Pitch[l] ELSE Offset[l]
    IN  Pattern("layer", axis, offset,
                ((Extent(d, axis) - offset) % Word) \div Pitch[l] + 1, Pitch[l])

\* Mutant: a pitch of zero is divided by.
MakeDefaultTracksUnchecked(d) ==
    IF \E l \in Layer : Direction[l] # "none" /\ (l \in DOMAIN grids \/ Pitch[l] = 0)
    THEN alive' = FALSE /\ UNCHANGED grids
    ELSE UNCHANGED <<alive, grids>>

\* dbTrackGrid::create returns null for a layer that has a grid.
MakeDefaultTracks(d) ==
    LET routing == {l \in Layer : Direction[l] # "none"}
    IN  IF \E l \in routing : l \in DOMAIN grids /\ Pitch[l] # 0
        THEN alive' = FALSE /\ UNCHANGED grids
        ELSE /\ grids' = [l \in DOMAIN grids \cup routing |->
                            IF l \in DOMAIN grids THEN grids[l]
                            ELSE IF Pitch[l] = 0 THEN <<>> ELSE <<DefaultPattern(d, l)>>]
             /\ UNCHANGED alive

-----------------------------------------------------------------------------
(***************************************************************************)
(* The commands.                                                           *)
(***************************************************************************)
Begin == alive /\ given < MaxCommands /\ given' = given + 1 /\ UNCHANGED linked

\* The die is set whether or not rows and tracks can be made.
Floorplan(area, site, file) ==
    /\ die' = DieArea(area.die)
    /\ UNCHANGED <<pins, pinned>>
    /\ IF site = "found"
       THEN LET c == Snapped(area.core)
            IN  /\ rows' = rows \cup MakeRows(c, given')
                /\ asked' = [call |-> given', area |-> area]
                /\ IF file.status = "none" THEN MakeDefaultTracks(die')
                   ELSE MakeTracksFromFile(file, die')
       ELSE UNCHANGED <<alive, rows, grids, asked>>

\* Without a block this form says nothing and does nothing.
InitFloorplanUtil(s, site, file) ==
    /\ Begin
    /\ IF linked THEN Floorplan(UtilAreas(s), site, file)
       ELSE UNCHANGED <<alive, die, rows, grids, pins, asked, pinned>>

\* This form is refused without a linked design.
InitFloorplanCore(area, site, file) == Begin /\ linked /\ Floorplan(area, site, file)

\* Mutant: the walk stays on the right edge instead of the left one.
PinPointOnRight(core, count, i) ==
    LET dx == Dx(core)
        dy == Dy(core)
        location == i * ((2 * dx + 2 * dy) \div count)
    IN  IF location < dx THEN [x |-> core.lx + location, y |-> core.ly]
        ELSE IF location < dx + dy THEN [x |-> core.ux, y |-> core.ly + (location - dx)]
        ELSE IF location < 2 * dx + dy
             THEN [x |-> core.ux - (location - (dx + dy)), y |-> core.uy]
        ELSE [x |-> core.ux, y |-> core.uy - (location - (2 * dx + dy))]

\* Where the walk around the core puts pin i of count (bottom, right, top, left).
PinPoint(core, count, i) ==
    LET dx == Dx(core)
        dy == Dy(core)
        location == i * ((2 * dx + 2 * dy) \div count)
    IN  IF location < dx THEN [x |-> core.lx + location, y |-> core.ly]
        ELSE IF location < dx + dy THEN [x |-> core.ux, y |-> core.ly + (location - dx)]
        ELSE IF location < 2 * dx + dy
             THEN [x |-> core.ux - (location - (dx + dy)), y |-> core.uy]
        ELSE [x |-> core.lx, y |-> core.uy - (location - (2 * dx + dy))]

\* Mutant: a BTerm keeps the pins it had.
AutoPlaceMorePins ==
    /\ Begin /\ linked
    /\ pins' = [t \in 1..TermCount |-> pins[t] \cup {PinPoint(Core, TermCount, t - 1)}]
    /\ pinned' = [call |-> given', core |-> Core]
    /\ UNCHANGED <<alive, die, rows, grids, asked>>

\* Each BTerm loses the pins it had and gets one.
AutoPlacePins ==
    /\ Begin /\ linked
    /\ pins' = [t \in 1..TermCount |-> {PinPoint(Core, TermCount, t - 1)}]
    /\ pinned' = [call |-> given', core |-> Core]
    /\ UNCHANGED <<alive, die, rows, grids, asked>>

\* A design without a block, or a block a DEF file may have given pins and tracks.
Init ==
    /\ alive = TRUE /\ given = 0 /\ linked \in BOOLEAN
    /\ die = NoRect /\ rows = {}
    /\ grids \in (IF linked THEN OldGrids ELSE {<<>>})
    /\ pins \in {[t \in 1..TermCount |-> P] : P \in {{}, {[x |-> 0, y |-> 0], [x |-> 1, y |-> 1]}}}
    /\ asked = [call |-> 0, area |-> [die |-> NoRect, core |-> NoRect]]
    /\ pinned = [call |-> 0, core |-> NoRect]

Next ==
    \/ \E s \in Shapes, site \in {"found", "missing"}, f \in TrackFiles : InitFloorplanUtil(s, site, f)
    \/ \E a \in Areas, site \in {"found", "missing"}, f \in TrackFiles : InitFloorplanCore(a, site, f)
    \/ AutoPlacePins

Spec == Init /\ [][Next]_vars

-----------------------------------------------------------------------------
(***************************************************************************)
(* Properties.                                                             *)
(***************************************************************************)
Ordered(r) == r.lx <= r.ux /\ r.ly <= r.uy
Within(r, s) == s.lx <= r.lx /\ s.ly <= r.ly /\ r.ux <= s.ux /\ r.uy <= s.uy

LastRows == {r \in rows : r.call = asked.call}

(***************************************************************************)
(* makeRows fills the core and nothing else: the rows of a command lie on  *)
(* each other without a gap from the bottom of the core, and what is left  *)
(* to the right and on top is less than a site.                            *)
(***************************************************************************)
RowsFillCore ==
    LET core == Snapped(asked.area.core)
    IN  asked.call # 0 /\ Ordered(core) =>
          /\ {r.ly : r \in LastRows} =
                {y \in core.ly..core.uy - Site.dy : (y - core.ly) % Site.dy = 0}
          /\ \A r \in LastRows :
                r.lx = core.lx /\ core.ux - (r.lx + r.sites * Site.dx) \in 0..Site.dx - 1

(***************************************************************************)
(* A core asked for in a die at the origin gives rows in the die, whatever *)
(* the rounding to the manufacturing grid and to the sites makes of them.  *)
(***************************************************************************)
RowsInDie ==
    LET die_area == asked.area.die
        core     == asked.area.core
    IN  asked.call # 0 /\ Ordered(core) /\ Within(core, die_area)
        /\ die_area.lx = 0 /\ die_area.ly = 0 /\ Ordered(Snapped(core)) =>
          \A r \in LastRows :
             Within(Rect(r.lx, r.ly, r.lx + r.sites * Site.dx, r.ly + Site.dy), DieArea(die_area))

(***************************************************************************)
(* Nothing removes rows: a second floorplan, or one given again after its  *)
(* -tracks file was refused, lays its rows over the old ones.  The sites   *)
(* of all rows lie on one grid all the same, so that a cell that is legal  *)
(* in one row is legal in the other.                                       *)
(***************************************************************************)
SitesAlign ==
    \A r, s \in rows : (r.lx - s.lx) % Site.dx = 0 /\ (r.ly - s.ly) % Site.dy = 0

OnEdge(p, r) ==
    /\ r.lx <= p.x /\ p.x <= r.ux /\ r.ly <= p.y /\ p.y <= r.uy
    /\ p.x \in {r.lx, r.ux} \/ p.y \in {r.ly, r.uy}

(***************************************************************************)
(* autoPlacePins leaves each port one pin, on the edge of the core, though *)
(* the distance of the pins is an integer quotient and the core may be the *)
(* box around the rows of several commands, or the die.                    *)
(***************************************************************************)
PinsOnCoreEdge ==
    pinned.call # 0 =>
       \A t \in 1..TermCount : Cardinality(pins[t]) = 1 /\ \A p \in pins[t] : OnEdge(p, pinned.core)

(***************************************************************************)
(* No two ports get the same place, unless the core has less perimeter     *)
(* than ports or no inside.                                                *)
(***************************************************************************)
PinsSpread ==
    LET c == pinned.core
    IN  pinned.call # 0 /\ Dx(c) > 0 /\ Dy(c) > 0 /\ 2 * Dx(c) + 2 * Dy(c) >= TermCount =>
          \A t, u \in 1..TermCount : t # u => pins[t] \cap pins[u] = {}

\* The tracks of a pattern lie in the die d, and the next one would not.
FillsDie(p, d) ==
    LET last == p.start + (p.count - 1) * p.pitch
        end  == Origin(d, p.axis) + Extent(d, p.axis)
    IN  Origin(d, p.axis) <= p.start /\ last <= end /\ end < last + p.pitch

(***************************************************************************)
(* makeTracks fills the new die with tracks, if the die is not narrower    *)
(* than the offset, no wider than the integers of the database, and, for   *)
(* the tracks of the layers, begins at the origin: those start at the      *)
(* offset wherever the die does.                                           *)
(***************************************************************************)
NewPatterns ==
    UNION {{grids'[l][k] : k \in {j \in DOMAIN grids'[l] :
                                     l \in DOMAIN grids => j > Len(grids[l])}} : l \in DOMAIN grids'}

TracksFillDie ==
    [][\A p \in NewPatterns :
          /\ p.start <= Origin(die', p.axis) + Extent(die', p.axis)
          /\ Extent(die', p.axis) < Word
          /\ p.from = "layer" => Origin(die', p.axis) = 0
          => FillsDie(p, die')]_vars

(***************************************************************************)
(* A command dies of a track grid the block already had, or of a line of   *)
(* the -tracks file whose pitch rounds to zero, and of nothing else: a     *)
(* layer without a pitch is passed over and not divided by.                *)
(***************************************************************************)
DiesOfOldTracks == ~alive => DOMAIN grids # {} \/ \E f \in TrackFiles : ZeroPitch(f)

=============================================================================
