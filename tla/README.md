# ClipGraphExtract in TLA+

TLA+ models, TLC configurations and TLAPS proofs for this repository: a subset of
OpenROAD (database shell, timing adapter, resizer, floorplan initializer) with the
ClipGraphExtractor on top.  Paths below are relative to the repository.

1. [What the program is](#1-what-the-program-is) - components, state, operations, hazards
2. [Modules](#2-modules) - what is modelled and how it corresponds to the code
3. [Runs](#3-runs) - what each run checks, bounds, fairness
4. [Proofs](#4-proofs)
5. [Findings](#5-findings)
6. [Only model-checked, not modelled](#6-only-model-checked-not-modelled)
7. [Plan](#7-plan)

## 1. What the program is

One process with a Tcl interpreter.  A Tcl procedure checks its arguments and calls a
SWIG wrapper, which checks that a design is linked and calls C++.  **Nothing runs
concurrently**: a command runs to its end before the next one starts.  What makes the
program hard is the long-lived state that commands share: one netlist that a dozen
commands edit, and the caches, flags and pointers that each command leaves for the next.

| component | source | state it keeps | operations | used by |
|---|---|---|---|---|
| OpenRoad shell | `src/OpenRoad.cc`, `.i`, `.tcl` | database, observers, the one instance of each tool | `readLef`, `readDef`, `readDb`, `readVerilog`, `linkDesign`, `writeDef/Db/Verilog`, `clear` | Tcl |
| dbSta | `src/dbSta/src/dbSta.cc` | the observer; OpenSTA's graph, search, SDC | `postReadLef`, `postReadDef`, `postReadDb`, `postReadLiberty` | shell |
| dbNetwork | `src/dbSta/src/dbNetwork.cc` | `db_`, `block_`, `top_instance_`, `top_cell_`, `net_drvr_pin_map_` | iterators, `net(pin)`, `makeNet`, `makeInstance`, `connect`, `disconnectPin`, `deleteNet`, `deleteInstance`, `replaceCell`, the `read*After` callbacks, `clear` | OpenSTA, resizer |
| dbReadVerilog | `src/dbSta/src/dbReadVerilog.cc` | the Verilog network | `dbLinkDesign`, `makeBlock`, `makeDbInsts`, `makeDbNets` | shell |
| dbSdcNetwork | `src/dbSta/src/dbSdcNetwork.cc` | none | name escaping for SDC | OpenSTA |
| Resizer | `src/resizer/src/Resizer.cc`, `.i`, `.tcl` | `block_`, `core_`, `design_area_`, `max_area_`, `clk_nets_` + flag, `level_drvr_verticies_` + flag, `target_load_map_`, `tgt_slews_`, `dont_use_`, counters | `remove_buffers`, `buffer_ports`, `resize`, `repair_tie_fanout`, `repair_hold_violations`, `repair_design`, `repair_clock_nets`, `repair_clock_inverters`, `repair_net`, reports, `set_wire_rc`, `set_dont_use`, `set_max_utilization` | Tcl |
| SteinerTree | `src/resizer/src/SteinerTree.cc` | pins of a net, Flute's tree, both maps between them, left/right children | `makeSteinerTree`, `setTree`, `steinerPt`, `findLeftRights` | resizer |
| InitFloorplan | `src/init_fp/src/InitFloorplan.cc` | none of its own; die, rows, tracks, pins in the block | `initFloorplan` (two forms), `makeRows`, `makeTracks`, `autoPlacePins` | Tcl |
| ClipGraphExtractor | `src/ClipGraphExtract/src/clipGraphExtractor.cpp` | `rTree_`, `graphModel_`, `edgeWeightModel_`, `fileName_` | `init`, `extract`, the setters, `clear` | Tcl |
| Graph | `src/ClipGraphExtract/src/instGraph.cpp` | vertices, edges, the map of instances | `init` (star, clique), `updateVertsFromEdges`, `saveFile` | extractor |
| Unused.cc | `src/resizer/src/Unused.cc` | - | not compiled | - |

External: OpenDB (tables of nets, instances, terminals), OpenSTA (graph, search, the
`drivers` query), Flute, Boost's R-tree, Tcl.

**How they interact.**  A reader fills the database and tells the observers, which set
`block_` in dbNetwork.  OpenSTA and the resizer see the netlist through dbNetwork.  The
resizer edits through `sta_->connectPin`, `disconnectPin`, `deleteNet` and
`deleteInstance`, which update the timing graph and call the functions of the same name in
dbNetwork; nets and instances are created directly.  The resizer keeps raw pointers
(`Vertex*`, `Net*`) from one command to the next; `net_drvr_pin_map_` keeps sets of pins.
InitFloorplan and the extractor read and write the database and talk to no one else.

**What makes each component correct.**

- *dbNetwork*: the driver cache says of a net what the netlist says; an entry dies with its
  net; liberty cells and LEF masters are linked in whatever order they are read.
- *Resizer*: whatever commands are given, the netlist computes what it computed; one driver
  per net; no sink is lost; no pointer to a deleted object is read; the caches are right or
  known to be wrong; clock nets and special nets are left alone where the code says so; the
  area limit is obeyed.
- *repairNet/SteinerTree*: after a repair no wire, load or fanout is over its limit unless
  it must be; every pin has exactly one point of the tree; the recursion ends.
- *Hold repair*: passes end, and not beyond the area limit.
- *InitFloorplan*: rows fill the core and tracks the die; pins lie on the edge of the core;
  floorplans laid over each other keep their sites on one grid.
- *Extractor/graph*: the graph of a clip is that part of the graph of the block; weights are
  finite; the settings of one command are not those of the last by accident.
- *Shell*: in whatever order files are read, cells are tied to the same liberty cells and the
  network sees the block that is there; flattening a netlist keeps its connections.

The hazards, each with its line and the properties that cover it or the reason that none does,
are in `PROJECT.json`.  The main kinds: caches that outlive what they describe
(`clk_nets_`, `level_drvr_verticies_`, `design_area_`, `net_drvr_pin_map_`, `block_`); lists
collected before edits and read after them; edits that treat instance terminals and ports
differently; a failure between the creation of a net and that of its instance; integer
geometry; loops that timing ends.

## 2. Modules

```
DbNetwork ---- Resizer ---- MCResizer               (TLC)
                  |  |
NetlistPromise ---+  +----- Resizer_proofs -----------+
  (abstract)                                          |
RootedTree --+-- SteinerTree ---- MCSteinerTree (TLC) |
             |       |                                |
             |       +---- SteinerTree_proofs --------+---- Counting_proofs
             |                                        |     (lemmas about sums)
             +-- RepairNet ---- MCRepairNet     (TLC) |
                  |    |                              |
    Repeaters ----+    +---- RepairNet_proofs --------+
   (abstract)

RepairHold ------- MCRepairHold,    RepairHold_proofs
InitFloorplan ---- MCInitFloorplan, InitFloorplan_proofs
ClipGraph -------- MCClipGraph,     ClipGraph_proofs
Design ----------- MCDesign,        Design_proofs
```

How they fit together: `Resizer` lets `repair_design`, `repair_net` and `repair_clock_nets` put a
repeater in front of any terminals of a net.  `Repeaters` states that as a specification of one
net, and `RepairNet`, the recursion that decides which terminals, is shown to implement it.
`RepairNet` in turn assumes a binary tree of the net, `RootedTree!IsRootedTree`, which is what
`SteinerTree` is proved to produce (`LeftRightIsTree`).  `RepairHold` decides when and how often
`Resizer!MakeHoldDelay` runs.  `Design` makes the block that a session of `Resizer`,
`InitFloorplan` or `ClipGraph` starts with.

### DbNetwork

The netlist behind dbNetwork and the edits it makes.

| variable | code |
|---|---|
| `insts`, `kind`, `size` | live `dbInst`s, what their master is, its area |
| `nets`, `special` | live `dbNet`s, those that are special |
| `conn` | the net of each `dbITerm` and `dbBTerm` |
| `cached`, `drvrs` | keys and sets of `net_drvr_pin_map_` |
| `design` | the netlist that was read, for comparison |
| `sig` | history: the signal a net stands for (below) |

Instances and nets are *slots*: a destroyed object's slot may be given out again, as in
OpenDB's tables, so a stale pointer may name a new object.  `Edit` stands for a batch of the
edit functions with their effect on the driver cache, and `DrvrsAfter` keeps their asymmetry:
`connect` adds any driver, `disconnectPin` looks its net up with `net(pin)`, which is null for
a port, and so takes only instance terminals out.

A cell is a buffer, an inverter, a tie cell or a "gate" (anything else), whose output is a
signal of its own.  `sig` gives each net a source and a polarity; a net made for a buffer or
a copy gets the signal of the net it stands for, and nothing else ever changes it.  So
`LogicPreserved` does not follow from how `sig` is updated: it asks that the terminals, which
the edits move about, agree with it.

### Resizer

One action per turn of a command's loop, with all the edits of that turn.  `todo` is the
list the command collected when it started; the order of a loop is any order, since it
depends on table, level and pointer order.  `cmd` and `Finish` frame a command; `Finish`
clears the level order flag for exactly the commands that do.

| actions | code |
|---|---|
| `EnsureBlock`, `EnsureLevelDrvrVerticies`, `EnsureClkNets`, `InitResizer` | the functions of these names and `init()` |
| `StartRemoveBuffers`, `RemoveBuffer`, `KeepBuffer`, `UnconnectedBuffer` | `removeBuffers` |
| `StartBufferInputs/Outputs`, `BufferInput/Output`, `...Fails`, `SkipInput/Output` | `bufferInputs`, `bufferInput`, `bufferOutputs`, `bufferOutput` |
| `StartRepairTies`, `RepairTie`, `UnconnectedTie` | `repairTieFanout` |
| `StartRepairClkInverters`, `CloneClkInverter`, `KeepClkInverter` | `repairClkInverters`, `findClkInverters`, `cloneClkInverter` |
| `StartRepairHold`, `MakeHoldDelay`, `MakeHoldDelayFails` | `repairHoldViolations`, `repairHoldPass`, `makeHoldDelay` |
| `StartRepairDesign`, `RepairDesignNet`, `...Fails`, `EndRepairDesignNet` | `repairDesign`, `findLongWires`, `makeRepeater` |
| `StartRepairClkNets`, `StartRepairNet`, `RepairNet`, `RepairNetFails`, `EndRepairNet`, `RepairDeletedNet`, `RepairUndrivenNet`, `RepairStaleDriver` | `repairClkNets`, the `repairNet` command, `repairNet(net, drvr)`, `makeRepeater` |
| `StartResize`, `ResizeDriver`, `SkipDriver`, `ResizeDeletedDriver` | `resizeToTargetSlew` |
| `SetMaxUtilization`, `ReportDesignArea`, `QueryDrivers` | `setMaxUtilization`, `utilization`, `Network::drivers` |

*Abstracted.*  Timing decides which driver is slow, which wire long, which cell best: a free
choice among what the code's conditions on the netlist allow.  So hold repair may insert
any number of buffers, and `repairNet` may put a repeater in front of any loads of a net.
Locations, names and parasitics are left out.  A clock search goes through buffers and
inverters and stops at gates.

*Failures.*  `hasMaster = FALSE` is a library whose buffer cell has no LEF master:
`makeInstance` returns null, `bufferInput` and `bufferOutput` leave a net with nothing on it
and the others dereference null (`Die`).  A null net (`UnconnectedBuffer`, `UnconnectedTie`)
and `internalError` (`RepairStaleDriver`) end the process; reading a deleted vertex or net, or
the first element of an empty set (`Undefined`), ends it or passes for an object that needs
nothing: both outcomes are allowed.

### MCResizer

Five netlists, by definition: `BufferChain` (two chained buffers between two gates, a port
on the first net), `ClockTree` (two chained inverters on a clock), `TieNet` (a tie cell that
drives a gate and a port, a buffer behind a port), `LooseEnds` (a buffer and a clock inverter
that drive nothing, a special net, an undriven net) and `SpecialNets`.  Free slots are
interchangeable, hence the symmetry `MCSymmetry`; the slots a netlist uses are not in it.

### NetlistPromise

The abstract specification of the commands: what a user of the netlist relies on, without cells and
nets.

| variable | what it is | in `Resizer` |
|---|---|---|
| `sees` | what each output port and gate input sees, or nothing | `Sees`: the signal of its net |
| `work` | the command that runs | `cmd` |
| `trusted` | the netlist that was read is well driven and has no ring | `WellDriven(design) /\ RingFree(design)` |

`Promise` is the instance with that mapping.  Its one kind of step: each sink sees what it saw, or
sees nothing any more if it may be cut off (`MayLose`).  That is so for output ports while
`repair_clock_inverters` runs, and for any sink if the netlist is not `trusted`.

### RootedTree, SteinerTree

`SteinerTree` models `makeSteinerTree`: one turn of each loop and one call of the recursion per
action.  Flute is external: `FluteTrees` and `Permuted` say what it returns, a tree on `2d - 2`
points in which the first `d` are leaves, every other point has three neighbours, each point
names one neighbour and the root itself, and the locations of the pins in any order.

| variable, action | code |
|---|---|
| `location`, `drivers` | the pins of the net in name order, where they lie, which drive it |
| `branch`, `n` | `tree_.branch[].x, y` and `.n` |
| `loc_pins_map`, `steiner_pt_pin_map_`, `pin_steiner_pt_map_` | the maps of `setTree` |
| `adj` | `adj1`, `adj2`, `adj3` of a point, as a sequence |
| `left_`, `right_`, `stack` | the children, and the calls of `findLeftRights` that have not returned |
| `SetTree`, `TreeIsSet` | `setTree`: the last pin of its location that has no point yet |
| `FindAdjacent`, `FindLeftRights` | `findLeftRights(network)`, `drvrPt` |
| `VisitLeft`, `VisitRight`, `SkipFrom`, `Return` | `findLeftRights(from, to, adj)`, `findLeftRights(from, to)` |

`VisitLeft` and `VisitRight` are the two branches of the code; a neighbour that finds both
children set would be dropped by the code without a word and stops the model, so `Terminates`
would fail.

### Repeaters, RepairNet

`Repeaters` is the abstract specification: terminals of a net, numbered repeaters, and one
action, a repeater that takes over a nonempty set of the terminals still on the net and puts its
own input there.

`RepairNet` models `repairNet(net, drvr)` and the recursion `repairNet(tree, pt, prev_pt, ...)`
with `makeRepeater` and `findMaxSteinerDist`.

| variable, action | code |
|---|---|
| `tree`, `len` | `left(pt)`, `right(pt)`, `pin(pt)`; the Manhattan distance of a point to the one above it |
| `pinCap`, `pinFanout` | `portCapacitance`, `portFanoutLoad` of a load |
| `max_cap`, `max_fanout`, `max_length` | the parameters; `INF` and 0 stand for no limit, as in the code |
| `inCore` | `!core_exists_`, or the core overlaps the whole net |
| `pc`, `pt`, `joined` | where the call on top is, its point, the points whose sums are made |
| `res[p]` | the reference parameters `wire_length`, `pin_cap`, `fanout`, `load_pins` of the call for `p` |
| `length` | the local of the loop that backs up |
| `n`, `on`, `at` | the repeaters, the net of each terminal, the place of each repeater |
| `Check` | `repairNet(net, drvr)`: is there anything to repair |
| `Call`, `Decide`, `RepairLeft`, `RepairRight`, `Join`, `BackUp`, `Return` | the recursion, statement by statement |
| `MakeRepeater` (operator) | `makeRepeater`, which does nothing for a place outside the core |

*Abstracted.*  A place is "h above point p", so lengths are exact; the code rounds a place to
database units.  Slew and capacitance violations and the capacitance limit that
`findSlewLoadCap` searches for are free choices.  When the net does not lie in the core, each
repeater may or may not: no geometry then says which, and the code itself may divide by a
length of 0 there and get any place.  The net has one driver and it is not a load too: with
several, `findLeftRights` starts at the first one and `repairNet` perhaps at another.

### RepairHold

The passes of `repair_hold_violations`.  Paths stand for the timing graph: the hold slack of an
endpoint or a driver is the least slack of the paths that end there or lead through it.

| variable, action | code |
|---|---|
| `slack`, `Through`, `To` | hold slacks, by path; the drivers on a path; its endpoint |
| `request`, `ends` | all endpoints or `end_pin`; `ends` of `repairHoldViolations` |
| `limit` | the buffers that fit below `max_area_` |
| `bufs`, `left` | buffers behind a driver, which are drivers of the next pass; `fanins` not come to |
| `weight_map`, `repair_count`, `inserted_buffer_count_`, `level_drvr_verticies_valid_` | the same |
| `Start`, `EndPass` | `repairHoldViolations`, both forms; `findHoldViolations` |
| `BeginPass`, `Comes` | `findFaninWeights`, `sortFaninsByWeight` |
| `SkipFanin`, `RepairFanin` | the loop of `repairHoldPass`; what `makeHoldDelay` does to slacks |
| `Finish` | the end of the loop, and the level order flag |

*Abstracted.*  Slacks are integers and a buffer adds a natural number to those of the paths through
it, so what it adds to the load of its driver is part of that number.  Ties of weights are broken
by setup slack and level in the code and by choice here.

### InitFloorplan

The component keeps no state: a command edits the block, and what an earlier one left stays.

| variable, action | code |
|---|---|
| `linked`, `die`, `rows`, `grids`, `pins` | a design with a block; its die, rows, track grids, BPins |
| `asked`, `pinned` | history: the request that made the last rows; the core of the last pins |
| `InitFloorplanUtil`, `InitFloorplanCore` | the two forms: `initFloorplan`, with `Floorplan` for what they share |
| `MetersToMfgGrid`, `Snapped` | `metersToMfgGrid`; the corner of the core moved to the sites |
| `MakeRows` | `makeRows`; `abs` and the division by `uint` |
| `MakeTracksFromFile`, `FilePattern` | `makeTracks(tracks_file)`, `readTracks` |
| `MakeDefaultTracks`, `DefaultPattern` | `makeTracks`, with the null `create()` returns for a second grid |
| `AutoPlacePins`, `PinPoint`, `Core` | `autoPlacePins`, `getCore` |

*Abstracted.*  Lengths are natural numbers of the command's unit, of which a database unit is a
fraction (`UnitDbu`) and the manufacturing grid a multiple (`Grid`); the square root of the
utilization form is the nearest length.  Default tracks ignore where the die begins
(`addGridPatternX(offset, ...)`), so `TracksFillDie` speaks of dies at the origin for them.

### ClipGraph

`graph_extract`: one action per way through the Tcl procedure, since what a refused call has set
stays set.  The chip is a set of tiles, a box the tiles it touches; boxes intersect if they share
one.

| variable, action | code |
|---|---|
| `insts`, `bbox`, `rows` | the block; other commands move and destroy instances between calls |
| `graphModel_`, `edgeWeightModel_`, `fileName_`, `rTree_` | members of the extractor |
| `saved` | the file: each edge with its net, ends and fanout, instead of the weight |
| `UnknownWeight`, `NoOutFile`, `NoRows`, `BadClip` | `exit(1)`; the error of the procedure; `db_has_rows`; the error of the wrapper |
| `Extract`, `InitTree`, `Query`, `Clear` | `init`, `extract`, `clear` |
| `NetSet`, `StarEdges`, `CliqueEdges`, `HasVertices` | `Graph::init`, `updateVertsFromEdges` |
| `Divisor` | what `getEdgeWeight` divides by, with the wrap of `int` |

*Abstracted.*  Sets ordered by address have no order.  `fanout` stands for the weight, which is a
function of it and the model.  A file that cannot be opened is not written, without a word.

### Design

Reading a design.  A LEF file stands for its masters, a liberty file for its cells, a Verilog file
for a hierarchical netlist (comment in the module): what the parsers, which are not in the
repository, make of them.

| variable, action | code |
|---|---|
| `source` | the Verilog network, until `deleteVerilogReader` |
| `tech`, `libs`, `block` | the database; a block has instances, pins and ports on nets |
| `clibs`, `liberty`, `ext` | `library_seq_`: cells of LEF masters with `libertyCell`; liberty libraries; `extCell` of a liberty cell |
| `db_`, `block_`, `top_cell_` | dbNetwork's |
| `ReadLef`, `ReadLiberty` | `read_lef`, `postReadLef`, `readLefAfter`; `dbSta::readLiberty`, `readLibertyAfter` |
| `ReadVerilog`, `LinkDesign` | `read_verilog`; `link_design`, `dbLinkDesign`, `postReadDb` in any case |
| `Flat`, `DbInsts`, `MakeDbNet`, `MakesNet` | `makeBlock`, `makeDbInsts`, `makeDbNets` of one net and its test |
| `ReadDef`, `ReadDb`, `WriteDb`, `Clear` | the commands; `readDefAfter`, `readDbAfter`, `dbNetwork::clear` |
| `MakeLibraries`, `TopCell` | `makeLibrary`, `makeCell`; `makeTopCell` |

*Abstracted.*  A file that does not parse is one that is not read.  A DEF file holds the design
that `link_design` would make.  `read_db` is given an empty database.  In a hierarchical netlist a
net of a child has a terminal only if the port has a net outside, which is how OpenSTA's Verilog
reader connects it; without Verilog a link is not tried, since what the reader does after
`deleteVerilogReader` is not in the repository.

## 3. Runs

### The netlist editing commands

These runs check `MCResizer` with `Spec`.

| run | commands | designs | properties |
|---|---|---|---|
| `ResizerLogic` | all that move terminals, 3 per session | all five | `TypeOK` `TodoLive` `LogicPreserved` `StaysWellDriven` `Equivalent` `DriverCacheOK` `RemoveBuffersComplete` `NoCrash` `KeepsPromise` |
| `ResizerCaches` | those that keep the caches, 3 per session, area limit | ClockTree, SpecialNets | `LevelCacheExact` `DesignAreaExact` `ClockHandsOff` `SpecialHandsOff` |
| `ResizerDesignArea`, `ResizerClockNets`, `ResizerMaxArea` | see [Findings](#5-findings) | | violated |

What the properties say:

- `LogicPreserved`: each buffer repeats, each inverter inverts, each source drives its own
  signal, and each output port and gate input on a net sees the signal it saw in the netlist
  that was read - after every turn of every loop.
- `KeepsPromise`: refinement of `NetlistPromise`, step by step.  No sink goes over to another signal,
  not even for one turn of a loop; one that has lost its net does not get one back; and on a
  netlist with one driver per net and no ring of buffers only `repair_clock_inverters` may
  take a sink off its net, and only an output port (`cloneClkInverter` moves instance terminals
  and then deletes the net).
- `Equivalent`: the same question as `LogicPreserved`, but without the history variable.  `Traced(d)`
  follows each net of `d` back through its drivers to a port, a gate or a tie cell and counts the
  inversions on the way.  On a sound netlist that comes to an end, and for each sink to the
  end it came to in the netlist that was read.  A step could break this and keep `LogicPreserved`:
  a net that lost its driver still has its `sig`.
- `StaysWellDriven`: if the netlist that was read has one driver per net, every net driven and no
  feedthrough, so has every later one.  The condition is about the netlist that was read, not about
  the state: without it `bufferOutput` moves the gate inputs of a feedthrough net but not the
  input port.
- `TodoLive`: what a later turn reads has not been deleted or turned into something else.
- `DriverCacheOK`: exact but for ports, the asymmetry of `disconnectPin`.
- `RemoveBuffersComplete`: in whatever order the buffers are visited, those left have a port on
  one of their nets.
- `LevelCacheExact`, `DesignAreaExact`, `ClockHandsOff` hold under the commands that
  `ResizerCaches` gives.  They fail when the commands left out are given:
  `remove_buffers` and `repair_clock_inverters` break the first two, `repair_tie_fanout` the
  second, and the commands that extend clock nets the third.  `buffer_outputs` is in this run,
  on netlists whose clock does not reach an output port.
- `SpecialHandsOff`: all commands whose code tests `isSpecial`.
- `NoCrash`: a null or deleted object is read for a few reasons only, which it names: the library
  has no master for the buffer; the netlist that was read is not `Sound` (a net without a driver or
  with two, a repeater or tie cell with a terminal on no net, a feedthrough, a ring of buffers);
  `clk_nets_` or the level order holds what was deleted; the driver cache holds a port that
  has left (see `DriverCacheOK`).  Nothing else that a sequence of commands does leads there.

**Bounds.**  Two instance slots and two net slots are free (`b1`, `b2`; `m1`, `m2`): enough
for two buffers on one net, for a split with two loads, and for a slot to be used again after
a deletion.  `MaxCommands` bounds a session: two commands are what a stale cache needs (one
fills it, one changes what it describes while a third reads it, hence three).  A state in which
slots have run out has no further insertions.
`AreaLimits = {6}` is above the area of the netlists at size 1 and below it at size 2, so
that resizing reaches it.

**Deadlock** is not checked: the session may end, the process may die, and slots are bounded.

**Fairness.**  None: these runs check safety.  Termination of the loop that timing ends is
checked in `RepairHold`, where progress can be stated.

### Steiner trees and the repair of one net

| run | module | instance | properties |
|---|---|---|---|
| `SteinerTree` | MCSteinerTree | 2 to 5 pins, 3 locations, every tree of Flute, its points in any order, any drivers | `PinsMatchPoints` `LeftRightIsTree` `Terminates` |
| `RepairNet` | MCRepairNet | 1 to 3 loads, lengths 0, 1 and 4, `max_length` 3 or none, `max_cap` 4, `max_fanout` 2, in the core or not | `TypeOK` `LoadsWaiting` `NoLoop` `EveryRepeaterDrives` `EstimatesExact` `LengthRepaired` `RepeatersOnWire` `InsertsRepeaters` `Terminates` |
| `RepairNetFanout` | MCRepairNet | 4 loads on two branches, fanout limit 2 | violated |

- `PinsMatchPoints`: `setTree` keys the pins by location and pops them one by
  one; every point gets a pin that lies there, no pin two points, and the list is never empty.
- `LeftRightIsTree`: the result is a binary tree from the driver, with the edges of Flute's tree.
- `LoadsWaiting`: the load pins handed up the recursion are disjoint, and with the pins not yet
  reached they are exactly what is on the net.  Otherwise a pin would be moved twice or never.
- `InsertsRepeaters`: refinement of `Repeaters`.  It and `Terminates` hold outside the core too,
  where the code goes on although no repeater was made.
- `EstimatesExact`: fanout, capacitance and wire of a branch are those of the terminals that
  wait on it.  The wire is counted unit by unit along the tree, not by the code's sums.
- `LengthRepaired`: after the command no terminal is farther than `max_length` from what drives
  it, and if anything was repaired no net has more wire than that.  The second half is weaker
  on purpose: whether there is anything to repair is decided by the distance to the farthest
  load (`findMaxSteinerDist`), while the recursion limits the wire of a branch.  So a net with
  near loads and much wire is left alone unless some other limit is violated.

**Bounds.**  Three pins lie anywhere, four at two locations, so with three at one place and every
split of two and two; five pins at one location give the first trees with a Steiner point between
two others, reached from a pin or from either side.
Lengths 0, 1 and 4 against a limit of 3 give an edge that needs
a repeater of its own, an edge that needs one only with what is below it, and points that
coincide; three loads give a branch above a branch, on either side.  The tree with four loads
is in `RepairNetFanout`; with fewer a fanout limit of two is always met.

**Deadlock** is not checked, since both functions return; `Terminates` says that they do.

**Fairness.**  `WF_vars(Next)`: a function that has been called runs until it returns, in one
thread and without waiting for anything.

### Hold repair, floorplans, graphs, designs

| run | module | instance | properties |
|---|---|---|---|
| `RepairHold` | MCRepairHold | 4 drivers, 3 endpoints, 4 paths; slacks -3, -1, 0, gains 1 and 2, no limit or room for 0 or 2 buffers; passes of 2 | `HoldRepaired` `OnePerPassOverLimit` `Terminates` |
| `InitFloorplan` | MCInitFloorplan | 5 areas and 4 shapes, found and missing site, no, a good and a refused file; 3 commands | `RowsFillCore` `RowsInDie` `SitesAlign` `PinsOnCoreEdge` `PinsSpread` `DiesOfOldTracks` `TracksFillDie` |
| `ClipGraph` | MCClipGraph | 4 instances, 5 nets, 3 tiles; 3 commands | `WeightsArePositive` `GraphIsClipOfWhole` |
| `Design` | MCDesign | two files of each kind; 8 commands | `FlatIsHierarchical` `FirstLibertyIsLinked` `NetworkFollowsBlock` |

- `HoldRepaired`: at the end the only paths that are still too short are those all of whose drivers
  are on special nets.  The area limit does not break this, because it ends a pass and not the
  command; `OnePerPassOverLimit` says how far it is obeyed.
- `RowsFillCore`, `RowsInDie`: after rounding to the manufacturing grid and to the sites, the rows
  leave less than a site free on either side and do not stick out of a die at the origin.
- `SitesAlign`: no command removes rows, so floorplans lie over each other, and twice over the same
  area after a `-tracks` file is refused; their sites are on one grid all the same.
- `DiesOfOldTracks`: the null `create()` returns for a layer that has a grid, and a pitch that
  rounds to zero database units, are the only ways a command dies.
- `TracksFillDie`: what a command adds reaches from one edge of the new die to the other, in a die
  whose extent is less than `Word`.
- `GraphIsClipOfWhole`: what is written is the graph of the whole block *now*, cut to the clip:
  nothing is left of an earlier tree, placement or instance; defaults are defaults unless a call
  before was refused; an edge never misses its vertex.  The full graph is that of all instances,
  so the property compares two runs of the expansion, not the expansion with itself.
- `WeightsArePositive`: with a 6 bit `int` instead of 32, so that products of small fanouts do wrap;
  the property excludes fanouts whose third power is no `int`.
- `FlatIsHierarchical`: pins are on one net in the database if and only if ports of modules tie
  them together.  The netlists have an open output, a black box, a feedthrough child that joins two
  nets of the top module, an open net at such a child, a port of a child tied to ground, and two
  levels below the top.
- `FirstLibertyIsLinked`: "Don't clobber an existing liberty cell so link points to the first."
  (dbNetwork.cc:937) in every order of files, links, databases and `ord::clear`.
- `NetworkFollowsBlock`: `ord::clear` is the one command after which dbNetwork names a block that is
  gone (`block_`, `top_cell_`), and the next reader puts it right.

**Bounds.**  `MinRepairs` is 2 where the code has 10, so that a pass is cut short with four drivers;
a special driver and a clock endpoint are among them.  The floorplans are off the grid of the sites,
at the origin and not, too narrow and upside down, on a manufacturing grid that does not divide the
site; `Word` is 2^16, since TLC's integers have 32 bits.  The nets of the graph have two drivers, a
port for a driver, a supply terminal, a terminal of the driver itself.  Eight commands are
what it takes to read two libraries, two liberty files and a netlist, link, write and read again.

**Deadlock** is not checked: sessions are bounded, the process may end.

**Fairness.**  `WF_vars(Next)` for `RepairHold`: the function runs until it returns.  That it does
needs that a buffer makes each path through it later (`Gains` has no 0), which is what a hold
buffer is for; without that the loop of the code does not end.

## 4. Proofs

`tlapm` checks every proof; nothing is assumed but

- `NetlistAssumption`: null is not a net, ports are not instance terminals, areas are natural
  numbers, the buffer's area is one of them;
- `DesignAssumption` of `DbNetwork`: a netlist that was read is well typed, its cells are finitely
  many, its special nets are live, its terminals are on live nets, and its signals are
  consistent - which is what "signal" means;
- `CommandAssumption`: the commands and limits are of their types;
- `SteinerAssumption`: a net has two pins or more, at locations; `null_pt` is no point;
- `RepairNetAssumption`: the trees are finite binary trees as `IsRootedTree` says, pins are not
  numbers, lengths and limits are natural numbers;
- `RepairHoldAssumption`: paths and endpoints are finitely many, slacks integers, a buffer adds
  delay;
- `FloorplanAssumption`, `TracksAssumption`: sites have a size, lengths are natural numbers; a
  tracks file is a sequence of lines, layers have a direction, a pitch and an offset;
- `ClipGraphAssumption`: instances are finitely many, terminals of nets are sequences, boxes and
  clips sets of tiles;
- `DesignAssumption` of `Design`: a hierarchical netlist lists its nets in a sequence, a net tied to
  another through a port after the one outside; pins and ports are on its nets; the names of "no
  file" name no file.

TLC evaluates all of them on the runs of their modules.  Slots of cells and nets are not assumed
finite, nor are sessions, hierarchies or files bounded.

Some theorems are about some sessions or some netlists, and say so as a hypothesis that runs meet:
`Telling` (the session has no `remove_buffers`, `repair_clock_inverters` or `repair_tie_fanout`),
`ClockHands` (none of the commands that put nets into the clock tree), and of the netlist that was
read `WellDriven`, `RingFree`, `Sound` and `ClockInside` (no clock reaches an output port).  The
runs `ResizerDesignArea` and `ResizerClockNets` show that the first two are needed.

| theorem | property | inductive invariant |
|---|---|---|
| `Resizer_proofs!TypeCorrect` | `TypeOK` | `TypeInv == TypeOK /\ TodoLive` |
| `Resizer_proofs!LoopsReadLiveCells` | `TodoLive` | the same |
| `Resizer_proofs!CacheHoldsDrivers` | `DriverCacheOK` | `TypeInv /\ DriverCacheOK` |
| `Resizer_proofs!LogicIsPreserved` | `LogicPreserved` | `LogicInv == TypeInv /\ LogicParts` |
| `Resizer_proofs!StaysWellDrivenAlways` | `StaysWellDriven` | `DriverInv`: `LogicInv` and all of `WellDriven` |
| `Resizer_proofs!SoundAlways` | - | `SoundInv`: `DriverInv`, `RingParts`, `NetsParts`, `CellsParts` |
| `Resizer_proofs!ImplementsPromise` | `KeepsPromise` | `SoundInv` |
| `Resizer_proofs!NetlistsStayEquivalent` | `Equivalent` | `SoundInv` |
| `Resizer_proofs!CrashesExplained` | `NoCrash` | `CrashInv`: `SoundInv`, `DriverCacheOK`, `TodoFrom` |
| `Resizer_proofs!RemoveBuffersIsComplete` | `RemoveBuffersComplete` | `KeptHavePorts` |
| `Resizer_proofs!LevelCacheIsExact` | `LevelCacheExact` | `LevelInv`, under `Telling` |
| `Resizer_proofs!DesignAreaStaysExact` | `DesignAreaExact` | `AreaInv`, under `Telling` |
| `Resizer_proofs!SpecialNetsUntouched` | `SpecialHandsOff` | `LogicInv` |
| `Resizer_proofs!ClockNetsUntouched` | `ClockHandsOff` | `ClockInv`, under `ClockHands` |
| `SteinerTree_proofs!PinsAlwaysMatch` | `PinsMatchPoints` | `PinInv` |
| `SteinerTree_proofs!LeftRightAlwaysTree` | `LeftRightIsTree` | `TreeInv == PinInv /\ AdjInv /\ SearchInv` |
| `RepairNet_proofs!RepairTypeCorrect` | `TypeOK` | `RepairInv` |
| `RepairNet_proofs!NoLoadIsLost` | `LoadsWaiting` | `RepairInv` |
| `RepairNet_proofs!ImplementsRepeaters` | `InsertsRepeaters` | `RepairInv` |
| `RepairNet_proofs!RepeatersDoNotLoop` | `NoLoop` | with `RepairInv` |
| `RepairNet_proofs!RepeatersDrive` | `EveryRepeaterDrives` | with `RepairInv` |
| `RepairNet_proofs!RepeatersAreOnWire` | `RepeatersOnWire` | `FullInv` |
| `RepairNet_proofs!BranchesAreShort` | - | `FullInv` |
| `RepairNet_proofs!EstimatesAlwaysExact` | `EstimatesExact` | `SumsExact`; `FullInv`, `LengthInv` |
| `RepairNet_proofs!LengthAlwaysRepaired` | `LengthRepaired` | `FullInv`, `LengthInv`, `RecursionEnds` |
| `RepairHold_proofs!HoldRepairedHolds` | `HoldRepaired` | `IInv` |
| `RepairHold_proofs!OnePerPassOverLimitHolds` | `OnePerPassOverLimit` | `IInv` |
| `RepairHold_proofs!TypesHold` | - | `IInv` |
| `InitFloorplan_proofs!RowsAlwaysFillCore` | `RowsFillCore` | `Inv` |
| `InitFloorplan_proofs!SitesAlwaysAlign` | `SitesAlign` | `Inv` |
| `InitFloorplan_proofs!PinsAlwaysOnCoreEdge` | `PinsOnCoreEdge` | `Inv` |
| `InitFloorplan_proofs!PinsAlwaysSpread` | `PinsSpread` | `Inv` |
| `InitFloorplan_proofs!RowsAlwaysInDie` | `RowsInDie` | `Inv`, `AskedOK` |
| `InitFloorplan_proofs!TracksAlwaysFillDie` | `TracksFillDie` | `GridsOK` |
| `InitFloorplan_proofs!AlwaysDiesOfOldTracks` | `DiesOfOldTracks` | itself |
| `ClipGraph_proofs!GraphIsClipOfWholeHolds` | `GraphIsClipOfWhole` | `ModelsInv` |
| `ClipGraph_proofs!WeightsArePositiveHolds` | `WeightsArePositive` | `SavedInv` |
| `Design_proofs!FlatAlwaysHierarchical` | `FlatIsHierarchical` | `LinkInv` |
| `Design_proofs!FirstLibertyAlwaysLinked` | `FirstLibertyIsLinked` | `LibsInv` |
| `Design_proofs!NetworkAlwaysFollows` | `NetworkFollowsBlock` | - |

*Types.*  `TypeOK` alone is not inductive: `RemoveBuffer` and `Split` read `kind` and `conn`
of what `todo` holds, and a driver taken from `todo` must be a terminal.  `TodoLive` says so,
and needs in turn that a turn deletes only what it takes out of `todo`.

*Logic.*  `LogicParts` is `LogicPreserved` in named parts.  The lemma `CarryLogic` carries the
argument: after a step in which every old terminal that is still on a net is on one with the
signal it had before, and new nets and cells are consistent among themselves, the parts hold
again, and no sink has gone over to another signal (`LogicStep`).  `InsertLogic`, `RemoveLogic` and
`SplitLogic` show that for the three shapes of edit.
Removing a buffer needs the part for repeaters: loads move from the output net to the input
net, which carry the same signal because a buffer joined them.

*Drivers.*  No part of `StaysWellDriven` is inductive alone.  Buffering an output
moves every instance terminal of the net, so one driver remains only if no port drives the
net too; and a buffer that is removed leaves its loads driven only if its input net was.
So the invariant is the conjunction, with the absence of feedthroughs, and `LogicInv` for the
nets nothing drives.  `LoadsDrivers`, `DriverDrivers`, `RemoveDrivers` and `SplitDrivers` treat
the four shapes of edit.

*No ring, no loose end.*  A sink could lose its net if a buffer fed itself: `RemoveBuffer` would
move the loads to the net it then deletes.  That no command closes a ring is `RingParts`: of any
nets there is one that no repeater drives from another of them.  A step is undone net by net: a
set of nets of the new netlist is the image of a set of the old one, a new net standing for the one
it was made for, and the net the old set has by `RingParts` gives the one asked for.  With `NetsParts` and
`CellsParts` (no net without a driver, no repeater with a loose end) `SoundInv` is inductive.

*Equivalence and promise.*  `Traced` is a recursive function, and which one if any is what
`TracedIsSig` settles.  There is one, for `sig` solves its equation (`TracedEquation`): each
driver of a net puts there what `sig` says (`OutputIsSig`).  And it is `sig`: of the nets on which
the two differ one is driven by no repeater from another of them, and whatever drives it - a
port, a gate, a tie cell, or a repeater whose input is on a net where they agree - makes them
agree there too.  Nothing is needed of the netlist beyond `SoundInv`.  For the refinement,
`PromiseKept` reads `LogicStep` through the mapping `Sees`, and `SinkStep` says which sinks a step
may cut off.

*Deaths.*  What a loop visits comes from a cache or from the netlist (`TodoFrom`); `DeathStep` goes
through the actions that end the process and finds each excluded by `SoundInv`, by the driver
cache or by what the cache holds.  `KeptHavePorts` says of the buffers `remove_buffers` has passed
that they have a port on a net, and no later turn takes a port off a net.

*Caches.*  A level order that passes for valid is exact unless the command has inserted something,
which it then tells (`LevelInv`).  `repair_tie_fanout` tells only if it made a copy: a tie cell
without loads is deleted silently, hence `Telling`.  The area is a sum over the cells, a fold, which
the provers cannot follow by induction; `Counting_proofs` shows that a sum of natural numbers is the
number of marks if each cell gets as many as its area, and sets of marks can be counted: one cell
more, one less, one resized.

*Hands off.*  A clock net can be touched only if a command takes it for another.  `ClockInv`: the
nets a clock reaches are among `clk_nets_` while that counts as valid.  No step of the commands that
are left makes a clock reach further (`ReachStays`): the least closed set of nets of the old netlist
is closed in the new one too, since where the commands put a buffer no clock comes.

*Steiner trees.*  `PinInv`: the list of a location is as long as the location has points left
(`ListsHoldRest`, where `Init` needs that `InOrder` exists: `OrderExists` sorts any finite set), and
the two maps are inverse so far (`MapsMatch`).  `AdjInv`: after `i` points `adj` lists, each once, the
neighbours over the edges of those points (`Found`); a point has three at most, so none is
overwritten.

The recursion of `findLeftRights` is a search, and `SearchInv` says how far it has come: some points
`R` have been reached, `left_` and `right_` are a tree on `R` (`TreeSoFar`), and the edges that the
open calls have not come to lead to all the others, each beyond exactly one of them (`Covers`).  That
is where Flute's tree must be one.  Flute directs it to a root of its own, so what lies beyond an
edge (`Side`) is either what hangs below its lower end or all that does not; `Around` shows that
the sides beyond the edges of a point are apart and hold all other points, wherever the root is, and
`SideSplit` that beyond an edge lie its end and the sides beyond the end's other edges.  So a visit
takes one edge and puts the edges on from there in its place (`CoversStep`).  `Calls` says what a call has
done: a neighbour it has passed is a child (`Seen`), so a call that returns from a Steiner point
has passed three, two of them children, and a visit always finds a free side.  When no call is open no edge
is left, hence `R` is everything.

*Repeaters.*  `RepairInv` is `TypeOK`, `LoadsWaiting`, the shape of the recursion (`Recursion`:
what has returned is closed downwards, what has not has an empty result) and `BranchesLoaded`: a
branch that waits has a load.  The last is what makes a step an `Insert`, whose set is not
empty: every Steiner point has two children and so a load below it.  `MakeRepeaterKeepsLoads`
treats the repeater itself; `JoinStep` shows that nothing is lost between two calls; `NextRepair`
gives the invariant and the step simulation together.  `NoLoop` and `EveryRepeaterDrives` then
need only the abstract step (`InsertKeepsChains`): a repeater takes over what is on net 0, so no
repeater loses its last terminal and inputs move only to repeaters made later.

*Wire.*  `WireBounds` adds what the code knows of lengths: a branch that has returned is within
`max_length`; before the branches are joined either their sum is, or one of them is going to get
a repeater; and while backing up, the wire below the edge is within `max_length` and what is left
of the edge within the edge.  From the latter the repeater's place is on the edge.  All of it
under `inCore /\ max_length > 0`; `RepeatersOnWire` itself is vacuous outside the core, and
without a limit repeaters sit at points.

*Estimates and lengths.*  Fanout and capacitance are sums over what waits (`SumsExact`): the parts that
`Join` adds up share no terminal, and a repeater brings its own input alone.  The wire is counted
in units on the ways up.  `AtOrAbove` is a recursive function; `AboveEquation` shows that there is one,
and what is above what follows by induction from the root (`FromRoot`, the last part of
`IsRootedTree`): the points above a point are on one way (`OneWayUp`), and the ways through two
children do not meet (`ChildrenApart`).  `LengthInv` says where what waits on a branch is: at its
point or below, only a repeater made for a branch of `pt` is at `pt` itself (`WaitPlaces`), and on
the edge it is below what is left of the edge (`BackPlaces`).  So the wire of two branches and of the
edge above them share no unit and adds up (`JoinPlaced`); a repeater at the point takes over all
the wire of its branch (`BranchPlaced`), and one on the edge exactly `max_length` of it
(`BackUpPlaced`); the nets of earlier repeaters do not change (`WireOfNetSame`).  At the end all that
is left on the net waits at the driver (`AllAtRoot`), or there was nothing to repair, and then the
distances of the loads, which the code computes from the driver down, are the same units counted
(`DistIsUnits`).

*Hold repair.*  That the passes end with nothing left to do is not inductive.  `IInv` adds: the
endpoints still in `ends` violate whenever a pass may begin (`EndsViolate`); no violating endpoint
that was asked for has been dropped (`NoneMissed`); in a pass that has inserted nothing, every driver
on a violating path is still to come or on a special net (`NothingLeft`); the command ends only with
no endpoint left or after such a pass (`DoneEmptyOrStuck`).  The cap on a pass cannot end one that
has inserted nothing, because it is at least `MinRepairs`.

*Floorplans.*  `Inv` of `InitFloorplan_proofs` is `Counters /\ RowsOK /\ DieOK /\ PinsOK /\ RowsFillCore`:
every row of every command starts on a multiple of the site and all rows end below one bound (so the
core, read back from the rows, is a box), the die is a box, and pins are where the last placement
put them.  None of the three properties is inductive without it.  The history variable `asked` ties the last rows to the request; the invariants say
that rows of a command are those `MakeRows` makes of it and that every row starts on a multiple of
the site.  The walk around the core needs nonlinear arithmetic that the SMT solver does not find
alone: the lemmas bound `i * (perimeter \div count)` by the perimeter.

`PinsSpread` needs that equal steps less than the perimeter never come back to a place
(`WalkApart`), `RowsInDie` that rounding to the grid is monotonic (`GridOrder`).  Tracks: what each
line of a file adds is `Laid` in the die, and a file of any length adds nothing else (`Grown`, by
induction on the lines).

*Designs.*  `LibsInv` has the types of the libraries and the property; finding the first liberty
cell is a search in a sequence (`FirstFacts`, `FirstOfAppend`).  `Linked`, the invariant of
`FlatAlwaysHierarchical`, says it of the block and of the file `write_db` has written.  The
connections that ports make are an equivalence (`JoinedFacts`: the least relation closed under the
ports is symmetric and transitive); `Flattened(v, b, k)` says what the first `k` nets have given
each pin, `FlattenStep` that one net more keeps it, and `FirstIsMade` that of joined nets the first
one is made, unless it is constant, because a net tied through a port comes after the one outside.

*Graphs.*  `EdgesOfSubset` is the point: the expansion of the instances in a clip is that of all
instances cut to the clip, for the star because source and sinks are looked up in the same set.
With it `GraphIsClipOfWhole` follows from `QueryFindsClip` - a new tree holds the instances as they
are - and `ModelsInv`, which says what the settings are if no call was refused.  The weights need
that an edge has two ends (`FanoutCountsEnds`: a fanout of at least 2) and that a product below
`Half` does not wrap (`WrappedFits`).

Out of the prover's reach: liveness under fairness and `ENABLED`.  The library's induction over data
takes an operator that no prover here can instantiate; where a proof needs one it looks at the least
counterexample instead (`NatMin`, `SmallestSet`).

## 5. Findings

- `ResizerDesignArea`: `removeBuffers` (Resizer.cc:266) deletes cells and leaves
  `design_area_`, "Area of the design in meter^2." (Resizer.hh:103).  The figure is reported
  and counted against the utilization limit.
- `ResizerClockNets`: "Hands off the clock nets." (Resizer.cc:479), but `clk_nets_` is filled
  once (Resizer.cc:800): the net that `repair_clock_nets` adds is not in it, and `resize`
  changes the clock buffer that drives it.
- `ResizerMaxArea`: "Maximum utilizable area (core area * utilization)" (Resizer.hh:81), but
  `setMaxUtilization` (Resizer.cc:595) does not read the core first, so the limit of the first
  command of a session is 0, which stands for none.
- `RepairNetFanout`: "Repair long wires, max slew, max capacitance, max fanout violations"
  (Resizer.cc:1306), but when two branches are over the fanout limit together one repeater is
  put on one of them (Resizer.cc:1646) and the sum is not looked at again.  Four loads with a
  limit of two: one repeater takes over two, the driver is left with that repeater and the other
  two.

## 6. Only model-checked, not modelled

Model-checked, not proved: `Terminates` of `SteinerTree`, of `RepairNet` and of `RepairHold`, which
are liveness.  Every other property of a passing run is a theorem.

Not modelled, and why:

- floating point searches (target loads and slews, wire lengths, `bufferWireDelay`, `setWireRC`)
  and parasitics: their results are free choices where the netlist depends on them;
- reports, SVG, name escaping (`dbSdcNetwork`), argument parsing, `Main`, errors: no state;
- `write_def`, `write_verilog`, `printEdgeList`, `netSlack`: they change nothing;
- `set_layer_rc`: numbers of the technology that no model reads;
- `makeBlockSta`, `setBlock`: called by nothing in the repository;
- `read_db` into a database that is not empty, a second `read_def`: what OpenDB does then is not in
  the repository;
- the resizer's `block_`, `core_` and `design_area_` across a second `link_design` (hazard
  Resizer.cc:208): a session of `Resizer` has one netlist;
- `Unused.cc`: not compiled.

## 7. Plan

Done: `DbNetwork`, `Resizer`, `NetlistPromise`, `SteinerTree`, `RepairNet`, `RepairHold`,
`InitFloorplan`, `ClipGraph`, `Design`, with the proofs above.  Left: **Resizer under Design** - the
resizer's pointers across readers, with a second netlist.
