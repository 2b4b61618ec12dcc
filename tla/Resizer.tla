------------------------------ MODULE Resizer ------------------------------
(***************************************************************************)
(* The commands of src/src/resizer/src/Resizer.cc that edit the netlist.   *)
(*                                                                         *)
(* A Tcl command runs to its end before the next one starts.  It collects  *)
(* the objects it works on (todo) and treats them one after the other: one *)
(* step here is one turn of that loop, with every edit it makes.  The      *)
(* order of the loop (database order, level order, pointer order) depends  *)
(* on things left out here, so any order is allowed.                       *)
(*                                                                         *)
(* Timing decides which driver is slow, which wire is long and which cell  *)
(* size fits best.  It is abstracted to a free choice: a step may happen   *)
(* wherever the code's conditions on the netlist and on the caches allow.  *)
(***************************************************************************)
EXTENDS DbNetwork

CONSTANTS
    Commands,   \* the commands the session may give
    AreaLimits, \* core area times the utilizations a command may ask for
    MaxCommands \* bound: the commands of one session

CommandNames ==
    {"remove_buffers", "buffer_inputs", "buffer_outputs", "repair_tie_fanout",
     "repair_hold_violations", "repair_design", "repair_clock_nets",
     "repair_net", "repair_clock_inverters", "resize",
     "set_max_utilization", "report_design_area", "report_checks"}

ASSUME CommandAssumption ==
    Commands \subseteq CommandNames /\ AreaLimits \subseteq Nat /\ MaxCommands \in Nat

VARIABLES
    alive,          \* the process runs
    hasMaster,      \* the LEF libraries hold a master of the buffer cell
    given,          \* how many commands were given
    cmd,            \* the command that runs, or "idle"
    todo,           \* what its loop still has to visit
    inserted,       \* inserted_buffer_count_ (tie_count) > 0
    block_,         \* block_ # nullptr
    design_area_,
    max_area_,      \* 0 for none
    limit,          \* history variable: the limit that was asked for last
    clk_nets_,
    clk_nets_valid_,
    level_drvrs_,   \* level_drvr_verticies_ while it is valid, by driver pin
    level_drvrs_valid_

cmdVars   == <<given, cmd, todo, inserted>>
areaVars  == <<block_, design_area_, max_area_, limit>>
cacheVars == <<clk_nets_, clk_nets_valid_, level_drvrs_, level_drvrs_valid_>>
vars == <<netVars, alive, hasMaster, cmdVars, areaVars, cacheVars>>

\* design_area_ is a sum of areas and has an invariant of its own, DesignAreaExact.
TypeOK ==
    /\ NetlistTypeOK
    /\ alive \in BOOLEAN /\ hasMaster \in BOOLEAN
    /\ given \in 0..MaxCommands
    /\ cmd \in CommandNames \cup {"idle"}
    /\ todo \subseteq (Pin \cup Inst \cup NetId) /\ inserted \in BOOLEAN
    /\ block_ \in BOOLEAN
    /\ max_area_ \in Nat /\ limit \in Nat
    /\ clk_nets_ \subseteq NetId /\ clk_nets_valid_ \in BOOLEAN
    /\ level_drvrs_ \subseteq DriverPin /\ level_drvrs_valid_ \in BOOLEAN

Init ==
    /\ InitNetlist
    /\ alive = TRUE /\ hasMaster \in BOOLEAN
    /\ given = 0 /\ cmd = "idle" /\ todo = {} /\ inserted = FALSE
    /\ block_ = FALSE /\ design_area_ = 0 /\ max_area_ = 0 /\ limit = 0
    /\ clk_nets_ = {} /\ clk_nets_valid_ = FALSE
    /\ level_drvrs_ = {} /\ level_drvrs_valid_ = FALSE

-----------------------------------------------------------------------------
(***************************************************************************)
(* Queries.                                                                *)
(***************************************************************************)
FindDesignArea == SumFunctionOnSet(size, insts)

OverMaxArea(area) == max_area_ # 0 /\ area >= max_area_

(***************************************************************************)
(* The nets a clock reaches: the smallest set that holds the nets of the   *)
(* clock ports and is closed under buffers and inverters.  The search      *)
(* stops at the gates, which are registers as far as a clock goes.         *)
(***************************************************************************)
ClockClosed(C) ==
    /\ \A p \in ClkPort : conn[p] \in nets => conn[p] \in C
    /\ \A i \in insts : /\ kind[i] \in {"buf", "inv"}
                        /\ conn[In(i)] \in C
                        /\ conn[Out(i)] \in nets
                        => conn[Out(i)] \in C

ClockReach == {n \in nets : \A C \in SUBSET nets : ClockClosed(C) => n \in C}

\* findClkNets takes the net of each pin it reaches; net(pin) of a port is null.
FindClkNets == {n \in ClockReach : PinIterator(n) # {}}

IsClock(n) == n \in clk_nets_

Drivers == InPort \cup {Out(i) : i \in insts}

\* Slots create() may hand out.
FreeInst == Inst \ insts
FreeNet  == NetId \ nets

-----------------------------------------------------------------------------
(***************************************************************************)
(* ensureBlock() and init().                                               *)
(***************************************************************************)
EnsureBlock ==
    /\ block_' = TRUE
    /\ design_area_' = IF block_ THEN design_area_ ELSE FindDesignArea
    /\ UNCHANGED <<max_area_, limit>>

EnsureLevelDrvrVerticies ==
    /\ level_drvrs_' = IF level_drvrs_valid_ THEN level_drvrs_ ELSE Drivers
    /\ level_drvrs_valid_' = TRUE

EnsureClkNets ==
    /\ clk_nets_' = IF clk_nets_valid_ THEN clk_nets_ ELSE clk_nets_ \cup FindClkNets
    /\ clk_nets_valid_' = TRUE

InitResizer == EnsureBlock /\ EnsureLevelDrvrVerticies /\ EnsureClkNets

Begin(name) ==
    /\ alive /\ cmd = "idle" /\ name \in Commands
    /\ given < MaxCommands /\ given' = given + 1
    /\ cmd' = name /\ inserted' = FALSE
    /\ UNCHANGED <<netVars, alive, hasMaster>>

Running(name) == alive /\ cmd = name

\* Mutant: the loop comes back to what it has treated.
VisitedAgain(x) == todo' = todo /\ UNCHANGED <<alive, hasMaster, given, cmd, cacheVars>>

\* The loop has treated x and goes on; the cell areas and the caches stay.
Visited(x) == todo' = todo \ {x} /\ UNCHANGED <<alive, hasMaster, given, cmd, cacheVars>>

\* x needs nothing.
Skip(x) == Visited(x) /\ UNCHANGED <<netVars, inserted, areaVars>>

(***************************************************************************)
(* x is a pointer to a destroyed object, or a null one: what reading it    *)
(* does is undefined.  The process dies, or the object passes for one that *)
(* needs nothing.                                                          *)
(***************************************************************************)
Undefined(x) ==
    /\ todo' = todo \ {x} /\ alive' \in BOOLEAN
    /\ UNCHANGED <<netVars, hasMaster, given, cmd, inserted, areaVars, cacheVars>>

\* A null dereference, or internalError: the process ends.
Die ==
    /\ alive' = FALSE
    /\ UNCHANGED <<netVars, hasMaster, cmdVars, areaVars, cacheVars>>

(***************************************************************************)
(* The end of a command.  Only some of them tell that the drivers changed. *)
(***************************************************************************)
\* Mutant: repair_design does not tell that the drivers changed.
FinishQuietly ==
    /\ alive /\ cmd # "idle" /\ todo = {}
    /\ cmd' = "idle" /\ todo' = {} /\ inserted' = FALSE
    /\ IF inserted /\ cmd \notin {"remove_buffers", "repair_clock_inverters", "repair_design"}
       THEN level_drvrs_valid_' = FALSE /\ level_drvrs_' = {}
       ELSE UNCHANGED <<level_drvrs_valid_, level_drvrs_>>
    /\ UNCHANGED <<netVars, alive, hasMaster, given, areaVars, clk_nets_, clk_nets_valid_>>

Finish ==
    /\ alive /\ cmd # "idle" /\ todo = {}
    /\ cmd' = "idle" /\ todo' = {} /\ inserted' = FALSE
    /\ IF inserted /\ cmd \notin {"remove_buffers", "repair_clock_inverters"}
       THEN level_drvrs_valid_' = FALSE /\ level_drvrs_' = {}
       ELSE UNCHANGED <<level_drvrs_valid_, level_drvrs_>>
    /\ UNCHANGED <<netVars, alive, hasMaster, given, areaVars, clk_nets_, clk_nets_valid_>>

-----------------------------------------------------------------------------
(***************************************************************************)
(* The two ways to put a buffer b with a new net m on net n.               *)
(* BufferLoads: the terminals S of n move to m, which b drives from n.     *)
(* BufferDriver: the terminals S of n move to m, from which b drives n.    *)
(***************************************************************************)
\* Mutant: the output of the buffer is not connected.
BufferLoadsUndriven(b, m, n, S) == Reconnect({In(b)}, n, Reconnect(S, m, conn))

BufferLoads(b, m, n, S) ==
    Reconnect({Out(b)}, m, Reconnect({In(b)}, n, Reconnect(S, m, conn)))

\* Mutant: the terminals are not taken off the net.
BufferDriverInParallel(b, m, n, S) == Reconnect({Out(b)}, n, Reconnect({In(b)}, m, conn))

BufferDriver(b, m, n, S) ==
    Reconnect({Out(b)}, n, Reconnect({In(b)}, m, Reconnect(S, m, conn)))

\* Instance b of the buffer cell and net m, made for net n, leave the terminals at c.
InsertBuffer(b, m, n, c) ==
    /\ b \in FreeInst /\ m \in FreeNet
    /\ Edit(insts \cup {b}, nets \cup {m}, c)
    /\ kind' = [kind EXCEPT ![b] = "buf"]
    /\ size' = [size EXCEPT ![b] = BufferArea]
    /\ sig'  = [sig EXCEPT ![m] = sig[n]]
    /\ design_area_' = design_area_ + BufferArea
    /\ inserted' = TRUE
    /\ UNCHANGED <<block_, max_area_, limit>>

(***************************************************************************)
(* The net is made before the instance; without a master for the buffer    *)
(* cell makeInstance returns null and the net stays, with nothing on it.   *)
(***************************************************************************)
LeakNet(m, n) ==
    /\ m \in FreeNet
    /\ Edit(insts, nets \cup {m}, conn)
    /\ sig' = [sig EXCEPT ![m] = sig[n]]
    /\ UNCHANGED <<kind, size, inserted, areaVars>>

-----------------------------------------------------------------------------
(***************************************************************************)
(* removeBuffers                                                           *)
(***************************************************************************)
\* Mutant: an inverter passes for a buffer.
StartRemoveRepeaters ==
    /\ Begin("remove_buffers") /\ EnsureBlock
    /\ todo' = {i \in insts : kind[i] \in {"buf", "inv"}}
    /\ UNCHANGED cacheVars

StartRemoveBuffers ==
    /\ Begin("remove_buffers") /\ EnsureBlock
    /\ todo' = {i \in insts : kind[i] = "buf"}
    /\ UNCHANGED cacheVars

\* Mutant: the loop over the instances is lost with the one it destroys.
RemoveOneBuffer(b) ==
    LET input_net  == conn[In(b)]
        output_net == conn[Out(b)]
        moved == Reconnect(PinIterator(output_net) \ {Out(b)}, input_net, conn)
    IN /\ Running("remove_buffers") /\ b \in todo
       /\ input_net # NoNet /\ output_net # NoNet
       /\ ~HasTopLevelPort(input_net) /\ ~HasTopLevelPort(output_net)
       /\ Edit(insts \ {b}, nets \ {output_net}, DeleteInst(b, DeleteNet(output_net, moved)))
       /\ inserted' = TRUE /\ todo' = {}
       /\ UNCHANGED <<kind, size, sig, areaVars, alive, hasMaster, given, cmd, cacheVars>>

RemoveBuffer(b) ==
    LET input_net  == conn[In(b)]
        output_net == conn[Out(b)]
        moved == Reconnect(PinIterator(output_net) \ {Out(b)}, input_net, conn)
    IN /\ Running("remove_buffers") /\ b \in todo
       /\ input_net # NoNet /\ output_net # NoNet
       /\ ~HasTopLevelPort(input_net) /\ ~HasTopLevelPort(output_net)
       /\ Edit(insts \ {b}, nets \ {output_net}, DeleteInst(b, DeleteNet(output_net, moved)))
       /\ inserted' = TRUE
       /\ Visited(b)
       /\ UNCHANGED <<kind, size, sig, areaVars>>

KeepBuffer(b) ==
    /\ Running("remove_buffers") /\ b \in todo
    /\ conn[In(b)] # NoNet /\ conn[Out(b)] # NoNet
    /\ HasTopLevelPort(conn[In(b)]) \/ HasTopLevelPort(conn[Out(b)])
    /\ Skip(b)

\* hasTopLevelPort of a null net.
UnconnectedBuffer(b) ==
    /\ Running("remove_buffers") /\ b \in todo
    /\ conn[In(b)] = NoNet \/ conn[Out(b)] = NoNet
    /\ Die

(***************************************************************************)
(* bufferInputs, bufferInput                                               *)
(***************************************************************************)
StartBufferInputs == Begin("buffer_inputs") /\ InitResizer /\ todo' = InPort

\* Mutants: a clock input is buffered; a special net is.
BuffersClockInput(p) == conn[p] # NoNet /\ conn[p] \notin special
BuffersSpecialInput(p) == conn[p] # NoNet /\ ~IsClock(conn[p])

BuffersInput(p) == conn[p] # NoNet /\ ~IsClock(conn[p]) /\ conn[p] \notin special

BufferInput(p, b, m) ==
    LET input_net == conn[p]
    IN /\ Running("buffer_inputs") /\ p \in todo
       /\ BuffersInput(p) /\ hasMaster
       /\ InsertBuffer(b, m, input_net, BufferLoads(b, m, input_net, PinIterator(input_net)))
       /\ Visited(p)

BufferInputFails(p, m) ==
    /\ Running("buffer_inputs") /\ p \in todo
    /\ BuffersInput(p) /\ ~hasMaster
    /\ LeakNet(m, conn[p])
    /\ Visited(p)

SkipInput(p) == Running("buffer_inputs") /\ p \in todo /\ ~BuffersInput(p) /\ Skip(p)

(***************************************************************************)
(* bufferOutputs, bufferOutput                                             *)
(***************************************************************************)
StartBufferOutputs == Begin("buffer_outputs") /\ InitResizer /\ todo' = OutPort

BuffersOutput(p) == conn[p] # NoNet /\ conn[p] \notin special

BufferOutput(p, b, m) ==
    LET output_net == conn[p]
    IN /\ Running("buffer_outputs") /\ p \in todo
       /\ BuffersOutput(p) /\ hasMaster
       /\ InsertBuffer(b, m, output_net, BufferDriver(b, m, output_net, PinIterator(output_net)))
       /\ Visited(p)

BufferOutputFails(p, m) ==
    /\ Running("buffer_outputs") /\ p \in todo
    /\ BuffersOutput(p) /\ ~hasMaster
    /\ LeakNet(m, conn[p])
    /\ Visited(p)

SkipOutput(p) == Running("buffer_outputs") /\ p \in todo /\ ~BuffersOutput(p) /\ Skip(p)

(***************************************************************************)
(* Copies of instance i, one for each of loads: copy[l], with output net   *)
(* net[l], takes over load l.  The input of a copy goes to in (NoNet for a *)
(* tie cell).  Then the output net of i and i itself are deleted.          *)
(***************************************************************************)
CopyTerms(loads, copy, net, in) ==
    [p \in Pin |->
       IF p \in loads THEN net[p]
       ELSE IF \E l \in loads : p = Out(copy[l]) THEN net[CHOOSE l \in loads : p = Out(copy[l])]
       ELSE IF \E l \in loads : p = In(copy[l]) THEN in
       ELSE conn[p]]

Split(i, loads, in) ==
    \E copy \in Injection(loads, FreeInst), net \in Injection(loads, FreeNet) :
       LET out == conn[Out(i)]
           terms == CopyTerms(loads, copy, net, in)
       IN /\ Edit((insts \cup Range(copy)) \ {i}, (nets \cup Range(net)) \ {out},
                  DeleteInst(i, DeleteNet(out, terms)))
          /\ kind' = [j \in Inst |-> IF j \in Range(copy) THEN kind[i] ELSE kind[j]]
          /\ size' = [j \in Inst |-> IF j \in Range(copy) THEN size[i] ELSE size[j]]
          /\ sig'  = [n \in NetId |-> IF n \in Range(net) THEN sig[out] ELSE sig[n]]
          /\ inserted' = (inserted \/ loads # {})

(***************************************************************************)
(* repairTieFanout: the loads are all connected pins, ports included.  The *)
(* copies are added to the design area; the deleted cell is not taken out. *)
(***************************************************************************)
StartRepairTies ==
    /\ Begin("repair_tie_fanout") /\ EnsureBlock
    /\ todo' = {i \in insts : kind[i] = "tie"}
    /\ UNCHANGED cacheVars

\* Mutant: only the instance terminals get a tie cell of their own.
RepairTieOfInsts(i) ==
    LET loads == PinIterator(conn[Out(i)]) \ {Out(i)}
    IN /\ Running("repair_tie_fanout") /\ i \in todo
       /\ conn[Out(i)] # NoNet
       /\ Split(i, loads, NoNet)
       /\ design_area_' = design_area_ + Cardinality(loads) * size[i]
       /\ Visited(i)
       /\ UNCHANGED <<block_, max_area_, limit>>

RepairTie(i) ==
    LET loads == ConnectedPins(conn[Out(i)]) \ {Out(i)}
    IN /\ Running("repair_tie_fanout") /\ i \in todo
       /\ conn[Out(i)] # NoNet
       /\ Split(i, loads, NoNet)
       /\ design_area_' = design_area_ + Cardinality(loads) * size[i]
       /\ Visited(i)
       /\ UNCHANGED <<block_, max_area_, limit>>

\* connectedPinIterator of a null net.
UnconnectedTie(i) ==
    /\ Running("repair_tie_fanout") /\ i \in todo
    /\ conn[Out(i)] = NoNet
    /\ Die

(***************************************************************************)
(* repairClkInverters, cloneClkInverter: the loads are ITerms only, and    *)
(* the design area is left alone.                                          *)
(***************************************************************************)
StartRepairClkInverters ==
    /\ Begin("repair_clock_inverters") /\ EnsureBlock
    /\ todo' = {i \in insts : kind[i] = "inv" /\ conn[In(i)] \in ClockReach}
    /\ UNCHANGED cacheVars

CloneClkInverter(i) ==
    /\ Running("repair_clock_inverters") /\ i \in todo
    /\ conn[Out(i)] # NoNet
    /\ Split(i, PinIterator(conn[Out(i)]) \ {Out(i)}, conn[In(i)])
    /\ Visited(i)
    /\ UNCHANGED areaVars

KeepClkInverter(i) ==
    /\ Running("repair_clock_inverters") /\ i \in todo
    /\ conn[Out(i)] = NoNet
    /\ Skip(i)

-----------------------------------------------------------------------------
(***************************************************************************)
(* repairHoldViolations, makeHoldDelay: a buffer between driver p and its  *)
(* net.  Each pass inserts some and the passes end when timing says so;    *)
(* running over the area limit ends a pass and not the command.            *)
(***************************************************************************)
StartRepairHold == Begin("repair_hold_violations") /\ InitResizer /\ todo' = {}

DelaysHold(p) ==
    /\ Running("repair_hold_violations")
    /\ p \in Drivers /\ conn[p] # NoNet
    /\ \A i \in insts : p = Out(i) => kind[i] # "tie"   \* constants have no slack
    /\ conn[p] \notin ClockReach
    /\ conn[p] \notin special
    /\ ConnectedPins(conn[p]) # {p}

MakeHoldDelay(p, b, m) ==
    /\ DelaysHold(p) /\ hasMaster
    /\ InsertBuffer(b, m, conn[p], BufferDriver(b, m, conn[p], {p}))
    /\ UNCHANGED <<alive, hasMaster, given, cmd, todo, cacheVars>>

MakeHoldDelayFails(p) == DelaysHold(p) /\ ~hasMaster /\ Die

(***************************************************************************)
(* makeRepeater: buffer b takes over some loads S of net n, all pins but   *)
(* the driver p being loads.  (Outside the core it does nothing.)          *)
(***************************************************************************)
MakeRepeater(n, p, b, m) ==
    \E S \in SUBSET (ConnectedPins(n) \ {p}) :
       /\ S # {} /\ hasMaster
       /\ InsertBuffer(b, m, n, BufferLoads(b, m, n, S))
       /\ UNCHANGED <<alive, hasMaster, given, cmd, todo, cacheVars>>

\* Without a master the location of a null instance is set.
MakeRepeaterFails(n, p) == ConnectedPins(n) # {p} /\ ~hasMaster /\ Die

(***************************************************************************)
(* repairDesign.  The repeaters of one net are steps of their own; they    *)
(* touch no other net of the loop.                                         *)
(***************************************************************************)
StartRepairDesign ==
    /\ Begin("repair_design") /\ InitResizer
    /\ todo' = {Out(i) : i \in {j \in insts : kind[j] # "tie" /\ conn[Out(j)] \notin clk_nets_'}}

RepairsDriver(p) ==
    LET net == conn[p]
    IN /\ Running("repair_design") /\ p \in todo
       /\ net # NoNet /\ ~IsClock(net) /\ kind[p[1]] # "tie"
       /\ ~HasTopLevelPort(net) /\ net \notin special

RepairDesignNet(p, b, m) == RepairsDriver(p) /\ MakeRepeater(conn[p], p, b, m)

RepairDesignNetFails(p) == RepairsDriver(p) /\ MakeRepeaterFails(conn[p], p)

EndRepairDesignNet(p) == Running("repair_design") /\ p \in todo /\ Skip(p)

(***************************************************************************)
(* repairClkNets and the repairNet command: the driver is the first pin in *)
(* the cached driver set of the net.                                       *)
(***************************************************************************)
StartRepairClkNets == Begin("repair_clock_nets") /\ InitResizer /\ todo' = clk_nets_'

StartRepairNet(n) ==
    /\ n \in nets
    /\ Begin("repair_net") /\ InitResizer /\ todo' = {n}

RepairsNet(n) == alive /\ cmd \in {"repair_clock_nets", "repair_net"} /\ n \in todo

RepairNet(n, b, m) ==
    /\ RepairsNet(n) /\ n \in cached
    /\ \E p \in drvrs[n] : conn[p] = n /\ MakeRepeater(n, p, b, m)

RepairNetFails(n) ==
    /\ RepairsNet(n) /\ n \in cached
    /\ \E p \in drvrs[n] : conn[p] = n /\ MakeRepeaterFails(n, p)

EndRepairNet(n) == RepairsNet(n) /\ n \in nets /\ Skip(n)

RepairDeletedNet(n) == RepairsNet(n) /\ n \notin nets /\ Undefined(n)

\* The first element of an empty driver set.
RepairUndrivenNet(n) == RepairsNet(n) /\ n \in cached /\ drvrs[n] = {} /\ Undefined(n)

\* The cached driver has left the net: the steiner tree has no such pin (internalError).
\* A net of fewer than two pins has no tree.
RepairStaleDriver(n) ==
    /\ RepairsNet(n) /\ n \in cached
    /\ Cardinality(ConnectedPins(n)) >= 2
    /\ \E p \in drvrs[n] : conn[p] # n
    /\ Die

(***************************************************************************)
(* resizeToTargetSlew: the drivers of the cached level order.              *)
(***************************************************************************)
StartResize == Begin("resize") /\ InitResizer /\ todo' = level_drvrs_'

\* net(pin) of a port is null, so the ports are passed over.
Resizes(p) ==
    /\ p \in Drivers \ InPort
    /\ conn[p] # NoNet /\ kind[p[1]] # "tie"
    /\ ConnectedPins(conn[p]) # {p}
    /\ ~IsClock(conn[p]) /\ conn[p] \notin special

\* Mutant: the area of the old cell is not taken out.
ResizeDriverAdds(p, s) ==
    LET i == p[1]
        area == design_area_ + s
    IN /\ Running("resize") /\ p \in todo /\ Resizes(p)
       /\ size' = [size EXCEPT ![i] = s]
       /\ design_area_' = area
       /\ todo' = IF OverMaxArea(area) THEN {} ELSE todo \ {p}
       /\ UNCHANGED <<design, insts, kind, nets, special, conn, cached, drvrs, sig>>
       /\ UNCHANGED <<alive, hasMaster, given, cmd, inserted, block_, max_area_, limit, cacheVars>>

ResizeDriver(p, s) ==
    LET i == p[1]
        area == design_area_ - size[i] + s
    IN /\ Running("resize") /\ p \in todo /\ Resizes(p)
       /\ size' = [size EXCEPT ![i] = s]
       /\ design_area_' = area
       /\ todo' = IF OverMaxArea(area) THEN {} ELSE todo \ {p}
       /\ UNCHANGED <<design, insts, kind, nets, special, conn, cached, drvrs, sig>>
       /\ UNCHANGED <<alive, hasMaster, given, cmd, inserted, block_, max_area_, limit, cacheVars>>

SkipDriver(p) ==
    /\ Running("resize") /\ p \in todo
    /\ p \in Drivers /\ ~Resizes(p)
    /\ Skip(p)

ResizeDeletedDriver(p) ==
    /\ Running("resize") /\ p \in todo
    /\ p \notin Drivers
    /\ Undefined(p)

-----------------------------------------------------------------------------
(***************************************************************************)
(* setMaxUtilization: coreArea() is 0 until ensureBlock() has read the     *)
(* core.                                                                   *)
(***************************************************************************)
SetMaxUtilization(a) ==
    /\ alive /\ cmd = "idle" /\ "set_max_utilization" \in Commands
    /\ max_area_' = IF block_ THEN a ELSE 0
    /\ limit' = a
    /\ UNCHANGED <<netVars, alive, hasMaster, cmdVars, block_, design_area_, cacheVars>>

\* report_design_area and utilization only look, through ensureBlock().
ReportDesignArea ==
    /\ alive /\ cmd = "idle" /\ "report_design_area" \in Commands
    /\ EnsureBlock
    /\ UNCHANGED <<netVars, alive, hasMaster, cmdVars, cacheVars>>

\* STA's reports ask for the drivers of nets, and so does repairNet.
QueryDrivers(n) ==
    /\ alive
    /\ \/ cmd = "idle" /\ "report_checks" \in Commands
       \/ RepairsNet(n)
    /\ FillDrivers(n)
    /\ UNCHANGED <<alive, hasMaster, cmdVars, areaVars, cacheVars>>

-----------------------------------------------------------------------------
Start ==
    \/ StartRemoveBuffers \/ StartBufferInputs \/ StartBufferOutputs
    \/ StartRepairTies \/ StartRepairClkInverters \/ StartRepairHold
    \/ StartRepairDesign \/ StartRepairClkNets \/ StartResize
    \/ \E n \in nets : StartRepairNet(n)

\* Steps that put a buffer in slot b and a net in slot m.
Insert(b, m) ==
    \/ \E p \in todo : \/ BufferInput(p, b, m)
                        \/ BufferOutput(p, b, m)
                        \/ RepairDesignNet(p, b, m)
    \/ \E n \in todo : RepairNet(n, b, m)
    \/ \E p \in Drivers : MakeHoldDelay(p, b, m)

\* Steps that fail, or that read what is no longer there.
Fail ==
    \/ \E p \in todo, m \in FreeNet : BufferInputFails(p, m) \/ BufferOutputFails(p, m)
    \/ \E p \in todo : RepairDesignNetFails(p) \/ ResizeDeletedDriver(p)
    \/ \E p \in Drivers : MakeHoldDelayFails(p)
    \/ \E i \in todo : UnconnectedBuffer(i) \/ UnconnectedTie(i)
    \/ \E n \in todo : \/ RepairNetFails(n) \/ RepairDeletedNet(n)
                        \/ RepairUndrivenNet(n) \/ RepairStaleDriver(n)

\* The other turns of the loops.
Visit ==
    \/ \E i \in todo : \/ RemoveBuffer(i) \/ KeepBuffer(i) \/ RepairTie(i)
                        \/ CloneClkInverter(i) \/ KeepClkInverter(i)
    \/ \E p \in todo : \/ SkipInput(p) \/ SkipOutput(p) \/ EndRepairDesignNet(p)
                        \/ SkipDriver(p) \/ (\E s \in Sizes : ResizeDriver(p, s))
    \/ \E n \in todo : EndRepairNet(n)

Next ==
    \/ Start
    \/ \E b \in FreeInst, m \in FreeNet : Insert(b, m)
    \/ Visit
    \/ Fail
    \/ Finish
    \/ \E a \in AreaLimits : SetMaxUtilization(a)
    \/ ReportDesignArea
    \/ \E n \in nets : QueryDrivers(n)

Spec == Init /\ [][Next]_vars

-----------------------------------------------------------------------------
(***************************************************************************)
(* Properties.                                                             *)
(***************************************************************************)
\* What a loop still has to visit is there: the list is collected before the first edit,
\* and no turn deletes or changes a cell that a later turn of remove_buffers,
\* repair_tie_fanout, repair_clock_inverters or repair_design reads through it.
TodoLive ==
    /\ cmd \in {"idle", "repair_hold_violations"} => todo = {}
    /\ cmd = "remove_buffers"         => todo \subseteq {i \in insts : kind[i] = "buf"}
    /\ cmd = "repair_tie_fanout"      => todo \subseteq {i \in insts : kind[i] = "tie"}
    /\ cmd = "repair_clock_inverters" => todo \subseteq {i \in insts : kind[i] = "inv"}
    /\ cmd = "repair_design"          => todo \subseteq {Out(i) : i \in insts}
    /\ cmd = "buffer_inputs"          => todo \subseteq InPort
    /\ cmd = "buffer_outputs"         => todo \subseteq OutPort
    /\ cmd = "resize"                 => todo \subseteq DriverPin
    /\ cmd \in {"repair_clock_nets", "repair_net"} => todo \subseteq NetId

\* The netlist computes what the netlist that was read computed: every buffer and
\* inverter agrees with the signals of its nets, every source drives its own signal, the
\* gates are still there, and every output port and gate input that is on a net sees the
\* signal it saw at first.
LogicPreserved ==
    /\ SourcesOK(Netlist) /\ RepeatersOK(Netlist) /\ NoDanglingPin(Netlist)
    /\ \A i \in design.insts : design.kind[i] = "gate" => i \in insts /\ kind[i] = "gate"
    /\ \A p \in SinkOf(design) : conn[p] # NoNet =>
          /\ design.conn[p] # NoNet
          /\ sig[conn[p]] = design.sig[design.conn[p]]

\* A sound netlist stays equivalent to the one that was read, without regard to the
\* history variable: traced back through the cells that are there now, the net of each
\* sink carries what it did when the netlist was read.
Equivalent ==
    hasMaster /\ Sound(design) =>
       LET now == Traced(Netlist) then == Traced(design)
       IN \A p \in SinkOf(design) : conn[p] # NoNet =>
             design.conn[p] # NoNet /\ now[conn[p]] = then[design.conn[p]]

\* What the sinks of the netlist see.
Sees == [p \in SinkOf(design) |-> IF conn[p] = NoNet THEN NoNet ELSE sig[conn[p]]]

Promise == INSTANCE NetlistPromise WITH
    Sink <- Pin, Port <- OutPort, Nothing <- NoNet, Cutting <- {"repair_clock_inverters"},
    trusted <- WellDriven(design) /\ RingFree(design), work <- cmd, sees <- Sees

\* The commands, turn by turn, do what NetlistPromise allows: no sink sees another signal,
\* none that has lost its net gets one, and in a well driven netlist without rings none
\* loses it but a port: repair_clock_inverters moves instance terminals only and deletes
\* the net of a port an inverter drives.  (Of a ring of buffers remove_buffers leaves one
\* that drives itself, and takes that one's net from everything on it.)
KeepsPromise == Promise!PromiseSpec

\* No edit leaves two drivers on a net, nor a net that stands for a signal without one,
\* not even between two turns of a loop: the terminals that move always find their new
\* driver.  (buffer_outputs does when an input port is wired straight to the output port:
\* WellDriven sets that apart.)
StaysWellDriven == WellDriven(design) => WellDriven(Netlist)

\* The cached drivers of a net are its drivers, but for ports: makeHoldDelay moves a
\* port to another net and disconnectPin leaves it in the entry of the first one.
DriverCacheOK ==
    \A n \in cached : /\ ActualDrivers(n) \subseteq drvrs[n]
                      /\ drvrs[n] \ ActualDrivers(n) \subseteq InPort

\* When remove_buffers has treated every buffer, in whatever order, each buffer that is
\* left has a port on one of its nets.
RemoveBuffersComplete ==
    alive /\ cmd = "remove_buffers" /\ todo = {} =>
       \A i \in insts : kind[i] = "buf" =>
          \E p \in BTerm : conn[p] # NoNet /\ conn[p] \in {conn[In(i)], conn[Out(i)]}

\* Between commands a level order that passes for valid holds exactly the drivers there
\* are, so resize reads no vertex of a deleted pin and misses no new cell.
LevelCacheExact == cmd = "idle" /\ level_drvrs_valid_ => level_drvrs_ = Drivers

\* Once ensureBlock() has summed it up, design_area_ is the area of the live cells, at
\* every turn of every loop ("Area of the design", designArea() in Resizer.hh).
DesignAreaExact == block_ => design_area_ = FindDesignArea

\* "Maximum utilizable area (core area * utilization)" (maxArea() in Resizer.hh).
MaxAreaIsLimit == max_area_ = limit

\* A step that leaves terminal p where it is, and its cell as large as it is if p drives.
HandsOff(p) ==
    /\ conn'[p] = conn[p]
    /\ p \in ITerm \cap DriverPin => size'[p[1]] = size[p[1]]

\* The commands that say "Hands off the clock nets" leave what is on a net the clocks
\* reach now where it is, and its driver as large as it is, whatever clk_nets_ holds.
ClockHandsOff ==
    [][\A n \in ClockReach :
          cmd \in {"resize", "buffer_inputs", "repair_design", "repair_hold_violations"}
          => (\A p \in ConnectedPins(n) : HandsOff(p))]_vars

\* The commands that say "Hands off special nets" leave the terminals of a special net
\* and the cell that drives it alone, and connect nothing new to it.
SpecialHandsOff ==
    [][\A p \in Pin :
          /\ cmd \in {"resize", "buffer_inputs", "buffer_outputs", "repair_design",
                      "repair_hold_violations"}
          /\ conn[p] \in special \/ conn'[p] \in special
          => HandsOff(p)]_vars

\* A command reads a null or a dangling pointer for one of these reasons only: the buffer
\* cell has no master; what was read has a net without a driver or with two, a terminal of
\* a buffer, inverter or tie cell without a net, a feedthrough, or a ring of buffers;
\* clk_nets_ or the level order holds what was deleted; the driver cache holds a port that
\* has left.
NoCrash ==
    \/ alive \/ ~hasMaster \/ ~Sound(design)
    \/ ~(clk_nets_ \subseteq nets) \/ ~(level_drvrs_ \subseteq Drivers)
    \/ \E n \in cached : \E p \in drvrs[n] \cap InPort : conn[p] # n

=============================================================================
