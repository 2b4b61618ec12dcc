-------------------------- MODULE Resizer_proofs --------------------------
(***************************************************************************)
(* Proofs about Resizer, for every design, every number of slots and every *)
(* length of a session.                                                    *)
(***************************************************************************)
EXTENDS Resizer, Counting_proofs

Term == NetId \cup {NoNet}

-----------------------------------------------------------------------------
(***************************************************************************)
(* The terminals of an instance and the edits of the terminal map.         *)
(***************************************************************************)
LEMMA PinFacts ==
    /\ \A i \in Inst : In(i) \in ITerm /\ In2(i) \in ITerm /\ Out(i) \in ITerm
    /\ ITerm \subseteq Pin /\ BTerm \subseteq Pin /\ DriverPin \subseteq Pin
    /\ \A i \in Inst : Out(i) \in DriverPin /\ Out(i)[1] = i
    /\ InPort \subseteq BTerm /\ OutPort \subseteq BTerm
  BY DEF In, In2, Out, ITerm, BTerm, Pin, DriverPin

LEMMA ReconnectType ==
    ASSUME NEW S, NEW n \in Term, NEW c \in [Pin -> Term]
    PROVE  Reconnect(S, n, c) \in [Pin -> Term]
  BY DEF Reconnect

LEMMA DeleteNetType ==
    ASSUME NEW n, NEW c \in [Pin -> Term]
    PROVE  DeleteNet(n, c) \in [Pin -> Term]
  BY DEF DeleteNet, Term

LEMMA DeleteInstType ==
    ASSUME NEW i, NEW c \in [Pin -> Term]
    PROVE  DeleteInst(i, c) \in [Pin -> Term]
  BY DEF DeleteInst, Term

LEMMA BufferTerms ==
    ASSUME NetlistTypeOK, NEW b, NEW m \in NetId, NEW n \in NetId, NEW S
    PROVE  /\ BufferLoads(b, m, n, S) \in [Pin -> Term]
           /\ BufferDriver(b, m, n, S) \in [Pin -> Term]
  BY ReconnectType DEF BufferLoads, BufferDriver, NetlistTypeOK, Term

(***************************************************************************)
(* An edit that keeps to live slots keeps the netlist well formed; the     *)
(* masters, the areas and the signals are written beside it.               *)
(***************************************************************************)
LEMMA EditType ==
    ASSUME NetlistTypeOK,
           NEW I \in SUBSET Inst, NEW N \in SUBSET NetId, NEW c \in [Pin -> Term],
           Edit(I, N, c),
           kind' \in [Inst -> Kinds], size' \in [Inst -> Sizes],
           sig' \in [NetId -> Signal]
    PROVE  NetlistTypeOK'
  <1>1. DrvrsAfter(N, c) \in [NetId -> SUBSET DriverPin]
    BY PinFacts DEF DrvrsAfter, NetlistTypeOK
  <1> QED
    BY <1>1 DEF Edit, NetlistTypeOK, Term

LEMMA InsertType ==
    ASSUME NetlistTypeOK, NEW b, NEW m, NEW n \in NetId, NEW c \in [Pin -> Term],
           InsertBuffer(b, m, n, c)
    PROVE  NetlistTypeOK'
  <1>1. insts \cup {b} \in SUBSET Inst /\ nets \cup {m} \in SUBSET NetId
    BY DEF InsertBuffer, FreeInst, FreeNet, NetlistTypeOK
  <1>2. kind' \in [Inst -> Kinds] /\ size' \in [Inst -> Sizes]
    BY NetlistAssumption DEF InsertBuffer, FreeInst, NetlistTypeOK, Kinds
  <1>3. sig' \in [NetId -> Signal]
    BY DEF InsertBuffer, FreeNet, NetlistTypeOK
  <1> QED
    BY <1>1, <1>2, <1>3, EditType DEF InsertBuffer

LEMMA LeakType ==
    ASSUME NetlistTypeOK, NEW m, NEW n \in NetId, LeakNet(m, n)
    PROVE  NetlistTypeOK'
  <1>1. insts \in SUBSET Inst /\ nets \cup {m} \in SUBSET NetId /\ conn \in [Pin -> Term]
    BY DEF LeakNet, FreeNet, NetlistTypeOK, Term
  <1>2. sig' \in [NetId -> Signal]
    BY DEF LeakNet, FreeNet, NetlistTypeOK
  <1>3. kind' \in [Inst -> Kinds] /\ size' \in [Inst -> Sizes]
    BY DEF LeakNet, NetlistTypeOK
  <1> QED
    BY <1>1, <1>2, <1>3, EditType DEF LeakNet

LEMMA SplitType ==
    ASSUME NetlistTypeOK, NEW i \in insts, NEW loads, NEW in \in Term,
           conn[Out(i)] # NoNet, Split(i, loads, in)
    PROVE  NetlistTypeOK'
  <1> DEFINE out == conn[Out(i)]
  <1>1. i \in Inst /\ out \in NetId
    BY PinFacts DEF NetlistTypeOK
  <1>2. PICK copy \in Injection(loads, FreeInst), net \in Injection(loads, FreeNet) :
          /\ Edit((insts \cup Range(copy)) \ {i}, (nets \cup Range(net)) \ {out},
                  DeleteInst(i, DeleteNet(out, CopyTerms(loads, copy, net, in))))
          /\ kind' = [j \in Inst |-> IF j \in Range(copy) THEN kind[i] ELSE kind[j]]
          /\ size' = [j \in Inst |-> IF j \in Range(copy) THEN size[i] ELSE size[j]]
          /\ sig'  = [n \in NetId |-> IF n \in Range(net) THEN sig[out] ELSE sig[n]]
    BY DEF Split
  <1>3. /\ copy \in [loads -> FreeInst] /\ net \in [loads -> FreeNet]
        /\ Range(copy) \subseteq Inst /\ Range(net) \subseteq NetId
    BY DEF Injection, Range, FreeInst, FreeNet, IsInjective
  <1>4. CopyTerms(loads, copy, net, in) \in [Pin -> Term]
    <2> SUFFICES ASSUME NEW p \in Pin
                 PROVE  CopyTerms(loads, copy, net, in)[p] \in Term
      BY DEF CopyTerms
    <2>1. \A l \in loads : net[l] \in NetId
      BY <1>3 DEF FreeNet
    <2>2. (\E l \in loads : p = Out(copy[l])) =>
             (CHOOSE l \in loads : p = Out(copy[l])) \in loads
      OBVIOUS
    <2> QED
      BY <2>1, <2>2 DEF CopyTerms, NetlistTypeOK, Term
  <1>5. DeleteInst(i, DeleteNet(out, CopyTerms(loads, copy, net, in))) \in [Pin -> Term]
    BY <1>4, DeleteNetType, DeleteInstType
  <1>6. kind' \in [Inst -> Kinds] /\ size' \in [Inst -> Sizes] /\ sig' \in [NetId -> Signal]
    BY <1>1, <1>2 DEF NetlistTypeOK
  <1> QED
    BY <1>2, <1>3, <1>5, <1>6, EditType DEF NetlistTypeOK

-----------------------------------------------------------------------------
(***************************************************************************)
(* Types, and what the loops still have to visit.                          *)
(***************************************************************************)
TypeInv == TypeOK /\ TodoLive

USE DEF CommandNames

LEMMA TypeInit == Init => TypeInv
  <1> SUFFICES ASSUME Init PROVE TypeInv
    OBVIOUS
  <1>1. NetlistTypeOK
    BY DesignAssumption DEF Init, InitNetlist, NetlistTypeOK, DesignType
  <1>2. 0 \in Nat /\ 0 \in 0..MaxCommands
    BY CommandAssumption
  <1> QED
    BY <1>1, <1>2 DEF Init, TypeInv, TypeOK, TodoLive

\* What Begin and ensureBlock() leave.
LEMMA BeginType ==
    ASSUME TypeInv, NEW name \in CommandNames, Begin(name), EnsureBlock,
           todo' \subseteq Pin \cup Inst \cup NetId,
           clk_nets_' \subseteq NetId, clk_nets_valid_' \in BOOLEAN,
           level_drvrs_' \subseteq DriverPin, level_drvrs_valid_' \in BOOLEAN
    PROVE  TypeOK' /\ cmd' = name /\ UNCHANGED netVars
  <1>1. NetlistTypeOK' /\ UNCHANGED netVars
    BY DEF Begin, TypeInv, TypeOK, NetlistTypeOK, netVars
  <1>2. given' \in 0..MaxCommands
    BY CommandAssumption DEF Begin, TypeInv, TypeOK
  <1> QED
    BY <1>1, <1>2 DEF Begin, EnsureBlock, TypeInv, TypeOK

LEMMA InitResizerType ==
    ASSUME TypeInv, InitResizer
    PROVE  /\ EnsureBlock
           /\ clk_nets_' \subseteq NetId /\ clk_nets_valid_' \in BOOLEAN
           /\ level_drvrs_' \subseteq DriverPin /\ level_drvrs_valid_' \in BOOLEAN
  BY DEF InitResizer, EnsureLevelDrvrVerticies, EnsureClkNets, FindClkNets, ClockReach,
         Drivers, DriverPin, TypeInv, TypeOK, NetlistTypeOK

LEMMA StartType == TypeInv /\ Start => TypeInv'
  <1> SUFFICES ASSUME TypeInv, Start PROVE TypeInv'
    OBVIOUS
  <1> USE DEF netVars
  <1>0. /\ insts \subseteq Inst /\ nets \subseteq NetId
        /\ clk_nets_ \subseteq NetId /\ clk_nets_valid_ \in BOOLEAN
        /\ level_drvrs_ \subseteq DriverPin /\ level_drvrs_valid_ \in BOOLEAN
    BY DEF TypeInv, TypeOK, NetlistTypeOK
  <1>1. CASE StartRemoveBuffers
    BY <1>0, <1>1, BeginType DEF StartRemoveBuffers, cacheVars, TypeInv, TodoLive
  <1>2. CASE StartBufferInputs
    BY <1>2, BeginType, InitResizerType, PinFacts DEF StartBufferInputs, TypeInv, TodoLive
  <1>3. CASE StartBufferOutputs
    BY <1>3, BeginType, InitResizerType, PinFacts DEF StartBufferOutputs, TypeInv, TodoLive
  <1>4. CASE StartRepairTies
    BY <1>0, <1>4, BeginType DEF StartRepairTies, cacheVars, TypeInv, TodoLive
  <1>5. CASE StartRepairClkInverters
    BY <1>0, <1>5, BeginType DEF StartRepairClkInverters, cacheVars, TypeInv, TodoLive
  <1>6. CASE StartRepairHold
    BY <1>6, BeginType, InitResizerType DEF StartRepairHold, TypeInv, TodoLive
  <1>7. CASE StartRepairDesign
    BY <1>0, <1>7, BeginType, InitResizerType, PinFacts DEF StartRepairDesign, TypeInv, TodoLive
  <1>8. CASE StartRepairClkNets
    BY <1>8, BeginType, InitResizerType DEF StartRepairClkNets, TypeInv, TodoLive
  <1>9. CASE StartResize
    BY <1>9, BeginType, InitResizerType, PinFacts DEF StartResize, TypeInv, TodoLive
  <1>10. CASE \E n \in nets : StartRepairNet(n)
    BY <1>0, <1>10, BeginType, InitResizerType DEF StartRepairNet, TypeInv, TodoLive
  <1> QED
    BY <1>1, <1>2, <1>3, <1>4, <1>5, <1>6, <1>7, <1>8, <1>9, <1>10 DEF Start

\* The steps that write neither the netlist nor the caches.
LEMMA QuietType ==
    ASSUME TypeInv, UNCHANGED <<netVars, cacheVars, hasMaster, given, cmd>>,
           alive' \in BOOLEAN, inserted' \in BOOLEAN, todo' \subseteq todo,
           block_' \in BOOLEAN, max_area_' \in Nat, limit' \in Nat
    PROVE  TypeInv'
  <1>1. NetlistTypeOK'
    BY DEF TypeInv, TypeOK, NetlistTypeOK, netVars
  <1>2. TypeOK'
    BY <1>1 DEF TypeInv, TypeOK, cacheVars
  <1>3. TodoLive'
    BY DEF TypeInv, TodoLive, netVars
  <1> QED
    BY <1>2, <1>3 DEF TypeInv

LEMMA SkipType == ASSUME TypeInv, NEW x, Skip(x) PROVE TypeInv'
  BY QuietType DEF Skip, Visited, areaVars, TypeInv, TypeOK

LEMMA UndefinedType == ASSUME TypeInv, NEW x, Undefined(x) PROVE TypeInv'
  BY QuietType DEF Undefined, areaVars, TypeInv, TypeOK

LEMMA DieType == ASSUME TypeInv, Die PROVE TypeInv'
  BY QuietType DEF Die, cmdVars, areaVars, TypeInv, TypeOK

\* The steps that put a buffer on a net, and those that fail to.
LEMMA NetOfPin ==
    ASSUME NetlistTypeOK, NEW p \in Pin, conn[p] # NoNet
    PROVE  conn[p] \in NetId
  BY DEF NetlistTypeOK

LEMMA InsertTypeInv ==
    ASSUME TypeInv, NEW b, NEW m, NEW n \in NetId, NEW c \in [Pin -> Term],
           InsertBuffer(b, m, n, c), todo' \subseteq todo,
           UNCHANGED <<alive, hasMaster, given, cmd, cacheVars>>,
           cmd \notin {"remove_buffers", "repair_tie_fanout", "repair_clock_inverters"}
    PROVE  TypeInv'
  <1>1. NetlistTypeOK'
    BY InsertType DEF TypeInv, TypeOK
  <1>2. TypeOK'
    BY <1>1 DEF InsertBuffer, TypeInv, TypeOK, cacheVars
  <1>3. insts \subseteq insts'
    BY DEF InsertBuffer, Edit
  <1>4. TodoLive'
    BY <1>3 DEF TypeInv, TodoLive
  <1> QED
    BY <1>2, <1>4 DEF TypeInv

LEMMA LeakTypeInv ==
    ASSUME TypeInv, NEW m, NEW n \in NetId, LeakNet(m, n), NEW x, Visited(x)
    PROVE  TypeInv'
  <1>1. NetlistTypeOK'
    BY LeakType DEF TypeInv, TypeOK
  <1>2. TypeOK'
    BY <1>1 DEF LeakNet, areaVars, Visited, cacheVars, TypeInv, TypeOK
  <1>3. TodoLive'
    BY DEF LeakNet, Edit, Visited, TypeInv, TodoLive
  <1> QED
    BY <1>2, <1>3 DEF TypeInv

LEMMA MakeRepeaterType ==
    ASSUME TypeInv, NEW n \in NetId, NEW p, NEW b, NEW m, MakeRepeater(n, p, b, m),
           cmd \notin {"remove_buffers", "repair_tie_fanout", "repair_clock_inverters"}
    PROVE  TypeInv'
  <1>1. PICK S : /\ InsertBuffer(b, m, n, BufferLoads(b, m, n, S))
                 /\ UNCHANGED <<alive, hasMaster, given, cmd, todo, cacheVars>>
    BY DEF MakeRepeater
  <1>2. BufferLoads(b, m, n, S) \in [Pin -> Term]
    BY <1>1, BufferTerms DEF InsertBuffer, FreeNet, TypeInv, TypeOK
  <1> QED
    BY <1>1, <1>2, InsertTypeInv

LEMMA InsertStepType ==
    ASSUME TypeInv, NEW b \in FreeInst, NEW m \in FreeNet, Insert(b, m)
    PROVE  TypeInv'
  <1>0. NetlistTypeOK /\ m \in NetId
    BY DEF TypeInv, TypeOK, FreeNet
  <1>1. ASSUME NEW p \in todo, BufferInput(p, b, m) PROVE TypeInv'
    <2>1. p \in Pin
      BY <1>1, PinFacts DEF BufferInput, Running, TypeInv, TodoLive
    <2>2. conn[p] \in NetId
      BY <1>0, <1>1, <2>1, NetOfPin DEF BufferInput, BuffersInput
    <2> QED
      BY <1>0, <1>1, <2>2, BufferTerms, InsertTypeInv DEF BufferInput, Running, Visited
  <1>2. ASSUME NEW p \in todo, BufferOutput(p, b, m) PROVE TypeInv'
    <2>1. p \in Pin
      BY <1>2, PinFacts DEF BufferOutput, Running, TypeInv, TodoLive
    <2>2. conn[p] \in NetId
      BY <1>0, <1>2, <2>1, NetOfPin DEF BufferOutput, BuffersOutput
    <2> QED
      BY <1>0, <1>2, <2>2, BufferTerms, InsertTypeInv DEF BufferOutput, Running, Visited
  <1>3. ASSUME NEW p \in todo, RepairDesignNet(p, b, m) PROVE TypeInv'
    <2>1. p \in Pin /\ cmd = "repair_design"
      BY <1>0, <1>3, PinFacts
      DEF RepairDesignNet, RepairsDriver, Running, TypeInv, TodoLive, NetlistTypeOK
    <2>2. conn[p] \in NetId
      BY <1>0, <1>3, <2>1, NetOfPin DEF RepairDesignNet, RepairsDriver
    <2> QED
      BY <1>3, <2>1, <2>2, MakeRepeaterType DEF RepairDesignNet
  <1>4. ASSUME NEW n \in todo, RepairNet(n, b, m) PROVE TypeInv'
    <2>1. n \in NetId /\ cmd \in {"repair_clock_nets", "repair_net"}
      BY <1>4 DEF RepairNet, RepairsNet, TypeInv, TodoLive
    <2>2. PICK p \in drvrs[n] : MakeRepeater(n, p, b, m)
      BY <1>4 DEF RepairNet
    <2> QED
      BY <2>1, <2>2, MakeRepeaterType
  <1>5. ASSUME NEW p \in Drivers, MakeHoldDelay(p, b, m) PROVE TypeInv'
    <2>1. p \in Pin
      BY <1>0, PinFacts DEF Drivers, NetlistTypeOK
    <2>2. conn[p] \in NetId /\ cmd = "repair_hold_violations"
      BY <1>0, <1>5, <2>1, NetOfPin DEF MakeHoldDelay, DelaysHold, Running
    <2> QED
      BY <1>0, <1>5, <2>2, BufferTerms, InsertTypeInv DEF MakeHoldDelay
  <1> QED
    BY <1>1, <1>2, <1>3, <1>4, <1>5 DEF Insert

LEMMA FailType == ASSUME TypeInv, Fail PROVE TypeInv'
  <1>0. NetlistTypeOK
    BY DEF TypeInv, TypeOK
  <1>1. ASSUME NEW p \in todo, NEW m \in FreeNet, BufferInputFails(p, m) PROVE TypeInv'
    <2>1. p \in Pin
      BY <1>1, PinFacts DEF BufferInputFails, Running, TypeInv, TodoLive
    <2> QED
      BY <1>0, <1>1, <2>1, NetOfPin, LeakTypeInv DEF BufferInputFails, BuffersInput
  <1>2. ASSUME NEW p \in todo, NEW m \in FreeNet, BufferOutputFails(p, m) PROVE TypeInv'
    <2>1. p \in Pin
      BY <1>2, PinFacts DEF BufferOutputFails, Running, TypeInv, TodoLive
    <2> QED
      BY <1>0, <1>2, <2>1, NetOfPin, LeakTypeInv DEF BufferOutputFails, BuffersOutput
  <1>3. ASSUME NEW x, \/ RepairDesignNetFails(x) \/ MakeHoldDelayFails(x)
                      \/ UnconnectedBuffer(x) \/ UnconnectedTie(x)
                      \/ RepairNetFails(x) \/ RepairStaleDriver(x)
        PROVE  TypeInv'
    BY <1>3, DieType
    DEF RepairDesignNetFails, MakeRepeaterFails, MakeHoldDelayFails, UnconnectedBuffer,
        UnconnectedTie, RepairNetFails, RepairStaleDriver
  <1>4. ASSUME NEW x, \/ ResizeDeletedDriver(x) \/ RepairDeletedNet(x)
                      \/ RepairUndrivenNet(x)
        PROVE  TypeInv'
    BY <1>4, UndefinedType DEF ResizeDeletedDriver, RepairDeletedNet, RepairUndrivenNet
  <1> QED
    BY <1>1, <1>2, <1>3, <1>4 DEF Fail

\* What Split leaves, for the two commands that clone cells.
LEMMA SplitTypeInv ==
    ASSUME TypeInv, NEW i \in todo, NEW loads, NEW in \in Term,
           cmd \in {"repair_tie_fanout", "repair_clock_inverters"},
           conn[Out(i)] # NoNet, Split(i, loads, in), Visited(i),
           block_' = block_, max_area_' = max_area_, limit' = limit
    PROVE  TypeInv'
  <1>1. i \in insts
    BY DEF TypeInv, TodoLive
  <1>2. NetlistTypeOK'
    BY <1>1, SplitType DEF TypeInv, TypeOK
  <1>3. PICK copy \in Injection(loads, FreeInst) :
          /\ insts' = (insts \cup Range(copy)) \ {i}
          /\ kind' = [j \in Inst |-> IF j \in Range(copy) THEN kind[i] ELSE kind[j]]
          /\ inserted' \in BOOLEAN
    BY DEF Split, Edit
  <1>4. TypeOK'
    BY <1>2, <1>3 DEF Visited, cacheVars, TypeInv, TypeOK
  <1>5. \A j \in insts \ {i} : j \in insts' /\ kind'[j] = kind[j]
    BY <1>3 DEF Injection, FreeInst, Range, TypeInv, TypeOK, NetlistTypeOK
  <1>6. TodoLive'
    BY <1>5 DEF Visited, TypeInv, TodoLive
  <1> QED
    BY <1>4, <1>6 DEF TypeInv

LEMMA VisitType == ASSUME TypeInv, Visit PROVE TypeInv'
  <1>0. NetlistTypeOK
    BY DEF TypeInv, TypeOK
  <1>1. ASSUME NEW b \in todo, RemoveBuffer(b) PROVE TypeInv'
    <2> DEFINE moved == Reconnect(PinIterator(conn[Out(b)]) \ {Out(b)}, conn[In(b)], conn)
               terms == DeleteInst(b, DeleteNet(conn[Out(b)], moved))
    <2>1. b \in insts /\ b \in Inst /\ cmd = "remove_buffers"
      BY <1>0, <1>1 DEF RemoveBuffer, Running, TypeInv, TodoLive, NetlistTypeOK
    <2>2. conn[In(b)] \in Term
      BY <1>0, <2>1, PinFacts DEF NetlistTypeOK, Term
    <2>3. terms \in [Pin -> Term]
      BY <1>0, <2>2, ReconnectType, DeleteNetType, DeleteInstType DEF NetlistTypeOK, Term
    <2>4. /\ Edit(insts \ {b}, nets \ {conn[Out(b)]}, terms)
          /\ UNCHANGED <<kind, size, sig>>
      BY <1>1 DEF RemoveBuffer
    <2>5. NetlistTypeOK'
      BY <1>0, <2>3, <2>4, EditType DEF NetlistTypeOK
    <2>6. TypeOK'
      BY <1>1, <2>5 DEF RemoveBuffer, areaVars, Visited, cacheVars, TypeInv, TypeOK
    <2>7. TodoLive'
      BY <1>1, <2>1, <2>4 DEF RemoveBuffer, Visited, Edit, TypeInv, TodoLive
    <2> QED
      BY <2>6, <2>7 DEF TypeInv
  <1>2. ASSUME NEW i \in todo, RepairTie(i) PROVE TypeInv'
    BY <1>2, SplitTypeInv DEF RepairTie, Running, Term
  <1>3. ASSUME NEW i \in todo, CloneClkInverter(i) PROVE TypeInv'
    <2>1. conn[In(i)] \in Term
      BY <1>0, <1>3, PinFacts
      DEF CloneClkInverter, Running, TypeInv, TodoLive, NetlistTypeOK, Term
    <2> QED
      BY <1>3, <2>1, SplitTypeInv DEF CloneClkInverter, Running, areaVars
  <1>4. ASSUME NEW p \in todo, NEW s \in Sizes, ResizeDriver(p, s) PROVE TypeInv'
    <2>1. NetlistTypeOK'
      BY <1>0, <1>4 DEF ResizeDriver, NetlistTypeOK
    <2>2. TypeOK'
      BY <1>4, <2>1 DEF ResizeDriver, cacheVars, TypeInv, TypeOK
    <2>3. TodoLive'
      BY <1>4 DEF ResizeDriver, Running, TypeInv, TodoLive
    <2> QED
      BY <2>2, <2>3 DEF TypeInv
  <1>5. ASSUME NEW x, \/ KeepBuffer(x) \/ KeepClkInverter(x) \/ SkipInput(x) \/ SkipOutput(x)
                      \/ EndRepairDesignNet(x) \/ SkipDriver(x) \/ EndRepairNet(x)
        PROVE  TypeInv'
    BY <1>5, SkipType
    DEF KeepBuffer, KeepClkInverter, SkipInput, SkipOutput, EndRepairDesignNet, SkipDriver,
        EndRepairNet
  <1> QED
    BY <1>1, <1>2, <1>3, <1>4, <1>5 DEF Visit

LEMMA FinishType == ASSUME TypeInv, Finish PROVE TypeInv'
  <1>1. NetlistTypeOK'
    BY DEF Finish, netVars, TypeInv, TypeOK, NetlistTypeOK
  <1>2. TypeOK'
    BY <1>1 DEF Finish, areaVars, TypeInv, TypeOK
  <1> QED
    BY <1>2 DEF Finish, TypeInv, TodoLive

LEMMA TypeNext == TypeInv /\ [Next]_vars => TypeInv'
  <1> SUFFICES ASSUME TypeInv, [Next]_vars PROVE TypeInv'
    OBVIOUS
  <1>1. CASE Start
    BY <1>1, StartType
  <1>2. CASE \E b \in FreeInst, m \in FreeNet : Insert(b, m)
    BY <1>2, InsertStepType
  <1>3. CASE Visit
    BY <1>3, VisitType
  <1>4. CASE Fail
    BY <1>4, FailType
  <1>5. CASE Finish
    BY <1>5, FinishType
  <1>6. CASE \E a \in AreaLimits : SetMaxUtilization(a)
    BY <1>6, QuietType, CommandAssumption DEF SetMaxUtilization, cmdVars, TypeInv, TypeOK
  <1>7. CASE ReportDesignArea
    BY <1>7, QuietType DEF ReportDesignArea, EnsureBlock, cmdVars, TypeInv, TypeOK
  <1>8. CASE \E n \in nets : QueryDrivers(n)
    <2> PICK n \in nets : QueryDrivers(n)
      BY <1>8
    <2>1. NetlistTypeOK'
      BY PinFacts DEF QueryDrivers, FillDrivers, ActualDrivers, TypeInv, TypeOK, NetlistTypeOK
    <2>2. TypeOK'
      BY <2>1 DEF QueryDrivers, cmdVars, areaVars, cacheVars, TypeInv, TypeOK
    <2>3. TodoLive'
      BY DEF QueryDrivers, FillDrivers, cmdVars, TypeInv, TodoLive
    <2> QED
      BY <2>2, <2>3 DEF TypeInv
  <1>9. CASE UNCHANGED vars
    BY <1>9, QuietType DEF vars, cmdVars, areaVars, TypeInv, TypeOK
  <1> QED
    BY <1>1, <1>2, <1>3, <1>4, <1>5, <1>6, <1>7, <1>8, <1>9 DEF Next

LEMMA TypeInvariant == Spec => []TypeInv
  BY TypeInit, TypeNext, PTL DEF Spec

\* Every variable keeps to its type: the netlist has no terminal outside its slots, the
\* driver cache no entry of a deleted net.
THEOREM TypeCorrect == Spec => []TypeOK
  BY TypeInvariant, PTL DEF TypeInv

\* No loop is left with a deleted cell, or with a cell that became another kind.
THEOREM LoopsReadLiveCells == Spec => []TodoLive
  BY TypeInvariant, PTL DEF TypeInv

-----------------------------------------------------------------------------
(***************************************************************************)
(* The driver cache.  Whatever an edit does to the terminals, connect and  *)
(* disconnectPin keep the entries as they should be, so the proof looks at *)
(* no command.                                                             *)
(***************************************************************************)
LEMMA EditKeepsCache ==
    ASSUME TypeOK, DriverCacheOK, NEW I, NEW N, NEW c, Edit(I, N, c)
    PROVE  DriverCacheOK'
  <1> SUFFICES ASSUME NEW n \in cached'
               PROVE  /\ ActualDrivers(n)' \subseteq drvrs'[n]
                      /\ drvrs'[n] \ ActualDrivers(n)' \subseteq InPort
    BY DEF DriverCacheOK
  <1>1. /\ n \in cached /\ n \in N /\ n \in NetId /\ conn' = c
        /\ drvrs[n] \subseteq DriverPin
        /\ drvrs'[n] = (drvrs[n] \ {p \in ITerm : conn[p] = n /\ c[p] # n})
                          \cup {p \in DriverPin : c[p] = n /\ conn[p] # n}
    BY DEF Edit, DrvrsAfter, TypeOK, NetlistTypeOK
  <1>2. /\ {p \in DriverPin : conn[p] = n} \subseteq drvrs[n]
        /\ \A p \in drvrs[n] : conn[p] = n \/ p \in InPort
    BY <1>1 DEF DriverCacheOK, ActualDrivers
  <1>3. \A p \in DriverPin : p \in ITerm \/ p \in InPort
    BY PinFacts DEF DriverPin
  <1>4. \A p \in DriverPin : c[p] = n => p \in drvrs'[n]
    BY <1>1, <1>2
  <1>5. \A p \in drvrs'[n] : p \in DriverPin /\ (c[p] = n \/ p \in InPort)
    BY <1>1, <1>2, <1>3
  <1> QED
    BY <1>1, <1>4, <1>5 DEF ActualDrivers

\* Every step is an edit, fills one entry, or leaves terminals and entries alone.
LEMMA StepOnCache ==
    ASSUME [Next]_vars
    PROVE  \/ \E I, N, c : Edit(I, N, c)
           \/ \E n \in nets : FillDrivers(n)
           \/ UNCHANGED <<conn, cached, drvrs>>
  <1> DEFINE Goal == \/ \E I, N, c : Edit(I, N, c)
                     \/ \E n \in nets : FillDrivers(n)
                     \/ UNCHANGED <<conn, cached, drvrs>>
  <1> USE DEF netVars
  <1>1. CASE Start
    BY <1>1
    DEF Start, Begin, StartRemoveBuffers, StartBufferInputs, StartBufferOutputs,
        StartRepairTies, StartRepairClkInverters, StartRepairHold, StartRepairDesign,
        StartRepairClkNets, StartResize, StartRepairNet
  <1>2. CASE \E b \in FreeInst, m \in FreeNet : Insert(b, m)
    <2>1. \A b, m, n, c : InsertBuffer(b, m, n, c) => Goal
      BY DEF InsertBuffer
    <2>2. \A n, p, b, m : MakeRepeater(n, p, b, m) => Goal
      BY <2>1 DEF MakeRepeater
    <2> QED
      BY <1>2, <2>1, <2>2
      DEF Insert, BufferInput, BufferOutput, RepairDesignNet, RepairNet, MakeHoldDelay
  <1>3. CASE Visit
    <2>1. \A i, loads, in : Split(i, loads, in) => Goal
      BY DEF Split
    <2>2. \A x : RemoveBuffer(x) \/ RepairTie(x) \/ CloneClkInverter(x) => Goal
      BY <2>1 DEF RemoveBuffer, RepairTie, CloneClkInverter
    <2>3. \A x : \/ KeepBuffer(x) \/ KeepClkInverter(x) \/ SkipInput(x) \/ SkipOutput(x)
                 \/ EndRepairDesignNet(x) \/ SkipDriver(x) \/ EndRepairNet(x)
                 => Goal
      BY DEF KeepBuffer, KeepClkInverter, SkipInput, SkipOutput, EndRepairDesignNet,
             SkipDriver, EndRepairNet, Skip
    <2>4. \A p, s : ResizeDriver(p, s) => Goal
      BY DEF ResizeDriver
    <2> QED
      BY <1>3, <2>2, <2>3, <2>4 DEF Visit
  <1>4. CASE Fail
    <2>1. \A m, n : LeakNet(m, n) => Goal
      BY DEF LeakNet
    <2>2. Die => Goal
      BY DEF Die
    <2>3. \A x : Undefined(x) => Goal
      BY DEF Undefined
    <2> QED
      BY <1>4, <2>1, <2>2, <2>3
      DEF Fail, BufferInputFails, BufferOutputFails, RepairDesignNetFails, MakeRepeaterFails,
          MakeHoldDelayFails, UnconnectedBuffer, UnconnectedTie, RepairNetFails,
          RepairStaleDriver, ResizeDeletedDriver, RepairDeletedNet, RepairUndrivenNet
  <1>5. CASE \E n \in nets : QueryDrivers(n)
    BY <1>5 DEF QueryDrivers
  <1> QED
    BY <1>1, <1>2, <1>3, <1>4, <1>5
    DEF Next, Finish, SetMaxUtilization, ReportDesignArea, vars

\* The cached drivers of a net are its drivers, but for input ports that have moved.
THEOREM CacheHoldsDrivers == Spec => []DriverCacheOK
  <1>1. Init => DriverCacheOK
    BY DEF Init, InitNetlist, DriverCacheOK
  <1>2. TypeInv /\ DriverCacheOK /\ [Next]_vars => DriverCacheOK'
    <2> SUFFICES ASSUME TypeOK, DriverCacheOK, [Next]_vars PROVE DriverCacheOK'
      BY DEF TypeInv
    <2>1. CASE \E I, N, c : Edit(I, N, c)
      BY <2>1, EditKeepsCache
    <2>2. CASE \E n \in nets : FillDrivers(n)
      <3>1. PICK n \in nets : FillDrivers(n)
        BY <2>2
      <3>2. \A k \in cached' : ActualDrivers(k)' = ActualDrivers(k)
        BY <3>1 DEF FillDrivers, ActualDrivers
      <3>3. \A k \in cached' : drvrs'[k] = IF k = n THEN ActualDrivers(n) ELSE drvrs[k]
        BY <3>1 DEF FillDrivers, TypeOK, NetlistTypeOK
      <3>4. \A k \in cached' : k = n \/ k \in cached
        BY <3>1 DEF FillDrivers
      <3> QED
        BY <3>2, <3>3, <3>4 DEF DriverCacheOK
    <2>3. CASE UNCHANGED <<conn, cached, drvrs>>
      BY <2>3 DEF DriverCacheOK, ActualDrivers
    <2> QED
      BY <2>1, <2>2, <2>3, StepOnCache
  <1> QED
    BY <1>1, <1>2, TypeInvariant, PTL DEF Spec

-----------------------------------------------------------------------------
(***************************************************************************)
(* Proofs that the commands preserve the logic of the netlist, and that    *)
(* every net keeps its driver.                                             *)
(*                                                                         *)
(* A command moves terminals from one net to another and makes and deletes *)
(* repeaters and tie cells.  The proof has one idea: a terminal that moves *)
(* moves to a net of the same signal (Carried).  Then all that is left to  *)
(* show of a step is that the cells it makes fit the nets they are on.     *)
(***************************************************************************)

LEMMA TermFacts ==
    /\ \A i, j \in Inst : /\ In(i) # Out(j) /\ In(i) # In2(j) /\ In2(i) # Out(j)
                          /\ In(i) = In(j) => i = j
                          /\ In2(i) = In2(j) => i = j
                          /\ Out(i) = Out(j) => i = j
    /\ \A i \in Inst : In(i) \notin BTerm /\ In2(i) \notin BTerm /\ Out(i) \notin BTerm
    /\ \A i \in Inst : In(i) \in Pin /\ In2(i) \in Pin /\ Out(i) \in Pin
    /\ \A p \in ITerm : \E i \in Inst : p \in {In(i), In2(i), Out(i)}
    /\ Pin = ITerm \cup BTerm
    /\ InPort \subseteq BTerm /\ OutPort \subseteq BTerm
  BY NetlistAssumption DEF In, In2, Out, ITerm, BTerm, Pin

Terms(i) == {In(i), In2(i), Out(i)}

\* LogicPreserved in the words of the variables.
LogicParts ==
    /\ \A p \in InPort : conn[p] # NoNet => sig[conn[p]] = <<p, TRUE>>
    /\ \A i \in insts : conn[Out(i)] # NoNet =>
          /\ kind[i] = "gate" => sig[conn[Out(i)]] = <<i, TRUE>>
          /\ kind[i] = "tie"  => sig[conn[Out(i)]] = <<"tie", TRUE>>
    /\ \A i \in insts :
          conn[In(i)] # NoNet /\ conn[Out(i)] # NoNet =>
             /\ kind[i] = "buf" => sig[conn[Out(i)]] = sig[conn[In(i)]]
             /\ kind[i] = "inv" => sig[conn[Out(i)]] = Invert(sig[conn[In(i)]])
    /\ \A p \in Pin : conn[p] \in nets \cup {NoNet}
    /\ \A i \in Inst \ insts : \A p \in Terms(i) : conn[p] = NoNet
    /\ \A i \in design.insts : design.kind[i] = "gate" => i \in insts /\ kind[i] = "gate"
    /\ \A p \in SinkOf(design) : conn[p] # NoNet =>
          /\ design.conn[p] # NoNet
          /\ sig[conn[p]] = design.sig[design.conn[p]]

LEMMA PartsOfLogic == LogicPreserved <=> LogicParts
  BY DEF LogicPreserved, LogicParts, SourcesOK, RepeatersOK, NoDanglingPin, Netlist, Terms,
         In, In2, Out

LEMMA SinkFacts ==
    ASSUME TypeOK, NEW p \in SinkOf(design)
    PROVE  p \in OutPort \/ \E i \in design.insts : design.kind[i] = "gate" /\ p \in Terms(i)
  BY DEF SinkOf, Terms

\* Terminal p is left alone, cut, or moved to a net of the same signal.
Carried(p) == conn'[p] # NoNet => conn[p] # NoNet /\ sig'[conn'[p]] = sig[conn[p]]

\* The logic is preserved, and no sink is carried elsewhere.
LogicStep == LogicParts' /\ \A p \in SinkOf(design) : Carried(p)

(***************************************************************************)
(* The ports and the terminals of the cells of K are carried; the other    *)
(* cells are new, and they fit.                                            *)
(***************************************************************************)
LEMMA CarryLogic ==
    ASSUME TypeOK, LogicParts, NEW K \in SUBSET insts,
           design' = design, K \subseteq insts',
           \A i \in insts : kind[i] = "gate" => i \in K,
           \A i \in K : kind'[i] = kind[i] /\ \A p \in Terms(i) : Carried(p),
           \A p \in BTerm : Carried(p),
           \A i \in insts' \ K : kind'[i] # "gate",
           \A i \in insts' \ K : conn'[Out(i)] # NoNet /\ kind'[i] = "tie" =>
              sig'[conn'[Out(i)]] = <<"tie", TRUE>>,
           \A i \in insts' \ K : conn'[In(i)] # NoNet /\ conn'[Out(i)] # NoNet =>
              /\ kind'[i] = "buf" => sig'[conn'[Out(i)]] = sig'[conn'[In(i)]]
              /\ kind'[i] = "inv" => sig'[conn'[Out(i)]] = Invert(sig'[conn'[In(i)]]),
           \A p \in Pin : conn'[p] \in nets' \cup {NoNet},
           \A i \in Inst \ insts' : \A p \in Terms(i) : conn'[p] = NoNet
    PROVE  LogicStep
  <1>0. /\ \A i \in K : i \in insts /\ Carried(In(i)) /\ Carried(Out(i)) /\ Carried(In2(i))
        /\ \A p \in BTerm : Carried(p)
    BY DEF Terms
  <1>1. \A p \in InPort : conn'[p] # NoNet => sig'[conn'[p]] = <<p, TRUE>>
    BY <1>0, TermFacts DEF Carried, LogicParts
  <1>2. \A i \in insts' : conn'[Out(i)] # NoNet =>
          /\ kind'[i] = "gate" => sig'[conn'[Out(i)]] = <<i, TRUE>>
          /\ kind'[i] = "tie"  => sig'[conn'[Out(i)]] = <<"tie", TRUE>>
    <2> SUFFICES ASSUME NEW i \in K, conn'[Out(i)] # NoNet
                 PROVE  /\ kind'[i] = "gate" => sig'[conn'[Out(i)]] = <<i, TRUE>>
                        /\ kind'[i] = "tie"  => sig'[conn'[Out(i)]] = <<"tie", TRUE>>
      OBVIOUS
    <2>1. i \in insts /\ kind'[i] = kind[i] /\ conn[Out(i)] # NoNet
          /\ sig'[conn'[Out(i)]] = sig[conn[Out(i)]]
      BY <1>0 DEF Carried
    <2>2. /\ kind[i] = "gate" => sig[conn[Out(i)]] = <<i, TRUE>>
          /\ kind[i] = "tie"  => sig[conn[Out(i)]] = <<"tie", TRUE>>
      BY <2>1, Zenon DEF LogicParts
    <2> QED
      BY <2>1, <2>2, Zenon
  <1>3. \A i \in insts' :
          conn'[In(i)] # NoNet /\ conn'[Out(i)] # NoNet =>
             /\ kind'[i] = "buf" => sig'[conn'[Out(i)]] = sig'[conn'[In(i)]]
             /\ kind'[i] = "inv" => sig'[conn'[Out(i)]] = Invert(sig'[conn'[In(i)]])
    <2> SUFFICES ASSUME NEW i \in K, conn'[In(i)] # NoNet, conn'[Out(i)] # NoNet
                 PROVE  /\ kind'[i] = "buf" => sig'[conn'[Out(i)]] = sig'[conn'[In(i)]]
                        /\ kind'[i] = "inv" =>
                              sig'[conn'[Out(i)]] = Invert(sig'[conn'[In(i)]])
      OBVIOUS
    <2>1. /\ conn[In(i)] # NoNet /\ sig'[conn'[In(i)]] = sig[conn[In(i)]]
          /\ conn[Out(i)] # NoNet /\ sig'[conn'[Out(i)]] = sig[conn[Out(i)]]
      BY <1>0 DEF Carried
    <2> QED
      BY <2>1 DEF LogicParts
  <1>4. \A i \in design.insts : design.kind[i] = "gate" => i \in K /\ kind'[i] = "gate"
    BY DEF LogicParts
  <1>5. \A p \in SinkOf(design) : Carried(p)
    BY <1>4, SinkFacts, TermFacts
  <1>6. \A p \in SinkOf(design) : conn'[p] # NoNet =>
          /\ design.conn[p] # NoNet
          /\ sig'[conn'[p]] = design.sig[design.conn[p]]
    BY <1>5 DEF Carried, LogicParts
  <1> QED
    BY <1>1, <1>2, <1>3, <1>4, <1>5, <1>6 DEF LogicParts, LogicStep

LogicInv == TypeInv /\ LogicParts

\* A step that leaves the terminals, the signals and the kinds alone.
LEMMA SameLogic ==
    ASSUME LogicParts, UNCHANGED <<design, insts, kind, nets, conn, sig>>
    PROVE  LogicStep
  BY DEF LogicParts, Terms, LogicStep, Carried

LEMMA InsertLogic ==
    ASSUME TypeOK, LogicParts, NEW b, NEW m, NEW n \in nets, NEW c \in [Pin -> Term],
           NEW S \in SUBSET ConnectedPins(n), InsertBuffer(b, m, n, c),
           c \in {BufferLoads(b, m, n, S), BufferDriver(b, m, n, S)}
    PROVE  LogicStep
  <1>1. /\ b \in Inst /\ b \notin insts /\ m \in NetId /\ m \notin nets /\ n \in NetId
        /\ insts' = insts \cup {b} /\ nets' = nets \cup {m} /\ conn' = c /\ design' = design
        /\ kind' = [kind EXCEPT ![b] = "buf"] /\ sig' = [sig EXCEPT ![m] = sig[n]]
    BY DEF InsertBuffer, FreeInst, FreeNet, Edit, TypeOK, NetlistTypeOK
  <1>2. /\ NetlistTypeOK /\ m # NoNet /\ n # NoNet /\ n # m
        /\ insts \subseteq Inst /\ kind \in [Inst -> Kinds] /\ sig \in [NetId -> Signal]
    BY <1>1, NetlistAssumption DEF TypeOK, NetlistTypeOK
  <1>3. sig'[m] = sig[n] /\ (\A x \in nets : sig'[x] = sig[x])
    BY <1>1, <1>2 DEF NetlistTypeOK
  <1>4. /\ \A p \in Pin : \/ conn'[p] = conn[p]
                          \/ p \in S /\ conn'[p] = m
                          \/ p \in {In(b), Out(b)}
        /\ \/ conn'[In(b)] = n /\ conn'[Out(b)] = m
           \/ conn'[In(b)] = m /\ conn'[Out(b)] = n
    <2>1. In(b) \in Pin /\ Out(b) \in Pin /\ In(b) # Out(b)
      BY <1>1, TermFacts
    <2>2. CASE c = BufferLoads(b, m, n, S)
      BY <1>1, <2>1, <2>2 DEF BufferLoads, Reconnect
    <2>3. CASE c = BufferDriver(b, m, n, S)
      BY <1>1, <2>1, <2>3 DEF BufferDriver, Reconnect
    <2> QED
      BY <2>2, <2>3
  <1>5. \A p \in Pin \ Terms(b) : Carried(p)
    BY <1>2, <1>3, <1>4 DEF Carried, ConnectedPins, LogicParts, Terms
  <1>6. \A i \in insts : \A p \in Terms(i) : p \in Pin \ Terms(b)
    BY <1>1, <1>2, TermFacts DEF Terms
  <1>7. \A p \in BTerm : p \in Pin \ Terms(b)
    BY <1>1, TermFacts DEF Terms
  <1>8. \A i \in insts : kind'[i] = kind[i]
    BY <1>1, <1>2
  <1>9. kind'[b] = "buf" /\ sig'[conn'[Out(b)]] = sig'[conn'[In(b)]]
    BY <1>1, <1>2, <1>3, <1>4
  <1>10. \A p \in Pin : conn'[p] \in nets' \cup {NoNet}
    BY <1>1, <1>4 DEF LogicParts
  <1>11. \A i \in Inst \ insts' : \A p \in Terms(i) : conn'[p] = NoNet
    <2> SUFFICES ASSUME NEW i \in Inst \ insts', NEW p \in Terms(i) PROVE conn'[p] = NoNet
      OBVIOUS
    <2>1. conn[p] = NoNet /\ p \in Pin /\ p \notin {In(b), Out(b)}
      BY <1>1, TermFacts DEF LogicParts, Terms
    <2> QED
      BY <1>2, <1>4, <2>1 DEF ConnectedPins
  <1> QED
    BY <1>1, <1>5, <1>6, <1>7, <1>8, <1>9, <1>10, <1>11, CarryLogic

LEMMA LeakLogic ==
    ASSUME TypeOK, LogicParts, NEW m, NEW n, LeakNet(m, n)
    PROVE  LogicStep
  <1>1. /\ m \notin nets /\ nets' = nets \cup {m} /\ conn' = conn /\ design' = design
        /\ insts' = insts /\ kind' = kind /\ sig' = [sig EXCEPT ![m] = sig[n]]
    BY DEF LeakNet, FreeNet, Edit
  <1>2. nets \subseteq NetId /\ insts \subseteq Inst /\ sig \in [NetId -> Signal]
    BY DEF TypeOK, NetlistTypeOK
  <1>3. \A p \in Pin : Carried(p)
    BY <1>1, <1>2 DEF Carried, LogicParts
  <1>4. \A i \in insts : \A p \in Terms(i) : Carried(p)
    BY <1>2, <1>3, TermFacts DEF Terms
  <1>5. \A p \in BTerm : Carried(p)
    BY <1>3, TermFacts
  <1>6. /\ \A p \in Pin : conn'[p] \in nets' \cup {NoNet}
        /\ \A i \in Inst \ insts' : \A p \in Terms(i) : conn'[p] = NoNet
    BY <1>1 DEF LogicParts
  <1> QED
    BY <1>1, <1>4, <1>5, <1>6, CarryLogic

\* remove_buffers: the loads of the output net move to the input net, which carries the
\* same signal because a buffer is between them.
LEMMA RemoveLogic ==
    ASSUME LogicInv, NEW b \in todo, RemoveBuffer(b)
    PROVE  LogicStep
  <1> DEFINE input_net  == conn[In(b)]
             output_net == conn[Out(b)]
             S == PinIterator(output_net) \ {Out(b)}
  <1>0. TypeOK /\ LogicParts /\ NetlistTypeOK
    BY DEF LogicInv, TypeInv, TypeOK
  <1>1. b \in insts /\ b \in Inst /\ kind[b] = "buf"
    BY <1>0 DEF LogicInv, TypeInv, TodoLive, RemoveBuffer, Running, NetlistTypeOK
  <1>2. /\ input_net # NoNet /\ output_net # NoNet /\ ~HasTopLevelPort(output_net)
        /\ insts' = insts \ {b} /\ nets' = nets \ {output_net} /\ design' = design
        /\ conn' = DeleteInst(b, DeleteNet(output_net, Reconnect(S, input_net, conn)))
        /\ kind' = kind /\ sig' = sig
    BY DEF RemoveBuffer, Edit
  <1>3. sig[output_net] = sig[input_net]
    BY <1>1, <1>2 DEF LogicInv, LogicParts
  <1>4. \A p \in Pin : \/ conn'[p] = NoNet
                       \/ conn'[p] = conn[p] /\ conn[p] # output_net
                       \/ conn[p] = output_net /\ conn'[p] = input_net /\ input_net # output_net
    BY <1>2 DEF DeleteInst, DeleteNet, Reconnect, PinIterator
  <1>5. \A p \in Pin : Carried(p)
    BY <1>2, <1>3, <1>4 DEF Carried
  <1>6. /\ \A p \in BTerm : Carried(p)
        /\ \A i \in insts \ {b} : \A p \in Terms(i) : Carried(p)
    BY <1>0, <1>5, TermFacts DEF Terms, NetlistTypeOK
  <1>7. ASSUME NEW p \in Pin
        PROVE  conn'[p] \in nets' \cup {NoNet}
    <2>1. In(b) \in Pin /\ \A q \in Pin : conn[q] \in nets \cup {NoNet}
      BY <1>0, <1>1, TermFacts DEF LogicParts
    <2>2. conn[p] \in nets \cup {NoNet} /\ input_net \in nets
      BY <1>2, <2>1
    <2> QED
      BY <1>2, <1>4, <2>2
  <1>8. \A i \in Inst \ insts' : \A p \in Terms(i) : conn'[p] = NoNet
    <2> SUFFICES ASSUME NEW i \in Inst \ insts', NEW p \in Terms(i) PROVE conn'[p] = NoNet
      OBVIOUS
    <2>1. p \in Pin
      BY TermFacts DEF Terms
    <2>2. CASE i = b
      BY <1>2, <2>1, <2>2 DEF DeleteInst, Terms
    <2>3. CASE i \notin insts
      BY <1>0, <1>2, <1>4, <2>1, <2>3 DEF LogicParts
    <2> QED
      BY <1>2, <2>2, <2>3
  <1> QED
    BY <1>0, <1>1, <1>2, <1>6, <1>7, <1>8, CarryLogic

(***************************************************************************)
(* repair_tie_fanout and repair_clock_inverters: every load gets a copy of *)
(* the cell that drove it, fed as that cell was.  What Split does, cell by *)
(* cell, net by net and terminal by terminal:                              *)
(***************************************************************************)
SplitEffect(i, loads, in, copy, net) ==
    LET out == conn[Out(i)]
    IN /\ \A l \in loads : /\ copy[l] \in Inst /\ copy[l] \notin insts
                           /\ net[l] \in NetId /\ net[l] \notin nets
       /\ \A k, l \in loads : copy[k] = copy[l] \/ net[k] = net[l] => k = l
       /\ \A j : j \in insts' <=> (j \in insts /\ j # i) \/ \E l \in loads : j = copy[l]
       /\ \A n : n \in nets' <=> (n \in nets /\ n # out) \/ \E l \in loads : n = net[l]
       /\ design' = design
       /\ \A j \in insts : kind'[j] = kind[j]
       /\ \A n \in nets : sig'[n] = sig[n]
       /\ \A l \in loads : /\ kind'[copy[l]] = kind[i]
                           /\ sig'[net[l]] = sig[out]
                           /\ conn'[Out(copy[l])] = net[l]
                           /\ conn'[In(copy[l])] = IF in = out THEN NoNet ELSE in
                           /\ l \notin Terms(i) => conn'[l] = net[l]
       /\ \A p \in Terms(i) : conn'[p] = NoNet
       /\ \A p \in Pin : p \notin loads /\ p \notin Terms(i)
             /\ (\A l \in loads : p # Out(copy[l]) /\ p # In(copy[l]))
             => conn'[p] = IF conn[p] = out THEN NoNet ELSE conn[p]

LEMMA SplitFacts ==
    ASSUME LogicInv, NEW i \in insts, conn[Out(i)] # NoNet,
           NEW loads \in SUBSET ConnectedPins(conn[Out(i)]),
           NEW in \in Term, Split(i, loads, in)
    PROVE  \E copy, net : SplitEffect(i, loads, in, copy, net)
  <1> DEFINE out == conn[Out(i)]
  <1>0. TypeOK /\ LogicParts /\ NetlistTypeOK /\ i \in Inst /\ out \in nets
        /\ insts \subseteq Inst /\ nets \subseteq NetId /\ NoNet \notin NetId
    BY TermFacts, NetlistAssumption DEF LogicInv, LogicParts, TypeInv, TypeOK, NetlistTypeOK
  <1>1. PICK copy \in Injection(loads, FreeInst), net \in Injection(loads, FreeNet) :
          /\ Edit((insts \cup Range(copy)) \ {i}, (nets \cup Range(net)) \ {out},
                  DeleteInst(i, DeleteNet(out, CopyTerms(loads, copy, net, in))))
          /\ kind' = [j \in Inst |-> IF j \in Range(copy) THEN kind[i] ELSE kind[j]]
          /\ sig'  = [n \in NetId |-> IF n \in Range(net) THEN sig[out] ELSE sig[n]]
    BY DEF Split
  <1>2. /\ \A l \in loads : copy[l] \in Inst /\ copy[l] \notin insts
        /\ \A l \in loads : net[l] \in NetId /\ net[l] \notin nets
        /\ \A k, l \in loads : copy[k] = copy[l] \/ net[k] = net[l] => k = l
        /\ \A j : j \in Range(copy) <=> \E l \in loads : j = copy[l]
        /\ \A n : n \in Range(net) <=> \E l \in loads : n = net[l]
    BY DEF Injection, IsInjective, Range, FreeInst, FreeNet
  <1> DEFINE terms == CopyTerms(loads, copy, net, in)
  <1>3. /\ insts' = (insts \cup Range(copy)) \ {i} /\ nets' = (nets \cup Range(net)) \ {out}
        /\ conn' = DeleteInst(i, DeleteNet(out, terms)) /\ design' = design
    BY <1>1 DEF Edit
  <1>4. \A p \in loads : p \in Pin /\ conn[p] = out
    BY DEF ConnectedPins
  \* What each terminal is on before the deletions.
  <1>5. \A l \in loads : terms[l] = net[l]
    BY <1>4 DEF CopyTerms
  <1>6. ASSUME NEW l \in loads
        PROVE  /\ Out(copy[l]) \in Pin /\ Out(copy[l]) \notin loads
               /\ In(copy[l]) \in Pin /\ In(copy[l]) \notin loads
               /\ Out(copy[l]) \notin Terms(i) /\ In(copy[l]) \notin Terms(i)
    <2>1. copy[l] \in Inst \ insts
      BY <1>2
    <2>2. conn[In(copy[l])] = NoNet /\ conn[Out(copy[l])] = NoNet
      BY <1>0, <2>1 DEF LogicParts, Terms
    <2>3. Out(copy[l]) \notin Terms(i) /\ In(copy[l]) \notin Terms(i)
      BY <1>0, <2>1, TermFacts DEF Terms
    <2> QED
      BY <1>4, <2>1, <2>2, <2>3, TermFacts
  <1>7. ASSUME NEW l \in loads PROVE terms[Out(copy[l])] = net[l]
    <2> DEFINE k == CHOOSE k \in loads : Out(copy[l]) = Out(copy[k])
    <2>1. k \in loads /\ Out(copy[l]) = Out(copy[k])
      OBVIOUS
    <2>2. k = l
      BY <1>2, <2>1, TermFacts
    <2>3. terms[Out(copy[l])] = net[k]
      BY <1>6 DEF CopyTerms
    <2> QED
      BY <2>2, <2>3
  <1>8. \A l \in loads : terms[In(copy[l])] = in
    BY <1>2, <1>6, TermFacts DEF CopyTerms
  <1>9. \A p \in Pin : p \notin loads /\ (\A l \in loads : p # Out(copy[l]) /\ p # In(copy[l]))
           => terms[p] = conn[p]
    BY DEF CopyTerms
  \* The deletions.
  <1>10. \A p \in Pin : conn'[p] = IF p \in Terms(i) \/ terms[p] = out THEN NoNet ELSE terms[p]
    BY <1>3 DEF DeleteInst, DeleteNet, Terms
  <1>11. \A l \in loads : net[l] # out
    BY <1>0, <1>2
  <1>12. Terms(i) \subseteq Pin
    BY <1>0, TermFacts DEF Terms
  <1>13. /\ \A j \in insts : kind'[j] = kind[j]
         /\ \A n \in nets : sig'[n] = sig[n]
         /\ \A l \in loads : kind'[copy[l]] = kind[i] /\ sig'[net[l]] = sig[out]
    BY <1>0, <1>1, <1>2
  <1>14. /\ \A j : j \in insts' <=> (j \in insts /\ j # i) \/ \E l \in loads : j = copy[l]
         /\ \A n : n \in nets' <=> (n \in nets /\ n # out) \/ \E l \in loads : n = net[l]
    BY <1>0, <1>2, <1>3
  <1> HIDE DEF terms, out
  <1>15. \A l \in loads : /\ conn'[Out(copy[l])] = net[l]
                          /\ conn'[In(copy[l])] = IF in = out THEN NoNet ELSE in
                          /\ l \notin Terms(i) => conn'[l] = net[l]
    BY <1>4, <1>5, <1>6, <1>7, <1>8, <1>10, <1>11
  <1>16. \A p \in Pin : p \notin loads /\ p \notin Terms(i)
             /\ (\A l \in loads : p # Out(copy[l]) /\ p # In(copy[l]))
             => conn'[p] = IF conn[p] = out THEN NoNet ELSE conn[p]
    BY <1>9, <1>10
  <1>17. \A p \in Terms(i) : conn'[p] = NoNet
    BY <1>10, <1>12
  <1> QED
    BY <1>2, <1>3, <1>13, <1>14, <1>15, <1>16, <1>17 DEF SplitEffect, out

LEMMA SplitLogic ==
    ASSUME LogicInv, NEW i \in insts, kind[i] \in {"tie", "inv"}, conn[Out(i)] # NoNet,
           NEW loads \in SUBSET ConnectedPins(conn[Out(i)]),
           NEW in \in Term, in \in {NoNet, conn[In(i)]}, Split(i, loads, in)
    PROVE  LogicStep
  <1> DEFINE out == conn[Out(i)]
  <1>0. TypeOK /\ LogicParts /\ i \in Inst /\ insts \subseteq Inst /\ nets \subseteq NetId
        /\ NoNet \notin NetId
    BY NetlistAssumption DEF LogicInv, TypeInv, TypeOK, NetlistTypeOK
  <1>1. PICK copy, net : SplitEffect(i, loads, in, copy, net)
    BY SplitFacts
  <1>2. \A p \in loads : p \in Pin /\ conn[p] = out /\ out # NoNet
    BY DEF ConnectedPins
  <1>3. ASSUME NEW p \in Pin, \A l \in loads : p # Out(copy[l]) /\ p # In(copy[l])
        PROVE  Carried(p)
    <2>1. CASE p \in Terms(i)
      BY <1>1, <2>1 DEF SplitEffect, Carried
    <2>2. CASE p \in loads /\ p \notin Terms(i)
      BY <1>1, <1>2, <2>2 DEF SplitEffect, Carried
    <2>3. CASE p \notin loads /\ p \notin Terms(i)
      BY <1>0, <1>1, <1>3, <2>3 DEF SplitEffect, Carried, LogicParts
    <2> QED
      BY <2>1, <2>2, <2>3
  <1>4. /\ \A l \in loads : copy[l] \in Inst /\ copy[l] \notin insts
        /\ \A j : j \in insts' <=> (j \in insts /\ j # i) \/ \E l \in loads : j = copy[l]
        /\ \A j \in insts : kind'[j] = kind[j]
        /\ design' = design
    BY <1>1 DEF SplitEffect
  <1>5. \A p \in BTerm : Carried(p)
    BY <1>3, <1>4, TermFacts
  <1>6. \A j \in insts : \A p \in Terms(j) : Carried(p)
    <2> SUFFICES ASSUME NEW j \in insts, NEW p \in Terms(j) PROVE Carried(p)
      OBVIOUS
    <2>1. p \in Pin /\ j \in Inst
      BY <1>0, TermFacts DEF Terms
    <2>2. \A l \in loads : p # Out(copy[l]) /\ p # In(copy[l])
      BY <1>4, <2>1, TermFacts DEF Terms
    <2> QED
      BY <1>3, <2>1, <2>2
  \* The copies fit: they are what the cell was.
  <1>7. /\ conn[In(i)] # NoNet /\ kind[i] = "inv" => sig[out] = Invert(sig[conn[In(i)]])
        /\ kind[i] = "tie" => sig[out] = <<"tie", TRUE>>
        /\ conn[In(i)] \in nets \cup {NoNet}
    BY <1>0, TermFacts DEF LogicParts
  <1>8. ASSUME NEW j \in insts' \ (insts \ {i})
        PROVE  /\ kind'[j] # "gate" /\ kind'[j] # "buf"
               /\ conn'[Out(j)] # NoNet /\ kind'[j] = "tie" =>
                     sig'[conn'[Out(j)]] = <<"tie", TRUE>>
               /\ conn'[In(j)] # NoNet /\ conn'[Out(j)] # NoNet =>
                     (kind'[j] = "inv" => sig'[conn'[Out(j)]] = Invert(sig'[conn'[In(j)]]))
    <2>1. PICK l \in loads : j = copy[l]
      BY <1>4
    <2>2. /\ kind'[j] = kind[i] /\ conn'[Out(j)] = net[l] /\ sig'[net[l]] = sig[out]
          /\ conn'[In(j)] # NoNet => conn'[In(j)] = in
          /\ \A n \in nets : sig'[n] = sig[n]
      BY <1>1, <2>1 DEF SplitEffect
    <2> QED
      BY <1>7, <2>2
  <1>9. \A p \in Pin : conn'[p] \in nets' \cup {NoNet}
    <2> SUFFICES ASSUME NEW p \in Pin, conn'[p] # NoNet PROVE conn'[p] \in nets'
      OBVIOUS
    <2>1. CASE p \in loads
      BY <1>1, <2>1 DEF SplitEffect
    <2>2. CASE \E l \in loads : p = Out(copy[l])
      BY <1>1, <2>2 DEF SplitEffect
    <2>3. CASE \E l \in loads : p = In(copy[l])
      BY <1>1, <1>7, <2>3 DEF SplitEffect
    <2>4. CASE p \notin loads /\ \A l \in loads : p # Out(copy[l]) /\ p # In(copy[l])
      BY <1>0, <1>1, <2>4 DEF SplitEffect, LogicParts
    <2> QED
      BY <2>1, <2>2, <2>3, <2>4
  <1>10. \A j \in Inst \ insts' : \A p \in Terms(j) : conn'[p] = NoNet
    <2> SUFFICES ASSUME NEW j \in Inst \ insts', NEW p \in Terms(j) PROVE conn'[p] = NoNet
      OBVIOUS
    <2>1. p \in Pin
      BY TermFacts DEF Terms
    <2>2. CASE j = i
      BY <1>1, <2>2 DEF SplitEffect
    <2>3. CASE j # i
      <3>1. j \notin insts /\ \A l \in loads : j # copy[l]
        BY <1>4, <2>3
      <3>2. conn[p] = NoNet
        BY <1>0, <3>1 DEF LogicParts
      <3>3. p \notin loads
        BY <1>2, <3>2
      <3>4. p \notin Terms(i)
        BY <1>0, <2>3, TermFacts DEF Terms
      <3>5. \A l \in loads : p # Out(copy[l]) /\ p # In(copy[l])
        BY <1>4, <3>1, TermFacts DEF Terms
      <3> QED
        BY <1>1, <2>1, <3>2, <3>3, <3>4, <3>5 DEF SplitEffect
    <2> QED
      BY <2>2, <2>3
  <1> DEFINE K == insts \ {i}
  <1>11. /\ K \in SUBSET insts /\ K \subseteq insts'
         /\ \A j \in insts : kind[j] = "gate" => j \in K
         /\ \A j \in K : kind'[j] = kind[j] /\ \A p \in Terms(j) : Carried(p)
    BY <1>4, <1>6
  <1>12. /\ \A j \in insts' \ K : kind'[j] # "gate"
         /\ \A j \in insts' \ K : conn'[Out(j)] # NoNet /\ kind'[j] = "tie" =>
               sig'[conn'[Out(j)]] = <<"tie", TRUE>>
         /\ \A j \in insts' \ K : conn'[In(j)] # NoNet /\ conn'[Out(j)] # NoNet =>
               /\ kind'[j] = "buf" => sig'[conn'[Out(j)]] = sig'[conn'[In(j)]]
               /\ kind'[j] = "inv" => sig'[conn'[Out(j)]] = Invert(sig'[conn'[In(j)]])
    BY <1>8
  <1> HIDE DEF K
  <1> QED
    BY <1>0, <1>4, <1>5, <1>9, <1>10, <1>11, <1>12, CarryLogic

-----------------------------------------------------------------------------
LEMMA LogicInit == Init => LogicParts
  <1> SUFFICES ASSUME Init PROVE LogicPreserved
    BY PartsOfLogic
  <1>1. /\ design \in Designs
        /\ insts = design.insts /\ kind = design.kind /\ nets = design.nets
        /\ conn = design.conn /\ sig = design.sig
    BY DEF Init, InitNetlist
  <1>2. SourcesOK(design) /\ RepeatersOK(design) /\ NoDanglingPin(design)
    BY <1>1, DesignAssumption
  <1>3. /\ Netlist.insts = design.insts /\ Netlist.kind = design.kind
        /\ Netlist.nets = design.nets /\ Netlist.conn = design.conn
        /\ Netlist.sig = design.sig
    BY <1>1 DEF Netlist
  <1>4. SourcesOK(Netlist) /\ RepeatersOK(Netlist) /\ NoDanglingPin(Netlist)
    BY <1>2, <1>3 DEF SourcesOK, RepeatersOK, NoDanglingPin
  <1> QED
    BY <1>1, <1>4 DEF LogicPreserved

\* The commands and turns that only look, and those that end the process.
LEMMA QuietLogic ==
    ASSUME LogicParts, UNCHANGED netVars
    PROVE  LogicStep
  BY SameLogic DEF netVars

LEMMA MakeRepeaterLogic ==
    ASSUME LogicInv, NEW n \in nets, NEW p, NEW b, NEW m, MakeRepeater(n, p, b, m)
    PROVE  LogicStep
  <1>1. PICK S \in SUBSET (ConnectedPins(n) \ {p}) :
          InsertBuffer(b, m, n, BufferLoads(b, m, n, S))
    BY DEF MakeRepeater
  <1>2. BufferLoads(b, m, n, S) \in [Pin -> Term] /\ S \in SUBSET ConnectedPins(n)
    BY <1>1, BufferTerms DEF InsertBuffer, FreeNet, LogicInv, TypeInv, TypeOK, NetlistTypeOK
  <1> QED
    BY <1>1, <1>2, InsertLogic DEF LogicInv, TypeInv

LEMMA InsertStepLogic ==
    ASSUME LogicInv, NEW b \in FreeInst, NEW m \in FreeNet, Insert(b, m)
    PROVE  LogicStep
  <1>0. /\ TypeOK /\ NetlistTypeOK /\ LogicParts /\ m \in NetId
        /\ \A p \in Pin : conn[p] # NoNet => conn[p] \in nets /\ conn[p] \in NetId
        /\ \A n : PinIterator(n) \in SUBSET ConnectedPins(n)
    BY TermFacts
    DEF LogicInv, LogicParts, TypeInv, TypeOK, NetlistTypeOK, FreeNet, PinIterator,
        ConnectedPins
  <1>1. ASSUME NEW p \in todo, BufferInput(p, b, m) PROVE LogicStep
    <2>1. p \in Pin /\ conn[p] # NoNet
      BY <1>1, PinFacts
      DEF BufferInput, BuffersInput, Running, LogicInv, TypeInv, TodoLive
    <2> QED
      BY <1>0, <1>1, <2>1, BufferTerms, InsertLogic DEF BufferInput
  <1>2. ASSUME NEW p \in todo, BufferOutput(p, b, m) PROVE LogicStep
    <2>1. p \in Pin /\ conn[p] # NoNet
      BY <1>2, PinFacts
      DEF BufferOutput, BuffersOutput, Running, LogicInv, TypeInv, TodoLive
    <2> QED
      BY <1>0, <1>2, <2>1, BufferTerms, InsertLogic DEF BufferOutput
  <1>3. ASSUME NEW p \in todo, RepairDesignNet(p, b, m) PROVE LogicStep
    <2>1. p \in Pin /\ conn[p] # NoNet
      BY <1>0, <1>3, PinFacts
      DEF RepairDesignNet, RepairsDriver, Running, LogicInv, TypeInv, TodoLive, NetlistTypeOK
    <2> QED
      BY <1>0, <1>3, <2>1, MakeRepeaterLogic DEF RepairDesignNet
  <1>4. ASSUME NEW n \in todo, RepairNet(n, b, m) PROVE LogicStep
    <2>1. PICK p \in drvrs[n] : MakeRepeater(n, p, b, m)
      BY <1>4 DEF RepairNet
    <2>2. n \in nets
      BY <1>0, <1>4 DEF RepairNet, NetlistTypeOK
    <2> QED
      BY <2>1, <2>2, MakeRepeaterLogic
  <1>5. ASSUME NEW p \in Drivers, MakeHoldDelay(p, b, m) PROVE LogicStep
    <2>1. p \in Pin /\ conn[p] # NoNet
      BY <1>0, <1>5, PinFacts DEF Drivers, NetlistTypeOK, MakeHoldDelay, DelaysHold
    <2>2. {p} \in SUBSET ConnectedPins(conn[p])
      BY <2>1 DEF ConnectedPins
    <2> QED
      BY <1>0, <1>5, <2>1, <2>2, BufferTerms, InsertLogic DEF MakeHoldDelay
  <1> QED
    BY <1>1, <1>2, <1>3, <1>4, <1>5 DEF Insert

LEMMA VisitLogic == ASSUME LogicInv, Visit PROVE LogicStep
  <1>0. TypeOK /\ NetlistTypeOK /\ LogicParts
    BY DEF LogicInv, TypeInv, TypeOK
  <1>1. ASSUME NEW b \in todo, RemoveBuffer(b) PROVE LogicStep
    BY <1>1, RemoveLogic
  <1>2. ASSUME NEW i \in todo, RepairTie(i) PROVE LogicStep
    <2>1. i \in insts /\ kind[i] = "tie"
      BY <1>2 DEF RepairTie, Running, LogicInv, TypeInv, TodoLive
    <2> QED
      BY <1>2, <2>1, SplitLogic DEF RepairTie, Term
  <1>3. ASSUME NEW i \in todo, CloneClkInverter(i) PROVE LogicStep
    <2>1. i \in insts /\ i \in Inst /\ kind[i] = "inv"
      BY <1>0, <1>3
      DEF CloneClkInverter, Running, LogicInv, TypeInv, TodoLive, NetlistTypeOK
    <2>2. conn[In(i)] \in Term
      BY <1>0, <2>1, TermFacts DEF NetlistTypeOK, Term
    <2>3. PinIterator(conn[Out(i)]) \ {Out(i)} \in SUBSET ConnectedPins(conn[Out(i)])
      BY TermFacts DEF PinIterator, ConnectedPins
    <2> QED
      BY <1>3, <2>1, <2>2, <2>3, SplitLogic DEF CloneClkInverter
  <1>4. ASSUME NEW p \in todo, NEW s \in Sizes, ResizeDriver(p, s) PROVE LogicStep
    BY <1>0, <1>4, SameLogic DEF ResizeDriver
  <1>5. ASSUME NEW x, \/ KeepBuffer(x) \/ KeepClkInverter(x) \/ SkipInput(x) \/ SkipOutput(x)
                      \/ EndRepairDesignNet(x) \/ SkipDriver(x) \/ EndRepairNet(x)
        PROVE  LogicStep
    BY <1>0, <1>5, QuietLogic
    DEF KeepBuffer, KeepClkInverter, SkipInput, SkipOutput, EndRepairDesignNet, SkipDriver,
        EndRepairNet, Skip
  <1> QED
    BY <1>1, <1>2, <1>3, <1>4, <1>5 DEF Visit

LEMMA FailLogic == ASSUME LogicInv, Fail PROVE LogicStep
  <1>0. TypeOK /\ LogicParts
    BY DEF LogicInv, TypeInv
  <1>1. ASSUME NEW p, NEW m, BufferInputFails(p, m) \/ BufferOutputFails(p, m)
        PROVE  LogicStep
    BY <1>0, <1>1, LeakLogic DEF BufferInputFails, BufferOutputFails
  <1>2. ASSUME NEW x, \/ RepairDesignNetFails(x) \/ MakeHoldDelayFails(x)
                      \/ UnconnectedBuffer(x) \/ UnconnectedTie(x)
                      \/ RepairNetFails(x) \/ RepairStaleDriver(x)
        PROVE  LogicStep
    BY <1>0, <1>2, QuietLogic
    DEF RepairDesignNetFails, MakeRepeaterFails, MakeHoldDelayFails, UnconnectedBuffer,
        UnconnectedTie, RepairNetFails, RepairStaleDriver, Die
  <1>3. ASSUME NEW x, \/ ResizeDeletedDriver(x) \/ RepairDeletedNet(x)
                      \/ RepairUndrivenNet(x)
        PROVE  LogicStep
    BY <1>0, <1>3, QuietLogic
    DEF ResizeDeletedDriver, RepairDeletedNet, RepairUndrivenNet, Undefined
  <1> QED
    BY <1>1, <1>2, <1>3 DEF Fail

LEMMA StartLogic == ASSUME LogicInv, Start PROVE LogicStep
  <1>1. UNCHANGED netVars
    BY DEF Start, Begin, StartRemoveBuffers, StartBufferInputs, StartBufferOutputs,
           StartRepairTies, StartRepairClkInverters, StartRepairHold, StartRepairDesign,
           StartRepairClkNets, StartResize, StartRepairNet
  <1> QED
    BY <1>1, QuietLogic DEF LogicInv

LEMMA EveryStepLogic == ASSUME LogicInv, [Next]_vars PROVE LogicStep
  <1>1. CASE Start
    BY <1>1, StartLogic
  <1>2. CASE \E b \in FreeInst, m \in FreeNet : Insert(b, m)
    BY <1>2, InsertStepLogic
  <1>3. CASE Visit
    BY <1>3, VisitLogic
  <1>4. CASE Fail
    BY <1>4, FailLogic
  <1>5. CASE Finish
    BY <1>5, QuietLogic DEF Finish, LogicInv
  <1>6. CASE \E a \in AreaLimits : SetMaxUtilization(a)
    BY <1>6, QuietLogic DEF SetMaxUtilization, LogicInv
  <1>7. CASE ReportDesignArea
    BY <1>7, QuietLogic DEF ReportDesignArea, LogicInv
  <1>8. CASE \E n \in nets : QueryDrivers(n)
    BY <1>8, SameLogic DEF QueryDrivers, FillDrivers, LogicInv
  <1>9. CASE UNCHANGED vars
    BY <1>9, QuietLogic DEF vars, LogicInv
  <1> QED
    BY <1>1, <1>2, <1>3, <1>4, <1>5, <1>6, <1>7, <1>8, <1>9 DEF Next

LEMMA LogicNext == LogicInv /\ [Next]_vars => LogicInv'
  BY EveryStepLogic, TypeNext DEF LogicInv, LogicStep

\* Whatever commands are given, in whatever order their loops run, whichever nets they
\* pick, and with a missing LEF master or a dangling pointer on the way: the netlist
\* computes what the netlist that was read computed.
THEOREM LogicIsPreserved == Spec => []LogicPreserved
  <1>1. Init => LogicInv
    BY TypeInit, LogicInit DEF LogicInv
  <1>2. LogicInv => LogicPreserved
    BY PartsOfLogic DEF LogicInv
  <1> QED
    BY <1>1, <1>2, LogicNext, PTL DEF Spec

-----------------------------------------------------------------------------
(***************************************************************************)
(* Every net keeps exactly the driver it should have.                      *)
(*                                                                         *)
(* "One driver", "still driven" and "no feedthrough" only hold together:   *)
(* that the terminals a buffer takes over hold no second driver needs the  *)
(* first, that the net it reads from is driven the second, and that        *)
(* buffer_outputs takes the driver along the third.                        *)
(***************************************************************************)
DriverParts ==
    /\ \A p, q \in DriverPin : conn[p] = conn[q] /\ conn[p] # NoNet => p = q
    /\ \A p \in Pin \ DriverPin :
          conn[p] # NoNet /\ sig[conn[p]][1] # "none" =>
             \E q \in DriverPin : conn[q] = conn[p]
    /\ \A p \in InPort, q \in OutPort : conn[p] = conn[q] => conn[p] = NoNet

LEMMA PartsOfDrivers == WellDriven(Netlist) <=> DriverParts
  <1>1. Netlist.conn = conn /\ Netlist.sig = sig
    BY DEF Netlist
  <1> QED
    BY <1>1 DEF WellDriven, SingleDriver, Driven, Feedthrough, DriverParts

LEMMA DriverFacts ==
    /\ DriverPin \subseteq Pin /\ InPort \subseteq DriverPin
    /\ \A i \in Inst : Out(i) \in DriverPin /\ In(i) \notin DriverPin /\ In2(i) \notin DriverPin
    /\ \A p \in OutPort : p \notin DriverPin
    /\ \A p \in DriverPin \ InPort : p \in ITerm
  <1>1. \A p \in OutPort : p \notin DriverPin
    BY TermFacts, NetlistAssumption DEF DriverPin
  <1> QED
    BY <1>1, TermFacts, PinFacts DEF DriverPin

\* The terminals and the signals stay.
LEMMA SameDrivers ==
    ASSUME LogicParts, DriverParts, conn' = conn,
           \A n \in nets : sig'[n] = sig[n]
    PROVE  DriverParts'
  BY DEF LogicParts, DriverParts

(***************************************************************************)
(* A buffer in front of loads of a driven net.                             *)
(***************************************************************************)
LEMMA LoadsDrivers ==
    ASSUME TypeOK, LogicParts, DriverParts,
           NEW b, NEW m, NEW n \in nets, NEW d \in DriverPin, conn[d] = n,
           NEW S \in SUBSET (ConnectedPins(n) \ {d}),
           InsertBuffer(b, m, n, BufferLoads(b, m, n, S))
    PROVE  DriverParts'
  <1>1. /\ b \in Inst /\ b \notin insts /\ m \in NetId /\ m \notin nets /\ n \in NetId
        /\ conn' = BufferLoads(b, m, n, S) /\ sig' = [sig EXCEPT ![m] = sig[n]]
        /\ n # NoNet /\ m # NoNet /\ m # n /\ sig \in [NetId -> Signal] /\ nets \subseteq NetId
    BY NetlistAssumption
    DEF InsertBuffer, FreeInst, FreeNet, Edit, TypeOK, NetlistTypeOK
  <1>2. sig'[m] = sig[n] /\ (\A x \in nets : sig'[x] = sig[x])
    BY <1>1
  <1>3. \A p \in S : p \in Pin /\ conn[p] = n /\ p \notin DriverPin
    BY <1>1 DEF ConnectedPins, DriverParts
  <1>4. /\ conn[In(b)] = NoNet /\ conn[Out(b)] = NoNet
        /\ In(b) \in Pin /\ Out(b) \in DriverPin /\ In(b) \notin DriverPin /\ In(b) # Out(b)
        /\ In(b) \notin InPort /\ In(b) \notin OutPort /\ Out(b) \notin InPort
        /\ Out(b) \notin OutPort /\ Out(b) \in Pin
    BY <1>1, TermFacts, DriverFacts DEF LogicParts, Terms
  <1>5. /\ conn'[Out(b)] = m /\ conn'[In(b)] = n
        /\ \A p \in S : conn'[p] = m
        /\ \A p \in Pin \ (S \cup {In(b), Out(b)}) : conn'[p] = conn[p]
    BY <1>1, <1>3, <1>4 DEF BufferLoads, Reconnect
  <1>6. \A p \in Pin : conn[p] \in nets \cup {NoNet}
    BY DEF LogicParts
  <1>7. \A q \in DriverPin : q = Out(b) \/ conn'[q] = conn[q]
    BY <1>3, <1>4, <1>5, DriverFacts
  <1>8. \A p, q \in DriverPin : conn'[p] = conn'[q] /\ conn'[p] # NoNet => p = q
    BY <1>1, <1>4, <1>5, <1>6, <1>7, DriverFacts DEF DriverParts
  <1>9. d # Out(b) /\ conn'[d] = n
    BY <1>1, <1>4, <1>7
  <1>10. ASSUME NEW p \in Pin \ DriverPin, conn'[p] # NoNet, sig'[conn'[p]][1] # "none"
         PROVE  \E q \in DriverPin : conn'[q] = conn'[p]
    <2>1. CASE p \in S
      BY <1>4, <1>5, <2>1
    <2>2. CASE p = In(b)
      BY <1>5, <1>9, <2>2
    <2>3. CASE p \notin S /\ p # In(b)
      <3>1. conn'[p] = conn[p] /\ conn[p] \in nets
        BY <1>4, <1>5, <1>6, <1>10, <2>3
      <3>2. PICK q \in DriverPin : conn[q] = conn[p]
        BY <1>2, <1>10, <3>1 DEF DriverParts
      <3>3. q # Out(b)
        BY <1>4, <1>10, <3>1, <3>2
      <3> QED
        BY <1>7, <3>1, <3>2, <3>3
    <2> QED
      BY <2>1, <2>2, <2>3
  <1>11. ASSUME NEW p \in InPort, NEW q \in OutPort, conn'[p] = conn'[q]
         PROVE  conn'[p] = NoNet
    <2>1. conn'[p] = conn[p] /\ p \in Pin /\ q \in Pin /\ q # In(b) /\ q # Out(b)
      BY <1>4, <1>7, DriverFacts, TermFacts
    <2>2. CASE q \in S
      BY <1>1, <1>5, <1>6, <1>11, <2>1, <2>2
    <2>3. CASE q \notin S
      BY <1>5, <1>11, <2>1, <2>3 DEF DriverParts
    <2> QED
      BY <2>2, <2>3
  <1> QED
    BY <1>8, <1>10, <1>11 DEF DriverParts

(***************************************************************************)
(* A buffer behind the driver of a net: the driver goes along.             *)
(***************************************************************************)
LEMMA DriverDrivers ==
    ASSUME TypeOK, LogicParts, DriverParts,
           NEW b, NEW m, NEW n \in nets, NEW x \in Pin, conn[x] = n,
           NEW S \in SUBSET ConnectedPins(n),
           \A q \in DriverPin : conn[q] = n => q \in S,
           \A p \in S : p \notin OutPort,
           InsertBuffer(b, m, n, BufferDriver(b, m, n, S))
    PROVE  DriverParts'
  <1>1. /\ b \in Inst /\ b \notin insts /\ m \in NetId /\ m \notin nets /\ n \in NetId
        /\ conn' = BufferDriver(b, m, n, S) /\ sig' = [sig EXCEPT ![m] = sig[n]]
        /\ n # NoNet /\ m # NoNet /\ m # n /\ sig \in [NetId -> Signal] /\ nets \subseteq NetId
    BY NetlistAssumption
    DEF InsertBuffer, FreeInst, FreeNet, Edit, TypeOK, NetlistTypeOK
  <1>2. sig'[m] = sig[n] /\ (\A y \in nets : sig'[y] = sig[y])
    BY <1>1
  <1>3. \A p \in S : p \in Pin /\ conn[p] = n
    BY DEF ConnectedPins
  <1>4. /\ conn[In(b)] = NoNet /\ conn[Out(b)] = NoNet
        /\ In(b) \in Pin /\ Out(b) \in DriverPin /\ In(b) \notin DriverPin /\ In(b) # Out(b)
        /\ In(b) \notin InPort /\ In(b) \notin OutPort /\ Out(b) \notin InPort
        /\ Out(b) \notin OutPort /\ Out(b) \in Pin
    BY <1>1, TermFacts, DriverFacts DEF LogicParts, Terms
  <1>5. /\ conn'[Out(b)] = n /\ conn'[In(b)] = m
        /\ \A p \in S : conn'[p] = m
        /\ \A p \in Pin \ (S \cup {In(b), Out(b)}) : conn'[p] = conn[p]
    BY <1>1, <1>3, <1>4 DEF BufferDriver, Reconnect
  <1>6. \A p \in Pin : conn[p] \in nets \cup {NoNet}
    BY DEF LogicParts
  <1>7. \A q \in DriverPin : \/ q = Out(b)
                             \/ q # Out(b) /\ q \in S /\ conn'[q] = m
                             \/ /\ q # Out(b) /\ q \notin S
                                /\ conn'[q] = conn[q] /\ conn[q] # n
    BY <1>1, <1>3, <1>4, <1>5, DriverFacts
  <1>8. ASSUME NEW p \in DriverPin, NEW q \in DriverPin, conn'[p] = conn'[q], conn'[p] # NoNet
        PROVE  p = q
    <2>1. CASE p = Out(b) \/ q = Out(b)
      BY <1>1, <1>5, <1>7, <1>8, <2>1
    <2>2. CASE p # Out(b) /\ q # Out(b)
      <3>1. p \in S <=> q \in S
        BY <1>1, <1>6, <1>7, <1>8, <2>2, DriverFacts
      <3>2. conn[p] = conn[q] /\ conn[p] # NoNet
        BY <1>1, <1>3, <1>7, <1>8, <2>2, <3>1
      <3> QED
        BY <3>2 DEF DriverParts
    <2> QED
      BY <2>1, <2>2
  <1>9. sig[n][1] # "none" => \E q \in DriverPin : conn'[q] = m
    <2> SUFFICES ASSUME sig[n][1] # "none" PROVE \E q \in DriverPin : conn'[q] = m
      OBVIOUS
    <2>1. PICK q \in DriverPin : conn[q] = n
      BY <1>1 DEF DriverParts
    <2> QED
      BY <1>5, <2>1
  <1>10. ASSUME NEW p \in Pin \ DriverPin, conn'[p] # NoNet, sig'[conn'[p]][1] # "none"
         PROVE  \E q \in DriverPin : conn'[q] = conn'[p]
    <2>1. CASE p \in S \/ p = In(b)
      BY <1>2, <1>5, <1>9, <1>10, <2>1
    <2>2. CASE p \notin S /\ p # In(b)
      <3>1. conn'[p] = conn[p] /\ conn[p] \in nets
        BY <1>4, <1>5, <1>6, <1>10, <2>2
      <3>2. PICK q \in DriverPin : conn[q] = conn[p]
        BY <1>2, <1>10, <3>1 DEF DriverParts
      <3>3. CASE conn[p] = n
        BY <1>4, <1>5, <3>1, <3>3
      <3>4. CASE conn[p] # n
        BY <1>3, <1>4, <1>7, <1>10, <3>1, <3>2, <3>4
      <3> QED
        BY <3>3, <3>4
    <2> QED
      BY <2>1, <2>2
  <1>11. ASSUME NEW p \in InPort, NEW q \in OutPort, conn'[p] = conn'[q]
         PROVE  conn'[p] = NoNet
    <2>1. q \in Pin /\ q \notin S /\ q # In(b) /\ q # Out(b) /\ conn'[q] = conn[q]
      BY <1>4, <1>5, TermFacts
    <2>2. p \in DriverPin /\ p \in Pin /\ p # Out(b) /\ conn[q] # m
      BY <1>1, <1>4, <1>6, <2>1, DriverFacts
    <2>3. conn'[p] = conn[p]
      BY <1>7, <1>11, <2>1, <2>2
    <2> QED
      BY <1>11, <2>1, <2>3 DEF DriverParts
  <1> QED
    BY <1>8, <1>10, <1>11 DEF DriverParts

\* remove_buffers: the loads move to a net that is driven, and the driver goes with it.
LEMMA RemoveDrivers ==
    ASSUME LogicInv, DriverParts, NEW b \in todo, RemoveBuffer(b)
    PROVE  DriverParts'
  <1> DEFINE input_net  == conn[In(b)]
             output_net == conn[Out(b)]
             S == PinIterator(output_net) \ {Out(b)}
  <1>0. TypeOK /\ LogicParts /\ NetlistTypeOK
    BY DEF LogicInv, TypeInv, TypeOK
  <1>1. b \in insts /\ b \in Inst /\ kind[b] = "buf"
    BY <1>0 DEF LogicInv, TypeInv, TodoLive, RemoveBuffer, Running, NetlistTypeOK
  <1>2. /\ input_net # NoNet /\ output_net # NoNet
        /\ ~HasTopLevelPort(input_net) /\ ~HasTopLevelPort(output_net)
        /\ conn' = DeleteInst(b, DeleteNet(output_net, Reconnect(S, input_net, conn)))
        /\ sig' = sig
    BY DEF RemoveBuffer, Edit
  <1>3. sig[output_net] = sig[input_net]
    BY <1>0, <1>1, <1>2 DEF LogicParts
  <1>4. /\ In(b) \in Pin /\ Out(b) \in DriverPin /\ In(b) \notin DriverPin
        /\ \A q \in DriverPin : q \in Terms(b) => q = Out(b)
    BY <1>1, TermFacts, DriverFacts DEF Terms
  <1>5. \A p \in Pin : \/ conn'[p] = NoNet
                       \/ conn'[p] = conn[p] /\ conn[p] # output_net
                       \/ /\ conn[p] = output_net /\ conn'[p] = input_net
                          /\ input_net # output_net
    BY <1>2 DEF DeleteInst, DeleteNet, Reconnect, PinIterator
  <1>6. \A p \in Pin : p \notin Terms(b) /\ conn[p] # output_net => conn'[p] = conn[p]
    BY <1>2 DEF DeleteInst, DeleteNet, Reconnect, PinIterator, Terms
  <1>7. conn'[Out(b)] = NoNet
    BY <1>2, <1>4, DriverFacts DEF DeleteInst
  <1>8. \A q \in DriverPin : q # Out(b) => conn[q] # output_net /\ conn'[q] = conn[q]
    BY <1>2, <1>4, <1>6, DriverFacts DEF DriverParts
  <1>9. \A p, q \in DriverPin : conn'[p] = conn'[q] /\ conn'[p] # NoNet => p = q
    BY <1>7, <1>8 DEF DriverParts
  <1>10. ASSUME NEW p \in Pin \ DriverPin, conn'[p] # NoNet, sig'[conn'[p]][1] # "none"
         PROVE  \E q \in DriverPin : conn'[q] = conn'[p]
    <2>1. PICK r \in {p, In(b)} : conn[r] = conn'[p] /\ conn[r] # output_net
      BY <1>5, <1>10
    <2>2. r \in Pin \ DriverPin /\ conn[r] # NoNet /\ sig[conn[r]][1] # "none"
      BY <1>2, <1>4, <1>10, <2>1
    <2>3. PICK q \in DriverPin : conn[q] = conn[r]
      BY <2>2 DEF DriverParts
    <2> QED
      BY <1>8, <2>1, <2>3
  <1>11. ASSUME NEW p \in InPort, NEW q \in OutPort, conn'[p] = conn'[q]
         PROVE  conn'[p] = NoNet
    <2>1. p \in BTerm /\ q \in BTerm /\ p \in Pin /\ q \in Pin
      BY TermFacts
    <2>2. conn[p] # output_net /\ conn[q] # output_net
      BY <1>2, <2>1 DEF HasTopLevelPort
    <2>3. \/ conn'[p] = NoNet
          \/ conn'[p] = conn[p] /\ conn'[q] = conn[q]
      BY <1>5, <1>11, <2>1, <2>2
    <2> QED
      BY <1>11, <2>3 DEF DriverParts
  <1> QED
    BY <1>9, <1>10, <1>11 DEF DriverParts

\* repair_tie_fanout and repair_clock_inverters: every load gets a driver of its own.
LEMMA SplitDrivers ==
    ASSUME LogicInv, DriverParts, NEW i \in insts, kind[i] \in {"tie", "inv"},
           conn[Out(i)] # NoNet,
           NEW loads \in SUBSET (ConnectedPins(conn[Out(i)]) \ {Out(i)}),
           NEW in \in Term, in \in {NoNet, conn[In(i)]}, Split(i, loads, in)
    PROVE  DriverParts'
  <1> DEFINE out == conn[Out(i)]
  <1>0. TypeOK /\ LogicParts /\ i \in Inst /\ insts \subseteq Inst /\ nets \subseteq NetId
        /\ NoNet \notin NetId
    BY NetlistAssumption DEF LogicInv, TypeInv, TypeOK, NetlistTypeOK
  <1>1. PICK copy, net : SplitEffect(i, loads, in, copy, net)
    BY SplitFacts
  <1>2. /\ \A l \in loads : /\ copy[l] \in Inst /\ copy[l] \notin insts
                            /\ net[l] \in NetId /\ net[l] \notin nets /\ net[l] # NoNet
        /\ \A n \in nets : sig'[n] = sig[n]
        /\ \A l \in loads : conn'[Out(copy[l])] = net[l] /\ Out(copy[l]) \in DriverPin
        /\ \A l \in loads : In(copy[l]) \notin DriverPin
        /\ \A k, l \in loads : net[k] = net[l] => k = l
    BY <1>0, <1>1, DriverFacts DEF SplitEffect
  <1>3. /\ Out(i) \in DriverPin /\ In(i) \in Pin /\ In(i) \notin DriverPin
        /\ \A q \in DriverPin : q \in Terms(i) => q = Out(i)
        /\ conn'[Out(i)] = NoNet
    BY <1>0, <1>1, TermFacts, DriverFacts DEF SplitEffect, Terms
  <1>4. \A p \in loads : p \in Pin /\ conn[p] = out /\ out # NoNet /\ p \notin DriverPin
    BY <1>3 DEF ConnectedPins, DriverParts
  \* A driver is the output of a copy, the output that was deleted, or was left alone.
  <1>5. ASSUME NEW q \in DriverPin
        PROVE  \/ \E l \in loads : q = Out(copy[l]) /\ conn'[q] = net[l]
               \/ q = Out(i)
               \/ conn'[q] = conn[q] /\ conn[q] # out /\ conn[q] \in nets \cup {NoNet}
    <2> SUFFICES ASSUME \A l \in loads : q # Out(copy[l]), q # Out(i)
                 PROVE  conn'[q] = conn[q] /\ conn[q] # out /\ conn[q] \in nets \cup {NoNet}
      BY <1>2
    <2>1. q \in Pin /\ q \notin loads /\ q \notin Terms(i)
          /\ \A l \in loads : q # Out(copy[l]) /\ q # In(copy[l])
      BY <1>2, <1>3, <1>4, DriverFacts
    <2>2. conn[q] # out
      BY <1>3, <1>4 DEF DriverParts
    <2>3. conn'[q] = conn[q]
      BY <1>1, <2>1, <2>2 DEF SplitEffect
    <2> QED
      BY <1>0, <2>1, <2>2, <2>3 DEF LogicParts
  <1>6. ASSUME NEW q \in DriverPin, conn[q] # NoNet, conn[q] # out
        PROVE  conn'[q] = conn[q]
    <2>1. \A l \in loads : q # Out(copy[l])
      <3> SUFFICES ASSUME NEW l \in loads, q = Out(copy[l]) PROVE FALSE
        OBVIOUS
      <3>1. copy[l] \in Inst \ insts
        BY <1>2
      <3> QED
        BY <1>0, <1>6, <3>1 DEF LogicParts, Terms
    <2> QED
      BY <1>5, <1>6, <2>1
  <1>7. ASSUME NEW p \in DriverPin, NEW q \in DriverPin, conn'[p] = conn'[q], conn'[p] # NoNet
        PROVE  p = q
    <2>1. CASE \E k \in loads : p = Out(copy[k]) /\ conn'[p] = net[k]
      BY <1>2, <1>3, <1>5, <1>7, <2>1
    <2>2. CASE conn'[p] = conn[p] /\ conn[p] # out /\ conn[p] \in nets \cup {NoNet}
      <3>1. conn'[q] \in nets
        BY <1>7, <2>2
      <3>2. q # Out(i) /\ \A l \in loads : conn'[q] # net[l]
        BY <1>2, <1>3, <1>7, <3>1
      <3>3. conn'[q] = conn[q]
        BY <1>5, <3>2
      <3> QED
        BY <1>7, <2>2, <3>3 DEF DriverParts
    <2> QED
      BY <1>3, <1>5, <1>7, <2>1, <2>2
  <1>8. ASSUME NEW p \in Pin \ DriverPin, conn'[p] # NoNet, sig'[conn'[p]][1] # "none"
        PROVE  \E q \in DriverPin : conn'[q] = conn'[p]
    <2>1. CASE p \in loads
      <3>1. conn'[p] = net[p]
        BY <1>1, <1>8, <2>1 DEF SplitEffect
      <3> QED
        BY <1>2, <2>1, <3>1
    <2>2. CASE p \notin loads
      <3>1. PICK r \in {p, In(i)} : r \in Pin \ DriverPin /\ conn'[p] = conn[r] /\ conn[r] # out
        <4>1. CASE \E l \in loads : p = In(copy[l])
          BY <1>1, <1>3, <1>8, <4>1 DEF SplitEffect
        <4>2. CASE \A l \in loads : p # In(copy[l])
          <5>1. \A l \in loads : p # Out(copy[l])
            BY <1>2, <1>8
          <5>2. p \notin Terms(i)
            BY <1>1, <1>8 DEF SplitEffect
          <5> QED
            BY <1>1, <1>8, <2>2, <4>2, <5>1, <5>2 DEF SplitEffect
        <4> QED
          BY <4>1, <4>2
      <3>2. conn[r] \in nets /\ sig[conn[r]][1] # "none" /\ conn[r] # NoNet
        BY <1>0, <1>2, <1>8, <3>1 DEF LogicParts
      <3>3. PICK q \in DriverPin : conn[q] = conn[r]
        BY <3>1, <3>2 DEF DriverParts
      <3> QED
        BY <1>6, <3>1, <3>2, <3>3
    <2> QED
      BY <2>1, <2>2
  <1>9. ASSUME NEW p \in InPort, NEW q \in OutPort, conn'[p] = conn'[q]
        PROVE  conn'[p] = NoNet
    <2>1. p \in DriverPin /\ p # Out(i) /\ \A l \in loads : p # Out(copy[l])
      BY <1>0, <1>2, TermFacts, DriverFacts
    <2>2. conn'[p] = conn[p] /\ conn[p] # out /\ conn[p] \in nets \cup {NoNet}
      BY <1>5, <2>1
    <2>3. q \in Pin /\ q \notin Terms(i)
          /\ \A l \in loads : q # Out(copy[l]) /\ q # In(copy[l])
      BY <1>0, <1>2, TermFacts DEF Terms
    <2>4. CASE q \in loads
      <3>1. conn'[q] = net[q]
        BY <1>1, <2>3, <2>4 DEF SplitEffect
      <3> QED
        BY <1>2, <1>9, <2>2, <2>4, <3>1
    <2>5. CASE q \notin loads
      <3>1. conn'[q] = IF conn[q] = out THEN NoNet ELSE conn[q]
        BY <1>1, <2>3, <2>5 DEF SplitEffect
      <3> QED
        BY <1>9, <2>2, <3>1 DEF DriverParts
    <2> QED
      BY <2>4, <2>5
  <1> QED
    BY <1>7, <1>8, <1>9 DEF DriverParts

-----------------------------------------------------------------------------
DriverInv == LogicInv /\ (WellDriven(design) => DriverParts)

(***************************************************************************)
(* What a step does to the terminals: a buffer takes over loads of a       *)
(* driven net, a buffer takes over the driver, a buffer goes, a cell is    *)
(* split up, or nothing moves.                                             *)
(***************************************************************************)
StepLoads ==
    \E b, m : \E n \in nets, d \in DriverPin :
       /\ conn[d] = n
       /\ \E S \in SUBSET (ConnectedPins(n) \ {d}) : InsertBuffer(b, m, n, BufferLoads(b, m, n, S))

StepDriver ==
    \E b, m : \E n \in nets, x \in Pin :
       /\ conn[x] = n
       /\ \E S \in SUBSET ConnectedPins(n) :
             /\ \A q \in DriverPin : conn[q] = n => q \in S
             /\ \A p \in S : p \notin OutPort
             /\ InsertBuffer(b, m, n, BufferDriver(b, m, n, S))

StepRemove == \E b \in todo : RemoveBuffer(b)

SplitOf(i, in, loads) ==
    LET out == conn[Out(i)]
    IN  /\ kind[i] \in {"tie", "inv"} /\ out # NoNet
        /\ in = IF kind[i] = "tie" THEN NoNet ELSE conn[In(i)]
        /\ kind[i] = "inv" => cmd = "repair_clock_inverters"
        /\ PinIterator(out) \ {Out(i)} \subseteq loads
        /\ cmd = "repair_clock_inverters" \/ loads = ConnectedPins(out) \ {Out(i)}
        /\ Split(i, loads, in)

StepSplit ==
    \E i \in insts, in \in Term : \E loads \in SUBSET (ConnectedPins(conn[Out(i)]) \ {Out(i)}) :
       SplitOf(i, in, loads)

StepQuiet ==
    /\ UNCHANGED <<insts, kind, conn>>
    /\ nets' = nets \/ (~hasMaster /\ nets \subseteq nets')
    /\ \A n \in nets : sig'[n] = sig[n]

StepKinds == StepLoads \/ StepDriver \/ StepRemove \/ StepSplit \/ StepQuiet

LEMMA InsertKinds ==
    ASSUME LogicInv, DriverParts, NEW b \in FreeInst, NEW m \in FreeNet, Insert(b, m)
    PROVE  StepLoads \/ StepDriver
  <1>0. /\ TypeOK /\ NetlistTypeOK /\ LogicParts
        /\ \A p \in Pin : conn[p] # NoNet => conn[p] \in nets
    BY DEF LogicInv, LogicParts, TypeInv, TypeOK
  <1>1. ASSUME NEW n \in nets, NEW d \in DriverPin, conn[d] = n, MakeRepeater(n, d, b, m)
        PROVE  StepLoads
    BY <1>1 DEF MakeRepeater, StepLoads
  <1>2. ASSUME NEW p \in todo, BufferInput(p, b, m) PROVE StepLoads
    <2>1. p \in InPort /\ p \in DriverPin /\ p \in Pin /\ p \in BTerm /\ conn[p] \in nets
      BY <1>0, <1>2, TermFacts, DriverFacts
      DEF BufferInput, BuffersInput, Running, LogicInv, TypeInv, TodoLive
    <2>2. PinIterator(conn[p]) \in SUBSET (ConnectedPins(conn[p]) \ {p})
      BY <2>1, TermFacts, NetlistAssumption DEF PinIterator, ConnectedPins
    <2> QED
      BY <1>2, <2>1, <2>2 DEF BufferInput, StepLoads
  <1>3. ASSUME NEW p \in todo, BufferOutput(p, b, m) PROVE StepDriver
    <2>1. p \in OutPort /\ p \in Pin /\ conn[p] \in nets /\ conn[p] # NoNet
      BY <1>0, <1>3, TermFacts
      DEF BufferOutput, BuffersOutput, Running, LogicInv, TypeInv, TodoLive
    <2>2. /\ PinIterator(conn[p]) \in SUBSET ConnectedPins(conn[p])
          /\ \A q \in PinIterator(conn[p]) : q \notin OutPort
      BY TermFacts, NetlistAssumption DEF PinIterator, ConnectedPins
    <2>3. \A q \in DriverPin : conn[q] = conn[p] => q \in PinIterator(conn[p])
      BY <2>1, DriverFacts DEF PinIterator, DriverParts
    <2> QED
      BY <1>3, <2>1, <2>2, <2>3 DEF BufferOutput, StepDriver
  <1>4. ASSUME NEW p \in todo, RepairDesignNet(p, b, m) PROVE StepLoads
    <2>1. p \in DriverPin /\ p \in Pin
      BY <1>0, <1>4, DriverFacts
      DEF RepairDesignNet, RepairsDriver, Running, LogicInv, TypeInv, TodoLive, NetlistTypeOK
    <2> QED
      BY <1>0, <1>1, <1>4, <2>1 DEF RepairDesignNet, RepairsDriver
  <1>5. ASSUME NEW n \in todo, RepairNet(n, b, m) PROVE StepLoads
    <2>1. n \in nets
      BY <1>0, <1>5 DEF RepairNet, NetlistTypeOK
    <2>2. PICK p \in drvrs[n] : conn[p] = n /\ MakeRepeater(n, p, b, m)
      BY <1>5 DEF RepairNet
    <2>3. p \in DriverPin
      BY <1>0, <2>1 DEF NetlistTypeOK
    <2> QED
      BY <1>1, <2>1, <2>2, <2>3
  <1>6. ASSUME NEW p \in Drivers, MakeHoldDelay(p, b, m) PROVE StepDriver
    <2>1. p \in DriverPin /\ p \in Pin /\ p \notin OutPort
      BY <1>0, DriverFacts DEF Drivers, NetlistTypeOK
    <2>2. conn[p] \in nets /\ conn[p] # NoNet
      BY <1>0, <1>6, <2>1 DEF MakeHoldDelay, DelaysHold
    <2>3. /\ {p} \in SUBSET ConnectedPins(conn[p])
          /\ \A q \in DriverPin : conn[q] = conn[p] => q \in {p}
          /\ \A q \in {p} : q \notin OutPort
      BY <2>1, <2>2 DEF ConnectedPins, DriverParts
    <2> QED
      BY <1>6, <2>1, <2>2, <2>3 DEF MakeHoldDelay, StepDriver
  <1> QED
    BY <1>2, <1>3, <1>4, <1>5, <1>6 DEF Insert

LEMMA VisitKinds ==
    ASSUME LogicInv, Visit
    PROVE  StepRemove \/ StepSplit \/ StepQuiet
  <1>0. TypeOK /\ NetlistTypeOK /\ LogicParts
    BY DEF LogicInv, TypeInv, TypeOK
  <1>1. ASSUME NEW b \in todo, RemoveBuffer(b) PROVE StepRemove
    BY <1>1 DEF StepRemove
  <1>2. ASSUME NEW i \in todo, RepairTie(i) PROVE StepSplit
    <2> DEFINE loads == ConnectedPins(conn[Out(i)]) \ {Out(i)}
    <2>1. i \in insts /\ kind[i] = "tie"
      BY <1>2 DEF RepairTie, Running, LogicInv, TypeInv, TodoLive
    <2>2. PinIterator(conn[Out(i)]) \ {Out(i)} \subseteq loads
      BY TermFacts DEF PinIterator, ConnectedPins
    <2>3. SplitOf(i, NoNet, loads)
      BY <1>2, <2>1, <2>2 DEF RepairTie, SplitOf
    <2> QED
      BY <2>1, <2>3 DEF StepSplit, Term
  <1>3. ASSUME NEW i \in todo, CloneClkInverter(i) PROVE StepSplit
    <2> DEFINE loads == PinIterator(conn[Out(i)]) \ {Out(i)}
    <2>1. i \in insts /\ i \in Inst /\ kind[i] = "inv"
      BY <1>0, <1>3
      DEF CloneClkInverter, Running, LogicInv, TypeInv, TodoLive, NetlistTypeOK
    <2>2. conn[In(i)] \in Term
      BY <1>0, <2>1, TermFacts DEF NetlistTypeOK, Term
    <2>3. loads \in SUBSET (ConnectedPins(conn[Out(i)]) \ {Out(i)})
      BY TermFacts DEF PinIterator, ConnectedPins
    <2>4. SplitOf(i, conn[In(i)], loads)
      BY <1>3, <2>1 DEF CloneClkInverter, Running, SplitOf
    <2> QED
      BY <2>1, <2>2, <2>3, <2>4 DEF StepSplit
  <1>4. ASSUME NEW p \in todo, NEW s \in Sizes, ResizeDriver(p, s) PROVE StepQuiet
    BY <1>4 DEF ResizeDriver, StepQuiet
  <1>5. ASSUME NEW x, \/ KeepBuffer(x) \/ KeepClkInverter(x) \/ SkipInput(x) \/ SkipOutput(x)
                      \/ EndRepairDesignNet(x) \/ SkipDriver(x) \/ EndRepairNet(x)
        PROVE  StepQuiet
    BY <1>5
    DEF KeepBuffer, KeepClkInverter, SkipInput, SkipOutput, EndRepairDesignNet, SkipDriver,
        EndRepairNet, Skip, netVars, StepQuiet
  <1> QED
    BY <1>1, <1>2, <1>3, <1>4, <1>5 DEF Visit

LEMMA FailKinds == ASSUME LogicInv, Fail PROVE StepQuiet
  <1>0. TypeOK /\ LogicParts
    BY DEF LogicInv, TypeInv
  <1>1. ASSUME NEW p, NEW m, BufferInputFails(p, m) \/ BufferOutputFails(p, m)
        PROVE  StepQuiet
    <2>1. /\ m \in NetId \ nets /\ UNCHANGED <<insts, kind, conn>> /\ ~hasMaster
          /\ nets \subseteq nets'
          /\ \E n : sig' = [sig EXCEPT ![m] = sig[n]]
      BY <1>1 DEF BufferInputFails, BufferOutputFails, LeakNet, FreeNet, Edit
    <2>2. \A n \in nets : sig'[n] = sig[n]
      BY <1>0, <2>1 DEF TypeOK, NetlistTypeOK
    <2> QED
      BY <2>1, <2>2 DEF StepQuiet
  <1>2. ASSUME NEW x, \/ RepairDesignNetFails(x) \/ MakeHoldDelayFails(x)
                      \/ UnconnectedBuffer(x) \/ UnconnectedTie(x)
                      \/ RepairNetFails(x) \/ RepairStaleDriver(x)
        PROVE  StepQuiet
    BY <1>2
    DEF RepairDesignNetFails, MakeRepeaterFails, MakeHoldDelayFails, UnconnectedBuffer,
        UnconnectedTie, RepairNetFails, RepairStaleDriver, Die, netVars, StepQuiet
  <1>3. ASSUME NEW x, \/ ResizeDeletedDriver(x) \/ RepairDeletedNet(x)
                      \/ RepairUndrivenNet(x)
        PROVE  StepQuiet
    BY <1>3
    DEF ResizeDeletedDriver, RepairDeletedNet, RepairUndrivenNet, Undefined, netVars, StepQuiet
  <1> QED
    BY <1>1, <1>2, <1>3 DEF Fail

LEMMA StartKinds == ASSUME Start PROVE UNCHANGED netVars
  BY DEF Start, Begin, netVars, StartRemoveBuffers, StartBufferInputs, StartBufferOutputs,
         StartRepairTies, StartRepairClkInverters, StartRepairHold, StartRepairDesign,
         StartRepairClkNets, StartResize, StartRepairNet

LEMMA KindsOfSteps ==
    ASSUME LogicInv, DriverParts, [Next]_vars
    PROVE  StepKinds
  <1>1. CASE Start
    BY <1>1, StartKinds DEF netVars, StepQuiet, StepKinds
  <1>2. CASE \E b \in FreeInst, m \in FreeNet : Insert(b, m)
    BY <1>2, InsertKinds DEF StepKinds
  <1>3. CASE Visit
    BY <1>3, VisitKinds DEF StepKinds
  <1>4. CASE Fail
    BY <1>4, FailKinds DEF StepKinds
  <1>5. CASE \/ Finish \/ (\E a \in AreaLimits : SetMaxUtilization(a))
             \/ ReportDesignArea \/ (\E n \in nets : QueryDrivers(n)) \/ UNCHANGED vars
    BY <1>5
    DEF Finish, SetMaxUtilization, ReportDesignArea, QueryDrivers, FillDrivers, vars, netVars,
        StepQuiet, StepKinds
  <1> QED
    BY <1>1, <1>2, <1>3, <1>4, <1>5 DEF Next

\* The design that was read and the libraries stay what they are.
LEMMA DesignStays == ASSUME [Next]_vars PROVE design' = design /\ hasMaster' = hasMaster
  <1>1. CASE Start
    BY <1>1
    DEF Start, Begin, netVars, StartRemoveBuffers, StartBufferInputs, StartBufferOutputs,
        StartRepairTies, StartRepairClkInverters, StartRepairHold, StartRepairDesign,
        StartRepairClkNets, StartResize, StartRepairNet
  <1>e. \A I, N, c : Edit(I, N, c) => design' = design
    BY DEF Edit
  <1>v. \A x : Visited(x) => hasMaster' = hasMaster
    BY DEF Visited
  <1>2. CASE \E b \in FreeInst, m \in FreeNet : Insert(b, m)
    <2>1. \A b, m, n, c : InsertBuffer(b, m, n, c) => design' = design
      BY <1>e DEF InsertBuffer
    <2>2. \A n, p, b, m : MakeRepeater(n, p, b, m) => design' = design /\ hasMaster' = hasMaster
      BY <2>1 DEF MakeRepeater
    <2>3. \A x, b, m : RepairDesignNet(x, b, m) \/ RepairNet(x, b, m)
                        => design' = design /\ hasMaster' = hasMaster
      BY <2>2 DEF RepairDesignNet, RepairNet
    <2>4. \A x, b, m : BufferInput(x, b, m) \/ BufferOutput(x, b, m)
                        => design' = design /\ hasMaster' = hasMaster
      BY <2>1, <1>v DEF BufferInput, BufferOutput
    <2>5. \A x, b, m : MakeHoldDelay(x, b, m) => design' = design /\ hasMaster' = hasMaster
      BY <2>1 DEF MakeHoldDelay
    <2> QED
      BY <1>2, <2>3, <2>4, <2>5 DEF Insert
  <1>3. CASE Visit
    <2>2. \A i, loads, in : Split(i, loads, in) => design' = design
      BY <1>e DEF Split
    <2>3. \A x : Skip(x) => design' = design /\ hasMaster' = hasMaster
      BY <1>v DEF Skip, netVars
    <2>4. \A x : RemoveBuffer(x) \/ RepairTie(x) \/ CloneClkInverter(x)
                 => design' = design /\ hasMaster' = hasMaster
      BY <1>e, <1>v, <2>2 DEF RemoveBuffer, RepairTie, CloneClkInverter
    <2>5. \A x : \/ KeepBuffer(x) \/ KeepClkInverter(x) \/ SkipInput(x) \/ SkipOutput(x)
                \/ EndRepairDesignNet(x) \/ SkipDriver(x) \/ EndRepairNet(x)
                => design' = design /\ hasMaster' = hasMaster
      BY <2>3
      DEF KeepBuffer, KeepClkInverter, SkipInput, SkipOutput, EndRepairDesignNet,
          SkipDriver, EndRepairNet
    <2>6. \A p, t : ResizeDriver(p, t) => design' = design /\ hasMaster' = hasMaster
      BY DEF ResizeDriver
    <2> QED
      BY <1>3, <2>4, <2>5, <2>6 DEF Visit
  <1>4. CASE Fail
    <2>1. \A x, m : BufferInputFails(x, m) \/ BufferOutputFails(x, m)
                    => design' = design /\ hasMaster' = hasMaster
      BY <1>e, <1>v DEF BufferInputFails, BufferOutputFails, LeakNet
    <2>2. \A x : Die \/ Undefined(x) => design' = design /\ hasMaster' = hasMaster
      BY DEF Die, Undefined, netVars
    <2>3. \A x : \/ RepairDesignNetFails(x) \/ MakeHoldDelayFails(x)
                \/ UnconnectedBuffer(x) \/ UnconnectedTie(x)
                \/ RepairNetFails(x) \/ RepairStaleDriver(x) \/ ResizeDeletedDriver(x)
                \/ RepairDeletedNet(x) \/ RepairUndrivenNet(x)
                => design' = design /\ hasMaster' = hasMaster
      BY <2>2
      DEF RepairDesignNetFails, MakeRepeaterFails, MakeHoldDelayFails, UnconnectedBuffer,
          UnconnectedTie, RepairNetFails, RepairStaleDriver, ResizeDeletedDriver,
          RepairDeletedNet, RepairUndrivenNet
    <2> QED
      BY <1>4, <2>1, <2>3 DEF Fail
  <1>5. CASE \/ Finish \/ (\E a \in AreaLimits : SetMaxUtilization(a))
             \/ ReportDesignArea \/ (\E n \in nets : QueryDrivers(n)) \/ UNCHANGED vars
    BY <1>5
    DEF Finish, SetMaxUtilization, ReportDesignArea, QueryDrivers, FillDrivers, vars, netVars
  <1> QED
    BY <1>1, <1>2, <1>3, <1>4, <1>5 DEF Next

LEMMA DriverNext == DriverInv /\ [Next]_vars => DriverInv'
  <1> SUFFICES ASSUME DriverInv, [Next]_vars PROVE DriverInv'
    OBVIOUS
  <1>0. LogicInv /\ LogicInv' /\ LogicParts /\ TypeOK /\ insts \subseteq Inst
    BY LogicNext DEF DriverInv, LogicInv, TypeInv, TypeOK, NetlistTypeOK
  <1>1. SUFFICES ASSUME WellDriven(design) PROVE DriverParts'
    BY <1>0, DesignStays DEF DriverInv
  <1>2. DriverParts
    BY <1>1 DEF DriverInv
  <1>3. CASE StepLoads
    BY <1>0, <1>2, <1>3, LoadsDrivers DEF StepLoads
  <1>4. CASE StepDriver
    BY <1>0, <1>2, <1>4, DriverDrivers DEF StepDriver
  <1>5. CASE StepRemove
    BY <1>0, <1>2, <1>5, RemoveDrivers DEF StepRemove
  <1>6. CASE StepSplit
    BY <1>0, <1>2, <1>6, SplitDrivers DEF StepSplit, SplitOf
  <1>7. CASE StepQuiet
    BY <1>0, <1>2, <1>7, SameDrivers DEF StepQuiet
  <1> QED
    BY <1>0, <1>2, <1>3, <1>4, <1>5, <1>6, <1>7, KindsOfSteps DEF StepKinds

LEMMA DriverInit == Init => DriverInv
  <1> SUFFICES ASSUME Init PROVE WellDriven(design) => DriverParts
    BY TypeInit, LogicInit DEF DriverInv, LogicInv
  <1>1. conn = design.conn /\ sig = design.sig
    BY DEF Init, InitNetlist
  <1> QED
    BY <1>1 DEF WellDriven, SingleDriver, Driven, Feedthrough, DriverParts

LEMMA DriverInvariant == Spec => [](WellDriven(design) => WellDriven(Netlist))
  <1>1. DriverInv => (WellDriven(design) => WellDriven(Netlist))
    BY PartsOfDrivers DEF DriverInv
  <1> QED
    BY <1>1, DriverInit, DriverNext, PTL DEF Spec

\* Starting from a netlist with one driver per net, driven nets and no feedthrough, no
\* sequence of commands ever puts a second driver on a net, nor leaves one that stands for
\* a signal without its driver, between any two turns of a loop.
THEOREM StaysWellDrivenAlways == Spec => []StaysWellDriven
  <1>1. (WellDriven(design) => WellDriven(Netlist)) => StaysWellDriven
    BY DEF StaysWellDriven
  <1> QED
    BY <1>1, DriverInvariant, PTL

-----------------------------------------------------------------------------
(***************************************************************************)
(* Netlists that stay sound.  The steps again, in the words of what is on  *)
(* what net: b is a new cell and m a new net.                              *)
(***************************************************************************)
LoadsEffect(b, m, n) ==
    /\ b \in Inst \ insts /\ m \in NetId \ nets /\ n \in NetId /\ n # m
    /\ insts' = insts \cup {b} /\ nets' = nets \cup {m}
    /\ \A i \in insts : kind'[i] = kind[i]
    /\ conn'[Out(b)] = m /\ conn'[In(b)] = n
    /\ \A q \in DriverPin \ {Out(b)} : conn'[q] = conn[q]
    /\ \A p \in Pin \ Terms(b) : conn'[p] = conn[p] \/ (conn[p] = n /\ conn'[p] = m)

LEMMA LoadsFacts ==
    ASSUME TypeOK, LogicParts, DriverParts, StepLoads
    PROVE  \E b, m, n : LoadsEffect(b, m, n) /\ n \in nets
  <1>0. PICK b, m : \E n \in nets, d \in DriverPin :
          /\ conn[d] = n
          /\ \E S \in SUBSET (ConnectedPins(n) \ {d}) : InsertBuffer(b, m, n, BufferLoads(b, m, n, S))
    BY DEF StepLoads
  <1> PICK n \in nets, d \in DriverPin :
          /\ conn[d] = n
          /\ \E S \in SUBSET (ConnectedPins(n) \ {d}) : InsertBuffer(b, m, n, BufferLoads(b, m, n, S))
    BY <1>0
  <1>1. PICK S \in SUBSET (ConnectedPins(n) \ {d}) : InsertBuffer(b, m, n, BufferLoads(b, m, n, S))
    OBVIOUS
  <1>2. /\ b \in Inst \ insts /\ m \in NetId \ nets /\ n \in NetId /\ n # m /\ n # NoNet
        /\ insts' = insts \cup {b} /\ nets' = nets \cup {m}
        /\ conn' = BufferLoads(b, m, n, S) /\ \A i \in insts : kind'[i] = kind[i]
    BY <1>1, NetlistAssumption
    DEF InsertBuffer, FreeInst, FreeNet, Edit, TypeOK, NetlistTypeOK
  <1>3. \A p \in S : p \in Pin /\ conn[p] = n /\ p \notin DriverPin
    BY <1>2 DEF ConnectedPins, DriverParts
  <1>4. In(b) \in Pin /\ Out(b) \in Pin /\ In(b) # Out(b) /\ In(b) \notin DriverPin
    BY <1>2, TermFacts, DriverFacts
  <1>5. /\ conn'[Out(b)] = m /\ conn'[In(b)] = n
        /\ \A p \in Pin \ {In(b), Out(b)} : conn'[p] = IF p \in S THEN m ELSE conn[p]
    BY <1>2, <1>4 DEF BufferLoads, Reconnect
  <1>6. \A q \in DriverPin \ {Out(b)} : conn'[q] = conn[q]
    BY <1>3, <1>4, <1>5, DriverFacts
  <1>7. \A p \in Pin \ Terms(b) : conn'[p] = conn[p] \/ (conn[p] = n /\ conn'[p] = m)
    BY <1>3, <1>5 DEF Terms
  <1>8. LoadsEffect(b, m, n)
    BY <1>2, <1>5, <1>6, <1>7 DEF LoadsEffect
  <1> QED
    BY <1>8

DriverEffect(b, m, n) ==
    /\ b \in Inst \ insts /\ m \in NetId \ nets /\ n \in NetId /\ n # m
    /\ insts' = insts \cup {b} /\ nets' = nets \cup {m}
    /\ \A i \in insts : kind'[i] = kind[i]
    /\ conn'[Out(b)] = n /\ conn'[In(b)] = m
    /\ \A q \in DriverPin \ {Out(b)} : conn'[q] = IF conn[q] = n THEN m ELSE conn[q]
    /\ \A p \in Pin \ Terms(b) : conn'[p] = conn[p] \/ (conn[p] = n /\ conn'[p] = m)

LEMMA DriverStepFacts ==
    ASSUME TypeOK, LogicParts, DriverParts, StepDriver
    PROVE  \E b, m, n : DriverEffect(b, m, n) /\ n \in nets
  <1>0. PICK b, m : \E n \in nets : \E S \in SUBSET ConnectedPins(n) :
          /\ \A q \in DriverPin : conn[q] = n => q \in S
          /\ InsertBuffer(b, m, n, BufferDriver(b, m, n, S))
    BY DEF StepDriver
  <1>1. PICK n \in nets : \E S \in SUBSET ConnectedPins(n) :
          /\ \A q \in DriverPin : conn[q] = n => q \in S
          /\ InsertBuffer(b, m, n, BufferDriver(b, m, n, S))
    BY <1>0
  <1>s. PICK S \in SUBSET ConnectedPins(n) :
          /\ \A q \in DriverPin : conn[q] = n => q \in S
          /\ InsertBuffer(b, m, n, BufferDriver(b, m, n, S))
    BY <1>1
  <1>2. /\ b \in Inst \ insts /\ m \in NetId \ nets /\ n \in NetId /\ n # m /\ n # NoNet
        /\ insts' = insts \cup {b} /\ nets' = nets \cup {m}
        /\ conn' = BufferDriver(b, m, n, S) /\ \A i \in insts : kind'[i] = kind[i]
    BY <1>s, NetlistAssumption
    DEF InsertBuffer, FreeInst, FreeNet, Edit, TypeOK, NetlistTypeOK
  <1>3. \A p \in S : p \in Pin /\ conn[p] = n
    BY <1>s DEF ConnectedPins
  <1>4. In(b) \in Pin /\ Out(b) \in Pin /\ In(b) # Out(b) /\ In(b) \notin DriverPin
    BY <1>2, TermFacts, DriverFacts
  <1>5. /\ conn'[Out(b)] = n /\ conn'[In(b)] = m
        /\ \A p \in Pin \ {In(b), Out(b)} : conn'[p] = IF p \in S THEN m ELSE conn[p]
    BY <1>2, <1>4 DEF BufferDriver, Reconnect
  <1>6. \A q \in DriverPin \ {Out(b)} : conn'[q] = IF conn[q] = n THEN m ELSE conn[q]
    BY <1>s, <1>3, <1>4, <1>5, DriverFacts
  <1>7. \A p \in Pin \ Terms(b) : conn'[p] = conn[p] \/ (conn[p] = n /\ conn'[p] = m)
    BY <1>3, <1>5 DEF Terms
  <1>8. DriverEffect(b, m, n)
    BY <1>2, <1>5, <1>6, <1>7 DEF DriverEffect
  <1> QED
    BY <1>8

RemoveEffect(b) ==
    LET in == conn[In(b)] out == conn[Out(b)]
    IN /\ b \in insts /\ b \in Inst /\ kind[b] = "buf"
       /\ in # NoNet /\ out # NoNet /\ in \in nets /\ out \in nets
       /\ insts' = insts \ {b} /\ nets' = nets \ {out} /\ kind' = kind
       /\ conn'[Out(b)] = NoNet
       /\ \A q \in DriverPin \ {Out(b)} : conn[q] # out /\ conn'[q] = conn[q]
       /\ \A p \in BTerm : conn[p] # in /\ conn[p] # out
       /\ \A p \in Pin \ Terms(b) :
             conn'[p] = IF conn[p] # out THEN conn[p] ELSE IF in = out THEN NoNet ELSE in

LEMMA RemoveFacts ==
    ASSUME LogicInv, DriverParts, StepRemove
    PROVE  \E b : RemoveEffect(b)
  <1>0. TypeOK /\ LogicParts /\ NetlistTypeOK
    BY DEF LogicInv, TypeInv, TypeOK
  <1>1. PICK b \in todo : RemoveBuffer(b)
    BY DEF StepRemove
  <1> DEFINE in  == conn[In(b)]
             out == conn[Out(b)]
             S == PinIterator(out) \ {Out(b)}
  <1>2. b \in insts /\ b \in Inst /\ kind[b] = "buf"
    BY <1>0, <1>1 DEF LogicInv, TypeInv, TodoLive, RemoveBuffer, Running, NetlistTypeOK
  <1>3. /\ in # NoNet /\ out # NoNet /\ \A p \in BTerm : conn[p] # in /\ conn[p] # out
        /\ insts' = insts \ {b} /\ nets' = nets \ {out} /\ kind' = kind
        /\ conn' = DeleteInst(b, DeleteNet(out, Reconnect(S, in, conn)))
    BY <1>1 DEF RemoveBuffer, Edit, HasTopLevelPort
  <1>4. /\ In(b) \in Pin /\ Out(b) \in DriverPin /\ Out(b) \in Pin
        /\ \A q \in DriverPin : q \in Terms(b) => q = Out(b)
    BY <1>2, TermFacts, DriverFacts DEF Terms
  <1>5. in \in nets /\ out \in nets
    BY <1>0, <1>3, <1>4 DEF LogicParts
  <1>6. conn'[Out(b)] = NoNet
    BY <1>3, <1>4 DEF DeleteInst
  <1>7. \A p \in Pin : conn[p] = out => p = Out(b) \/ p \in S
    BY <1>3, TermFacts DEF PinIterator
  <1>8. \A p \in Pin \ Terms(b) :
           conn'[p] = IF conn[p] # out THEN conn[p] ELSE IF in = out THEN NoNet ELSE in
    BY <1>3, <1>7 DEF DeleteInst, DeleteNet, Reconnect, PinIterator, Terms
  <1>9. \A q \in DriverPin \ {Out(b)} : conn[q] # out /\ conn'[q] = conn[q]
    BY <1>3, <1>4, <1>8, DriverFacts DEF DriverParts
  <1> QED
    BY <1>2, <1>3, <1>5, <1>6, <1>8, <1>9 DEF RemoveEffect

\* Of what is on the net of the cell that is split, only ports may be left behind.
SplitCells(i, loads, in, copy, net) ==
    LET out == conn[Out(i)]
    IN /\ SplitEffect(i, loads, in, copy, net)
       /\ i \in insts /\ i \in Inst /\ kind[i] \in {"tie", "inv"}
       /\ out # NoNet /\ out \in nets
       /\ in = IF kind[i] = "tie" THEN NoNet ELSE conn[In(i)]
       /\ kind[i] = "inv" => cmd = "repair_clock_inverters"
       /\ \A p \in loads : p \in Pin /\ conn[p] = out /\ p \notin DriverPin
       /\ \A p \in Pin : conn[p] = out /\ p # Out(i) =>
             p \in loads \/ (p \in BTerm /\ cmd = "repair_clock_inverters")
       /\ \A q \in DriverPin :
             \/ \E l \in loads : q = Out(copy[l]) /\ conn'[q] = net[l]
             \/ q = Out(i) /\ conn'[q] = NoNet
             \/ /\ conn'[q] = conn[q] /\ conn[q] # out /\ q # Out(i)
                /\ \A l \in loads : q # Out(copy[l])

LEMMA SplitCellFacts ==
    ASSUME LogicInv, DriverParts, StepSplit
    PROVE  \E i, loads, in, copy, net : SplitCells(i, loads, in, copy, net)
  <1>0. PICK i \in insts, in \in Term :
          \E loads \in SUBSET (ConnectedPins(conn[Out(i)]) \ {Out(i)}) : SplitOf(i, in, loads)
    BY DEF StepSplit
  <1>1. PICK loads \in SUBSET (ConnectedPins(conn[Out(i)]) \ {Out(i)}) : SplitOf(i, in, loads)
    BY <1>0
  <1> DEFINE out == conn[Out(i)]
  <1>2. LogicParts /\ i \in Inst /\ insts \subseteq Inst
    BY DEF LogicInv, TypeInv, TypeOK, NetlistTypeOK
  <1>3. PICK copy, net : SplitEffect(i, loads, in, copy, net)
    BY <1>1, SplitFacts DEF SplitOf
  <1>4. /\ kind[i] \in {"tie", "inv"} /\ out # NoNet
        /\ in = IF kind[i] = "tie" THEN NoNet ELSE conn[In(i)]
        /\ kind[i] = "inv" => cmd = "repair_clock_inverters"
        /\ PinIterator(out) \ {Out(i)} \subseteq loads
        /\ cmd = "repair_clock_inverters" \/ loads = ConnectedPins(out) \ {Out(i)}
    BY <1>1 DEF SplitOf
  <1>5. /\ Out(i) \in DriverPin /\ Out(i) \in Pin /\ out \in nets
        /\ \A q \in DriverPin : q \in Terms(i) => q = Out(i)
    BY <1>2, <1>4, TermFacts, DriverFacts DEF LogicParts, Terms
  <1>6. \A p \in loads : p \in Pin /\ conn[p] = out /\ p \notin DriverPin
    <2>1. \A p \in loads : p \in Pin /\ conn[p] = out /\ p # Out(i)
      BY DEF ConnectedPins
    <2> QED
      BY <1>4, <1>5, <2>1 DEF DriverParts
  <1>7. \A p \in Pin : conn[p] = out /\ p # Out(i) =>
             p \in loads \/ (p \in BTerm /\ cmd = "repair_clock_inverters")
    BY <1>4, TermFacts DEF PinIterator, ConnectedPins
  <1>8. /\ \A l \in loads : conn'[Out(copy[l])] = net[l] /\ In(copy[l]) \notin DriverPin
        /\ conn'[Out(i)] = NoNet
    BY <1>3, DriverFacts DEF SplitEffect, Terms
  <1>9. ASSUME NEW q \in DriverPin, q # Out(i), \A l \in loads : q # Out(copy[l])
        PROVE  conn'[q] = conn[q] /\ conn[q] # out
    <2>1. conn[q] # out
      BY <1>4, <1>5, <1>9 DEF DriverParts
    <2>2. q \in Pin /\ q \notin loads /\ q \notin Terms(i)
          /\ \A l \in loads : q # In(copy[l])
      BY <1>5, <1>6, <1>8, <1>9, DriverFacts
    <2> QED
      BY <1>3, <1>9, <2>1, <2>2 DEF SplitEffect
  <1> HIDE DEF out
  <1>10. \A q \in DriverPin :
            \/ \E l \in loads : q = Out(copy[l]) /\ conn'[q] = net[l]
            \/ q = Out(i) /\ conn'[q] = NoNet
            \/ /\ conn'[q] = conn[q] /\ conn[q] # out /\ q # Out(i)
               /\ \A l \in loads : q # Out(copy[l])
    BY <1>8, <1>9
  <1>11. SplitCells(i, loads, in, copy, net)
    BY <1>2, <1>3, <1>4, <1>5, <1>6, <1>7, <1>10 DEF SplitCells, out
  <1> QED
    BY <1>11


(***************************************************************************)
(* No ring.  For nets N of the netlist after the step, take the nets M     *)
(* they were before it (a new net stands for the one it was made for) and  *)
(* the net of M that no repeater drives from M: it is the one, or its      *)
(* stand-in is.                                                            *)
(***************************************************************************)
Entry(N, n) ==
    \A i \in insts : kind[i] \in {"buf", "inv"} /\ conn[Out(i)] = n => conn[In(i)] \notin N

RingParts == \A N \in (SUBSET NetId) \ {{}} : \E n \in N : Entry(N, n)

LEMMA InsertRing ==
    ASSUME LogicParts, RingParts, insts \subseteq Inst, nets \subseteq NetId,
           NEW b, NEW m, NEW n, LoadsEffect(b, m, n) \/ DriverEffect(b, m, n)
    PROVE  RingParts'
  <1> SUFFICES ASSUME NEW N \in (SUBSET NetId) \ {{}} PROVE \E k \in N : Entry(N, k)'
    BY DEF RingParts
  <1>1. /\ b \in Inst \ insts /\ m \in NetId \ nets /\ n \in NetId /\ n # m /\ m # NoNet
        /\ insts' = insts \cup {b}
        /\ \A i \in insts : kind'[i] = kind[i]
        /\ \A p \in Pin \ Terms(b) : conn'[p] = conn[p] \/ (conn[p] = n /\ conn'[p] = m)
    BY NetlistAssumption DEF LoadsEffect, DriverEffect
  <1> DEFINE M == (N \ {m}) \cup {x \in {n} : m \in N}
  <1>2. M \in (SUBSET NetId) \ {{}}
    BY <1>1
  <1>3. PICK k \in M : Entry(M, k)
    BY <1>2 DEF RingParts
  <1>4. \A i \in insts : /\ In(i) \in Pin \ Terms(b) /\ Out(i) \in Pin \ Terms(b)
                         /\ Out(i) \in DriverPin \ {Out(b)}
                         /\ conn[In(i)] # m /\ conn[Out(i)] # m
    BY <1>1, TermFacts, DriverFacts DEF LogicParts, Terms
  \* What a cell reads is in N only if it was in M.
  <1>5. \A i \in insts : conn'[In(i)] \in N => conn[In(i)] \in M
    BY <1>1, <1>4
  <1>6. CASE LoadsEffect(b, m, n)
    <2>1. conn'[Out(b)] = m /\ conn'[In(b)] = n /\ \A i \in insts : conn'[Out(i)] = conn[Out(i)]
      BY <1>4, <1>6 DEF LoadsEffect
    <2>2. CASE k \in N
      <3>1. k # m
        BY <1>1
      <3>2. Entry(N, k)'
        BY <1>1, <1>3, <1>5, <2>1, <3>1 DEF Entry
      <3> QED
        BY <2>2, <3>2
    <2>3. CASE k \notin N
      <3>1. m \in N /\ n \notin N
        BY <2>3
      <3>2. Entry(N, m)'
        BY <1>1, <1>4, <2>1, <3>1 DEF Entry
      <3> QED
        BY <3>1, <3>2
    <2> QED
      BY <2>2, <2>3
  <1>7. CASE DriverEffect(b, m, n)
    <2>1. /\ conn'[Out(b)] = n /\ conn'[In(b)] = m
          /\ \A i \in insts : conn'[Out(i)] = IF conn[Out(i)] = n THEN m ELSE conn[Out(i)]
      BY <1>4, <1>7 DEF DriverEffect
    <2>2. CASE k # n
      <3>1. k # m /\ k \in N
        BY <1>1, <2>2
      <3>2. Entry(N, k)'
        BY <1>1, <1>3, <1>5, <2>1, <2>2, <3>1 DEF Entry
      <3> QED
        BY <3>1, <3>2
    <2>3. CASE k = n /\ m \in N
      <3>1. Entry(N, m)'
        BY <1>1, <1>3, <1>4, <1>5, <2>1, <2>3 DEF Entry
      <3> QED
        BY <2>3, <3>1
    <2>4. CASE k = n /\ m \notin N
      <3>1. n \in N
        BY <2>4
      <3>2. Entry(N, n)'
        BY <1>1, <2>1, <2>4 DEF Entry
      <3> QED
        BY <3>1, <3>2
    <2> QED
      BY <2>2, <2>3, <2>4
  <1> QED
    BY <1>6, <1>7

LEMMA RemoveRing ==
    ASSUME LogicParts, RingParts, insts \subseteq Inst, nets \subseteq NetId,
           NEW b, RemoveEffect(b)
    PROVE  RingParts'
  <1> SUFFICES ASSUME NEW N \in (SUBSET NetId) \ {{}} PROVE \E k \in N : Entry(N, k)'
    BY DEF RingParts
  <1> DEFINE in  == conn[In(b)]
             out == conn[Out(b)]
             M == N \cup {x \in {out} : in \in N}
  <1>1. /\ b \in insts /\ b \in Inst /\ kind[b] = "buf"
        /\ in \in nets /\ out \in nets /\ NoNet \notin NetId
        /\ insts' = insts \ {b} /\ kind' = kind
    BY NetlistAssumption DEF RemoveEffect
  <1>2. M \in (SUBSET NetId) \ {{}}
    BY <1>1
  <1>3. PICK k \in M : Entry(M, k)
    BY <1>2 DEF RingParts
  <1>4. \A i \in insts' : /\ i \in insts /\ In(i) \in Pin \ Terms(b)
                          /\ Out(i) \in DriverPin \ {Out(b)}
    BY <1>1, TermFacts, DriverFacts DEF Terms
  <1>5. \A i \in insts' : /\ conn[Out(i)] # out /\ conn'[Out(i)] = conn[Out(i)]
                          /\ \/ conn'[In(i)] = conn[In(i)]
                             \/ conn'[In(i)] = NoNet
                             \/ conn[In(i)] = out /\ conn'[In(i)] = in
    BY <1>4 DEF RemoveEffect
  <1>6. CASE out \in N
    <2>1. PICK o : o = out
      OBVIOUS
    <2>2. Entry(N, o)'
      BY <1>5, <2>1 DEF Entry
    <2> QED
      BY <1>6, <2>1, <2>2
  <1>7. CASE out \notin N
    <2>1. k # out
      BY <1>1, <1>3, <1>7 DEF Entry
    <2>2. \A i \in insts' : conn'[In(i)] \in N => conn[In(i)] \in M
      BY <1>1, <1>5
    <2>3. Entry(N, k)'
      BY <1>1, <1>3, <1>4, <1>5, <2>2 DEF Entry
    <2> QED
      BY <2>1, <2>3
  <1> QED
    BY <1>6, <1>7

LEMMA SplitRing ==
    ASSUME LogicParts, RingParts, insts \subseteq Inst, nets \subseteq NetId,
           NEW i, NEW loads, NEW in, NEW copy, NEW net, SplitCells(i, loads, in, copy, net)
    PROVE  RingParts'
  <1> SUFFICES ASSUME NEW N \in (SUBSET NetId) \ {{}} PROVE \E k \in N : Entry(N, k)'
    BY DEF RingParts
  <1> DEFINE out == conn[Out(i)]
             M == {x \in N : \A l \in loads : x # net[l]}
                     \cup {x \in {out} : \E l \in loads : net[l] \in N}
  <1>1. /\ i \in insts /\ i \in Inst /\ kind[i] \in {"tie", "inv"}
        /\ out \in nets /\ NoNet \notin NetId
        /\ in = IF kind[i] = "tie" THEN NoNet ELSE conn[In(i)]
        /\ \A j \in insts : kind'[j] = kind[j]
        /\ \A l \in loads : /\ copy[l] \in Inst \ insts /\ net[l] \in NetId \ nets
                            /\ kind'[copy[l]] = kind[i] /\ conn'[Out(copy[l])] = net[l]
                            /\ conn'[In(copy[l])] \in {NoNet, in}
        /\ \A k, l \in loads : net[k] = net[l] => k = l
        /\ \A j \in insts' : (j \in insts /\ j # i) \/ \E l \in loads : j = copy[l]
    BY NetlistAssumption DEF SplitCells, SplitEffect
  <1>2. M \in (SUBSET NetId) \ {{}}
    BY <1>1
  <1>3. PICK k \in M : Entry(M, k)
    BY <1>2 DEF RingParts
  \* The cells that were there.
  <1>4. ASSUME NEW j \in insts, j # i
        PROVE  /\ conn[Out(j)] # out /\ conn'[Out(j)] = conn[Out(j)]
               /\ conn[Out(j)] \in nets \cup {NoNet}
               /\ conn'[In(j)] \in N => conn[In(j)] \in M
    <2>1. /\ In(j) \in Pin /\ Out(j) \in DriverPin /\ Out(j) # Out(i) /\ In(j) \notin Terms(i)
          /\ \A l \in loads : Out(j) # Out(copy[l]) /\ In(j) # In(copy[l]) /\ In(j) # Out(copy[l])
          /\ conn[In(j)] \in nets \cup {NoNet} /\ conn[Out(j)] \in nets \cup {NoNet}
      BY <1>1, <1>4, TermFacts, DriverFacts DEF LogicParts, Terms
    <2>2. conn[Out(j)] # out /\ conn'[Out(j)] = conn[Out(j)]
      BY <2>1 DEF SplitCells
    <2>3. CASE In(j) \in loads
      <3>1. conn'[In(j)] = net[In(j)] /\ conn[In(j)] = out
        BY <2>1, <2>3 DEF SplitCells, SplitEffect
      <3> QED
        BY <2>1, <2>2, <2>3, <3>1
    <2>4. CASE In(j) \notin loads
      <3>1. conn'[In(j)] \in {NoNet, conn[In(j)]}
        BY <2>1, <2>4 DEF SplitCells, SplitEffect
      <3> QED
        BY <1>1, <2>1, <2>2, <3>1
    <2> QED
      BY <2>3, <2>4
  <1>5. CASE k = out /\ out \notin N
    <2>1. PICK l \in loads : net[l] \in N
      BY <1>5
    <2>2. kind[i] = "inv" => in \notin M
      BY <1>1, <1>3, <1>5 DEF Entry
    <2>3. kind[i] = "inv" => in \notin N
      <3>1. CASE \E x \in loads : in = net[x]
        <4>1. in \notin nets /\ in # NoNet
          BY <1>1, <3>1
        <4> QED
          BY <1>1, <4>1, TermFacts DEF LogicParts
      <3> QED
        BY <2>2, <3>1
    <2>4. Entry(N, net[l])'
      <3> SUFFICES ASSUME NEW j \in insts', kind'[j] \in {"buf", "inv"}, conn'[Out(j)] = net[l]
                   PROVE  conn'[In(j)] \notin N
        BY DEF Entry
      <3>1. ~(j \in insts /\ j # i)
        BY <1>1, <1>4
      <3>2. j = copy[l]
        BY <1>1, <3>1
      <3> QED
        BY <1>1, <2>3, <3>2
    <2> QED
      BY <2>1, <2>4
  <1>6. CASE k # out
    <2>1. k \in N /\ \A l \in loads : k # net[l]
      BY <1>6
    <2>2. Entry(N, k)'
      BY <1>1, <1>3, <1>4, <2>1 DEF Entry
    <2> QED
      BY <2>1, <2>2
  <1>7. CASE out \in N
    <2>1. PICK o : o = out
      OBVIOUS
    <2>2. o \in nets /\ o \in N
      BY <1>1, <1>7, <2>1
    <2>3. \A j \in insts' : conn'[Out(j)] # o
      BY <1>1, <1>4, <2>1, <2>2
    <2>4. Entry(N, o)'
      BY <2>3 DEF Entry
    <2> QED
      BY <2>2, <2>4
  <1> QED
    BY <1>5, <1>6, <1>7

\* A repeater does not drive what it reads.
LEMMA NoLoop ==
    ASSUME RingParts, NEW i \in insts, kind[i] \in {"buf", "inv"}, conn[Out(i)] \in NetId
    PROVE  conn[In(i)] # conn[Out(i)]
  <1>1. {conn[Out(i)]} \in (SUBSET NetId) \ {{}}
    OBVIOUS
  <1> QED
    BY <1>1 DEF RingParts, Entry


(***************************************************************************)
(* Every net driven, every terminal of a repeater or tie cell on a net.    *)
(***************************************************************************)
NetsParts == \A n \in nets : \E q \in DriverPin : conn[q] = n

CellsParts ==
    \A i \in insts : /\ kind[i] # "gate" => conn[Out(i)] # NoNet
                     /\ kind[i] \in {"buf", "inv"} => conn[In(i)] # NoNet

LEMMA InsertSound ==
    ASSUME LogicParts, NetsParts, CellsParts, insts \subseteq Inst, nets \subseteq NetId,
           NEW b, NEW m, NEW n \in nets, LoadsEffect(b, m, n) \/ DriverEffect(b, m, n)
    PROVE  NetsParts' /\ CellsParts'
  <1>1. /\ b \in Inst \ insts /\ m \in NetId \ nets /\ n \in NetId /\ n # m
        /\ m # NoNet /\ n # NoNet
        /\ insts' = insts \cup {b} /\ nets' = nets \cup {m}
        /\ \A i \in insts : kind'[i] = kind[i]
        /\ \A p \in Pin \ Terms(b) : conn'[p] = conn[p] \/ (conn[p] = n /\ conn'[p] = m)
    BY NetlistAssumption DEF LoadsEffect, DriverEffect
  <1>2. /\ Out(b) \in DriverPin /\ conn[Out(b)] = NoNet
        /\ conn'[Out(b)] \in {m, n} /\ conn'[In(b)] \in {m, n}
    BY <1>1, DriverFacts DEF LogicParts, Terms, LoadsEffect, DriverEffect
  <1>3. NetsParts'
    <2> SUFFICES ASSUME NEW x \in nets' PROVE \E q \in DriverPin : conn'[q] = x
      BY DEF NetsParts
    <2>1. CASE x = m /\ LoadsEffect(b, m, n)
      BY <1>2, <2>1 DEF LoadsEffect
    <2>2. CASE x = m /\ DriverEffect(b, m, n)
      <3>1. PICK q \in DriverPin : conn[q] = n
        BY DEF NetsParts
      <3> QED
        BY <1>1, <1>2, <2>2, <3>1 DEF DriverEffect
    <2>3. CASE x = n /\ DriverEffect(b, m, n)
      BY <1>2, <2>3 DEF DriverEffect
    <2>4. CASE x # m /\ (x # n \/ LoadsEffect(b, m, n))
      <3>1. x \in nets /\ x # NoNet
        BY <1>1, <2>4, NetlistAssumption
      <3>2. PICK q \in DriverPin : conn[q] = x
        BY <3>1 DEF NetsParts
      <3>3. q \in DriverPin \ {Out(b)}
        BY <1>2, <3>1, <3>2
      <3> QED
        BY <2>4, <3>2, <3>3 DEF LoadsEffect, DriverEffect
    <2> QED
      BY <2>1, <2>2, <2>3, <2>4
  <1>4. CellsParts'
    <2> SUFFICES ASSUME NEW i \in insts'
                 PROVE  /\ kind'[i] # "gate" => conn'[Out(i)] # NoNet
                        /\ kind'[i] \in {"buf", "inv"} => conn'[In(i)] # NoNet
      BY DEF CellsParts
    <2>1. CASE i = b
      BY <1>1, <1>2, <2>1
    <2>2. CASE i \in insts
      <3>1. In(i) \in Pin \ Terms(b) /\ Out(i) \in Pin \ Terms(b)
        BY <1>1, <2>2, TermFacts DEF Terms
      <3> QED
        BY <1>1, <2>2, <3>1 DEF CellsParts
    <2> QED
      BY <1>1, <2>1, <2>2
  <1> QED
    BY <1>3, <1>4

LEMMA RemoveSound ==
    ASSUME LogicParts, RingParts, NetsParts, CellsParts, insts \subseteq Inst, nets \subseteq NetId,
           NEW b, RemoveEffect(b)
    PROVE  NetsParts' /\ CellsParts'
  <1>1. NetsParts'
    <2> SUFFICES ASSUME NEW x \in nets' PROVE \E q \in DriverPin : conn'[q] = x
      BY DEF NetsParts
    <2>1. x \in nets /\ x # conn[Out(b)]
      BY DEF RemoveEffect
    <2>2. PICK q \in DriverPin : conn[q] = x
      BY <2>1 DEF NetsParts
    <2> QED
      BY <2>1, <2>2 DEF RemoveEffect
  <1>2. b \in insts /\ b \in Inst /\ kind[b] = "buf" /\ conn[Out(b)] \in NetId
        /\ conn[In(b)] # NoNet
    BY DEF RemoveEffect
  <1>3. conn[In(b)] # conn[Out(b)]
    BY <1>2, NoLoop
  <1>4. CellsParts'
    <2> SUFFICES ASSUME NEW i \in insts'
                 PROVE  /\ kind'[i] # "gate" => conn'[Out(i)] # NoNet
                        /\ kind'[i] \in {"buf", "inv"} => conn'[In(i)] # NoNet
      BY DEF CellsParts
    <2>1. i \in insts /\ i # b /\ kind'[i] = kind[i]
      BY DEF RemoveEffect
    <2>2. In(i) \in Pin \ Terms(b) /\ Out(i) \in Pin \ Terms(b)
      BY <1>2, <2>1, TermFacts DEF Terms
    <2> QED
      BY <1>2, <1>3, <2>1, <2>2 DEF CellsParts, RemoveEffect
  <1> QED
    BY <1>1, <1>4

LEMMA SplitSound ==
    ASSUME LogicParts, RingParts, NetsParts, CellsParts, insts \subseteq Inst, nets \subseteq NetId,
           NEW i, NEW loads, NEW in, NEW copy, NEW net, SplitCells(i, loads, in, copy, net)
    PROVE  NetsParts' /\ CellsParts'
  <1> DEFINE out == conn[Out(i)]
  <1>1. /\ i \in insts /\ i \in Inst /\ kind[i] \in {"tie", "inv"}
        /\ out # NoNet /\ out \in nets /\ out \in NetId /\ NoNet \notin NetId
        /\ in = IF kind[i] = "tie" THEN NoNet ELSE conn[In(i)]
        /\ \A j \in insts : kind'[j] = kind[j]
        /\ \A l \in loads : /\ copy[l] \in Inst \ insts /\ net[l] \in NetId \ nets
                            /\ kind'[copy[l]] = kind[i] /\ conn'[Out(copy[l])] = net[l]
                            /\ conn'[In(copy[l])] = IF in = out THEN NoNet ELSE in
        /\ \A j \in insts' : (j \in insts /\ j # i) \/ \E l \in loads : j = copy[l]
        /\ \A n \in nets' : (n \in nets /\ n # out) \/ \E l \in loads : n = net[l]
    BY NetlistAssumption DEF SplitCells, SplitEffect
  <1>2. NetsParts'
    <2> SUFFICES ASSUME NEW x \in nets' PROVE \E q \in DriverPin : conn'[q] = x
      BY DEF NetsParts
    <2>1. CASE \E l \in loads : x = net[l]
      BY <1>1, <2>1, DriverFacts
    <2>2. CASE x \in nets /\ x # out
      <3>1. PICK q \in DriverPin : conn[q] = x
        BY <2>2 DEF NetsParts
      <3>2. \A l \in loads : q # Out(copy[l])
        BY <1>1, <2>2, <3>1 DEF LogicParts, Terms
      <3>3. conn'[q] = x
        BY <2>2, <3>1, <3>2 DEF SplitCells
      <3> QED
        BY <3>3
    <2> QED
      BY <1>1, <2>1, <2>2
  <1>3. kind[i] = "inv" => in # NoNet /\ in # out
    BY <1>1, NoLoop DEF CellsParts
  <1>4. ASSUME NEW j \in insts'
        PROVE  /\ kind'[j] # "gate" => conn'[Out(j)] # NoNet
               /\ kind'[j] \in {"buf", "inv"} => conn'[In(j)] # NoNet
    <2>1. CASE \E l \in loads : j = copy[l]
      BY <1>1, <1>3, <2>1
    <2>2. CASE j \in insts /\ j # i
      <3>1. /\ In(j) \in Pin /\ In(j) \notin BTerm /\ In(j) # Out(i) /\ In(j) \notin Terms(i)
            /\ Out(j) \in DriverPin /\ Out(j) # Out(i)
            /\ \A l \in loads : /\ Out(j) # Out(copy[l]) /\ In(j) # In(copy[l])
                                /\ In(j) # Out(copy[l])
        BY <1>1, <2>2, TermFacts, DriverFacts DEF Terms
      <3>2. conn'[Out(j)] = conn[Out(j)]
        BY <3>1 DEF SplitCells
      <3>3. CASE In(j) \in loads
        <4>1. conn'[In(j)] = net[In(j)]
          BY <3>1, <3>3 DEF SplitCells, SplitEffect
        <4> QED
          BY <1>1, <2>2, <3>2, <3>3, <4>1 DEF CellsParts
      <3>4. CASE In(j) \notin loads
        <4>1. conn[In(j)] # out
          BY <3>1, <3>4 DEF SplitCells
        <4>2. conn'[In(j)] = conn[In(j)]
          BY <3>1, <3>4, <4>1 DEF SplitCells, SplitEffect
        <4> QED
          BY <1>1, <2>2, <3>2, <4>2 DEF CellsParts
      <3> QED
        BY <3>3, <3>4
    <2> QED
      BY <1>1, <2>1, <2>2
  <1> QED
    BY <1>2, <1>4 DEF CellsParts

-----------------------------------------------------------------------------
SoundInv ==
    /\ DriverInv
    /\ WellDriven(design) /\ RingFree(design) => RingParts
    /\ Sound(design) /\ hasMaster => NetsParts /\ CellsParts

LEMMA SoundNext == SoundInv /\ [Next]_vars => SoundInv'
  <1> SUFFICES ASSUME SoundInv, [Next]_vars PROVE SoundInv'
    OBVIOUS
  <1>1. /\ DriverInv /\ DriverInv' /\ LogicInv /\ TypeOK /\ LogicParts
        /\ design' = design /\ hasMaster' = hasMaster
        /\ insts \subseteq Inst /\ nets \subseteq NetId
    BY DriverNext, DesignStays
    DEF SoundInv, DriverInv, LogicInv, TypeInv, TypeOK, NetlistTypeOK
  <1>2. SUFFICES ASSUME WellDriven(design), RingFree(design)
                 PROVE  /\ RingParts'
                        /\ Sound(design) /\ hasMaster => NetsParts' /\ CellsParts'
    BY <1>1 DEF SoundInv, Sound
  <1>3. /\ DriverParts /\ RingParts /\ StepKinds
        /\ Sound(design) /\ hasMaster => NetsParts /\ CellsParts
    BY <1>1, <1>2, KindsOfSteps DEF SoundInv, DriverInv
  <1>4. CASE StepLoads
    <2>1. PICK b, m, n : LoadsEffect(b, m, n) /\ n \in nets
      BY <1>1, <1>3, <1>4, LoadsFacts
    <2> QED
      BY <1>1, <1>3, <2>1, InsertRing, InsertSound
  <1>5. CASE StepDriver
    <2>1. PICK b, m, n : DriverEffect(b, m, n) /\ n \in nets
      BY <1>1, <1>3, <1>5, DriverStepFacts
    <2> QED
      BY <1>1, <1>3, <2>1, InsertRing, InsertSound
  <1>6. CASE StepRemove
    <2>1. PICK b : RemoveEffect(b)
      BY <1>1, <1>3, <1>6, RemoveFacts
    <2> QED
      BY <1>1, <1>3, <2>1, RemoveRing, RemoveSound
  <1>7. CASE StepSplit
    <2>1. PICK i, loads, in, copy, net : SplitCells(i, loads, in, copy, net)
      BY <1>1, <1>3, <1>7, SplitCellFacts
    <2> QED
      BY <1>1, <1>3, <2>1, SplitRing, SplitSound
  <1>8. CASE StepQuiet
    BY <1>3, <1>8 DEF StepQuiet, RingParts, Entry, NetsParts, CellsParts
  <1> QED
    BY <1>3, <1>4, <1>5, <1>6, <1>7, <1>8 DEF StepKinds

\* RingFree speaks of live nets; the others are driven by nothing.
LEMMA RingFreeAnywhere ==
    ASSUME NEW d, RingFree(d), NoDanglingPin(d), d.insts \subseteq Inst,
           NEW N \in (SUBSET NetId) \ {{}}
    PROVE  \E n \in N : \A i \in d.insts :
              d.kind[i] \in {"buf", "inv"} /\ d.conn[Out(i)] = n => d.conn[In(i)] \notin N
  <1>1. /\ \A i \in d.insts : /\ d.conn[Out(i)] \in d.nets \cup {NoNet}
                            /\ d.conn[In(i)] \in d.nets \cup {NoNet}
        /\ NoNet \notin N
    BY TermFacts, NetlistAssumption DEF NoDanglingPin
  <1>2. CASE N \cap d.nets = {}
    BY <1>1, <1>2
  <1>3. CASE N \cap d.nets # {}
    <2>1. N \cap d.nets \in (SUBSET d.nets) \ {{}}
      BY <1>3
    <2>2. PICK n \in N \cap d.nets : \A i \in Repeater(d) :
             d.conn[Out(i)] = n => d.conn[In(i)] \notin N \cap d.nets
      BY <2>1 DEF RingFree
    <2>3. \A i \in d.insts :
             d.kind[i] \in {"buf", "inv"} /\ d.conn[Out(i)] = n => d.conn[In(i)] \notin N
      BY <1>1, <2>2 DEF Repeater
    <2> QED
      BY <2>2, <2>3
  <1> QED
    BY <1>2, <1>3

LEMMA PartsOfSound ==
    ASSUME nets \subseteq NetId
    PROVE  /\ RingParts => RingFree(Netlist)
           /\ NetsDriven(Netlist) <=> NetsParts
           /\ CellsConnected(Netlist) <=> CellsParts
  <1>1. /\ Netlist.insts = insts /\ Netlist.kind = kind /\ Netlist.nets = nets
        /\ Netlist.conn = conn
    BY DEF Netlist
  <1>2. RingParts => RingFree(Netlist)
    BY <1>1 DEF RingFree, Repeater, RingParts, Entry
  <1>3. /\ NetsDriven(Netlist) <=> NetsParts
        /\ CellsConnected(Netlist) <=> CellsParts
    BY <1>1 DEF NetsDriven, NetsParts, CellsConnected, CellsParts
  <1> QED
    BY <1>2, <1>3

LEMMA SoundInit == Init => SoundInv
  <1> SUFFICES ASSUME Init PROVE SoundInv
    OBVIOUS
  <1>1. /\ insts = design.insts /\ kind = design.kind /\ nets = design.nets
        /\ conn = design.conn /\ design \in Designs
    BY DEF Init, InitNetlist
  <1>2. ASSUME RingFree(design) PROVE RingParts
    <2>1. NoDanglingPin(design) /\ design.insts \subseteq Inst
      BY <1>1, DesignAssumption DEF DesignType
    <2> QED
      BY <1>1, <1>2, <2>1, RingFreeAnywhere DEF RingParts, Entry
  <1>3. Sound(design) => NetsParts /\ CellsParts
    BY <1>1 DEF Sound, NetsDriven, NetsParts, CellsConnected, CellsParts
  <1> QED
    BY <1>2, <1>3, DriverInit DEF SoundInv

LEMMA SoundInvariant == Spec => []SoundInv
  BY SoundInit, SoundNext, PTL DEF Spec

LEMMA StaysSound == SoundInv => (Sound(design) /\ hasMaster => Sound(Netlist))
  <1>1. SoundInv => nets \subseteq NetId
    BY DEF SoundInv, DriverInv, LogicInv, TypeInv, TypeOK, NetlistTypeOK
  <1> QED
    BY <1>1, PartsOfDrivers, PartsOfSound DEF SoundInv, DriverInv, Sound

\* With a master for the buffer cell, commands leave a sound netlist sound: one driver on
\* every net, every buffer, inverter and tie cell connected, no feedthrough, no ring.
THEOREM SoundAlways == Spec => [](Sound(design) /\ hasMaster => Sound(Netlist))
  BY StaysSound, SoundInvariant, PTL


-----------------------------------------------------------------------------
(***************************************************************************)
(* Output ports and gate inputs.                                           *)
(***************************************************************************)
LEMMA SinkPins ==
    ASSUME TypeOK, LogicParts, NEW p \in SinkOf(design)
    PROVE  /\ p \in Pin
           /\ \A i \in Inst : i \notin insts \/ kind[i] # "gate" => p \notin Terms(i)
           /\ p \in BTerm => p \in OutPort
  <1>0. insts \subseteq Inst
    BY DEF TypeOK, NetlistTypeOK
  <1>1. CASE p \in OutPort
    BY <1>1, TermFacts DEF Terms
  <1>2. CASE p \notin OutPort
    <2>1. PICK g \in design.insts : design.kind[g] = "gate" /\ p \in {In(g), In2(g)}
      BY <1>2 DEF SinkOf
    <2>2. g \in insts /\ g \in Inst /\ kind[g] = "gate"
      BY <1>0, <2>1 DEF LogicParts
    <2> QED
      BY <2>1, <2>2, TermFacts DEF Terms
  <1> QED
    BY <1>1, <1>2

LEMMA SinkStep ==
    ASSUME SoundInv, [Next]_vars, WellDriven(design), RingFree(design),
           NEW p \in SinkOf(design), conn[p] # NoNet, conn'[p] = NoNet
    PROVE  p \in OutPort /\ cmd = "repair_clock_inverters"
  <1>1. /\ LogicInv /\ TypeOK /\ LogicParts /\ DriverParts /\ RingParts /\ StepKinds
        /\ nets \subseteq NetId /\ NoNet \notin NetId
    BY KindsOfSteps, NetlistAssumption
    DEF SoundInv, DriverInv, LogicInv, TypeInv, TypeOK, NetlistTypeOK
  <1>2. /\ p \in Pin
        /\ \A i \in Inst : i \notin insts \/ kind[i] # "gate" => p \notin Terms(i)
        /\ p \in BTerm => p \in OutPort
    BY <1>1, SinkPins
  <1>3. CASE StepLoads \/ StepDriver
    <2>1. PICK b, m, n : LoadsEffect(b, m, n) \/ DriverEffect(b, m, n)
      BY <1>1, <1>3, LoadsFacts, DriverStepFacts
    <2>2. b \in Inst \ insts /\ m \in NetId
      BY <2>1 DEF LoadsEffect, DriverEffect
    <2>3. conn'[p] = conn[p] \/ conn'[p] = m
      BY <1>2, <2>1, <2>2 DEF LoadsEffect, DriverEffect
    <2> QED
      BY <1>1, <2>2, <2>3
  <1>4. CASE StepRemove
    <2>1. PICK b : RemoveEffect(b)
      BY <1>1, <1>4, RemoveFacts
    <2>2. b \in insts /\ b \in Inst /\ kind[b] = "buf" /\ conn[Out(b)] \in NetId
          /\ conn[In(b)] # NoNet
      BY <1>1, <2>1 DEF RemoveEffect
    <2>3. conn[In(b)] # conn[Out(b)]
      BY <1>1, <2>2, NoLoop
    <2>4. p \in Pin \ Terms(b)
      BY <1>2, <2>2
    <2> QED
      BY <2>1, <2>2, <2>3, <2>4 DEF RemoveEffect
  <1>5. CASE StepSplit
    <2>1. PICK i, loads, in, copy, net : SplitCells(i, loads, in, copy, net)
      BY <1>1, <1>5, SplitCellFacts
    <2>2. /\ i \in Inst /\ i \in insts /\ kind[i] # "gate"
          /\ \A l \in loads : copy[l] \in Inst \ insts /\ net[l] \in NetId
      BY <2>1 DEF SplitCells, SplitEffect
    <2>3. p \notin Terms(i) /\ \A l \in loads : p # Out(copy[l]) /\ p # In(copy[l])
      BY <1>2, <2>2 DEF Terms
    <2>4. p \notin loads
      BY <1>1, <2>1, <2>2, <2>3 DEF SplitCells, SplitEffect
    <2>5. conn[p] = conn[Out(i)]
      BY <1>2, <2>1, <2>3, <2>4 DEF SplitCells, SplitEffect
    <2>6. p \in BTerm /\ cmd = "repair_clock_inverters"
      BY <1>2, <2>1, <2>3, <2>4, <2>5 DEF SplitCells, Terms
    <2> QED
      BY <1>2, <2>6
  <1>6. CASE StepQuiet
    BY <1>6 DEF StepQuiet
  <1> QED
    BY <1>1, <1>3, <1>4, <1>5, <1>6 DEF StepKinds

-----------------------------------------------------------------------------
(***************************************************************************)
(* Equivalence.  In a sound netlist whose cells agree with its signals,    *)
(* tracing a net back through its drivers gives the signal of the net: it  *)
(* comes to an end, and no cell on the way contradicts it.                 *)
(***************************************************************************)
DriversOf(d, n) == {q \in DriverPin : d.conn[q] = n}

TracesOnce(d, f) ==
    [n \in d.nets |-> IF DriversOf(d, n) = {} THEN <<"none", TRUE>>
                      ELSE Output(d, CHOOSE q \in DriversOf(d, n) : TRUE, f)]

\* What the recursive function Traced(d) is, if there is one.
LEMMA TracedEquation ==
    ASSUME NEW d, NEW g, g = TracesOnce(d, g)
    PROVE  Traced(d) = TracesOnce(d, Traced(d))
  <1> DEFINE Is(f) == f = [n \in d.nets |->
                             LET D == {q \in DriverPin : d.conn[q] = n}
                             IN IF D = {} THEN <<"none", TRUE>>
                                ELSE Output(d, CHOOSE q \in D : TRUE, f)]
  <1>1. Traced(d) = CHOOSE f : Is(f)
    BY DEF Traced
  <1>2. Is(g)
    BY DEF TracesOnce, DriversOf
  <1> HIDE DEF Is
  <1>3. Is(CHOOSE f : Is(f))
    BY <1>2
  <1>4. Is(Traced(d))
    BY <1>1, <1>3
  <1> QED
    BY <1>4 DEF Is, TracesOnce, DriversOf

\* A cell puts the signal of its net there.
LEMMA OutputIsSig ==
    ASSUME NEW d \in DesignType, Sound(d), SourcesOK(d), RepeatersOK(d),
           NEW q \in DriverPin, d.conn[q] \in d.nets,
           NEW f, \A i \in d.insts : q = Out(i) /\ d.kind[i] \in {"buf", "inv"} =>
                     f[d.conn[In(i)]] = d.sig[d.conn[In(i)]],
           \A i \in Inst \ d.insts : d.conn[Out(i)] = NoNet
    PROVE  Output(d, q, f) = d.sig[d.conn[q]]
  <1>1. d.nets \subseteq NetId /\ NoNet \notin NetId
    BY NetlistAssumption DEF DesignType
  <1>2. CASE q \in InPort
    BY <1>1, <1>2 DEF Output, SourcesOK
  <1>3. CASE q \notin InPort
    <2>1. PICK i \in Inst : q = Out(i) /\ q[1] = i
      BY <1>3, PinFacts DEF DriverPin
    <2>2. i \in d.insts /\ d.conn[Out(i)] # NoNet /\ d.kind[i] \in Kinds
      BY <1>1, <2>1 DEF DesignType
    <2>3. CASE d.kind[i] \in {"gate", "tie"}
      BY <1>3, <2>1, <2>2, <2>3 DEF Output, SourcesOK
    <2>4. CASE d.kind[i] \in {"buf", "inv"}
      <3>1. d.conn[In(i)] # NoNet
        BY <2>2, <2>4 DEF Sound, CellsConnected
      <3>2. f[d.conn[In(i)]] = d.sig[d.conn[In(i)]]
        BY <2>1, <2>2, <2>4
      <3> QED
        BY <1>3, <2>1, <2>2, <2>4, <3>1, <3>2 DEF Output, RepeatersOK
    <2> QED
      BY <2>2, <2>3, <2>4 DEF Kinds
  <1> QED
    BY <1>2, <1>3

\* Of the nets where a trace differs from the signals, one is driven by no repeater from
\* another of them; whatever drives it makes the two agree.
LEMMA TracedIsSig ==
    ASSUME NEW d \in DesignType, Sound(d), SourcesOK(d), RepeatersOK(d), NoDanglingPin(d)
    PROVE  \A n \in d.nets : Traced(d)[n] = d.sig[n]
  <1>1. /\ d.insts \subseteq Inst /\ d.nets \subseteq NetId /\ NoNet \notin NetId
        /\ \A i \in d.insts : d.conn[In(i)] \in d.nets \cup {NoNet}
        /\ \A i \in Inst \ d.insts : d.conn[Out(i)] = NoNet
    BY TermFacts, NetlistAssumption DEF DesignType, NoDanglingPin, Out
  <1>2. \A i \in d.insts : d.kind[i] \in {"buf", "inv"} => d.conn[In(i)] \in d.nets
    BY <1>1 DEF Sound, CellsConnected
  <1>3. ASSUME NEW n \in d.nets
        PROVE  /\ DriversOf(d, n) # {}
               /\ (CHOOSE q \in DriversOf(d, n) : TRUE) \in DriversOf(d, n)
    <2>1. DriversOf(d, n) # {}
      BY DEF Sound, NetsDriven, DriversOf
    <2> QED
      BY <2>1
  <1> DEFINE Driver(n) == CHOOSE q \in DriversOf(d, n) : TRUE
             g == [n \in d.nets |-> d.sig[n]]
             f == Traced(d)
  <1>4. \A n \in d.nets : Driver(n) \in DriverPin /\ d.conn[Driver(n)] = n
    BY <1>3 DEF DriversOf
  <1>5. \A n \in d.nets : TracesOnce(d, f)[n] = Output(d, Driver(n), f)
    BY <1>3 DEF TracesOnce
  <1>6. \A n \in d.nets : TracesOnce(d, g)[n] = Output(d, Driver(n), g)
    BY <1>3 DEF TracesOnce
  <1> HIDE DEF Driver, f
  <1>7. g = TracesOnce(d, g)
    <2>1. \A i \in d.insts : d.kind[i] \in {"buf", "inv"} =>
             g[d.conn[In(i)]] = d.sig[d.conn[In(i)]]
      BY <1>2
    <2>2. \A n \in d.nets : g[n] = TracesOnce(d, g)[n]
      <3> HIDE DEF g
      <3>1. \A n \in d.nets : Output(d, Driver(n), g) = d.sig[n]
        BY <1>1, <1>4, <2>1, OutputIsSig
      <3>2. \A n \in d.nets : g[n] = d.sig[n]
        BY DEF g
      <3> QED
        BY <1>6, <3>1, <3>2
    <2> QED
      BY <2>2 DEF TracesOnce
  <1>8. f = TracesOnce(d, f)
    BY <1>7, TracedEquation DEF f
  <1> DEFINE D == {n \in d.nets : f[n] # d.sig[n]}
  <1> SUFFICES ASSUME D # {} PROVE FALSE
    BY DEF f
  <1>9. D \in (SUBSET d.nets) \ {{}}
    OBVIOUS
  <1>10. PICK n \in D : \A i \in Repeater(d) : d.conn[Out(i)] = n => d.conn[In(i)] \notin D
    BY <1>9 DEF Sound, RingFree
  <1>11. n \in d.nets /\ f[n] # d.sig[n]
    OBVIOUS
  <1>12. \A i \in d.insts : Driver(n) = Out(i) /\ d.kind[i] \in {"buf", "inv"} =>
            f[d.conn[In(i)]] = d.sig[d.conn[In(i)]]
    BY <1>2, <1>4, <1>10, <1>11 DEF Repeater
  <1>13. Output(d, Driver(n), f) = d.sig[n]
    BY <1>1, <1>4, <1>11, <1>12, OutputIsSig
  <1> QED
    BY <1>5, <1>8, <1>11, <1>13

\* With a master for the buffer cell, a sound netlist stays equivalent to the one that was
\* read: what the cells that are there now make of the sources is, at every sink, what
\* the cells that were read made of them.
THEOREM NetlistsStayEquivalent == Spec => []Equivalent
  <1>1. SoundInv => Equivalent
    <2> SUFFICES ASSUME SoundInv, Sound(design), hasMaster,
                        NEW p \in SinkOf(design), conn[p] # NoNet
                 PROVE  /\ design.conn[p] # NoNet
                        /\ Traced(Netlist)[conn[p]] = Traced(design)[design.conn[p]]
      BY DEF Equivalent
    <2>1. TypeOK /\ LogicParts /\ LogicPreserved /\ Sound(Netlist)
      BY StaysSound, PartsOfLogic DEF SoundInv, DriverInv, LogicInv, TypeInv
    <2>2. Netlist \in DesignType /\ Netlist.nets = nets /\ Netlist.sig = sig
      BY <2>1 DEF Netlist, DesignType, TypeOK, NetlistTypeOK
    <2>3. /\ design \in DesignType
          /\ SourcesOK(design) /\ RepeatersOK(design) /\ NoDanglingPin(design)
      BY <2>1, DesignAssumption DEF TypeOK, NetlistTypeOK
    <2>4. p \in Pin /\ conn[p] \in nets
      BY <2>1, SinkPins DEF LogicParts
    <2>5. design.conn[p] # NoNet /\ sig[conn[p]] = design.sig[design.conn[p]]
      BY <2>1 DEF LogicParts
    <2>6. design.conn[p] \in design.nets
      BY <2>3, <2>4, <2>5 DEF NoDanglingPin
    <2>7. Traced(Netlist)[conn[p]] = sig[conn[p]]
      BY <2>1, <2>2, <2>4, TracedIsSig DEF LogicPreserved
    <2>8. Traced(design)[design.conn[p]] = design.sig[design.conn[p]]
      BY <2>3, <2>6, TracedIsSig
    <2> QED
      BY <2>5, <2>7, <2>8
  <1> QED
    BY <1>1, SoundInvariant, PTL

-----------------------------------------------------------------------------
(***************************************************************************)
(* The turns of the loops: what they never touch.                          *)
(***************************************************************************)
Turn ==
    /\ alive /\ cmd' = cmd /\ todo' \subseteq todo /\ UNCHANGED cacheVars
    /\ \/ nets \subseteq nets'
       \/ cmd \in {"remove_buffers", "repair_tie_fanout", "repair_clock_inverters"}

LEMMA SkipTurn == ASSUME NEW x, Skip(x), alive PROVE Turn /\ alive' = alive
  BY DEF Skip, Visited, netVars, Turn

LEMMA InsertTurn ==
    ASSUME NEW b \in FreeInst, NEW m \in FreeNet, Insert(b, m)
    PROVE  Turn /\ alive' = alive
  <1>1. \A n, c : InsertBuffer(b, m, n, c) => nets \subseteq nets'
    BY DEF InsertBuffer, Edit
  <1>2. \A p \in todo : BufferInput(p, b, m) \/ BufferOutput(p, b, m) => Turn /\ alive' = alive
    BY <1>1 DEF BufferInput, BufferOutput, Visited, Running, Turn
  <1>3. \A n, p : alive /\ MakeRepeater(n, p, b, m) => Turn /\ alive' = alive
    BY <1>1 DEF MakeRepeater, Turn
  <1>4. \A p \in todo : RepairDesignNet(p, b, m) \/ RepairNet(p, b, m) => Turn /\ alive' = alive
    BY <1>3 DEF RepairDesignNet, RepairsDriver, Running, RepairNet, RepairsNet
  <1>5. \A p \in Drivers : MakeHoldDelay(p, b, m) => Turn /\ alive' = alive
    BY <1>1 DEF MakeHoldDelay, DelaysHold, Running, Turn
  <1> QED
    BY <1>2, <1>4, <1>5 DEF Insert

LEMMA VisitTurn == ASSUME Visit PROVE Turn /\ alive' = alive
  <1>1. \A x \in todo : RemoveBuffer(x) \/ RepairTie(x) \/ CloneClkInverter(x)
                        => Turn /\ alive' = alive
    BY DEF RemoveBuffer, RepairTie, CloneClkInverter, Visited, Running, Turn
  <1>2. \A x \in todo : \/ KeepBuffer(x) \/ KeepClkInverter(x) \/ SkipInput(x) \/ SkipOutput(x)
                        \/ EndRepairDesignNet(x) \/ SkipDriver(x) \/ EndRepairNet(x)
                        => Turn /\ alive' = alive
    BY SkipTurn
    DEF KeepBuffer, KeepClkInverter, SkipInput, SkipOutput, EndRepairDesignNet, SkipDriver,
        EndRepairNet, RepairsNet, Running
  <1>3. \A x \in todo : \A t : ResizeDriver(x, t) => Turn /\ alive' = alive
    BY DEF ResizeDriver, Running, Turn
  <1> QED
    BY <1>1, <1>2, <1>3 DEF Visit

LEMMA FailTurn == ASSUME Fail PROVE Turn
  <1>1. \A x, m : BufferInputFails(x, m) \/ BufferOutputFails(x, m) => Turn
    BY DEF BufferInputFails, BufferOutputFails, LeakNet, Edit, Visited, Running, Turn
  <1>2. alive /\ Die => Turn
    BY DEF Die, netVars, cmdVars, Turn
  <1>3. \A x : alive /\ Undefined(x) => Turn
    BY DEF Undefined, netVars, Turn
  <1>4. \A x : \/ RepairDesignNetFails(x) \/ MakeHoldDelayFails(x) \/ UnconnectedBuffer(x)
               \/ UnconnectedTie(x) \/ RepairNetFails(x) \/ RepairStaleDriver(x)
               => alive /\ Die
    BY DEF RepairDesignNetFails, RepairsDriver, MakeRepeaterFails, MakeHoldDelayFails,
           DelaysHold, UnconnectedBuffer, UnconnectedTie, RepairNetFails, RepairStaleDriver,
           RepairsNet, Running
  <1>5. \A x : ResizeDeletedDriver(x) \/ RepairDeletedNet(x) \/ RepairUndrivenNet(x)
               => alive /\ Undefined(x)
    BY DEF ResizeDeletedDriver, RepairDeletedNet, RepairUndrivenNet, RepairsNet, Running
  <1> QED
    BY <1>1, <1>2, <1>3, <1>4, <1>5 DEF Fail

\* A step begins a command, is a turn of its loop, ends it, or does nothing to either.
Between ==
    /\ UNCHANGED <<insts, kind, nets, conn, alive, cmd, todo, inserted>>
    /\ UNCHANGED cacheVars

LEMMA StepsOfLoop ==
    ASSUME [Next]_vars
    PROVE  \/ Start
           \/ \E b \in FreeInst, m \in FreeNet : Insert(b, m) /\ Turn /\ alive' = alive
           \/ Visit /\ Turn /\ alive' = alive
           \/ Fail /\ Turn
           \/ Finish
           \/ Between
  <1>1. CASE \/ (\E a \in AreaLimits : SetMaxUtilization(a))
             \/ ReportDesignArea \/ (\E n \in nets : QueryDrivers(n)) \/ UNCHANGED vars
    BY <1>1
    DEF SetMaxUtilization, ReportDesignArea, QueryDrivers, FillDrivers, vars, netVars, cmdVars,
        Between
  <1> QED
    BY <1>1, InsertTurn, VisitTurn, FailTurn DEF Next

-----------------------------------------------------------------------------
(***************************************************************************)
(* The promise to whoever uses the netlist.  A step carries every sink to  *)
(* a net of the same signal or cuts it off (EveryStepLogic), and SinkStep  *)
(* tells which ones it may cut off: read through Sees, the step is a step  *)
(* of NetlistPromise.                                                      *)
(***************************************************************************)
LEMMA SeesType ==
    ASSUME TypeOK, LogicParts
    PROVE  Sees \in [SinkOf(design) -> Signal \cup {NoNet}] /\ DOMAIN Sees = SinkOf(design)
  <1>1. \A p \in SinkOf(design) :
           (IF conn[p] = NoNet THEN NoNet ELSE sig[conn[p]]) \in Signal \cup {NoNet}
    BY SinkPins DEF TypeOK, NetlistTypeOK
  <1> QED
    BY <1>1 DEF Sees

LEMMA PromiseStart == Init => Promise!PromiseInit
  <1> SUFFICES ASSUME Init PROVE Promise!PromiseInit
    OBVIOUS
  <1>1. TypeOK /\ LogicParts /\ cmd = "idle"
    BY TypeInit, LogicInit DEF TypeInv, Init
  <1>2. \A p \in SinkOf(design) : p \in Pin
    BY <1>1, SinkPins
  <1>3. (WellDriven(design) /\ RingFree(design)) \in BOOLEAN
    BY DEF WellDriven, RingFree
  <1> QED
    BY <1>1, <1>2, <1>3, SeesType DEF Promise!PromiseInit

LEMMA PromiseTurn == ASSUME [Next]_vars PROVE Promise!Turn
  <1>1. design' = design
    BY DesignStays
  <1>2. cmd = "idle" \/ cmd' \in {"idle", cmd}
    <2>1. CASE Start
      BY <2>1
      DEF Start, Begin, StartRemoveBuffers, StartBufferInputs, StartBufferOutputs,
          StartRepairTies, StartRepairClkInverters, StartRepairHold, StartRepairDesign,
          StartRepairClkNets, StartResize, StartRepairNet
    <2> QED
      BY <2>1, StepsOfLoop DEF Turn, Finish, Between
  <1>3. UNCHANGED (WellDriven(design) /\ RingFree(design))
    BY <1>1
  <1> QED
    BY <1>2, <1>3 DEF Promise!Turn

\* A sink goes on to see what it saw, or is cut off by a step that may do that.
LEMMA PromiseKept ==
    ASSUME SoundInv, [Next]_vars, NEW p \in SinkOf(design)
    PROVE  \/ Sees'[p] = Sees[p]
           \/ Sees'[p] = NoNet /\ Promise!MayLose(p)
  <1>1. design' = design /\ Carried(p)
    BY DesignStays, EveryStepLogic DEF LogicStep, SoundInv, DriverInv
  <1>2. /\ Sees[p]  = IF conn[p] = NoNet THEN NoNet ELSE sig[conn[p]]
        /\ Sees'[p] = IF conn'[p] = NoNet THEN NoNet ELSE sig'[conn'[p]]
    BY <1>1 DEF Sees
  <1>3. CASE conn[p] # NoNet /\ conn'[p] = NoNet
    <2>1. WellDriven(design) /\ RingFree(design) =>
             p \in OutPort /\ cmd = "repair_clock_inverters"
      BY <1>3, SinkStep
    <2> QED
      BY <1>2, <1>3, <2>1 DEF Promise!MayLose
  <1> QED
    BY <1>1, <1>2, <1>3 DEF Carried

LEMMA PromiseStep == SoundInv /\ [Next]_vars => Promise!PromiseNext
  <1> SUFFICES ASSUME SoundInv, [Next]_vars PROVE Promise!PromiseNext
    OBVIOUS
  <1>1. /\ DOMAIN Sees = SinkOf(design) /\ design' = design
        /\ TypeOK /\ LogicParts /\ TypeOK'
    BY LogicNext, DesignStays, SeesType DEF SoundInv, DriverInv, LogicInv, TypeInv
  <1>2. Sees' \in [DOMAIN Sees -> Signal \cup {NoNet}]
    <2>1. SinkOf(design)' = SinkOf(design)
      BY <1>1 DEF SinkOf
    <2>2. \A p \in SinkOf(design) : p \in Pin
      BY <1>1, SinkPins
    <2>3. \A p \in SinkOf(design) :
             (IF conn'[p] = NoNet THEN NoNet ELSE sig'[conn'[p]]) \in Signal \cup {NoNet}
      BY <1>1, <2>2 DEF TypeOK, NetlistTypeOK
    <2> QED
      BY <1>1, <2>1, <2>3 DEF Sees
  <1>3. Promise!Kept
    BY <1>1, PromiseKept DEF Promise!Kept
  <1> QED
    BY <1>2, <1>3, PromiseTurn DEF Promise!PromiseNext

\* Every session of commands is a behaviour of NetlistPromise: whatever the netlist, the
\* signal a sink sees never changes into another one, and in a well driven netlist without
\* rings no sink is cut off but the ports repair_clock_inverters cuts off.
THEOREM ImplementsPromise == Spec => KeepsPromise
  <1>1. SoundInv /\ [Next]_vars => [Promise!PromiseNext]_(Promise!pvars)
    BY PromiseStep
  <1> QED
    BY <1>1, PromiseStart, SoundInvariant, PTL DEF Spec, KeepsPromise, Promise!PromiseSpec

-----------------------------------------------------------------------------
(***************************************************************************)
(* Why a command dies.  What its loop visits comes from a cache or from    *)
(* the live nets, so that a dangling pointer is a stale cache's.           *)
(***************************************************************************)
TodoFrom ==
    /\ cmd = "resize" => todo \subseteq level_drvrs_
    /\ cmd = "repair_clock_nets" => todo \subseteq clk_nets_
    /\ cmd = "repair_net" => todo \subseteq nets

LEMMA TodoFromNext == TodoFrom /\ [Next]_vars => TodoFrom'
  <1> SUFFICES ASSUME TodoFrom, [Next]_vars PROVE TodoFrom'
    OBVIOUS
  <1>1. CASE Start
    <2>1. CASE StartResize
      BY <2>1 DEF StartResize, Begin, TodoFrom
    <2>2. CASE StartRepairClkNets
      BY <2>2 DEF StartRepairClkNets, Begin, TodoFrom
    <2>3. CASE \E n \in nets : StartRepairNet(n)
      BY <2>3 DEF StartRepairNet, Begin, netVars, TodoFrom
    <2> QED
      BY <1>1, <2>1, <2>2, <2>3
      DEF Start, Begin, TodoFrom, StartRemoveBuffers, StartBufferInputs, StartBufferOutputs,
          StartRepairTies, StartRepairClkInverters, StartRepairHold, StartRepairDesign
  <1>2. CASE Turn
    BY <1>2 DEF Turn, cacheVars, TodoFrom
  <1>3. CASE Finish
    BY <1>3 DEF Finish, TodoFrom
  <1>4. CASE Between
    BY <1>4 DEF Between, cacheVars, TodoFrom
  <1> QED
    BY <1>1, <1>2, <1>3, <1>4, StepsOfLoop

LEMMA DeadStays == ASSUME ~alive, [Next]_vars PROVE UNCHANGED vars
  <1>1. ~Start
    BY DEF Start, Begin, StartRemoveBuffers, StartBufferInputs, StartBufferOutputs,
        StartRepairTies, StartRepairClkInverters, StartRepairHold, StartRepairDesign,
        StartRepairClkNets, StartResize, StartRepairNet
  <1>2. ~Visit /\ ~Fail /\ ~Finish /\ \A b \in FreeInst, m \in FreeNet : ~Insert(b, m)
    BY InsertTurn, VisitTurn, FailTurn DEF Turn, Finish
  <1> QED
    BY <1>1, <1>2 DEF Next, SetMaxUtilization, ReportDesignArea, QueryDrivers

CrashInv == SoundInv /\ DriverCacheOK /\ TodoFrom

\* A step that ends the process.
LEMMA DeathStep ==
    ASSUME CrashInv, Fail, alive, ~alive', hasMaster, Sound(design),
           clk_nets_ \subseteq nets, level_drvrs_ \subseteq Drivers,
           \A n \in cached : \A p \in drvrs[n] \cap InPort : conn[p] = n
    PROVE  FALSE
  <1>1. /\ TodoLive /\ TypeOK /\ NetlistTypeOK /\ NetsParts /\ CellsParts
    BY DEF CrashInv, SoundInv, DriverInv, LogicInv, TypeInv, TypeOK
  <1>2. ASSUME NEW p, NEW m, BufferInputFails(p, m) \/ BufferOutputFails(p, m) PROVE FALSE
    BY <1>2 DEF BufferInputFails, BufferOutputFails, Visited
  <1>3. ASSUME NEW p, RepairDesignNetFails(p) \/ MakeHoldDelayFails(p) \/ RepairNetFails(p)
        PROVE  FALSE
    BY <1>3 DEF RepairDesignNetFails, MakeHoldDelayFails, RepairNetFails, MakeRepeaterFails
  <1>4. ASSUME NEW p \in todo, ResizeDeletedDriver(p) PROVE FALSE
    BY <1>4 DEF ResizeDeletedDriver, Running, CrashInv, TodoFrom
  <1>5. ASSUME NEW i \in todo, UnconnectedBuffer(i) \/ UnconnectedTie(i) PROVE FALSE
    BY <1>1, <1>5 DEF UnconnectedBuffer, UnconnectedTie, Running, TodoLive, CellsParts
  <1>6. ASSUME NEW n \in todo, RepairDeletedNet(n) PROVE FALSE
    BY <1>6 DEF RepairDeletedNet, RepairsNet, CrashInv, TodoFrom
  <1>7. ASSUME NEW n \in todo, RepairUndrivenNet(n) PROVE FALSE
    <2>1. n \in cached /\ n \in nets /\ drvrs[n] = {}
      BY <1>1, <1>7 DEF RepairUndrivenNet, NetlistTypeOK
    <2>2. PICK q \in DriverPin : conn[q] = n
      BY <1>1, <2>1 DEF NetsParts
    <2> QED
      BY <2>1, <2>2 DEF CrashInv, DriverCacheOK, ActualDrivers
  <1>8. ASSUME NEW n \in todo, RepairStaleDriver(n) PROVE FALSE
    <2>1. PICK p \in drvrs[n] : n \in cached /\ conn[p] # n
      BY <1>8 DEF RepairStaleDriver
    <2>2. p \in InPort
      BY <2>1 DEF CrashInv, DriverCacheOK, ActualDrivers
    <2> QED
      BY <2>1, <2>2
  <1> QED
    BY <1>2, <1>3, <1>4, <1>5, <1>6, <1>7, <1>8 DEF Fail

\* Only a failing turn ends the process, and it changes nothing else.
LEMMA DeathIsFail ==
    ASSUME [Next]_vars, alive, ~alive'
    PROVE  Fail /\ UNCHANGED netVars /\ UNCHANGED cacheVars
  <1>1. ~Start /\ ~Finish /\ ~Between
    BY DEF Start, Begin, StartRemoveBuffers, StartBufferInputs, StartBufferOutputs,
        StartRepairTies, StartRepairClkInverters, StartRepairHold, StartRepairDesign,
        StartRepairClkNets, StartResize, StartRepairNet, Finish, Between
  <1>2. Fail
    BY <1>1, StepsOfLoop
  <1>3. \A x, m : ~BufferInputFails(x, m) /\ ~BufferOutputFails(x, m)
    BY DEF BufferInputFails, BufferOutputFails, Visited
  <1>4. \A x : Die \/ Undefined(x) => UNCHANGED netVars /\ UNCHANGED cacheVars
    BY DEF Die, Undefined
  <1> QED
    BY <1>2, <1>3, <1>4
    DEF Fail, RepairDesignNetFails, MakeRepeaterFails, MakeHoldDelayFails, UnconnectedBuffer,
        UnconnectedTie, RepairNetFails, RepairStaleDriver, ResizeDeletedDriver,
        RepairDeletedNet, RepairUndrivenNet

\* Whatever the netlist and whatever the session: a command that dies, or reads what is no
\* longer there, does so for one of the reasons NoCrash lists.
THEOREM CrashesExplained == Spec => []NoCrash
  <1>1. Init => NoCrash /\ TodoFrom
    BY DEF Init, NoCrash, TodoFrom
  <1>2. CrashInv /\ NoCrash /\ [Next]_vars => NoCrash'
    <2> SUFFICES ASSUME CrashInv, NoCrash, [Next]_vars PROVE NoCrash'
      OBVIOUS
    <2>1. CASE ~alive
      <3>1. UNCHANGED vars
        BY <2>1, DeadStays
      <3> QED
        BY <3>1 DEF vars, netVars, cacheVars, NoCrash, Drivers
    <2>2. CASE alive'
      BY <2>2 DEF NoCrash
    <2>3. CASE alive /\ ~alive'
      <3>1. /\ Fail /\ UNCHANGED <<netVars, cacheVars, hasMaster>>
        BY <2>3, DeathIsFail, DesignStays
      <3>2. NoCrash' \/ (/\ hasMaster /\ Sound(design)
                         /\ clk_nets_ \subseteq nets /\ level_drvrs_ \subseteq Drivers
                         /\ \A n \in cached : \A p \in drvrs[n] \cap InPort : conn[p] = n)
        BY <3>1 DEF NoCrash, netVars, cacheVars, Drivers
      <3> QED
        BY <2>3, <3>1, <3>2, DeathStep
    <2> QED
      BY <2>1, <2>2, <2>3
  <1> QED
    BY <1>1, <1>2, TodoFromNext, SoundInvariant, CacheHoldsDrivers, PTL DEF Spec, CrashInv


-----------------------------------------------------------------------------
(***************************************************************************)
(* remove_buffers: every buffer it has come past and left has a port on    *)
(* one of its nets, and keeps it there.                                    *)
(***************************************************************************)
PortOn(i) == \E p \in BTerm : conn[p] # NoNet /\ conn[p] \in {conn[In(i)], conn[Out(i)]}

KeptHavePorts ==
    alive /\ cmd = "remove_buffers" =>
       \A i \in insts \ todo : kind[i] = "buf" => PortOn(i)

LEMMA RemoveKeepsPorts ==
    ASSUME TypeInv, KeptHavePorts, NEW b \in todo, RemoveBuffer(b)
    PROVE  KeptHavePorts'
  <1> DEFINE out == conn[Out(b)]
  <1>1. /\ insts' = insts \ {b} /\ todo' = todo \ {b} /\ kind' = kind
        /\ out # NoNet /\ \A p \in BTerm : conn[p] # out
        /\ conn' = DeleteInst(b, DeleteNet(out, Reconnect(PinIterator(out) \ {Out(b)},
                                                          conn[In(b)], conn)))
        /\ alive /\ cmd = "remove_buffers"
    BY DEF RemoveBuffer, Visited, Edit, HasTopLevelPort, Running
  <1>2. b \in Inst /\ insts \subseteq Inst
    BY <1>1 DEF TypeInv, TypeOK, TodoLive, NetlistTypeOK
  <1>3. \A p \in Pin : p \notin Terms(b) /\ conn[p] # out => conn'[p] = conn[p]
    BY <1>1 DEF DeleteInst, DeleteNet, Reconnect, PinIterator, Terms
  <1>4. ASSUME NEW i \in insts' \ todo', kind'[i] = "buf" PROVE PortOn(i)'
    <2>1. i \in insts \ todo /\ i # b /\ kind[i] = "buf" /\ i \in Inst
      BY <1>1, <1>2, <1>4
    <2>2. PICK p \in BTerm, x \in {In(i), Out(i)} : conn[p] # NoNet /\ conn[p] = conn[x]
      BY <1>1, <2>1 DEF KeptHavePorts, PortOn
    <2>3. /\ p \in Pin /\ p \notin Terms(b) /\ x \in Pin /\ x \notin Terms(b)
      BY <1>2, <2>1, <2>2, TermFacts DEF Terms
    <2>4. conn'[p] = conn[p] /\ conn'[x] = conn[p]
      BY <1>1, <1>3, <2>2, <2>3
    <2> QED
      BY <2>2, <2>4 DEF PortOn
  <1> QED
    BY <1>4 DEF KeptHavePorts

LEMMA KeptNext == TypeInv /\ KeptHavePorts /\ [Next]_vars => KeptHavePorts'
  <1> SUFFICES ASSUME TypeInv, KeptHavePorts, [Next]_vars, alive', cmd' = "remove_buffers"
               PROVE  KeptHavePorts'
    BY DEF KeptHavePorts
  <1>1. CASE Start
    <2>1. StartRemoveBuffers
      BY <1>1
      DEF Start, Begin, StartRemoveBuffers, StartBufferInputs, StartBufferOutputs,
          StartRepairTies, StartRepairClkInverters, StartRepairHold, StartRepairDesign,
          StartRepairClkNets, StartResize, StartRepairNet
    <2> QED
      BY <2>1 DEF StartRemoveBuffers, Begin, netVars, KeptHavePorts
  <1>2. ASSUME NEW b \in FreeInst, NEW m \in FreeNet, Insert(b, m), Turn PROVE FALSE
    BY <1>2
    DEF Turn, Insert, BufferInput, BufferOutput, RepairDesignNet, RepairsDriver, RepairNet,
        RepairsNet, MakeHoldDelay, DelaysHold, Running
  <1>3. CASE Visit /\ Turn
    <2>1. cmd = "remove_buffers"
      BY <1>3 DEF Turn
    <2>2. PICK b \in todo : RemoveBuffer(b) \/ KeepBuffer(b)
      BY <1>3, <2>1
      DEF Visit, RepairTie, CloneClkInverter, KeepClkInverter, SkipInput, SkipOutput,
          EndRepairDesignNet, SkipDriver, ResizeDriver, EndRepairNet, RepairsNet, Running
    <2>3. CASE RemoveBuffer(b)
      BY <2>3, RemoveKeepsPorts
    <2>4. CASE KeepBuffer(b)
      <3>1. /\ UNCHANGED <<insts, kind, conn>> /\ todo' = todo \ {b} /\ alive
        BY <2>4 DEF KeepBuffer, Skip, Visited, netVars, Running
      <3>2. PortOn(b)
        BY <2>4 DEF KeepBuffer, HasTopLevelPort, PortOn
      <3> QED
        BY <2>1, <3>1, <3>2 DEF KeptHavePorts, PortOn
    <2> QED
      BY <2>2, <2>3, <2>4
  <1>4. CASE Fail /\ Turn
    <2>1. cmd = "remove_buffers" /\ alive
      BY <1>4 DEF Turn
    <2>2. \E i \in todo : UnconnectedBuffer(i)
      BY <1>4, <2>1
      DEF Fail, BufferInputFails, BufferOutputFails, RepairDesignNetFails, RepairsDriver,
          ResizeDeletedDriver, MakeHoldDelayFails, DelaysHold, UnconnectedTie, RepairNetFails,
          RepairDeletedNet, RepairUndrivenNet, RepairStaleDriver, RepairsNet, Running
    <2> QED
      BY <2>2 DEF UnconnectedBuffer, Die
  <1>5. CASE Finish
    BY <1>5 DEF Finish
  <1>6. CASE Between
    BY <1>6 DEF Between, KeptHavePorts, PortOn
  <1> QED
    BY <1>1, <1>2, <1>3, <1>4, <1>5, <1>6, StepsOfLoop

\* In whatever order the buffers are treated, remove_buffers leaves only those that have a
\* port on one of their nets.
THEOREM RemoveBuffersIsComplete == Spec => []RemoveBuffersComplete
  <1>1. Init => KeptHavePorts
    BY DEF Init, KeptHavePorts
  <1>2. KeptHavePorts => RemoveBuffersComplete
    BY DEF KeptHavePorts, RemoveBuffersComplete, PortOn
  <1> QED
    BY <1>1, <1>2, KeptNext, TypeInvariant, PTL DEF Spec

-----------------------------------------------------------------------------
(***************************************************************************)
(* The level order.  remove_buffers and repair_clock_inverters never tell  *)
(* that the drivers changed; repair_tie_fanout does not when all it did is *)
(* delete a tie cell without loads.  Every other command does.             *)
(***************************************************************************)
LevelInv ==
    /\ cmd \in Commands \cup {"idle"}
    /\ cmd = "idle" => ~inserted
    /\ level_drvrs_valid_ /\ ~inserted => level_drvrs_ = Drivers

Telling ==
    Commands \cap {"remove_buffers", "repair_clock_inverters", "repair_tie_fanout"} = {}

LEMMA LevelStart ==
    ASSUME LevelInv, Start
    PROVE  LevelInv'
  <1>1. /\ UNCHANGED netVars /\ cmd = "idle" /\ cmd' \in Commands /\ inserted' = FALSE
        /\ EnsureLevelDrvrVerticies \/ UNCHANGED cacheVars
    BY DEF Start, Begin, InitResizer, StartRemoveBuffers, StartBufferInputs,
        StartBufferOutputs, StartRepairTies, StartRepairClkInverters, StartRepairHold,
        StartRepairDesign, StartRepairClkNets, StartResize, StartRepairNet
  <1>2. Drivers' = Drivers
    BY <1>1 DEF netVars, Drivers
  <1> QED
    BY <1>1, <1>2 DEF EnsureLevelDrvrVerticies, cacheVars, LevelInv

LEMMA LevelNext ==
    ASSUME Telling
    PROVE  LevelInv /\ [Next]_vars => LevelInv'
  <1> SUFFICES ASSUME LevelInv, [Next]_vars PROVE LevelInv'
    OBVIOUS
  <1>0. cmd \notin {"remove_buffers", "repair_clock_inverters", "repair_tie_fanout"}
    BY DEF Telling, LevelInv
  <1>1. CASE Start
    BY <1>1, LevelStart
  <1>2. ASSUME NEW b \in FreeInst, NEW m \in FreeNet, Insert(b, m), Turn PROVE LevelInv'
    <2>1. inserted'
      BY <1>2
      DEF Insert, BufferInput, BufferOutput, RepairDesignNet, RepairNet, MakeRepeater,
          MakeHoldDelay, InsertBuffer
    <2>2. cmd # "idle"
      BY <1>2
      DEF Insert, BufferInput, BufferOutput, RepairDesignNet, RepairsDriver, RepairNet,
          RepairsNet, MakeHoldDelay, DelaysHold, Running
    <2> QED
      BY <1>2, <2>1, <2>2 DEF Turn, LevelInv
  \* The turns that make no cell.
  <1>3. ASSUME Turn, UNCHANGED <<insts, inserted>> PROVE LevelInv'
    BY <1>3 DEF Turn, cacheVars, LevelInv, Drivers
  <1>4. CASE Visit /\ Turn
    <2>1. \A x : ~RemoveBuffer(x) /\ ~RepairTie(x) /\ ~CloneClkInverter(x)
      BY <1>0 DEF RemoveBuffer, RepairTie, CloneClkInverter, Running
    <2>2. \A x, t : ResizeDriver(x, t) => UNCHANGED <<insts, inserted>>
      BY DEF ResizeDriver
    <2>3. \A x : Skip(x) => UNCHANGED <<insts, inserted>>
      BY DEF Skip, netVars
    <2>4. UNCHANGED <<insts, inserted>>
      BY <1>4, <2>1, <2>2, <2>3
      DEF Visit, KeepBuffer, KeepClkInverter, SkipInput, SkipOutput, EndRepairDesignNet,
          SkipDriver, EndRepairNet
    <2> QED
      BY <1>3, <1>4, <2>4
  <1>5. CASE Fail /\ Turn
    <2>1. \A x, m : BufferInputFails(x, m) \/ BufferOutputFails(x, m)
                    => UNCHANGED <<insts, inserted>>
      BY DEF BufferInputFails, BufferOutputFails, LeakNet, Edit
    <2>2. \A x : Die \/ Undefined(x) => UNCHANGED <<insts, inserted>>
      BY DEF Die, Undefined, netVars, cmdVars
    <2>3. UNCHANGED <<insts, inserted>>
      BY <1>5, <2>1, <2>2
      DEF Fail, RepairDesignNetFails, MakeRepeaterFails, MakeHoldDelayFails,
          UnconnectedBuffer, UnconnectedTie, RepairNetFails, RepairStaleDriver,
          ResizeDeletedDriver, RepairDeletedNet, RepairUndrivenNet
    <2> QED
      BY <1>3, <1>5, <2>3
  <1>6. CASE Finish
    BY <1>0, <1>6 DEF Finish, netVars, LevelInv, Drivers
  <1>7. CASE Between
    BY <1>7 DEF Between, cacheVars, LevelInv, Drivers
  <1> QED
    BY <1>1, <1>2, <1>4, <1>5, <1>6, <1>7, StepsOfLoop

\* In a session without the commands that delete drivers and do not tell, a level order
\* that passes for valid between commands holds exactly the drivers there are.
THEOREM LevelCacheIsExact == ASSUME Telling PROVE Spec => []LevelCacheExact
  <1>1. Init => LevelInv
    BY DEF Init, LevelInv
  <1>2. LevelInv => LevelCacheExact
    BY DEF LevelInv, LevelCacheExact
  <1>3. LevelInv /\ [Next]_vars => LevelInv'
    BY LevelNext
  <1> QED
    BY <1>1, <1>2, <1>3, PTL DEF Spec

-----------------------------------------------------------------------------
(***************************************************************************)
(* The area of the cells.  A buffer is counted once, a cell that is resized*)
(* is counted out and in again.                                            *)
(***************************************************************************)
AreaInv == IsFiniteSet(insts) /\ DesignAreaExact

LEMMA SizesAreNumbers ==
    TypeInv => \A i \in insts : size[i] \in Nat
  BY NetlistAssumption DEF TypeInv, TypeOK, NetlistTypeOK

\* The first command that reads the block sums the sizes up.
LEMMA AreaEnsured ==
    ASSUME AreaInv, EnsureBlock, UNCHANGED <<insts, size>>
    PROVE  AreaInv'
  BY DEF AreaInv, DesignAreaExact, FindDesignArea, EnsureBlock

LEMMA AreaStart ==
    ASSUME TypeInv, AreaInv, Start
    PROVE  AreaInv'
  <1>1. UNCHANGED <<insts, size>> /\ EnsureBlock
    BY DEF Start, Begin, InitResizer, StartRemoveBuffers, StartBufferInputs,
        StartBufferOutputs, StartRepairTies, StartRepairClkInverters, StartRepairHold,
        StartRepairDesign, StartRepairClkNets, StartResize, StartRepairNet, netVars
  <1> QED
    BY <1>1, AreaEnsured

LEMMA AreaInsert ==
    ASSUME TypeInv, AreaInv, NEW b, NEW m, NEW n, NEW c, InsertBuffer(b, m, n, c)
    PROVE  AreaInv'
  <1>1. /\ b \in Inst \ insts /\ insts' = insts \cup {b}
        /\ size' = [size EXCEPT ![b] = BufferArea]
        /\ design_area_' = design_area_ + BufferArea /\ block_' = block_
        /\ size \in [Inst -> Sizes] /\ insts \subseteq Inst /\ BufferArea \in Nat
    BY NetlistAssumption DEF InsertBuffer, Edit, FreeInst, TypeInv, TypeOK, NetlistTypeOK
  <1>2. size'[b] = BufferArea /\ \A i \in insts : size'[i] = size[i] /\ size[i] \in Nat
    BY <1>1, SizesAreNumbers
  <1>3. IsFiniteSet(insts) /\ IsFiniteSet(insts')
    BY <1>1, FS_AddElement DEF AreaInv
  <1>4. SumFunctionOnSet(size', insts) = SumFunctionOnSet(size, insts)
    BY <1>2, <1>3, SumSame
  <1>5. SumFunctionOnSet(size', insts \cup {b}) = SumFunctionOnSet(size', insts) + size'[b]
    <2>1. \A i \in insts \cup {b} : size'[i] \in Nat
      BY <1>1, <1>2
    <2> QED
      BY <1>1, <1>3, <2>1, SumAdd
  <1>6. FindDesignArea' = FindDesignArea + BufferArea
    BY <1>1, <1>2, <1>4, <1>5, Zenon DEF FindDesignArea
  <1>7. block_' => design_area_' = FindDesignArea'
    BY <1>1, <1>6 DEF AreaInv, DesignAreaExact
  <1> QED
    BY <1>1, <1>3, <1>7 DEF AreaInv, DesignAreaExact

LEMMA AreaResize ==
    ASSUME TypeInv, AreaInv, NEW p \in todo, NEW s \in Sizes, ResizeDriver(p, s)
    PROVE  AreaInv'
  <1>1. PICK i \in insts : p = Out(i)
    BY DEF ResizeDriver, Resizes, Drivers
  <1>2. /\ p[1] = i
        /\ size' = [size EXCEPT ![i] = s]
        /\ design_area_' = design_area_ - size[i] + s
        /\ UNCHANGED <<insts, block_>>
        /\ size \in [Inst -> Sizes] /\ insts \subseteq Inst /\ s \in Nat
    BY <1>1, NetlistAssumption DEF ResizeDriver, Out, TypeInv, TypeOK, NetlistTypeOK
  <1>3. size'[i] = s /\ \A j \in insts \ {i} : size'[j] = size[j]
    BY <1>2
  <1>4. \A j \in insts : size[j] \in Nat /\ size'[j] \in Nat
    BY <1>2, <1>3, SizesAreNumbers
  <1>5. SumFunctionOnSet(size', insts) = SumFunctionOnSet(size, insts) - size[i] + size'[i]
    BY <1>3, <1>4, SumChange DEF AreaInv
  <1>6. FindDesignArea' = FindDesignArea - size[i] + s
    BY <1>2, <1>3, <1>5, Zenon DEF FindDesignArea
  <1>7. block_' => design_area_' = FindDesignArea'
    BY <1>2, <1>6 DEF AreaInv, DesignAreaExact
  <1> QED
    BY <1>2, <1>7 DEF AreaInv, DesignAreaExact

\* The commands that make or delete cells without counting them are those that do not
\* tell that the drivers changed.
LEMMA AreaNext ==
    ASSUME Telling
    PROVE  TypeInv /\ LevelInv /\ AreaInv /\ [Next]_vars => AreaInv'
  <1> SUFFICES ASSUME TypeInv, LevelInv, AreaInv, [Next]_vars PROVE AreaInv'
    OBVIOUS
  <1>0. cmd \notin {"remove_buffers", "repair_clock_inverters", "repair_tie_fanout"}
    BY DEF Telling, LevelInv
  <1>1. CASE Start
    BY <1>1, AreaStart
  <1>2. CASE \E b \in FreeInst, m \in FreeNet : Insert(b, m)
    <2>0. PICK b \in FreeInst, m \in FreeNet : Insert(b, m)
      BY <1>2
    <2>1. \E n, c : InsertBuffer(b, m, n, c)
      <3>1. CASE \E p \in todo : BufferInput(p, b, m)
        BY <3>1, Zenon DEF BufferInput
      <3>2. CASE \E p \in todo : BufferOutput(p, b, m)
        BY <3>2, Zenon DEF BufferOutput
      <3>3. CASE \E p \in todo : RepairDesignNet(p, b, m)
        BY <3>3, Zenon DEF RepairDesignNet, MakeRepeater
      <3>4. CASE \E n \in todo : RepairNet(n, b, m)
        BY <3>4, Zenon DEF RepairNet, MakeRepeater
      <3>5. CASE \E p \in Drivers : MakeHoldDelay(p, b, m)
        BY <3>5, Zenon DEF MakeHoldDelay
      <3> QED
        BY <2>0, <3>1, <3>2, <3>3, <3>4, <3>5, Zenon DEF Insert
    <2> QED
      BY <2>1, AreaInsert
  <1>3. ASSUME UNCHANGED <<insts, size, block_, design_area_>> PROVE AreaInv'
    BY <1>3 DEF AreaInv, DesignAreaExact, FindDesignArea
  <1>4. CASE Visit
    <2>1. \A x : ~RemoveBuffer(x) /\ ~RepairTie(x) /\ ~CloneClkInverter(x)
      BY <1>0 DEF RemoveBuffer, RepairTie, CloneClkInverter, Running
    <2>2. CASE \E p \in todo, s \in Sizes : ResizeDriver(p, s)
      BY <2>2, AreaResize
    <2>3. \A x : Skip(x) => UNCHANGED <<insts, size, block_, design_area_>>
      BY DEF Skip, netVars, areaVars
    <2> QED
      BY <1>3, <1>4, <2>1, <2>2, <2>3
      DEF Visit, KeepBuffer, KeepClkInverter, SkipInput, SkipOutput, EndRepairDesignNet,
          SkipDriver, EndRepairNet
  <1>5. CASE Fail
    <2>1. \A x, m : BufferInputFails(x, m) \/ BufferOutputFails(x, m)
                    => UNCHANGED <<insts, size, block_, design_area_>>
      BY DEF BufferInputFails, BufferOutputFails, LeakNet, Edit, areaVars
    <2>2. \A x : Die \/ Undefined(x) => UNCHANGED <<insts, size, block_, design_area_>>
      BY DEF Die, Undefined, netVars, areaVars
    <2> QED
      BY <1>3, <1>5, <2>1, <2>2
      DEF Fail, RepairDesignNetFails, MakeRepeaterFails, MakeHoldDelayFails,
          UnconnectedBuffer, UnconnectedTie, RepairNetFails, RepairStaleDriver,
          ResizeDeletedDriver, RepairDeletedNet, RepairUndrivenNet
  <1>6. CASE ReportDesignArea
    BY <1>6, AreaEnsured DEF ReportDesignArea, netVars
  <1>7. CASE \/ Finish \/ (\E a \in AreaLimits : SetMaxUtilization(a))
             \/ (\E n \in nets : QueryDrivers(n)) \/ UNCHANGED vars
    BY <1>3, <1>7
    DEF Finish, SetMaxUtilization, QueryDrivers, FillDrivers, vars, netVars, areaVars
  <1> QED
    BY <1>1, <1>2, <1>4, <1>5, <1>6, <1>7 DEF Next

\* In a session without these commands the area of the design that is reported, and held
\* against the utilization limit, is that of the cells there are, at every turn.
THEOREM DesignAreaStaysExact == ASSUME Telling PROVE Spec => []DesignAreaExact
  <1>1. Init => LevelInv /\ AreaInv
    BY DesignAssumption DEF Init, InitNetlist, LevelInv, AreaInv, DesignAreaExact
  <1>2. AreaInv => DesignAreaExact
    BY DEF AreaInv
  <1>3. TypeInv /\ LevelInv /\ AreaInv /\ [Next]_vars => AreaInv'
    BY AreaNext
  <1>4. LevelInv /\ [Next]_vars => LevelInv'
    BY LevelNext
  <1> QED
    BY <1>1, <1>2, <1>3, <1>4, TypeInvariant, PTL DEF Spec

-----------------------------------------------------------------------------
(***************************************************************************)
(* Hands off.  Where a buffer may be put, by command, and that putting it  *)
(* there leaves everything on other nets as it was.                        *)
(***************************************************************************)
Allowed(n) ==
    /\ cmd \in {"buffer_inputs", "buffer_outputs", "repair_hold_violations",
                "repair_design", "repair_clock_nets", "repair_net"}
    /\ cmd \notin {"repair_clock_nets", "repair_net"} => n \notin special
    /\ cmd \in {"buffer_inputs", "repair_design"} => n \notin clk_nets_
    /\ cmd = "repair_hold_violations" => n \notin ClockReach
    /\ cmd = "buffer_outputs" => \E p \in OutPort : conn[p] = n

PutOn(b, m, n) ==
    /\ b \in Inst \ insts /\ m \in NetId \ nets /\ n \in nets
    /\ insts' = insts \cup {b} /\ nets' = nets \cup {m}
    /\ \A i \in insts : kind'[i] = kind[i] /\ size'[i] = size[i]
    /\ conn'[In(b)] \in {m, n} /\ conn'[Out(b)] \in {m, n} /\ conn'[In2(b)] = NoNet
    /\ \A p \in Pin \ Terms(b) : conn'[p] = conn[p] \/ (conn[p] = n /\ conn'[p] = m)

LEMMA BufferPut ==
    ASSUME LogicInv, NEW b, NEW m, NEW n \in nets, NEW S \in SUBSET ConnectedPins(n), NEW c,
           c \in {BufferLoads(b, m, n, S), BufferDriver(b, m, n, S)}, InsertBuffer(b, m, n, c)
    PROVE  PutOn(b, m, n)
  <1>1. /\ b \in Inst \ insts /\ m \in NetId \ nets /\ n # NoNet /\ insts \subseteq Inst
        /\ insts' = insts \cup {b} /\ nets' = nets \cup {m} /\ conn' = c
        /\ \A i \in insts : kind'[i] = kind[i] /\ size'[i] = size[i]
    BY NetlistAssumption
    DEF InsertBuffer, FreeInst, FreeNet, Edit, LogicInv, TypeInv, TypeOK, NetlistTypeOK
  <1>2. /\ In(b) \in Pin /\ Out(b) \in Pin /\ In2(b) \in Pin
        /\ In(b) # Out(b) /\ In2(b) # Out(b) /\ In2(b) # In(b) /\ conn[In2(b)] = NoNet
    BY <1>1, TermFacts DEF LogicInv, LogicParts, Terms
  <1>3. \A p \in S : p \in Pin /\ conn[p] = n
    BY DEF ConnectedPins
  <1>4. /\ conn'[In(b)] \in {m, n} /\ conn'[Out(b)] \in {m, n}
        /\ \A p \in Pin \ {In(b), Out(b)} : conn'[p] = IF p \in S THEN m ELSE conn[p]
    <2>1. CASE c = BufferLoads(b, m, n, S)
      BY <1>1, <1>2, <2>1 DEF BufferLoads, Reconnect
    <2>2. CASE c = BufferDriver(b, m, n, S)
      BY <1>1, <1>2, <2>2 DEF BufferDriver, Reconnect
    <2> QED
      BY <2>1, <2>2
  <1>5. conn'[In2(b)] = NoNet
    BY <1>1, <1>2, <1>3, <1>4
  <1>6. \A p \in Pin \ Terms(b) : conn'[p] = conn[p] \/ (conn[p] = n /\ conn'[p] = m)
    BY <1>3, <1>4 DEF Terms
  <1> QED
    BY <1>1, <1>4, <1>5, <1>6 DEF PutOn

LEMMA InsertPut ==
    ASSUME LogicInv, NEW b \in FreeInst, NEW m \in FreeNet, Insert(b, m)
    PROVE  \E n : PutOn(b, m, n) /\ Allowed(n)
  <1>0. /\ TypeOK /\ NetlistTypeOK /\ LogicParts /\ TodoLive
        /\ \A p \in Pin : conn[p] # NoNet => conn[p] \in nets
        /\ \A n : PinIterator(n) \in SUBSET ConnectedPins(n)
    BY TermFacts
    DEF LogicInv, LogicParts, TypeInv, TypeOK, PinIterator, ConnectedPins
  <1>1. ASSUME NEW n \in nets, NEW p, MakeRepeater(n, p, b, m) PROVE PutOn(b, m, n)
    <2>1. PICK S \in SUBSET (ConnectedPins(n) \ {p}) :
            InsertBuffer(b, m, n, BufferLoads(b, m, n, S))
      BY <1>1 DEF MakeRepeater
    <2>2. S \in SUBSET ConnectedPins(n)
      OBVIOUS
    <2> QED
      BY <2>1, <2>2, BufferPut
  <1>2. ASSUME NEW p \in todo, BufferInput(p, b, m)
        PROVE  PutOn(b, m, conn[p]) /\ Allowed(conn[p])
    <2>1. p \in Pin /\ conn[p] \in nets
      BY <1>0, <1>2, PinFacts DEF BufferInput, BuffersInput, Running, TodoLive
    <2>2. PutOn(b, m, conn[p])
      BY <1>0, <1>2, <2>1, BufferPut DEF BufferInput
    <2>3. Allowed(conn[p])
      BY <1>2 DEF BufferInput, BuffersInput, IsClock, Running, Allowed
    <2> QED
      BY <2>2, <2>3
  <1>3. ASSUME NEW p \in todo, BufferOutput(p, b, m)
        PROVE  PutOn(b, m, conn[p]) /\ Allowed(conn[p])
    <2>1. p \in OutPort /\ p \in Pin /\ conn[p] \in nets
      BY <1>0, <1>3, PinFacts DEF BufferOutput, BuffersOutput, Running, TodoLive
    <2>2. PutOn(b, m, conn[p])
      BY <1>0, <1>3, <2>1, BufferPut DEF BufferOutput
    <2>3. Allowed(conn[p])
      BY <1>3, <2>1 DEF BufferOutput, BuffersOutput, Running, Allowed
    <2> QED
      BY <2>2, <2>3
  <1>4. ASSUME NEW p \in todo, RepairDesignNet(p, b, m)
        PROVE  PutOn(b, m, conn[p]) /\ Allowed(conn[p])
    <2>1. p \in Pin /\ conn[p] \in nets
      BY <1>0, <1>4, PinFacts
      DEF RepairDesignNet, RepairsDriver, Running, TodoLive, NetlistTypeOK
    <2>2. PutOn(b, m, conn[p])
      BY <1>1, <1>4, <2>1 DEF RepairDesignNet
    <2>3. Allowed(conn[p])
      BY <1>4 DEF RepairDesignNet, RepairsDriver, IsClock, Running, Allowed
    <2> QED
      BY <2>2, <2>3
  <1>5. ASSUME NEW n \in todo, RepairNet(n, b, m) PROVE PutOn(b, m, n) /\ Allowed(n)
    <2>1. n \in nets /\ \E p : MakeRepeater(n, p, b, m)
      BY <1>0, <1>5 DEF RepairNet, NetlistTypeOK
    <2>2. Allowed(n)
      BY <1>5 DEF RepairNet, RepairsNet, Allowed
    <2> QED
      BY <1>1, <2>1, <2>2
  <1>6. ASSUME NEW p \in Drivers, MakeHoldDelay(p, b, m)
        PROVE  PutOn(b, m, conn[p]) /\ Allowed(conn[p])
    <2>1. p \in Pin /\ conn[p] \in nets
      BY <1>0, <1>6, PinFacts DEF Drivers, NetlistTypeOK, MakeHoldDelay, DelaysHold
    <2>2. {p} \in SUBSET ConnectedPins(conn[p])
      BY <2>1 DEF ConnectedPins
    <2>3. PutOn(b, m, conn[p])
      BY <1>6, <2>1, <2>2, BufferPut DEF MakeHoldDelay
    <2>4. Allowed(conn[p])
      BY <1>6 DEF MakeHoldDelay, DelaysHold, Running, Allowed
    <2> QED
      BY <2>3, <2>4
  <1> QED
    BY <1>2, <1>3, <1>4, <1>5, <1>6 DEF Insert

\* A buffer on one net leaves what is on other nets alone, and joins nothing to them.
LEMMA PutHandsOff ==
    ASSUME LogicInv, NEW b, NEW m, NEW n, PutOn(b, m, n), NEW C \in SUBSET nets, n \notin C,
           NEW p \in Pin, conn[p] \in C \/ conn'[p] \in C
    PROVE  conn[p] \in C /\ HandsOff(p)
  <1>1. NoNet \notin nets /\ insts \subseteq Inst /\ LogicParts
    BY NetlistAssumption DEF LogicInv, TypeInv, TypeOK, NetlistTypeOK
  <1>2. p \notin Terms(b)
    BY <1>1 DEF PutOn, LogicParts, Terms
  <1>3. conn[p] \in C /\ conn'[p] = conn[p]
    BY <1>2 DEF PutOn
  <1>4. ASSUME p \in ITerm \cap DriverPin PROVE size'[p[1]] = size[p[1]]
    <2>1. PICK i \in Inst : p = Out(i) /\ p[1] = i
      BY <1>4, PinFacts, NetlistAssumption DEF DriverPin, BTerm
    <2>2. i \in insts
      BY <1>1, <1>3, <2>1 DEF LogicParts, Terms
    <2> QED
      BY <2>1, <2>2 DEF PutOn
  <1> QED
    BY <1>3, <1>4 DEF HandsOff

\* The other steps of these commands write no terminal, and resize one area.
LEMMA OtherHandsOff ==
    ASSUME LogicInv, [Next]_vars,
           cmd \in {"resize", "buffer_inputs", "buffer_outputs", "repair_design",
                    "repair_hold_violations"},
           \A b \in FreeInst, m \in FreeNet : ~Insert(b, m)
    PROVE  /\ UNCHANGED conn
           /\ \A p \in Pin : HandsOff(p) \/ (cmd = "resize" /\ conn[p] \notin clk_nets_ \cup special)
  <1> USE DEF netVars
  <1>0. insts \subseteq Inst
    BY DEF LogicInv, TypeInv, TypeOK, NetlistTypeOK
  <1>1. ASSUME UNCHANGED <<conn, size>>
        PROVE  UNCHANGED conn /\ \A p \in Pin : HandsOff(p)
    BY <1>1 DEF HandsOff
  <1>2. CASE Start
    BY <1>2
    DEF Start, Begin, StartRemoveBuffers, StartBufferInputs, StartBufferOutputs,
        StartRepairTies, StartRepairClkInverters, StartRepairHold, StartRepairDesign,
        StartRepairClkNets, StartResize, StartRepairNet
  <1>3. CASE Visit
    <2>1. \A x : ~RemoveBuffer(x) /\ ~RepairTie(x) /\ ~CloneClkInverter(x)
      BY DEF RemoveBuffer, RepairTie, CloneClkInverter, Running
    <2>2. ASSUME NEW q \in todo, NEW t \in Sizes, ResizeDriver(q, t)
          PROVE  /\ UNCHANGED conn
                 /\ \A p \in Pin : \/ HandsOff(p)
                                   \/ cmd = "resize" /\ conn[p] \notin clk_nets_ \cup special
      <3>1. PICK i \in Inst : q = Out(i) /\ q[1] = i
        BY <1>0, <2>2, PinFacts DEF ResizeDriver, Resizes, Drivers
      <3>2. /\ conn' = conn /\ size' = [size EXCEPT ![i] = t] /\ cmd = "resize"
            /\ conn[q] \notin clk_nets_ \cup special
        BY <2>2, <3>1 DEF ResizeDriver, Resizes, IsClock, Running
      <3>3. ASSUME NEW p \in Pin, p # q PROVE HandsOff(p)
        <4>1. ASSUME p \in ITerm \cap DriverPin PROVE size'[p[1]] = size[p[1]]
          <5>1. PICK j \in Inst : p = Out(j) /\ p[1] = j
            BY <4>1, PinFacts, NetlistAssumption DEF DriverPin, BTerm
          <5>2. j # i
            BY <3>1, <3>3, <5>1
          <5>3. size \in [Inst -> Sizes]
            BY DEF LogicInv, TypeInv, TypeOK, NetlistTypeOK
          <5> QED
            BY <3>2, <5>1, <5>2, <5>3
        <4> QED
          BY <3>2, <4>1 DEF HandsOff
      <3> QED
        BY <3>2, <3>3
    <2>3. \A x : Skip(x) => UNCHANGED <<conn, size>>
      BY DEF Skip
    <2>4. CASE \E q \in todo, t \in Sizes : ResizeDriver(q, t)
      BY <2>2, <2>4
    <2>5. CASE ~\E q \in todo, t \in Sizes : ResizeDriver(q, t)
      <3>1. UNCHANGED <<conn, size>>
        BY <1>3, <2>1, <2>3, <2>5
        DEF Visit, KeepBuffer, KeepClkInverter, SkipInput, SkipOutput, EndRepairDesignNet,
            SkipDriver, EndRepairNet
      <3> QED
        BY <1>1, <3>1
    <2> QED
      BY <2>4, <2>5
  <1>4. CASE Fail
    <2>1. \A x, m : BufferInputFails(x, m) \/ BufferOutputFails(x, m)
                    => UNCHANGED <<conn, size>>
      BY DEF BufferInputFails, BufferOutputFails, LeakNet, Edit
    <2>2. \A x : Die \/ Undefined(x) => UNCHANGED <<conn, size>>
      BY DEF Die, Undefined
    <2>3. UNCHANGED <<conn, size>>
      BY <1>4, <2>1, <2>2
      DEF Fail, RepairDesignNetFails, MakeRepeaterFails, MakeHoldDelayFails,
          UnconnectedBuffer, UnconnectedTie, RepairNetFails, RepairStaleDriver,
          ResizeDeletedDriver, RepairDeletedNet, RepairUndrivenNet
    <2> QED
      BY <1>1, <2>3
  <1>5. CASE \/ Finish \/ (\E a \in AreaLimits : SetMaxUtilization(a))
             \/ ReportDesignArea \/ (\E n \in nets : QueryDrivers(n)) \/ UNCHANGED vars
    <2>1. UNCHANGED <<conn, size>>
      BY <1>5
      DEF Finish, SetMaxUtilization, ReportDesignArea, QueryDrivers, FillDrivers, vars
    <2> QED
      BY <1>1, <2>1
  <1> QED
    BY <1>2, <1>3, <1>4, <1>5 DEF Next

\* The five commands never move a terminal of a special net, join one to it or change the
\* cell that drives it.
THEOREM SpecialNetsUntouched == Spec => SpecialHandsOff
  <1> DEFINE Off == \A p \in Pin :
          /\ cmd \in {"resize", "buffer_inputs", "buffer_outputs", "repair_design",
                      "repair_hold_violations"}
          /\ conn[p] \in special \/ conn'[p] \in special
          => HandsOff(p)
  <1>1. LogicInv /\ [Next]_vars => Off
    <2> SUFFICES ASSUME LogicInv, [Next]_vars, NEW p \in Pin,
                        cmd \in {"resize", "buffer_inputs", "buffer_outputs", "repair_design",
                                 "repair_hold_violations"},
                        conn[p] \in special \/ conn'[p] \in special
                 PROVE  HandsOff(p)
      OBVIOUS
    <2>1. CASE \E b \in FreeInst, m \in FreeNet : Insert(b, m)
      <3>1. PICK b, m, n : PutOn(b, m, n) /\ Allowed(n)
        BY <2>1, InsertPut
      <3>2. n \notin special /\ special \in SUBSET nets
        BY <3>1 DEF Allowed, LogicInv, TypeInv, TypeOK, NetlistTypeOK
      <3> QED
        BY <3>1, <3>2, PutHandsOff
    <2>2. CASE \A b \in FreeInst, m \in FreeNet : ~Insert(b, m)
      BY <2>2, OtherHandsOff
    <2> QED
      BY <2>1, <2>2
  <1>2. LogicInv /\ [Next]_vars => [Off]_vars
    BY <1>1
  <1>3. SoundInv => LogicInv
    BY DEF SoundInv, DriverInv
  <1> QED
    BY <1>2, <1>3, SoundInvariant, PTL DEF Spec, SpecialHandsOff


-----------------------------------------------------------------------------
(***************************************************************************)
(* The clock nets.  Without the commands that put nets into the clock tree *)
(* no step makes a clock reach a net it did not reach, so that clk_nets_   *)
(* goes on holding every net it reaches.                                   *)
(***************************************************************************)
LEMMA ReachClosed == ClockReach \subseteq nets /\ ClockClosed(ClockReach)
  BY DEF ClockReach, ClockClosed

LEMMA ReachLeast == ASSUME NEW X \in SUBSET nets, ClockClosed(X) PROVE ClockReach \subseteq X
  BY DEF ClockReach

\* The terminals that make findClkNets see a net: a tie cell has none that count.
ClockPin(i) == IF kind[i] = "gate" THEN {In(i), In2(i)} ELSE {In(i)}
Seen(n) == \E i \in insts : kind[i] # "tie" /\ \E x \in ClockPin(i) : conn[x] = n

\* A clock port drives cells, and no clock reaches an output port.
ClockInside ==
    /\ \A p \in ClkPort : conn[p] \in nets => Seen(conn[p])
    /\ \A p \in OutPort : conn[p] \notin ClockReach

LEMMA ReachSeen ==
    ASSUME TypeOK, ClockInside
    PROVE  ClockReach \subseteq FindClkNets
  <1> DEFINE X == {n \in nets : PinIterator(n) # {}}
  <1>0. insts \subseteq Inst /\ ClkPort \subseteq InPort
    BY NetlistAssumption DEF TypeOK, NetlistTypeOK
  <1>1. \A i \in insts : In(i) \in ITerm /\ Out(i) \in ITerm /\ \A x \in ClockPin(i) : x \in ITerm
    BY <1>0, PinFacts DEF ClockPin
  <1>2. ClockClosed(X)
    BY <1>1 DEF ClockInside, Seen, ClockClosed, PinIterator
  <1>3. ClockReach \subseteq X
    BY <1>2, ReachLeast
  <1> QED
    BY <1>3 DEF FindClkNets

\* What is left of the reach after a step is all there is, if it is closed then.
LEMMA ReachShrinks ==
    ASSUME NEW X, X \subseteq nets', ClockClosed(X)'
    PROVE  ClockReach' \subseteq X
  BY DEF ClockReach

LEMMA PutReach ==
    ASSUME LogicInv, ClockInside, NEW b, NEW m, NEW n, PutOn(b, m, n), n \notin ClockReach
    PROVE  ClockReach' \subseteq ClockReach /\ ClockInside'
  <1>0. /\ NoNet \notin nets /\ insts \subseteq Inst /\ ClkPort \subseteq InPort /\ LogicParts
        /\ NoNet \notin NetId /\ nets \subseteq NetId
    BY NetlistAssumption DEF LogicInv, TypeInv, TypeOK, NetlistTypeOK
  <1>1. PICK X : X = ClockReach
    OBVIOUS
  <1>2. /\ X \subseteq nets /\ m \notin X /\ n \notin X /\ NoNet \notin X
        /\ \A p \in ClkPort : conn[p] \in nets => conn[p] \in X
        /\ \A i \in insts : kind[i] \in {"buf", "inv"} /\ conn[In(i)] \in X /\ conn[Out(i)] \in nets
                            => conn[Out(i)] \in X
    BY <1>0, <1>1, ReachClosed DEF ClockClosed, PutOn
  <1>3. \A p \in Pin \ Terms(b) : conn'[p] = conn[p] \/ (conn[p] = n /\ conn'[p] = m)
    BY DEF PutOn
  <1>4. /\ \A p \in BTerm : p \in Pin \ Terms(b)
        /\ \A i \in insts : \A p \in Terms(i) : p \in Pin \ Terms(b)
        /\ \A p \in Pin : conn[p] \in nets \cup {NoNet}
    BY <1>0, TermFacts DEF PutOn, Terms, LogicParts
  <1>5. ClockClosed(X)'
    <2>1. ASSUME NEW p \in ClkPort, conn'[p] \in nets' PROVE conn'[p] \in X
      <3>1. p \in Pin \ Terms(b) /\ conn[p] \in nets
        BY <1>0, <1>3, <1>4, <2>1, TermFacts DEF PutOn
      <3> QED
        BY <1>2, <1>3, <3>1
    <2>2. ASSUME NEW i \in insts', kind'[i] \in {"buf", "inv"}, conn'[In(i)] \in X,
                 conn'[Out(i)] \in nets'
          PROVE  conn'[Out(i)] \in X
      <3>1. i \in insts /\ kind'[i] = kind[i]
        BY <1>2, <2>2 DEF PutOn
      <3>2. In(i) \in Pin \ Terms(b) /\ Out(i) \in Pin \ Terms(b)
        BY <1>4, <3>1 DEF Terms
      <3>3. conn[In(i)] \in X /\ conn[Out(i)] \in nets
        BY <1>0, <1>2, <1>3, <1>4, <2>2, <3>2 DEF PutOn
      <3> QED
        BY <1>2, <1>3, <2>2, <3>1, <3>2, <3>3
    <2> QED
      BY <2>1, <2>2 DEF ClockClosed
  <1>6. ClockReach' \subseteq X
    BY <1>2, <1>5, ReachShrinks DEF PutOn
  <1>7. ASSUME NEW p \in OutPort PROVE conn'[p] \notin ClockReach'
    BY <1>1, <1>2, <1>3, <1>4, <1>6, TermFacts DEF ClockInside
  <1>8. ASSUME NEW p \in ClkPort, conn'[p] \in nets' PROVE Seen(conn[p])' /\ conn'[p] = conn[p]
    <2>1. p \in Pin \ Terms(b) /\ conn[p] \in nets
      BY <1>0, <1>3, <1>4, <1>8, TermFacts DEF PutOn
    <2>2. conn[p] # n /\ conn'[p] = conn[p]
      BY <1>2, <1>3, <2>1
    <2>3. PICK i \in insts : kind[i] # "tie" /\ \E x \in ClockPin(i) : conn[x] = conn[p]
      BY <2>1 DEF ClockInside, Seen
    <2>7. PICK x \in ClockPin(i) : conn[x] = conn[p]
      BY <2>3
    <2>4. x \in Pin \ Terms(b)
      BY <1>4, <2>3, <2>7 DEF ClockPin, Terms
    <2>5. conn'[x] = conn'[p]
      BY <1>3, <2>2, <2>7, <2>4
    <2>6. i \in insts' /\ kind'[i] = kind[i]
      BY DEF PutOn
    <2> QED
      BY <2>2, <2>3, <2>5, <2>6, <2>7 DEF Seen, ClockPin
  <1> QED
    BY <1>1, <1>6, <1>7, <1>8 DEF ClockInside

\* A buffer that goes joins two nets, both of which a clock reaches or neither; the net
\* of a clock port is not one of them.
LEMMA RemoveReach ==
    ASSUME LogicInv, DriverParts, ClockInside, NEW b, RemoveEffect(b)
    PROVE  ClockReach' \subseteq ClockReach /\ ClockInside'
  <1> DEFINE in == conn[In(b)] out == conn[Out(b)]
  <1>0. /\ NoNet \notin nets /\ insts \subseteq Inst /\ ClkPort \subseteq InPort /\ LogicParts
        /\ b \in insts /\ b \in Inst /\ kind[b] = "buf" /\ in \in nets /\ out \in nets
        /\ insts' = insts \ {b} /\ nets' = nets \ {out} /\ kind' = kind
    BY NetlistAssumption DEF LogicInv, TypeInv, TypeOK, NetlistTypeOK, RemoveEffect
  <1>1. PICK X, Y : X = ClockReach /\ Y = X \ {out}
    OBVIOUS
  <1>2. /\ X \subseteq nets /\ NoNet \notin X
        /\ \A p \in ClkPort : conn[p] \in nets => conn[p] \in X
        /\ \A i \in insts : kind[i] \in {"buf", "inv"} /\ conn[In(i)] \in X /\ conn[Out(i)] \in nets
                            => conn[Out(i)] \in X
    BY <1>0, <1>1, ReachClosed DEF ClockClosed
  <1>3. /\ \A p \in BTerm : p \in Pin /\ conn'[p] = conn[p] /\ conn[p] # in /\ conn[p] # out
        /\ \A p \in Pin \ Terms(b) :
             conn'[p] = IF conn[p] # out THEN conn[p] ELSE IF in = out THEN NoNet ELSE in
        /\ \A q \in DriverPin \ {Out(b)} : conn[q] # out /\ conn'[q] = conn[q]
    <2>1. \A p \in BTerm : p \in Pin \ Terms(b) /\ conn[p] # in /\ conn[p] # out
      BY <1>0, TermFacts DEF RemoveEffect, Terms
    <2> QED
      BY <2>1 DEF RemoveEffect
  <1>4. \A i \in insts : i # b => /\ Out(i) \in DriverPin \ {Out(b)}
                                  /\ \A x \in Terms(i) : x \in Pin \ Terms(b)
    BY <1>0, DriverFacts, TermFacts DEF Terms
  <1>5. ClockClosed(Y)'
    <2>1. ASSUME NEW p \in ClkPort, conn'[p] \in nets' PROVE conn'[p] \in Y
      BY <1>0, <1>1, <1>2, <1>3, <2>1 DEF BTerm
    <2>2. ASSUME NEW i \in insts', kind'[i] \in {"buf", "inv"}, conn'[In(i)] \in Y,
                 conn'[Out(i)] \in nets'
          PROVE  conn'[Out(i)] \in Y
      <3>1. /\ i \in insts /\ i # b /\ conn'[Out(i)] = conn[Out(i)] /\ conn[Out(i)] \in nets
            /\ In(i) \in Pin \ Terms(b) /\ conn[Out(i)] # out
        BY <1>0, <1>3, <1>4, <2>2 DEF Terms
      <3>2. conn[In(i)] \in X
        BY <1>0, <1>1, <1>2, <1>3, <2>2, <3>1
      <3> QED
        BY <1>0, <1>1, <1>2, <2>2, <3>1, <3>2
    <2> QED
      BY <2>1, <2>2 DEF ClockClosed
  <1>6. ClockReach' \subseteq X
    BY <1>0, <1>1, <1>2, <1>5, ReachShrinks
  <1>7. ASSUME NEW p \in OutPort PROVE conn'[p] \notin ClockReach'
    BY <1>1, <1>3, <1>6 DEF ClockInside, BTerm
  <1>8. ASSUME NEW p \in ClkPort, conn'[p] \in nets' PROVE Seen(conn[p])' /\ conn'[p] = conn[p]
    <2>1. conn'[p] = conn[p] /\ conn[p] \in nets /\ conn[p] # in /\ conn[p] # out
      BY <1>0, <1>3, <1>8 DEF BTerm
    <2>2. PICK i \in insts : kind[i] # "tie" /\ \E x \in ClockPin(i) : conn[x] = conn[p]
      BY <2>1 DEF ClockInside, Seen
    <2>3. PICK x \in ClockPin(i) : conn[x] = conn[p]
      BY <2>2
    <2>4. i # b
      BY <1>0, <2>1, <2>3 DEF ClockPin
    <2>5. conn'[x] = conn'[p]
      BY <1>3, <1>4, <2>1, <2>3, <2>4 DEF ClockPin, Terms
    <2> QED
      BY <1>0, <2>1, <2>2, <2>3, <2>4, <2>5 DEF Seen, ClockPin
  <1> QED
    BY <1>1, <1>6, <1>7, <1>8 DEF ClockInside

\* No clock reaches the net of a tie cell, and the copies are on new nets.
LEMMA SplitReach ==
    ASSUME LogicInv, DriverParts, ClockInside, NEW i, NEW loads, NEW in, NEW copy, NEW net,
           SplitCells(i, loads, in, copy, net), kind[i] = "tie"
    PROVE  ClockReach' \subseteq ClockReach /\ ClockInside'
  <1> DEFINE out == conn[Out(i)]
  <1>0. /\ NoNet \notin nets /\ insts \subseteq Inst /\ ClkPort \subseteq InPort /\ LogicParts
        /\ NoNet \notin NetId /\ i \in insts /\ i \in Inst /\ out \in nets
        /\ SplitEffect(i, loads, in, copy, net)
    BY NetlistAssumption DEF LogicInv, TypeInv, TypeOK, NetlistTypeOK, SplitCells
  <1>1. PICK X : X = ClockReach
    OBVIOUS
  <1>2. /\ X \subseteq nets /\ NoNet \notin X
        /\ \A p \in ClkPort : conn[p] \in nets => conn[p] \in X
        /\ \A j \in insts : kind[j] \in {"buf", "inv"} /\ conn[In(j)] \in X /\ conn[Out(j)] \in nets
                            => conn[Out(j)] \in X
    BY <1>0, <1>1, ReachClosed DEF ClockClosed
  <1>3. /\ \A l \in loads : net[l] \notin X /\ copy[l] \notin insts /\ copy[l] \in Inst
                            /\ kind'[copy[l]] = "tie" /\ conn[l] = out
        /\ \A j : j \in insts' <=> (j \in insts /\ j # i) \/ \E l \in loads : j = copy[l]
        /\ \A n : n \in nets' => n \in nets \/ (n \in NetId /\ n \notin nets)
        /\ \A n \in nets : n # out => n \in nets'
        /\ NoNet \notin nets'
        /\ \A j \in insts : kind'[j] = kind[j]
        /\ out \in nets /\ out # NoNet
    BY <1>0, <1>2 DEF SplitEffect, SplitCells
  \* What the terminals that stay are on.
  <1>4. \A p \in Pin \ Terms(i) :
           (\A l \in loads : p # Out(copy[l]) /\ p # In(copy[l])) =>
              conn'[p] = IF p \in loads THEN net[p] ELSE IF conn[p] = out THEN NoNet ELSE conn[p]
    BY <1>0 DEF SplitEffect
  <1>5. \A j \in insts : j # i =>
           \A x \in Terms(j) : /\ x \in Pin \ Terms(i)
                               /\ \A l \in loads : x # Out(copy[l]) /\ x # In(copy[l])
    BY <1>0, <1>3, TermFacts DEF Terms
  <1>6. \A p \in BTerm : /\ p \in Pin \ Terms(i)
                         /\ \A l \in loads : p # Out(copy[l]) /\ p # In(copy[l])
    BY <1>0, <1>3, TermFacts DEF Terms
  <1>7. \A p \in InPort : conn'[p] = conn[p] /\ conn[p] # out /\ p \in BTerm
    <2>1. ASSUME NEW p \in InPort PROVE conn[p] # out /\ p \notin loads
      BY <1>0, DriverFacts, TermFacts, <1>6 DEF SplitCells, DriverParts, BTerm, Terms
    <2> QED
      BY <1>4, <1>6, <2>1 DEF BTerm
  <1>8. out \notin X
    <2>1. ASSUME NEW j \in insts, kind[j] \in {"buf", "inv"} PROVE conn[Out(j)] # out
      BY <1>0, <1>5, <2>1, DriverFacts DEF DriverParts, Terms, SplitCells
    <2>2. ClockClosed(X \ {out})
      BY <1>2, <1>0, <1>7, <2>1 DEF ClockClosed
    <2>3. ClockReach \subseteq X \ {out}
      BY <1>2, <2>2, ReachLeast
    <2> QED
      BY <1>1, <2>3
  <1>9. X \subseteq nets'
    BY <1>2, <1>3, <1>8
  <1>10. ClockClosed(X)'
    <2>1. ASSUME NEW p \in ClkPort, conn'[p] \in nets' PROVE conn'[p] \in X
      BY <1>0, <1>2, <1>3, <1>6, <1>7, <2>1 DEF LogicParts
    <2>2. ASSUME NEW j \in insts', kind'[j] \in {"buf", "inv"}, conn'[In(j)] \in X,
                 conn'[Out(j)] \in nets'
          PROVE  conn'[Out(j)] \in X
      <3>1. j \in insts /\ j # i /\ kind[j] = kind'[j] /\ In(j) \in Terms(j) /\ Out(j) \in Terms(j)
        BY <1>3, <2>2 DEF Terms
      <3>2. conn[In(j)] \in X
        BY <1>2, <1>3, <1>4, <1>5, <2>2, <3>1
      <3>3. conn'[Out(j)] = conn[Out(j)]
        BY <1>0, <1>3, <1>4, <1>5, <2>2, <3>1, DriverFacts DEF SplitCells
      <3>4. conn[Out(j)] \in nets
        BY <1>0, <1>3, <1>5, <2>2, <3>1, <3>3 DEF LogicParts
      <3> QED
        BY <1>2, <2>2, <3>1, <3>2, <3>3, <3>4
    <2> QED
      BY <2>1, <2>2 DEF ClockClosed
  <1>11. ClockReach' \subseteq X
    BY <1>9, <1>10, ReachShrinks
  <1>12. ASSUME NEW p \in OutPort PROVE conn'[p] \notin ClockReach'
    BY <1>1, <1>2, <1>3, <1>4, <1>6, <1>11 DEF ClockInside, BTerm
  <1>13. ASSUME NEW p \in ClkPort, conn'[p] \in nets' PROVE Seen(conn[p])' /\ conn'[p] = conn[p]
    <2>1. conn'[p] = conn[p] /\ conn[p] \in nets /\ conn[p] # out
      BY <1>0, <1>3, <1>6, <1>7, <1>13 DEF LogicParts
    <2>2. PICK j \in insts : kind[j] # "tie" /\ \E x \in ClockPin(j) : conn[x] = conn[p]
      BY <2>1 DEF ClockInside, Seen
    <2>3. PICK x \in ClockPin(j) : conn[x] = conn[p]
      BY <2>2
    <2>4. j # i /\ x \in Terms(j) /\ x \notin loads
      BY <1>3, <2>1, <2>2, <2>3 DEF ClockPin, Terms
    <2>5. conn'[x] = conn'[p]
      BY <1>4, <1>5, <2>1, <2>3, <2>4
    <2> QED
      BY <1>3, <2>1, <2>2, <2>3, <2>4, <2>5 DEF Seen, ClockPin
  <1> QED
    BY <1>1, <1>11, <1>12, <1>13 DEF ClockInside

ClockHands == Commands \cap {"repair_clock_inverters", "repair_clock_nets", "repair_net"} = {}

ClockInv ==
    /\ DriverInv /\ WellDriven(design) /\ ClockInside
    /\ cmd \in Commands \cup {"idle"}
    /\ clk_nets_valid_ => ClockReach \subseteq clk_nets_
    /\ cmd \in {"buffer_inputs", "repair_design", "resize"} => clk_nets_valid_

ReachStays == ClockReach' \subseteq ClockReach /\ ClockInside'

\* Where a command may put a buffer no clock comes.
LEMMA AllowedOffClock ==
    ASSUME ClockHands, ClockInv, NEW n, Allowed(n)
    PROVE  n \notin ClockReach
  <1>1. CASE cmd \in {"buffer_inputs", "repair_design"}
    BY <1>1 DEF ClockInv, Allowed
  <1>2. CASE cmd = "repair_hold_violations"
    BY <1>2 DEF Allowed
  <1>3. CASE cmd = "buffer_outputs"
    BY <1>3 DEF ClockInv, ClockInside, Allowed
  <1>4. cmd \notin {"repair_clock_nets", "repair_net"}
    BY DEF ClockInv, ClockHands
  <1> QED
    BY <1>1, <1>2, <1>3, <1>4 DEF Allowed

LEMMA QuietReach ==
    ASSUME LogicInv, ClockInside, UNCHANGED <<insts, kind, conn>>, nets \subseteq nets',
           NoNet \notin nets'
    PROVE  ReachStays
  <1>0. ClkPort \subseteq Pin /\ LogicParts
    BY NetlistAssumption, TermFacts DEF LogicInv
  <1>1. PICK X : X = ClockReach
    OBVIOUS
  <1>2. X \subseteq nets /\ ClockClosed(X)
    BY <1>1, ReachClosed
  <1>3. \A p \in Pin : conn'[p] \in nets' => conn[p] \in nets
    BY <1>0 DEF LogicParts
  <1>4. \A i \in insts : In(i) \in Pin /\ Out(i) \in Pin
    BY TermFacts DEF LogicInv, TypeInv, TypeOK, NetlistTypeOK
  <1>5. ClockClosed(X)'
    BY <1>0, <1>2, <1>3, <1>4 DEF ClockClosed
  <1>6. ClockReach' \subseteq X
    BY <1>2, <1>5, ReachShrinks
  <1> QED
    BY <1>0, <1>1, <1>3, <1>6 DEF ReachStays, ClockInside, Seen, ClockPin

\* No step makes a clock reach a net it did not reach, or an output port.
LEMMA ReachNeverGrows ==
    ASSUME ClockHands, ClockInv, [Next]_vars
    PROVE  ReachStays
  <1>0. LogicInv /\ DriverParts /\ ClockInside /\ NoNet \notin nets'
    BY NetlistAssumption, LogicNext
    DEF ClockInv, DriverInv, LogicInv, TypeInv, TypeOK, NetlistTypeOK
  <1>1. CASE \E b \in FreeInst, m \in FreeNet : Insert(b, m)
    <2>1. PICK b, m, n : PutOn(b, m, n) /\ Allowed(n)
      BY <1>0, <1>1, InsertPut DEF LogicInv
    <2> QED
      BY <1>0, <2>1, AllowedOffClock, PutReach DEF ReachStays
  <1>2. CASE StepRemove
    <2>1. PICK b : RemoveEffect(b)
      BY <1>0, <1>2, RemoveFacts
    <2> QED
      BY <1>0, <2>1, RemoveReach DEF ReachStays
  <1>3. CASE StepSplit
    <2>1. PICK i, loads, in, copy, net : SplitCells(i, loads, in, copy, net)
      BY <1>0, <1>3, SplitCellFacts
    <2>2. kind[i] = "tie"
      BY <2>1 DEF SplitCells, ClockInv, ClockHands
    <2> QED
      BY <1>0, <2>1, <2>2, SplitReach DEF ReachStays
  <1>4. CASE StepQuiet
    BY <1>0, <1>4, QuietReach DEF StepQuiet
  <1>5. CASE Between \/ Finish
    BY <1>0, <1>5, QuietReach DEF Between, Finish, netVars
  <1>6. CASE Start
    BY <1>0, <1>6, StartKinds, QuietReach DEF netVars
  <1> QED
    BY <1>0, <1>1, <1>2, <1>3, <1>4, <1>5, <1>6, StepsOfLoop, VisitKinds, FailKinds

LEMMA ClockNext ==
    ASSUME ClockHands
    PROVE  ClockInv /\ [Next]_vars => ClockInv'
  <1> SUFFICES ASSUME ClockInv, [Next]_vars PROVE ClockInv'
    OBVIOUS
  <1>0. /\ DriverInv' /\ design' = design /\ ClockReach' \subseteq ClockReach /\ ClockInside'
        /\ ClockReach \subseteq FindClkNets
    BY DriverNext, DesignStays, ReachNeverGrows, ReachSeen
    DEF ClockInv, ReachStays, DriverInv, LogicInv, TypeInv
  <1>1. CASE Start
    <2>1. /\ cmd' \in Commands
          /\ EnsureClkNets \/ UNCHANGED cacheVars
          /\ cmd' \in {"buffer_inputs", "repair_design", "resize"} => EnsureClkNets
      BY <1>1
      DEF Start, Begin, InitResizer, StartRemoveBuffers, StartBufferInputs,
          StartBufferOutputs, StartRepairTies, StartRepairClkInverters, StartRepairHold,
          StartRepairDesign, StartRepairClkNets, StartResize, StartRepairNet
    <2>2. ASSUME EnsureClkNets PROVE clk_nets_valid_' /\ ClockReach' \subseteq clk_nets_'
      BY <1>0, <2>2 DEF EnsureClkNets, ClockInv
    <2>3. clk_nets_valid_' => ClockReach' \subseteq clk_nets_'
      BY <1>0, <2>1, <2>2 DEF cacheVars, ClockInv
    <2>4. WellDriven(design)'
      BY <1>0 DEF ClockInv
    <2> QED
      BY <1>0, <2>1, <2>2, <2>3, <2>4 DEF ClockInv
  <1>2. CASE Turn \/ Between \/ Finish
    BY <1>0, <1>2 DEF Turn, Between, Finish, cacheVars, ClockInv
  <1> QED
    BY <1>1, <1>2, StepsOfLoop

\* In a session that never asks for the clock nets to be repaired, on a netlist whose nets
\* have one driver each, whose clock ports drive cells and whose clocks reach no output
\* port, the commands that keep their hands off the clock nets do: clk_nets_ holds every
\* net a clock reaches, however often the commands edited the netlist since it was filled.
THEOREM ClockNetsUntouched ==
    ASSUME ClockHands
    PROVE  Spec /\ WellDriven(design) /\ ClockInside => ClockHandsOff
  <1> DEFINE Off == \A n \in ClockReach :
          cmd \in {"resize", "buffer_inputs", "repair_design", "repair_hold_violations"}
          => (\A p \in ConnectedPins(n) : HandsOff(p))
  <1>1. Init /\ WellDriven(design) /\ ClockInside => ClockInv
    BY DriverInit DEF Init, ClockInv
  <1>2. ClockInv /\ [Next]_vars => ClockInv'
    BY ClockNext
  <1>3. ClockInv /\ [Next]_vars => Off
    <2> SUFFICES ASSUME ClockInv, [Next]_vars, NEW n \in ClockReach,
                        cmd \in {"resize", "buffer_inputs", "repair_design",
                                 "repair_hold_violations"},
                        NEW p \in ConnectedPins(n)
                 PROVE  HandsOff(p)
      OBVIOUS
    <2>1. /\ LogicInv /\ p \in Pin /\ conn[p] \in ClockReach /\ ClockReach \in SUBSET nets
          /\ cmd = "resize" => conn[p] \in clk_nets_
      BY DEF ClockInv, DriverInv, ConnectedPins, ClockReach
    <2>2. CASE \E b \in FreeInst, m \in FreeNet : Insert(b, m)
      <3>1. PICK b, m, k : PutOn(b, m, k) /\ Allowed(k)
        BY <2>1, <2>2, InsertPut
      <3> QED
        BY <2>1, <3>1, AllowedOffClock, PutHandsOff
    <2>3. CASE \A b \in FreeInst, m \in FreeNet : ~Insert(b, m)
      BY <2>1, <2>3, OtherHandsOff
    <2> QED
      BY <2>2, <2>3
  <1>4. ClockInv /\ [Next]_vars => [Off]_vars
    BY <1>3
  <1> QED
    BY <1>1, <1>2, <1>4, PTL DEF Spec, ClockHandsOff

=============================================================================
