----------------------------- MODULE DbNetwork -----------------------------
(***************************************************************************)
(* The netlist the resizer edits: OpenDB's block seen through dbNetwork    *)
(* (src/src/dbSta/src/dbNetwork.cc).                                       *)
(*                                                                         *)
(* Instances and nets are the slots of OpenDB's tables.  A slot freed by   *)
(* destroy may be handed out again by create, so a pointer kept across an  *)
(* edit may come to name another object: that is why insts and nets are    *)
(* sets of live slots and not counters.  makeUniqueNetName and             *)
(* makeUniqueInstName only ever return a name no live object has; names    *)
(* carry no other meaning here and are left out.                           *)
(*                                                                         *)
(* A cell is a buffer, an inverter, a tie cell or a "gate", which stands   *)
(* for every other cell: its output is a signal of its own.  It has two    *)
(* inputs, "a" and "b" (a flip-flop's data and clock); the other cells use *)
(* "a" only and a tie cell uses neither.  Power and ground terminals,      *)
(* which the pin iterators skip, are not modelled.                         *)
(***************************************************************************)
EXTENDS Integers, FiniteSets, Functions

CONSTANTS
    Inst,       \* slots of the instance table
    NetId,      \* slots of the net table
    InPort,     \* input BTerms
    OutPort,    \* output BTerms
    ClkPort,    \* the input ports a clock is defined on
    Sizes,      \* areas a cell can have (dontUse leaves these to choose from)
    BufferArea, \* area of the buffer cell the commands are given
    NoNet,      \* the null net pointer
    Designs     \* netlists a reader (read_def, link_design) may have left

Kinds == {"buf", "inv", "tie", "gate"}

In(i)  == <<i, "a">>
In2(i) == <<i, "b">>
Out(i) == <<i, "y">>

ITerm == Inst \X {"a", "b", "y"}
BTerm == InPort \cup OutPort
Pin   == ITerm \cup BTerm

\* dbNetwork::isDriver: output terminals of instances and input ports.
DriverPin == InPort \cup {Out(i) : i \in Inst}

(***************************************************************************)
(* What a net carries: a source and a polarity.  The sources are the input *)
(* ports, the gates, the constant of the tie cells, and "none" for a net   *)
(* nothing drives.                                                         *)
(***************************************************************************)
Signal == (Inst \cup InPort \cup {"tie", "none"}) \X BOOLEAN
Invert(s) == <<s[1], ~s[2]>>

VARIABLES
    design,     \* the netlist that was read; never written again
    insts,      \* live instances
    kind,       \* kind[i]: the master of a live instance
    size,       \* size[i]: its area
    nets,       \* live nets
    special,    \* the live nets that are special
    conn,       \* conn[p]: the net of a terminal, or NoNet
    cached,     \* keys of net_drvr_pin_map_
    drvrs,      \* net_drvr_pin_map_: the cached driver pins of a net
    sig         \* history variable: the signal a net stands for

netVars == <<design, insts, kind, size, nets, special, conn, cached, drvrs, sig>>

-----------------------------------------------------------------------------
(***************************************************************************)
(* Logical consistency of a netlist d with the signals d.sig of its nets.  *)
(***************************************************************************)
SourcesOK(d) ==
    /\ \A p \in InPort : d.conn[p] # NoNet => d.sig[d.conn[p]] = <<p, TRUE>>
    /\ \A i \in d.insts : d.conn[Out(i)] # NoNet =>
          /\ d.kind[i] = "gate" => d.sig[d.conn[Out(i)]] = <<i, TRUE>>
          /\ d.kind[i] = "tie"  => d.sig[d.conn[Out(i)]] = <<"tie", TRUE>>

\* A buffer repeats its input and an inverter inverts it.
RepeatersOK(d) ==
    \A i \in d.insts :
       d.conn[In(i)] # NoNet /\ d.conn[Out(i)] # NoNet =>
          /\ d.kind[i] = "buf" => d.sig[d.conn[Out(i)]] = d.sig[d.conn[In(i)]]
          /\ d.kind[i] = "inv" => d.sig[d.conn[Out(i)]] = Invert(d.sig[d.conn[In(i)]])

\* What driver pin q of d puts on its net if the nets carry f.
Output(d, q, f) ==
    LET i == q[1]
    IN IF q \in InPort THEN <<q, TRUE>>
       ELSE CASE d.kind[i] = "gate" -> <<i, TRUE>>
              [] d.kind[i] = "tie"  -> <<"tie", TRUE>>
              [] d.kind[i] = "buf"  -> f[d.conn[In(i)]]
              [] d.kind[i] = "inv"  -> Invert(f[d.conn[In(i)]])

\* The signal of each net, found by tracing the net back through what drives it: nothing
\* is read from d.sig.
Traced(d) ==
    LET f[n \in d.nets] ==
          LET D == {q \in DriverPin : d.conn[q] = n}
          IN IF D = {} THEN <<"none", TRUE>> ELSE Output(d, CHOOSE q \in D : TRUE, f)
    IN f

\* Terminals of dead slots are on no net and terminals are on live nets only.
NoDanglingPin(d) ==
    /\ \A p \in Pin : d.conn[p] \in d.nets \cup {NoNet}
    /\ \A i \in Inst \ d.insts : \A t \in {"a", "b", "y"} : d.conn[<<i, t>>] = NoNet

(***************************************************************************)
(* What most netlists satisfy.  A feedthrough is a net that joins an input *)
(* port to an output port.                                                 *)
(***************************************************************************)
SingleDriver(d) ==
    \A p, q \in DriverPin : d.conn[p] = d.conn[q] /\ d.conn[p] # NoNet => p = q

\* A terminal on a net that carries a signal finds a driver there.
Driven(d) ==
    \A p \in Pin \ DriverPin :
       d.conn[p] # NoNet /\ d.sig[d.conn[p]][1] # "none" =>
          \E q \in DriverPin : d.conn[q] = d.conn[p]

Feedthrough(d) ==
    \E p \in InPort, q \in OutPort : d.conn[p] = d.conn[q] /\ d.conn[p] # NoNet

WellDriven(d) == SingleDriver(d) /\ Driven(d) /\ ~Feedthrough(d)

(***************************************************************************)
(* No buffers and inverters drive each other in a ring: of any nets, one   *)
(* is driven by none of them that reads another.                           *)
(***************************************************************************)
Repeater(d) == {i \in d.insts : d.kind[i] \in {"buf", "inv"}}

RingFree(d) ==
    \A N \in (SUBSET d.nets) \ {{}} :
       \E n \in N : \A i \in Repeater(d) : d.conn[Out(i)] = n => d.conn[In(i)] \notin N

\* Every net has a driver, every terminal of a buffer, inverter or tie cell a net.
NetsDriven(d) == \A n \in d.nets : \E q \in DriverPin : d.conn[q] = n

CellsConnected(d) ==
    \A i \in d.insts : /\ d.kind[i] # "gate" => d.conn[Out(i)] # NoNet
                       /\ d.kind[i] \in {"buf", "inv"} => d.conn[In(i)] # NoNet

Sound(d) == WellDriven(d) /\ RingFree(d) /\ NetsDriven(d) /\ CellsConnected(d)

DesignType ==
    [insts : SUBSET Inst, kind : [Inst -> Kinds], size : [Inst -> Sizes],
     nets : SUBSET NetId, special : SUBSET NetId,
     conn : [Pin -> NetId \cup {NoNet}], sig : [NetId -> Signal]]

(***************************************************************************)
(* The terminals whose function matters: output ports and gate inputs.     *)
(* Gates are neither created nor deleted by any command.                   *)
(***************************************************************************)
SinkOf(d) == OutPort \cup {In(i)  : i \in {j \in d.insts : d.kind[j] = "gate"}}
                     \cup {In2(i) : i \in {j \in d.insts : d.kind[j] = "gate"}}

ASSUME NetlistAssumption ==
    /\ NoNet \notin NetId
    /\ InPort \cap OutPort = {}
    /\ BTerm \cap ITerm = {}
    /\ ClkPort \subseteq InPort
    /\ Sizes \subseteq Nat
    /\ BufferArea \in Sizes

ASSUME DesignAssumption ==
    \A d \in Designs : /\ d \in DesignType /\ IsFiniteSet(d.insts)
                       /\ d.special \subseteq d.nets
                       /\ SourcesOK(d) /\ RepeatersOK(d) /\ NoDanglingPin(d)

InitNetlist ==
    \E d \in Designs :
       /\ design = d
       /\ insts = d.insts /\ kind = d.kind /\ size = d.size
       /\ nets = d.nets /\ special = d.special
       /\ conn = d.conn /\ sig = d.sig
       /\ cached = {} /\ drvrs = [n \in NetId |-> {}]

NetlistTypeOK ==
    /\ design \in Designs
    /\ insts \subseteq Inst /\ kind \in [Inst -> Kinds] /\ size \in [Inst -> Sizes]
    /\ nets \subseteq NetId /\ special \subseteq nets
    /\ conn \in [Pin -> NetId \cup {NoNet}]
    /\ cached \subseteq nets /\ drvrs \in [NetId -> SUBSET DriverPin]
    /\ sig \in [NetId -> Signal]

-----------------------------------------------------------------------------
(***************************************************************************)
(* Queries.                                                                *)
(***************************************************************************)
ConnectedPins(n)   == {p \in Pin : conn[p] = n}
PinIterator(n)     == {p \in ITerm : conn[p] = n}    \* ITerms only
HasTopLevelPort(n) == \E p \in BTerm : conn[p] = n
ActualDrivers(n)   == {p \in DriverPin : conn[p] = n}
Netlist == [insts |-> insts, kind |-> kind, size |-> size, nets |-> nets,
            special |-> special, conn |-> conn, sig |-> sig]

(***************************************************************************)
(* Edits of the terminal map.  Reconnect(S, n, c) is sta->disconnectPin    *)
(* followed by connectPin(.., n) for each terminal of S; DeleteNet and     *)
(* DeleteInst are the destroys, which also unhook the terminals.           *)
(***************************************************************************)
Reconnect(S, n, c) == [p \in Pin |-> IF p \in S THEN n ELSE c[p]]
DeleteNet(n, c)    == [p \in Pin |-> IF c[p] = n THEN NoNet ELSE c[p]]
DeleteInst(i, c)   == [p \in Pin |-> IF p \in {In(i), In2(i), Out(i)} THEN NoNet ELSE c[p]]

\* Mutant: the entry of a net is not kept up as terminals move.
DrvrsNotKeptUp(N, c) == [n \in NetId |-> IF n \in cached \cap N THEN drvrs[n] ELSE {}]

(***************************************************************************)
(* What a batch of edits that ends in the terminal map c does to the       *)
(* driver cache.  connect adds a driver to the entry of its net if there   *)
(* is one.  disconnectPin looks the net up with net(pin), which is null    *)
(* for a port, so only an instance terminal is taken out of its entry.     *)
(***************************************************************************)
DrvrsAfter(N, c) ==
    [n \in NetId |->
       IF n \in cached \cap N
       THEN (drvrs[n] \ {p \in ITerm : conn[p] = n /\ c[p] # n})
               \cup {p \in DriverPin : c[p] = n /\ conn[p] # n}
       ELSE {}]

\* Mutant: the entry of a net outlives the net.
EditKeepsEntries(I, N, c) ==
    /\ insts' = I /\ nets' = N /\ conn' = c
    /\ special' = special \cap N
    /\ cached' = cached
    /\ drvrs' = DrvrsAfter(N, c)
    /\ UNCHANGED design

\* I, N and c are the live instances, the live nets and the terminals after the edit.
Edit(I, N, c) ==
    /\ insts' = I /\ nets' = N /\ conn' = c
    /\ special' = special \cap N
    /\ cached' = cached \cap N
    /\ drvrs' = DrvrsAfter(N, c)
    /\ UNCHANGED design

(***************************************************************************)
(* Network::drivers(net), asked by STA and by repairNet: fills the entry   *)
(* of a net that has none.                                                 *)
(***************************************************************************)
FillDrivers(n) ==
    /\ n \in nets \ cached
    /\ cached' = cached \cup {n}
    /\ drvrs' = [drvrs EXCEPT ![n] = ActualDrivers(n)]
    /\ UNCHANGED <<design, insts, kind, size, nets, special, conn, sig>>

=============================================================================
