----------------------------- MODULE ClipGraph -----------------------------
(***************************************************************************)
(* graph_extract: the graph of the instances in a clip                     *)
(* (src/src/ClipGraphExtract/src/clipGraphExtractor.tcl, .i, .cpp,         *)
(* instGraph.cpp).                                                         *)
(*                                                                         *)
(* The extractor keeps its settings and its R-tree from one Tcl procedure  *)
(* call to the next.  The placed netlist belongs to the database: other    *)
(* commands move and destroy instances and make rows between two calls.    *)
(*                                                                         *)
(* The chip is a set of tiles.  A bounding box is the set of tiles it      *)
(* touches, and so is a clip: they intersect if they share a tile.         *)
(***************************************************************************)
EXTENDS Integers, Sequences, FiniteSets

CONSTANTS
    Inst, Net, Tile,
    Boxes, Clips,  \* sets of tiles
    NetType,       \* NetType[n]: "signal", "power" or "clock"
    Terms,         \* Terms[n]: the ITerms of a net in table order, [inst, io, sig]
    File,
    Calls,         \* the calls that are made
    Half,          \* 2^31: an int lies in -Half..Half-1
    NoClip, NoInst, NoFile,
    MaxSteps       \* bound: the commands of one session

ITerms == [inst : Inst, io : {"input", "output"}, sig : {"signal", "power"}]

CallType == [model : {"default", "star", "clique", "unknown"},
             weight : {"default", "a", "b", "c", "d", "e", "unknown"},
             file : File \cup {NoFile}, clip : Clips \cup {NoClip}]

ASSUME ClipGraphAssumption ==
    /\ IsFiniteSet(Inst) /\ NoInst \notin Inst
    /\ Boxes \subseteq SUBSET Tile /\ Clips \subseteq SUBSET Tile
    /\ NetType \in [Net -> {"signal", "power", "clock"}]
    /\ Terms \in [Net -> Seq(ITerms)]
    /\ Half \in Nat \ {0} /\ NoClip \notin Clips /\ Calls \subseteq CallType

VARIABLES
    steps,
    alive,            \* the process runs
    insts, bbox,      \* the instances of the block and their boxes
    rows,             \* the block has rows
    graphModel_, edgeWeightModel_, fileName_,
    rTree_,           \* what is in the R-tree: a set of <<box, instance>>
    saved,            \* the file written last
    asked,            \* history variable: the last call
    refused           \* history variable: a call was refused since the last file

settings == <<graphModel_, edgeWeightModel_, fileName_>>
block == <<insts, bbox, rows>>
vars == <<steps, alive, block, settings, rTree_, saved, asked, refused>>

-----------------------------------------------------------------------------
(***************************************************************************)
(* Graph::init for the instances C.  Everything is collected in sets       *)
(* ordered by address, so the order of vertices and edges means nothing;   *)
(* an edge is told by its net and its ends.                                *)
(***************************************************************************)
TermsOf(n) == {k \in DOMAIN Terms[n] : Terms[n][k].inst \in insts}
SignalTerms(n) == {k \in TermsOf(n) : Terms[n][k].sig # "power"}

\* The instances of C on net n, but for those there by their supply terminals.
OnNet(C, n) == {Terms[n][k].inst : k \in SignalTerms(n)} \cap C

NetSet(C) == {n \in Net : NetType[n] = "signal" /\ OnNet(C, n) # {}}

\* dbNet::getFirstOutput, none for a net that a port drives.
Outputs(n) == {k \in SignalTerms(n) : Terms[n][k].io = "output"}
SourceInst(n) ==
    IF Outputs(n) = {} THEN NoInst
    ELSE Terms[n][CHOOSE k \in Outputs(n) : \A j \in Outputs(n) : k <= j].inst

Edge(n, from, to, fanout) == [net |-> n, from |-> from, to |-> to, fanout |-> fanout]

\* Mutant: the source itself is not counted.
StarOfSinks(C, n) ==
    LET sinks == OnNet(C, n) \ {SourceInst(n)}
    IN  {Edge(n, SourceInst(n), s, Cardinality(sinks)) : s \in sinks}

StarOf(C, n) ==
    LET sinks == OnNet(C, n) \ {SourceInst(n)}
    IN  {Edge(n, SourceInst(n), s, 1 + Cardinality(sinks)) : s \in sinks}

CliqueOf(C, n) ==
    LET net == OnNet(C, n)
    IN  {Edge(n, p[1], p[2], Cardinality(net)) : p \in {q \in net \X net : q[1] # q[2]}}

StarEdges(C) == UNION {StarOf(C, n) : n \in {m \in NetSet(C) : SourceInst(m) \in C}}

CliqueEdges(C) == UNION {CliqueOf(C, n) : n \in NetSet(C)}

Edges(model, C) == IF model = "star" THEN StarEdges(C) ELSE CliqueEdges(C)

\* Products of int wrap.
Wrapped(x) == ((x + Half) % (2 * Half)) - Half

\* What getEdgeWeight divides by; in model d it is the power 1.5 of that, in double.
Divisor(model, fanout) ==
    CASE model = "a" -> Wrapped(fanout * (fanout - 1))
      [] model = "b" -> fanout
      [] model = "c" -> Wrapped(Wrapped(fanout * fanout) * fanout)
      [] model = "d" -> fanout
      [] model = "e" -> fanout - 1

-----------------------------------------------------------------------------
(***************************************************************************)
(* graph_extract.  A call names a model and a weight or "default", a file  *)
(* or none, and a clip, or coordinates that are no four numbers.  Each     *)
(* action is one way through the procedure.                                *)
(***************************************************************************)
Begin(call) == alive /\ steps < MaxSteps /\ steps' = steps + 1 /\ asked' = call

\* setGraphModel passes over a name it does not know.
SetGraphModel(call) ==
    graphModel_' = IF call.model \in {"star", "clique"} THEN call.model ELSE graphModel_

SetEdgeWeightModel(call) ==
    /\ call.weight # "unknown"
    /\ edgeWeightModel_' = IF call.weight = "default" THEN edgeWeightModel_ ELSE call.weight

SetSaveFileName(call) == call.file # NoFile /\ fileName_' = call.file

Query(tree, clip) == {e[2] : e \in {f \in tree : f[1] \cap clip # {}}}

\* setEdgeWeightModel ends the process.
UnknownWeight(call) ==
    /\ Begin(call) /\ call.weight = "unknown"
    /\ alive' = FALSE
    /\ UNCHANGED <<block, settings, rTree_, saved, refused>>

\* "-out_file must be used": the models are set by then.
NoOutFile(call) ==
    /\ Begin(call) /\ call.file = NoFile
    /\ SetGraphModel(call) /\ SetEdgeWeightModel(call)
    /\ refused' = TRUE
    /\ UNCHANGED <<alive, block, fileName_, rTree_, saved>>

NoRows(call) ==
    /\ Begin(call) /\ ~rows
    /\ SetGraphModel(call) /\ SetEdgeWeightModel(call) /\ SetSaveFileName(call)
    /\ refused' = TRUE
    /\ UNCHANGED <<alive, block, rTree_, saved>>

\* Mutant: a tree that is there is used again.
InitOnce == IF rTree_ # {} THEN rTree_ ELSE {<<bbox[i], i>> : i \in insts}

\* init: what a new tree holds.
InitTree == {<<bbox[i], i>> : i \in insts}

\* The wrapper of extract refuses the coordinates: the new tree and the settings stay.
BadClip(call) ==
    /\ Begin(call) /\ rows /\ call.clip = NoClip
    /\ SetGraphModel(call) /\ SetEdgeWeightModel(call) /\ SetSaveFileName(call)
    /\ rTree_' = InitTree /\ refused' = TRUE
    /\ UNCHANGED <<alive, block, saved>>

\* updateVertsFromEdges exits if this is false.
HasVertices(C, edges) == \A e \in edges : {e.from, e.to} \subseteq C

\* clear.
Clear ==
    /\ rTree_' = {}
    /\ graphModel_' = "star" /\ edgeWeightModel_' = "a" /\ fileName_' = NoFile

\* init, extract, clear.
Extract(call) ==
    /\ Begin(call) /\ rows /\ call.clip # NoClip
    /\ call.file # NoFile /\ call.weight # "unknown"
    /\ LET model  == IF call.model \in {"star", "clique"} THEN call.model ELSE graphModel_
           weight == IF call.weight = "default" THEN edgeWeightModel_ ELSE call.weight
           C      == Query(InitTree, call.clip)
           edges  == Edges(model, C)
       IN IF HasVertices(C, edges)
          THEN /\ saved' = [file |-> call.file, model |-> model, weight |-> weight,
                            edges |-> edges]
               /\ Clear /\ refused' = FALSE
               /\ UNCHANGED alive
          ELSE alive' = FALSE /\ UNCHANGED <<saved, rTree_, settings, refused>>
    /\ UNCHANGED block

-----------------------------------------------------------------------------
(***************************************************************************)
(* Other commands.                                                         *)
(***************************************************************************)
Other == alive /\ steps < MaxSteps /\ steps' = steps + 1
         /\ UNCHANGED <<alive, settings, rTree_, saved, asked, refused>>

Move(i, b) ==
    /\ Other /\ i \in insts /\ b # bbox[i]
    /\ bbox' = [bbox EXCEPT ![i] = b]
    /\ UNCHANGED <<insts, rows>>

Destroy(i) == Other /\ i \in insts /\ insts' = insts \ {i} /\ UNCHANGED <<bbox, rows>>

MakeRows == Other /\ ~rows /\ rows' = TRUE /\ UNCHANGED <<insts, bbox>>

Init ==
    /\ steps = 0 /\ alive = TRUE
    /\ insts = Inst /\ bbox \in [Inst -> Boxes] /\ rows \in BOOLEAN
    /\ graphModel_ = "star" /\ edgeWeightModel_ = "a" /\ fileName_ = NoFile
    /\ rTree_ = {}
    /\ saved = [file |-> NoFile, model |-> "star", weight |-> "a", edges |-> {}]
    /\ asked = [model |-> "default", weight |-> "default", file |-> NoFile, clip |-> NoClip]
    /\ refused = FALSE

Next ==
    \/ \E call \in Calls : UnknownWeight(call) \/ NoOutFile(call) \/ NoRows(call)
                           \/ BadClip(call) \/ Extract(call)
    \/ \E i \in Inst : Destroy(i) \/ \E b \in Boxes : Move(i, b)
    \/ MakeRows

Spec == Init /\ [][Next]_vars

-----------------------------------------------------------------------------
(***************************************************************************)
(* Properties.                                                             *)
(***************************************************************************)
InClip(clip) == {i \in insts : bbox[i] \cap clip # {}}
Ends(edges) == {<<e.net, e.from, e.to>> : e \in edges}

(***************************************************************************)
(* The graph of a clip is the part of the graph of the whole block that    *)
(* lies in the clip, as the block is now and however earlier calls ended:  *)
(* no edge is lost at the border or left from an older placement.          *)
(* Therefore no edge misses a vertex, and only an unknown weight ends the  *)
(* process.  A call that names no model gets the default one               *)
(* (clipGraphExtractor.tcl:12), unless a call before it was refused: what  *)
(* that one has set is still there.                                        *)
(***************************************************************************)
GraphIsClipOfWhole ==
    [][/\ saved' # saved =>
             /\ Ends(saved'.edges) =
                  {e \in Ends(Edges(saved'.model, insts)) :
                     {e[2], e[3]} \subseteq InClip(asked'.clip)}
             /\ ~refused /\ asked'.model = "default" => saved'.model = "star"
             /\ ~refused /\ asked'.weight = "default" => saved'.weight = "a"
       /\ alive /\ ~alive' => asked'.weight = "unknown"]_vars

(***************************************************************************)
(* Every weight in a file is finite and positive, though a net in the clip *)
(* may have one instance there, or only its source; unless the third power *)
(* of the fanout is no int.                                                *)
(***************************************************************************)
WeightsArePositive ==
    \A e \in saved.edges :
       e.fanout * e.fanout * e.fanout < Half => Divisor(saved.weight, e.fanout) > 0

=============================================================================
