-------------------------- MODULE ClipGraph_proofs --------------------------
(***************************************************************************)
(* Proofs about ClipGraph, for any netlist, placement, clips and session.  *)
(***************************************************************************)
EXTENDS ClipGraph, FiniteSetTheorems, TLAPS

-----------------------------------------------------------------------------
(***************************************************************************)
(* The graph of some of the instances is part of the graph of all.         *)
(***************************************************************************)

LEMMA OnNetOfSubset ==
    ASSUME NEW C \in SUBSET insts, NEW n \in Net
    PROVE  OnNet(C, n) = OnNet(insts, n) \cap C
  BY DEF OnNet

LEMMA StarEnds ==
    ASSUME NEW C \in SUBSET insts, NEW x
    PROVE  x \in Ends(StarEdges(C)) <=>
              \E n \in Net : \E s \in OnNet(insts, n) \ {SourceInst(n)} :
                 /\ x = <<n, SourceInst(n), s>> /\ NetType[n] = "signal"
                 /\ s \in C /\ SourceInst(n) \in C
  <1>1. ASSUME NEW n \in Net
        PROVE  x \in Ends(StarOf(C, n)) <=>
                  \E s \in OnNet(C, n) \ {SourceInst(n)} : x = <<n, SourceInst(n), s>>
    <2> DEFINE sinks == OnNet(C, n) \ {SourceInst(n)}
    <2>1. ASSUME x \in Ends(StarOf(C, n))
          PROVE  \E s \in sinks : x = <<n, SourceInst(n), s>>
      <3>1. PICK e \in StarOf(C, n) : x = <<e.net, e.from, e.to>>
        BY <2>1 DEF Ends
      <3>2. PICK s \in sinks : e = Edge(n, SourceInst(n), s, 1 + Cardinality(sinks))
        BY DEF StarOf
      <3> QED
        BY <3>1, <3>2 DEF Edge
    <2>2. ASSUME NEW s \in sinks, x = <<n, SourceInst(n), s>>
          PROVE  x \in Ends(StarOf(C, n))
      <3> DEFINE e == Edge(n, SourceInst(n), s, 1 + Cardinality(sinks))
      <3>1. e \in StarOf(C, n)
        BY DEF StarOf
      <3>2. x = <<e.net, e.from, e.to>>
        BY <2>2 DEF Edge
      <3> QED
        BY <3>1, <3>2 DEF Ends
    <2> QED
      BY <2>1, <2>2
  <1>2. x \in Ends(StarEdges(C)) <=>
           \E n \in Net : n \in NetSet(C) /\ SourceInst(n) \in C /\ x \in Ends(StarOf(C, n))
    BY DEF Ends, StarEdges, NetSet
  <1> QED
    BY <1>1, <1>2, OnNetOfSubset DEF NetSet

LEMMA CliqueEnds ==
    ASSUME NEW C \in SUBSET insts, NEW x
    PROVE  x \in Ends(CliqueEdges(C)) <=>
              \E n \in Net : \E s, t \in OnNet(insts, n) :
                 /\ x = <<n, s, t>> /\ NetType[n] = "signal" /\ s # t
                 /\ s \in C /\ t \in C
  <1>1. ASSUME NEW n \in Net
        PROVE  x \in Ends(CliqueOf(C, n)) <=>
                  \E s, t \in OnNet(C, n) : s # t /\ x = <<n, s, t>>
    <2>1. ASSUME x \in Ends(CliqueOf(C, n))
          PROVE  \E s, t \in OnNet(C, n) : s # t /\ x = <<n, s, t>>
      <3>1. PICK p \in OnNet(C, n) \X OnNet(C, n) :
               p[1] # p[2] /\ x = <<n, p[1], p[2]>>
        BY <2>1 DEF Ends, CliqueOf, Edge
      <3> QED
        BY <3>1
    <2>2. ASSUME NEW s \in OnNet(C, n), NEW t \in OnNet(C, n), s # t, x = <<n, s, t>>
          PROVE  x \in Ends(CliqueOf(C, n))
      <3> DEFINE e == Edge(n, s, t, Cardinality(OnNet(C, n)))
      <3>1. <<s, t>> \in {q \in OnNet(C, n) \X OnNet(C, n) : q[1] # q[2]}
        BY <2>2
      <3>2. e \in CliqueOf(C, n)
        BY <3>1 DEF CliqueOf
      <3>3. x = <<e.net, e.from, e.to>>
        BY <2>2 DEF Edge
      <3> QED
        BY <3>2, <3>3 DEF Ends
    <2> QED
      BY <2>1, <2>2
  <1>2. x \in Ends(CliqueEdges(C)) <=> \E n \in Net : n \in NetSet(C) /\ x \in Ends(CliqueOf(C, n))
    BY DEF Ends, CliqueEdges, NetSet
  <1> QED
    BY <1>1, <1>2, OnNetOfSubset DEF NetSet

LEMMA EdgesOfSubset ==
    ASSUME NEW C \in SUBSET insts, NEW model
    PROVE  Ends(Edges(model, C)) =
              {e \in Ends(Edges(model, insts)) : {e[2], e[3]} \subseteq C}
  <1>0. insts \in SUBSET insts
    OBVIOUS
  <1>1. CASE model = "star"
    <2>1. ASSUME NEW x
          PROVE  x \in Ends(StarEdges(C)) <=>
                    x \in Ends(StarEdges(insts)) /\ {x[2], x[3]} \subseteq C
      <3>1. ASSUME x \in Ends(StarEdges(C))
            PROVE  x \in Ends(StarEdges(insts)) /\ {x[2], x[3]} \subseteq C
        BY <1>0, <3>1, StarEnds
      <3>2. ASSUME x \in Ends(StarEdges(insts)), {x[2], x[3]} \subseteq C
            PROVE  x \in Ends(StarEdges(C))
        BY <1>0, <3>2, StarEnds
      <3> QED
        BY <3>1, <3>2
    <2> QED
      BY <1>1, <2>1 DEF Edges
  <1>2. CASE model # "star"
    <2>1. ASSUME NEW x
          PROVE  x \in Ends(CliqueEdges(C)) <=>
                    x \in Ends(CliqueEdges(insts)) /\ {x[2], x[3]} \subseteq C
      <3>1. ASSUME x \in Ends(CliqueEdges(C))
            PROVE  x \in Ends(CliqueEdges(insts)) /\ {x[2], x[3]} \subseteq C
        BY <1>0, <3>1, CliqueEnds
      <3>2. ASSUME x \in Ends(CliqueEdges(insts)), {x[2], x[3]} \subseteq C
            PROVE  x \in Ends(CliqueEdges(C))
        BY <1>0, <3>2, CliqueEnds
      <3> QED
        BY <3>1, <3>2
    <2> QED
      BY <1>2, <2>1 DEF Edges
  <1> QED
    BY <1>1, <1>2

\* Both ends of an edge are vertices.
LEMMA EdgesHaveVertices ==
    ASSUME NEW C \in SUBSET insts, NEW model, NEW e \in Edges(model, C)
    PROVE  {e.from, e.to} \subseteq C
  <1> DEFINE x == <<e.net, e.from, e.to>>
  <1>1. x \in Ends(Edges(model, C))
    BY DEF Ends
  <1>2. {x[2], x[3]} \subseteq C
    BY <1>1, EdgesOfSubset
  <1> QED
    BY <1>2

\* The query of a new tree finds the instances of the clip.
LEMMA QueryFindsClip ==
    ASSUME NEW clip
    PROVE  Query(InitTree, clip) = InClip(clip) /\ InClip(clip) \in SUBSET insts
  <1>1. ASSUME NEW i \in Query(InitTree, clip)
        PROVE  i \in InClip(clip)
    <2>1. PICK f \in InitTree : i = f[2] /\ f[1] \cap clip # {}
      BY DEF Query
    <2>2. PICK j \in insts : f = <<bbox[j], j>>
      BY DEF InitTree
    <2> QED
      BY <2>1, <2>2 DEF InClip
  <1>2. ASSUME NEW i \in InClip(clip)
        PROVE  i \in Query(InitTree, clip)
    <2> DEFINE f == <<bbox[i], i>>
    <2>1. i \in insts /\ bbox[i] \cap clip # {}
      BY DEF InClip
    <2>2. f \in InitTree /\ f[1] = bbox[i] /\ f[2] = i
      BY <2>1 DEF InitTree
    <2>3. f \in {g \in InitTree : g[1] \cap clip # {}}
      BY <2>1, <2>2
    <2> HIDE DEF f
    <2> QED
      BY <2>2, <2>3 DEF Query
  <1> QED
    BY <1>1, <1>2 DEF InClip

-----------------------------------------------------------------------------
GraphStep ==
    /\ saved' # saved =>
          /\ Ends(saved'.edges) =
               {e \in Ends(Edges(saved'.model, insts)) :
                  {e[2], e[3]} \subseteq InClip(asked'.clip)}
          /\ ~refused /\ asked'.model = "default" => saved'.model = "star"
          /\ ~refused /\ asked'.weight = "default" => saved'.weight = "a"
    /\ alive /\ ~alive' => asked'.weight = "unknown"

\* Only a refused call leaves its models set.
ModelsInv == ~refused => graphModel_ = "star" /\ edgeWeightModel_ = "a"

LEMMA ModelsInvStep == ModelsInv /\ [Next]_vars => ModelsInv'
  <1> SUFFICES ASSUME ModelsInv, [Next]_vars PROVE ModelsInv'
    OBVIOUS
  <1>1. ASSUME NEW call \in Calls, UnknownWeight(call)
        PROVE  ModelsInv'
    BY <1>1 DEF UnknownWeight, ModelsInv, settings
  <1>2. ASSUME NEW call \in Calls, NoOutFile(call) \/ NoRows(call) \/ BadClip(call)
        PROVE  ModelsInv'
    BY <1>2 DEF NoOutFile, NoRows, BadClip, ModelsInv
  <1>3. ASSUME NEW call \in Calls, Extract(call)
        PROVE  ModelsInv'
    BY <1>3 DEF Extract, HasVertices, Clear, ModelsInv, settings
  <1>4. ASSUME NEW i \in Inst, Destroy(i) \/ \E b \in Boxes : Move(i, b)
        PROVE  ModelsInv'
    BY <1>4 DEF Destroy, Move, Other, ModelsInv, settings
  <1>5. ASSUME MakeRows
        PROVE  ModelsInv'
    BY <1>5 DEF MakeRows, Other, ModelsInv, settings
  <1>6. ASSUME UNCHANGED vars
        PROVE  ModelsInv'
    BY <1>6 DEF vars, ModelsInv, settings
  <1> QED
    BY <1>1, <1>2, <1>3, <1>4, <1>5, <1>6 DEF Next

LEMMA ModelsInvHolds == Spec => []ModelsInv
  <1>1. Init => ModelsInv
    BY DEF Init, ModelsInv
  <1> QED
    BY <1>1, ModelsInvStep, PTL DEF Spec

(***************************************************************************)
(* Each graph that is written is the part of the whole graph in the clip,  *)
(* of the model that was asked for, and no edge of it misses a vertex.     *)
(***************************************************************************)
THEOREM GraphIsClipOfWholeHolds == Spec => GraphIsClipOfWhole
  <1>1. ASSUME ModelsInv, NEW call \in Calls, Extract(call)
        PROVE  GraphStep
    <2> DEFINE model == IF call.model \in {"star", "clique"} THEN call.model ELSE graphModel_
               weight == IF call.weight = "default" THEN edgeWeightModel_ ELSE call.weight
               C == Query(InitTree, call.clip)
               edges == Edges(model, C)
    <2>1. C = InClip(call.clip) /\ C \in SUBSET insts
      BY QueryFindsClip
    <2>2. \A e \in edges : {e.from, e.to} \subseteq C
      BY <2>1, EdgesHaveVertices
    <2>3. /\ saved' = [file |-> call.file, model |-> model, weight |-> weight, edges |-> edges]
          /\ alive' = alive /\ asked' = call
      BY <1>1, <2>2 DEF Extract, HasVertices, Clear, Begin
    <2>4. saved'.edges = edges /\ saved'.model = model /\ asked'.clip = call.clip
      BY <2>3
    <2>6. /\ ~refused /\ asked'.model = "default" => saved'.model = "star"
          /\ ~refused /\ asked'.weight = "default" => saved'.weight = "a"
      BY <1>1, <2>3 DEF ModelsInv
    <2>5. Ends(edges) = {e \in Ends(Edges(model, insts)) : {e[2], e[3]} \subseteq C}
      BY <2>1, EdgesOfSubset
    <2> HIDE DEF edges, model, C
    <2> QED
      BY <2>1, <2>3, <2>4, <2>5, <2>6 DEF GraphStep
  <1>2. ASSUME NEW call \in Calls, UnknownWeight(call)
        PROVE  GraphStep
    BY <1>2 DEF UnknownWeight, Begin, GraphStep
  <1>3. ASSUME NEW call \in Calls, NoOutFile(call) \/ NoRows(call) \/ BadClip(call)
        PROVE  GraphStep
    BY <1>3 DEF NoOutFile, NoRows, BadClip, GraphStep
  <1>4. ASSUME NEW i \in Inst, Destroy(i) \/ \E b \in Boxes : Move(i, b)
        PROVE  GraphStep
    BY <1>4 DEF Destroy, Move, Other, GraphStep
  <1>5. ASSUME MakeRows
        PROVE  GraphStep
    BY <1>5 DEF MakeRows, Other, GraphStep
  <1>6. ModelsInv /\ [Next]_vars => [GraphStep]_vars
    BY <1>1, <1>2, <1>3, <1>4, <1>5 DEF Next
  <1> QED
    BY <1>6, ModelsInvHolds, PTL DEF Spec, GraphIsClipOfWhole, GraphStep

-----------------------------------------------------------------------------
(***************************************************************************)
(* Arithmetic: a product that fits an int does not wrap.                   *)
(***************************************************************************)

LEMMA Division ==
    ASSUME NEW a \in Nat, NEW d \in Nat \ {0}
    PROVE  a \div d \in Int /\ a % d \in 0..d-1 /\ a = (a \div d) * d + (a % d)
  OBVIOUS

LEMMA SmallMultiple ==
    ASSUME NEW k \in Int, NEW d \in Nat \ {0}, -d < k * d, k * d < d
    PROVE  k = 0
  <1>1. CASE k >= 1
    <2>1. k * d >= d
      BY <1>1
    <2> QED
      BY <2>1
  <1>2. CASE k <= -1
    <2>1. (-k) * d >= d
      BY <1>2
    <2>2. (-k) * d = -(k * d)
      OBVIOUS
    <2> QED
      BY <2>1, <2>2
  <1> QED
    BY <1>1, <1>2

LEMMA WrappedFits ==
    ASSUME NEW x \in Nat, x < Half
    PROVE  Wrapped(x) = x
  <1> DEFINE a == x + Half
             d == 2 * Half
             q == a \div d
             r == a % d
  <1>1. a \in Nat /\ d \in Nat \ {0} /\ a < d
    BY ClipGraphAssumption
  <1> HIDE DEF a, d
  <1>2. q \in Int /\ r \in 0..d-1 /\ a = q * d + r
    BY <1>1, Division
  <1> HIDE DEF q, r
  <1>3. q * d \in Int
    BY <1>1, <1>2
  <1>4. q = 0
    BY <1>1, <1>2, <1>3, SmallMultiple
  <1>5. r = a
    BY <1>1, <1>2, <1>4
  <1> QED
    BY <1>5, ClipGraphAssumption DEF Wrapped, r, a, d

LEMMA Powers ==
    ASSUME NEW f \in Nat, f > 1
    PROVE  /\ f * (f - 1) \in Nat /\ f * (f - 1) > 0 /\ f * (f - 1) < f * f
           /\ f * f \in Nat /\ f * f <= f * f * f /\ f * f * f \in Nat /\ f * f * f > 0
  <1> DEFINE g == f * f
  <1>1. f * (f - 1) = g - f /\ g \in Nat
    OBVIOUS
  <1>2. g >= 2 * f
    <2>1. (f - 2) * f >= 0
      OBVIOUS
    <2>2. (f - 2) * f = g - 2 * f
      OBVIOUS
    <2> QED
      BY <2>1, <2>2
  <1> HIDE DEF g
  <1>3. g * f \in Nat /\ g * f >= g
    <2>1. g * (f - 1) >= 0
      BY <1>1
    <2>2. g * (f - 1) = g * f - g
      BY <1>1
    <2> QED
      BY <1>1, <2>1, <2>2
  <1> QED
    BY <1>1, <1>2, <1>3 DEF g

LEMMA DivisorIsPositive ==
    ASSUME NEW f \in Nat, f > 1, f * f * f < Half, NEW w \in {"a", "b", "c", "d", "e"}
    PROVE  Divisor(w, f) > 0
  <1>0. Half \in Nat
    BY ClipGraphAssumption
  <1>1. CASE w = "a"
    <2>1. f * (f - 1) \in Nat /\ f * (f - 1) > 0 /\ f * (f - 1) < Half
      BY <1>0, Powers
    <2> QED
      BY <1>1, <2>1, WrappedFits DEF Divisor
  <1>2. CASE w = "c"
    <2>1. f * f \in Nat /\ f * f < Half /\ f * f * f \in Nat /\ f * f * f > 0
      BY <1>0, Powers
    <2>2. Wrapped(f * f) = f * f /\ Wrapped(f * f * f) = f * f * f
      BY <2>1, WrappedFits
    <2> QED
      BY <1>2, <2>1, <2>2 DEF Divisor
  <1>3. CASE w \in {"b", "d", "e"}
    BY <1>3 DEF Divisor
  <1> QED
    BY <1>1, <1>2, <1>3

-----------------------------------------------------------------------------
(***************************************************************************)
(* Every edge counts at least its two ends.                                *)
(***************************************************************************)

LEMMA FanoutCountsEnds ==
    ASSUME insts \subseteq Inst, NEW C \in SUBSET insts, NEW model, NEW e \in Edges(model, C)
    PROVE  e.fanout \in Nat /\ e.fanout > 1
  <1>0. ASSUME NEW n
        PROVE  IsFiniteSet(OnNet(C, n))
    <2>1. OnNet(C, n) \in SUBSET Inst
      BY DEF OnNet
    <2> QED
      BY <2>1, FS_Subset, ClipGraphAssumption
  <1>1. CASE model = "star"
    <2>1. PICK n : e \in StarOf(C, n)
      BY <1>1 DEF Edges, StarEdges
    <2> DEFINE sinks == OnNet(C, n) \ {SourceInst(n)}
    <2>2. PICK s \in sinks : e = Edge(n, SourceInst(n), s, 1 + Cardinality(sinks))
      BY <2>1 DEF StarOf
    <2>3. IsFiniteSet(sinks)
      BY <1>0, FS_RemoveElement
    <2>4. Cardinality(sinks) \in Nat /\ Cardinality(sinks) # 0
      BY <2>2, <2>3, FS_CardinalityType, FS_EmptySet
    <2>5. e.fanout = 1 + Cardinality(sinks)
      BY <2>2 DEF Edge
    <2> QED
      BY <2>4, <2>5
  <1>2. CASE model # "star"
    <2>1. PICK n : e \in CliqueOf(C, n)
      BY <1>2 DEF Edges, CliqueEdges
    <2> DEFINE net == OnNet(C, n)
    <2>2. PICK p \in net \X net : p[1] # p[2] /\ e = Edge(n, p[1], p[2], Cardinality(net))
      BY <2>1 DEF CliqueOf
    <2>3. e.fanout = Cardinality(net) /\ p[1] \in net /\ p[2] \in net \ {p[1]}
      BY <2>2 DEF Edge
    <2>4. IsFiniteSet(net)
      BY <1>0
    <2> HIDE DEF net
    <2>5. IsFiniteSet(net \ {p[1]}) /\ Cardinality(net \ {p[1]}) = Cardinality(net) - 1
      BY <2>3, <2>4, FS_RemoveElement
    <2>6. Cardinality(net \ {p[1]}) \in Nat /\ Cardinality(net \ {p[1]}) # 0
      BY <2>3, <2>5, FS_CardinalityType, FS_EmptySet
    <2>7. Cardinality(net) \in Nat
      BY <2>4, FS_CardinalityType
    <2> QED
      BY <2>3, <2>5, <2>6, <2>7
  <1> QED
    BY <1>1, <1>2

Weights == {"a", "b", "c", "d", "e"}

\* The inductive invariant: what is in the file was collected from the block.
SavedInv ==
    /\ insts \subseteq Inst
    /\ edgeWeightModel_ \in Weights /\ saved.weight \in Weights
    /\ \A e \in saved.edges : e.fanout \in Nat /\ e.fanout > 1

LEMMA CallHasWeight ==
    ASSUME NEW call \in Calls
    PROVE  call.weight \in Weights \cup {"default", "unknown"}
  BY ClipGraphAssumption DEF CallType, Weights

LEMMA SavedInvStep == SavedInv /\ [Next]_vars => SavedInv'
  <1> SUFFICES ASSUME SavedInv, [Next]_vars PROVE SavedInv'
    OBVIOUS
  <1>1. ASSUME NEW call \in Calls, UnknownWeight(call)
        PROVE  SavedInv'
    BY <1>1 DEF UnknownWeight, SavedInv, block, settings
  <1>2. ASSUME NEW call \in Calls, NoOutFile(call) \/ NoRows(call) \/ BadClip(call)
        PROVE  SavedInv'
    <2>1. edgeWeightModel_' \in Weights
      BY <1>2, CallHasWeight DEF NoOutFile, NoRows, BadClip, SetEdgeWeightModel, SavedInv
    <2> QED
      BY <1>2, <2>1 DEF NoOutFile, NoRows, BadClip, SavedInv, block
  <1>3. ASSUME NEW call \in Calls, Extract(call)
        PROVE  SavedInv'
    <2> DEFINE model == IF call.model \in {"star", "clique"} THEN call.model ELSE graphModel_
               weight == IF call.weight = "default" THEN edgeWeightModel_ ELSE call.weight
               C == Query(InitTree, call.clip)
               edges == Edges(model, C)
    <2>1. C \in SUBSET insts
      BY QueryFindsClip
    <2>2. \A e \in edges : {e.from, e.to} \subseteq C
      BY <2>1, EdgesHaveVertices
    <2>3. /\ saved' = [file |-> call.file, model |-> model, weight |-> weight, edges |-> edges]
          /\ insts' = insts /\ edgeWeightModel_' = "a" /\ call.weight # "unknown"
      BY <1>3, <2>2 DEF Extract, HasVertices, Clear, block
    <2>4. weight \in Weights
      BY <2>3, CallHasWeight DEF SavedInv
    <2>5. \A e \in edges : e.fanout \in Nat /\ e.fanout > 1
      BY <2>1, FanoutCountsEnds DEF SavedInv
    <2>6. saved'.weight = weight /\ saved'.edges = edges
      BY <2>3
    <2> HIDE DEF edges, weight
    <2> QED
      BY <2>3, <2>4, <2>5, <2>6 DEF SavedInv, Weights
  <1>4. ASSUME NEW i \in Inst, Destroy(i) \/ \E b \in Boxes : Move(i, b)
        PROVE  SavedInv'
    BY <1>4 DEF Destroy, Move, Other, SavedInv, settings
  <1>5. ASSUME MakeRows
        PROVE  SavedInv'
    BY <1>5 DEF MakeRows, Other, SavedInv, settings
  <1>6. ASSUME UNCHANGED vars
        PROVE  SavedInv'
    BY <1>6 DEF vars, SavedInv, settings, block
  <1> QED
    BY <1>1, <1>2, <1>3, <1>4, <1>5, <1>6 DEF Next

(***************************************************************************)
(* No edge that is written has a weight that is infinite or negative,      *)
(* unless the third power of its fanout is no int.                         *)
(***************************************************************************)
THEOREM WeightsArePositiveHolds == Spec => []WeightsArePositive
  <1>1. Init => SavedInv
    BY DEF Init, SavedInv, Weights
  <1>2. SavedInv => WeightsArePositive
    BY DivisorIsPositive DEF SavedInv, WeightsArePositive, Weights
  <1> QED
    BY <1>1, <1>2, SavedInvStep, PTL DEF Spec

=============================================================================
