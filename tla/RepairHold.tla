----------------------------- MODULE RepairHold -----------------------------
(***************************************************************************)
(* The passes of repair_hold_violations                                    *)
(* (repairHoldViolations, repairHoldPass, findHoldViolations,              *)
(* findFaninWeights and sortFaninsByWeight of                              *)
(* src/src/resizer/src/Resizer.cc).                                        *)
(*                                                                         *)
(* What an inserted buffer does to the netlist is Resizer!MakeHoldDelay.   *)
(* Here it delays every path through its driver.  Paths stand for the      *)
(* timing graph: the hold slack of an endpoint or of a driver is the least *)
(* slack of the paths that end there or lead through it.  A buffer is a    *)
(* driver too, with the paths of the driver it was put behind: the next    *)
(* pass finds 1 + bufs[d] vertices in place of driver d.                   *)
(***************************************************************************)
EXTENDS Integers, FiniteSets, FiniteSetsExt

CONSTANTS
    Driver, End, Path,
    Through,    \* Through[p]: the drivers on path p that are no endpoints and no clocks
    To,         \* To[p]: the endpoint of path p
    Clock,      \* endpoints in the clock network
    Special,    \* drivers of special nets
    Slacks,     \* hold slacks a path may have at first
    Gains,      \* what a buffer may add to the delay of the paths through it
    Requests,   \* sets of endpoints to repair: all, or the one that is named
    MinRepairs, \* 10: a pass inserts as many buffers however few ends there are
    AreaLimits  \* how many buffers fit below max_area_; -1 for no limit

ASSUME RepairHoldAssumption ==
    /\ IsFiniteSet(Path) /\ IsFiniteSet(End)
    /\ Through \in [Path -> SUBSET Driver] /\ To \in [Path -> End]
    /\ Clock \subseteq End /\ Special \subseteq Driver
    /\ Slacks \subseteq Int /\ Gains \subseteq Nat \ {0}
    /\ Requests \subseteq SUBSET End
    /\ MinRepairs \in Nat \ {0} /\ AreaLimits \subseteq Int

VARIABLES
    slack,        \* hold slack of each path
    request,      \* the endpoints the command was given
    limit,        \* how many buffers fit
    pc,
    ends,         \* ends: those that still violate
    bufs,         \* buffers behind each driver
    weight_map,   \* the slack of each driver at the beginning of the pass
    left,         \* vertices of each driver the pass has not come to
    repair_count, \* buffers of this pass
    inserted_buffer_count_,
    level_drvr_verticies_valid_

pass == <<weight_map, left>>
vars == <<slack, request, limit, pc, ends, bufs, pass, repair_count,
          inserted_buffer_count_, level_drvr_verticies_valid_>>

Violates(e) == \E p \in Path : To[p] = e /\ slack[p] < 0

FindHoldViolations(S) == {e \in S \ Clock : Violates(e)}

\* findFaninWeights: the drivers found going back from the ends.
Fanins == {d \in Driver : \E p \in Path : d \in Through[p] /\ To[p] \in ends}

VertexSlack(d) == Min({slack[p] : p \in {q \in Path : d \in Through[q]}})
HoldSlackIsNegative(d) == \E p \in Path : d \in Through[p] /\ slack[p] < 0

OverMaxArea(n) == limit >= 0 /\ n > limit

MaxRepairCount ==
    LET fifth == Cardinality(ends) \div 5 IN IF fifth > MinRepairs THEN fifth ELSE MinRepairs

-----------------------------------------------------------------------------
Init ==
    /\ slack \in [Path -> Slacks]
    /\ request \in Requests /\ limit \in AreaLimits
    /\ pc = "start" /\ ends = {} /\ bufs = [d \in Driver |-> 0]
    /\ weight_map = [d \in Driver |-> 0] /\ left = [d \in Driver |-> 0]
    /\ repair_count = 0 /\ inserted_buffer_count_ = 0
    /\ level_drvr_verticies_valid_ \in BOOLEAN

\* The commands: init() has made the level order, if there was none.
Start ==
    /\ pc = "start"
    /\ ends' = FindHoldViolations(request)
    /\ repair_count' = 1
    /\ level_drvr_verticies_valid_' = TRUE
    /\ pc' = "passes"
    /\ UNCHANGED <<slack, request, limit, bufs, pass, inserted_buffer_count_>>

BeginPass ==
    /\ pc = "passes" /\ ends # {} /\ repair_count > 0
    /\ weight_map' = [d \in Driver |-> IF d \in Fanins THEN VertexSlack(d) ELSE 0]
    /\ left' = [d \in Driver |-> IF d \in Fanins THEN 1 + bufs[d] ELSE 0]
    /\ repair_count' = 0
    /\ pc' = "pass"
    /\ UNCHANGED <<slack, request, limit, ends, bufs, inserted_buffer_count_,
                   level_drvr_verticies_valid_>>

\* The least weight first; ties are broken by the setup slack and the level.
Comes(d) ==
    /\ pc = "pass" /\ repair_count < MaxRepairCount
    /\ left[d] > 0 /\ \A e \in Driver : left[e] > 0 => weight_map[d] <= weight_map[e]

\* Mutant: a driver that is passed over is counted.
SkipFaninCounts(d) ==
    /\ Comes(d) /\ (~HoldSlackIsNegative(d) \/ d \in Special)
    /\ left' = [left EXCEPT ![d] = @ - 1]
    /\ repair_count' = repair_count + 1
    /\ UNCHANGED <<slack, request, limit, pc, ends, bufs, weight_map,
                   inserted_buffer_count_, level_drvr_verticies_valid_>>

\* Mutant: a driver that is passed over ends the pass.
SkipFaninBreaks(d) ==
    /\ Comes(d) /\ (~HoldSlackIsNegative(d) \/ d \in Special)
    /\ left' = [e \in Driver |-> 0]
    /\ UNCHANGED <<slack, request, limit, pc, ends, bufs, weight_map, repair_count,
                   inserted_buffer_count_, level_drvr_verticies_valid_>>

SkipFanin(d) ==
    /\ Comes(d) /\ (~HoldSlackIsNegative(d) \/ d \in Special)
    /\ left' = [left EXCEPT ![d] = @ - 1]
    /\ UNCHANGED <<slack, request, limit, pc, ends, bufs, weight_map, repair_count,
                   inserted_buffer_count_, level_drvr_verticies_valid_>>

\* Mutant: over the limit the pass goes on.
RepairFaninOn(d, gain) ==
    /\ Comes(d) /\ HoldSlackIsNegative(d) /\ d \notin Special
    /\ slack' = [p \in Path |-> IF d \in Through[p] THEN slack[p] + gain ELSE slack[p]]
    /\ bufs' = [bufs EXCEPT ![d] = @ + 1]
    /\ left' = [left EXCEPT ![d] = @ - 1]
    /\ inserted_buffer_count_' = inserted_buffer_count_ + 1
    /\ repair_count' = repair_count + 1
    /\ UNCHANGED <<request, limit, pc, ends, weight_map, level_drvr_verticies_valid_>>

\* makeHoldDelay.  Over the limit the pass, and only the pass, comes to its end.
RepairFanin(d, gain) ==
    /\ Comes(d) /\ HoldSlackIsNegative(d) /\ d \notin Special
    /\ slack' = [p \in Path |-> IF d \in Through[p] THEN slack[p] + gain ELSE slack[p]]
    /\ bufs' = [bufs EXCEPT ![d] = @ + 1]
    /\ inserted_buffer_count_' = inserted_buffer_count_ + 1
    /\ left' = IF OverMaxArea(inserted_buffer_count_') THEN [e \in Driver |-> 0]
               ELSE [left EXCEPT ![d] = @ - 1]
    /\ repair_count' = repair_count + 1
    /\ UNCHANGED <<request, limit, pc, ends, weight_map, level_drvr_verticies_valid_>>

EndPass ==
    /\ pc = "pass"
    /\ repair_count >= MaxRepairCount \/ \A d \in Driver : left[d] = 0
    /\ ends' = FindHoldViolations(ends)
    /\ pc' = "passes"
    /\ UNCHANGED <<slack, request, limit, bufs, pass, repair_count, inserted_buffer_count_,
                   level_drvr_verticies_valid_>>

Finish ==
    /\ pc = "passes" /\ (ends = {} \/ repair_count = 0)
    /\ level_drvr_verticies_valid_' =
          (level_drvr_verticies_valid_ /\ inserted_buffer_count_ = 0)
    /\ pc' = "done"
    /\ UNCHANGED <<slack, request, limit, ends, bufs, pass, repair_count, inserted_buffer_count_>>

Next ==
    \/ Start \/ BeginPass \/ EndPass \/ Finish
    \/ \E d \in Driver : SkipFanin(d) \/ \E gain \in Gains : RepairFanin(d, gain)

\* The function runs until it returns.
Spec == Init /\ [][Next]_vars /\ WF_vars(Next)

-----------------------------------------------------------------------------
(***************************************************************************)
(* Properties.                                                             *)
(***************************************************************************)
TypeOK ==
    /\ slack \in [Path -> Int] /\ request \in Requests /\ limit \in AreaLimits
    /\ pc \in {"start", "passes", "pass", "done"}
    /\ ends \subseteq request
    /\ bufs \in [Driver -> Nat] /\ left \in [Driver -> Nat]
    /\ repair_count \in Nat /\ inserted_buffer_count_ \in Nat
    /\ level_drvr_verticies_valid_ \in BOOLEAN

(***************************************************************************)
(* The passes end with every violation repaired that can be: a path that   *)
(* is still too short leads through special nets only, whatever the order  *)
(* of the drivers, the cap on a pass and the area limit did to the passes. *)
(***************************************************************************)
HoldRepaired ==
    pc = "done" =>
       \A p \in Path : To[p] \in request \ Clock /\ slack[p] < 0 => Through[p] \subseteq Special

(***************************************************************************)
(* The area limit does not end the command, but past it a pass inserts one *)
(* buffer at most: it is overrun by no more buffers than there are passes. *)
(***************************************************************************)
OnePerPassOverLimit ==
    pc = "pass" /\ repair_count > 1 => ~OverMaxArea(inserted_buffer_count_ - 1)

\* If each buffer delays the paths through it, the passes come to an end.
Terminates == <>(pc = "done")

=============================================================================
