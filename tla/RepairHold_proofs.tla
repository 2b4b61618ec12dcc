-------------------------- MODULE RepairHold_proofs --------------------------
(***************************************************************************)
(* Proofs about RepairHold, for any paths, drivers, slacks, limits and     *)
(* order in which the drivers come.                                        *)
(***************************************************************************)
EXTENDS RepairHold, FiniteSetTheorems, TLAPS

-----------------------------------------------------------------------------
(***************************************************************************)
(* The inductive invariant.  What is said of `ends' would not hold by      *)
(* itself: no path gets slower than it was, so an endpoint that was        *)
(* dropped stays repaired.                                                 *)
(***************************************************************************)
Begun == pc \in {"passes", "pass", "done"}

EndsViolate ==
    Begun => \A e \in request \ Clock : Violates(e) => e \in ends

\* A pass that has inserted nothing has yet to come to each driver it can repair.
NoneMissed ==
    pc = "pass" /\ repair_count = 0 =>
       \A d \in Fanins \ Special : HoldSlackIsNegative(d) => left[d] > 0

\* A pass that inserted nothing leaves nothing to repair.
NothingLeft ==
    pc \in {"passes", "done"} /\ repair_count = 0 =>
       \A d \in Fanins \ Special : ~HoldSlackIsNegative(d)

DoneEmptyOrStuck == pc = "done" => ends = {} \/ repair_count = 0

\* Over the limit the pass is at its end.
LimitEndsPass ==
    pc = "pass" /\ repair_count > 0 /\ OverMaxArea(inserted_buffer_count_) =>
       \A d \in Driver : left[d] = 0

IInv ==
    /\ TypeOK /\ EndsViolate /\ NoneMissed /\ NothingLeft /\ DoneEmptyOrStuck
    /\ LimitEndsPass /\ OnePerPassOverLimit

-----------------------------------------------------------------------------
(***************************************************************************)
(* Lemmas.                                                                 *)
(***************************************************************************)

LEMMA Division ==
    ASSUME NEW a \in Nat
    PROVE  a \div 5 \in Nat
  OBVIOUS

LEMMA CapIsPositive ==
    ASSUME ends \subseteq End
    PROVE  MaxRepairCount \in Nat \ {0}
  <1>1. IsFiniteSet(ends)
    BY FS_Subset, RepairHoldAssumption
  <1>2. Cardinality(ends) \in Nat
    BY <1>1, FS_CardinalityType
  <1>3. Cardinality(ends) \div 5 \in Nat
    BY <1>2, Division
  <1> QED
    BY <1>3, RepairHoldAssumption DEF MaxRepairCount

LEMMA EndsAreEnds ==
    ASSUME TypeOK
    PROVE  ends \subseteq End /\ request \subseteq End
  BY RepairHoldAssumption DEF TypeOK

\* A buffer makes no path violate and takes no driver's negative slack for another's.
LEMMA BuffersHelp ==
    ASSUME TypeOK, NEW gain \in Gains, NEW d \in Driver, RepairFanin(d, gain)
    PROVE  /\ slack' \in [Path -> Int]
           /\ \A p \in Path : slack'[p] < 0 => slack[p] < 0
           /\ \A e \in End : Violates(e)' => Violates(e)
  <1>1. slack' = [p \in Path |-> IF d \in Through[p] THEN slack[p] + gain ELSE slack[p]]
    BY DEF RepairFanin
  <1>2. slack \in [Path -> Int] /\ gain \in Nat
    BY RepairHoldAssumption DEF TypeOK
  <1>3. slack' \in [Path -> Int]
    BY <1>1, <1>2
  <1>4. ASSUME NEW p \in Path, slack'[p] < 0
        PROVE  slack[p] < 0
    BY <1>1, <1>2, <1>4
  <1>5. ASSUME NEW e \in End, Violates(e)'
        PROVE  Violates(e)
    BY <1>4, <1>5 DEF Violates
  <1> QED
    BY <1>3, <1>4, <1>5

-----------------------------------------------------------------------------
(***************************************************************************)
(* Each step keeps the invariant.                                          *)
(***************************************************************************)

LEMMA InitEstablishes == Init => IInv
  <1> SUFFICES ASSUME Init PROVE IInv
    OBVIOUS
  <1>1. slack \in [Path -> Int]
    BY RepairHoldAssumption DEF Init
  <1>2. bufs \in [Driver -> Nat] /\ left \in [Driver -> Nat]
    BY DEF Init
  <1>3. TypeOK
    BY <1>1, <1>2 DEF Init, TypeOK
  <1>4. EndsViolate /\ NoneMissed /\ NothingLeft /\ DoneEmptyOrStuck /\ LimitEndsPass
        /\ OnePerPassOverLimit
    BY DEF Init, EndsViolate, NoneMissed, NothingLeft, DoneEmptyOrStuck,
           LimitEndsPass, OnePerPassOverLimit, Begun
  <1> QED
    BY <1>3, <1>4 DEF IInv

LEMMA StartStep == IInv /\ Start => IInv'
  <1> SUFFICES ASSUME IInv, Start PROVE IInv'
    OBVIOUS
  <1> USE DEF IInv
  <1>1. TypeOK'
    <2>1. level_drvr_verticies_valid_' \in BOOLEAN
      BY Zenon DEF TypeOK, Start
    <2>2. ends' \subseteq request'
      BY DEF TypeOK, Start, FindHoldViolations
    <2>3. bufs' = bufs /\ left' = left /\ slack' = slack
      BY DEF Start, pass
    <2> QED
      BY <2>1, <2>2, <2>3 DEF TypeOK, Start
  <1>2. EndsViolate'
    BY DEF EndsViolate, Begun, Start, FindHoldViolations, Violates
  <1>3. NoneMissed' /\ NothingLeft' /\ DoneEmptyOrStuck' /\ LimitEndsPass' /\ OnePerPassOverLimit'
    BY DEF NoneMissed, NothingLeft, DoneEmptyOrStuck, LimitEndsPass, OnePerPassOverLimit, Start
  <1> QED
    BY <1>1, <1>2, <1>3

LEMMA BeginPassStep == IInv /\ BeginPass => IInv'
  <1> SUFFICES ASSUME IInv, BeginPass PROVE IInv'
    OBVIOUS
  <1> USE DEF IInv
  <1>1. TypeOK'
    BY DEF TypeOK, BeginPass
  <1>2. EndsViolate'
    BY DEF EndsViolate, Begun, BeginPass, Violates
  <1>3. NoneMissed'
    <2> SUFFICES ASSUME NEW d \in Fanins \ Special
                 PROVE  left'[d] > 0
      BY DEF NoneMissed, BeginPass, Fanins
    <2>1. d \in Driver /\ bufs[d] \in Nat
      BY DEF Fanins, TypeOK
    <2> QED
      BY <2>1 DEF BeginPass
  <1>4. NothingLeft' /\ DoneEmptyOrStuck' /\ LimitEndsPass' /\ OnePerPassOverLimit'
    BY DEF NothingLeft, DoneEmptyOrStuck, LimitEndsPass, OnePerPassOverLimit, BeginPass
  <1> QED
    BY <1>1, <1>2, <1>3, <1>4

LEMMA SkipStep == ASSUME IInv, NEW d \in Driver, SkipFanin(d) PROVE IInv'
  <1> USE DEF IInv
  <1>0. left \in [Driver -> Nat] /\ left[d] > 0 /\ left' = [left EXCEPT ![d] = @ - 1]
    BY DEF TypeOK, SkipFanin, Comes
  <1>1. TypeOK'
    <2>1. left' \in [Driver -> Nat]
      BY <1>0
    <2> QED
      BY <2>1 DEF TypeOK, SkipFanin
  <1>2. EndsViolate'
    BY DEF EndsViolate, Begun, SkipFanin, Violates
  <1>3. NoneMissed'
    <2> SUFFICES ASSUME pc = "pass", repair_count = 0,
                        NEW e \in Fanins \ Special, HoldSlackIsNegative(e)
                 PROVE  left'[e] > 0
      BY DEF NoneMissed, SkipFanin, Fanins, HoldSlackIsNegative
    <2>1. e # d
      BY DEF SkipFanin
    <2>2. left[e] > 0 /\ e \in Driver
      BY DEF NoneMissed, Fanins
    <2> QED
      BY <1>0, <2>1, <2>2
  <1>4. LimitEndsPass'
    BY <1>0 DEF LimitEndsPass, OverMaxArea, SkipFanin, Comes
  <1>5. NothingLeft' /\ DoneEmptyOrStuck' /\ OnePerPassOverLimit'
    BY DEF NothingLeft, DoneEmptyOrStuck, OnePerPassOverLimit, OverMaxArea, SkipFanin, Comes
  <1> QED
    BY <1>1, <1>2, <1>3, <1>4, <1>5

LEMMA RepairStep ==
    ASSUME IInv, NEW d \in Driver, NEW gain \in Gains, RepairFanin(d, gain)
    PROVE  IInv'
  <1> USE DEF IInv
  <1>0. /\ left \in [Driver -> Nat] /\ left[d] > 0 /\ pc = "pass" /\ pc' = "pass"
        /\ inserted_buffer_count_ \in Nat /\ repair_count \in Nat
        /\ inserted_buffer_count_' = inserted_buffer_count_ + 1
        /\ repair_count' = repair_count + 1 /\ limit' = limit /\ limit \in Int
    BY RepairHoldAssumption DEF TypeOK, RepairFanin, Comes
  <1>1. TypeOK'
    <2>1. slack' \in [Path -> Int]
      BY BuffersHelp
    <2>2. bufs' \in [Driver -> Nat]
      BY DEF TypeOK, RepairFanin
    <2>3. left' \in [Driver -> Nat]
      BY <1>0 DEF RepairFanin
    <2> QED
      BY <1>0, <2>1, <2>2, <2>3 DEF TypeOK, RepairFanin
  <1>2. EndsViolate'
    <2> SUFFICES ASSUME NEW e \in request \ Clock, Violates(e)'
                 PROVE  e \in ends
      BY DEF EndsViolate, RepairFanin
    <2>1. Violates(e)
      BY BuffersHelp, EndsAreEnds
    <2> QED
      BY <1>0, <2>1 DEF EndsViolate, Begun
  <1>3. NoneMissed' /\ NothingLeft' /\ DoneEmptyOrStuck'
    BY <1>0 DEF NoneMissed, NothingLeft, DoneEmptyOrStuck
  <1>4. LimitEndsPass'
    <2> SUFFICES ASSUME OverMaxArea(inserted_buffer_count_')
                 PROVE  \A e \in Driver : left'[e] = 0
      BY <1>0 DEF LimitEndsPass, OverMaxArea
    <2> QED
      BY DEF RepairFanin
  <1>5. OnePerPassOverLimit'
    <2> SUFFICES ASSUME repair_count > 0, OverMaxArea(inserted_buffer_count_)
                 PROVE  FALSE
      BY <1>0 DEF OnePerPassOverLimit, OverMaxArea
    <2> QED
      BY <1>0 DEF LimitEndsPass
  <1> QED
    BY <1>1, <1>2, <1>3, <1>4, <1>5

LEMMA EndPassStep == IInv /\ EndPass => IInv'
  <1> SUFFICES ASSUME IInv, EndPass PROVE IInv'
    OBVIOUS
  <1> USE DEF IInv
  <1>1. TypeOK'
    <2>1. level_drvr_verticies_valid_' \in BOOLEAN
      BY Zenon DEF TypeOK, EndPass
    <2>2. ends' \subseteq request'
      BY DEF TypeOK, EndPass, FindHoldViolations
    <2>3. bufs' = bufs /\ left' = left /\ slack' = slack
      BY DEF EndPass, pass
    <2> QED
      BY <2>1, <2>2, <2>3 DEF TypeOK, EndPass
  <1>2. EndsViolate'
    BY DEF EndsViolate, Begun, EndPass, FindHoldViolations, Violates
  <1>3. NothingLeft'
    <2> SUFFICES ASSUME repair_count = 0, NEW d \in Fanins' \ Special
                 PROVE  ~HoldSlackIsNegative(d)
      BY DEF NothingLeft, EndPass, HoldSlackIsNegative
    <2>1. d \in Fanins
      BY DEF Fanins, EndPass, FindHoldViolations
    <2>2. ~(repair_count >= MaxRepairCount)
      BY CapIsPositive, EndsAreEnds
    <2>3. left[d] = 0
      BY <2>1, <2>2 DEF EndPass, Fanins
    <2> QED
      BY <2>1, <2>3 DEF NoneMissed, EndPass
  <1>4. NoneMissed' /\ DoneEmptyOrStuck' /\ LimitEndsPass' /\ OnePerPassOverLimit'
    BY DEF NoneMissed, DoneEmptyOrStuck, LimitEndsPass, OnePerPassOverLimit, EndPass
  <1> QED
    BY <1>1, <1>2, <1>3, <1>4

LEMMA FinishStep == IInv /\ Finish => IInv'
  <1> SUFFICES ASSUME IInv, Finish PROVE IInv'
    OBVIOUS
  <1> USE DEF IInv
  <1>1. TypeOK'
    <2>1. level_drvr_verticies_valid_' \in BOOLEAN
      BY Zenon DEF TypeOK, Finish
    <2> QED
      BY <2>1 DEF TypeOK, Finish, pass
  <1>2. EndsViolate'
    BY DEF EndsViolate, Begun, Finish, Violates
  <1>3. NothingLeft'
    BY DEF NothingLeft, Finish, Fanins, HoldSlackIsNegative
  <1>4. NoneMissed' /\ DoneEmptyOrStuck' /\ LimitEndsPass' /\ OnePerPassOverLimit'
    BY DEF NoneMissed, DoneEmptyOrStuck, LimitEndsPass, OnePerPassOverLimit, Finish
  <1> QED
    BY <1>1, <1>2, <1>3, <1>4

LEMMA StutterStep == IInv /\ UNCHANGED vars => IInv'
  BY DEF IInv, vars, pass, TypeOK, EndsViolate, NoneMissed, NothingLeft, DoneEmptyOrStuck,
         LimitEndsPass, OnePerPassOverLimit, Begun, Violates, Fanins, HoldSlackIsNegative,
         OverMaxArea

LEMMA NextStep == IInv /\ [Next]_vars => IInv'
  <1> SUFFICES ASSUME IInv, [Next]_vars PROVE IInv'
    OBVIOUS
  <1>1. CASE Start BY <1>1, StartStep
  <1>2. CASE BeginPass BY <1>2, BeginPassStep
  <1>3. CASE EndPass BY <1>3, EndPassStep
  <1>4. CASE Finish BY <1>4, FinishStep
  <1>5. ASSUME NEW d \in Driver, SkipFanin(d) PROVE IInv' BY <1>5, SkipStep
  <1>6. ASSUME NEW d \in Driver, NEW gain \in Gains, RepairFanin(d, gain) PROVE IInv'
    BY <1>6, RepairStep
  <1>7. CASE UNCHANGED vars BY <1>7, StutterStep
  <1> QED
    BY <1>1, <1>2, <1>3, <1>4, <1>5, <1>6, <1>7 DEF Next

LEMMA Inductive == Spec => []IInv
  BY InitEstablishes, NextStep, PTL DEF Spec

-----------------------------------------------------------------------------
(***************************************************************************)
(* When repair_hold_violations returns, no path to an endpoint it was      *)
(* given is too short, unless it leads through special nets only.          *)
(***************************************************************************)
THEOREM HoldRepairedHolds == Spec => []HoldRepaired
  <1>1. IInv => HoldRepaired
    <2> SUFFICES ASSUME IInv, pc = "done", NEW p \in Path, To[p] \in request \ Clock,
                        slack[p] < 0, NEW d \in Through[p], d \notin Special
                 PROVE  FALSE
      BY DEF HoldRepaired
    <2>1. Violates(To[p])
      BY DEF Violates
    <2>2. To[p] \in ends
      BY <2>1 DEF IInv, EndsViolate, Begun
    <2>3. repair_count = 0
      BY <2>2 DEF IInv, DoneEmptyOrStuck
    <2>4. d \in Driver
      BY RepairHoldAssumption
    <2>5. d \in Fanins /\ HoldSlackIsNegative(d)
      BY <2>2, <2>4 DEF Fanins, HoldSlackIsNegative
    <2> QED
      BY <2>3, <2>5 DEF IInv, NothingLeft
  <1> QED
    BY <1>1, Inductive, PTL

(***************************************************************************)
(* Once the area limit is passed, each further pass inserts at most one    *)
(* buffer.                                                                 *)
(***************************************************************************)
THEOREM OnePerPassOverLimitHolds == Spec => []OnePerPassOverLimit
  BY Inductive, PTL DEF IInv

(***************************************************************************)
(* The counts of the passes keep their types.                              *)
(***************************************************************************)
THEOREM TypesHold == Spec => []TypeOK
  BY Inductive, PTL DEF IInv

=============================================================================
