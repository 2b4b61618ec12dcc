-------------------------- MODULE Counting_proofs --------------------------
(***************************************************************************)
(* Sums over finite sets.  SumFunctionOnSet is a fold, which no induction  *)
(* of the provers follows.  But the sum of some numbers is how many marks  *)
(* there are if each number gets as many marks as it says, and sets of     *)
(* marks can be counted.                                                   *)
(***************************************************************************)
EXTENDS Integers, FiniteSets, Functions, Folds, FiniteSetTheorems, TLAPS

Marks(w, S) == {u \in S \X Nat : u[2] \in 1..w[u[1]]}

LEMMA IntervalSize ==
    ASSUME NEW a \in Int, NEW b \in Int, NEW k \in Nat, b = a + k - 1
    PROVE  IsFiniteSet(a..b) /\ Cardinality(a..b) = k
  <1>1. IsFiniteSet(a..b) /\ Cardinality(a..b) = IF a > b THEN 0 ELSE b - a + 1
    BY FS_Interval
  <1> QED
    BY <1>1

LEMMA DisjointSize ==
    ASSUME NEW S, IsFiniteSet(S), NEW T, IsFiniteSet(T), S \cap T = {}
    PROVE  /\ IsFiniteSet(S \cup T)
           /\ Cardinality(S \cup T) = Cardinality(S) + Cardinality(T)
           /\ Cardinality(S) \in Nat /\ Cardinality(T) \in Nat
  <1> DEFINE a == Cardinality(S)
             b == Cardinality(T)
  <1>1. /\ IsFiniteSet(S \cup T)
        /\ Cardinality(S \cup T) = Cardinality(S) + Cardinality(T) - Cardinality(S \cap T)
    BY FS_Union
  <1>2. Cardinality(S \cap T) = 0
    BY FS_EmptySet, Zenon
  <1>3. a \in Nat /\ b \in Nat
    BY FS_CardinalityType
  <1> HIDE DEF a, b
  <1>4. a + b - 0 = a + b
    BY <1>3
  <1> QED
    BY <1>1, <1>2, <1>3, <1>4, Zenon DEF a, b

LEMMA ImageFinite ==
    ASSUME NEW S, IsFiniteSet(S), NEW f
    PROVE  IsFiniteSet({f[x] : x \in S})
  <1> DEFINE T == {f[x] : x \in S}
             g == [x \in S |-> f[x]]
  <1>1. g \in Surjection(S, T)
    BY DEF Surjection
  <1> HIDE DEF T, g
  <1> QED
    BY <1>1, FS_Surjection DEF T

Column(x, a, b) == {<<x, h>> : h \in a..b}

\* As many pairs as there are numbers in the interval of their second halves.
LEMMA ColumnSize ==
    ASSUME NEW x, NEW a \in Int, NEW b \in Int, NEW k \in Nat, b = a + k - 1
    PROVE  IsFiniteSet(Column(x, a, b)) /\ Cardinality(Column(x, a, b)) = k
  <1> DEFINE f == [h \in a..b |-> <<x, h>>]
             U == Column(x, a, b)
  <1>1. \A u \in U : u[2] \in a..b /\ u = <<x, u[2]>>
    BY DEF Column
  <1>2. \A h \in a..b : <<x, h>> \in U
    BY DEF Column
  <1> HIDE DEF U
  <1>3. f \in Bijection(a..b, U)
    <2>1. f \in [a..b -> U]
      BY <1>2
    <2>2. \A h, j \in a..b : f[h] = f[j] => h = j
      OBVIOUS
    <2>3. \A u \in U : \E h \in a..b : f[h] = u
      BY <1>1
    <2> QED
      BY <2>1, <2>2, <2>3 DEF Bijection, Injection, Surjection, IsInjective
  <1>4. ExistsBijection(a..b, U)
    BY <1>3 DEF ExistsBijection
  <1> HIDE DEF f
  <1>5. \A A : IsFiniteSet(A) /\ ExistsBijection(A, U)
                  => IsFiniteSet(U) /\ Cardinality(U) = Cardinality(A)
    BY FS_Bijection
  <1>6. IsFiniteSet(a..b) /\ Cardinality(a..b) = k
    BY IntervalSize
  <1> QED
    BY <1>4, <1>5, <1>6 DEF U

LEMMA MarksOfOne ==
    ASSUME NEW w, NEW x, w[x] \in Nat
    PROVE  IsFiniteSet(Marks(w, {x})) /\ Cardinality(Marks(w, {x})) = w[x]
  <1> DEFINE k == w[x]
             a == 1
  <1>1. Marks(w, {x}) = Column(x, a, k)
    BY DEF Marks, Column
  <1>2. k \in Nat /\ k \in Int /\ a \in Int /\ k = a + k - 1
    OBVIOUS
  <1> HIDE DEF k, a
  <1>3. IsFiniteSet(Column(x, a, k)) /\ Cardinality(Column(x, a, k)) = k
    BY <1>2, ColumnSize
  <1> QED
    BY <1>1, <1>3 DEF k

LEMMA MarksAdd ==
    ASSUME NEW w, NEW S, NEW x, x \notin S, w[x] \in Nat, IsFiniteSet(Marks(w, S))
    PROVE  /\ IsFiniteSet(Marks(w, S \cup {x}))
           /\ Cardinality(Marks(w, S \cup {x})) = Cardinality(Marks(w, S)) + w[x]
  <1>1. Marks(w, S \cup {x}) = Marks(w, S) \cup Marks(w, {x})
    BY DEF Marks
  <1>2. Marks(w, S) \cap Marks(w, {x}) = {}
    BY DEF Marks
  <1>3. IsFiniteSet(Marks(w, {x})) /\ Cardinality(Marks(w, {x})) = w[x]
    BY MarksOfOne
  <1>4. /\ IsFiniteSet(Marks(w, S) \cup Marks(w, {x}))
        /\ Cardinality(Marks(w, S) \cup Marks(w, {x}))
             = Cardinality(Marks(w, S)) + Cardinality(Marks(w, {x}))
    BY <1>2, <1>3, DisjointSize
  <1> QED
    BY <1>1, <1>3, <1>4

\* Of some subsets of a finite set there is one that is in no other of them.
LEMMA SmallestSet ==
    ASSUME NEW S, IsFiniteSet(S), NEW B, B \subseteq SUBSET S, B # {}
    PROVE  \E s \in B : \A x \in s : s \ {x} \notin B
  <1>1. IsWellFoundedOn(StrictSubsetOrdering(S), SUBSET S)
    BY FS_StrictSubsetOrderingWellFounded, FS_FiniteSubsetsOfFinite
  <1>2. PICK s \in B : \A t \in B : ~(<<t, s>> \in StrictSubsetOrdering(S))
    BY <1>1, WFMin
  <1>3. ASSUME NEW x \in s, s \ {x} \in B PROVE FALSE
    <2>1. s \ {x} \subseteq s /\ s \ {x} # s /\ s \in SUBSET S /\ s \ {x} \in SUBSET S
      BY <1>3
    <2>2. <<s \ {x}, s>> \in StrictSubsetOrdering(S)
      BY <2>1 DEF StrictSubsetOrdering
    <2> QED
      BY <1>2, <1>3, <2>2
  <1> QED
    BY <1>3

LEMMA MaxOfFinite ==
    ASSUME NEW S, IsFiniteSet(S), S \subseteq Int, S # {}
    PROVE  \E x \in S : \A y \in S : x >= y
  <1> DEFINE B == {s \in SUBSET S : s # {} /\ \A x \in s : \E y \in s : ~(x >= y)}
  <1> SUFFICES ASSUME B # {} PROVE FALSE
    OBVIOUS
  <1>1. PICK s \in B : \A x \in s : s \ {x} \notin B
    <2>1. B \subseteq SUBSET S
      OBVIOUS
    <2> HIDE DEF B
    <2> QED
      BY <2>1, SmallestSet
  <1>2. PICK x \in s : TRUE
    OBVIOUS
  <1>3. PICK y \in s : ~(x >= y)
    OBVIOUS
  <1>4. y \in s \ {x} /\ s \subseteq Int
    BY <1>2, <1>3
  <1>5. PICK z \in s \ {x} : \A t \in s \ {x} : z >= t
    BY <1>1, <1>2, <1>4
  <1>6. z >= x
    BY <1>2, <1>3, <1>4, <1>5
  <1>7. PICK t \in s : ~(z >= t)
    OBVIOUS
  <1> QED
    BY <1>5, <1>6, <1>7

LEMMA MarksFinite ==
    ASSUME NEW S, IsFiniteSet(S), NEW w, \A i \in S : w[i] \in Nat
    PROVE  \A s \in SUBSET S : IsFiniteSet(Marks(w, s))
  <1> DEFINE B == {s \in SUBSET S : ~IsFiniteSet(Marks(w, s))}
  <1> SUFFICES ASSUME B # {} PROVE FALSE
    OBVIOUS
  <1>1. PICK s \in B : \A x \in s : s \ {x} \notin B
    <2>1. B \subseteq SUBSET S
      OBVIOUS
    <2> HIDE DEF B
    <2> QED
      BY <2>1, SmallestSet
  <1>2. s # {}
    <2>1. Marks(w, {}) = {}
      BY DEF Marks
    <2> QED
      BY <2>1, FS_EmptySet
  <1>3. PICK x \in s : TRUE
    BY <1>2
  <1>4. IsFiniteSet(Marks(w, s \ {x}))
    BY <1>1, <1>3
  <1>5. IsFiniteSet(Marks(w, (s \ {x}) \cup {x}))
    BY <1>3, <1>4, MarksAdd
  <1>6. (s \ {x}) \cup {x} = s
    BY <1>3
  <1> QED
    BY <1>5, <1>6

-----------------------------------------------------------------------------
LEMMA SumIsMarks ==
    ASSUME NEW S, IsFiniteSet(S), NEW w, \A i \in S : w[i] \in Nat
    PROVE  SumFunctionOnSet(w, S) = Cardinality(Marks(w, S))
  <1> DEFINE First(s) == CHOOSE x \in s : TRUE
             Unrolls(f) == f = [s \in SUBSET S |->
                                  IF s = {} THEN 0 ELSE w[First(s)] + f[s \ {First(s)}]]
             count == [s \in SUBSET S |-> Cardinality(Marks(w, s))]
             iter == CHOOSE f : Unrolls(f)
  <1>1. SumFunctionOnSet(w, S) = iter[S]
    BY DEF SumFunctionOnSet, FoldFunctionOnSet, MapThenFoldSet
  <1>2. \A s \in SUBSET S : IsFiniteSet(Marks(w, s)) /\ Cardinality(Marks(w, s)) \in Nat
    BY MarksFinite, FS_CardinalityType
  <1>3. \A s \in SUBSET S : s # {} => First(s) \in s
    OBVIOUS
  <1> HIDE DEF First
  <1>4. ASSUME NEW s \in SUBSET S, s # {}
        PROVE  count[s] = w[First(s)] + count[s \ {First(s)}]
    <2> DEFINE x == First(s)
               t == s \ {x}
    <2>1. x \in s /\ x \in S /\ t \in SUBSET S /\ x \notin t /\ t \cup {x} = s
      BY <1>3, <1>4
    <2> HIDE DEF x, t
    <2>2. Cardinality(Marks(w, t \cup {x})) = Cardinality(Marks(w, t)) + w[x]
      BY <1>2, <2>1, MarksAdd
    <2>3. count[s] = count[t] + w[x] /\ count[t] \in Nat /\ w[x] \in Nat
      BY <1>2, <2>1, <2>2
    <2> HIDE DEF count
    <2> QED
      BY <2>3 DEF x, t
  <1>5. Marks(w, {}) = {}
    BY DEF Marks
  <1>6. count[{}] = 0
    BY <1>5, FS_EmptySet
  <1>7. Unrolls(count)
    <2>1. ASSUME NEW s \in SUBSET S
          PROVE  count[s] = IF s = {} THEN 0 ELSE w[First(s)] + count[s \ {First(s)}]
      BY <1>4, <1>6
    <2> QED
      BY <2>1
  <1>8. Unrolls(iter)
    BY <1>7
  <1> HIDE DEF iter, count
  <1>9. \A s \in SUBSET S : iter[s] = count[s]
    <2> DEFINE B == {s \in SUBSET S : iter[s] # count[s]}
    <2> SUFFICES ASSUME B # {} PROVE FALSE
      OBVIOUS
    <2>1. B \subseteq SUBSET S
      OBVIOUS
    <2>2. PICK s \in B : \A x \in s : s \ {x} \notin B
      <3> HIDE DEF B
      <3> QED
        BY <2>1, SmallestSet
    <2>3. s # {}
      BY <1>6, <1>8
    <2>4. First(s) \in s /\ s \ {First(s)} \notin B
      BY <1>3, <2>2, <2>3
    <2>5. iter[s] = w[First(s)] + iter[s \ {First(s)}]
      BY <1>8, <2>3
    <2> QED
      BY <1>4, <2>2, <2>3, <2>4, <2>5
  <1> QED
    BY <1>1, <1>9 DEF count

LEMMA SumType ==
    ASSUME NEW S, IsFiniteSet(S), NEW w, \A i \in S : w[i] \in Nat
    PROVE  SumFunctionOnSet(w, S) \in Nat
  BY SumIsMarks, MarksFinite, FS_CardinalityType

LEMMA SumNone ==
    ASSUME NEW w
    PROVE  SumFunctionOnSet(w, {}) = 0
  <1>1. Marks(w, {}) = {}
    BY DEF Marks
  <1>2. IsFiniteSet({}) /\ Cardinality({}) = 0
    BY FS_EmptySet
  <1>3. SumFunctionOnSet(w, {}) = Cardinality(Marks(w, {}))
    BY <1>2, SumIsMarks
  <1> QED
    BY <1>1, <1>2, <1>3

LEMMA SumOne ==
    ASSUME NEW w, NEW x, w[x] \in Nat
    PROVE  SumFunctionOnSet(w, {x}) = w[x]
  <1>1. IsFiniteSet({x})
    BY FS_Singleton
  <1>2. SumFunctionOnSet(w, {x}) = Cardinality(Marks(w, {x}))
    BY <1>1, SumIsMarks
  <1> QED
    BY <1>2, MarksOfOne

\* The sum over two sets that share nothing.
LEMMA SumUnion ==
    ASSUME NEW S, IsFiniteSet(S), NEW T, IsFiniteSet(T), S \cap T = {},
           NEW w, \A i \in S \cup T : w[i] \in Nat
    PROVE  SumFunctionOnSet(w, S \cup T) = SumFunctionOnSet(w, S) + SumFunctionOnSet(w, T)
  <1>1. IsFiniteSet(S \cup T)
    BY FS_Union
  <1>2. IsFiniteSet(Marks(w, S)) /\ IsFiniteSet(Marks(w, T))
    BY MarksFinite
  <1>3. Marks(w, S \cup T) = Marks(w, S) \cup Marks(w, T)
    BY DEF Marks
  <1>4. Marks(w, S) \cap Marks(w, T) = {}
    BY DEF Marks
  <1>5. Cardinality(Marks(w, S) \cup Marks(w, T))
          = Cardinality(Marks(w, S)) + Cardinality(Marks(w, T))
    BY <1>2, <1>4, DisjointSize
  <1>6. SumFunctionOnSet(w, S \cup T) = Cardinality(Marks(w, S \cup T))
    BY <1>1, SumIsMarks
  <1>7. /\ SumFunctionOnSet(w, S) = Cardinality(Marks(w, S))
        /\ SumFunctionOnSet(w, T) = Cardinality(Marks(w, T))
    BY SumIsMarks
  <1> QED
    BY <1>3, <1>5, <1>6, <1>7

\* One number more.
LEMMA SumAdd ==
    ASSUME NEW S, IsFiniteSet(S), NEW x, x \notin S, NEW w, \A i \in S \cup {x} : w[i] \in Nat
    PROVE  SumFunctionOnSet(w, S \cup {x}) = SumFunctionOnSet(w, S) + w[x]
  <1>1. IsFiniteSet({x}) /\ S \cap {x} = {}
    BY FS_Singleton
  <1>2. SumFunctionOnSet(w, S \cup {x}) = SumFunctionOnSet(w, S) + SumFunctionOnSet(w, {x})
    BY <1>1, SumUnion
  <1>3. SumFunctionOnSet(w, {x}) = w[x]
    BY SumOne
  <1> QED
    BY <1>2, <1>3

LEMMA SumSame ==
    ASSUME NEW S, IsFiniteSet(S), NEW w, NEW v, \A i \in S : w[i] \in Nat /\ v[i] = w[i]
    PROVE  SumFunctionOnSet(v, S) = SumFunctionOnSet(w, S)
  <1>1. Marks(v, S) = Marks(w, S)
    BY DEF Marks
  <1>2. SumFunctionOnSet(v, S) = Cardinality(Marks(v, S))
    BY SumIsMarks
  <1>3. SumFunctionOnSet(w, S) = Cardinality(Marks(w, S))
    BY SumIsMarks
  <1> QED
    BY <1>1, <1>2, <1>3

\* One number is another.
LEMMA SumChange ==
    ASSUME NEW S, IsFiniteSet(S), NEW x \in S, NEW w, NEW v,
           \A i \in S : w[i] \in Nat /\ v[i] \in Nat,
           \A i \in S \ {x} : v[i] = w[i]
    PROVE  SumFunctionOnSet(v, S) = SumFunctionOnSet(w, S) - w[x] + v[x]
  <1> DEFINE T == S \ {x}
  <1>1. x \notin T /\ T \cup {x} = S /\ T \subseteq S
    OBVIOUS
  <1>2. IsFiniteSet(T)
    BY <1>1, FS_Subset
  <1>3. \A i \in T : v[i] = w[i] /\ w[i] \in Nat
    OBVIOUS
  <1> HIDE DEF T
  <1>4. SumFunctionOnSet(v, T) = SumFunctionOnSet(w, T) /\ SumFunctionOnSet(w, T) \in Nat
    BY <1>2, <1>3, SumSame, SumType
  <1>5. SumFunctionOnSet(w, T \cup {x}) = SumFunctionOnSet(w, T) + w[x]
    BY <1>1, <1>2, SumAdd
  <1>6. SumFunctionOnSet(v, T \cup {x}) = SumFunctionOnSet(v, T) + v[x]
    BY <1>1, <1>2, SumAdd
  <1>7. w[x] \in Nat /\ v[x] \in Nat
    OBVIOUS
  <1>8. SumFunctionOnSet(v, T \cup {x}) = SumFunctionOnSet(w, T \cup {x}) - w[x] + v[x]
    <2> DEFINE a == SumFunctionOnSet(w, T)
    <2>1. a \in Nat
      BY <1>4
    <2> HIDE DEF a
    <2>2. a + v[x] = ((a + w[x]) - w[x]) + v[x]
      BY <2>1, <1>7
    <2> QED
      BY <2>2, <1>4, <1>5, <1>6, Zenon DEF a
  <1> QED
    BY <1>1, <1>8, Zenon

=============================================================================
