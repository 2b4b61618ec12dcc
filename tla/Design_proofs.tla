--------------------------- MODULE Design_proofs ---------------------------
(***************************************************************************)
(* Proofs about Design, for any files, libraries and netlists.             *)
(***************************************************************************)
EXTENDS Design, WellFoundedInduction, TLAPS

-----------------------------------------------------------------------------
(***************************************************************************)
(* The network and the block.                                              *)
(***************************************************************************)
\* ReadDbAfter shows a block there is to the network.
LEMMA ReadDbAfterShows ==
    ASSUME ReadDbAfter, block' # NoBlock
    PROVE  Sees'
  BY DEF ReadDbAfter, ReadDefAfter, Sees, TopCell

\* Every command that makes a block shows it to the network, and none but ord::clear hides
\* one that is shown.
THEOREM NetworkAlwaysFollows == Spec => NetworkFollowsBlock
  <1> DEFINE Follows == block' # NoBlock /\ (Sees \/ block' # block) => Sees'
  <1>1. [Next]_vars => Follows
    <2> SUFFICES ASSUME [Next]_vars, block' # NoBlock, Sees \/ block' # block PROVE Sees'
      OBVIOUS
    <2>1. ASSUME UNCHANGED <<block, design>> PROVE Sees'
      BY <2>1 DEF design, Sees, TopCell
    <2>2. ASSUME NEW f, NEW flags, ReadLef(f, flags) PROVE Sees'
      BY <2>1, <2>2 DEF ReadLef
    <2>3. ASSUME NEW l, ReadLiberty(l) PROVE Sees'
      BY <2>1, <2>3 DEF ReadLiberty, database
    <2>4. ASSUME NEW v, ReadVerilog(v) PROVE Sees'
      BY <2>1, <2>4 DEF ReadVerilog, database
    <2>5. ASSUME NEW v, ReadDef(v) PROVE Sees'
      BY <2>5 DEF ReadDef, ReadDefAfter, Sees, TopCell
    <2>6. ASSUME NEW found, LinkDesign(found) PROVE Sees'
      BY <2>6, ReadDbAfterShows DEF LinkDesign
    <2>7. CASE WriteDb
      BY <2>1, <2>7 DEF WriteDb, database
    <2>8. CASE ReadDb
      BY <2>8, ReadDbAfterShows DEF ReadDb
    <2>9. CASE Clear
      BY <2>9 DEF Clear
    <2>10. CASE UNCHANGED vars
      BY <2>1, <2>10 DEF vars, database
    <2> QED
      BY <2>2, <2>3, <2>4, <2>5, <2>6, <2>7, <2>8, <2>9, <2>10 DEF Next
  <1>2. [Next]_vars => [Follows]_vars
    BY <1>1
  <1> QED
    BY <1>2, PTL DEF Spec, NetworkFollowsBlock

-----------------------------------------------------------------------------
(***************************************************************************)
(* The first element of a sequence that is in a set.                       *)
(***************************************************************************)
LEMMA NatMin ==
    ASSUME NEW T \in SUBSET Nat, T # {}
    PROVE  \E x \in T : \A y \in T : x <= y
  <1> DEFINE R == {ss \in Nat \X Nat : ss[1] < ss[2]}
  <1>1. IsWellFoundedOn(R, Nat)
    BY NatLessThanWellFounded DEF OpToRel
  <1> HIDE DEF R
  <1>2. PICK x \in T : \A y \in T : ~ (<<y, x>> \in R)
    BY <1>1, WFMin
  <1>3. \A y \in T : ~ (y < x)
    BY <1>2 DEF R
  <1> QED
    BY <1>3

Has(s, S) == \E k \in DOMAIN s : s[k] \in S

LEMMA FirstFacts ==
    ASSUME NEW T, NEW s \in Seq(T), NEW S, NEW none
    PROVE  /\ ~Has(s, S) => First(s, S, none) = none
           /\ Has(s, S) => \E k \in DOMAIN s : /\ First(s, S, none) = s[k] /\ s[k] \in S
                                               /\ \A j \in DOMAIN s : s[j] \in S => k <= j
  <1> DEFINE found == {k \in DOMAIN s : s[k] \in S}
  <1>1. found = {} <=> ~Has(s, S)
    BY DEF Has
  <1>2. ASSUME found # {} PROVE Min(found) \in found /\ \A j \in found : Min(found) <= j
    <2>1. found \in SUBSET Nat
      OBVIOUS
    <2> HIDE DEF found
    <2> QED
      BY <1>2, <2>1, NatMin DEF Min
  <1> QED
    BY <1>1, <1>2 DEF First

\* One more element is the first one only if there was none.
LEMMA FirstOfAppend ==
    ASSUME NEW T, NEW s \in Seq(T), NEW x \in T, NEW S, NEW none
    PROVE  First(Append(s, x), S, none) =
              IF Has(s, S) THEN First(s, S, none) ELSE IF x \in S THEN x ELSE none
  <1> DEFINE t == Append(s, x)
  <1>1. /\ t \in Seq(T) /\ DOMAIN t = 1..(Len(s) + 1) /\ DOMAIN s = 1..Len(s) /\ Len(s) \in Nat
        /\ \A k \in DOMAIN s : t[k] = s[k]
        /\ t[Len(s) + 1] = x
    OBVIOUS
  <1> HIDE DEF t
  <1>2. CASE Has(s, S)
    <2>1. Has(t, S)
      BY <1>1, <1>2 DEF Has
    <2>2. PICK k \in DOMAIN s : /\ First(s, S, none) = s[k] /\ s[k] \in S
                                /\ \A j \in DOMAIN s : s[j] \in S => k <= j
      BY <1>2, FirstFacts
    <2>3. PICK i \in DOMAIN t : /\ First(t, S, none) = t[i] /\ t[i] \in S
                                /\ \A j \in DOMAIN t : t[j] \in S => i <= j
      BY <1>1, <2>1, FirstFacts
    <2>4. i = k
      BY <1>1, <2>2, <2>3
    <2> QED
      BY <1>1, <1>2, <2>2, <2>3, <2>4 DEF t
  <1>3. CASE ~Has(s, S) /\ x \in S
    <2>1. Has(t, S)
      BY <1>1, <1>3 DEF Has
    <2>2. PICK i \in DOMAIN t : First(t, S, none) = t[i] /\ t[i] \in S
      BY <1>1, <2>1, FirstFacts
    <2>3. t[i] = x
      BY <1>1, <1>3, <2>2 DEF Has
    <2> QED
      BY <1>3, <2>2, <2>3 DEF t
  <1>4. CASE ~Has(s, S) /\ x \notin S
    <2>1. ~Has(t, S)
      BY <1>1, <1>4 DEF Has
    <2> QED
      BY <1>1, <1>4, <2>1, FirstFacts DEF t
  <1> QED
    BY <1>2, <1>3, <1>4

\* Backwards there is an element in the set just if there is one forwards.
LEMMA LastFacts ==
    ASSUME NEW T, NEW s \in Seq(T), NEW S, NEW none
    PROVE  /\ ~Has(s, S) => First(Reverse(s), S, none) = none
           /\ Has(s, S) => \E k \in DOMAIN s : First(Reverse(s), S, none) = s[k] /\ s[k] \in S
  <1> DEFINE r == Reverse(s)
  <1>1. /\ r \in Seq(T) /\ DOMAIN r = DOMAIN s
        /\ \A k \in DOMAIN r : Len(s) - k + 1 \in DOMAIN s /\ r[k] = s[Len(s) - k + 1]
        /\ \A k \in DOMAIN s : Len(s) - k + 1 \in DOMAIN r /\ s[k] = r[Len(s) - k + 1]
    <2>1. Len(s) \in Nat /\ DOMAIN s = 1..Len(s) /\ \A k \in DOMAIN s : s[k] \in T
      OBVIOUS
    <2>2. r = [i \in 1..Len(s) |-> s[Len(s) - i + 1]]
      BY DEF Reverse
    <2> HIDE DEF r
    <2>3. \A k \in 1..Len(s) : Len(s) - k + 1 \in 1..Len(s) /\ Len(s) - (Len(s) - k + 1) + 1 = k
      BY <2>1
    <2>4. r \in Seq(T) /\ DOMAIN r = DOMAIN s
      BY <2>1, <2>2, <2>3
    <2>5. ASSUME NEW k \in DOMAIN s PROVE s[k] = r[Len(s) - k + 1]
      <3>1. PICK i \in 1..Len(s) : i = Len(s) - k + 1 /\ Len(s) - i + 1 = k
        BY <2>1, <2>3
      <3>2. r[i] = s[Len(s) - i + 1]
        BY <2>2
      <3> QED
        BY <3>1, <3>2
    <2>6. \A k \in DOMAIN r : r[k] = s[Len(s) - k + 1]
      BY <2>1, <2>2
    <2>7. /\ \A k \in DOMAIN r : Len(s) - k + 1 \in DOMAIN s
          /\ \A k \in DOMAIN s : Len(s) - k + 1 \in DOMAIN r
      BY <2>1, <2>3, <2>4
    <2> QED
      BY <2>4, <2>5, <2>6, <2>7
  <1> HIDE DEF r
  <1>2. Has(r, S) <=> Has(s, S)
    BY <1>1 DEF Has
  <1>3. ~Has(s, S) => First(r, S, none) = none
    BY <1>1, <1>2, FirstFacts
  <1>4. ASSUME Has(s, S) PROVE \E k \in DOMAIN s : First(r, S, none) = s[k] /\ s[k] \in S
    <2>1. PICK i \in DOMAIN r : First(r, S, none) = r[i] /\ r[i] \in S
      BY <1>1, <1>2, <1>4, FirstFacts
    <2> QED
      BY <1>1, <2>1
  <1> QED
    BY <1>3, <1>4 DEF r

-----------------------------------------------------------------------------
(***************************************************************************)
(* Cells and liberty cells.                                                *)
(***************************************************************************)
LefCell(f) == DOMAIN Masters[f]

\* u holds the elements of s and those of t.
Spliced(u, s, t) ==
    /\ \A k \in DOMAIN u : (\E i \in DOMAIN s : u[k] = s[i]) \/ (\E i \in DOMAIN t : u[k] = t[i])
    /\ \A i \in DOMAIN s : \E k \in DOMAIN u : u[k] = s[i]
    /\ \A i \in DOMAIN t : \E k \in DOMAIN u : u[k] = t[i]

LEMMA ConcatFacts ==
    ASSUME NEW T, NEW s \in Seq(T), NEW t \in Seq(T)
    PROVE  s \o t \in Seq(T) /\ Spliced(s \o t, s, t)
  <1> DEFINE u == s \o t
  <1>1. /\ u \in Seq(T) /\ DOMAIN u = 1..(Len(s) + Len(t))
        /\ DOMAIN s = 1..Len(s) /\ DOMAIN t = 1..Len(t) /\ Len(s) \in Nat /\ Len(t) \in Nat
        /\ \A i \in 1..Len(s) : u[i] = s[i]
        /\ \A i \in 1..Len(t) : u[Len(s) + i] = t[i]
    OBVIOUS
  <1> HIDE DEF u
  <1>2. ASSUME NEW k \in DOMAIN u, k \notin DOMAIN s PROVE \E i \in DOMAIN t : u[k] = t[i]
    <2>1. k - Len(s) \in 1..Len(t) /\ k = Len(s) + (k - Len(s))
      BY <1>1, <1>2
    <2> QED
      BY <1>1, <2>1
  <1>3. ASSUME NEW i \in DOMAIN t PROVE \E k \in DOMAIN u : u[k] = t[i]
    <2>1. Len(s) + i \in DOMAIN u
      BY <1>1, <1>3
    <2> QED
      BY <1>1, <2>1
  <1>4. \A i \in DOMAIN s : i \in DOMAIN u
    BY <1>1
  <1>5. Spliced(u, s, t)
    BY <1>1, <1>2, <1>3, <1>4 DEF Spliced
  <1> QED
    BY <1>1, <1>5 DEF u

CellLibrary ==
    [lef : Lef, link : UNION {[LefCell(f) -> Liberty \cup {NoLiberty}] : f \in Lef}]

LibsInv ==
    /\ libs \in Seq(Lef) /\ file[2] \in Seq(Lef)
    /\ liberty \in Seq(Liberty)
    /\ clibs \in Seq(CellLibrary)
    /\ \A k \in DOMAIN clibs : DOMAIN clibs[k].link = LefCell(clibs[k].lef)
    /\ DOMAIN ext = Liberty \X Cell
    /\ FirstLibertyIsLinked

Defines(c) == {l \in Liberty : c \in LibCells[l]}

LEMMA FindFacts ==
    ASSUME liberty \in Seq(Liberty), NEW c
    PROVE  /\ FindLibertyCell(c) \in Liberty \cup {NoLiberty}
           /\ FindLibertyCell(c) # NoLiberty =>
                 /\ c \in LibCells[FindLibertyCell(c)]
                 /\ \E k \in DOMAIN liberty : liberty[k] = FindLibertyCell(c)
           /\ FindLibertyCell(c) = NoLiberty <=> ~Has(liberty, Defines(c))
  <1>1. CASE Has(liberty, Defines(c))
    <2>1. PICK k \in DOMAIN liberty :
            FindLibertyCell(c) = liberty[k] /\ liberty[k] \in Defines(c)
      BY <1>1, FirstFacts DEF FindLibertyCell, Defines
    <2> QED
      BY <1>1, <2>1, DesignAssumption DEF Defines
  <1>2. CASE ~Has(liberty, Defines(c))
    BY <1>2, FirstFacts DEF FindLibertyCell, Defines
  <1> QED
    BY <1>1, <1>2

\* A liberty library that is read ties the cells that are tied to none, and no other.
LEMMA FindNext ==
    ASSUME liberty \in Seq(Liberty), NEW l \in Liberty, liberty' = Append(liberty, l), NEW c
    PROVE  FindLibertyCell(c)' = IF FindLibertyCell(c) # NoLiberty THEN FindLibertyCell(c)
                                 ELSE IF c \in LibCells[l] THEN l ELSE NoLiberty
  <1>1. FindLibertyCell(c)' = First(Append(liberty, l), Defines(c), NoLiberty)
    BY DEF FindLibertyCell, Defines
  <1>2. FindLibertyCell(c) = First(liberty, Defines(c), NoLiberty)
    BY DEF FindLibertyCell, Defines
  <1>3. l \in Defines(c) <=> c \in LibCells[l]
    BY DEF Defines
  <1> QED
    BY <1>1, <1>2, <1>3, FirstOfAppend, FindFacts

\* What the libraries made so far have in common, whichever command makes them.
LEMMA MakeKeeps ==
    ASSUME LibsInv, NEW fs \in Seq(Lef), MakeLibraries(fs), liberty' = liberty,
           libs' \in Seq(Lef), file'[2] \in Seq(Lef)
    PROVE  LibsInv'
  <1> DEFINE new == [k \in DOMAIN fs |->
                [lef |-> fs[k], link |-> [c \in LefCell(fs[k]) |-> FindLibertyCell(c)]]]
  <1>1. /\ \A c : FindLibertyCell(c)' = FindLibertyCell(c)
        /\ \A c : FindLibertyCell(c) \in Liberty \cup {NoLiberty}
    BY FindFacts DEF LibsInv, FindLibertyCell
  <1>2. new \in Seq(CellLibrary) /\ Len(new) = Len(fs) /\ DOMAIN new = DOMAIN fs
    <2>1. \A k \in DOMAIN fs : fs[k] \in Lef
      OBVIOUS
    <2>2. ASSUME NEW k \in DOMAIN fs
          PROVE  [lef |-> fs[k], link |-> [c \in LefCell(fs[k]) |-> FindLibertyCell(c)]]
                    \in CellLibrary
      <3>1. [c \in LefCell(fs[k]) |-> FindLibertyCell(c)]
               \in [LefCell(fs[k]) -> Liberty \cup {NoLiberty}]
        BY <1>1
      <3> QED
        BY <2>1, <3>1 DEF CellLibrary
    <2>3. DOMAIN fs = 1..Len(fs) /\ Len(fs) \in Nat
      OBVIOUS
    <2> QED
      BY <2>2, <2>3
  <1>3. \A k \in DOMAIN new : /\ new[k].lef = fs[k]
                              /\ new[k].link = [c \in LefCell(fs[k]) |-> FindLibertyCell(c)]
    OBVIOUS
  <1>4. clibs' = clibs \o new
    BY DEF MakeLibraries, LefCell
  <1> HIDE DEF new
  <1>5. clibs \in Seq(CellLibrary)
    BY DEF LibsInv
  <1>6. /\ clibs' \in Seq(CellLibrary)
        /\ \A k \in DOMAIN clibs' : (\E i \in DOMAIN clibs : clibs'[k] = clibs[i])
                                    \/ (\E i \in DOMAIN new : clibs'[k] = new[i])
        /\ \A i \in DOMAIN clibs : \E k \in DOMAIN clibs' : clibs'[k] = clibs[i]
        /\ \A i \in DOMAIN new : \E k \in DOMAIN clibs' : clibs'[k] = new[i]
    <2> HIDE DEF CellLibrary
    <2>1. new \in Seq(CellLibrary)
      BY <1>2
    <2>2. clibs \o new \in Seq(CellLibrary) /\ Spliced(clibs \o new, clibs, new)
      BY <1>5, <2>1, ConcatFacts
    <2> QED
      BY <1>4, <2>2 DEF Spliced
  <1>7. \A k \in DOMAIN clibs' : /\ DOMAIN clibs'[k].link = LefCell(clibs'[k].lef)
                                 /\ \A c \in DOMAIN clibs'[k].link :
                                       clibs'[k].link[c] = FindLibertyCell(c)
    <2>1. ASSUME NEW i \in DOMAIN clibs
          PROVE  /\ DOMAIN clibs[i].link = LefCell(clibs[i].lef)
                 /\ \A c \in DOMAIN clibs[i].link : clibs[i].link[c] = FindLibertyCell(c)
      BY DEF LibsInv, FirstLibertyIsLinked
    <2>2. ASSUME NEW i \in DOMAIN new
          PROVE  /\ DOMAIN new[i].link = LefCell(new[i].lef)
                 /\ \A c \in DOMAIN new[i].link : new[i].link[c] = FindLibertyCell(c)
      BY <1>3
    <2> QED
      BY <1>6, <2>1, <2>2
  <1>8. DOMAIN ext' = DOMAIN ext
    BY DEF MakeLibraries
  <1>9. ASSUME NEW x \in DOMAIN ext
        PROVE  (ext'[x] # NoLef) <=>
                 (/\ x[1] = FindLibertyCell(x[2])
                  /\ \E k \in DOMAIN clibs' : x[2] \in LefCell(clibs'[k].lef))
    <2> DEFINE S == {f \in Lef : x[2] \in LefCell(f)}
    <2>1. (ext[x] # NoLef) <=>
             (/\ x[1] = FindLibertyCell(x[2])
              /\ \E k \in DOMAIN clibs : x[2] \in LefCell(clibs[k].lef))
      BY DEF LibsInv, FirstLibertyIsLinked, LefCell
    <2> HIDE DEF S
    <2>2. CASE x[1] # FindLibertyCell(x[2])
      BY <2>1, <2>2 DEF MakeLibraries
    <2>3. CASE x[1] = FindLibertyCell(x[2]) /\ Has(fs, S)
      <3>1. ext'[x] = First(Reverse(fs), S, ext[x])
        BY <2>3 DEF MakeLibraries, LefCell, S
      <3>2. PICK i \in DOMAIN fs : ext'[x] = fs[i] /\ fs[i] \in S
        BY <2>3, <3>1, LastFacts
      <3>3. ext'[x] # NoLef
        BY <3>2, DesignAssumption DEF S
      <3>4. \E k \in DOMAIN clibs' : clibs'[k].lef = fs[i]
        BY <1>2, <1>3, <1>6
      <3> QED
        BY <2>3, <3>2, <3>3, <3>4 DEF S
    <2>4. CASE x[1] = FindLibertyCell(x[2]) /\ ~Has(fs, S)
      <3>1. ext'[x] = First(Reverse(fs), S, ext[x])
        BY <2>4 DEF MakeLibraries, LefCell, S
      <3>2. ext'[x] = ext[x]
        BY <2>4, <3>1, LastFacts
      <3>3. \A k \in DOMAIN new : x[2] \notin LefCell(new[k].lef)
        <4>1. \A k \in DOMAIN fs : fs[k] \in Lef
          OBVIOUS
        <4> QED
          BY <1>2, <1>3, <2>4, <4>1 DEF Has, S
      <3> QED
        BY <1>6, <2>1, <2>4, <3>2, <3>3
    <2> QED
      BY <2>2, <2>3, <2>4
  <1>10. FirstLibertyIsLinked'
    BY <1>1, <1>7, <1>8, <1>9 DEF FirstLibertyIsLinked, LefCell
  <1> QED
    BY <1>6, <1>7, <1>8, <1>10 DEF LibsInv

\* Reading a liberty library ties the cells tied to none, and the library's cells to masters.
LEMMA ReadLibertyKeeps ==
    ASSUME LibsInv, NEW l \in Liberty, ReadLiberty(l)
    PROVE  LibsInv'
  <1>1. /\ liberty' = Append(liberty, l) /\ clibs' = Links(l)
        /\ libs' = libs /\ file' = file /\ DOMAIN ext' = DOMAIN ext
        /\ liberty \in Seq(Liberty) /\ clibs \in Seq(CellLibrary)
        /\ \A k \in DOMAIN liberty : liberty[k] # l
    BY DEF ReadLiberty, database, LibsInv, ToSet
  <1>2. \A c : FindLibertyCell(c)' = IF FindLibertyCell(c) # NoLiberty THEN FindLibertyCell(c)
                                     ELSE IF c \in LibCells[l] THEN l ELSE NoLiberty
    BY <1>1, FindNext
  <1>3. \A c : FindLibertyCell(c) # l
    BY <1>1, FindFacts, DesignAssumption
  <1>4. /\ DOMAIN clibs' = DOMAIN clibs
        /\ \A k \in DOMAIN clibs :
              /\ clibs'[k].lef = clibs[k].lef /\ clibs[k].lef \in Lef
              /\ DOMAIN clibs'[k].link = LefCell(clibs[k].lef)
              /\ \A c \in LefCell(clibs[k].lef) : clibs'[k].link[c] = FindLibertyCell(c)'
        /\ clibs' \in Seq(CellLibrary)
    <2>1. DOMAIN clibs' = DOMAIN clibs
      BY <1>1 DEF Links
    <2>2. ASSUME NEW k \in DOMAIN clibs
          PROVE  /\ clibs'[k].lef = clibs[k].lef /\ clibs[k].lef \in Lef
                 /\ DOMAIN clibs'[k].link = LefCell(clibs[k].lef)
                 /\ \A c \in LefCell(clibs[k].lef) : clibs'[k].link[c] = FindLibertyCell(c)'
                 /\ clibs'[k] \in CellLibrary
      <3>1. /\ clibs[k] \in CellLibrary /\ DOMAIN clibs[k].link = LefCell(clibs[k].lef)
            /\ \A c \in LefCell(clibs[k].lef) : clibs[k].link[c] = FindLibertyCell(c)
        BY <1>1 DEF LibsInv, FirstLibertyIsLinked
      <3>2. clibs[k].lef \in Lef /\ clibs[k] = [lef |-> clibs[k].lef, link |-> clibs[k].link]
        BY <3>1 DEF CellLibrary
      <3> DEFINE link == [c \in LefCell(clibs[k].lef) |->
                            IF clibs[k].link[c] = NoLiberty /\ c \in LibCells[l]
                            THEN l ELSE clibs[k].link[c]]
      <3>3. clibs'[k] = [lef |-> clibs[k].lef, link |-> link]
        BY <1>1, <3>1, <3>2 DEF Links
      <3>4. \A c \in LefCell(clibs[k].lef) : link[c] = FindLibertyCell(c)'
        BY <1>2, <3>1
      <3>5. link \in [LefCell(clibs[k].lef) -> Liberty \cup {NoLiberty}]
        BY <1>1, <3>1, FindFacts
      <3> HIDE DEF link
      <3>6. clibs'[k] \in CellLibrary
        BY <3>2, <3>3, <3>5 DEF CellLibrary
      <3>7. DOMAIN link = LefCell(clibs[k].lef)
        BY <3>5
      <3> QED
        BY <3>2, <3>3, <3>4, <3>6, <3>7
    <2>3. DOMAIN clibs = 1..Len(clibs) /\ Len(clibs) \in Nat
      BY <1>1
    <2>4. clibs' = [k \in 1..Len(clibs) |-> clibs'[k]]
      BY <1>1, <2>3 DEF Links
    <2>5. \A k \in 1..Len(clibs) : clibs'[k] \in CellLibrary
      BY <2>2, <2>3
    <2> HIDE DEF CellLibrary
    <2>6. clibs' \in Seq(CellLibrary)
      BY <2>3, <2>4, <2>5
    <2> QED
      BY <2>1, <2>2, <2>6
  <1>5. ASSUME NEW x \in DOMAIN ext
        PROVE  (ext'[x] # NoLef) <=>
                 (/\ x[1] = FindLibertyCell(x[2])'
                  /\ \E k \in DOMAIN clibs' : x[2] \in LefCell(clibs'[k].lef))
    <2> DEFINE tied == {b \in ToSet(Links(l)) :
                          /\ x[1] = l /\ x[2] \in DOMAIN b.link /\ b.link[x[2]] = l}
    <2>1. ext'[x] = First(Reverse(Links(l)), tied, [lef |-> ext[x]]).lef
      BY DEF ReadLiberty
    <2>2. (ext[x] # NoLef) <=>
             (/\ x[1] = FindLibertyCell(x[2])
              /\ \E k \in DOMAIN clibs : x[2] \in LefCell(clibs[k].lef))
      BY DEF LibsInv, FirstLibertyIsLinked, LefCell
    <2>3. \A k \in DOMAIN clibs' : clibs'[k] \in tied <=>
             /\ x[1] = l /\ x[2] \in LefCell(clibs'[k].lef) /\ FindLibertyCell(x[2])' = l
      BY <1>1, <1>4 DEF ToSet
    <2>4. Links(l) = clibs'
      BY <1>1
    <2> HIDE DEF tied
    <2>5. CASE Has(clibs', tied)
      <3>1. PICK k \in DOMAIN clibs' : ext'[x] = clibs'[k].lef /\ clibs'[k] \in tied
        BY <1>4, <2>1, <2>4, <2>5, LastFacts
      <3>2. ext'[x] # NoLef
        BY <1>4, <3>1, DesignAssumption
      <3> QED
        BY <2>3, <3>1, <3>2
    <2>6. CASE ~Has(clibs', tied)
      <3>1. ext'[x] = ext[x]
        BY <1>4, <2>1, <2>4, <2>6, LastFacts
      <3>2. CASE x[1] = l /\ FindLibertyCell(x[2])' = l
        <4>1. \A k \in DOMAIN clibs' : x[2] \notin LefCell(clibs'[k].lef)
          BY <2>3, <2>6, <3>2 DEF Has
        <4>2. ext[x] = NoLef
          BY <1>4, <2>2, <4>1
        <4> QED
          BY <3>1, <4>1, <4>2
      <3>3. CASE ~(x[1] = l /\ FindLibertyCell(x[2])' = l)
        <4>1. x[1] \in Liberty
          BY DEF LibsInv
        <4>2. x[1] = FindLibertyCell(x[2])' <=> x[1] = FindLibertyCell(x[2])
          BY <1>2, <1>3, <3>3, <4>1, DesignAssumption
        <4>3. (\E k \in DOMAIN clibs' : x[2] \in LefCell(clibs'[k].lef))
                <=> (\E k \in DOMAIN clibs : x[2] \in LefCell(clibs[k].lef))
          BY <1>4
        <4> QED
          BY <2>2, <3>1, <4>2, <4>3
      <3> QED
        BY <3>2, <3>3
    <2> QED
      BY <2>5, <2>6
  <1>6. FirstLibertyIsLinked'
    BY <1>1, <1>4, <1>5 DEF FirstLibertyIsLinked, LefCell
  <1>7. liberty' \in Seq(Liberty) /\ libs' \in Seq(Lef) /\ file'[2] \in Seq(Lef)
    BY <1>1 DEF LibsInv
  <1> QED
    BY <1>1, <1>4, <1>6, <1>7 DEF LibsInv

\* What the network does with the database keeps it too.
LEMMA ReadDbAfterKeeps ==
    ASSUME LibsInv, ReadDbAfter, liberty' = liberty, libs' \in Seq(Lef), file' = file
    PROVE  LibsInv'
  <1>1. file'[2] \in Seq(Lef)
    BY DEF LibsInv
  <1>2. CASE block' = NoBlock
    <2>1. clibs' = clibs /\ ext' = ext
      BY <1>2 DEF ReadDbAfter
    <2> QED
      BY <1>1, <2>1 DEF LibsInv, FirstLibertyIsLinked, FindLibertyCell
  <1>3. CASE block' # NoBlock
    BY <1>1, <1>3, MakeKeeps DEF ReadDbAfter
  <1> QED
    BY <1>2, <1>3

LEMMA LibsKept == LibsInv /\ [Next]_vars => LibsInv'
  <1> SUFFICES ASSUME LibsInv, [Next]_vars PROVE LibsInv'
    OBVIOUS
  <1>1. ASSUME UNCHANGED cells, libs' \in Seq(Lef), file'[2] \in Seq(Lef) PROVE LibsInv'
    BY <1>1 DEF cells, LibsInv, FirstLibertyIsLinked, FindLibertyCell
  <1>2. libs \in Seq(Lef) /\ file[2] \in Seq(Lef)
    BY DEF LibsInv
  <1>3. ASSUME NEW f \in Lef, NEW flags \in SUBSET {"tech", "library"}, ReadLef(f, flags)
        PROVE  LibsInv'
    <2>1. CASE libs' = Append(libs, f) /\ MakeLibraries(<<f>>)
      <3>1. libs' \in Seq(Lef) /\ <<f>> \in Seq(Lef) /\ liberty' = liberty /\ file' = file
        BY <1>2, <1>3, <2>1 DEF ReadLef
      <3> QED
        BY <1>2, <2>1, <3>1, MakeKeeps
    <2>2. CASE UNCHANGED <<libs, clibs, ext>>
      BY <1>1, <1>2, <1>3, <2>2 DEF ReadLef, cells
    <2> QED
      BY <1>3, <2>1, <2>2 DEF ReadLef
  <1>4. ASSUME NEW l \in Liberty, ReadLiberty(l) PROVE LibsInv'
    BY <1>4, ReadLibertyKeeps
  <1>5. ASSUME NEW v, ReadVerilog(v) PROVE LibsInv'
    BY <1>1, <1>2, <1>5 DEF ReadVerilog, database
  <1>6. ASSUME NEW v, ReadDef(v) PROVE LibsInv'
    BY <1>1, <1>2, <1>6 DEF ReadDef
  <1>7. ASSUME NEW found, LinkDesign(found) PROVE LibsInv'
    BY <1>2, <1>7, ReadDbAfterKeeps DEF LinkDesign
  <1>8. CASE WriteDb
    <2>1. file'[2] = libs
      BY <1>8 DEF WriteDb, database
    <2> QED
      BY <1>1, <1>2, <1>8, <2>1 DEF WriteDb, database
  <1>9. CASE ReadDb
    BY <1>2, <1>9, ReadDbAfterKeeps DEF ReadDb
  <1>10. CASE Clear
    <2>1. /\ libs' = <<>> /\ clibs' = <<>> /\ liberty' = <<>> /\ file' = file
          /\ ext' = [x \in DOMAIN ext |-> NoLef]
      BY <1>10 DEF Clear
    <2>2. DOMAIN clibs' = {}
      BY <2>1
    <2>3. FirstLibertyIsLinked'
      BY <2>1, <2>2 DEF FirstLibertyIsLinked
    <2> QED
      BY <1>2, <2>1, <2>2, <2>3 DEF LibsInv
  <1>11. CASE UNCHANGED vars
    BY <1>1, <1>2, <1>11 DEF vars, database
  <1> QED
    BY <1>3, <1>4, <1>5, <1>6, <1>7, <1>8, <1>9, <1>10, <1>11 DEF Next

\* Whatever the order of the files, a cell made of a master is tied to the first liberty
\* cell of its name, and that cell and no other to a master.
THEOREM FirstLibertyAlwaysLinked == Spec => []FirstLibertyIsLinked
  <1>1. Init => LibsInv
    <2> SUFFICES ASSUME Init PROVE LibsInv
      OBVIOUS
    <2>1. /\ libs = <<>> /\ clibs = <<>> /\ liberty = <<>> /\ file[2] = <<>>
          /\ ext = [x \in Liberty \X Cell |-> NoLef]
      BY DEF Init
    <2>2. DOMAIN clibs = {}
      BY <2>1
    <2>3. FirstLibertyIsLinked
      BY <2>1, <2>2 DEF FirstLibertyIsLinked
    <2> QED
      BY <2>1, <2>2, <2>3 DEF LibsInv
  <1>2. LibsInv => FirstLibertyIsLinked
    BY DEF LibsInv
  <1> QED
    BY <1>1, <1>2, LibsKept, PTL DEF Spec

-----------------------------------------------------------------------------
(***************************************************************************)
(* Flattening.                                                             *)
(***************************************************************************)
Whole(v) == {C \in SUBSET NetsOf(v) : \A t \in TermsOf(v) : t[1] \in C <=> t[2] \in C}

LEMMA JoinedDef ==
    ASSUME NEW v \in VerilogFile, NEW n \in NetsOf(v)
    PROVE  Joined[v][n] = {m \in NetsOf(v) : \A C \in Whole(v) : n \in C => m \in C}
  BY DEF Joined, Whole

\* Being joined is an equivalence, and a terminal joins its two nets.
LEMMA JoinedFacts ==
    ASSUME NEW v \in VerilogFile
    PROVE  /\ \A n \in NetsOf(v) : n \in Joined[v][n] /\ Joined[v][n] \subseteq NetsOf(v)
           /\ \A n, m \in NetsOf(v) : m \in Joined[v][n] => Joined[v][m] = Joined[v][n]
           /\ \A t \in TermsOf(v) : /\ t[1] \in NetsOf(v) /\ t[2] \in NetsOf(v)
                                    /\ t[2] \in Joined[v][t[1]]
  <1>1. TermsOf(v) \subseteq NetsOf(v) \X NetsOf(v)
    BY DesignAssumption
  <1>2. ASSUME NEW n \in NetsOf(v), NEW m \in NetsOf(v), m \in Joined[v][n]
        PROVE  n \in Joined[v][m]
    <2>1. SUFFICES ASSUME NEW C \in Whole(v), m \in C, n \notin C PROVE FALSE
      BY JoinedDef
    <2>2. NetsOf(v) \ C \in Whole(v)
      BY <1>1 DEF Whole
    <2> QED
      BY <1>2, <2>1, <2>2, JoinedDef
  <1>3. \A n \in NetsOf(v) : n \in Joined[v][n] /\ Joined[v][n] \subseteq NetsOf(v)
    BY JoinedDef
  <1>4. ASSUME NEW n \in NetsOf(v), NEW m \in NetsOf(v), m \in Joined[v][n]
        PROVE  Joined[v][m] \subseteq Joined[v][n]
    <2>1. \A C \in Whole(v) : n \in C => m \in C
      BY <1>4, JoinedDef
    <2>2. SUFFICES ASSUME NEW o \in Joined[v][m] PROVE o \in Joined[v][n]
      OBVIOUS
    <2>3. o \in NetsOf(v) /\ \A C \in Whole(v) : m \in C => o \in C
      BY JoinedDef
    <2> QED
      BY <2>1, <2>3, JoinedDef
  <1>5. ASSUME NEW t \in TermsOf(v)
        PROVE  t[1] \in NetsOf(v) /\ t[2] \in NetsOf(v) /\ t[2] \in Joined[v][t[1]]
    <2>1. t[1] \in NetsOf(v) /\ t[2] \in NetsOf(v)
      BY <1>1
    <2>2. \A C \in Whole(v) : t[1] \in C => t[2] \in C
      BY DEF Whole
    <2> QED
      BY <2>1, <2>2, JoinedDef
  <1> QED
    BY <1>2, <1>3, <1>4, <1>5

Shape(b) ==
    b = [id |-> b.id, source |-> b.source, insts |-> b.insts,
         iterms |-> b.iterms, bterms |-> b.bterms]

Pin(v, p) == Verilog[v].pins[p]
Port(v, t) == Verilog[v].ports[t].net

\* The net of index j is made and is joined to n.
Makes(v, j, n) == MakesNet(v, Verilog[v].nets[j]) /\ n \in Joined[v][Verilog[v].nets[j]]

\* The block when makeDbNets has come to the k-th net: a pin is on the last net made that
\* its own is joined to, a port on some net made.
Flattened(v, b, k) ==
    /\ Shape(b) /\ b.source = v /\ b.insts = DbInsts(v)
    /\ DOMAIN b.iterms = {p \in DbPins(v) : \E j \in 1..k : Makes(v, j, Pin(v, p))}
    /\ \A p \in DOMAIN b.iterms :
          \E j \in 1..k : /\ Makes(v, j, Pin(v, p)) /\ b.iterms[p] = Verilog[v].nets[j]
                          /\ \A i \in 1..k : Makes(v, i, Pin(v, p)) => i <= j
    /\ DOMAIN b.bterms \subseteq DOMAIN Verilog[v].ports
    /\ \A t \in DOMAIN b.bterms :
          \E j \in 1..k : Makes(v, j, Port(v, t)) /\ b.bterms[t].net = Verilog[v].nets[j]

LEMMA FlattenStep ==
    ASSUME NEW v \in VerilogFile, NEW k \in Nat, NEW b, Flattened(v, b, k)
    PROVE  Flattened(v, MakeDbNet(v, b, Verilog[v].nets[k + 1]), k + 1)
  <1> DEFINE n == Verilog[v].nets[k + 1]
             pins  == {p \in DbPins(v) : Pin(v, p) \in Joined[v][n]}
             ports == {t \in DOMAIN Verilog[v].ports : Port(v, t) \in Joined[v][n]}
             c == MakeDbNet(v, b, n)
  <1>1. 1..(k + 1) = (1..k) \cup {k + 1} /\ \A i \in 1..k : i < k + 1 /\ i \in Nat
    OBVIOUS
  <1>2. CASE ~MakesNet(v, n)
    <2>1. c = b
      BY <1>2 DEF MakeDbNet
    <2>2. \A m : ~Makes(v, k + 1, m)
      BY <1>2 DEF Makes
    <2> HIDE DEF c
    <2> QED
      BY <1>1, <2>1, <2>2 DEF Flattened, c
  <1>3. CASE MakesNet(v, n)
    <2>1. /\ \A p : Makes(v, k + 1, Pin(v, p)) <=> Pin(v, p) \in Joined[v][n]
          /\ \A t : Makes(v, k + 1, Port(v, t)) <=> Port(v, t) \in Joined[v][n]
      BY <1>3 DEF Makes
    <2>c. /\ pins = {p \in DbPins(v) : Makes(v, k + 1, Pin(v, p))}
          /\ ports = {t \in DOMAIN Verilog[v].ports : Makes(v, k + 1, Port(v, t))}
      BY <2>1
    <2>3. PICK put, term :
             /\ c = [b EXCEPT !.iterms = put, !.bterms = term]
             /\ put = [p \in pins \cup DOMAIN b.iterms |-> IF p \in pins THEN n ELSE b.iterms[p]]
             /\ DOMAIN term = ports \cup DOMAIN b.bterms
             /\ \A t \in DOMAIN b.bterms : term[t] = b.bterms[t]
             /\ \A t \in ports \ DOMAIN b.bterms : term[t].net = n
      <3> DEFINE io(t) == StaToDb(Verilog[v].ports[t].dir)
                 put == [p \in pins \cup DOMAIN b.iterms |->
                           IF p \in pins THEN n ELSE b.iterms[p]]
                 term == [t \in ports \cup DOMAIN b.bterms |->
                            IF t \in DOMAIN b.bterms THEN b.bterms[t] ELSE [net |-> n, io |-> io(t)]]
      <3> HIDE DEF io
      <3>1. b = [id |-> b.id, source |-> b.source, insts |-> b.insts,
                 iterms |-> b.iterms, bterms |-> b.bterms]
        BY DEF Flattened, Shape
      <3>2. c = [b EXCEPT !.iterms = put, !.bterms = term]
        BY <1>3, <3>1 DEF MakeDbNet, Pin, Port, io
      <3>3. /\ DOMAIN term = ports \cup DOMAIN b.bterms
            /\ \A t \in DOMAIN b.bterms : term[t] = b.bterms[t]
            /\ \A t \in ports \ DOMAIN b.bterms : term[t].net = n
        OBVIOUS
      <3> HIDE DEF c, term, n, pins, ports
      <3> QED
        BY <3>2, <3>3
    <2> HIDE DEF c, n, pins, ports
    <2>2. Shape(c) /\ c.source = b.source /\ c.insts = b.insts /\ c.iterms = put /\ c.bterms = term
      <3>1. b = [id |-> b.id, source |-> b.source, insts |-> b.insts,
                 iterms |-> b.iterms, bterms |-> b.bterms]
        BY DEF Flattened, Shape
      <3>2. c = [id |-> b.id, source |-> b.source, insts |-> b.insts,
                 iterms |-> put, bterms |-> term]
        BY <2>3, <3>1
      <3> QED
        BY <3>2 DEF Shape
    <2>4. /\ DOMAIN c.iterms = pins \cup DOMAIN b.iterms
          /\ \A p \in pins : c.iterms[p] = n
          /\ \A p \in DOMAIN b.iterms \ pins : c.iterms[p] = b.iterms[p]
      BY <2>2, <2>3
    <2>5. /\ DOMAIN c.bterms = DOMAIN b.bterms \cup ports
          /\ \A t \in DOMAIN b.bterms : c.bterms[t] = b.bterms[t]
          /\ \A t \in ports \ DOMAIN b.bterms : c.bterms[t].net = n
      BY <2>2, <2>3
    <2>6. DOMAIN c.iterms = {p \in DbPins(v) : \E j \in 1..(k + 1) : Makes(v, j, Pin(v, p))}
      BY <1>1, <2>4, <2>c DEF Flattened
    <2>7. ASSUME NEW p \in DOMAIN c.iterms
          PROVE  \E j \in 1..(k + 1) :
                    /\ Makes(v, j, Pin(v, p)) /\ c.iterms[p] = Verilog[v].nets[j]
                    /\ \A i \in 1..(k + 1) : Makes(v, i, Pin(v, p)) => i <= j
      <3>1. CASE p \in pins
        <4>1. Makes(v, k + 1, Pin(v, p)) /\ c.iterms[p] = Verilog[v].nets[k + 1]
          BY <2>4, <2>c, <3>1 DEF n
        <4> QED
          BY <1>1, <4>1
      <3>2. CASE p \notin pins
        <4>1. p \in DOMAIN b.iterms /\ p \in DbPins(v) /\ c.iterms[p] = b.iterms[p]
          BY <2>4, <3>2 DEF Flattened
        <4>2. PICK j \in 1..k : /\ Makes(v, j, Pin(v, p)) /\ b.iterms[p] = Verilog[v].nets[j]
                                /\ \A i \in 1..k : Makes(v, i, Pin(v, p)) => i <= j
          BY <4>1 DEF Flattened
        <4>3. ~Makes(v, k + 1, Pin(v, p))
          BY <2>c, <3>2, <4>1
        <4> QED
          BY <1>1, <4>1, <4>2, <4>3
      <3> QED
        BY <3>1, <3>2
    <2>8. ASSUME NEW t \in DOMAIN c.bterms
          PROVE  \E j \in 1..(k + 1) :
                    Makes(v, j, Port(v, t)) /\ c.bterms[t].net = Verilog[v].nets[j]
      <3>1. CASE t \in DOMAIN b.bterms
        <4>1. PICK j \in 1..k : Makes(v, j, Port(v, t)) /\ b.bterms[t].net = Verilog[v].nets[j]
          BY <3>1 DEF Flattened
        <4> QED
          BY <1>1, <2>5, <3>1, <4>1
      <3>2. CASE t \notin DOMAIN b.bterms
        <4>1. Makes(v, k + 1, Port(v, t)) /\ c.bterms[t].net = Verilog[v].nets[k + 1]
          BY <2>5, <2>c, <3>2 DEF n
        <4> QED
          BY <1>1, <4>1
      <3> QED
        BY <3>1, <3>2
    <2>9. DOMAIN c.bterms \subseteq DOMAIN Verilog[v].ports
      BY <2>5, <2>c DEF Flattened
    <2>10. Flattened(v, c, k + 1)
      BY <2>2, <2>6, <2>7, <2>8, <2>9 DEF Flattened
    <2> QED
      BY <2>10 DEF c, n
  <1> QED
    BY <1>2, <1>3

\* There is a function that makes the first n nets, for every n: without one, Flat would say
\* nothing.
Blank(v) == [id |-> steps + 1, source |-> v, insts |-> DbInsts(v), iterms |-> <<>>, bterms |-> <<>>]

Runs(f, v, n) ==
    f = [k \in 0..n |-> IF k = 0 THEN Blank(v) ELSE MakeDbNet(v, f[k - 1], Verilog[v].nets[k])]

LEMMA RunsExist ==
    ASSUME NEW v, NEW n \in Nat
    PROVE  \E f : Runs(f, v, n)
  <1> DEFINE step(b, k) == MakeDbNet(v, b, Verilog[v].nets[k])
             blank == Blank(v)
             RunsTo(f, m) == f = [k \in 0..m |-> IF k = 0 THEN blank ELSE step(f[k - 1], k)]
             T == {m \in Nat : ~ \E f : RunsTo(f, m)}
  <1> HIDE DEF step, blank
  <1>1. SUFFICES ASSUME n \in T PROVE FALSE
    BY DEF step, blank, Runs
  <1>2. T \in SUBSET Nat /\ T # {}
    BY <1>1
  <1>3. PICK m \in T : \A k \in T : m <= k
    BY <1>2, NatMin
  <1>4. m # 0
    <2>1. RunsTo([k \in 0..0 |-> blank], 0)
      OBVIOUS
    <2> QED
      BY <2>1
  <1>5. m - 1 \in Nat /\ m - 1 \notin T
    BY <1>3, <1>4
  <1>6. PICK f : RunsTo(f, m - 1)
    BY <1>5
  <1> DEFINE g == [k \in 0..m |-> IF k = m THEN step(f[m - 1], m) ELSE f[k]]
  <1>7. ASSUME NEW k \in 0..m
        PROVE  g[k] = IF k = 0 THEN blank ELSE step(g[k - 1], k)
    <2>1. CASE k = m
      BY <1>3, <1>4, <2>1
    <2>2. CASE k # m
      <3>1. k \in 0..(m - 1) /\ g[k] = f[k]
        BY <1>3, <2>2
      <3>2. f[k] = IF k = 0 THEN blank ELSE step(f[k - 1], k)
        BY <1>6, <3>1
      <3>3. k # 0 => k - 1 \in 0..m /\ k - 1 # m /\ g[k - 1] = f[k - 1]
        BY <1>3, <3>1
      <3> QED
        BY <3>1, <3>2, <3>3
    <2> QED
      BY <2>1, <2>2
  <1>8. RunsTo(g, m)
    BY <1>7
  <1> QED
    BY <1>3, <1>8

LEMMA FlatFlattened ==
    ASSUME NEW v \in VerilogFile
    PROVE  Flattened(v, Flat(v), Len(Verilog[v].nets))
  <1> DEFINE nets == Verilog[v].nets
             n == Len(nets)
             after == CHOOSE f : Runs(f, v, n)
             T == {k \in 0..n : ~Flattened(v, after[k], k)}
  <1>1. n \in Nat
    BY DesignAssumption
  <1>2. Runs(after, v, n)
    <2> HIDE DEF n
    <2>1. \E f : Runs(f, v, n)
      BY <1>1, RunsExist
    <2> QED
      BY <2>1
  <1>3. Flat(v) = after[n]
    BY DEF Flat, Runs, Blank
  <1> HIDE DEF after, n
  <1>4. after[0] = Blank(v) /\ \A k \in 1..n : after[k] = MakeDbNet(v, after[k - 1], nets[k])
    BY <1>1, <1>2 DEF Runs
  <1>5. SUFFICES ASSUME n \in T PROVE FALSE
    BY <1>1, <1>3 DEF n
  <1>6. T \in SUBSET Nat /\ T # {}
    BY <1>1, <1>5
  <1>7. PICK m \in T : \A k \in T : m <= k
    BY <1>6, NatMin
  <1>8. Flattened(v, after[0], 0)
    <2>1. DOMAIN Blank(v).iterms = {} /\ DOMAIN Blank(v).bterms = {} /\ 1..0 = {}
      BY DEF Blank
    <2>2. /\ Shape(Blank(v)) /\ Blank(v).source = v /\ Blank(v).insts = DbInsts(v)
      BY DEF Blank, Shape
    <2> QED
      BY <1>4, <2>1, <2>2 DEF Flattened
  <1>9. m # 0
    BY <1>8
  <1>10. m - 1 \in 0..n /\ m - 1 \notin T /\ m \in 1..n /\ m - 1 \in Nat /\ (m - 1) + 1 = m
    BY <1>1, <1>7, <1>9
  <1>11. Flattened(v, after[m - 1], m - 1)
    BY <1>10
  <1>12. Flattened(v, MakeDbNet(v, after[m - 1], nets[m]), m)
    BY <1>10, <1>11, FlattenStep
  <1> QED
    BY <1>4, <1>7, <1>10, <1>12

\* The net a pin's own is joined to and that makeDbNets comes to first is made unless it is
\* constant: a net below a port comes after the one outside.
LEMMA FirstIsMade ==
    ASSUME NEW v \in VerilogFile, NEW n \in NetsOf(v)
    PROVE  \E j \in 1..Len(Verilog[v].nets) :
              /\ Verilog[v].nets[j] \in NetsOf(v) /\ n \in Joined[v][Verilog[v].nets[j]]
              /\ ~HasTerminals(v, Verilog[v].nets[j])
  <1> DEFINE nets == Verilog[v].nets
             T == {j \in 1..Len(nets) : n \in Joined[v][nets[j]]}
  <1>1. /\ Len(nets) \in Nat /\ DOMAIN nets = 1..Len(nets)
        /\ \A j \in 1..Len(nets) : nets[j] \in NetsOf(v)
        /\ \A m \in NetsOf(v) : \E j \in 1..Len(nets) : nets[j] = m
    BY DesignAssumption DEF NetsOf, ToSet
  <1>2. T \in SUBSET Nat /\ T # {}
    BY <1>1, JoinedFacts
  <1>3. PICK j \in T : \A i \in T : j <= i
    BY <1>2, NatMin
  <1>4. ASSUME HasTerminals(v, nets[j]) PROVE FALSE
    <2>1. PICK t \in TermsOf(v) : t[1] = nets[j]
      BY <1>4 DEF HasTerminals
    <2>2. t[2] \in NetsOf(v) /\ Joined[v][t[2]] = Joined[v][nets[j]]
      BY <1>1, <2>1, JoinedFacts
    <2>3. PICK i \in 1..Len(nets) : nets[i] = t[2]
      BY <1>1, <2>2
    <2>4. i \in T
      BY <2>2, <2>3
    <2>5. t = <<nets[j], nets[i]>>
      BY <2>1, <2>3, DesignAssumption
    <2>6. i < j
      BY <1>1, <2>5, DesignAssumption
    <2> QED
      BY <1>3, <2>4, <2>6
  <1> QED
    BY <1>1, <1>3, <1>4

\* What link_design makes of a netlist keeps its connections.
LEMMA FlatHierarchical ==
    ASSUME NEW v \in VerilogFile
    PROVE  Shape(Flat(v)) /\ Flat(v).source = v /\ Hierarchical(Flat(v))
  <1> DEFINE b == Flat(v)
             L == Len(Verilog[v].nets)
             nets == Verilog[v].nets
             outer == {n \in NetsOf(v) : n \in Verilog[v].top \/ ~HasTerminals(v, n)}
  <1>1. Flattened(v, b, L)
    BY FlatFlattened
  <1>2. \A j \in 1..L : nets[j] \in NetsOf(v)
    BY DesignAssumption
  <1>3. \A p \in DOMAIN Verilog[v].pins : Pin(v, p) \in NetsOf(v)
    BY DesignAssumption DEF Pin
  <1>4. \A t \in DOMAIN Verilog[v].ports : Port(v, t) \in NetsOf(v) /\ Port(v, t) \in Verilog[v].top
    BY DesignAssumption DEF Port
  <1>5. DbPins(v) \subseteq DOMAIN Verilog[v].pins
    BY DEF DbPins
  <1> HIDE DEF b, L, nets, outer
  <1>6. /\ b.source = v /\ b.insts = DbInsts(v) /\ DOMAIN b.iterms \subseteq DbPins(v)
        /\ DOMAIN b.bterms \subseteq DOMAIN Verilog[v].ports
    BY <1>1 DEF Flattened
  \* A net made is an outer net, joined to what is on it.
  <1>7. ASSUME NEW p \in DOMAIN b.iterms
        PROVE  b.iterms[p] \in outer /\ Joined[v][b.iterms[p]] = Joined[v][Pin(v, p)]
    <2>1. PICK j \in 1..L : Makes(v, j, Pin(v, p)) /\ b.iterms[p] = nets[j]
      BY <1>1 DEF Flattened, nets
    <2>2. nets[j] \in outer
      BY <1>2, <2>1 DEF Makes, MakesNet, outer, nets
    <2>3. Joined[v][Pin(v, p)] = Joined[v][nets[j]]
      BY <1>2, <1>3, <1>5, <1>6, <2>1, JoinedFacts DEF Makes, nets
    <2> QED
      BY <2>1, <2>2, <2>3
  <1>8. ASSUME NEW t \in DOMAIN b.bterms
        PROVE  b.bterms[t].net \in outer /\ Joined[v][b.bterms[t].net] = Joined[v][Port(v, t)]
    <2>1. PICK j \in 1..L : Makes(v, j, Port(v, t)) /\ b.bterms[t].net = nets[j]
      BY <1>1 DEF Flattened, nets
    <2>2. nets[j] \in outer
      BY <1>2, <2>1 DEF Makes, MakesNet, outer, nets
    <2>3. Joined[v][Port(v, t)] = Joined[v][nets[j]]
      BY <1>2, <1>4, <1>6, <2>1, JoinedFacts DEF Makes, nets
    <2> QED
      BY <2>1, <2>2, <2>3
  <1>9. outer \subseteq NetsOf(v)
    BY DEF outer
  <1>10. ASSUME NEW p \in DbPins(v), p \notin DOMAIN b.iterms
         PROVE  \E n \in Verilog[v].constant : Pin(v, p) \in Joined[v][n]
    <2>1. PICK j \in 1..L : /\ nets[j] \in NetsOf(v) /\ Pin(v, p) \in Joined[v][nets[j]]
                            /\ ~HasTerminals(v, nets[j])
      BY <1>3, <1>5, FirstIsMade DEF L, nets
    <2>2. ~Makes(v, j, Pin(v, p))
      BY <1>1, <1>10 DEF Flattened
    <2> QED
      BY <2>1, <2>2 DEF Makes, MakesNet, nets
  <1>11. ASSUME NEW p \in DOMAIN b.iterms, NEW q \in DOMAIN b.iterms
         PROVE  b.iterms[p] = b.iterms[q] <=> Pin(v, q) \in Joined[v][Pin(v, p)]
    <2>1. Pin(v, p) \in NetsOf(v) /\ Pin(v, q) \in NetsOf(v)
      BY <1>3, <1>5, <1>6
    <2>2. ASSUME b.iterms[p] = b.iterms[q] PROVE Pin(v, q) \in Joined[v][Pin(v, p)]
      BY <1>7, <2>1, <2>2, JoinedFacts
    <2>3. ASSUME Pin(v, q) \in Joined[v][Pin(v, p)] PROVE b.iterms[p] = b.iterms[q]
      <3>1. Joined[v][Pin(v, q)] = Joined[v][Pin(v, p)]
        BY <2>1, <2>3, JoinedFacts
      <3>2. \A j \in 1..L : Makes(v, j, Pin(v, p)) <=> Makes(v, j, Pin(v, q))
        <4>1. ASSUME NEW j \in 1..L
              PROVE  Pin(v, p) \in Joined[v][nets[j]] <=> Pin(v, q) \in Joined[v][nets[j]]
          BY <1>2, <2>1, <3>1, JoinedFacts
        <4> QED
          BY <4>1 DEF Makes, nets
      <3>3. PICK j \in 1..L : /\ Makes(v, j, Pin(v, p)) /\ b.iterms[p] = nets[j]
                              /\ \A i \in 1..L : Makes(v, i, Pin(v, p)) => i <= j
        BY <1>1 DEF Flattened, nets
      <3>4. PICK k \in 1..L : /\ Makes(v, k, Pin(v, q)) /\ b.iterms[q] = nets[k]
                              /\ \A i \in 1..L : Makes(v, i, Pin(v, q)) => i <= k
        BY <1>1 DEF Flattened, nets
      <3>5. j <= k /\ k <= j
        BY <3>2, <3>3, <3>4
      <3>6. j \in Int /\ k \in Int
        OBVIOUS
      <3>7. j = k
        BY <3>5, <3>6
      <3> QED
        BY <3>3, <3>4, <3>7
    <2> QED
      BY <2>2, <2>3
  <1>12. ASSUME NEW p \in DOMAIN b.iterms, NEW t \in DOMAIN b.bterms,
                ~\E m \in outer \ {Port(v, t)} : m \in Joined[v][Port(v, t)]
         PROVE  b.iterms[p] = b.bterms[t].net <=> Port(v, t) \in Joined[v][Pin(v, p)]
    <2>1. Pin(v, p) \in NetsOf(v) /\ Port(v, t) \in NetsOf(v)
      BY <1>3, <1>4, <1>5, <1>6
    <2>2. ASSUME b.iterms[p] = b.bterms[t].net PROVE Port(v, t) \in Joined[v][Pin(v, p)]
      BY <1>7, <1>8, <2>1, <2>2, JoinedFacts
    <2>3. ASSUME Port(v, t) \in Joined[v][Pin(v, p)] PROVE b.iterms[p] = b.bterms[t].net
      <3>1. Joined[v][Port(v, t)] = Joined[v][Pin(v, p)]
        BY <2>1, <2>3, JoinedFacts
      <3>2. /\ b.iterms[p] \in Joined[v][Port(v, t)]
            /\ b.bterms[t].net \in Joined[v][Port(v, t)]
        BY <1>7, <1>8, <1>9, <3>1, JoinedFacts
      <3> QED
        BY <1>7, <1>8, <1>12, <3>2
    <2> QED
      BY <2>2, <2>3
  <1>13. DbPins(v) = {p \in DOMAIN Verilog[v].pins :
                        /\ p[1] \in DOMAIN b.insts
                        /\ p[2] \in Masters[b.insts[p[1]]][Verilog[v].insts[p[1]]]}
    BY <1>6 DEF DbPins
  <1>14. Hierarchical(b)
    <2> DEFINE meeting == {n \in Verilog[v].top : \E m \in outer \ {n} : m \in Joined[v][n]}
    <2>1. \A t \in DOMAIN b.bterms : Verilog[v].ports[t].net \notin meeting =>
             ~\E m \in outer \ {Port(v, t)} : m \in Joined[v][Port(v, t)]
      BY <1>4, <1>6 DEF Port
    <2> HIDE DEF meeting
    <2>2. \A p \in DOMAIN b.iterms, t \in DOMAIN b.bterms :
             Verilog[v].ports[t].net \notin meeting =>
                ((b.iterms[p] = b.bterms[t].net) <=>
                    Verilog[v].ports[t].net \in Joined[v][Verilog[v].pins[p]])
      BY <1>12, <2>1 DEF Pin, Port
    <2>3. \A p, q \in DOMAIN b.iterms :
             (b.iterms[p] = b.iterms[q]) <=> Verilog[v].pins[q] \in Joined[v][Verilog[v].pins[p]]
      BY <1>11 DEF Pin
    <2>4. \A p \in DbPins(v) :
             p \in DOMAIN b.iterms \/ \E n \in Verilog[v].constant : Verilog[v].pins[p] \in Joined[v][n]
      BY <1>10 DEF Pin
    <2>5. DOMAIN b.iterms \subseteq DbPins(v)
      BY <1>6
    <2>6. ConnectsAs(v, b.insts, b.iterms, b.bterms)
      BY <1>13, <2>2, <2>3, <2>4, <2>5 DEF ConnectsAs, meeting, outer
    <2> QED
      BY <1>6, <2>6 DEF Hierarchical
  <1> QED
    BY <1>1, <1>6, <1>14 DEF Flattened, b

-----------------------------------------------------------------------------
(***************************************************************************)
(* The block of the database and that of the file write_db has written.    *)
(***************************************************************************)
Linked(b) ==
    b = NoBlock \/ (/\ Shape(b)
                    /\ b.source # NoVerilog => Hierarchical(b))

LinkInv == source \in VerilogFile \cup {NoVerilog} /\ Linked(block) /\ Linked(file[3])

LEMMA RelabelLinked ==
    ASSUME NEW b, NEW id, Shape(b)
    PROVE  /\ (b.source # NoVerilog => Hierarchical(b)) => Linked([b EXCEPT !.id = id])
           /\ Linked([b EXCEPT !.source = NoVerilog])
  <1> DEFINE c == [b EXCEPT !.id = id]
             d == [b EXCEPT !.source = NoVerilog]
  <1>1. b = [id |-> b.id, source |-> b.source, insts |-> b.insts,
             iterms |-> b.iterms, bterms |-> b.bterms]
    BY DEF Shape
  <1>2. /\ c = [id |-> id, source |-> b.source, insts |-> b.insts,
                iterms |-> b.iterms, bterms |-> b.bterms]
        /\ d = [id |-> b.id, source |-> NoVerilog, insts |-> b.insts,
                iterms |-> b.iterms, bterms |-> b.bterms]
    BY <1>1
  <1>3. /\ Shape(c) /\ Shape(d) /\ d.source = NoVerilog
        /\ c.source = b.source /\ c.insts = b.insts /\ c.iterms = b.iterms /\ c.bterms = b.bterms
    BY <1>2 DEF Shape
  <1> HIDE DEF c, d
  <1>4. Hierarchical(b) => Hierarchical(c)
    <2>1. /\ c.source = b.source /\ c.insts = b.insts
          /\ c.iterms = b.iterms /\ c.bterms = b.bterms
      BY <1>3, Zenon
    <2> QED
      BY <2>1 DEF Hierarchical
  <1>5. Linked(d)
    BY <1>3 DEF Linked
  <1>6. (b.source # NoVerilog => Hierarchical(b)) => Linked(c)
    BY <1>3, <1>4 DEF Linked
  <1> QED
    BY <1>5, <1>6 DEF c, d

LEMMA LinkKept == LinkInv /\ [Next]_vars => LinkInv'
  <1> SUFFICES ASSUME LinkInv, [Next]_vars PROVE LinkInv'
    OBVIOUS
  <1>1. source \in VerilogFile \cup {NoVerilog} /\ Linked(block) /\ Linked(file[3])
    BY DEF LinkInv
  <1>2. ASSUME UNCHANGED <<source, block, file>> PROVE LinkInv'
    <2>1. Linked(block') /\ Linked(file'[3])
      BY <1>1, <1>2
    <2> QED
      BY <1>1, <1>2, <2>1 DEF LinkInv
  <1>3. ASSUME NEW f, NEW flags, ReadLef(f, flags) PROVE LinkInv'
    BY <1>2, <1>3 DEF ReadLef
  <1>4. ASSUME NEW l, ReadLiberty(l) PROVE LinkInv'
    BY <1>2, <1>4 DEF ReadLiberty, database
  <1>5. ASSUME NEW v \in VerilogFile, ReadVerilog(v) PROVE LinkInv'
    BY <1>1, <1>5 DEF ReadVerilog, database, LinkInv
  <1>6. ASSUME NEW v \in VerilogFile, ReadDef(v) PROVE LinkInv'
    <2>1. block' = [Flat(v) EXCEPT !.source = NoVerilog] /\ source' = source /\ file' = file
      BY <1>6 DEF ReadDef
    <2>2. Linked(block')
      BY <2>1, FlatHierarchical, RelabelLinked
    <2> QED
      BY <1>1, <2>1, <2>2 DEF LinkInv
  <1>7. ASSUME NEW found \in BOOLEAN, LinkDesign(found) PROVE LinkInv'
    <2>1. CASE found
      <3>1. /\ block' = Flat(source) /\ source' = NoVerilog /\ file' = file
            /\ source \in VerilogFile
        BY <1>1, <1>7, <2>1 DEF LinkDesign
      <3>2. Linked(block')
        BY <3>1, FlatHierarchical DEF Linked
      <3> QED
        BY <1>1, <3>1, <3>2 DEF LinkInv
    <2>2. CASE ~found
      BY <1>2, <1>7, <2>2 DEF LinkDesign
    <2> QED
      BY <2>1, <2>2
  <1>8. CASE WriteDb
    <2>1. file'[3] = block /\ block' = block /\ source' = source
      BY <1>8 DEF WriteDb, database
    <2> QED
      BY <1>1, <2>1 DEF LinkInv
  <1>9. CASE ReadDb
    <2>1. /\ source' = source /\ file' = file
          /\ block' = IF file[3] = NoBlock THEN NoBlock ELSE [file[3] EXCEPT !.id = steps']
      BY <1>9 DEF ReadDb
    <2>2. Linked(block')
      <3>1. CASE file[3] = NoBlock
        BY <2>1, <3>1 DEF Linked
      <3>2. CASE file[3] # NoBlock
        <4>1. Shape(file[3]) /\ (file[3].source # NoVerilog => Hierarchical(file[3]))
          BY <1>1, <3>2 DEF Linked
        <4> QED
          BY <2>1, <3>2, <4>1, RelabelLinked
      <3> QED
        BY <3>1, <3>2
    <2> QED
      BY <1>1, <2>1, <2>2 DEF LinkInv
  <1>10. CASE Clear
    <2>1. source' = source /\ file' = file /\ block' = NoBlock
      BY <1>10 DEF Clear
    <2> QED
      BY <1>1, <2>1 DEF LinkInv, Linked
  <1>11. CASE UNCHANGED vars
    BY <1>2, <1>11 DEF vars, database
  <1> QED
    BY <1>3, <1>4, <1>5, <1>6, <1>7, <1>8, <1>9, <1>10, <1>11 DEF Next

\* A block that link_design made keeps the connections of the hierarchical netlist, also
\* when it comes back with read_db.
THEOREM FlatAlwaysHierarchical == Spec => []FlatIsHierarchical
  <1>1. Init => LinkInv
    BY DEF Init, LinkInv, Linked
  <1>2. LinkInv => FlatIsHierarchical
    BY DEF LinkInv, Linked, FlatIsHierarchical
  <1> QED
    BY <1>1, <1>2, LinkKept, PTL DEF Spec

=============================================================================
