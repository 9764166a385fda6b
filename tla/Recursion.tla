------------------------------ MODULE Recursion ------------------------------
(***************************************************************************)
(* A function that is defined by recursion over data exists, when every     *)
(* data item has a rank and the value at an item depends on the values at   *)
(* items of lower rank only.  A module with such a function instantiates    *)
(* this one with the domain, a rank and the step of the definition.         *)
(***************************************************************************)
EXTENDS Naturals, FiniteSetTheorems, TLAPS

CONSTANTS
  Dom,        \* the domain of the function
  Rank,       \* the rank of each element
  Step(_, _)  \* the value at an element, given the function

Below(x) == {y \in Dom : Rank[y] < Rank[x]}

WellRanked ==
  /\ Rank \in [Dom -> Nat]
  /\ \A x \in Dom : \A g, h :
       (\A y \in Below(x) : g[y] = h[y]) => Step(g, x) = Step(h, x)

\* What `Fcn[x \in Dom] == Step(Fcn, x)' stands for.
Fcn == CHOOSE f : f = [x \in Dom |-> Step(f, x)]

\* A function that follows the definition up to a rank.
Upto(n) == {x \in Dom : Rank[x] < n}
Approximates(f, n) == f = [x \in Upto(n) |-> Step(f, x)]
Approximation(n) == CHOOSE f : Approximates(f, n)

\* Every set of numbers has a least one: otherwise adding 1 would map the
\* finitely many lower bounds injectively to themselves, and miss 0.
LEMMA LeastNatural ==
  ASSUME NEW S \in SUBSET Nat, S # {}
  PROVE  \E n \in S : \A m \in S : n <= m
<1>1. SUFFICES ASSUME \A n \in S : \E m \in S : m < n PROVE FALSE
  OBVIOUS
<1> DEFINE Lower == {x \in Nat : \A y \in S : x < y}
           succ == [x \in Lower |-> x + 1]
<1>2. 0 \in Lower
  BY <1>1
<1>3. \A x \in Lower : x + 1 \in Lower
  BY <1>1
<1>4. IsFiniteSet(Lower)
  <2>1. PICK y \in S : TRUE
    OBVIOUS
  <2>2. Lower \in SUBSET Nat /\ \A x \in Lower : x <= y
    BY <2>1
  <2> HIDE DEF Lower
  <2> QED BY <2>1, <2>2, FS_BoundedSetOfNaturals
<1>5. succ \in Injection(Lower, Lower)
  BY <1>3 DEF Injection, IsInjective
<1>6. succ \in Surjection(Lower, Lower)
  <2> HIDE DEF Lower, succ
  <2> QED BY <1>4, <1>5, FS_Injection
<1>7. \E x \in Lower : succ[x] = 0
  BY <1>2, <1>6 DEF Surjection
<1>8. \A x \in Lower : succ[x] # 0
  OBVIOUS
<1> QED BY <1>7, <1>8

\* Every set of ranked elements has one of least rank.
LEMMA LeastRank ==
  ASSUME NEW D, NEW R \in [D -> Nat], NEW T \in SUBSET D, T # {}
  PROVE  \E x \in T : \A y \in T : R[x] <= R[y]
<1> DEFINE N == {R[x] : x \in T}
<1>1. N \in SUBSET Nat /\ N # {}
  OBVIOUS
<1>2. PICK n \in N : \A m \in N : n <= m
  <2> HIDE DEF N
  <2> QED BY <1>1, LeastNatural
<1> QED BY <1>2

\* Induction over ranked elements, for a set of them instead of a predicate.
LEMMA RankInduction ==
  ASSUME NEW D, NEW R \in [D -> Nat], NEW T \in SUBSET D,
         \A x \in D : (\A y \in D : R[y] < R[x] => y \in T) => x \in T
  PROVE  T = D
<1> DEFINE Rest == D \ T
<1>1. SUFFICES ASSUME Rest # {} PROVE FALSE
  OBVIOUS
<1>2. PICK x \in Rest : \A y \in Rest : R[x] <= R[y]
  <2>1. Rest \in SUBSET D
    OBVIOUS
  <2> HIDE DEF Rest
  <2> QED BY <1>1, <2>1, LeastRank
<1>3. \A y \in D : R[y] < R[x] => y \in T
  BY <1>2
<1> QED BY <1>3

\* Induction along the indices of a sequence.
LEMMA IndexInduction ==
  ASSUME NEW n \in Nat, NEW T \in SUBSET (0 .. n), 0 \in T,
         \A k \in 1 .. n : k - 1 \in T => k \in T
  PROVE  T = 0 .. n
<1> DEFINE Rest == (0 .. n) \ T
<1>1. SUFFICES ASSUME Rest # {} PROVE FALSE
  OBVIOUS
<1>2. PICK k \in Rest : \A m \in Rest : k <= m
  <2>1. Rest \in SUBSET Nat
    OBVIOUS
  <2> HIDE DEF Rest
  <2> QED BY <1>1, <2>1, LeastNatural
<1>3. k \in 1 .. n /\ k - 1 \in 0 .. n
  OBVIOUS
<1>4. k - 1 \in T
  BY <1>2, <1>3
<1> QED BY <1>3, <1>4

\* Approximations agree wherever both are defined.
LEMMA ApproximationsAgree ==
  ASSUME WellRanked, NEW n \in Nat, NEW m \in Nat, NEW f, NEW g,
         Approximates(f, n), Approximates(g, m)
  PROVE  \A x \in Upto(n) \cap Upto(m) : f[x] = g[x]
<1> DEFINE T == {x \in Upto(n) \cap Upto(m) : f[x] # g[x]}
<1>1. SUFFICES ASSUME T # {} PROVE FALSE
  OBVIOUS
<1>2. Rank \in [Dom -> Nat] /\ T \in SUBSET Dom
  BY DEF WellRanked, Upto
<1>3. PICK x \in T : \A y \in T : Rank[x] <= Rank[y]
  <2> HIDE DEF T
  <2> QED BY <1>1, <1>2, LeastRank
<1>4. \A y \in Below(x) : f[y] = g[y]
  BY <1>2, <1>3 DEF Below, Upto
<1>5. Step(f, x) = Step(g, x)
  BY <1>2, <1>4 DEF WellRanked
<1>6. f[x] = Step(f, x) /\ g[x] = Step(g, x)
  BY DEF Approximates
<1> QED BY <1>5, <1>6

\* There is an approximation up to every rank.
LEMMA ApproximationExists ==
  ASSUME WellRanked, NEW n \in Nat
  PROVE  Approximates(Approximation(n), n)
<1> DEFINE S == {k \in Nat : ~ \E f : Approximates(f, k)}
<1>1. SUFFICES S = {}
  BY DEF Approximation
<1>2. SUFFICES ASSUME S # {} PROVE FALSE
  OBVIOUS
<1>3. PICK k \in S : \A l \in S : k <= l
  <2>1. S \in SUBSET Nat OBVIOUS
  <2> HIDE DEF S
  <2> QED BY <1>2, <2>1, LeastNatural
<1>4. Rank \in [Dom -> Nat]
  BY DEF WellRanked
<1>5. CASE k = 0
  <2>1. Upto(0) = {}
    BY <1>4 DEF Upto
  <2>2. Approximates([x \in {} |-> x], 0)
    BY <2>1 DEF Approximates
  <2> QED BY <1>5, <2>2
<1>6. CASE k # 0
  <2>1. PICK f : Approximates(f, k - 1)
    BY <1>3, <1>6
  <2> DEFINE g == [x \in Upto(k) |-> Step(f, x)]
  <2>2. ASSUME NEW x \in Upto(k) PROVE Step(g, x) = Step(f, x)
    <3>1. ASSUME NEW y \in Below(x) PROVE g[y] = f[y]
      <4>1. y \in Upto(k) /\ y \in Upto(k - 1)
        BY <1>4, <1>6 DEF Below, Upto
      <4> QED BY <2>1, <4>1 DEF Approximates
    <3>2. x \in Dom
      BY DEF Upto
    <3> HIDE DEF g
    <3> QED BY <3>1, <3>2 DEF WellRanked
  <2>3. Approximates(g, k)
    BY <2>2 DEF Approximates
  <2> QED BY <2>3
<1> QED BY <1>5, <1>6

\* The recursion equation holds of the function the definition chooses.
LEMMA RecursionEquation ==
  WellRanked => Fcn = [x \in Dom |-> Step(Fcn, x)]
<1> SUFFICES ASSUME WellRanked PROVE Fcn = [x \in Dom |-> Step(Fcn, x)]
  OBVIOUS
<1> DEFINE h == [x \in Dom |-> Step(Approximation(Rank[x]), x)]
<1>1. Rank \in [Dom -> Nat]
  BY DEF WellRanked
<1>2. ASSUME NEW x \in Dom, NEW y \in Below(x)
      PROVE  Approximation(Rank[x])[y] = h[y]
  <2>1. y \in Dom /\ Rank[y] \in Nat /\ Rank[x] \in Nat /\ Rank[y] < Rank[x]
    BY <1>1 DEF Below
  <2>2. /\ Approximates(Approximation(Rank[x]), Rank[x])
        /\ Approximates(Approximation(Rank[y]), Rank[y])
    BY <2>1, ApproximationExists
  <2>3. \A z \in Upto(Rank[x]) \cap Upto(Rank[y]) :
           Approximation(Rank[x])[z] = Approximation(Rank[y])[z]
    BY <2>1, <2>2, ApproximationsAgree
  <2>4. Below(y) \subseteq Upto(Rank[x]) \cap Upto(Rank[y])
    BY <1>1, <2>1 DEF Below, Upto
  <2>5. Step(Approximation(Rank[x]), y) = Step(Approximation(Rank[y]), y)
    BY <2>1, <2>3, <2>4 DEF WellRanked
  <2>6. Approximation(Rank[x])[y] = Step(Approximation(Rank[x]), y)
    BY <2>1, <2>2 DEF Approximates, Upto
  <2> QED BY <2>1, <2>5, <2>6
<1>3. ASSUME NEW x \in Dom PROVE h[x] = Step(h, x)
  <2>1. h[x] = Step(Approximation(Rank[x]), x)
    OBVIOUS
  <2> HIDE DEF h
  <2> QED BY <1>2, <2>1 DEF WellRanked
<1>4. h = [x \in Dom |-> Step(h, x)]
  BY <1>3
<1> HIDE DEF h
<1> QED BY <1>4 DEF Fcn
=============================================================================
