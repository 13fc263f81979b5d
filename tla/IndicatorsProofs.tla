-------------------------- MODULE IndicatorsProofs ---------------------------
(***************************************************************************)
(* Theorems about the indicators, for windows, cycles and periods of any   *)
(* length and every sequence of candles.  The answers are compared with    *)
(* sums, extrema and weighted averages over the candles seen, so that most *)
(* of the lemmas are about the operators these are made of: sums over      *)
(* finite sets, powers, and the slots of a ring.                           *)
(***************************************************************************)
EXTENDS Indicators, FiniteSetTheorems, SequenceTheorems, WellFoundedInduction, TLAPS

(* Induction.  The library's theorems take a predicate; these take the set of the *)
(* numbers that satisfy it.                                                       *)

LEMMA LeastOf ==
  ASSUME NEW S \in SUBSET Nat, S # {}
  PROVE  \E n \in S : \A i \in S : n <= i
<1>1. PICK k \in S : \A m \in S : <<m, k>> \notin OpToRel(<, Nat)
  BY WFMin, NatLessThanWellFounded, Zenon
<1>2. \A m \in S : ~(m < k)
  BY <1>1 DEF OpToRel
<1> QED  BY <1>2

LEMMA Induction ==
  ASSUME NEW G \in SUBSET Nat, 0 \in G, \A n \in G : n + 1 \in G
  PROVE  G = Nat
<1> SUFFICES ASSUME Nat \ G # {} PROVE FALSE
  OBVIOUS
<1>1. PICK n \in Nat \ G : \A i \in Nat \ G : n <= i
  BY LeastOf
<1>2. n - 1 \in Nat
  BY <1>1
<1>3. n - 1 \in G
  BY <1>1, <1>2
<1> QED  BY <1>1, <1>2, <1>3

-----------------------------------------------------------------------------
(* Sums over finite sets: the fold of the library meets its recursive equation, *)
(* and the element it takes out first does not matter.                          *)

First(s) == CHOOSE x \in s : TRUE
FoldStep(f, it, s) == IF s = {} THEN 0 ELSE f[First(s)] + it[s \ {First(s)}]
Fold(f, S) == CHOOSE it : it = [s \in SUBSET S |-> FoldStep(f, it, s)]

LEMMA SumIsFold ==
  ASSUME NEW f, NEW S
  PROVE  SumFunctionOnSet(f, S) = Fold(f, S)[S]
BY DEF SumFunctionOnSet, FoldFunctionOnSet, MapThenFoldSet, Fold, FoldStep, First

LEMMA Smaller ==
  ASSUME NEW s, IsFiniteSet(s), NEW x \in s
  PROVE  /\ IsFiniteSet(s \ {x}) /\ Cardinality(s) \in Nat /\ Cardinality(s \ {x}) \in Nat
         /\ Cardinality(s) = Cardinality(s \ {x}) + 1
<1>1. IsFiniteSet(s \ {x}) /\ Cardinality(s \ {x}) = Cardinality(s) - 1
  BY FS_RemoveElement
<1>2. Cardinality(s) \in Nat /\ Cardinality(s \ {x}) \in Nat
  BY <1>1, FS_CardinalityType
<1> QED  BY <1>1, <1>2

LEMMA FirstIn ==
  ASSUME NEW s, s # {}
  PROVE  First(s) \in s
BY DEF First

\* The recursive definition has a solution: one for the subsets of up to n elements,
\* for every n.
LEMMA FoldDefined ==
  ASSUME NEW f, NEW S, IsFiniteSet(S)
  PROVE  \A s \in SUBSET S : Fold(f, S)[s] = FoldStep(f, Fold(f, S), s)
<1> DEFINE Small(n) == {s \in SUBSET S : Cardinality(s) <= n}
           G == {n \in Nat : \E it : it = [s \in Small(n) |-> FoldStep(f, it, s)]}
<1>1. \A s \in SUBSET S : IsFiniteSet(s) /\ Cardinality(s) \in Nat
  BY FS_Subset, FS_CardinalityType
<1>2. 0 \in G
  <2>1. \A s \in Small(0) : s = {}
    BY <1>1, FS_EmptySet
  <2> DEFINE it == [s \in Small(0) |-> 0]
  <2>2. it = [s \in Small(0) |-> FoldStep(f, it, s)]
    BY <2>1 DEF FoldStep
  <2> QED  BY <2>2
<1>3. ASSUME NEW n \in G PROVE n + 1 \in G
  <2>1. PICK it : it = [s \in Small(n) |-> FoldStep(f, it, s)]
    OBVIOUS
  <2> DEFINE next == [s \in Small(n + 1) |-> FoldStep(f, it, s)]
  <2>2. ASSUME NEW s \in Small(n + 1) PROVE FoldStep(f, next, s) = FoldStep(f, it, s)
    <3>1. CASE s = {}
      BY <3>1 DEF FoldStep
    <3>2. CASE s # {}
      <4> DEFINE t == s \ {First(s)}
      <4>1. First(s) \in s
        BY <3>2, FirstIn
      <4>2. t \in Small(n)
        <5>1. IsFiniteSet(s) /\ n \in Nat /\ Cardinality(s) <= n + 1
          BY <1>1
        <5>2. Cardinality(s) = Cardinality(t) + 1 /\ Cardinality(t) \in Nat
          BY <4>1, <5>1, Smaller
        <5> QED  BY <5>1, <5>2
      <4>3. t \in Small(n + 1)
        BY <1>1, <4>2
      <4>4. next[t] = FoldStep(f, it, t)
        BY <4>3
      <4>5. it[t] = FoldStep(f, it, t)
        BY <2>1, <4>2
      <4> QED  BY <3>2, <4>4, <4>5 DEF FoldStep
    <3> QED  BY <3>1, <3>2
  <2>3. next = [s \in Small(n + 1) |-> FoldStep(f, next, s)]
    <3> HIDE DEF Small
    <3> QED  BY <2>2, Zenon
  <2> HIDE DEF next
  <2>4. n + 1 \in Nat
    OBVIOUS
  <2> QED  BY <2>3, <2>4
<1>4. G = Nat
  <2> HIDE DEF G
  <2>1. G \subseteq Nat
    BY DEF G
  <2> QED  BY <1>2, <1>3, <2>1, Induction
<1>5. Cardinality(S) \in G
  BY <1>1, <1>4
<1>6. Small(Cardinality(S)) = SUBSET S
  <2>1. \A s \in SUBSET S : Cardinality(s) <= Cardinality(S)
    BY FS_Subset
  <2> QED  BY <2>1
<1>7. \E it : it = [s \in SUBSET S |-> FoldStep(f, it, s)]
  <2>1. \E it : it = [s \in Small(Cardinality(S)) |-> FoldStep(f, it, s)]
    <3> HIDE DEF Small
    <3> QED  BY <1>5
  <2> QED  BY <1>6, <2>1
<1>8. Fold(f, S) = [s \in SUBSET S |-> FoldStep(f, Fold(f, S), s)]
  BY <1>7, Zenon DEF Fold
<1> QED  BY <1>8, Zenon

LEMMA FoldAt ==
  ASSUME NEW f, NEW S, IsFiniteSet(S), NEW s \in SUBSET S
  PROVE  /\ s = {} => Fold(f, S)[s] = 0
         /\ s # {} => Fold(f, S)[s] = f[First(s)] + Fold(f, S)[s \ {First(s)}]
<1>1. Fold(f, S)[s] = FoldStep(f, Fold(f, S), s)
  BY FoldDefined
<1> QED  BY <1>1 DEF FoldStep

\* Two functions that agree on a set have the same sum over it, and the set the
\* recursion is over does not matter.
LEMMA FoldAgrees ==
  ASSUME NEW f, NEW g, NEW S, NEW T, IsFiniteSet(S), IsFiniteSet(T),
         NEW R, R \subseteq S, R \subseteq T, \A x \in R : f[x] = g[x]
  PROVE  Fold(f, S)[R] = Fold(g, T)[R]
<1> DEFINE G == {n \in Nat : \A s \in SUBSET R :
                    Cardinality(s) = n => Fold(f, S)[s] = Fold(g, T)[s]}
<1>1. \A s \in SUBSET R : IsFiniteSet(s) /\ Cardinality(s) \in Nat
  BY FS_Subset, FS_CardinalityType
<1>2. 0 \in G
  <2>1. ASSUME NEW s \in SUBSET R, Cardinality(s) = 0 PROVE Fold(f, S)[s] = Fold(g, T)[s]
    <3>1. s = {}
      BY <1>1, <2>1, FS_EmptySet
    <3>2. {} \in SUBSET S /\ {} \in SUBSET T
      OBVIOUS
    <3>3. Fold(f, S)[{}] = 0
      BY <3>2, FoldAt
    <3>4. Fold(g, T)[{}] = 0
      BY <3>2, FoldAt
    <3> QED  BY <3>1, <3>3, <3>4
  <2> QED  BY <2>1
<1>3. ASSUME NEW n \in G PROVE n + 1 \in G
  <2>1. ASSUME NEW s \in SUBSET R, Cardinality(s) = n + 1 PROVE Fold(f, S)[s] = Fold(g, T)[s]
    <3>1. s # {}
      BY <1>1, <2>1, FS_EmptySet
    <3>2. First(s) \in s
      BY <3>1, FirstIn
    <3> DEFINE t == s \ {First(s)}
    <3>3. t \in SUBSET R /\ Cardinality(t) = n
      <4>1. Cardinality(s) = Cardinality(t) + 1 /\ Cardinality(t) \in Nat
        BY <1>1, <3>2, Smaller
      <4> QED  BY <2>1, <4>1
    <3>4. Fold(f, S)[t] = Fold(g, T)[t]
      BY <3>3
    <3>5. s \in SUBSET S /\ s \in SUBSET T
      OBVIOUS
    <3> HIDE DEF G
    <3>6. Fold(f, S)[s] = f[First(s)] + Fold(f, S)[t]
      <4> s \in SUBSET S
        BY <3>5
      <4> QED  BY ONLY IsFiniteSet(S), s \in SUBSET S, <3>1, FoldAt
    <3>7. Fold(g, T)[s] = g[First(s)] + Fold(g, T)[t]
      <4> s \in SUBSET T
        BY <3>5
      <4> QED  BY ONLY IsFiniteSet(T), s \in SUBSET T, <3>1, FoldAt
    <3> QED  BY <3>2, <3>4, <3>6, <3>7
  <2>2. n + 1 \in Nat
    OBVIOUS
  <2> QED  BY <2>1, <2>2
<1>4. G = Nat
  <2> HIDE DEF G
  <2>1. G \subseteq Nat
    BY DEF G
  <2> QED  BY <1>2, <1>3, <2>1, Induction
<1>5. IsFiniteSet(R) /\ Cardinality(R) \in Nat
  BY FS_Subset, FS_CardinalityType
<1> QED  BY <1>4, <1>5

LEMMA SumOfNone ==
  ASSUME NEW f
  PROVE  SumFunctionOnSet(f, {}) = 0
<1>1. IsFiniteSet({})
  BY FS_EmptySet
<1> QED  BY <1>1, FoldAt, SumIsFold

LEMMA SumAgrees ==
  ASSUME NEW S, IsFiniteSet(S), NEW f, NEW g, \A x \in S : f[x] = g[x]
  PROVE  SumFunctionOnSet(f, S) = SumFunctionOnSet(g, S)
BY FoldAgrees, SumIsFold

LEMMA SumFirst ==
  ASSUME NEW S, IsFiniteSet(S), S # {}, NEW f
  PROVE  SumFunctionOnSet(f, S) = f[First(S)] + SumFunctionOnSet(f, S \ {First(S)})
<1> DEFINE T == S \ {First(S)}
<1>1. IsFiniteSet(T)
  BY FS_Subset
<1>2. Fold(f, S)[T] = Fold(f, T)[T]
  BY <1>1, FoldAgrees
<1>3. Fold(f, S)[S] = f[First(S)] + Fold(f, S)[T]
  BY FoldAt
<1> QED  BY <1>2, <1>3, SumIsFold

\* Any element may be taken out first.
LEMMA SumWithout ==
  ASSUME NEW S, IsFiniteSet(S), NEW f, \A x \in S : f[x] \in Int
  PROVE  /\ SumFunctionOnSet(f, S) \in Int
         /\ \A x \in S : SumFunctionOnSet(f, S) = f[x] + SumFunctionOnSet(f, S \ {x})
<1> DEFINE Sum(s) == SumFunctionOnSet(f, s)
           G == {n \in Nat : \A s \in SUBSET S : Cardinality(s) <= n =>
                   /\ Sum(s) \in Int
                   /\ \A x \in s : Sum(s) = f[x] + Sum(s \ {x})}
<1>1. \A s \in SUBSET S : IsFiniteSet(s) /\ Cardinality(s) \in Nat
  BY FS_Subset, FS_CardinalityType
<1>2. 0 \in G
  <2>1. ASSUME NEW s \in SUBSET S, Cardinality(s) <= 0
        PROVE  Sum(s) \in Int /\ \A x \in s : Sum(s) = f[x] + Sum(s \ {x})
    <3>1. s = {}
      BY <1>1, <2>1, FS_EmptySet
    <3>2. Sum({}) = 0
      BY SumOfNone
    <3> QED  BY <3>1, <3>2
  <2> QED  BY <2>1
<1>3. ASSUME NEW n \in G PROVE n + 1 \in G
  <2>0. Sum({}) = 0
    BY SumOfNone
  <2>1. ASSUME NEW s \in SUBSET S, Cardinality(s) <= n + 1, s # {}
        PROVE  Sum(s) \in Int /\ \A x \in s : Sum(s) = f[x] + Sum(s \ {x})
    <3> DEFINE p == First(s)
    <3>1. p \in s
      BY <2>1, FirstIn
    <3> HIDE DEF p
    <3>2. ASSUME NEW x \in s
          PROVE  /\ s \ {x} \in SUBSET S /\ Sum(s \ {x}) \in Int
                 /\ \A y \in s \ {x} : Sum(s \ {x}) = f[y] + Sum((s \ {x}) \ {y})
                 /\ \A t \in SUBSET (s \ {x}) : Sum(t) \in Int
      <4>1. Cardinality(s) = Cardinality(s \ {x}) + 1 /\ Cardinality(s \ {x}) \in Nat
        BY <1>1, Smaller
      <4>2. n \in Nat /\ Cardinality(s \ {x}) <= n
        BY <2>1, <4>1
      <4>3. \A t \in SUBSET (s \ {x}) : Cardinality(t) <= n
        <5>1. IsFiniteSet(s \ {x})
          BY <1>1
        <5>2. ASSUME NEW t \in SUBSET (s \ {x}) PROVE Cardinality(t) <= n
          <6>1. Cardinality(t) <= Cardinality(s \ {x})
            BY <5>1, FS_Subset
          <6>2. Cardinality(t) \in Nat
            BY <1>1
          <6> QED  BY <4>1, <4>2, <6>1, <6>2
        <5> QED  BY <5>2
      <4> HIDE DEF Sum
      <4> QED  BY <4>2, <4>3
    <3>3. Sum(s) = f[p] + Sum(s \ {p})
      BY <1>1, <2>1, SumFirst DEF p
    <3>4. Sum(s) \in Int
      <4> HIDE DEF Sum
      <4> QED  BY <3>1, <3>2, <3>3
    <3>5. ASSUME NEW x \in s PROVE Sum(s) = f[x] + Sum(s \ {x})
      <4>1. CASE x = p
        BY <3>3, <4>1
      <4>2. CASE x # p
        <5>1. (s \ {p}) \ {x} = (s \ {x}) \ {p}
          OBVIOUS
        <5> DEFINE both == (s \ {x}) \ {p}
        <5> HIDE DEF Sum
        <5>2. Sum(s \ {p}) = f[x] + Sum(both)
          BY <3>1, <3>2, <4>2, <5>1
        <5>3. Sum(s \ {x}) = f[p] + Sum(both)
          BY <3>1, <3>2, <4>2
        <5>4. Sum(both) \in Int
          BY <3>2
        <5>5. f[p] \in Int /\ f[x] \in Int
          BY <3>1
        <5> HIDE DEF both
        <5> QED  BY <3>3, <5>2, <5>3, <5>4, <5>5
      <4> QED  BY <4>1, <4>2
    <3> QED  BY <3>4, <3>5
  <2>2. n + 1 \in Nat
    OBVIOUS
  <2> HIDE DEF Sum
  <2> QED  BY <2>0, <2>1, <2>2
<1>4. G = Nat
  <2> HIDE DEF G
  <2>1. G \subseteq Nat
    BY DEF G
  <2> QED  BY <1>2, <1>3, <2>1, Induction
<1>5. IsFiniteSet(S) /\ Cardinality(S) \in Nat /\ S \in SUBSET S
  BY FS_CardinalityType
<1> HIDE DEF Sum
<1>6. Sum(S) \in Int /\ \A x \in S : Sum(S) = f[x] + Sum(S \ {x})
  BY <1>4, <1>5
<1> QED  BY <1>6 DEF Sum


\* A sum of integers is one.
LEMMA SumInt ==
  ASSUME NEW S, IsFiniteSet(S), NEW f, \A x \in S : f[x] \in Int
  PROVE  SumFunctionOnSet(f, S) \in Int
BY SumWithout

\* One element more.
LEMMA SumGrows ==
  ASSUME NEW S, IsFiniteSet(S), NEW f, NEW y, NEW g, y \notin S,
         \A x \in S : f[x] \in Int /\ g[x] = f[x], g[y] \in Int
  PROVE  SumFunctionOnSet(g, S \cup {y}) = SumFunctionOnSet(f, S) + g[y]
<1> DEFINE T == S \cup {y}
<1>1. IsFiniteSet(T) /\ T \ {y} = S
  BY FS_AddElement
<1>2. \A x \in T : g[x] \in Int
  OBVIOUS
<1>3. SumFunctionOnSet(g, T) = g[y] + SumFunctionOnSet(g, T \ {y})
  BY <1>1, <1>2, SumWithout
<1>4. SumFunctionOnSet(g, S) = SumFunctionOnSet(f, S)
  BY SumAgrees
<1>5. SumFunctionOnSet(f, S) \in Int /\ g[y] \in Int
  BY SumInt
<1>6. SumFunctionOnSet(g, T) = g[y] + SumFunctionOnSet(f, S)
  BY <1>1, <1>3, <1>4
<1> QED  BY ONLY <1>5, <1>6

\* One element more and one less: a window slides.
LEMMA SumSlides ==
  ASSUME NEW S, IsFiniteSet(S), NEW f, NEW z \in S, NEW y, NEW g, y \notin S,
         \A x \in S : f[x] \in Int /\ g[x] = f[x], g[y] \in Int
  PROVE  SumFunctionOnSet(g, (S \ {z}) \cup {y}) = SumFunctionOnSet(f, S) + g[y] - f[z]
<1> DEFINE R == S \ {z}
<1>1. IsFiniteSet(R) /\ y \notin R /\ \A x \in R : f[x] \in Int /\ g[x] = f[x]
  BY FS_Subset
<1>2. SumFunctionOnSet(g, R \cup {y}) = SumFunctionOnSet(f, R) + g[y]
  <2> HIDE DEF R
  <2> QED  BY <1>1, SumGrows
<1>3. SumFunctionOnSet(f, S) = f[z] + SumFunctionOnSet(f, R)
  BY SumWithout
<1>4. SumFunctionOnSet(f, R) \in Int
  BY <1>1, SumInt
<1> QED  BY <1>2, <1>3, <1>4

\* Every term is multiplied.
LEMMA SumScaled ==
  ASSUME NEW S, IsFiniteSet(S), NEW f, NEW g, NEW a \in Int,
         \A x \in S : f[x] \in Int /\ g[x] = a * f[x]
  PROVE  SumFunctionOnSet(g, S) = a * SumFunctionOnSet(f, S)
<1> DEFINE SumF(s) == SumFunctionOnSet(f, s)
           SumG(s) == SumFunctionOnSet(g, s)
           G == {n \in Nat : \A s \in SUBSET S : Cardinality(s) = n => SumG(s) = a * SumF(s)}
<1>1. \A s \in SUBSET S : IsFiniteSet(s) /\ Cardinality(s) \in Nat
  BY FS_Subset, FS_CardinalityType
<1>2. 0 \in G
  <2>1. ASSUME NEW s \in SUBSET S, Cardinality(s) = 0 PROVE SumG(s) = a * SumF(s)
    <3>1. s = {}
      BY <1>1, <2>1, FS_EmptySet
    <3>2. SumG({}) = 0 /\ SumF({}) = 0
      BY SumOfNone
    <3> QED  BY <3>1, <3>2
  <2> QED  BY <2>1
<1>3. ASSUME NEW n \in G PROVE n + 1 \in G
  <2>1. ASSUME NEW s \in SUBSET S, Cardinality(s) = n + 1 PROVE SumG(s) = a * SumF(s)
    <3>1. PICK x \in s : TRUE
      BY <1>1, <2>1, FS_EmptySet
    <3> DEFINE t == s \ {x}
    <3>2. t \in SUBSET S /\ Cardinality(t) = n
      <4>1. Cardinality(s) = Cardinality(t) + 1 /\ Cardinality(t) \in Nat
        BY <1>1, Smaller
      <4> QED  BY <2>1, <4>1
    <3>3. SumG(t) = a * SumF(t)
      BY <3>2
    <3>4. SumF(s) = f[x] + SumF(t)
      BY <1>1, SumWithout
    <3>5. SumG(s) = g[x] + SumG(t)
      <4>1. \A i \in s : g[i] \in Int
        OBVIOUS
      <4> QED  BY <1>1, <4>1, SumWithout
    <3>6. SumF(t) \in Int /\ f[x] \in Int /\ g[x] = a * f[x]
      BY <1>1, <3>2, SumInt
    <3> HIDE DEF SumF, SumG, t
    <3> QED  BY <3>3, <3>4, <3>5, <3>6
  <2>2. n + 1 \in Nat
    OBVIOUS
  <2> QED  BY <2>1, <2>2
<1>4. G = Nat
  <2> HIDE DEF G
  <2>1. G \subseteq Nat
    BY DEF G
  <2> QED  BY <1>2, <1>3, <2>1, Induction
<1>5. Cardinality(S) \in Nat /\ S \in SUBSET S
  BY FS_CardinalityType
<1> QED  BY <1>4, <1>5

-----------------------------------------------------------------------------
(* Powers *)

PowerStep(a, p, i) == IF i = 0 THEN 1 ELSE a * p[i - 1]
Powers(a) == CHOOSE p : p = [i \in Nat |-> PowerStep(a, p, i)]

LEMMA PowersDefined ==
  ASSUME NEW a \in Int
  PROVE  /\ Powers(a)[0] = 1
         /\ \A i \in Nat : Powers(a)[i + 1] = a * Powers(a)[i]
         /\ \A i \in Nat : Powers(a)[i] \in Int
<1> DEFINE Good(n, p) == /\ p \in [0..n -> Int] /\ p[0] = 1
                         /\ \A i \in 1..n : p[i] = a * p[i - 1]
           G == {n \in Nat : \E p : Good(n, p)}
<1>1. 0 \in G
  <2> DEFINE p == [i \in 0..0 |-> 1]
  <2>1. Good(0, p)
    OBVIOUS
  <2> QED  BY <2>1
<1>2. ASSUME NEW n \in G PROVE n + 1 \in G
  <2>1. PICK p : Good(n, p)
    OBVIOUS
  <2> DEFINE q == [i \in 0..(n + 1) |-> IF i <= n THEN p[i] ELSE a * p[n]]
  <2>2. q \in [0..(n + 1) -> Int] /\ q[0] = 1
    BY <2>1
  <2>3. ASSUME NEW i \in 1..(n + 1) PROVE q[i] = a * q[i - 1]
    <3>1. i - 1 \in 0..n /\ i \in 0..(n + 1) /\ i - 1 \in 0..(n + 1) /\ n \in Nat
      OBVIOUS
    <3>2. q[i - 1] = p[i - 1]
      BY <3>1
    <3>3. CASE i <= n
      BY <2>1, <3>1, <3>2, <3>3
    <3>4. CASE i = n + 1
      BY <3>1, <3>2, <3>4
    <3> QED  BY <3>1, <3>3, <3>4
  <2>4. Good(n + 1, q) /\ n + 1 \in Nat
    <3> HIDE DEF q
    <3> QED  BY <2>2, <2>3
  <2> HIDE DEF q, Good
  <2> QED  BY <2>4
<1>3. G = Nat
  <2> HIDE DEF G
  <2>1. G \subseteq Nat
    BY DEF G
  <2> QED  BY <1>1, <1>2, <2>1, Induction
\* Solutions agree where both are defined.
<1>4. ASSUME NEW m \in Nat, NEW n \in Nat, NEW p, NEW q, Good(m, p), Good(n, q), m <= n
      PROVE  \A i \in 0..m : p[i] = q[i]
  <2> DEFINE H == {i \in Nat : i <= m => p[i] = q[i]}
  <2>1. 0 \in H
    BY <1>4
  <2>2. ASSUME NEW i \in H PROVE i + 1 \in H
    <3>1. i \in Nat /\ i + 1 \in Nat
      OBVIOUS
    <3>2. ASSUME i + 1 <= m PROVE p[i + 1] = q[i + 1]
      <4>1. i + 1 \in 1..m /\ i + 1 \in 1..n /\ (i + 1) - 1 = i
        BY <1>4, <3>1, <3>2
      <4>2. p[i] = q[i]
        BY <3>1, <3>2
      <4>3. p[i + 1] = a * p[i]
        BY <1>4, <4>1
      <4>4. q[i + 1] = a * q[i]
        BY <1>4, <4>1
      <4> QED  BY <4>2, <4>3, <4>4
    <3> QED  BY <3>1, <3>2
  <2>3. H = Nat
    <3> HIDE DEF H
    <3>1. H \subseteq Nat
      BY DEF H
    <3> QED  BY <2>1, <2>2, <3>1, Induction
  <2> QED  BY <2>3
<1> DEFINE Sol(n) == CHOOSE p : Good(n, p)
           whole == [n \in Nat |-> Sol(n)[n]]
<1>5. \A n \in Nat : Good(n, Sol(n))
  <2> HIDE DEF Good
  <2> QED  BY <1>3
<1>6. whole[0] = 1 /\ \A n \in Nat : whole[n] \in Int
  <2> HIDE DEF Sol
  <2>1. \A n \in Nat : n \in 0..n
    OBVIOUS
  <2> QED  BY <1>5, <2>1
<1>7. ASSUME NEW n \in Nat PROVE whole[n + 1] = a * whole[n]
  <2>1. n + 1 \in Nat /\ n + 1 \in 1..(n + 1) /\ n <= n + 1 /\ n \in 0..n /\ (n + 1) - 1 = n
    OBVIOUS
  <2>2. Good(n, Sol(n)) /\ Good(n + 1, Sol(n + 1))
    BY <1>5, <2>1
  <2>3. Sol(n)[n] = Sol(n + 1)[n]
    <3> HIDE DEF Sol, Good
    <3> QED  BY <1>4, <2>1, <2>2
  <2>4. Sol(n + 1)[n + 1] = a * Sol(n + 1)[n]
    <3> HIDE DEF Sol
    <3> QED  BY <2>1, <2>2
  <2> HIDE DEF Sol
  <2> QED  BY <2>1, <2>3, <2>4
<1>8. whole = [i \in Nat |-> PowerStep(a, whole, i)]
  <2> SUFFICES ASSUME NEW i \in Nat PROVE whole[i] = PowerStep(a, whole, i)
    <3> HIDE DEF Sol
    <3> QED  OBVIOUS
  <2> HIDE DEF whole
  <2>1. CASE i = 0
    BY <1>6, <2>1 DEF PowerStep
  <2>2. CASE i # 0
    <3>1. i - 1 \in Nat /\ (i - 1) + 1 = i
      BY <2>2
    <3> QED  BY <1>7, <2>2, <3>1 DEF PowerStep
  <2> QED  BY <2>1, <2>2
<1> HIDE DEF whole
<1>9. \E p : p = [i \in Nat |-> PowerStep(a, p, i)]
  BY <1>8, Zenon
<1>10. Powers(a) = [i \in Nat |-> PowerStep(a, Powers(a), i)]
  BY <1>9, Zenon DEF Powers
<1>11. \A i \in Nat : Powers(a)[i] = PowerStep(a, Powers(a), i)
  BY <1>10, Zenon
<1>12. Powers(a)[0] = 1
  BY <1>11 DEF PowerStep
<1>13. ASSUME NEW i \in Nat PROVE Powers(a)[i + 1] = a * Powers(a)[i]
  <2>1. i + 1 \in Nat /\ i + 1 # 0 /\ (i + 1) - 1 = i
    OBVIOUS
  <2>2. Powers(a)[i + 1] = PowerStep(a, Powers(a), i + 1)
    BY <1>11, <2>1
  <2> QED  BY <2>1, <2>2 DEF PowerStep
<1>14. \A i \in Nat : Powers(a)[i] \in Int
  <2> DEFINE H == {i \in Nat : Powers(a)[i] \in Int}
  <2>1. 0 \in H
    BY <1>12
  <2>2. ASSUME NEW i \in H PROVE i + 1 \in H
    <3>1. i + 1 \in Nat /\ Powers(a)[i + 1] = a * Powers(a)[i]
      BY <1>13
    <3> QED  BY <3>1
  <2>3. H = Nat
    <3> HIDE DEF H
    <3>1. H \subseteq Nat
      BY DEF H
    <3> QED  BY <2>1, <2>2, <3>1, Induction
  <2> QED  BY <2>3
<1> QED  BY <1>12, <1>13, <1>14

LEMMA PowerFacts ==
  ASSUME NEW a \in Int
  PROVE  /\ Power(a, 0) = 1
         /\ \A i \in Nat : Power(a, i) \in Int /\ Power(a, i + 1) = a * Power(a, i)
<1>1. \A i \in Nat : Power(a, i) = Powers(a)[i]
  BY DEF Power, Powers, PowerStep
<1>2. \A i \in Nat : i + 1 \in Nat
  OBVIOUS
<1>3. Power(a, 0) = 1
  BY <1>1, PowersDefined
<1>4. ASSUME NEW i \in Nat PROVE Power(a, i) \in Int /\ Power(a, i + 1) = a * Power(a, i)
  <2>1. Power(a, i) = Powers(a)[i] /\ Power(a, i + 1) = Powers(a)[i + 1]
    BY <1>1, <1>2
  <2> QED  BY <2>1, PowersDefined
<1> QED  BY <1>3, <1>4

-----------------------------------------------------------------------------
(* Rings.  After n candles a slot of a ring of size C has been written Visits times; *)
(* its d-th round, counted from 0, is candle At.                                     *)

Visits(h, C, n) == (n \div C) + (IF h < n % C THEN 1 ELSE 0)
At(h, d, C) == d * C + h + 1

LEMMA ProductsInOrder ==
  ASSUME NEW C \in Nat \ {0}, NEW a \in Int, NEW b \in Int, a < b
  PROVE  a * C + C <= b * C /\ a * C \in Int /\ b * C \in Int /\ (a + 1) * C = a * C + C
OBVIOUS

LEMMA DivMod ==
  ASSUME NEW C \in Nat \ {0}, NEW n \in Nat
  PROVE  n \div C \in Nat /\ n % C \in 0..(C - 1) /\ n = (n \div C) * C + (n % C)
OBVIOUS

LEMMA DivModUnique ==
  ASSUME NEW C \in Nat \ {0}, NEW n \in Nat, NEW q \in Nat, NEW r \in 0..(C - 1),
         n = q * C + r
  PROVE  n \div C = q /\ n % C = r
<1> DEFINE k == n \div C
           s == n % C
<1>1. k \in Nat /\ s \in 0..(C - 1) /\ n = k * C + s
  BY DivMod
<1> HIDE DEF k, s
<1>2. ~(k < q)
  <2> SUFFICES ASSUME k < q PROVE FALSE
    OBVIOUS
  <2>1. k * C + C <= q * C /\ k * C \in Int /\ q * C \in Int
    BY <1>1, ProductsInOrder
  <2> QED  BY <1>1, <2>1
<1>3. ~(q < k)
  <2> SUFFICES ASSUME q < k PROVE FALSE
    OBVIOUS
  <2>1. q * C + C <= k * C /\ k * C \in Int /\ q * C \in Int
    BY <1>1, ProductsInOrder
  <2> QED  BY <1>1, <2>1
<1>4. k = q
  BY <1>1, <1>2, <1>3
<1>5. q * C \in Int
  OBVIOUS
<1>6. s = r
  BY <1>1, <1>4, <1>5
<1> QED  BY <1>4, <1>6 DEF k, s

LEMMA DivModNext ==
  ASSUME NEW C \in Nat \ {0}, NEW n \in Nat
  PROVE  IF n % C = C - 1
         THEN (n + 1) \div C = (n \div C) + 1 /\ (n + 1) % C = 0
         ELSE (n + 1) \div C = n \div C /\ (n + 1) % C = (n % C) + 1
<1> DEFINE q == n \div C
           r == n % C
<1>1. q \in Nat /\ r \in 0..(C - 1) /\ n = q * C + r
  BY DivMod
<1> HIDE DEF q, r
<1>2. n + 1 \in Nat /\ q + 1 \in Nat /\ q * C \in Int /\ (q + 1) * C = q * C + C
  BY <1>1
<1>3. CASE r = C - 1
  <2>1. n + 1 = (q + 1) * C + 0 /\ 0 \in 0..(C - 1)
    BY <1>1, <1>2, <1>3
  <2>2. (n + 1) \div C = q + 1 /\ (n + 1) % C = 0
    BY <1>2, <2>1, DivModUnique
  <2> QED  BY <1>3, <2>2 DEF q, r
<1>4. CASE r # C - 1
  <2>1. n + 1 = q * C + (r + 1) /\ r + 1 \in 0..(C - 1)
    BY <1>1, <1>2, <1>4
  <2>2. (n + 1) \div C = q /\ (n + 1) % C = r + 1
    BY <1>1, <1>2, <2>1, DivModUnique
  <2> QED  BY <1>4, <2>2 DEF q, r
<1> QED  BY <1>3, <1>4

LEMMA VisitsNext ==
  ASSUME NEW C \in Nat \ {0}, NEW n \in Nat, NEW h \in 0..(C - 1)
  PROVE  /\ Visits(h, C, n) \in Nat
         /\ Visits(h, C, n + 1) = Visits(h, C, n) + (IF h = n % C THEN 1 ELSE 0)
<1> DEFINE q == n \div C
           r == n % C
           u == (n + 1) \div C
           v == (n + 1) % C
<1>1. q \in Nat /\ r \in 0..(C - 1)
  BY DivMod
<1>2. IF r = C - 1 THEN u = q + 1 /\ v = 0 ELSE u = q /\ v = r + 1
  BY DivModNext
<1> SUFFICES /\ q + (IF h < r THEN 1 ELSE 0) \in Nat
             /\ u + (IF h < v THEN 1 ELSE 0) = q + (IF h < r THEN 1 ELSE 0) + (IF h = r THEN 1 ELSE 0)
  BY DEF Visits
<1> HIDE DEF q, r, u, v
<1> QED  BY <1>1, <1>2

\* The next candle goes to slot n % C, in round n \div C.
LEMMA NextSlot ==
  ASSUME NEW C \in Nat \ {0}, NEW n \in Nat
  PROVE  /\ n % C \in 0..(C - 1)
         /\ Visits(n % C, C, n) = n \div C
         /\ At(n % C, n \div C, C) = n + 1
<1>1. n \div C \in Nat /\ n % C \in 0..(C - 1) /\ n = (n \div C) * C + (n % C)
  BY DivMod
<1> QED  BY <1>1 DEF Visits, At

LEMMA AtSeen ==
  ASSUME NEW C \in Nat \ {0}, NEW n \in Nat, NEW h \in 0..(C - 1), NEW d \in Nat,
         d < Visits(h, C, n)
  PROVE  At(h, d, C) \in 1..n
<1> DEFINE q == n \div C
           r == n % C
<1>1. q \in Nat /\ r \in 0..(C - 1) /\ n = q * C + r
  BY DivMod
<1>2. d < q + (IF h < r THEN 1 ELSE 0)
  BY DEF Visits
<1> HIDE DEF q, r
<1>3. d * C \in Nat /\ q * C \in Nat
  BY <1>1
<1>4. CASE d < q
  <2>1. d * C + C <= q * C
    BY <1>1, <1>4, ProductsInOrder
  <2> QED  BY <1>1, <1>3, <2>1 DEF At
<1>5. CASE ~(d < q)
  <2>1. d = q /\ h < r
    BY <1>1, <1>2, <1>5
  <2> QED  BY <1>1, <1>3, <2>1 DEF At
<1> QED  BY <1>4, <1>5

\* The last round of each slot is what a window of C candles shows.
LEMMA LastRound ==
  ASSUME NEW C \in Nat \ {0}, NEW n \in Nat, n >= C
  PROVE  /\ \A h \in 0..(C - 1) : /\ Visits(h, C, n) - 1 \in Nat
                                  /\ At(h, Visits(h, C, n) - 1, C) \in (n - C + 1)..n
         /\ \A k \in (n - C + 1)..n : \E h \in 0..(C - 1) : k = At(h, Visits(h, C, n) - 1, C)
<1> DEFINE q == n \div C
           r == n % C
<1>1. q \in Nat /\ r \in 0..(C - 1) /\ n = q * C + r
  BY DivMod
<1>2. \A h : Visits(h, C, n) = q + (IF h < r THEN 1 ELSE 0)
  BY DEF Visits
<1> HIDE DEF q, r
<1>3. q * C \in Nat /\ q - 1 \in Int /\ (q - 1) * C = q * C - C
  BY <1>1
<1>4. q >= 1
  BY <1>1, <1>3
<1>5. ASSUME NEW h \in 0..(C - 1)
      PROVE  /\ Visits(h, C, n) - 1 \in Nat
             /\ At(h, Visits(h, C, n) - 1, C) = IF h < r THEN q * C + h + 1 ELSE q * C - C + h + 1
  <2>1. CASE h < r
    <3>1. Visits(h, C, n) - 1 = q
      BY <1>1, <1>2, <2>1
    <3> QED  BY <1>1, <2>1, <3>1 DEF At
  <2>2. CASE ~(h < r)
    <3>1. Visits(h, C, n) - 1 = q - 1
      BY <1>1, <1>2, <2>2
    <3> QED  BY <1>1, <1>3, <1>4, <2>2, <3>1 DEF At
  <2> QED  BY <2>1, <2>2
<1>6. ASSUME NEW h \in 0..(C - 1)
      PROVE  At(h, Visits(h, C, n) - 1, C) \in (n - C + 1)..n
  BY <1>1, <1>3, <1>5
<1>7. ASSUME NEW k \in (n - C + 1)..n
      PROVE  \E h \in 0..(C - 1) : k = At(h, Visits(h, C, n) - 1, C)
  <2>1. CASE k > q * C
    <3> DEFINE h == k - q * C - 1
    <3>1. h \in 0..(C - 1) /\ h < r /\ k = q * C + h + 1
      BY <1>1, <1>3, <2>1
    <3> HIDE DEF h
    <3>2. k = At(h, Visits(h, C, n) - 1, C)
      BY <1>5, <3>1
    <3> QED  BY <3>1, <3>2
  <2>2. CASE ~(k > q * C)
    <3> DEFINE h == k - q * C + C - 1
    <3>1. h \in 0..(C - 1) /\ ~(h < r) /\ k = q * C - C + h + 1
      BY <1>1, <1>3, <2>2
    <3> HIDE DEF h
    <3>2. k = At(h, Visits(h, C, n) - 1, C)
      BY <1>5, <3>1
    <3> QED  BY <3>1, <3>2
  <2> QED  BY <2>1, <2>2
<1> QED  BY <1>5, <1>6, <1>7

\* Before the ring has been filled its slots hold the candles in order, each once.
LEMMA FirstRound ==
  ASSUME NEW C \in Nat \ {0}, NEW n \in Nat, n < C
  PROVE  \A h \in 0..(C - 1) : /\ Visits(h, C, n) = IF h < n THEN 1 ELSE 0
                               /\ At(h, 0, C) = h + 1
<1>1. n \div C = 0 /\ n % C = n
  <2>1. n = 0 * C + n /\ n \in 0..(C - 1)
    OBVIOUS
  <2> QED  BY <2>1, DivModUnique
<1> QED  BY <1>1 DEF Visits, At

LEMMA TwoRounds ==
  ASSUME NEW C \in Nat \ {0}, NEW n \in Nat, NEW p \in Nat, p >= 2, n >= p * C
  PROVE  \A h \in 0..(C - 1) : Visits(h, C, n) >= 2
<1> DEFINE q == n \div C
           r == n % C
<1>1. q \in Nat /\ r \in 0..(C - 1) /\ n = q * C + r
  BY DivMod
<1>2. \A h : Visits(h, C, n) = q + (IF h < r THEN 1 ELSE 0)
  BY DEF Visits
<1> HIDE DEF q, r
<1>3. p * C \in Nat /\ q * C \in Nat
  BY <1>1
<1>4. ~(q < p)
  <2> SUFFICES ASSUME q < p PROVE FALSE
    OBVIOUS
  <2>1. q * C + C <= p * C
    BY <1>1, ProductsInOrder
  <2> QED  BY <1>1, <1>3, <2>1
<1> QED  BY <1>1, <1>2, <1>4

-----------------------------------------------------------------------------
(* The invariant: what each indicator holds, in terms of the candles seen *)

SeenInv == seen \in Seq(Candles)

\* Slot i of a ring holds the latest candle of its residue, or its first value.
InRing(i) == seen[At(i, Visits(i, RingSize, Len(seen)) - 1, RingSize)]
RangeInv ==
  range = [high |-> [i \in Ring(RingSize) |->
                       IF Visits(i, RingSize, Len(seen)) = 0 THEN 0 ELSE InRing(i).high],
           low |-> [i \in Ring(RingSize) |->
                       IF Visits(i, RingSize, Len(seen)) = 0 THEN 0 ELSE InRing(i).low],
           count |-> Len(seen)]

\* A deque q holds the values of f up to index n, and sum is theirs.
Shown(q, n) == (n - Len(q) + 1)..n
Mirrors(q, sum, f, n) ==
  /\ q \in Seq(Int) /\ Len(q) <= n
  /\ \A i \in 1..Len(q) : q[i] = f[n - Len(q) + i]
  /\ sum = SumFunctionOnSet(f, Shown(q, n))

Closes == [k \in DOMAIN seen |-> seen[k].close]
Gains == [k \in DOMAIN seen |-> Positive(Change(k))]
Losses == [k \in DOMAIN seen |-> Positive(-Change(k))]

SmaInv ==
  /\ Len(sma.prices) = IF Len(seen) < RingSize THEN Len(seen) ELSE RingSize
  /\ Mirrors(sma.prices, sma.sum, Closes, Len(seen))

RsiInv ==
  /\ rsi = [last_price |-> rsi.last_price, gains |-> rsi.gains, losses |-> rsi.losses,
            sum_gain |-> rsi.sum_gain, sum_loss |-> rsi.sum_loss]
  /\ rsi.last_price = IF seen = <<>> THEN None ELSE seen[Len(seen)].close
  /\ Len(rsi.gains) = (IF seen = <<>> THEN 0
                       ELSE IF Len(seen) > Period THEN Period ELSE Len(seen) - 1)
  /\ Len(rsi.losses) = Len(rsi.gains)
  /\ Mirrors(rsi.gains, rsi.sum_gain, Gains, Len(seen))
  /\ Mirrors(rsi.losses, rsi.sum_loss, Losses, Len(seen))

\* An hour that has been seen on two days or more has the averages of its changes.
Days(hour) == Visits(hour, CycleSize, Len(seen))
Averaged(sum, m) == [has_value |-> TRUE, value |-> sum, over |-> Power(RsiPeriod + 1, m - 1)]
GainOf(hour) == IF Days(hour) < 2 THEN EmaEmpty
                ELSE Averaged(WeighedGains(hour, Days(hour) - 1), Days(hour) - 1)
LossOf(hour) == IF Days(hour) < 2 THEN EmaEmpty
                ELSE Averaged(WeighedLosses(hour, Days(hour) - 1), Days(hour) - 1)
LastOf(hour) == IF Days(hour) = 0 THEN 0
                ELSE seen[At(hour, Days(hour) - 1, CycleSize)].close
CyclicInv ==
  cyclic = [last |-> [hour \in Ring(CycleSize) |-> LastOf(hour)],
            gain |-> [hour \in Ring(CycleSize) |-> GainOf(hour)],
            loss |-> [hour \in Ring(CycleSize) |-> LossOf(hour)], count |-> Len(seen)]

IndicatorsInv == SeenInv /\ RangeInv /\ SmaInv /\ RsiInv /\ CyclicInv
-----------------------------------------------------------------------------
(* What a candle changes *)

LEMMA CandleFields ==
  ASSUME NEW c \in Candles
  PROVE  c.high \in Nat /\ c.low \in Nat \ {0} /\ c.close \in Nat
BY IndicatorsAssumption

LEMMA SeenNext ==
  ASSUME SeenInv, NEW c \in Candles, seen' = Append(seen, c)
  PROVE  /\ SeenInv' /\ Len(seen) \in Nat /\ Len(seen') = Len(seen) + 1
         /\ \A k \in 1..Len(seen) : seen'[k] = seen[k] /\ seen[k] \in Candles
         /\ DOMAIN seen = 1..Len(seen) /\ DOMAIN seen' = 1..(Len(seen) + 1)
         /\ seen'[Len(seen) + 1] = c
BY DEF SeenInv

\* A value is pushed to a deque.
LEMMA DequeGrows ==
  ASSUME NEW n \in Nat, NEW q, NEW sum, NEW f, NEW g, Mirrors(q, sum, f, n),
         \A k \in Shown(q, n) : f[k] \in Int /\ g[k] = f[k], g[n + 1] \in Int
  PROVE  /\ Len(Append(q, g[n + 1])) = Len(q) + 1
         /\ Mirrors(Append(q, g[n + 1]), sum + g[n + 1], g, n + 1)
<1> DEFINE x == g[n + 1]
           r == Append(q, x)
<1>1. q \in Seq(Int) /\ Len(q) \in Nat /\ Len(q) <= n
  BY DEF Mirrors
<1>2. r \in Seq(Int) /\ Len(r) = Len(q) + 1 /\ r[Len(q) + 1] = x
      /\ \A i \in 1..Len(q) : r[i] = q[i]
  BY <1>1
<1>3. ASSUME NEW i \in 1..Len(r) PROVE r[i] = g[n + 1 - Len(r) + i]
  <2>1. CASE i = Len(q) + 1
    BY <1>1, <1>2, <2>1
  <2>2. CASE i # Len(q) + 1
    <3>1. i \in 1..Len(q) /\ n - Len(q) + i \in Shown(q, n)
          /\ n + 1 - Len(r) + i = n - Len(q) + i
      BY <1>1, <1>2, <2>2 DEF Shown
    <3> HIDE DEF r
    <3>2. q[i] = f[n - Len(q) + i]
      BY <3>1 DEF Mirrors
    <3> QED  BY <1>2, <3>1, <3>2
  <2> QED  BY <2>1, <2>2
<1> HIDE DEF r
<1>4. Shown(r, n + 1) = Shown(q, n) \cup {n + 1} /\ n + 1 \notin Shown(q, n)
  BY <1>1, <1>2 DEF Shown
<1>5. IsFiniteSet(Shown(q, n))
  BY <1>1, FS_Interval DEF Shown
<1>6. SumFunctionOnSet(g, Shown(r, n + 1)) = SumFunctionOnSet(f, Shown(q, n)) + x
  BY <1>4, <1>5, SumGrows
<1>7. Mirrors(r, sum + x, g, n + 1)
  <2>1. sum = SumFunctionOnSet(f, Shown(q, n))
    BY DEF Mirrors
  <2> HIDE DEF x
  <2> QED  BY <1>1, <1>2, <1>3, <1>6, <2>1 DEF Mirrors
<1> QED  BY <1>2, <1>7 DEF r

\* A value is pushed to a deque that is full, and its oldest leaves.
LEMMA DequeSlides ==
  ASSUME NEW n \in Nat, NEW q, NEW sum, NEW f, NEW g, Mirrors(q, sum, f, n), q # <<>>,
         \A k \in Shown(q, n) : f[k] \in Int /\ g[k] = f[k], g[n + 1] \in Int
  PROVE  LET r == Append(q, g[n + 1])
         IN  /\ Len(r) = Len(q) + 1 /\ Len(Tail(r)) = Len(q)
             /\ Mirrors(Tail(r), sum + g[n + 1] - Head(r), g, n + 1)
<1> DEFINE x == g[n + 1]
           r == Append(q, x)
           z == n - Len(q) + 1
<1>1. q \in Seq(Int) /\ Len(q) \in Nat \ {0} /\ Len(q) <= n
  BY DEF Mirrors
<1>2. Len(r) = Len(q) + 1 /\ Mirrors(r, sum + x, g, n + 1)
  BY DequeGrows
<1> HIDE DEF r, x
<1> DEFINE t == Tail(r)
<1>3. t \in Seq(Int) /\ Len(t) = Len(q) /\ Head(r) = r[1]
      /\ \A i \in 1..Len(q) : t[i] = r[i + 1]
  BY <1>1, <1>2 DEF Mirrors
<1> HIDE DEF t
<1>4. r[1] = f[z] /\ z \in Shown(q, n)
  <2>1. 1 \in 1..Len(r) /\ n + 1 - Len(r) + 1 = z /\ z \in Shown(q, n)
    BY <1>1, <1>2 DEF Shown
  <2>2. r[1] = g[n + 1 - Len(r) + 1]
    BY <1>2, <2>1 DEF Mirrors
  <2> HIDE DEF z
  <2> QED  BY <2>1, <2>2
<1>5. ASSUME NEW i \in 1..Len(t) PROVE t[i] = g[n + 1 - Len(t) + i]
  <2>1. i + 1 \in 1..Len(r) /\ n + 1 - Len(r) + (i + 1) = n + 1 - Len(t) + i
    BY <1>1, <1>2, <1>3
  <2>2. \A j \in 1..Len(r) : r[j] = g[n + 1 - Len(r) + j]
    BY <1>2 DEF Mirrors
  <2>3. r[i + 1] = g[n + 1 - Len(r) + (i + 1)]
    BY <2>1, <2>2
  <2> QED  BY <1>3, <2>1, <2>3
<1>6. /\ Shown(t, n + 1) = (Shown(q, n) \ {z}) \cup {n + 1}
      /\ n + 1 \notin Shown(q, n) /\ IsFiniteSet(Shown(q, n))
  <2>1. IsFiniteSet(Shown(q, n))
    BY <1>1, FS_Interval DEF Shown
  <2>2. Shown(q, n) = z..n /\ Shown(t, n + 1) = (z + 1)..(n + 1) /\ z \in 1..n
    BY <1>1, <1>3 DEF Shown
  <2> HIDE DEF z
  <2> QED  BY <2>1, <2>2
<1>7. SumFunctionOnSet(g, Shown(t, n + 1)) = SumFunctionOnSet(f, Shown(q, n)) + x - f[z]
  <2> HIDE DEF z
  <2>1. SumFunctionOnSet(g, (Shown(q, n) \ {z}) \cup {n + 1})
          = SumFunctionOnSet(f, Shown(q, n)) + g[n + 1] - f[z]
    BY <1>4, <1>6, SumSlides
  <2> QED  BY <1>6, <2>1 DEF x
<1>8. Mirrors(t, sum + x - Head(r), g, n + 1)
  <2>1. sum = SumFunctionOnSet(f, Shown(q, n))
    BY DEF Mirrors
  <2>2. Len(t) <= n + 1
    BY <1>1, <1>3
  <2>3. sum + x - Head(r) = SumFunctionOnSet(g, Shown(t, n + 1))
    BY <1>3, <1>4, <1>7, <2>1
  <2> HIDE DEF z
  <2> QED  BY <1>3, <1>5, <2>2, <2>3 DEF Mirrors
<1> QED  BY <1>2, <1>3, <1>8 DEF r, x, t

LEMMA SmaNext ==
  ASSUME SeenInv, SmaInv, NEW c \in Candles, Update(c)
  PROVE  SmaInv'
<1> DEFINE n == Len(seen)
           x == Closes'[n + 1]
           r == Append(sma.prices, x)
<1>1. RingSize \in Nat \ {0} /\ c.close \in Int
  BY IndicatorsAssumption, CandleFields
<1>2. seen' = Append(seen, c) /\ sma' = SmaUpdate(sma, c.close)
  BY DEF Update
<1>3. /\ n \in Nat /\ Len(seen') = n + 1 /\ DOMAIN seen = 1..n /\ DOMAIN seen' = 1..(n + 1)
      /\ \A k \in 1..n : seen'[k] = seen[k] /\ seen[k] \in Candles
      /\ seen'[n + 1] = c
  BY <1>2, SeenNext
<1>4. x = c.close
  BY <1>3 DEF Closes
<1>5. \A k \in 1..n : Closes[k] \in Int /\ Closes'[k] = Closes[k]
  <2> SUFFICES ASSUME NEW k \in 1..n PROVE Closes[k] \in Int /\ Closes'[k] = Closes[k]
    OBVIOUS
  <2>1. k \in 1..(n + 1) /\ seen[k].close \in Nat
    BY <1>3, CandleFields
  <2> QED  BY <1>3, <2>1 DEF Closes
<1>6. /\ sma.prices \in Seq(Int) /\ Len(sma.prices) <= n
      /\ Len(sma.prices) = IF n < RingSize THEN n ELSE RingSize
      /\ Mirrors(sma.prices, sma.sum, Closes, n)
  BY DEF SmaInv, Mirrors
<1>7. \A k \in Shown(sma.prices, n) : Closes[k] \in Int /\ Closes'[k] = Closes[k]
  BY <1>3, <1>5, <1>6 DEF Shown
<1>8. Len(r) = Len(sma.prices) + 1 /\ Mirrors(r, sma.sum + x, Closes', n + 1)
  <2> DEFINE f == Closes
             g == Closes'
  <2>1. g[n + 1] \in Int
    BY <1>1, <1>4
  <2> HIDE DEF f, g, n
  <2>2. Mirrors(sma.prices, sma.sum, f, n)
        /\ \A k \in Shown(sma.prices, n) : f[k] \in Int /\ g[k] = f[k]
    BY <1>6, <1>7 DEF f, g
  <2>3. Len(Append(sma.prices, g[n + 1])) = Len(sma.prices) + 1
        /\ Mirrors(Append(sma.prices, g[n + 1]), sma.sum + g[n + 1], g, n + 1)
    BY <1>3, <2>1, <2>2, DequeGrows
  <2> QED  BY <2>3 DEF g
<1>9. CASE n < RingSize
  <2>1. ~(Len(r) > RingSize)
    BY <1>1, <1>3, <1>6, <1>8, <1>9
  <2>2. sma'.prices = r /\ sma'.sum = sma.sum + x
    <3> HIDE DEF x
    <3> QED  BY <1>2, <1>4, <2>1 DEF SmaUpdate
  <2>3. Len(sma'.prices) = IF n + 1 < RingSize THEN n + 1 ELSE RingSize
    BY <1>1, <1>3, <1>6, <1>8, <1>9, <2>2
  <2>4. Mirrors(sma'.prices, sma'.sum, Closes', n + 1)
    BY <1>8, <2>2
  <2> QED  BY <1>3, <2>3, <2>4 DEF SmaInv
<1>10. CASE ~(n < RingSize)
  <2>1. Len(r) > RingSize /\ sma.prices # <<>>
    BY <1>1, <1>3, <1>6, <1>8, <1>10
  <2>2. /\ Len(Tail(r)) = Len(sma.prices)
        /\ Mirrors(Tail(r), sma.sum + x - Head(r), Closes', n + 1)
    BY <1>1, <1>3, <1>4, <1>6, <1>7, <2>1, DequeSlides, SMTT(30)
  <2>3. sma'.prices = Tail(r) /\ sma'.sum = sma.sum + x - Head(r)
    <3> HIDE DEF x
    <3> QED  BY <1>2, <1>4, <2>1 DEF SmaUpdate
  <2>4. Len(sma'.prices) = IF n + 1 < RingSize THEN n + 1 ELSE RingSize
    BY <1>1, <1>3, <1>6, <1>10, <2>2, <2>3
  <2>5. Mirrors(sma'.prices, sma'.sum, Closes', n + 1)
    BY <2>2, <2>3
  <2> QED  BY <1>3, <2>4, <2>5 DEF SmaInv
<1> QED  BY <1>9, <1>10


\* One of the two deques of the index takes in a change.
TakesIn(q, sum, x, g, n) ==
  LET r == Append(q, x)
  IN  /\ Len(r) = Len(q) + 1
      /\ n <= Period => /\ ~(Len(r) > Period) /\ Mirrors(r, sum + x, g, n + 1)
                        /\ Len(r) = IF n + 1 > Period THEN Period ELSE n
      /\ n > Period => /\ Len(r) > Period /\ Mirrors(Tail(r), sum + x - Head(r), g, n + 1)
                       /\ Len(Tail(r)) = IF n + 1 > Period THEN Period ELSE n

LEMMA ChangePushed ==
  ASSUME NEW n \in Nat \ {0}, NEW q, NEW sum, NEW f, NEW g, NEW x, Mirrors(q, sum, f, n),
         Len(q) = IF n > Period THEN Period ELSE n - 1,
         \A k \in 2..n : f[k] \in Int /\ g[k] = f[k], g[n + 1] = x, x \in Int
  PROVE  TakesIn(q, sum, x, g, n)
<1> DEFINE r == Append(q, x)
<1>1. Period \in Nat \ {0} /\ q \in Seq(Int)
  BY PeriodAssumption DEF Mirrors
<1>2. \A k \in Shown(q, n) : f[k] \in Int /\ g[k] = f[k]
  BY <1>1 DEF Shown
<1>3. Len(r) = Len(q) + 1 /\ Mirrors(r, sum + x, g, n + 1)
  BY <1>2, DequeGrows
<1>4. CASE n <= Period
  <2>1. Len(r) = n
    BY <1>1, <1>3, <1>4
  <2> HIDE DEF r
  <2>2. ~(Len(r) > Period) /\ Len(r) = IF n + 1 > Period THEN Period ELSE n
    BY <1>1, <1>4, <2>1
  <2>3. ~(n > Period)
    BY <1>1, <1>4
  <2> QED  BY <1>3, <2>2, <2>3 DEF r, TakesIn
<1>5. CASE n > Period
  <2>1. Len(q) = Period /\ q # <<>>
    BY <1>1, <1>5
  <2>2. Len(Tail(r)) = Len(q) /\ Mirrors(Tail(r), sum + x - Head(r), g, n + 1)
    BY <1>2, <2>1, DequeSlides
  <2> HIDE DEF r
  <2>3. Len(r) > Period /\ Len(Tail(r)) = (IF n + 1 > Period THEN Period ELSE n)
        /\ ~(n <= Period)
    BY <1>1, <1>3, <1>5, <2>1, <2>2
  <2> QED  BY <1>3, <1>5, <2>2, <2>3 DEF r, TakesIn
<1> QED  BY <1>1, <1>3, <1>4, <1>5 DEF TakesIn

LEMMA RsiNext ==
  ASSUME SeenInv, RsiInv, NEW c \in Candles, Update(c)
  PROVE  RsiInv'
<1>0. PICK n : n = Len(seen)
  OBVIOUS
<1>1. Period \in Nat \ {0} /\ c.close \in Int /\ None \notin Int
  BY IndicatorsAssumption, PeriodAssumption, CandleFields
<1>2. seen' = Append(seen, c) /\ rsi' = RsiUpdate(rsi, c.close)
  BY DEF Update
<1>3. /\ n \in Nat /\ Len(seen') = n + 1 /\ DOMAIN seen = 1..n /\ DOMAIN seen' = 1..(n + 1)
      /\ \A k \in 1..n : seen'[k] = seen[k] /\ seen[k] \in Candles
      /\ seen'[n + 1] = c
  BY <1>0, <1>2, SeenNext
<1>4. seen' # <<>> /\ (seen = <<>> <=> n = 0)
  BY <1>2, <1>3 DEF SeenInv
<1>5. CASE n = 0
  <2>1. rsi.last_price = None
    BY <1>4, <1>5 DEF RsiInv
  <2>2. rsi' = [rsi EXCEPT !.last_price = c.close]
    BY <1>2, <2>1 DEF RsiUpdate
  <2>3. rsi' = [last_price |-> c.close, gains |-> rsi.gains, losses |-> rsi.losses,
                sum_gain |-> rsi.sum_gain, sum_loss |-> rsi.sum_loss]
    BY <2>2 DEF RsiInv
  <2>4. Len(rsi.gains) = 0 /\ Len(rsi.losses) = 0
    BY <1>4, <1>5 DEF RsiInv
  <2>5. ASSUME NEW q, NEW sum, NEW f, NEW g, Mirrors(q, sum, f, n), Len(q) = 0
        PROVE  Mirrors(q, sum, g, n + 1)
    <3>1. Shown(q, n) = {} /\ Shown(q, n + 1) = {}
      BY <1>5, <2>5 DEF Shown
    <3>2. sum = 0
      BY <2>5, <3>1, SumOfNone DEF Mirrors
    <3>3. sum = SumFunctionOnSet(g, Shown(q, n + 1))
      BY <3>1, <3>2, SumOfNone
    <3> QED  BY <1>5, <2>5, <3>3 DEF Mirrors
  <2>6. Mirrors(rsi.gains, rsi.sum_gain, Gains', n + 1)
    BY <1>0, <2>4, <2>5 DEF RsiInv
  <2>7. Mirrors(rsi.losses, rsi.sum_loss, Losses', n + 1)
    BY <1>0, <2>4, <2>5 DEF RsiInv
  <2>8. Len(rsi.gains) = IF n + 1 > Period THEN Period ELSE (n + 1) - 1
    BY <1>1, <1>5, <2>4
  <2> QED  BY <1>3, <1>4, <1>5, <2>3, <2>4, <2>6, <2>7, <2>8 DEF RsiInv
<1>6. CASE n # 0
  <2> DEFINE last == seen[n].close
             gain == Positive(c.close - last)
             loss == Positive(last - c.close)
             gains == Append(rsi.gains, gain)
             losses == Append(rsi.losses, loss)
  <2>1. last \in Nat /\ rsi.last_price = last /\ n \in Nat \ {0}
    <3>1. seen[n] \in Candles /\ n \in Nat \ {0}
      BY <1>3, <1>6
    <3>2. seen # <<>>
      BY <1>4, <1>6
    <3> QED  BY <1>0, <3>1, <3>2, CandleFields DEF RsiInv
  <2>2. gain \in Int /\ loss \in Int
    BY <1>1, <2>1 DEF Positive
  <2>3. Gains'[n + 1] = gain /\ Losses'[n + 1] = loss
    <3>1. n + 1 \in DOMAIN seen' /\ (n + 1) - 1 = n /\ seen'[n + 1] = c /\ seen'[n] = seen[n]
      BY <1>3, <2>1
    <3>2. -(c.close - last) = last - c.close
      BY <1>1, <2>1
    <3> QED  BY <3>1, <3>2 DEF Gains, Losses, Change
  <2>4. \A k \in 2..n : /\ Gains[k] \in Int /\ Gains'[k] = Gains[k]
                        /\ Losses[k] \in Int /\ Losses'[k] = Losses[k]
    <3> SUFFICES ASSUME NEW k \in 2..n
                 PROVE  /\ Gains[k] \in Int /\ Gains'[k] = Gains[k]
                        /\ Losses[k] \in Int /\ Losses'[k] = Losses[k]
      OBVIOUS
    <3>1. k \in 1..n /\ k - 1 \in 1..n /\ k \in 1..(n + 1)
      BY <1>3
    <3>2. seen[k].close \in Nat /\ seen[k - 1].close \in Nat
      BY <1>3, <3>1, CandleFields
    <3>3. Change(k) \in Int /\ Change(k)' = Change(k)
      BY <1>3, <3>1, <3>2 DEF Change
    <3>4. Positive(Change(k)) \in Int /\ Positive(-Change(k)) \in Int
      BY <3>3 DEF Positive
    <3> QED  BY <1>3, <3>1, <3>3, <3>4 DEF Gains, Losses
  <2>5. /\ Len(rsi.gains) = IF n > Period THEN Period ELSE n - 1
        /\ Len(rsi.losses) = Len(rsi.gains)
        /\ Mirrors(rsi.gains, rsi.sum_gain, Gains, n)
        /\ Mirrors(rsi.losses, rsi.sum_loss, Losses, n)
    BY <1>0, <1>4, <1>6 DEF RsiInv
  <2> HIDE DEF gain, loss
  <2>6. TakesIn(rsi.gains, rsi.sum_gain, gain, Gains', n)
    <3> DEFINE f == Gains
               g == Gains'
    <3>1. Mirrors(rsi.gains, rsi.sum_gain, f, n) /\ g[n + 1] = gain
          /\ \A k \in 2..n : f[k] \in Int /\ g[k] = f[k]
      BY <2>3, <2>4, <2>5
    <3> HIDE DEF f, g
    <3>2. TakesIn(rsi.gains, rsi.sum_gain, gain, g, n)
      BY <2>1, <2>2, <2>5, <3>1, ChangePushed
    <3> QED  BY <3>2 DEF g
  <2>7. TakesIn(rsi.losses, rsi.sum_loss, loss, Losses', n)
    <3> DEFINE f == Losses
               g == Losses'
    <3>1. Mirrors(rsi.losses, rsi.sum_loss, f, n) /\ g[n + 1] = loss
          /\ \A k \in 2..n : f[k] \in Int /\ g[k] = f[k]
      BY <2>3, <2>4, <2>5
    <3> HIDE DEF f, g
    <3>2. TakesIn(rsi.losses, rsi.sum_loss, loss, g, n)
      BY <2>1, <2>2, <2>5, <3>1, ChangePushed
    <3> QED  BY <3>2 DEF g
  <2> DEFINE moved == [last_price |-> c.close, gains |-> rsi.gains, losses |-> rsi.losses,
                       sum_gain |-> rsi.sum_gain, sum_loss |-> rsi.sum_loss]
  <2>8. rsi' = RsiSlide(moved, gain, loss)
    <3>1. rsi.last_price # None
      BY <1>1, <2>1
    <3>2. [rsi EXCEPT !.last_price = c.close] = moved
      BY DEF RsiInv
    <3> HIDE DEF moved
    <3> QED  BY <1>2, <2>1, <3>1, <3>2 DEF RsiUpdate, gain, loss
  <2> HIDE DEF gains, losses
  <2>9. CASE n <= Period
    <3>1. /\ ~(Len(gains) > Period) /\ Len(losses) = Len(gains)
          /\ Mirrors(gains, rsi.sum_gain + gain, Gains', n + 1)
          /\ Mirrors(losses, rsi.sum_loss + loss, Losses', n + 1)
          /\ Len(gains) = IF n + 1 > Period THEN Period ELSE n
      BY <2>6, <2>7, <2>9 DEF TakesIn, gains, losses
    <3>2. rsi' = [last_price |-> c.close, gains |-> gains, losses |-> losses,
                  sum_gain |-> rsi.sum_gain + gain, sum_loss |-> rsi.sum_loss + loss]
      BY <2>8, <3>1 DEF RsiSlide, gains, losses
    <3> QED  BY <1>3, <1>4, <3>1, <3>2 DEF RsiInv
  <2>10. CASE n > Period
    <3>1. /\ Len(gains) > Period /\ Len(Tail(losses)) = Len(Tail(gains))
          /\ Mirrors(Tail(gains), rsi.sum_gain + gain - Head(gains), Gains', n + 1)
          /\ Mirrors(Tail(losses), rsi.sum_loss + loss - Head(losses), Losses', n + 1)
          /\ Len(Tail(gains)) = IF n + 1 > Period THEN Period ELSE n
      BY <2>6, <2>7, <2>10 DEF TakesIn, gains, losses
    <3>2. rsi' = [last_price |-> c.close, gains |-> Tail(gains), losses |-> Tail(losses),
                  sum_gain |-> rsi.sum_gain + gain - Head(gains),
                  sum_loss |-> rsi.sum_loss + loss - Head(losses)]
      BY <2>8, <3>1 DEF RsiSlide, gains, losses
    <3> QED  BY <1>3, <1>4, <3>1, <3>2 DEF RsiInv
  <2> QED  BY <1>1, <1>3, <2>9, <2>10
<1> QED  BY <1>5, <1>6


LEMMA RangeNext ==
  ASSUME SeenInv, RangeInv, NEW c \in Candles, Update(c)
  PROVE  RangeInv'
<1>0. PICK n : n = Len(seen)
  OBVIOUS
<1> DEFINE index == n % RingSize
           V(i) == Visits(i, RingSize, n)
           W(i) == Visits(i, RingSize, n + 1)
<1>1. RingSize \in Nat \ {0}
  BY IndicatorsAssumption
<1>2. seen' = Append(seen, c) /\ range' = RangeUpdate(range, c)
  BY DEF Update
<1>3. /\ n \in Nat /\ Len(seen') = n + 1
      /\ \A k \in 1..n : seen'[k] = seen[k]
      /\ seen'[n + 1] = c
  BY <1>0, <1>2, SeenNext
<1> DEFINE high == [i \in Ring(RingSize) |-> IF V(i) = 0 THEN 0 ELSE InRing(i).high]
           low == [i \in Ring(RingSize) |-> IF V(i) = 0 THEN 0 ELSE InRing(i).low]
<1>4. range = [high |-> high, low |-> low, count |-> n]
  BY <1>0 DEF RangeInv
<1>5. range' = [high |-> [high EXCEPT ![index] = c.high],
                low |-> [low EXCEPT ![index] = c.low], count |-> n + 1]
  <2> HIDE DEF high, low
  <2> QED  BY <1>2, <1>4 DEF RangeUpdate
<1>6. ASSUME NEW i \in Ring(RingSize), i # index
      PROVE  W(i) = V(i) /\ (V(i) # 0 => InRing(i)' = InRing(i))
  <2>1. i \in 0..(RingSize - 1) /\ V(i) \in Nat /\ W(i) = V(i) + 0
    BY <1>1, <1>3, <1>6, VisitsNext DEF Ring
  <2>2. ASSUME V(i) # 0 PROVE At(i, V(i) - 1, RingSize) \in 1..n
    <3>1. V(i) - 1 \in Nat /\ V(i) - 1 < V(i)
      BY <2>1, <2>2
    <3> QED  BY <1>1, <1>3, <2>1, <3>1, AtSeen
  <2>3. W(i) = V(i)
    BY <2>1
  <2>4. InRing(i)' = seen'[At(i, W(i) - 1, RingSize)] /\ InRing(i) = seen[At(i, V(i) - 1, RingSize)]
    BY <1>0, <1>3 DEF InRing
  <2> QED  BY <1>3, <2>2, <2>3, <2>4
<1>7. W(index) # 0 /\ InRing(index)' = c
  <2>1. /\ index \in 0..(RingSize - 1) /\ V(index) = n \div RingSize
        /\ At(index, n \div RingSize, RingSize) = n + 1
    BY <1>1, <1>3, NextSlot
  <2>2. V(index) \in Nat /\ W(index) = V(index) + 1
    BY <1>1, <1>3, <2>1, VisitsNext
  <2>3. W(index) # 0 /\ W(index) - 1 = n \div RingSize
    BY <2>1, <2>2
  <2> QED  BY <1>3, <2>1, <2>3 DEF InRing
<1> DEFINE high2 == [i \in Ring(RingSize) |-> IF W(i) = 0 THEN 0 ELSE InRing(i)'.high]
           low2 == [i \in Ring(RingSize) |-> IF W(i) = 0 THEN 0 ELSE InRing(i)'.low]
<1>8. [high EXCEPT ![index] = c.high] = high2 /\ [low EXCEPT ![index] = c.low] = low2
  <2> HIDE DEF index, V, W
  <2> QED  BY <1>6, <1>7
<1>9. RangeInv' <=> range' = [high |-> high2, low |-> low2, count |-> n + 1]
  BY <1>3 DEF RangeInv
<1> HIDE DEF high, low, high2, low2
<1> QED  BY <1>5, <1>8, <1>9

-----------------------------------------------------------------------------
(* Exponential averages *)

LEMMA SumOfFunction ==
  ASSUME NEW S, NEW f, DOMAIN f = S
  PROVE  SumFunction(f) = SumFunctionOnSet(f, S)
BY DEF SumFunction

\* With one change more all the weights shrink by the same factor.
LEMMA WeightNext ==
  ASSUME NEW m \in Nat \ {0}
  PROVE  /\ Weight(m + 1, m + 1) = 2 * Power(RsiPeriod + 1, m - 1)
         /\ \A d \in 1..m : Weight(d, m) \in Int /\ Weight(d, m + 1) = (RsiPeriod - 1) * Weight(d, m)
<1> DEFINE P == RsiPeriod - 1
           Q == RsiPeriod + 1
<1>1. P \in Int /\ Q \in Int
  BY IndicatorsAssumption
<1> HIDE DEF P, Q
<1>2. /\ Power(P, 0) = 1
      /\ \A i \in Nat : Power(P, i) \in Int /\ Power(P, i + 1) = P * Power(P, i)
      /\ \A i \in Nat : Power(Q, i) \in Int
  BY <1>1, PowerFacts
<1>3. \A d, k : Weight(d, k) = IF d = 1 THEN Power(P, k - 1) ELSE 2 * Power(P, k - d) * Power(Q, d - 2)
  BY DEF Weight, P, Q
<1>4. Weight(m + 1, m + 1) = 2 * Power(Q, m - 1)
  <2>1. m + 1 # 1 /\ (m + 1) - (m + 1) = 0 /\ (m + 1) - 2 = m - 1 /\ m - 1 \in Nat
    OBVIOUS
  <2>2. Weight(m + 1, m + 1) = 2 * Power(P, 0) * Power(Q, m - 1)
    BY <1>3, <2>1
  <2> QED  BY <1>2, <2>1, <2>2
<1>5. ASSUME NEW d \in 1..m PROVE Weight(d, m) \in Int /\ Weight(d, m + 1) = P * Weight(d, m)
  <2>1. CASE d = 1
    <3>1. m - 1 \in Nat /\ (m - 1) + 1 = (m + 1) - 1
      OBVIOUS
    <3>2. Weight(d, m) = Power(P, m - 1) /\ Weight(d, m + 1) = Power(P, (m - 1) + 1)
      BY <1>3, <2>1, <3>1
    <3> QED  BY <1>2, <3>1, <3>2
  <2>2. CASE d # 1
    <3>1. m - d \in Nat /\ (m - d) + 1 = (m + 1) - d /\ d - 2 \in Nat
      BY <2>2
    <3>2. /\ Weight(d, m) = 2 * Power(P, m - d) * Power(Q, d - 2)
          /\ Weight(d, m + 1) = 2 * Power(P, (m - d) + 1) * Power(Q, d - 2)
      BY <1>3, <2>2, <3>1
    <3>3. ASSUME NEW a \in Int, NEW b \in Int, NEW e \in Int
          PROVE  2 * a * b \in Int /\ 2 * (e * a) * b = e * (2 * a * b)
      OBVIOUS
    <3>4. /\ Power(P, m - d) \in Int /\ Power(Q, d - 2) \in Int
          /\ Power(P, (m - d) + 1) = P * Power(P, m - d)
      BY <1>2, <3>1
    <3> QED  BY <1>1, <3>2, <3>3, <3>4
  <2> QED  BY <2>1, <2>2
<1> QED  BY <1>4, <1>5 DEF P, Q

\* One update of the average adds the newest change with the weight alpha has.
LEMMA AverageNext ==
  ASSUME NEW m \in Nat \ {0}, NEW X, NEW Y, \A d \in 1..(m + 1) : Y[d] \in Int,
         \A d \in 1..m : X[d] = Y[d]
  PROVE  /\ SumFunction([d \in 1..m |-> Weight(d, m) * X[d]]) \in Int
         /\ SumFunction([d \in 1..(m + 1) |-> Weight(d, m + 1) * Y[d]])
              = 2 * Y[m + 1] * Power(RsiPeriod + 1, m - 1)
                + (RsiPeriod - 1) * SumFunction([d \in 1..m |-> Weight(d, m) * X[d]])
<1> DEFINE S == 1..m
           old == [d \in S |-> Weight(d, m) * X[d]]
           new == [d \in 1..(m + 1) |-> Weight(d, m + 1) * Y[d]]
           scaled == [d \in S |-> Weight(d, m + 1) * Y[d]]
           a == RsiPeriod - 1
           p == Power(RsiPeriod + 1, m - 1)
<1>1. IsFiniteSet(S) /\ 1..(m + 1) = S \cup {m + 1} /\ m + 1 \notin S
  BY FS_Interval
<1>2. a \in Int /\ p \in Int
  <2>1. RsiPeriod + 1 \in Int /\ m - 1 \in Nat /\ a \in Int
    BY IndicatorsAssumption
  <2> QED  BY <2>1, PowerFacts
<1>3. ASSUME NEW d \in S
      PROVE  old[d] \in Int /\ scaled[d] = a * old[d] /\ scaled[d] \in Int /\ new[d] = scaled[d]
  <2>1. Weight(d, m) \in Int /\ Weight(d, m + 1) = a * Weight(d, m)
    BY WeightNext
  <2>2. X[d] = Y[d] /\ Y[d] \in Int /\ d \in 1..(m + 1)
    BY <1>1
  <2>3. ASSUME NEW w \in Int, NEW y \in Int, NEW b \in Int
        PROVE  w * y \in Int /\ (b * w) * y = b * (w * y) /\ b * (w * y) \in Int
    OBVIOUS
  <2>4. old[d] = Weight(d, m) * Y[d] /\ scaled[d] = (a * Weight(d, m)) * Y[d]
        /\ new[d] = scaled[d]
    BY <2>1, <2>2
  <2> HIDE DEF old, scaled, new, a
  <2> QED  BY <1>2, <2>1, <2>2, <2>3, <2>4
<1>4. new[m + 1] = 2 * Y[m + 1] * p /\ new[m + 1] \in Int
  <2>1. Weight(m + 1, m + 1) = 2 * p /\ m + 1 \in 1..(m + 1)
    BY WeightNext
  <2>2. Y[m + 1] \in Int
    BY <2>1
  <2>3. new[m + 1] = (2 * p) * Y[m + 1]
    BY <2>1
  <2> HIDE DEF p, new
  <2> QED  BY <1>2, <2>2, <2>3
<1> HIDE DEF old, new, scaled, a, p, S
<1>5. SumFunctionOnSet(scaled, S) = a * SumFunctionOnSet(old, S)
  BY <1>1, <1>2, <1>3, SumScaled
<1>6. SumFunctionOnSet(new, S \cup {m + 1}) = SumFunctionOnSet(scaled, S) + new[m + 1]
  <2> DEFINE y == m + 1
  <2>1. \A d \in S : scaled[d] \in Int /\ new[d] = scaled[d]
    BY <1>3
  <2>2. y \notin S /\ new[y] \in Int
    BY <1>1, <1>4
  <2> HIDE DEF y
  <2>3. SumFunctionOnSet(new, S \cup {y}) = SumFunctionOnSet(scaled, S) + new[y]
    BY <1>1, <2>1, <2>2, SumGrows
  <2> QED  BY <2>3 DEF y
<1>7. SumFunctionOnSet(old, S) \in Int
  BY <1>1, <1>3, SumInt
<1>8. DOMAIN old = S /\ DOMAIN new = S \cup {m + 1}
  BY <1>1 DEF old, new
<1>9. SumFunction(old) = SumFunctionOnSet(old, S)
      /\ SumFunction(new) = SumFunctionOnSet(new, S \cup {m + 1})
  BY <1>8, SumOfFunction
<1>10. a * SumFunctionOnSet(old, S) \in Int
  BY <1>2, <1>7
<1>11. SumFunction(old) \in Int /\ SumFunction(new) = 2 * Y[m + 1] * p + a * SumFunction(old)
  BY <1>4, <1>5, <1>6, <1>7, <1>9, <1>10
<1> QED  BY <1>11 DEF old, new, a, p, S


\* The average of q changes, from that of all but the last.
LEMMA AverageUpdated ==
  ASSUME NEW q \in Nat \ {0}, NEW X, NEW Y, \A d \in 1..q : Y[d] \in Int,
         \A d \in 1..(q - 1) : X[d] = Y[d]
  PROVE  EmaUpdate(IF q < 2 THEN EmaEmpty
                   ELSE Averaged(SumFunction([d \in 1..(q - 1) |-> Weight(d, q - 1) * X[d]]), q - 1),
                   Y[q])
           = Averaged(SumFunction([d \in 1..q |-> Weight(d, q) * Y[d]]), q)
<1> DEFINE new == [d \in 1..q |-> Weight(d, q) * Y[d]]
           old == [d \in 1..(q - 1) |-> Weight(d, q - 1) * X[d]]
<1>1. CASE q = 1
  <2>1. Weight(1, 1) = 1 /\ Power(RsiPeriod + 1, 1 - 1) = 1
    <3>1. RsiPeriod - 1 \in Int /\ RsiPeriod + 1 \in Int /\ 1 - 1 = 0
      BY IndicatorsAssumption
    <3> QED  BY <3>1, PowerFacts DEF Weight
  <2>2. Y[1] \in Int
    BY <1>1
  <2>3. DOMAIN new = {1} /\ new[1] = Y[1]
    BY <1>1, <2>1, <2>2
  <2> HIDE DEF new
  <2>4. SumFunction(new) = Y[1]
    <3>1. IsFiniteSet({}) /\ 1 \notin {} /\ {} \cup {1} = {1} /\ new[1] \in Int
      BY <2>2, <2>3, FS_EmptySet
    <3>2. SumFunctionOnSet(new, {} \cup {1}) = SumFunctionOnSet(new, {}) + new[1]
      BY <3>1, SumGrows
    <3>3. SumFunctionOnSet(new, {}) = 0 /\ SumFunction(new) = SumFunctionOnSet(new, {1})
      BY <2>3, SumOfNone, SumOfFunction
    <3> QED  BY <2>2, <2>3, <3>1, <3>2, <3>3
  <2>5. EmaUpdate(EmaEmpty, Y[1]) = Averaged(SumFunction(new), 1)
    BY <2>1, <2>4 DEF EmaUpdate, EmaEmpty, Averaged
  <2> QED  BY <1>1, <2>5 DEF new
<1>2. CASE q # 1
  <2>1. PICK m \in Nat \ {0} : m = q - 1
    BY <1>2
  <2>2. q = m + 1 /\ ~(q < 2)
    BY <1>2, <2>1
  <2>3. SumFunction(new) = 2 * Y[q] * Power(RsiPeriod + 1, m - 1) + (RsiPeriod - 1) * SumFunction(old)
    <3>1. /\ SumFunction([d \in 1..(m + 1) |-> Weight(d, m + 1) * Y[d]])
               = 2 * Y[m + 1] * Power(RsiPeriod + 1, m - 1)
                 + (RsiPeriod - 1) * SumFunction([d \in 1..m |-> Weight(d, m) * X[d]])
      BY <2>1, <2>2, AverageNext
    <3> QED  BY <2>1, <2>2, <3>1
  <2>4. Power(RsiPeriod + 1, q - 1) = (RsiPeriod + 1) * Power(RsiPeriod + 1, m - 1)
    <3>1. m - 1 \in Nat /\ q - 1 = (m - 1) + 1 /\ RsiPeriod + 1 \in Int
      BY <2>1, <2>2, IndicatorsAssumption
    <3> QED  BY <3>1, PowerFacts
  <2> HIDE DEF new, old
  <2>5. EmaUpdate(Averaged(SumFunction(old), m), Y[q]) = Averaged(SumFunction(new), q)
    BY <2>3, <2>4 DEF EmaUpdate, Averaged
  <2> QED  BY <2>1, <2>2, <2>5 DEF new, old
<1> QED  BY <1>1, <1>2

\* Only the averages of the new candle's hour change.
LEMMA CyclicNext ==
  ASSUME SeenInv, CyclicInv, NEW c \in Candles, Update(c)
  PROVE  CyclicInv'
<1>0. PICK n : n = Len(seen)
  OBVIOUS
<1> DEFINE index == n % CycleSize
           q == n \div CycleSize
           V(h) == Visits(h, CycleSize, n)
           W(h) == Visits(h, CycleSize, n + 1)
           change == c.close - LastOf(index)
           Rise == Positive(change)
           Fall == Positive(-change)
<1>1. CycleSize \in Nat \ {0} /\ c.close \in Nat
  BY IndicatorsAssumption, CandleFields
<1>2. seen' = Append(seen, c) /\ cyclic' = CyclicUpdate(cyclic, c.close)
  BY DEF Update
<1>3. /\ n \in Nat /\ Len(seen') = n + 1
      /\ \A k \in 1..n : seen'[k] = seen[k] /\ seen[k] \in Candles
      /\ seen'[n + 1] = c
  BY <1>0, <1>2, SeenNext
<1>4. \A h : Days(h) = V(h) /\ Days(h)' = W(h)
  BY <1>0, <1>3 DEF Days
<1>5. \A h \in Ring(CycleSize) : V(h) \in Nat /\ W(h) = V(h) + (IF h = index THEN 1 ELSE 0)
  BY <1>1, <1>3, VisitsNext DEF Ring
<1>6. /\ index \in Ring(CycleSize) /\ V(index) = q /\ q \in Nat
      /\ At(index, q, CycleSize) = n + 1
  BY <1>1, <1>3, NextSlot, DivMod DEF Ring
<1>7. n < CycleSize <=> q = 0
  <2>1. n = q * CycleSize + index /\ index \in 0..(CycleSize - 1)
    BY <1>1, <1>3, DivMod
  <2> HIDE DEF q, index
  <2>2. q = 0 => n < CycleSize
    BY <1>1, <1>3, <2>1
  <2>3. q # 0 => ~(n < CycleSize)
    <3> SUFFICES ASSUME q # 0 PROVE ~(n < CycleSize)
      OBVIOUS
    <3>1. 0 * CycleSize + CycleSize <= q * CycleSize /\ q * CycleSize \in Int
      <4>1. q \in Int /\ 0 < q
        BY <1>6
      <4> QED  BY <1>1, <4>1, ProductsInOrder
    <3> QED  BY <1>1, <1>3, <2>1, <3>1
  <2> QED  BY <2>2, <2>3
<1> HIDE DEF index, q, V, W
\* What has been seen stays as it is.
<1>8. ASSUME NEW h \in Ring(CycleSize), NEW d \in Nat, d < V(h)
      PROVE  /\ seen'[At(h, d, CycleSize)] = seen[At(h, d, CycleSize)]
             /\ seen[At(h, d, CycleSize)].close \in Nat
  <2>1. At(h, d, CycleSize) \in 1..n
    BY <1>1, <1>3, <1>8, AtSeen DEF Ring, V
  <2> QED  BY <1>3, <2>1, CandleFields
<1>9. \A h, d : DayChange(h, d) = seen[At(h, d, CycleSize)].close - seen[At(h, d - 1, CycleSize)].close
                /\ DayChange(h, d)' = seen'[At(h, d, CycleSize)].close - seen'[At(h, d - 1, CycleSize)].close
  BY DEF DayChange, At
<1>10. ASSUME NEW h \in Ring(CycleSize), NEW d \in Nat \ {0}, d < V(h)
       PROVE  DayChange(h, d)' = DayChange(h, d) /\ DayChange(h, d) \in Int
  <2>1. d - 1 \in Nat /\ d \in Nat /\ d - 1 < V(h)
    BY <1>5, <1>10
  <2>2. /\ seen'[At(h, d, CycleSize)] = seen[At(h, d, CycleSize)]
        /\ seen[At(h, d, CycleSize)].close \in Nat
    BY <1>8, <1>10, <2>1
  <2>3. /\ seen'[At(h, d - 1, CycleSize)] = seen[At(h, d - 1, CycleSize)]
        /\ seen[At(h, d - 1, CycleSize)].close \in Nat
    BY <1>8, <2>1
  <2> QED  BY <1>9, <2>2, <2>3
\* The other hours.
<1>11. ASSUME NEW h \in Ring(CycleSize), h # index
       PROVE  LastOf(h)' = LastOf(h) /\ GainOf(h)' = GainOf(h) /\ LossOf(h)' = LossOf(h)
  <2>1. W(h) = V(h) /\ V(h) \in Nat
    BY <1>5, <1>11
  <2>2. LastOf(h)' = LastOf(h)
    <3>1. CASE V(h) = 0
      BY <1>4, <2>1, <3>1 DEF LastOf
    <3>2. CASE V(h) # 0
      <4>1. V(h) - 1 \in Nat /\ V(h) - 1 < V(h)
        BY <2>1, <3>2
      <4>2. seen'[At(h, V(h) - 1, CycleSize)] = seen[At(h, V(h) - 1, CycleSize)]
        BY <1>8, <4>1
      <4> QED  BY <1>4, <2>1, <3>2, <4>2 DEF LastOf
    <3> QED  BY <3>1, <3>2
  <2>3. ASSUME V(h) >= 2
        PROVE  /\ WeighedGains(h, V(h) - 1)' = WeighedGains(h, V(h) - 1)
               /\ WeighedLosses(h, V(h) - 1)' = WeighedLosses(h, V(h) - 1)
    <3>1. PICK m : m = V(h) - 1
      OBVIOUS
    <3>2. m \in Nat /\ \A d \in 1..m : d \in Nat \ {0} /\ d < V(h)
      BY <2>1, <2>3, <3>1
    <3>3. \A d \in 1..m : DayChange(h, d)' = DayChange(h, d)
      BY <1>10, <3>2
    <3>4. WeighedGains(h, m)' = WeighedGains(h, m) /\ WeighedLosses(h, m)' = WeighedLosses(h, m)
      BY <3>3 DEF WeighedGains, WeighedLosses
    <3>5. (V(h) - 1)' = V(h) - 1
      BY DEF V
    <3> QED  BY <3>1, <3>4, <3>5
  <2> QED  BY <1>4, <2>1, <2>2, <2>3 DEF GainOf, LossOf
\* The hour of the new candle.
<1>12. V(index) = q /\ W(index) = q + 1 /\ At(index, q, CycleSize) = n + 1 /\ q \in Nat
  BY <1>5, <1>6
<1>13. LastOf(index)' = c.close
  <2>1. W(index) # 0 /\ W(index) - 1 = q
    BY <1>12
  <2>2. LastOf(index)' = IF W(index) = 0 THEN 0 ELSE seen'[At(index, W(index) - 1, CycleSize)].close
    <3>1. index' = index
      BY DEF index
    <3> QED  BY <1>4, <3>1 DEF LastOf
  <2> QED  BY <1>3, <1>12, <2>1, <2>2
<1>14. ASSUME q # 0
       PROVE  /\ GainOf(index)' = EmaUpdate(GainOf(index), Rise)
              /\ LossOf(index)' = EmaUpdate(LossOf(index), Fall)
  <2>0. PICK h \in Ring(CycleSize) : h = index
    BY <1>6
  <2>1. q \in Nat \ {0} /\ q - 1 \in Nat /\ q - 1 < V(h) /\ ~(q + 1 < 2) /\ V(h) = q
    BY <1>12, <1>14, <2>0
  <2>2. DayChange(h, q)' = change /\ change \in Int
    <3>1. /\ seen'[At(h, q - 1, CycleSize)] = seen[At(h, q - 1, CycleSize)]
          /\ seen[At(h, q - 1, CycleSize)].close \in Nat
      BY <1>8, <2>1
    <3>2. LastOf(h) = seen[At(h, q - 1, CycleSize)].close
      BY <1>4, <1>14, <2>1 DEF LastOf
    <3>3. seen'[At(h, q, CycleSize)] = c
      BY <1>3, <1>12, <2>0
    <3>4. DayChange(h, q)' = seen'[At(h, q, CycleSize)].close - seen'[At(h, q - 1, CycleSize)].close
      <4>1. q' = q
        BY DEF q
      <4> QED  BY <1>9, <4>1
    <3> QED  BY <1>1, <2>0, <3>1, <3>2, <3>3, <3>4
  <2>3. \A d \in 1..(q - 1) : DayChange(h, d)' = DayChange(h, d) /\ DayChange(h, d) \in Int
    <3>1. \A d \in 1..(q - 1) : d \in Nat \ {0} /\ d < V(h)
      BY <2>1
    <3> QED  BY <1>10, <3>1
  <2>4. \A d \in 1..q : DayChange(h, d)' \in Int
    <3> SUFFICES ASSUME NEW d \in 1..q PROVE DayChange(h, d)' \in Int
      OBVIOUS
    <3>1. CASE d = q
      BY <2>2, <3>1
    <3>2. CASE d # q
      <4>1. d \in 1..(q - 1)
        BY <2>1, <3>2
      <4> QED  BY <2>3, <4>1
    <3> QED  BY <3>1, <3>2
  <2>5. \A x \in Int : Positive(x) \in Int /\ -x \in Int
    BY DEF Positive
  <2>6. GainOf(h)' = EmaUpdate(GainOf(h), Rise)
    <3> DEFINE X == [d \in 1..(q - 1) |-> Positive(DayChange(h, d))]
               Y == [d \in 1..q |-> Positive(DayChange(h, d)')]
    <3>1. /\ \A d \in 1..q : Y[d] \in Int
          /\ \A d \in 1..(q - 1) : X[d] = Y[d]
          /\ Y[q] = Rise
      BY <2>1, <2>2, <2>3, <2>4, <2>5
    <3>2. WeighedGains(h, q - 1) = SumFunction([d \in 1..(q - 1) |-> Weight(d, q - 1) * X[d]])
      BY DEF WeighedGains
    <3>3. WeighedGains(h, q)' = SumFunction([d \in 1..q |-> Weight(d, q) * Y[d]])
      <4>1. q' = q
        BY DEF q
      <4> QED  BY <4>1 DEF WeighedGains
    <3> HIDE DEF X, Y
    <3>4. EmaUpdate(IF q < 2 THEN EmaEmpty ELSE Averaged(WeighedGains(h, q - 1), q - 1), Y[q])
            = Averaged(WeighedGains(h, q)', q)
      BY <2>1, <3>1, <3>2, <3>3, AverageUpdated
    <3>5. GainOf(h) = IF q < 2 THEN EmaEmpty ELSE Averaged(WeighedGains(h, q - 1), q - 1)
      BY <1>4, <2>1 DEF GainOf
    <3>6. GainOf(h)' = Averaged(WeighedGains(h, q)', q)
      <4>1. Days(h)' = q + 1 /\ (q + 1) - 1 = q /\ q' = q
        BY <1>4, <1>12, <2>0, <2>1 DEF q
      <4> QED  BY <2>1, <4>1 DEF GainOf, Averaged
    <3> QED  BY <3>1, <3>4, <3>5, <3>6
  <2>7. LossOf(h)' = EmaUpdate(LossOf(h), Fall)
    <3> DEFINE X == [d \in 1..(q - 1) |-> Positive(-DayChange(h, d))]
               Y == [d \in 1..q |-> Positive(-DayChange(h, d)')]
    <3>1. /\ \A d \in 1..q : Y[d] \in Int
          /\ \A d \in 1..(q - 1) : X[d] = Y[d]
          /\ Y[q] = Fall
      BY <2>1, <2>2, <2>3, <2>4, <2>5
    <3>2. WeighedLosses(h, q - 1) = SumFunction([d \in 1..(q - 1) |-> Weight(d, q - 1) * X[d]])
      BY DEF WeighedLosses
    <3>3. WeighedLosses(h, q)' = SumFunction([d \in 1..q |-> Weight(d, q) * Y[d]])
      <4>1. q' = q
        BY DEF q
      <4> QED  BY <4>1 DEF WeighedLosses
    <3> HIDE DEF X, Y
    <3>4. EmaUpdate(IF q < 2 THEN EmaEmpty ELSE Averaged(WeighedLosses(h, q - 1), q - 1), Y[q])
            = Averaged(WeighedLosses(h, q)', q)
      BY <2>1, <3>1, <3>2, <3>3, AverageUpdated
    <3>5. LossOf(h) = IF q < 2 THEN EmaEmpty ELSE Averaged(WeighedLosses(h, q - 1), q - 1)
      BY <1>4, <2>1 DEF LossOf
    <3>6. LossOf(h)' = Averaged(WeighedLosses(h, q)', q)
      <4>1. Days(h)' = q + 1 /\ (q + 1) - 1 = q /\ q' = q
        BY <1>4, <1>12, <2>0, <2>1 DEF q
      <4> QED  BY <2>1, <4>1 DEF LossOf, Averaged
    <3> QED  BY <3>1, <3>4, <3>5, <3>6
  <2>8. index' = index
    BY DEF index
  <2> QED  BY <2>0, <2>6, <2>7, <2>8
<1>15. ASSUME q = 0
       PROVE  GainOf(index)' = GainOf(index) /\ LossOf(index)' = LossOf(index)
  <2>1. Days(index) = 0 /\ Days(index)' = 1
    <3>1. index' = index
      BY DEF index
    <3> QED  BY <1>4, <1>12, <1>15, <3>1
  <2> QED  BY <2>1 DEF GainOf, LossOf
<1> DEFINE last == [h \in Ring(CycleSize) |-> LastOf(h)]
           gain == [h \in Ring(CycleSize) |-> GainOf(h)]
           loss == [h \in Ring(CycleSize) |-> LossOf(h)]
           last2 == [h \in Ring(CycleSize) |-> LastOf(h)']
           gain2 == [h \in Ring(CycleSize) |-> GainOf(h)']
           loss2 == [h \in Ring(CycleSize) |-> LossOf(h)']
<1>16. cyclic = [last |-> last, gain |-> gain, loss |-> loss, count |-> n]
  BY <1>0 DEF CyclicInv
<1>17. CyclicInv' <=> cyclic' = [last |-> last2, gain |-> gain2, loss |-> loss2, count |-> n + 1]
  BY <1>3 DEF CyclicInv
<1>18. /\ last2 = [last EXCEPT ![index] = c.close]
       /\ gain2 = IF q = 0 THEN gain ELSE [gain EXCEPT ![index] = EmaUpdate(@, Rise)]
       /\ loss2 = IF q = 0 THEN loss ELSE [loss EXCEPT ![index] = EmaUpdate(@, Fall)]
  <2>0. PICK i \in Ring(CycleSize) : i = index
    BY <1>6
  <2> DEFINE RiseNow == Rise
             FallNow == Fall
  <2>1. /\ LastOf(i)' = c.close
        /\ GainOf(i)' = IF q = 0 THEN GainOf(i) ELSE EmaUpdate(GainOf(i), RiseNow)
        /\ LossOf(i)' = IF q = 0 THEN LossOf(i) ELSE EmaUpdate(LossOf(i), FallNow)
    <3>1. index' = index
      BY DEF index
    <3> QED  BY <1>13, <1>14, <1>15, <2>0, <3>1
  <2>2. \A h \in Ring(CycleSize) : h # i =>
           LastOf(h)' = LastOf(h) /\ GainOf(h)' = GainOf(h) /\ LossOf(h)' = LossOf(h)
    BY <1>11, <2>0
  <2> HIDE DEF RiseNow, FallNow
  <2>3. last2 = [last EXCEPT ![i] = c.close]
    BY <2>1, <2>2
  <2>4. gain2 = IF q = 0 THEN gain ELSE [gain EXCEPT ![i] = EmaUpdate(@, RiseNow)]
    BY <2>1, <2>2
  <2>5. loss2 = IF q = 0 THEN loss ELSE [loss EXCEPT ![i] = EmaUpdate(@, FallNow)]
    BY <2>1, <2>2
  <2> QED  BY <2>0, <2>3, <2>4, <2>5 DEF RiseNow, FallNow
<1>19. last[index] = LastOf(index)
  BY <1>6
<1> HIDE DEF last, gain, loss, last2, gain2, loss2
<1>20. CASE q = 0
  <2>1. cyclic' = [cyclic EXCEPT !.last = [last EXCEPT ![index] = c.close], !.count = n + 1]
    BY <1>2, <1>7, <1>16, <1>20 DEF CyclicUpdate, index
  <2> QED  BY <1>16, <1>17, <1>18, <1>20, <2>1
<1>21. CASE q # 0
  <2>1. cyclic' = [last |-> [last EXCEPT ![index] = c.close], count |-> n + 1,
                   gain |-> [gain EXCEPT ![index] = EmaUpdate(@, Rise)],
                   loss |-> [loss EXCEPT ![index] = EmaUpdate(@, Fall)]]
    BY <1>2, <1>7, <1>16, <1>19, <1>21 DEF CyclicUpdate, index
  <2> QED  BY <1>17, <1>18, <1>21, <2>1
<1> QED  BY <1>20, <1>21


-----------------------------------------------------------------------------
(* The invariant holds *)

LEMMA InitHolds == Init => IndicatorsInv
<1> SUFFICES ASSUME Init PROVE IndicatorsInv
  OBVIOUS
<1>1. /\ RingSize \in Nat \ {0} /\ CycleSize \in Nat \ {0} /\ Period \in Nat \ {0}
  BY IndicatorsAssumption, PeriodAssumption
<1>2. seen = <<>> /\ Len(seen) = 0
  BY DEF Init
<1>3. \A h : /\ h \in Ring(RingSize) => Visits(h, RingSize, Len(seen)) = 0
             /\ h \in Ring(CycleSize) => Visits(h, CycleSize, Len(seen)) = 0
  <2>1. /\ \A h \in 0..(RingSize - 1) : Visits(h, RingSize, 0) = IF h < 0 THEN 1 ELSE 0
        /\ \A h \in 0..(CycleSize - 1) : Visits(h, CycleSize, 0) = IF h < 0 THEN 1 ELSE 0
    BY <1>1, FirstRound
  <2> QED  BY <1>2, <2>1 DEF Ring
<1>4. SeenInv
  BY <1>2 DEF SeenInv
<1>5. RangeInv
  BY <1>2, <1>3 DEF Init, RangeInv
<1>6. \A f : Mirrors(<<>>, 0, f, 0)
  <2>1. Shown(<<>>, 0) = {}
    BY DEF Shown
  <2> QED  BY <2>1, SumOfNone DEF Mirrors
<1>7. SmaInv
  BY <1>1, <1>2, <1>6 DEF Init, SmaInv
<1>8. RsiInv
  BY <1>2, <1>6 DEF Init, RsiInv, RsiEmpty
<1>9. CyclicInv
  <2>1. \A h \in Ring(CycleSize) : Days(h) = 0
    BY <1>3 DEF Days
  <2>2. \A h \in Ring(CycleSize) : LastOf(h) = 0 /\ GainOf(h) = EmaEmpty /\ LossOf(h) = EmaEmpty
    BY <2>1 DEF LastOf, GainOf, LossOf
  <2> QED  BY <1>2, <2>2 DEF Init, CyclicInv
<1> QED  BY <1>4, <1>5, <1>7, <1>8, <1>9 DEF IndicatorsInv

LEMMA StepHolds == IndicatorsInv /\ [Next]_vars => IndicatorsInv'
<1> SUFFICES ASSUME IndicatorsInv, [Next]_vars PROVE IndicatorsInv'
  OBVIOUS
<1>0. SeenInv /\ RangeInv /\ SmaInv /\ RsiInv /\ CyclicInv
  BY DEF IndicatorsInv
<1>1. ASSUME NEW c \in Candles, Update(c) PROVE IndicatorsInv'
  <2>1. SeenInv'
    BY <1>0, <1>1, SeenNext DEF Update
  <2>2. RangeInv'
    BY <1>0, <1>1, RangeNext
  <2>3. SmaInv'
    BY <1>0, <1>1, SmaNext
  <2>4. RsiInv'
    BY <1>0, <1>1, RsiNext
  <2>5. CyclicInv'
    BY <1>0, <1>1, CyclicNext
  <2> QED  BY <2>1, <2>2, <2>3, <2>4, <2>5 DEF IndicatorsInv
<1>2. CASE Rests \/ UNCHANGED vars
  BY <1>0, <1>2, ZenonT(40) DEF Rests, vars, IndicatorsInv, SeenInv, RangeInv, InRing, SmaInv, Closes, RsiInv,
     Gains, Losses, Change, CyclicInv, LastOf, GainOf, LossOf, Days, WeighedGains, WeighedLosses,
     DayChange, Mirrors, Shown, Averaged, Ring, EmaEmpty
<1> QED  BY <1>1, <1>2 DEF Next

\* After every candle each indicator holds what the invariant says of the candles
\* seen: rings, deques, running sums and averages.
THEOREM IndicatorsInvariant == Spec => []IndicatorsInv
BY InitHolds, StepHolds, PTL DEF Spec

-----------------------------------------------------------------------------
(* The answers *)

LEMMA SumsAreShown == IndicatorsInv => SumsOfWindow
<1> SUFFICES ASSUME IndicatorsInv PROVE SumsOfWindow
  OBVIOUS
<1>0. PICK n : n = Len(seen)
  OBVIOUS
<1>1. /\ RingSize \in Nat \ {0} /\ Period \in Nat \ {0}
      /\ n \in Nat /\ DOMAIN seen = 1..n /\ (seen = <<>> <=> n = 0)
  BY <1>0, IndicatorsAssumption, PeriodAssumption DEF IndicatorsInv, SeenInv
<1>2. ASSUME NEW q, NEW sum, NEW f, NEW g, NEW W, Mirrors(q, sum, f, n), Shown(q, n) = W,
             DOMAIN g = W, \A k \in W : g[k] = f[k]
      PROVE  sum = SumFunction(g)
  <2>1. IsFiniteSet(W)
    BY <1>1, <1>2, FS_Interval DEF Shown, Mirrors
  <2>2. SumFunction(g) = SumFunctionOnSet(g, W) /\ SumFunctionOnSet(f, W) = SumFunctionOnSet(g, W)
    BY <1>2, <2>1, SumAgrees, SumOfFunction
  <2> QED  BY <1>2, <2>2 DEF Mirrors
<1>3. sma.sum = SumFunction([k \in Window(RingSize) |-> seen[k].close])
  <2> DEFINE g == [k \in Window(RingSize) |-> seen[k].close]
  <2>1. Mirrors(sma.prices, sma.sum, Closes, n)
        /\ Len(sma.prices) = IF n < RingSize THEN n ELSE RingSize
    BY <1>0 DEF IndicatorsInv, SmaInv
  <2>2. Shown(sma.prices, n) = Window(RingSize)
    <3>1. Window(RingSize) = {k \in 1..n : k > n - RingSize}
      BY <1>0, <1>1 DEF Window
    <3>2. PICK l : l = Len(sma.prices)
      OBVIOUS
    <3>3. {k \in 1..n : k > n - RingSize} = (n - l + 1)..n
      BY <1>1, <2>1, <3>2
    <3> QED  BY <3>1, <3>2, <3>3 DEF Shown
  <2>3. \A k \in Window(RingSize) : g[k] = Closes[k]
    BY DEF Closes, Window
  <2> HIDE DEF g
  <2>4. DOMAIN g = Window(RingSize)
    BY DEF g
  <2>5. sma.sum = SumFunction(g)
    BY <1>2, <2>1, <2>2, <2>3, <2>4
  <2> QED  BY <2>5 DEF g
<1> DEFINE window == Window(Period) \ {1}
<1>4. /\ Len(rsi.gains) = (IF n = 0 THEN 0 ELSE IF n > Period THEN Period ELSE n - 1)
      /\ Len(rsi.losses) = Len(rsi.gains)
      /\ Mirrors(rsi.gains, rsi.sum_gain, Gains, n)
      /\ Mirrors(rsi.losses, rsi.sum_loss, Losses, n)
  BY <1>0, <1>1 DEF IndicatorsInv, RsiInv
<1>5. Shown(rsi.gains, n) = window /\ Shown(rsi.losses, n) = window
  BY <1>0, <1>1, <1>4 DEF Shown, Window
<1>6. window \subseteq DOMAIN seen
  BY DEF Window
<1> HIDE DEF window
<1>7. rsi.sum_gain = SumFunction([k \in window |-> Positive(Change(k))])
  <2> DEFINE g == [k \in window |-> Positive(Change(k))]
  <2>1. DOMAIN g = window /\ \A k \in window : g[k] = Gains[k]
    BY <1>6 DEF Gains
  <2> HIDE DEF g
  <2>2. rsi.sum_gain = SumFunction(g)
    BY <1>2, <1>4, <1>5, <2>1
  <2> QED  BY <2>2 DEF g
<1>8. rsi.sum_loss = SumFunction([k \in window |-> Positive(-Change(k))])
  <2> DEFINE g == [k \in window |-> Positive(-Change(k))]
  <2>1. DOMAIN g = window /\ \A k \in window : g[k] = Losses[k]
    BY <1>6 DEF Losses
  <2> HIDE DEF g
  <2>2. rsi.sum_loss = SumFunction(g)
    BY <1>2, <1>4, <1>5, <2>1
  <2> QED  BY <2>2 DEF g
<1>9. RsiHasValue(rsi) <=> n > Period
  BY <1>1, <1>4 DEF RsiHasValue
<1> QED  BY <1>0, <1>3, <1>7, <1>8, <1>9 DEF SumsOfWindow, window

\* The sums that are kept by adding what comes and subtracting what goes are the
\* sums over the window.
THEOREM RunningSums == Spec => []SumsOfWindow
BY IndicatorsInvariant, SumsAreShown, PTL

LEMMA AveragesAreHourly == IndicatorsInv => AveragesOfOneHour
<1> SUFFICES ASSUME IndicatorsInv PROVE AveragesOfOneHour
  OBVIOUS
<1>0. PICK n : n = Len(seen)
  OBVIOUS
<1> DEFINE hour == n % CycleSize
           days == n \div CycleSize
<1>1. n \in Nat /\ CycleSize \in Nat \ {0}
  BY <1>0, IndicatorsAssumption DEF IndicatorsInv, SeenInv
<1>2. hour \in Ring(CycleSize) /\ Days(hour) = days /\ days \in Nat
  BY <1>0, <1>1, NextSlot, DivMod DEF Days, Ring
<1>3. /\ cyclic.count = n
      /\ cyclic.gain[hour] = GainOf(hour) /\ cyclic.loss[hour] = LossOf(hour)
  BY <1>0, <1>2 DEF IndicatorsInv, CyclicInv
<1> HIDE DEF hour, days
<1>4. NextHour(cyclic) = hour
  BY <1>3 DEF NextHour, hour
<1>5. CASE days < 2
  <2>1. ~(days - 1 >= 1) /\ cyclic.gain[hour].has_value = FALSE
    BY <1>2, <1>3, <1>5 DEF GainOf, EmaEmpty
  <2> QED  BY <1>0, <1>4, <2>1 DEF AveragesOfOneHour, hour, days
<1>6. CASE ~(days < 2)
  <2>1. /\ cyclic.gain[hour] = [has_value |-> TRUE, value |-> WeighedGains(hour, days - 1),
                                over |-> Power(RsiPeriod + 1, days - 1 - 1)]
        /\ cyclic.loss[hour] = [has_value |-> TRUE, value |-> WeighedLosses(hour, days - 1),
                                over |-> Power(RsiPeriod + 1, days - 1 - 1)]
    BY <1>2, <1>3, <1>6 DEF GainOf, LossOf, Averaged
  <2>2. days - 1 >= 1
    BY <1>2, <1>6
  <2> QED  BY <1>0, <1>4, <2>1, <2>2 DEF AveragesOfOneHour, hour, days
<1> QED  BY <1>5, <1>6

\* Each hour's averages are the weighted sums of that hour's changes from one day to
\* the next.
THEOREM HourlyAverages == Spec => []AveragesOfOneHour
BY IndicatorsInvariant, AveragesAreHourly, PTL

\* Of finitely many numbers one is the greatest.
LEMMA HasGreatest ==
  ASSUME NEW n \in Nat \ {0}, NEW f, \A k \in 1..n : f[k] \in Nat
  PROVE  \E k \in 1..n : \A j \in 1..n : f[j] <= f[k]
<1> DEFINE G == {m \in Nat : m + 1 <= n => \E k \in 1..(m + 1) : \A j \in 1..(m + 1) : f[j] <= f[k]}
<1>1. 0 \in G
  <2>1. \A j \in 1..(0 + 1) : j = 1 /\ f[1] <= f[1]
    OBVIOUS
  <2>2. \E k \in 1..(0 + 1) : \A j \in 1..(0 + 1) : f[j] <= f[k]
    BY <2>1
  <2> QED  BY <2>2
<1>2. ASSUME NEW m \in G PROVE m + 1 \in G
  <2>1. ASSUME m + 1 + 1 <= n
        PROVE  \E k \in 1..(m + 1 + 1) : \A j \in 1..(m + 1 + 1) : f[j] <= f[k]
    <3>1. PICK k \in 1..(m + 1) : \A j \in 1..(m + 1) : f[j] <= f[k]
      BY <2>1
    <3> DEFINE l == m + 1 + 1
    <3>2. l \in 1..n /\ k \in 1..n /\ k \in 1..l /\ l \in 1..l /\ \A j \in 1..l : j = l \/ j \in 1..(m + 1)
      BY <2>1
    <3>3. f[l] \in Nat /\ f[k] \in Nat /\ \A j \in 1..(m + 1) : f[j] \in Nat
      BY <2>1, <3>2
    <3> HIDE DEF l
    <3>4. CASE f[l] <= f[k]
      BY <3>1, <3>2, <3>4 DEF l
    <3>5. CASE ~(f[l] <= f[k])
      <4>1. \A j \in 1..l : f[j] <= f[l]
        BY <3>1, <3>2, <3>3, <3>5
      <4> QED  BY <3>2, <4>1 DEF l
    <3> QED  BY <3>4, <3>5
  <2>2. m + 1 \in Nat
    OBVIOUS
  <2> QED  BY <2>1, <2>2
<1>3. G = Nat
  <2> HIDE DEF G
  <2>1. G \subseteq Nat
    BY DEF G
  <2> QED  BY <1>1, <1>2, <2>1, Induction
<1>4. PICK m \in Nat : n = m + 1
  <2>1. n - 1 \in Nat /\ n = (n - 1) + 1
    OBVIOUS
  <2> QED  BY <2>1
<1>5. m \in G
  BY <1>3
<1>6. n <= n
  OBVIOUS
<1> QED  BY <1>4, <1>5, <1>6

\* What the rings hold is the window, and zeros until they have been filled.
LEMMA RingIsShown ==
  ASSUME IndicatorsInv
  PROVE  LET n == Len(seen)
         IN  /\ n >= RingSize =>
                  /\ Range(range.high) = {seen[k].high : k \in Window(RingSize)}
                  /\ Range(range.low) = {seen[k].low : k \in Window(RingSize)}
             /\ n < RingSize =>
                  /\ Range(range.high) = {seen[k].high : k \in Window(RingSize)} \cup {0}
                  /\ Range(range.low) = {seen[k].low : k \in Window(RingSize)} \cup {0}
<1>0. PICK n : n = Len(seen)
  OBVIOUS
<1> DEFINE V(i) == Visits(i, RingSize, n)
           Slot(i) == At(i, V(i) - 1, RingSize)
<1>1. n \in Nat /\ RingSize \in Nat \ {0} /\ DOMAIN seen = 1..n
  BY <1>0, IndicatorsAssumption DEF IndicatorsInv, SeenInv
<1>2. /\ range.high = [i \in 0..(RingSize - 1) |-> IF V(i) = 0 THEN 0 ELSE seen[Slot(i)].high]
      /\ range.low = [i \in 0..(RingSize - 1) |-> IF V(i) = 0 THEN 0 ELSE seen[Slot(i)].low]
  BY <1>0 DEF IndicatorsInv, RangeInv, Ring, InRing
<1>3. Window(RingSize) = {k \in 1..n : k > n - RingSize}
  BY <1>0, <1>1 DEF Window
<1>4. CASE n >= RingSize
  <2>1. Window(RingSize) = (n - RingSize + 1)..n
    BY <1>1, <1>3, <1>4
  <2>2. \A i \in 0..(RingSize - 1) : V(i) - 1 \in Nat /\ Slot(i) \in (n - RingSize + 1)..n
    BY <1>1, <1>4, LastRound
  <2>3. \A k \in (n - RingSize + 1)..n : \E i \in 0..(RingSize - 1) : k = Slot(i)
    BY <1>1, <1>4, LastRound
  <2> HIDE DEF V, Slot
  <2>4. \A i \in 0..(RingSize - 1) : V(i) # 0
    BY <2>2
  <2>5. /\ range.high = [i \in 0..(RingSize - 1) |-> seen[Slot(i)].high]
        /\ range.low = [i \in 0..(RingSize - 1) |-> seen[Slot(i)].low]
    BY <1>2, <2>4
  <2>6. /\ Range(range.high) = {seen[k].high : k \in (n - RingSize + 1)..n}
        /\ Range(range.low) = {seen[k].low : k \in (n - RingSize + 1)..n}
    BY <2>2, <2>3, <2>5, SMTT(30) DEF Range
  <2>7. ~(n < RingSize)
    BY <1>1, <1>4
  <2> QED  BY <1>0, <2>1, <2>6, <2>7
<1>5. CASE n < RingSize
  <2>1. Window(RingSize) = 1..n
    BY <1>1, <1>3, <1>5
  <2>2. \A i \in 0..(RingSize - 1) : V(i) = (IF i < n THEN 1 ELSE 0) /\ At(i, 0, RingSize) = i + 1
    BY <1>1, <1>5, FirstRound
  <2>3. \A i \in 0..(RingSize - 1) : i < n => Slot(i) = i + 1
    BY <2>2
  <2> HIDE DEF V, Slot
  <2>4. /\ range.high = [i \in 0..(RingSize - 1) |-> IF i < n THEN seen[i + 1].high ELSE 0]
        /\ range.low = [i \in 0..(RingSize - 1) |-> IF i < n THEN seen[i + 1].low ELSE 0]
    BY <1>2, <2>2, <2>3
  <2>5. n \in 0..(RingSize - 1) /\ \A i \in 0..(RingSize - 1) : i < n => i + 1 \in 1..n
    BY <1>1, <1>5
  <2>6. \A k \in 1..n : k - 1 \in 0..(RingSize - 1) /\ k - 1 < n /\ (k - 1) + 1 = k
    BY <1>1, <1>5
  <2>7. ~(n < n)
    BY <1>1
  <2>8. Range(range.high) = {seen[k].high : k \in 1..n} \cup {0}
    BY <2>4, <2>5, <2>6, <2>7 DEF Range
  <2>9. Range(range.low) = {seen[k].low : k \in 1..n} \cup {0}
    BY <2>4, <2>5, <2>6, <2>7 DEF Range
  <2>10. ~(n >= RingSize)
    BY <1>1, <1>5
  <2> QED  BY <1>0, <2>1, <2>8, <2>9, <2>10
<1> QED  BY <1>0, <1>1, <1>4, <1>5

LEMMA RangeShowsWindow == IndicatorsInv => RangeIsWindow
<1> SUFFICES ASSUME IndicatorsInv, seen # <<>>
             PROVE  RangeValue(range) =
                      Max({seen[k].high : k \in Window(RingSize)}) -
                      (IF Len(seen) < RingSize THEN 0
                       ELSE Min({seen[k].low : k \in Window(RingSize)}))
  BY DEF RangeIsWindow
<1> DEFINE n == Len(seen)
           Highs == {seen[k].high : k \in Window(RingSize)}
           Lows == {seen[k].low : k \in Window(RingSize)}
<1>1. /\ n \in Nat \ {0} /\ RingSize \in Nat \ {0} /\ DOMAIN seen = 1..n
      /\ \A k \in 1..n : seen[k] \in Candles
  BY IndicatorsAssumption DEF IndicatorsInv, SeenInv
<1>2. CASE n >= RingSize
  <2>1. Range(range.high) = Highs /\ Range(range.low) = Lows
    BY <1>2, RingIsShown
  <2>2. ~(n < RingSize)
    BY <1>1, <1>2
  <2> HIDE DEF Highs, Lows
  <2>3. RangeValue(range) = Max(Highs) - Min(Lows)
    BY <2>1 DEF RangeValue
  <2> QED  BY <2>2, <2>3 DEF Highs, Lows
<1>3. CASE n < RingSize
  <2>1. Range(range.high) = Highs \cup {0} /\ Range(range.low) = Lows \cup {0}
    BY <1>3, RingIsShown
  <2>2. Window(RingSize) = 1..n
    BY <1>1, <1>3 DEF Window
  <2>3. \A k \in 1..n : seen[k].high \in Nat /\ seen[k].low \in Nat
    BY <1>1, CandleFields
  <2>4. Highs \subseteq Nat /\ Lows \subseteq Nat /\ Highs # {}
    BY <1>1, <2>2, <2>3
  <2>5. PICK high \in Highs : \A x \in Highs : high >= x
    <3> DEFINE f == [k \in 1..n |-> seen[k].high]
    <3>1. \A k \in 1..n : f[k] \in Nat
      BY <2>3
    <3> HIDE DEF f
    <3>2. PICK k \in 1..n : \A j \in 1..n : f[j] <= f[k]
      BY <1>1, <3>1, HasGreatest
    <3>3. \A j \in 1..n : f[j] = seen[j].high
      BY DEF f
    <3>4. \A j \in 1..n : seen[k].high >= seen[j].high
      BY <2>3, <3>2, <3>3
    <3> QED  BY <2>2, <3>4
  <2> HIDE DEF Highs, Lows
  <2>6. Max(Highs) \in Highs /\ \A x \in Highs : Max(Highs) >= x
    BY <2>5 DEF Max
  <2>7. Max(Highs \cup {0}) = Max(Highs)
    <3>1. Max(Highs) \in Nat /\ Max(Highs) \in Highs \cup {0}
          /\ \A x \in Highs \cup {0} : Max(Highs) >= x
      <4>0. Max(Highs) \in Nat
        BY <2>4, <2>6
      <4>1. Max(Highs) \in Nat /\ Max(Highs) >= 0
        BY <4>0
      <4> QED  BY <2>6, <4>1
    <3>2. Max(Highs \cup {0}) \in Highs \cup {0}
          /\ \A x \in Highs \cup {0} : Max(Highs \cup {0}) >= x
      BY <3>1 DEF Max
    <3>3. \A x, y \in Nat : x >= y /\ y >= x => x = y
      OBVIOUS
    <3> QED  BY <2>4, <3>1, <3>2, <3>3
  <2>8. Min(Lows \cup {0}) = 0
    <3> DEFINE all == Lows \cup {0}
    <3>1. 0 \in all /\ \A x \in all : x \in Nat /\ 0 <= x
      BY <2>4
    <3> HIDE DEF all
    <3>2. Min(all) \in all /\ \A x \in all : Min(all) <= x
      BY <3>1 DEF Min
    <3>3. Min(all) = 0
      BY <3>1, <3>2
    <3> QED  BY <3>3 DEF all
  <2>9. Max(Highs) \in Nat
    BY <2>4, <2>6
  <2>10. RangeValue(range) = Max(Highs) - 0
    BY <2>1, <2>7, <2>8 DEF RangeValue
  <2> QED  BY <1>3, <2>10 DEF Highs
<1> QED  BY <1>1, <1>2, <1>3

\* Range answers with the extrema of the last candles, of whatever number.
THEOREM RingShowsWindow == Spec => []RangeIsWindow
BY IndicatorsInvariant, RangeShowsWindow, PTL

LEMMA WarmInState ==
  ASSUME RsiPeriod >= 2, IndicatorsInv
  PROVE  MaxPeriodWarmsUp
<1> SUFFICES ASSUME Len(seen) >= MaxPeriod
             PROVE  /\ 0 \notin Range(range.low)
                    /\ \A hour \in Ring(CycleSize) :
                          cyclic.gain[hour].has_value /\ cyclic.loss[hour].has_value
  BY DEF MaxPeriodWarmsUp
<1> DEFINE n == Len(seen)
<1>1. /\ n \in Nat /\ RingSize \in Nat \ {0} /\ CycleSize \in Nat \ {0} /\ RsiPeriod \in Nat
      /\ DOMAIN seen = 1..n /\ \A k \in 1..n : seen[k] \in Candles
  BY IndicatorsAssumption DEF IndicatorsInv, SeenInv
<1>2. n >= RingSize /\ n >= RsiPeriod * CycleSize
  <2>1. PICK p : p = RsiPeriod * CycleSize
    OBVIOUS
  <2>2. p \in Nat
    BY <1>1, <2>1
  <2>3. \E x \in {RingSize, p} : \A y \in {RingSize, p} : x >= y
    BY <1>1, <2>2
  <2>4. MaxPeriod \in {RingSize, p} /\ \A y \in {RingSize, p} : MaxPeriod >= y
    BY <2>1, <2>3 DEF MaxPeriod, PeriodInCandles, Max
  <2> QED  BY <1>1, <2>1, <2>2, <2>4
<1>3. 0 \notin Range(range.low)
  <2>1. Range(range.low) = {seen[k].low : k \in Window(RingSize)}
    BY <1>2, RingIsShown
  <2>2. \A k \in Window(RingSize) : seen[k].low # 0
    BY <1>1, CandleFields DEF Window
  <2> QED  BY <2>1, <2>2
<1>4. ASSUME NEW hour \in Ring(CycleSize)
      PROVE  cyclic.gain[hour].has_value /\ cyclic.loss[hour].has_value
  <2>1. Days(hour) >= 2 /\ Days(hour) \in Nat
    <3>1. Visits(hour, CycleSize, n) >= 2 /\ Visits(hour, CycleSize, n) \in Nat
      BY <1>1, <1>2, TwoRounds, VisitsNext DEF Ring
    <3> QED  BY <3>1 DEF Days
  <2>2. cyclic.gain[hour] = GainOf(hour) /\ cyclic.loss[hour] = LossOf(hour)
    BY DEF IndicatorsInv, CyclicInv
  <2>3. ~(Days(hour) < 2)
    BY <2>1
  <2> QED  BY <2>2, <2>3 DEF GainOf, LossOf, Averaged
<1> QED  BY <1>3, <1>4

\* max_period candles are enough for all indicators, provided that momentum's index has
\* a period of two or more: with a period of one it asks for a single day, and no hour
\* has a change by then.
THEOREM WarmedUp ==
  ASSUME RsiPeriod >= 2
  PROVE  Spec => []MaxPeriodWarmsUp
<1>1. IndicatorsInv => MaxPeriodWarmsUp
  BY WarmInState
<1> QED  BY <1>1, IndicatorsInvariant, PTL
============================================================================
