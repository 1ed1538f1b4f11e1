------------------------------ MODULE SumProofs ------------------------------
(***************************************************************************)
(* Sums over finite sets of indices, SumFunctionOnSet of the community     *)
(* modules, for the proofs about the counters and about the benchmark.     *)
(***************************************************************************)
EXTENDS Integers, Functions, FiniteSetTheorems, WellFoundedInduction, TLAPS

\* The facts about finite sets and ranges, for modules that extend others with
\* theirs.
LEMMA FiniteSetsGrow ==
  /\ IsFiniteSet({})
  /\ \A S, x : IsFiniteSet(S) => IsFiniteSet(S \cup {x})
  /\ \A S, T : IsFiniteSet(S) /\ T \subseteq S => IsFiniteSet(T)
BY FS_EmptySet, FS_AddElement, FS_Subset

LEMMA CardinalityFacts ==
  /\ \A n \in Nat : IsFiniteSet(1 .. n)
  /\ \A x : Cardinality({x}) = 1
  /\ \A S : IsFiniteSet(S) => Cardinality(S) \in Nat /\ (Cardinality(S) = 0 <=> S = {})
  /\ \A S, T : IsFiniteSet(S) /\ T \subseteq S =>
       /\ Cardinality(T) <= Cardinality(S)
       /\ Cardinality(T) = Cardinality(S) => T = S
<1>1. \A n \in Nat : IsFiniteSet(1 .. n)
  BY FS_Interval
<1>2. \A S : IsFiniteSet(S) => Cardinality(S) \in Nat /\ (Cardinality(S) = 0 <=> S = {})
  BY FS_CardinalityType, FS_EmptySet
<1>3. ASSUME NEW S, NEW T, IsFiniteSet(S), T \subseteq S
      PROVE  /\ Cardinality(T) <= Cardinality(S)
             /\ Cardinality(T) = Cardinality(S) => T = S
  <2>1. T \in SUBSET S
    BY <1>3
  <2> QED
    BY <1>3, <2>1, FS_Subset
<1> QED
  BY <1>1, <1>2, <1>3, FS_Singleton

\* How many there are in a set with one more or one less, in an interval, and in
\* a union.
LEMMA CardinalityRules ==
  /\ \A S, x : IsFiniteSet(S) =>
       /\ IsFiniteSet(S \cup {x})
       /\ Cardinality(S \cup {x}) = IF x \in S THEN Cardinality(S) ELSE Cardinality(S) + 1
  /\ \A a, b \in Int :
       IsFiniteSet(a .. b) /\ Cardinality(a .. b) = IF a > b THEN 0 ELSE b - a + 1
  /\ \A S, T : IsFiniteSet(S) /\ IsFiniteSet(T) /\ S \cap T = {} =>
       /\ IsFiniteSet(S \cup T)
       /\ Cardinality(S \cup T) = Cardinality(S) + Cardinality(T)
<1>1. ASSUME NEW S, NEW x, IsFiniteSet(S)
      PROVE  /\ IsFiniteSet(S \cup {x})
             /\ Cardinality(S \cup {x}) = IF x \in S THEN Cardinality(S) ELSE Cardinality(S) + 1
  BY <1>1, FS_AddElement
<1>2. ASSUME NEW a \in Int, NEW b \in Int
      PROVE  IsFiniteSet(a .. b) /\ Cardinality(a .. b) = IF a > b THEN 0 ELSE b - a + 1
  BY FS_Interval
<1>3. ASSUME NEW S, NEW T, IsFiniteSet(S), IsFiniteSet(T), S \cap T = {}
      PROVE  /\ IsFiniteSet(S \cup T)
             /\ Cardinality(S \cup T) = Cardinality(S) + Cardinality(T)
  <2>1. Cardinality(S \cup T) = Cardinality(S) + Cardinality(T) - Cardinality(S \cap T)
    BY <1>3, FS_Union
  <2>2. Cardinality(S \cap T) = 0 /\ Cardinality(S) \in Nat /\ Cardinality(T) \in Nat
    BY <1>3, FS_EmptySet, FS_CardinalityType
  <2> QED
    BY <1>3, <2>1, <2>2, FS_Union
<1> QED
  BY <1>1, <1>2, <1>3

LEMMA RangeIs == \A f : Range(f) = {f[x] : x \in DOMAIN f}
BY DEF Range

\* The index a sum goes on with.
First(s) == CHOOSE x \in s : TRUE

\* One unfolding of the sum of f over s, by way of g.
Unfolded(f, g, s) == IF s = {} THEN 0 ELSE f[First(s)] + g[s \ {First(s)}]

\* g is the sum of f over every subset of S.
IsSum(f, S, g) == g = [s \in SUBSET S |-> Unfolded(f, g, s)]

LEMMA SumIsChosen ==
  ASSUME NEW f, NEW S
  PROVE  SumFunctionOnSet(f, S) = (CHOOSE g : IsSum(f, S, g))[S]
BY Zenon DEF SumFunctionOnSet, FoldFunctionOnSet, MapThenFoldSet, IsSum, Unfolded, First

\* A set of numbers that is not empty has a least.
LEMMA LeastNumber ==
  ASSUME NEW T, T \subseteq Nat, T # {}
  PROVE  \E m \in T : \A n \in T : m <= n
<1>1. PICK m \in T : \A n \in T : ~ (<<n, m>> \in OpToRel(<, Nat))
  BY WFMin, NatLessThanWellFounded
<1>2. \A n \in T : ~ (n < m)
  BY <1>1 DEF OpToRel
<1> QED
  BY <1>2

\* Induction over the numbers, in terms of a set.
LEMMA SetInduction ==
  ASSUME NEW T, 0 \in T, \A n \in Nat : n \in T => n + 1 \in T
  PROVE  Nat \subseteq T
<1> DEFINE Missing == {n \in Nat : n \notin T}
<1> SUFFICES ASSUME Missing # {} PROVE FALSE
  OBVIOUS
<1>1. Missing \subseteq Nat
  OBVIOUS
<1> HIDE DEF Missing
<1>2. PICK m \in Missing : \A n \in Missing : m <= n
  BY <1>1, LeastNumber
<1>3. m \in Nat /\ m \notin T /\ m # 0
  BY <1>2 DEF Missing
<1>4. m - 1 \in Nat /\ m - 1 \in T
  BY <1>2, <1>3 DEF Missing
<1> QED
  BY <1>3, <1>4

\* There is such a g, by induction on the size of the sets it is defined on.
LEMMA SumExists ==
  ASSUME NEW f, NEW S, IsFiniteSet(S)
  PROVE  \E g : IsSum(f, S, g)
<1> DEFINE Small(n) == {s \in SUBSET S : Cardinality(s) <= n}
           SumTo(n, g) == g = [s \in Small(n) |-> Unfolded(f, g, s)]
<1>1. \A s \in SUBSET S : IsFiniteSet(s) /\ Cardinality(s) \in Nat /\ Cardinality(s) <= Cardinality(S)
  BY FS_Subset, FS_CardinalityType
<1>2. Cardinality(S) \in Nat
  BY FS_CardinalityType
<1>3. \A s \in SUBSET S : s # {} => First(s) \in s
  BY DEF First
<1>4. SumTo(0, [s \in Small(0) |-> 0])
  <2>1. \A s \in Small(0) : s = {}
    BY <1>1, FS_EmptySet
  <2> QED
    BY <2>1 DEF Unfolded
<1>5. ASSUME NEW n \in Nat, NEW g, SumTo(n, g)
      PROVE  SumTo(n + 1, [s \in Small(n + 1) |-> Unfolded(f, g, s)])
  <2> DEFINE h == [s \in Small(n + 1) |-> Unfolded(f, g, s)]
  <2>1. ASSUME NEW s \in Small(n + 1)
        PROVE  Unfolded(f, g, s) = Unfolded(f, h, s)
    <3>1. CASE s = {}
      BY <3>1 DEF Unfolded
    <3>2. CASE s # {}
      <4> DEFINE t == s \ {First(s)}
      <4>1. First(s) \in s /\ IsFiniteSet(s) /\ t \in SUBSET S
        BY <1>1, <1>3, <3>2
      <4>2. Cardinality(t) = Cardinality(s) - 1
        BY <4>1, FS_RemoveElement
      <4>3. t \in Small(n) /\ t \in Small(n + 1)
        BY <1>1, <4>1, <4>2
      <4>4. g[t] = Unfolded(f, g, t)
        BY <1>5, <4>3
      <4>5. h[t] = Unfolded(f, g, t)
        BY <4>3
      <4> HIDE DEF h, t
      <4> QED
        BY <3>2, <4>4, <4>5 DEF Unfolded, t
    <3> QED
      BY <3>1, <3>2
  <2> QED
    BY <2>1
<1> HIDE DEF SumTo
<1>6. \A n \in Nat : \E g : SumTo(n, g)
  <2> DEFINE Has == {n \in Nat : \E g : SumTo(n, g)}
  <2>1. 0 \in Has
    BY <1>4
  <2>2. ASSUME NEW n \in Nat, n \in Has PROVE n + 1 \in Has
    <3>1. PICK g : SumTo(n, g)
      BY <2>2
    <3>2. SumTo(n + 1, [s \in Small(n + 1) |-> Unfolded(f, g, s)])
      BY <1>5, <3>1
    <3>3. \E h : SumTo(n + 1, h)
      BY <3>2
    <3> QED
      BY <3>3
  <2> HIDE DEF Has
  <2>3. Nat \subseteq Has
    BY <2>1, <2>2, SetInduction
  <2> QED
    BY <2>3 DEF Has
<1>7. PICK g : SumTo(Cardinality(S), g)
  BY <1>2, <1>6
<1>8. Small(Cardinality(S)) = SUBSET S
  BY <1>1
<1> QED
  BY <1>7, <1>8 DEF IsSum, SumTo

\* What is added up is each subset's own sum, whatever set it is taken from.
LEMMA SumOfSubset ==
  ASSUME NEW f, NEW S, IsFiniteSet(S), NEW U, U \subseteq S, NEW g, IsSum(f, S, g)
  PROVE  g[U] = SumFunctionOnSet(f, U)
<1>1. IsFiniteSet(U) /\ Cardinality(U) \in Nat
  BY FS_Subset, FS_CardinalityType
<1>2. PICK h : IsSum(f, U, h) /\ SumFunctionOnSet(f, U) = h[U]
  BY <1>1, SumExists, SumIsChosen
<1> DEFINE Agree == {n \in Nat : \A s \in SUBSET U : Cardinality(s) = n => g[s] = h[s]}
<1>3. \A s \in SUBSET U : /\ IsFiniteSet(s) /\ Cardinality(s) \in Nat
                          /\ g[s] = Unfolded(f, g, s) /\ h[s] = Unfolded(f, h, s)
  BY <1>1, <1>2, FS_Subset, FS_CardinalityType DEF IsSum
<1>4. 0 \in Agree
  <2>1. ASSUME NEW s \in SUBSET U, Cardinality(s) = 0 PROVE g[s] = h[s]
    BY <1>3, <2>1, FS_EmptySet DEF Unfolded
  <2> QED
    BY <2>1
<1>5. ASSUME NEW n \in Nat, n \in Agree PROVE n + 1 \in Agree
  <2>1. ASSUME NEW s \in SUBSET U, Cardinality(s) = n + 1 PROVE g[s] = h[s]
    <3>1. s # {} /\ First(s) \in s
      BY <2>1, FS_EmptySet DEF First
    <3> DEFINE t == s \ {First(s)}
    <3>2. t \in SUBSET U /\ Cardinality(t) = Cardinality(s) - 1
      BY <1>3, <3>1, FS_RemoveElement
    <3>3. g[t] = h[t]
      BY <1>5, <2>1, <3>2
    <3> HIDE DEF t
    <3> QED
      BY <1>3, <2>1, <3>1, <3>3 DEF Unfolded, t
  <2> QED
    BY <2>1
<1> HIDE DEF Agree
<1>6. Nat \subseteq Agree
  BY <1>4, <1>5, SetInduction
<1>7. g[U] = h[U]
  BY <1>1, <1>6 DEF Agree
<1> QED
  BY <1>2, <1>7

\* The recursion of the sum.
LEMMA SumUnfolds ==
  ASSUME NEW f, NEW S, IsFiniteSet(S)
  PROVE  SumFunctionOnSet(f, S) =
           IF S = {} THEN 0 ELSE f[First(S)] + SumFunctionOnSet(f, S \ {First(S)})
<1>1. PICK g : IsSum(f, S, g) /\ SumFunctionOnSet(f, S) = g[S]
  BY SumExists, SumIsChosen
<1>2. g[S] = Unfolded(f, g, S)
  BY <1>1 DEF IsSum
<1>3. g[S \ {First(S)}] = SumFunctionOnSet(f, S \ {First(S)})
  BY <1>1, SumOfSubset
<1> QED
  BY <1>1, <1>2, <1>3 DEF Unfolded

\* Sums of whole numbers: the type, and any index taken out first.
LEMMA SumFacts ==
  ASSUME NEW f, NEW S, IsFiniteSet(S), \A x \in S : f[x] \in Int
  PROVE  /\ SumFunctionOnSet(f, S) \in Int
         /\ S = {} => SumFunctionOnSet(f, S) = 0
         /\ \A x \in S : SumFunctionOnSet(f, S) = f[x] + SumFunctionOnSet(f, S \ {x})
<1> DEFINE V(s) == SumFunctionOnSet(f, s)
           Typed == {n \in Nat : \A s \in SUBSET S : Cardinality(s) <= n =>
                       /\ V(s) \in Int
                       /\ \A x \in s : V(s) = f[x] + V(s \ {x})}
<1>0. \A s \in SUBSET S : IsFiniteSet(s) /\ Cardinality(s) \in Nat
  BY FS_Subset, FS_CardinalityType
<1>1. \A s \in SUBSET S : /\ IsFiniteSet(s) /\ Cardinality(s) \in Nat
                          /\ s = {} => V(s) = 0
                          /\ s # {} => First(s) \in s /\ V(s) = f[First(s)] + V(s \ {First(s)})
  BY SumUnfolds, FS_Subset, FS_CardinalityType DEF First
<1>2. \A s \in SUBSET S, x \in S : x \in s => Cardinality(s \ {x}) = Cardinality(s) - 1
  BY <1>1, FS_RemoveElement
<1> HIDE DEF V
<1>3. 0 \in Typed
  <2>1. ASSUME NEW s \in SUBSET S, Cardinality(s) <= 0 PROVE s = {} /\ V(s) = 0
    <3>1. Cardinality(s) = 0
      BY <1>0, <2>1
    <3> QED
      BY <1>1, <3>1, FS_EmptySet
  <2> QED
    BY <2>1
<1>4. ASSUME NEW n \in Nat, n \in Typed PROVE n + 1 \in Typed
  <2>1. ASSUME NEW s \in SUBSET S, Cardinality(s) <= n + 1, s # {}
        PROVE  V(s) \in Int /\ \A x \in s : V(s) = f[x] + V(s \ {x})
    <3> DEFINE c == First(s)
    <3>2. c \in s /\ V(s) = f[c] + V(s \ {c})
      BY <1>1, <2>1
    <3> HIDE DEF c
    <3>3. \A x \in s : s \ {x} \in SUBSET S /\ Cardinality(s \ {x}) <= n
      <4> TAKE x \in s
      <4>1. s \ {x} \in SUBSET S /\ Cardinality(s \ {x}) = Cardinality(s) - 1
        BY <1>2
      <4> QED
        BY <1>0, <2>1, <4>1
    <3>4. \A x \in s : V(s \ {x}) \in Int /\ \A y \in s \ {x} : V(s \ {x}) = f[y] + V((s \ {x}) \ {y})
      BY <1>4, <3>3
    <3>5. V(s) \in Int
      BY <3>2, <3>4
    <3>6. ASSUME NEW x \in s, x # c PROVE V(s) = f[x] + V(s \ {x})
      <4> DEFINE rest == (s \ {c}) \ {x}
      <4>1. rest = (s \ {x}) \ {c}
        OBVIOUS
      <4>2. V(s \ {c}) = f[x] + V(rest)
        BY <3>2, <3>4, <3>6
      <4>3. V(s \ {x}) = f[c] + V(rest)
        BY <3>2, <3>4, <3>6, <4>1
      <4>4. V(rest) \in Int
        <5>1. rest \in SUBSET S /\ Cardinality(rest) <= n
          <6>1. s \ {c} \in SUBSET S /\ x \in s \ {c} /\ Cardinality(s \ {c}) <= n
            BY <3>2, <3>3, <3>6
          <6>2. Cardinality(rest) = Cardinality(s \ {c}) - 1
            BY <1>2, <6>1
          <6> QED
            BY <1>0, <6>1, <6>2
        <5> QED
          BY <1>4, <5>1
      <4> HIDE DEF rest
      <4> QED
        BY <3>2, <4>2, <4>3, <4>4
    <3> QED
      BY <3>2, <3>5, <3>6
  <2>2. V({}) = 0
    <3>1. {} \in SUBSET S
      OBVIOUS
    <3> QED
      BY <1>1, <3>1
  <2> QED
    BY <2>1, <2>2
<1> HIDE DEF Typed
<1>5. Nat \subseteq Typed
  BY <1>3, <1>4, SetInduction
<1>6. S \in SUBSET S /\ Cardinality(S) \in Typed
  BY <1>1, <1>5
<1>7. V(S) \in Int /\ \A x \in S : V(S) = f[x] + V(S \ {x})
  BY <1>1, <1>6 DEF Typed
<1>8. S = {} => V(S) = 0
  BY <1>1, <1>6
<1> QED
  BY <1>7, <1>8 DEF V

\* A sum depends on the values at its indices only.
LEMMA SumSame ==
  ASSUME NEW f, NEW g, NEW S, IsFiniteSet(S), \A x \in S : f[x] \in Int /\ g[x] = f[x]
  PROVE  SumFunctionOnSet(f, S) = SumFunctionOnSet(g, S)
<1> DEFINE V(s) == SumFunctionOnSet(f, s)
           W(s) == SumFunctionOnSet(g, s)
           Agree == {n \in Nat : \A s \in SUBSET S : Cardinality(s) = n => V(s) = W(s)}
<1>1. \A s \in SUBSET S : IsFiniteSet(s) /\ Cardinality(s) \in Nat
  BY FS_Subset, FS_CardinalityType
<1>2. \A s \in SUBSET S : /\ s = {} => V(s) = W(s)
                          /\ \A x \in s : V(s) = f[x] + V(s \ {x}) /\ W(s) = f[x] + W(s \ {x})
  <2> TAKE s \in SUBSET S
  <2>1. \A x \in s : f[x] \in Int /\ g[x] \in Int /\ g[x] = f[x]
    OBVIOUS
  <2>2. IsFiniteSet(s)
    BY <1>1
  <2>3. s = {} => V(s) = 0 /\ W(s) = 0
    BY <2>1, <2>2, SumFacts
  <2>4. \A x \in s : V(s) = f[x] + V(s \ {x}) /\ W(s) = g[x] + W(s \ {x})
    BY <2>1, <2>2, SumFacts
  <2> QED
    BY <2>1, <2>3, <2>4
<1> HIDE DEF V, W
<1>3. 0 \in Agree
  BY <1>1, <1>2, FS_EmptySet
<1>4. ASSUME NEW n \in Nat, n \in Agree PROVE n + 1 \in Agree
  <2> SUFFICES ASSUME NEW s \in SUBSET S, Cardinality(s) = n + 1 PROVE V(s) = W(s)
    OBVIOUS
  <2>1. PICK x \in s : TRUE
    BY FS_EmptySet
  <2>2. s \ {x} \in SUBSET S /\ Cardinality(s \ {x}) = Cardinality(s) - 1
    BY <1>1, FS_RemoveElement
  <2>3. V(s \ {x}) = W(s \ {x})
    BY <1>4, <2>2
  <2> QED
    BY <1>2, <2>1, <2>3
<1> HIDE DEF Agree
<1>5. Nat \subseteq Agree
  BY <1>3, <1>4, SetInduction
<1>6. S \in SUBSET S /\ Cardinality(S) \in Agree
  BY <1>1, <1>5
<1>7. V(S) = W(S)
  BY <1>6 DEF Agree
<1> QED
  BY <1>7 DEF V, W

\* One value more, or another value at one index.
LEMMA SumWith ==
  ASSUME NEW f, NEW g, NEW S, IsFiniteSet(S), NEW x,
         \A y \in S : f[y] \in Int, g[x] \in Int, \A y \in S \ {x} : g[y] = f[y]
  PROVE  SumFunctionOnSet(g, S \cup {x}) =
           SumFunctionOnSet(f, S) - (IF x \in S THEN f[x] ELSE 0) + g[x]
<1> DEFINE T == S \cup {x}
           R == S \ {x}
<1>1. IsFiniteSet(T) /\ IsFiniteSet(R) /\ T \ {x} = R /\ x \in T
  BY FS_AddElement, FS_RemoveElement
<1>2. \A y \in T : g[y] \in Int
  OBVIOUS
<1>3. SumFunctionOnSet(g, T) = g[x] + SumFunctionOnSet(g, R)
  <2> HIDE DEF T, R
  <2> QED
    BY <1>1, <1>2, SumFacts
<1>4. SumFunctionOnSet(f, R) = SumFunctionOnSet(g, R) /\ SumFunctionOnSet(f, R) \in Int
  <2>1. \A y \in R : f[y] \in Int /\ g[y] = f[y]
    OBVIOUS
  <2> HIDE DEF R
  <2> QED
    BY <1>1, <2>1, SumFacts, SumSame
<1>5. SumFunctionOnSet(f, S) = (IF x \in S THEN f[x] ELSE 0) + SumFunctionOnSet(f, R)
  <2>1. CASE x \in S
    BY <2>1, SumFacts
  <2>2. CASE x \notin S
    <3>1. R = S
      BY <2>2
    <3> HIDE DEF R
    <3> QED
      BY <1>4, <2>2, <3>1
  <2> QED
    BY <2>1, <2>2
<1>6. (IF x \in S THEN f[x] ELSE 0) \in Int
  OBVIOUS
<1> HIDE DEF R
<1> QED
  BY <1>3, <1>4, <1>5, <1>6

\* A greater value everywhere makes a greater sum.
LEMMA SumGrowsWith ==
  ASSUME NEW f, NEW g, NEW S, IsFiniteSet(S),
         \A x \in S : f[x] \in Int /\ g[x] \in Int /\ f[x] <= g[x]
  PROVE  SumFunctionOnSet(f, S) <= SumFunctionOnSet(g, S)
<1> DEFINE V(s) == SumFunctionOnSet(f, s)
           W(s) == SumFunctionOnSet(g, s)
           Less == {n \in Nat : \A s \in SUBSET S : Cardinality(s) = n => V(s) <= W(s)}
<1>1. \A s \in SUBSET S : IsFiniteSet(s) /\ Cardinality(s) \in Nat
  BY FS_Subset, FS_CardinalityType
<1>2. \A s \in SUBSET S :
        /\ V(s) \in Int /\ W(s) \in Int /\ (s = {} => V(s) = 0 /\ W(s) = 0)
        /\ \A x \in s : V(s) = f[x] + V(s \ {x}) /\ W(s) = g[x] + W(s \ {x})
  <2> TAKE s \in SUBSET S
  <2>1. \A x \in s : f[x] \in Int /\ g[x] \in Int
    OBVIOUS
  <2>2. IsFiniteSet(s)
    BY <1>1
  <2>3. V(s) \in Int /\ (s = {} => V(s) = 0) /\ \A x \in s : V(s) = f[x] + V(s \ {x})
    BY <2>1, <2>2, SumFacts
  <2>4. W(s) \in Int /\ (s = {} => W(s) = 0) /\ \A x \in s : W(s) = g[x] + W(s \ {x})
    BY <2>1, <2>2, SumFacts
  <2> QED
    BY <2>3, <2>4
<1> HIDE DEF V, W
<1>3. 0 \in Less
  BY <1>1, <1>2, FS_EmptySet
<1>4. ASSUME NEW n \in Nat, n \in Less PROVE n + 1 \in Less
  <2> SUFFICES ASSUME NEW s \in SUBSET S, Cardinality(s) = n + 1 PROVE V(s) <= W(s)
    OBVIOUS
  <2>1. PICK x \in s : TRUE
    BY FS_EmptySet
  <2>2. s \ {x} \in SUBSET S /\ Cardinality(s \ {x}) = Cardinality(s) - 1
    BY <1>1, FS_RemoveElement
  <2>3. V(s \ {x}) <= W(s \ {x})
    BY <1>4, <2>2
  <2>4. V(s \ {x}) \in Int /\ W(s \ {x}) \in Int /\ f[x] \in Int /\ g[x] \in Int /\ f[x] <= g[x]
    BY <1>2, <2>2
  <2> QED
    BY <1>2, <2>1, <2>3, <2>4
<1> HIDE DEF Less
<1>5. Nat \subseteq Less
  BY <1>3, <1>4, SetInduction
<1>6. S \in SUBSET S /\ Cardinality(S) \in Less
  BY <1>1, <1>5
<1>7. V(S) <= W(S)
  BY <1>6 DEF Less
<1> QED
  BY <1>7 DEF V, W

\* The sum of equal values is their number times the value.
LEMMA SumOfEqual ==
  ASSUME NEW c \in Nat, NEW S, IsFiniteSet(S)
  PROVE  SumFunctionOnSet([x \in S |-> c], S) = Cardinality(S) * c
<1> DEFINE f == [x \in S |-> c]
           V(s) == SumFunctionOnSet(f, s)
           Product == {n \in Nat : \A s \in SUBSET S : Cardinality(s) = n => V(s) = n * c}
<1>1. \A s \in SUBSET S : IsFiniteSet(s) /\ Cardinality(s) \in Nat
  BY FS_Subset, FS_CardinalityType
<1>2. \A s \in SUBSET S : /\ s = {} => V(s) = 0
                          /\ \A x \in s : V(s) = c + V(s \ {x})
  <2> TAKE s \in SUBSET S
  <2>1. \A x \in s : f[x] \in Int /\ f[x] = c
    OBVIOUS
  <2>2. IsFiniteSet(s)
    BY <1>1
  <2> HIDE DEF f
  <2> QED
    BY <2>1, <2>2, SumFacts
<1> HIDE DEF V
<1>3. 0 \in Product
  <2>1. 0 * c = 0
    OBVIOUS
  <2> QED
    BY <1>1, <1>2, <2>1, FS_EmptySet
<1>4. ASSUME NEW n \in Nat, n \in Product PROVE n + 1 \in Product
  <2> SUFFICES ASSUME NEW s \in SUBSET S, Cardinality(s) = n + 1 PROVE V(s) = (n + 1) * c
    OBVIOUS
  <2>1. PICK x \in s : TRUE
    BY FS_EmptySet
  <2>2. s \ {x} \in SUBSET S /\ Cardinality(s \ {x}) = Cardinality(s) - 1
    BY <1>1, FS_RemoveElement
  <2>3. V(s \ {x}) = n * c
    BY <1>4, <2>2
  <2>4. (n + 1) * c = c + n * c
    OBVIOUS
  <2> QED
    BY <1>2, <2>1, <2>3, <2>4
<1> HIDE DEF Product
<1>5. Nat \subseteq Product
  BY <1>3, <1>4, SetInduction
<1>6. S \in SUBSET S /\ Cardinality(S) \in Product
  BY <1>1, <1>5
<1>7. V(S) = Cardinality(S) * c
  BY <1>6 DEF Product
<1> QED
  BY <1>7 DEF V

\* Numbers with a finite index have a bound: their sum.
LEMMA SumBounds ==
  ASSUME NEW f, NEW S, IsFiniteSet(S), \A x \in S : f[x] \in Nat
  PROVE  /\ SumFunctionOnSet(f, S) \in Nat
         /\ \A x \in S : f[x] <= SumFunctionOnSet(f, S)
<1>1. ASSUME NEW s \in SUBSET S
      PROVE  SumFunctionOnSet(f, s) \in Nat
  <2> DEFINE z == [x \in s |-> 0]
  <2>1. IsFiniteSet(s) /\ Cardinality(s) \in Nat
    BY FS_Subset, FS_CardinalityType
  <2>2. SumFunctionOnSet(z, s) = 0
    <3>1. SumFunctionOnSet(z, s) = Cardinality(s) * 0
      BY <2>1, SumOfEqual
    <3> QED
      BY <2>1, <3>1
  <2>3. \A x \in s : z[x] \in Int /\ f[x] \in Int /\ z[x] <= f[x]
    OBVIOUS
  <2> HIDE DEF z
  <2>4. SumFunctionOnSet(z, s) <= SumFunctionOnSet(f, s)
    BY <2>1, <2>3, SumGrowsWith
  <2>5. SumFunctionOnSet(f, s) \in Int
    BY <2>1, <2>3, SumFacts
  <2> QED
    BY <2>2, <2>4, <2>5
<1>2. \A x \in S : SumFunctionOnSet(f, S) = f[x] + SumFunctionOnSet(f, S \ {x})
  BY SumFacts
<1>3. /\ SumFunctionOnSet(f, S) \in Nat
      /\ \A x \in S : SumFunctionOnSet(f, S \ {x}) \in Nat
  <2>1. S \in SUBSET S /\ \A x \in S : S \ {x} \in SUBSET S
    OBVIOUS
  <2> QED
    BY <1>1, <2>1
<1>4. ASSUME NEW x \in S PROVE f[x] <= SumFunctionOnSet(f, S)
  <2> DEFINE rest == SumFunctionOnSet(f, S \ {x})
             all == SumFunctionOnSet(f, S)
  <2>1. all = f[x] + rest /\ rest \in Nat /\ f[x] \in Nat
    BY <1>2, <1>3
  <2> HIDE DEF rest, all
  <2>2. f[x] <= all
    BY <2>1
  <2> QED
    BY <2>2 DEF all
<1> QED
  BY <1>3, <1>4

\* A sum in which one value has changed.
LEMMA SumChanged ==
  ASSUME NEW f, NEW g, NEW S, IsFiniteSet(S), NEW x, x \in S,
         \A y \in S : f[y] \in Nat /\ g[y] \in Nat, \A y \in S \ {x} : g[y] = f[y]
  PROVE  /\ SumFunctionOnSet(f, S) \in Nat
         /\ SumFunctionOnSet(g, S) = SumFunctionOnSet(f, S) - f[x] + g[x]
<1>1. S \cup {x} = S
  OBVIOUS
<1>2. (\A y \in S : f[y] \in Int) /\ g[x] \in Int
  OBVIOUS
<1>3. SumFunctionOnSet(g, S \cup {x}) =
        SumFunctionOnSet(f, S) - (IF x \in S THEN f[x] ELSE 0) + g[x]
  BY <1>2, SumWith
<1>4. SumFunctionOnSet(f, S) \in Nat
  BY SumBounds
<1> QED
  BY <1>1, <1>3, <1>4
=============================================================================
