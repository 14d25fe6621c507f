----------------------------- MODULE SumProofs -----------------------------
(***************************************************************************)
(* Facts of arithmetic and of finite sets the proofs of several components *)
(* need. Sums of the values of a function over a finite set: that the sum  *)
(* of the community modules, a recursive function over the subsets, is     *)
(* defined, and what adding an element, joining two sets, changing a value *)
(* or summing in rows does to it. That a function defined step by step or  *)
(* folded from the subsets of a set exists, that a bounded set of numbers  *)
(* has a greatest and a finite one both extremes. Division with its        *)
(* remainder, and the tables of the market rules: the row in force on a    *)
(* day, the tick of a price's tier. Every induction goes through the least *)
(* number of an inhabited set, a first-order fact.                         *)
(***************************************************************************)
EXTENDS MarketRules, FiniteSets, FiniteSetTheorems, WellFoundedInduction, TLAPS

\* Every inhabited set of numbers has a least one.
LEMMA Least ==
    ASSUME NEW T \in SUBSET Nat, T # {}
    PROVE  \E n \in T : \A m \in T : n <= m
  <1> DEFINE R == OpToRel(<, Nat)
  <1>1. \A m, n \in Nat : <<m, n>> \in R <=> m < n
    BY DEF OpToRel
  <1>2. IsWellFoundedOn(R, Nat)
    BY NatLessThanWellFounded
  <1> HIDE DEF R
  <1>3. PICK n \in T : \A m \in T : <<m, n>> \notin R
    BY <1>2, WFMin
  <1>4. ASSUME NEW m \in T PROVE n <= m
    <2>1. ~ (m < n)
      BY <1>1, <1>3
    <2> QED
      BY <2>1
  <1> QED
    BY <1>4

\* Induction, on the set of the numbers that have the property.
LEMMA Naturals ==
    ASSUME NEW P, 0 \in P, \A n \in Nat : n \in P => n + 1 \in P
    PROVE  Nat \subseteq P
  <1> SUFFICES ASSUME Nat \ P # {} PROVE FALSE
    OBVIOUS
  <1>1. PICK n \in Nat \ P : \A m \in Nat \ P : n <= m
    BY Least
  <1>2. n # 0 /\ n - 1 \in Nat
    BY <1>1
  <1>3. n - 1 \in P
    BY <1>1, <1>2
  <1> QED
    BY <1>1, <1>2, <1>3

\* A set of n + 1 elements without one of them has n.
LEMMA OneLess ==
    ASSUME NEW T, IsFiniteSet(T), NEW n \in Nat, Cardinality(T) = n + 1
    PROVE  T # {} /\ \A x \in T : IsFiniteSet(T \ {x}) /\ Cardinality(T \ {x}) = n
  <1>1. T # {}
    BY FS_EmptySet
  <1>2. ASSUME NEW x \in T PROVE IsFiniteSet(T \ {x}) /\ Cardinality(T \ {x}) = n
    BY FS_RemoveElement
  <1> QED
    BY <1>1, <1>2

\* Induction on a finite set, on the set of its subsets that have the property.
LEMMA Subsets ==
    ASSUME NEW S, IsFiniteSet(S), NEW P, {} \in P,
           \A T \in SUBSET S : \A x \in S \ T : T \in P => T \union {x} \in P
    PROVE  S \in P
  <1> DEFINE Good == {n \in Nat : \A T \in SUBSET S : Cardinality(T) = n => T \in P}
  <1>1. \A T \in SUBSET S : IsFiniteSet(T) /\ Cardinality(T) \in Nat
    BY FS_Subset, FS_CardinalityType
  <1>2. 0 \in Good
    BY <1>1, FS_EmptySet
  <1>3. ASSUME NEW n \in Nat, n \in Good PROVE n + 1 \in Good
    <2>1. SUFFICES ASSUME NEW T \in SUBSET S, Cardinality(T) = n + 1 PROVE T \in P
      OBVIOUS
    <2>2. IsFiniteSet(T)
      BY <1>1
    <2>3. PICK x \in T : TRUE
      BY <2>1, <2>2, OneLess
    <2>4. Cardinality(T \ {x}) = n
      BY <2>1, <2>2, OneLess
    <2>5. T \ {x} \in P
      BY <1>3, <2>4
    <2>6. T = (T \ {x}) \union {x}
      OBVIOUS
    <2> QED
      BY <2>5, <2>6
  <1> HIDE DEF Good
  <1>4. Nat \subseteq Good
    BY <1>2, <1>3, Naturals
  <1> QED
    BY <1>1, <1>4 DEF Good

\* A function of the numbers up to n, each value made from the one before.
Steps(g, n, V, start, F) ==
    g \in [0..n -> V] /\ g[0] = start /\ \A i \in 1..n : g[i] = F[<<i, g[i - 1]>>]

\* There is one, whatever the step.
LEMMA StepByStep ==
    ASSUME NEW n \in Nat, NEW V, NEW start \in V, NEW F \in [(1..n) \X V -> V]
    PROVE  \E g : Steps(g, n, V, start, F)
  <1> DEFINE Upto(g, k) == g[0] = start /\ \A i \in 1..k : g[i] = F[<<i, g[i - 1]>>]
             Good == {k \in Nat : k <= n => \E g \in [0..k -> V] : Upto(g, k)}
  <1>1. 0 \in Good
    <2> DEFINE g == [i \in 0..0 |-> start]
    <2>1. g \in [0..0 -> V] /\ Upto(g, 0)
      OBVIOUS
    <2> QED
      BY <2>1
  <1>2. ASSUME NEW k \in Nat, k \in Good PROVE k + 1 \in Good
    <2>1. SUFFICES ASSUME k + 1 <= n PROVE \E g \in [0..k + 1 -> V] : Upto(g, k + 1)
      OBVIOUS
    <2>2. PICK g \in [0..k -> V] : Upto(g, k)
      BY <1>2, <2>1
    <2> DEFINE h == [i \in 0..k + 1 |-> IF i \in 0..k THEN g[i] ELSE F[<<i, g[k]>>]]
    <2>3. g[k] \in V /\ k + 1 \in 1..n /\ F[<<k + 1, g[k]>>] \in V
      BY <2>1
    <2>4. h \in [0..k + 1 -> V]
      BY <2>3
    <2>5. ASSUME NEW i \in 1..k + 1
          PROVE  h[i] = F[<<i, h[i - 1]>>]
      <3>1. CASE i \in 1..k
        <4>1. h[i] = g[i] /\ h[i - 1] = g[i - 1]
          BY <3>1
        <4>2. g[i] = F[<<i, g[i - 1]>>]
          BY <2>2, <3>1
        <4> QED
          BY <4>1, <4>2
      <3>2. CASE i = k + 1
        <4>1. h[i] = F[<<i, g[k]>>] /\ h[i - 1] = g[k]
          BY <3>2
        <4> QED
          BY <4>1
      <3> QED
        BY <3>1, <3>2
    <2>6. h[0] = start
      BY <2>2
    <2> HIDE DEF h
    <2> QED
      BY <2>4, <2>5, <2>6
  <1> HIDE DEF Good
  <1>3. n \in Good
    BY <1>1, <1>2, Naturals
  <1> QED
    BY <1>3 DEF Good, Steps

\* A set of numbers up to m has a greatest one.
LEMMA Greatest ==
    ASSUME NEW m \in Nat, NEW T \in SUBSET (0..m), T # {}
    PROVE  \E n \in T : \A k \in T : k <= n
  <1> DEFINE D == {d \in 0..m : m - d \in T}
  <1>1. D \in SUBSET Nat /\ D # {}
    <2>1. PICK t \in T : TRUE
      OBVIOUS
    <2>2. m - t \in 0..m /\ m - (m - t) = t
      OBVIOUS
    <2>3. m - t \in D
      BY <2>2
    <2> QED
      BY <2>3
  <1>2. PICK d \in D : \A e \in D : d <= e
    BY <1>1, Least
  <1>3. ASSUME NEW k \in T PROVE k <= m - d
    <2>1. m - k \in 0..m /\ m - (m - k) = k
      OBVIOUS
    <2>2. d <= m - k
      BY <1>2, <2>1
    <2> QED
      BY <2>2
  <1> QED
    BY <1>2, <1>3

-----------------------------------------------------------------------------
(* Folds over a set, from which an element is picked each time.            *)

PartsOf(S, n) == {T \in SUBSET S : Cardinality(T) <= n}
FoldStep(base, pick, F, T, g) == IF T = {} THEN base ELSE F[pick[T]][g[T \ {pick[T]}]]

IsFold(g, S, V, base, pick, F) ==
    g \in [SUBSET S -> V] /\ \A T \in SUBSET S : g[T] = FoldStep(base, pick, F, T, g)
Picks(pick, S) == \A T \in SUBSET S : T # {} => pick[T] \in T

\* Induction on a finite set: what holds once some element is put back holds of every part.
LEMMA Peeled ==
    ASSUME NEW S, IsFiniteSet(S), NEW P, {} \in P,
           \A T \in SUBSET S : T # {} => \E x \in T : T \ {x} \in P => T \in P
    PROVE  SUBSET S \subseteq P
  <1> DEFINE Good == {n \in Nat : \A T \in SUBSET S : Cardinality(T) = n => T \in P}
  <1>1. \A T \in SUBSET S : IsFiniteSet(T) /\ Cardinality(T) \in Nat
    BY FS_Subset, FS_CardinalityType
  <1>2. 0 \in Good
    BY <1>1, FS_EmptySet
  <1>3. ASSUME NEW n \in Nat, n \in Good PROVE n + 1 \in Good
    <2>1. SUFFICES ASSUME NEW T \in SUBSET S, Cardinality(T) = n + 1 PROVE T \in P
      OBVIOUS
    <2>2. IsFiniteSet(T)
      BY <1>1
    <2>3. T # {} /\ \A x \in T : Cardinality(T \ {x}) = n
      BY <2>1, <2>2, OneLess
    <2>4. PICK x \in T : T \ {x} \in P => T \in P
      BY <2>3
    <2>5. T \ {x} \in P
      BY <1>3, <2>3
    <2> QED
      BY <2>4, <2>5
  <1> HIDE DEF Good
  <1>4. Nat \subseteq Good
    BY <1>2, <1>3, Naturals
  <1> QED
    BY <1>1, <1>4 DEF Good

\* There is a function on the parts that each part's value is made by, and it is typed.
LEMMA FoldExists ==
    ASSUME NEW S, IsFiniteSet(S), NEW pick, Picks(pick, S),
           NEW V, NEW base \in V, NEW F \in [S -> [V -> V]]
    PROVE  \E g : IsFold(g, S, V, base, pick, F)
  <1> DEFINE Upto(g, n) == \A T \in PartsOf(S, n) : g[T] = FoldStep(base, pick, F, T, g)
             Good == {n \in Nat : \E g \in [PartsOf(S, n) -> V] : Upto(g, n)}
  <1>1. \A T \in SUBSET S : IsFiniteSet(T) /\ Cardinality(T) \in Nat /\ Cardinality(T) <= Cardinality(S)
    BY FS_Subset, FS_CardinalityType
  <1>2. 0 \in Good
    <2> DEFINE g == [T \in PartsOf(S, 0) |-> base]
    <2>1. \A T \in PartsOf(S, 0) : T = {}
      BY <1>1, FS_EmptySet DEF PartsOf
    <2>2. g \in [PartsOf(S, 0) -> V] /\ Upto(g, 0)
      BY <2>1 DEF FoldStep
    <2> QED
      BY <2>2
  <1>3. ASSUME NEW n \in Nat, n \in Good PROVE n + 1 \in Good
    <2>1. PICK g \in [PartsOf(S, n) -> V] : Upto(g, n)
      BY <1>3
    <2> DEFINE h == [T \in PartsOf(S, n + 1) |-> FoldStep(base, pick, F, T, g)]
    <2>2. ASSUME NEW T \in PartsOf(S, n + 1), T # {}
          PROVE  T \ {pick[T]} \in PartsOf(S, n) /\ pick[T] \in S
      <3>1. pick[T] \in T /\ T \in SUBSET S
        BY <2>2 DEF PartsOf, Picks
      <3>2. Cardinality(T \ {pick[T]}) = Cardinality(T) - 1
        BY <1>1, <3>1, FS_RemoveElement
      <3> QED
        BY <1>1, <3>1, <3>2 DEF PartsOf
    <2>3. \A T \in PartsOf(S, n) : T \in PartsOf(S, n + 1) /\ h[T] = g[T]
      BY <1>1, <2>1 DEF PartsOf
    <2>4. \A T \in PartsOf(S, n + 1) : FoldStep(base, pick, F, T, g) = FoldStep(base, pick, F, T, h)
      BY <2>2, <2>3 DEF FoldStep
    <2>5. \A T \in PartsOf(S, n + 1) : FoldStep(base, pick, F, T, g) \in V
      <3>1. SUFFICES ASSUME NEW T \in PartsOf(S, n + 1), T # {}
                     PROVE  F[pick[T]][g[T \ {pick[T]}]] \in V
        BY DEF FoldStep
      <3>2. pick[T] \in S /\ g[T \ {pick[T]}] \in V
        BY <2>1, <2>2, <3>1
      <3> QED
        BY <3>2
    <2>6. h \in [PartsOf(S, n + 1) -> V] /\ Upto(h, n + 1)
      BY <2>4, <2>5
    <2>7. n + 1 \in Nat
      OBVIOUS
    <2> QED
      BY <2>6, <2>7
  <1>4. Cardinality(S) \in Good
    <2> HIDE DEF Good
    <2> QED
      BY <1>2, <1>3, Naturals, FS_CardinalityType
  <1>5. PartsOf(S, Cardinality(S)) = SUBSET S
    BY <1>1 DEF PartsOf
  <1> QED
    BY <1>4, <1>5 DEF IsFold

-----------------------------------------------------------------------------
(* The sum is defined: the function its definition chooses exists.         *)

AnyOf(T) == CHOOSE x \in T : TRUE
SumStep(f, T, g) == IF T = {} THEN 0 ELSE f[AnyOf(T)] + g[T \ {AnyOf(T)}]
SumIter(f, S) == CHOOSE g : g = [T \in SUBSET S |-> SumStep(f, T, g)]

\* The sum is the value of a function on the subsets, built up element by element.
LEMMA SumIsIter ==
    ASSUME NEW f, NEW S
    PROVE  SumFunctionOnSet(f, S) = SumIter(f, S)[S]
  BY DEF SumFunctionOnSet, FoldFunctionOnSet, MapThenFoldSet, SumIter, SumStep, AnyOf

\* What is taken from an inhabited set is in it.
LEMMA AnyIsOne ==
    ASSUME NEW T, T # {}
    PROVE  AnyOf(T) \in T
  BY DEF AnyOf

\* Built up from the smaller subsets.
LEMMA IterExists ==
    ASSUME NEW f, NEW S, IsFiniteSet(S)
    PROVE  \E g : g = [T \in SUBSET S |-> SumStep(f, T, g)]
  <1> DEFINE Good == {n \in Nat : \E g : g = [T \in PartsOf(S, n) |-> SumStep(f, T, g)]}
  <1>1. \A T \in SUBSET S : IsFiniteSet(T) /\ Cardinality(T) \in Nat /\ Cardinality(T) <= Cardinality(S)
    BY FS_Subset, FS_CardinalityType
  <1>2. 0 \in Good
    <2> DEFINE g == [T \in PartsOf(S, 0) |-> 0]
    <2>1. \A T \in PartsOf(S, 0) : T = {}
      BY <1>1, FS_EmptySet DEF PartsOf
    <2>2. \A T \in PartsOf(S, 0) : SumStep(f, T, g) = 0
      BY <2>1 DEF SumStep
    <2>3. g = [T \in PartsOf(S, 0) |-> SumStep(f, T, g)]
      BY <2>2
    <2> QED
      BY <2>3
  <1>3. ASSUME NEW n \in Nat, n \in Good PROVE n + 1 \in Good
    <2>1. PICK g : g = [T \in PartsOf(S, n) |-> SumStep(f, T, g)]
      BY <1>3
    <2> DEFINE h == [T \in PartsOf(S, n + 1) |-> SumStep(f, T, g)]
    <2>2. ASSUME NEW T \in PartsOf(S, n + 1), T # {}
          PROVE  T \ {AnyOf(T)} \in PartsOf(S, n)
      <3>1. Cardinality(T \ {AnyOf(T)}) = Cardinality(T) - 1
        BY <1>1, <2>2, AnyIsOne, FS_RemoveElement DEF PartsOf
      <3> QED
        BY <1>1, <3>1 DEF PartsOf
    <2>3. \A T \in PartsOf(S, n) : T \in PartsOf(S, n + 1) /\ h[T] = g[T]
      BY <1>1, <2>1 DEF PartsOf
    <2>4. \A T \in PartsOf(S, n + 1) : SumStep(f, T, g) = SumStep(f, T, h)
      BY <2>2, <2>3 DEF SumStep
    <2>5. h = [T \in PartsOf(S, n + 1) |-> SumStep(f, T, h)]
      BY <2>4
    <2>6. \E k : k = [T \in PartsOf(S, n + 1) |-> SumStep(f, T, k)]
      BY <2>5
    <2>7. n + 1 \in Nat
      OBVIOUS
    <2> QED
      BY <2>6, <2>7
  <1>4. Cardinality(S) \in Good
    <2> HIDE DEF Good
    <2> QED
      BY <1>2, <1>3, Naturals, FS_CardinalityType
  <1>5. PartsOf(S, Cardinality(S)) = SUBSET S
    BY <1>1 DEF PartsOf
  <1> QED
    BY <1>4, <1>5

\* So the function chosen is one.
LEMMA IterDef ==
    ASSUME NEW f, NEW S, IsFiniteSet(S)
    PROVE  \A T \in SUBSET S : SumIter(f, S)[T] = SumStep(f, T, SumIter(f, S))
  <1>1. SumIter(f, S) = [T \in SUBSET S |-> SumStep(f, T, SumIter(f, S))]
    BY IterExists DEF SumIter
  <1> QED
    BY <1>1

\* A sum does not depend on the set it is part of.
LEMMA IterSame ==
    ASSUME NEW f, NEW S, IsFiniteSet(S), NEW U \in SUBSET S
    PROVE  SumIter(f, S)[U] = SumIter(f, U)[U]
  <1> DEFINE Good == {n \in Nat : \A T \in SUBSET U : Cardinality(T) = n => SumIter(f, S)[T] = SumIter(f, U)[T]}
  <1>1. \A T \in SUBSET S : IsFiniteSet(T) /\ Cardinality(T) \in Nat
    BY FS_Subset, FS_CardinalityType
  <1>2. IsFiniteSet(U)
    BY <1>1
  <1>3. \A T \in SUBSET U : SumIter(f, S)[T] = SumStep(f, T, SumIter(f, S)) /\ SumIter(f, U)[T] = SumStep(f, T, SumIter(f, U))
    BY <1>2, IterDef
  <1>4. 0 \in Good
    <2>1. \A T \in SUBSET U : Cardinality(T) = 0 => T = {}
      BY <1>1, FS_EmptySet
    <2> QED
      BY <1>3, <2>1 DEF SumStep
  <1>5. ASSUME NEW n \in Nat, n \in Good PROVE n + 1 \in Good
    <2>1. SUFFICES ASSUME NEW T \in SUBSET U, Cardinality(T) = n + 1
                   PROVE  SumIter(f, S)[T] = SumIter(f, U)[T]
      OBVIOUS
    <2>2. T # {}
      BY <1>1, <2>1, OneLess
    <2>3. Cardinality(T \ {AnyOf(T)}) = n
      <3>1. IsFiniteSet(T) /\ AnyOf(T) \in T
        BY <1>1, <2>2, AnyIsOne
      <3> QED
        BY <2>1, <3>1, OneLess
    <2>4. SumIter(f, S)[T \ {AnyOf(T)}] = SumIter(f, U)[T \ {AnyOf(T)}]
      BY <1>5, <2>3
    <2> QED
      BY <1>3, <2>2, <2>4 DEF SumStep
  <1> HIDE DEF Good
  <1>6. Nat \subseteq Good
    BY <1>4, <1>5, Naturals
  <1> QED
    BY <1>1, <1>6 DEF Good

-----------------------------------------------------------------------------
(* What sums are.                                                          *)

\* The sum over nothing.
LEMMA SumEmpty ==
    ASSUME NEW f
    PROVE  SumFunctionOnSet(f, {}) = 0
  BY SumIsIter, IterDef, FS_EmptySet DEF SumStep

\* The sum over a set is a value and the sum over the rest.
LEMMA SumAny ==
    ASSUME NEW f, NEW S, IsFiniteSet(S), S # {}
    PROVE  SumFunctionOnSet(f, S) = f[AnyOf(S)] + SumFunctionOnSet(f, S \ {AnyOf(S)})
  <1>1. SumFunctionOnSet(f, S) = SumIter(f, S)[S]
    BY SumIsIter
  <1>2. SumIter(f, S)[S] = f[AnyOf(S)] + SumIter(f, S)[S \ {AnyOf(S)}]
    BY IterDef DEF SumStep
  <1>3. SumIter(f, S)[S \ {AnyOf(S)}] = SumIter(f, S \ {AnyOf(S)})[S \ {AnyOf(S)}]
    BY IterSame
  <1>4. SumIter(f, S \ {AnyOf(S)})[S \ {AnyOf(S)}] = SumFunctionOnSet(f, S \ {AnyOf(S)})
    BY SumIsIter
  <1> QED
    BY <1>1, <1>2, <1>3, <1>4

\* A sum of integers is one.
LEMMA SumInt ==
    ASSUME NEW f, NEW S, IsFiniteSet(S), \A x \in S : f[x] \in Int
    PROVE  SumFunctionOnSet(f, S) \in Int
  <1> DEFINE Good == {n \in Nat : \A T \in SUBSET S : Cardinality(T) = n => SumFunctionOnSet(f, T) \in Int}
  <1>1. \A T \in SUBSET S : IsFiniteSet(T) /\ Cardinality(T) \in Nat
    BY FS_Subset, FS_CardinalityType
  <1>2. 0 \in Good
    <2>1. \A T \in SUBSET S : Cardinality(T) = 0 => T = {}
      BY <1>1, FS_EmptySet
    <2> QED
      BY <2>1, SumEmpty
  <1>3. ASSUME NEW n \in Nat, n \in Good PROVE n + 1 \in Good
    <2>1. SUFFICES ASSUME NEW T \in SUBSET S, Cardinality(T) = n + 1
                   PROVE  SumFunctionOnSet(f, T) \in Int
      OBVIOUS
    <2>2. IsFiniteSet(T) /\ T # {} /\ AnyOf(T) \in T /\ Cardinality(T \ {AnyOf(T)}) = n
      BY <1>1, <2>1, OneLess, AnyIsOne
    <2>3. SumFunctionOnSet(f, T \ {AnyOf(T)}) \in Int
      BY <1>3, <2>2
    <2> QED
      BY <2>2, <2>3, SumAny
  <1> HIDE DEF Good
  <1>4. Nat \subseteq Good
    BY <1>2, <1>3, Naturals
  <1> QED
    BY <1>1, <1>4 DEF Good

\* Whichever element is taken first.
LEMMA SumRemove ==
    ASSUME NEW f, NEW S, IsFiniteSet(S), \A x \in S : f[x] \in Int, NEW e \in S
    PROVE  SumFunctionOnSet(f, S) = f[e] + SumFunctionOnSet(f, S \ {e})
  <1> DEFINE Sum(T) == SumFunctionOnSet(f, T)
             Good == {n \in Nat : \A T \in SUBSET S : Cardinality(T) = n =>
                                     \A x \in T : Sum(T) = f[x] + Sum(T \ {x})}
  <1>1. \A T \in SUBSET S : IsFiniteSet(T) /\ Cardinality(T) \in Nat /\ Sum(T) \in Int
    BY FS_Subset, FS_CardinalityType, SumInt
  <1>2. \A T \in SUBSET S : T # {} => AnyOf(T) \in T /\ Sum(T) = f[AnyOf(T)] + Sum(T \ {AnyOf(T)})
    BY <1>1, SumAny, AnyIsOne
  <1> HIDE DEF Sum
  <1>3. 0 \in Good
    BY <1>1, FS_EmptySet
  <1>4. ASSUME NEW n \in Nat, n \in Good PROVE n + 1 \in Good
    <2>1. SUFFICES ASSUME NEW T \in SUBSET S, Cardinality(T) = n + 1, NEW x \in T
                   PROVE  Sum(T) = f[x] + Sum(T \ {x})
      OBVIOUS
    <2> DEFINE a == AnyOf(T)
    <2>2. IsFiniteSet(T) /\ T # {} /\ a \in T /\ Cardinality(T \ {a}) = n /\ Cardinality(T \ {x}) = n
      BY <1>1, <1>2, <2>1, OneLess
    <2> HIDE DEF a
    <2>3. CASE a = x
      BY <1>2, <2>2, <2>3 DEF a
    <2>4. CASE a # x
      <3>1. Sum(T) = f[a] + Sum(T \ {a})
        BY <1>2, <2>2 DEF a
      <3>2. Sum(T \ {a}) = f[x] + Sum((T \ {a}) \ {x})
        BY <1>4, <2>2, <2>4
      <3>3. Sum(T \ {x}) = f[a] + Sum((T \ {x}) \ {a})
        BY <1>4, <2>2, <2>4
      <3>4. (T \ {a}) \ {x} = (T \ {x}) \ {a}
        OBVIOUS
      <3> DEFINE rest == Sum((T \ {a}) \ {x})
      <3>5. f[a] \in Int /\ f[x] \in Int /\ rest \in Int
        BY <1>1, <2>2
      <3>6. Sum(T) = f[a] + (f[x] + rest) /\ Sum(T \ {x}) = f[a] + rest
        BY <3>1, <3>2, <3>3, <3>4
      <3> HIDE DEF rest
      <3> QED
        BY <3>5, <3>6
    <2> QED
      BY <2>3, <2>4
  <1> HIDE DEF Good
  <1>5. Nat \subseteq Good
    BY <1>3, <1>4, Naturals
  <1>6. \A T \in SUBSET S, x \in S : x \in T => Sum(T) = f[x] + Sum(T \ {x})
    BY <1>1, <1>5 DEF Good
  <1> QED
    BY <1>6 DEF Sum

\* One element more.
LEMMA SumAdd ==
    ASSUME NEW f, NEW S, IsFiniteSet(S), NEW e, e \notin S, \A x \in S \union {e} : f[x] \in Int
    PROVE  SumFunctionOnSet(f, S \union {e}) = f[e] + SumFunctionOnSet(f, S)
  <1>1. IsFiniteSet(S \union {e}) /\ (S \union {e}) \ {e} = S
    BY FS_AddElement
  <1>2. SumFunctionOnSet(f, S \union {e}) = f[e] + SumFunctionOnSet(f, (S \union {e}) \ {e})
    BY <1>1, SumRemove
  <1> QED
    BY <1>1, <1>2

\* Only the values on the set count.
LEMMA SumSame ==
    ASSUME NEW f, NEW g, NEW S, IsFiniteSet(S), \A x \in S : f[x] \in Int /\ f[x] = g[x]
    PROVE  SumFunctionOnSet(f, S) = SumFunctionOnSet(g, S)
  <1> DEFINE P == {T \in SUBSET S : SumFunctionOnSet(f, T) = SumFunctionOnSet(g, T)}
  <1>1. {} \in P
    BY SumEmpty
  <1>2. ASSUME NEW T \in SUBSET S, NEW x \in S \ T, T \in P PROVE T \union {x} \in P
    <2>1. IsFiniteSet(T)
      BY FS_Subset
    <2>2. SumFunctionOnSet(f, T \union {x}) = f[x] + SumFunctionOnSet(f, T)
      BY <2>1, SumAdd
    <2>3. SumFunctionOnSet(g, T \union {x}) = g[x] + SumFunctionOnSet(g, T)
      BY <2>1, SumAdd
    <2> QED
      BY <1>2, <2>2, <2>3
  <1> HIDE DEF P
  <1>3. S \in P
    BY <1>1, <1>2, Subsets
  <1> QED
    BY <1>3 DEF P

\* Values no greater have no greater sum.
LEMMA SumAtMost ==
    ASSUME NEW f, NEW g, NEW S, IsFiniteSet(S),
           \A x \in S : f[x] \in Int /\ g[x] \in Int /\ f[x] <= g[x]
    PROVE  SumFunctionOnSet(f, S) <= SumFunctionOnSet(g, S)
  <1> DEFINE P == {T \in SUBSET S : SumFunctionOnSet(f, T) <= SumFunctionOnSet(g, T)}
  <1>1. {} \in P
    BY SumEmpty
  <1>2. ASSUME NEW T \in SUBSET S, NEW x \in S \ T, T \in P PROVE T \union {x} \in P
    <2>1. IsFiniteSet(T) /\ SumFunctionOnSet(f, T) \in Int /\ SumFunctionOnSet(g, T) \in Int
      BY FS_Subset, SumInt
    <2>2. SumFunctionOnSet(f, T \union {x}) = f[x] + SumFunctionOnSet(f, T)
      BY <2>1, SumAdd
    <2>3. SumFunctionOnSet(g, T \union {x}) = g[x] + SumFunctionOnSet(g, T)
      BY <2>1, SumAdd
    <2>4. f[x] \in Int /\ g[x] \in Int /\ f[x] <= g[x]
      OBVIOUS
    <2>5. SumFunctionOnSet(f, T) <= SumFunctionOnSet(g, T)
      BY <1>2
    <2> QED
      BY <2>1, <2>2, <2>3, <2>4, <2>5
  <1> HIDE DEF P
  <1>3. S \in P
    BY <1>1, <1>2, Subsets
  <1> QED
    BY <1>3 DEF P

\* A sum of nothing but zeros.
LEMMA SumZero ==
    ASSUME NEW f, NEW S, IsFiniteSet(S), \A x \in S : f[x] = 0
    PROVE  SumFunctionOnSet(f, S) = 0
  <1> DEFINE P == {T \in SUBSET S : SumFunctionOnSet(f, T) = 0}
  <1>1. {} \in P
    BY SumEmpty
  <1>2. ASSUME NEW T \in SUBSET S, NEW x \in S \ T, T \in P PROVE T \union {x} \in P
    <2>1. IsFiniteSet(T)
      BY FS_Subset
    <2>2. SumFunctionOnSet(f, T \union {x}) = f[x] + SumFunctionOnSet(f, T)
      BY <2>1, SumAdd
    <2> QED
      BY <1>2, <2>2
  <1> HIDE DEF P
  <1>3. S \in P
    BY <1>1, <1>2, Subsets
  <1> QED
    BY <1>3 DEF P

\* No value negative, no sum negative.
LEMMA SumNat ==
    ASSUME NEW f, NEW S, IsFiniteSet(S), \A x \in S : f[x] \in Nat
    PROVE  SumFunctionOnSet(f, S) \in Nat
  <1> DEFINE zero == [x \in S |-> 0]
  <1>1. SumFunctionOnSet(zero, S) = 0
    BY SumZero
  <1>2. SumFunctionOnSet(zero, S) <= SumFunctionOnSet(f, S)
    BY SumAtMost
  <1>3. SumFunctionOnSet(f, S) \in Int
    BY SumInt
  <1> QED
    BY <1>1, <1>2, <1>3

\* A sum of numbers between two is between so many times the one and the other.
LEMMA SumBetween ==
    ASSUME NEW f, NEW S, IsFiniteSet(S), NEW low \in Int, NEW high \in Int,
           \A x \in S : f[x] \in low..high
    PROVE  /\ SumFunctionOnSet(f, S) \in Int
           /\ Cardinality(S) * low <= SumFunctionOnSet(f, S)
           /\ SumFunctionOnSet(f, S) <= Cardinality(S) * high
  <1> DEFINE Between(T) ==
                /\ SumFunctionOnSet(f, T) \in Int
                /\ Cardinality(T) * low <= SumFunctionOnSet(f, T)
                /\ SumFunctionOnSet(f, T) <= Cardinality(T) * high
             P == {T \in SUBSET S : Between(T)}
  <1>1. {} \in P
    BY SumEmpty, FS_EmptySet
  <1>2. ASSUME NEW T \in SUBSET S, NEW x \in S \ T, T \in P PROVE T \union {x} \in P
    <2> DEFINE c == Cardinality(T)
               sum == SumFunctionOnSet(f, T)
    <2>1. IsFiniteSet(T) /\ c \in Nat /\ Cardinality(T \union {x}) = c + 1
      BY FS_Subset, FS_CardinalityType, FS_AddElement
    <2>2. \A y \in S : f[y] \in Int
      OBVIOUS
    <2>3. SumFunctionOnSet(f, T \union {x}) = f[x] + sum
      BY <2>1, <2>2, SumAdd
    <2>4. sum \in Int /\ c * low <= sum /\ sum <= c * high
      BY <1>2
    <2>5. f[x] \in Int /\ low <= f[x] /\ f[x] <= high
      OBVIOUS
    <2> HIDE DEF c, sum
    <2>6. (c + 1) * low = c * low + low /\ (c + 1) * high = c * high + high /\ c * low \in Int /\ c * high \in Int
      BY <2>1
    <2>7. (c + 1) * low <= f[x] + sum /\ f[x] + sum <= (c + 1) * high /\ f[x] + sum \in Int
      BY <2>4, <2>5, <2>6
    <2>8. Between(T \union {x})
      BY <2>1, <2>3, <2>7
    <2> QED
      BY <2>8
  <1> HIDE DEF P
  <1>3. S \in P
    BY <1>1, <1>2, Subsets
  <1> QED
    BY <1>3 DEF P

\* A set and the rest of what it is part of.
LEMMA SumSplit ==
    ASSUME NEW f, NEW S, IsFiniteSet(S), \A x \in S : f[x] \in Int, NEW U \in SUBSET S
    PROVE  SumFunctionOnSet(f, S) = SumFunctionOnSet(f, U) + SumFunctionOnSet(f, S \ U)
  <1> DEFINE P == {T \in SUBSET S : T \subseteq U =>
                     SumFunctionOnSet(f, S) = SumFunctionOnSet(f, T) + SumFunctionOnSet(f, S \ T)}
  <1>0. \A T \in SUBSET S : IsFiniteSet(T) /\ SumFunctionOnSet(f, T) \in Int
    BY FS_Subset, SumInt
  <1>1. {} \in P
    <2>1. S \ {} = S
      OBVIOUS
    <2> QED
      BY <1>0, <2>1, SumEmpty
  <1>2. ASSUME NEW T \in SUBSET S, NEW x \in S \ T, T \in P PROVE T \union {x} \in P
    <2>1. SUFFICES ASSUME T \union {x} \subseteq U
                   PROVE  SumFunctionOnSet(f, S) = SumFunctionOnSet(f, T \union {x})
                                                   + SumFunctionOnSet(f, S \ (T \union {x}))
      OBVIOUS
    <2>2. SumFunctionOnSet(f, T \union {x}) = f[x] + SumFunctionOnSet(f, T)
      BY <1>0, SumAdd
    <2>3. SumFunctionOnSet(f, S \ T) = f[x] + SumFunctionOnSet(f, (S \ T) \ {x})
      BY <1>0, SumRemove
    <2>4. (S \ T) \ {x} = S \ (T \union {x})
      OBVIOUS
    <2>5. SumFunctionOnSet(f, S) = SumFunctionOnSet(f, T) + SumFunctionOnSet(f, S \ T)
      BY <1>2, <2>1
    <2> DEFINE a == SumFunctionOnSet(f, T)
               b == SumFunctionOnSet(f, S \ (T \union {x}))
    <2>6. a \in Int /\ b \in Int /\ f[x] \in Int
      BY <1>0
    <2>7. SumFunctionOnSet(f, S) = a + (f[x] + b)
      BY <2>3, <2>4, <2>5
    <2>8. (f[x] + a) + b = a + (f[x] + b)
      BY <2>6
    <2> QED
      BY <2>2, <2>7, <2>8
  <1> HIDE DEF P
  <1>3. \A T \in SUBSET U : \A x \in U \ T : T \in P => T \union {x} \in P
    BY <1>2
  <1>4. U \in P
    BY <1>0, <1>1, <1>3, Subsets
  <1> QED
    BY <1>4 DEF P

\* A sum of sums of two is the sum of their sums.
LEMMA SumPlus ==
    ASSUME NEW f, NEW g, NEW h, NEW S, IsFiniteSet(S),
           \A x \in S : f[x] \in Int /\ g[x] \in Int /\ h[x] = f[x] + g[x]
    PROVE  SumFunctionOnSet(h, S) = SumFunctionOnSet(f, S) + SumFunctionOnSet(g, S)
  <1> DEFINE P == {T \in SUBSET S :
                     SumFunctionOnSet(h, T) = SumFunctionOnSet(f, T) + SumFunctionOnSet(g, T)}
  <1>1. {} \in P
    BY SumEmpty
  <1>2. ASSUME NEW T \in SUBSET S, NEW x \in S \ T, T \in P PROVE T \union {x} \in P
    <2>1. IsFiniteSet(T) /\ SumFunctionOnSet(f, T) \in Int /\ SumFunctionOnSet(g, T) \in Int
      BY FS_Subset, SumInt
    <2>2. \A y \in T \union {x} : f[y] \in Int /\ g[y] \in Int /\ h[y] \in Int
      OBVIOUS
    <2>3. SumFunctionOnSet(f, T \union {x}) = f[x] + SumFunctionOnSet(f, T)
      BY <2>1, <2>2, SumAdd
    <2>4. SumFunctionOnSet(g, T \union {x}) = g[x] + SumFunctionOnSet(g, T)
      BY <2>1, <2>2, SumAdd
    <2>5. SumFunctionOnSet(h, T \union {x}) = h[x] + SumFunctionOnSet(h, T)
      BY <2>1, <2>2, SumAdd
    <2>6. SumFunctionOnSet(h, T) = SumFunctionOnSet(f, T) + SumFunctionOnSet(g, T)
      BY <1>2
    <2>7. f[x] \in Int /\ g[x] \in Int /\ h[x] = f[x] + g[x]
      OBVIOUS
    <2> QED
      BY <2>1, <2>3, <2>4, <2>5, <2>6, <2>7
  <1> HIDE DEF P
  <1>3. S \in P
    BY <1>1, <1>2, Subsets
  <1> QED
    BY <1>3 DEF P

\* And a sum of differences is the difference of the sums.
LEMMA SumMinus ==
    ASSUME NEW f, NEW g, NEW h, NEW S, IsFiniteSet(S),
           \A x \in S : f[x] \in Int /\ g[x] \in Int /\ h[x] = f[x] - g[x]
    PROVE  SumFunctionOnSet(h, S) = SumFunctionOnSet(f, S) - SumFunctionOnSet(g, S)
  <1>1. \A x \in S : g[x] \in Int /\ h[x] \in Int /\ f[x] = g[x] + h[x]
    OBVIOUS
  <1>2. SumFunctionOnSet(f, S) = SumFunctionOnSet(g, S) + SumFunctionOnSet(h, S)
    BY <1>1, SumPlus
  <1>3. SumFunctionOnSet(g, S) \in Int /\ SumFunctionOnSet(h, S) \in Int
    BY <1>1, SumInt
  <1> QED
    BY <1>2, <1>3

\* The same values under other names.
LEMMA SumRenamed ==
    ASSUME NEW f, NEW g, NEW S, IsFiniteSet(S), NEW name, NEW names,
           \A x \in S : name[x] \in names /\ f[name[x]] \in Int /\ g[x] = f[name[x]],
           \A x, y \in S : name[x] = name[y] => x = y,
           \A n \in names : \E x \in S : n = name[x]
    PROVE  SumFunctionOnSet(g, S) = SumFunctionOnSet(f, names)
  <1> DEFINE Named(T) == {name[x] : x \in T}
             P == {T \in SUBSET S : IsFiniteSet(Named(T)) /\ SumFunctionOnSet(g, T) = SumFunctionOnSet(f, Named(T))}
  <1>1. {} \in P
    <2>1. Named({}) = {}
      OBVIOUS
    <2> HIDE DEF Named
    <2> QED
      BY <2>1, SumEmpty, FS_EmptySet
  <1>2. ASSUME NEW T \in SUBSET S, NEW x \in S \ T, T \in P PROVE T \union {x} \in P
    <2>1. /\ Named(T \union {x}) = Named(T) \union {name[x]} /\ name[x] \notin Named(T)
          /\ \A y \in Named(T) \union {name[x]} : f[y] \in Int
      OBVIOUS
    <2>2. IsFiniteSet(T) /\ IsFiniteSet(Named(T))
      BY <1>2, FS_Subset
    <2> HIDE DEF Named
    <2>3. SumFunctionOnSet(g, T \union {x}) = g[x] + SumFunctionOnSet(g, T)
      BY <2>2, SumAdd
    <2>4. SumFunctionOnSet(f, Named(T) \union {name[x]}) = f[name[x]] + SumFunctionOnSet(f, Named(T))
      BY <2>1, <2>2, SumAdd
    <2>5. IsFiniteSet(Named(T) \union {name[x]})
      BY <2>2, FS_AddElement
    <2>6. SumFunctionOnSet(g, T) = SumFunctionOnSet(f, Named(T)) /\ g[x] = f[name[x]]
      BY <1>2
    <2> QED
      BY <2>1, <2>3, <2>4, <2>5, <2>6
  <1> HIDE DEF P
  <1>3. S \in P
    BY <1>1, <1>2, Subsets
  <1>4. {name[x] : x \in S} = names
    OBVIOUS
  <1> QED
    BY <1>3, <1>4 DEF P

\* Pairs in rows, of the same first, the values of each row and what they come to.
InRows(f, pairs, I, D, row, sums) ==
    /\ \A i \in I : \A k \in D[i] :
          <<i, k>> \in pairs /\ f[<<i, k>>] \in Int /\ row[i][k] = f[<<i, k>>]
    /\ \A p \in pairs : \E i \in I : \E k \in D[i] : p = <<i, k>>
    /\ \A i \in I : IsFiniteSet(D[i]) /\ sums[i] = SumFunctionOnSet(row[i], D[i])

\* A sum over pairs is a sum, over the first of them, of sums over the second.
LEMMA SumOfSums ==
    ASSUME NEW f, NEW I, IsFiniteSet(I), NEW D, NEW row, NEW sums, NEW pairs, InRows(f, pairs, I, D, row, sums)
    PROVE  IsFiniteSet(pairs) /\ SumFunctionOnSet(f, pairs) = SumFunctionOnSet(sums, I)
  <1> USE DEF InRows
  <1> DEFINE Row(i) == {<<i, k>> : k \in D[i]}
             Rows(T) == UNION {Row(i) : i \in T}
             P == {T \in SUBSET I : IsFiniteSet(Rows(T)) /\ SumFunctionOnSet(f, Rows(T)) = SumFunctionOnSet(sums, T)}
  <1>1. ASSUME NEW i \in I
        PROVE  /\ IsFiniteSet(Row(i)) /\ \A p \in Row(i) : f[p] \in Int
               /\ sums[i] \in Int /\ SumFunctionOnSet(f, Row(i)) = sums[i]
    <2> DEFINE name == [k \in D[i] |-> <<i, k>>]
               g == row[i]
    <2>1. \A x \in D[i] : f[name[x]] \in Int /\ g[x] = f[name[x]]
      OBVIOUS
    <2>2. \A x, y \in D[i] : name[x] = name[y] => x = y
      OBVIOUS
    <2>3. (\A x \in D[i] : name[x] \in Row(i)) /\ \A p \in Row(i) : \E x \in D[i] : p = name[x]
      OBVIOUS
    <2>4. IsFiniteSet(D[i]) /\ sums[i] = SumFunctionOnSet(g, D[i]) /\ \A x \in D[i] : g[x] \in Int
      OBVIOUS
    <2>5. IsFiniteSet(Row(i))
      <3>1. name \in Surjection(D[i], Row(i))
        BY DEF Surjection
      <3> HIDE DEF name, Row
      <3> QED
        BY <2>4, <3>1, FS_Surjection
    <2>6. \A p \in Row(i) : f[p] \in Int
      OBVIOUS
    <2> HIDE DEF name, g, Row
    <2>7. SumFunctionOnSet(g, D[i]) = SumFunctionOnSet(f, Row(i))
      BY <2>1, <2>2, <2>3, <2>4, SumRenamed
    <2>8. sums[i] \in Int
      BY <2>4, SumInt
    <2> QED
      BY <2>4, <2>5, <2>6, <2>7, <2>8
  <1>2. {} \in P
    <2>1. Rows({}) = {}
      OBVIOUS
    <2> HIDE DEF Rows
    <2> QED
      BY <2>1, SumEmpty, FS_EmptySet
  <1>3. ASSUME NEW T \in SUBSET I, NEW i \in I \ T, T \in P PROVE T \union {i} \in P
    <2> DEFINE all == Rows(T \union {i})
    <2>1. /\ all = Rows(T) \union Row(i) /\ Rows(T) \subseteq all /\ all \ Rows(T) = Row(i)
      OBVIOUS
    <2>2. \A p \in all : f[p] \in Int
      BY <1>1
    <2> HIDE DEF Row, Rows, all
    <2>3. IsFiniteSet(all) /\ IsFiniteSet(T)
      BY <1>1, <1>3, <2>1, FS_Union, FS_Subset
    <2>4. SumFunctionOnSet(f, all) = SumFunctionOnSet(f, Rows(T)) + SumFunctionOnSet(f, Row(i))
      BY <2>1, <2>2, <2>3, SumSplit
    <2>5. SumFunctionOnSet(sums, T \union {i}) = sums[i] + SumFunctionOnSet(sums, T)
      BY <1>1, <2>3, SumAdd
    <2>6. SumFunctionOnSet(sums, T) \in Int /\ sums[i] \in Int
      BY <1>1, <2>3, SumInt
    <2>7. SumFunctionOnSet(f, Rows(T)) = SumFunctionOnSet(sums, T) /\ SumFunctionOnSet(f, Row(i)) = sums[i]
      BY <1>1, <1>3
    <2> QED
      BY <2>3, <2>4, <2>5, <2>6, <2>7 DEF all
  <1> HIDE DEF P
  <1>4. I \in P
    BY <1>2, <1>3, Subsets
  <1>5. Rows(I) = pairs
    OBVIOUS
  <1> QED
    BY <1>4, <1>5 DEF P

\* A finite inhabited set of integers has a greatest and a least.
LEMMA Extremes ==
    ASSUME NEW T \in SUBSET Int, IsFiniteSet(T), T # {}
    PROVE  /\ Max(T) \in T /\ \A x \in T : x <= Max(T)
           /\ Min(T) \in T /\ \A x \in T : Min(T) <= x
<1> DEFINE Bounded(S) == S # {} => (\E x \in S : \A y \in S : y <= x) /\ (\E x \in S : \A y \in S : x <= y)
           Good == {S \in SUBSET T : Bounded(S)}
<1>1. {} \in Good
  OBVIOUS
<1>2. ASSUME NEW S \in SUBSET T, NEW e \in T \ S, S \in Good PROVE S \union {e} \in Good
  <2>1. CASE S = {}
    BY <2>1
  <2>2. CASE S # {}
    <3>1. PICK x \in S : \A y \in S : y <= x
      BY <1>2, <2>2
    <3>2. PICK z \in S : \A y \in S : z <= y
      BY <1>2, <2>2
    <3>3. /\ e \in Int /\ x \in Int /\ z \in Int /\ \A y \in S : y \in Int
      OBVIOUS
    <3>4. \E w \in S \union {e} : \A y \in S \union {e} : y <= w
      <4>1. CASE e <= x
        BY <3>1, <3>3, <4>1
      <4>2. CASE x <= e
        BY <3>1, <3>3, <4>2
      <4> QED
        BY <3>3, <4>1, <4>2
    <3>5. \E w \in S \union {e} : \A y \in S \union {e} : w <= y
      <4>1. CASE z <= e
        BY <3>2, <3>3, <4>1
      <4>2. CASE e <= z
        BY <3>2, <3>3, <4>2
      <4> QED
        BY <3>3, <4>1, <4>2
    <3> QED
      BY <3>4, <3>5
  <2> QED
    BY <2>1, <2>2
<1>3. T \in Good
  <2> HIDE DEF Good
  <2> QED
    BY <1>1, <1>2, Subsets
<1>4. (\E x \in T : \A y \in T : y <= x) /\ (\E x \in T : \A y \in T : x <= y)
  BY <1>3
<1>5. Max(T) \in T /\ \A y \in T : Max(T) >= y
  <2>1. \E x \in T : \A y \in T : x >= y
    <3>1. PICK x \in T : \A y \in T : y <= x
      BY <1>4
    <3>2. \A y \in T : x >= y
      BY <3>1
    <3> QED
      BY <3>2
  <2> QED
    BY <2>1 DEF Max
<1>6. Min(T) \in T /\ \A y \in T : Min(T) <= y
  BY <1>4 DEF Min
<1> QED
  BY <1>5, <1>6

-----------------------------------------------------------------------------
(* Division by a positive number.                                          *)

LEMMA Quotient ==
    ASSUME NEW a \in Int, NEW b \in Nat \ {0}
    PROVE  a \div b \in Int /\ b * (a \div b) <= a /\ a < b * (a \div b) + b
  OBVIOUS

\* Products with a positive number keep their order.
LEMMA TimesKeepsOrder ==
    ASSUME NEW b \in Nat, NEW x \in Int, NEW y \in Int, x <= y
    PROVE  b * x <= b * y
  <1>1. PICK d \in Nat : y = x + d
    <2>1. y - x \in Nat /\ y = x + (y - x)
      OBVIOUS
    <2> QED
      BY <2>1
  <1>2. b * y = b * x + b * d /\ b * d \in Nat
    BY <1>1
  <1> QED
    BY <1>2

\* A quotient is the most that the divisor goes into a number.
LEMMA QuotientIsMost ==
    ASSUME NEW a \in Int, NEW b \in Nat \ {0}, NEW x \in Int, b * x <= a
    PROVE  x <= a \div b
  <1> DEFINE q == a \div b
  <1>1. q \in Int /\ a < b * q + b
    BY Quotient
  <1> SUFFICES ASSUME x > q PROVE FALSE
    BY <1>1
  <1> HIDE DEF q
  <1>2. b * (q + 1) <= b * x
    BY <1>1, TimesKeepsOrder
  <1>3. b * (q + 1) = b * q + b
    BY <1>1
  <1> QED
    BY <1>1, <1>2, <1>3

LEMMA QuotientIsLess ==
    ASSUME NEW a \in Int, NEW b \in Nat \ {0}, NEW x \in Int, a < b * x
    PROVE  a \div b < x
  <1> DEFINE q == a \div b
  <1>1. q \in Int /\ b * q <= a
    BY Quotient
  <1> SUFFICES ASSUME q >= x PROVE FALSE
    BY <1>1
  <1> HIDE DEF q
  <1>2. b * x <= b * q
    BY <1>1, TimesKeepsOrder
  <1> QED
    BY <1>1, <1>2

\* Rounded down, more is no less.
LEMMA QuotientRises ==
    ASSUME NEW a \in Int, NEW c \in Int, NEW b \in Nat \ {0}, a <= c
    PROVE  a \div b <= c \div b
  <1>1. a \div b \in Int /\ b * (a \div b) <= a
    BY Quotient
  <1>2. b * (a \div b) <= c
    BY <1>1
  <1> QED
    BY <1>1, <1>2, QuotientIsMost

\* What is rounded up is enough, and less than one more.
LEMMA CeilIsEnough ==
    ASSUME NEW a \in Int, NEW b \in Nat \ {0}
    PROVE  CeilDiv(a, b) \in Int /\ a <= b * CeilDiv(a, b) /\ b * CeilDiv(a, b) < a + b
  <1> DEFINE q == (-a) \div b
  <1>1. -a \in Int
    OBVIOUS
  <1>2. q \in Int /\ b * q <= -a /\ -a < b * q + b
    BY <1>1, Quotient
  <1> HIDE DEF q
  <1>3. -q \in Int /\ b * (-q) = -(b * q) /\ b * q \in Int
    BY <1>2
  <1>4. a <= -(b * q) /\ -(b * q) < a + b
    BY <1>2, <1>3
  <1>5. CeilDiv(a, b) = -q
    BY DEF CeilDiv, q
  <1> QED
    BY <1>3, <1>4, <1>5

\* It is the least that is enough.
LEMMA CeilIsLeast ==
    ASSUME NEW a \in Int, NEW b \in Nat \ {0}, NEW x \in Int
    PROVE  CeilDiv(a, b) <= x <=> a <= b * x
  <1> DEFINE q == CeilDiv(a, b)
  <1>1. q \in Int /\ a <= b * q /\ b * q < a + b
    BY CeilIsEnough
  <1> HIDE DEF q
  <1>2. ASSUME q <= x PROVE a <= b * x
    <2>1. b * q <= b * x
      BY <1>1, <1>2, TimesKeepsOrder
    <2> QED
      BY <1>1, <2>1
  <1>3. ASSUME a <= b * x PROVE q <= x
    <2>1. SUFFICES ASSUME x + 1 <= q PROVE FALSE
      BY <1>1
    <2>2. b * (x + 1) <= b * q /\ b * (x + 1) = b * x + b
      BY <1>1, <2>1, TimesKeepsOrder
    <2> QED
      BY <1>1, <1>3, <2>2
  <1> QED
    BY <1>2, <1>3 DEF q

\* A multiple: what is left of a number divided is between none and the divisor.
LEMMA Remainder ==
    ASSUME NEW a \in Int, NEW b \in Nat \ {0}
    PROVE  a % b \in 0..b - 1 /\ a = b * (a \div b) + (a % b)
  OBVIOUS

LEMMA MultiplesLeaveNothing ==
    ASSUME NEW b \in Nat \ {0}, NEW k \in Int
    PROVE  (b * k) % b = 0
  <1>1. b * k \in Int
    OBVIOUS
  <1> DEFINE a == b * k
             q == a \div b
  <1>2. q \in Int /\ b * q <= a /\ a < b * q + b /\ a = b * q + (a % b)
    BY <1>1, Quotient, Remainder
  <1>3. k <= q
    BY <1>1, QuotientIsMost
  <1>4. q <= k
    <2>1. b * k < b * (q + 1) /\ b * q <= b * k
      <3>1. b * (q + 1) = b * q + b
        BY <1>2
      <3> QED
        BY <1>2, <3>1
    <2>2. ASSUME k + 1 <= q PROVE FALSE
      <3>1. b * (k + 1) <= b * q /\ b * (k + 1) = b * k + b
        BY <1>2, <2>2, TimesKeepsOrder
      <3> QED
        BY <2>1, <3>1
    <2> QED
      BY <1>2, <2>2
  <1>5. q = k
    BY <1>2, <1>3, <1>4
  <1>6. a % b \in Int
    BY <1>1, Remainder
  <1> QED
    BY <1>2, <1>5, <1>6

-----------------------------------------------------------------------------
(* Tables of rows, and the tiers of ticks.                                 *)

\* The greatest and the least of numbers.
LEMMA GreatestIs ==
    ASSUME NEW T \in SUBSET Int, NEW m \in T, \A k \in T : k <= m
    PROVE  Max(T) = m
  <1>1. \A x \in T : (\A y \in T : x >= y) => x = m
    OBVIOUS
  <1>2. \A y \in T : m >= y
    OBVIOUS
  <1> QED
    BY <1>1, <1>2 DEF Max

LEMMA LeastIs ==
    ASSUME NEW T \in SUBSET Int, NEW m \in T, \A k \in T : m <= k
    PROVE  Min(T) = m
  <1>1. \A x \in T : (\A y \in T : x <= y) => x = m
    OBVIOUS
  <1>2. \A y \in T : m <= y
    OBVIOUS
  <1> QED
    BY <1>1, <1>2 DEF Min

\* What is next to each other in a sequence.
LEMMA NextTo ==
    ASSUME NEW s, NEW i \in 1..Len(s) - 1
    PROVE  <<s[i], s[i + 1]>> \in Neighbours(s)
  BY DEF Neighbours

\* Accepted tiers begin on a tick of their own and of the tier below.
LEMMA TiersBegin ==
    ASSUME NEW tiers \in Seq(Tiers), TicksAccepted(tiers)
    PROVE  /\ Len(tiers) \in Nat \ {0}
           /\ \A i \in 1..Len(tiers) : tiers[i].from \in Nat \ {0} /\ tiers[i].tick \in Nat \ {0}
           /\ tiers[1].from = 1
           /\ \A i \in 1..Len(tiers) - 1 :
                /\ tiers[i].from < tiers[i + 1].from
                /\ tiers[i + 1].from % tiers[i].tick = 0
                /\ tiers[i + 1].from % tiers[i + 1].tick = 0
  <1>1. Len(tiers) \in Nat \ {0} /\ tiers[1].from = 1
    BY DEF TicksAccepted
  <1>2. ASSUME NEW i \in 1..Len(tiers)
        PROVE  tiers[i].from \in Nat \ {0} /\ tiers[i].tick \in Nat \ {0}
    <2>1. tiers[i] \in Tiers
      OBVIOUS
    <2> QED
      BY <2>1 DEF Tiers
  <1>3. ASSUME NEW i \in 1..Len(tiers) - 1
        PROVE  /\ tiers[i].from < tiers[i + 1].from
               /\ tiers[i + 1].from % tiers[i].tick = 0
               /\ tiers[i + 1].from % tiers[i + 1].tick = 0
    <2> DEFINE p == <<tiers[i], tiers[i + 1]>>
    <2>1. p \in Neighbours(tiers)
      BY NextTo
    <2>2. p[1].from < p[2].from /\ p[2].from % p[1].tick = 0 /\ p[2].from % p[2].tick = 0
      BY <2>1 DEF TicksAccepted
    <2> QED
      BY <2>2
  <1> QED
    BY <1>1, <1>2, <1>3

\* They rise.
LEMMA TiersRise ==
    ASSUME NEW tiers \in Seq(Tiers), TicksAccepted(tiers), NEW i \in 1..Len(tiers),
           NEW j \in 1..Len(tiers), i < j
    PROVE  tiers[i].from < tiers[j].from
  <1> DEFINE P == {n \in Nat : i + n + 1 <= Len(tiers) => tiers[i].from < tiers[i + n + 1].from}
  <1>1. Len(tiers) \in Nat /\ \A k \in 1..Len(tiers) : tiers[k].from \in Nat
    BY TiersBegin
  <1>2. 0 \in P
    BY <1>1, TiersBegin
  <1>3. ASSUME NEW n \in Nat, n \in P PROVE n + 1 \in P
    <2>1. SUFFICES ASSUME i + (n + 1) + 1 <= Len(tiers)
                   PROVE  tiers[i].from < tiers[i + (n + 1) + 1].from
      OBVIOUS
    <2>2. i + n + 1 \in 1..Len(tiers) - 1 /\ (i + n + 1) + 1 = i + (n + 1) + 1
      BY <1>1, <2>1
    <2>3. tiers[i].from < tiers[i + n + 1].from
      BY <1>3, <2>2
    <2>4. tiers[i + n + 1].from < tiers[(i + n + 1) + 1].from
      BY <2>2, TiersBegin
    <2>5. tiers[i + n + 1].from \in Nat /\ tiers[(i + n + 1) + 1].from \in Nat /\ tiers[i].from \in Nat
      <3>1. i + n + 1 \in 1..Len(tiers) /\ (i + n + 1) + 1 \in 1..Len(tiers)
        BY <1>1, <2>2
      <3> QED
        BY <1>1, <3>1
    <2> QED
      BY <2>2, <2>3, <2>4, <2>5
  <1> HIDE DEF P
  <1>4. Nat \subseteq P
    BY <1>2, <1>3, Naturals
  <1>5. PICK n \in Nat : j = i + n + 1
    <2>1. j - i - 1 \in Nat /\ i + (j - i - 1) + 1 = j
      BY <1>1
    <2> QED
      BY <2>1
  <1>6. n \in P /\ i + n + 1 <= Len(tiers)
    BY <1>1, <1>4, <1>5
  <1> QED
    BY <1>5, <1>6 DEF P

\* A price is in the last tier that begins at it or below.
LEMMA TierOfPrice ==
    ASSUME NEW tiers \in Seq(Tiers), TicksAccepted(tiers), NEW price \in Nat \ {0}
    PROVE  \E i \in 1..Len(tiers) :
              /\ tiers[i].from <= price
              /\ \A j \in 1..Len(tiers) : j > i => price < tiers[j].from
              /\ Tick(tiers, price) = tiers[i].tick
  <1> DEFINE T == {i \in DOMAIN tiers : tiers[i].from <= price}
  <1>1. Len(tiers) \in Nat \ {0} /\ DOMAIN tiers = 1..Len(tiers) /\ tiers[1].from = 1
    BY TiersBegin
  <1>2. T \in SUBSET (0..Len(tiers)) /\ 1 \in T
    BY <1>1
  <1>3. PICK i \in T : \A k \in T : k <= i
    BY <1>1, <1>2, Greatest
  <1>4. Max(T) = i
    <2>1. T \in SUBSET Int
      BY <1>1, <1>2
    <2> HIDE DEF T
    <2> QED
      BY <1>3, <2>1, GreatestIs
  <1>5. Tick(tiers, price) = tiers[i].tick
    BY <1>4 DEF Tick
  <1>6. ASSUME NEW j \in 1..Len(tiers), j > i PROVE price < tiers[j].from
    <2>1. j \notin T
      BY <1>2, <1>3, <1>6
    <2>2. tiers[j].from \in Nat
      BY TiersBegin
    <2> QED
      BY <1>1, <2>1, <2>2
  <1> QED
    BY <1>1, <1>2, <1>5, <1>6

\* There is one such tier only.
LEMMA TierIs ==
    ASSUME NEW tiers \in Seq(Tiers), TicksAccepted(tiers), NEW price \in Nat \ {0},
           NEW i \in 1..Len(tiers), tiers[i].from <= price,
           \A j \in 1..Len(tiers) : j > i => price < tiers[j].from
    PROVE  Tick(tiers, price) = tiers[i].tick
  <1>1. PICK k \in 1..Len(tiers) :
            /\ tiers[k].from <= price
            /\ \A j \in 1..Len(tiers) : j > k => price < tiers[j].from
            /\ Tick(tiers, price) = tiers[k].tick
    BY TierOfPrice
  <1>2. tiers[i].from \in Nat /\ tiers[k].from \in Nat
    BY TiersBegin
  <1>3. ~ (k < i) /\ ~ (i < k)
    BY <1>1, <1>2
  <1>4. k = i
    BY <1>3
  <1> QED
    BY <1>1, <1>4

\* A table that has begun has a row on a day, and the last start until then.
LEMMA RowOfDay ==
    ASSUME NEW V, NEW table \in Dated(V), IsDated(table), NEW day \in Int, First(table) <= day
    PROVE  /\ On(table, day) \in V
           /\ \E start \in Range(table.starts) :
                /\ start \in Int /\ start <= day
                /\ \A i \in DOMAIN table.starts : table.starts[i] <= day => table.starts[i] <= start
  <1> DEFINE starts == table.starts
             begun == {i \in DOMAIN starts : starts[i] <= day}
             gaps == {day - starts[i] : i \in begun}
  <1>1. /\ starts \in Seq(Int) /\ table.values \in Seq(V)
        /\ Len(starts) \in Nat \ {0} /\ Len(starts) = Len(table.values) /\ starts[1] <= day
    BY DEF Dated, IsDated, First
  <1>2. DOMAIN starts = 1..Len(starts) /\ \A i \in DOMAIN starts : starts[i] \in Int
    BY <1>1
  <1> HIDE DEF starts
  <1>3. begun \in SUBSET (0..Len(starts)) /\ begun \in SUBSET Int /\ 1 \in begun
    BY <1>1, <1>2
  <1>4. PICK last \in begun : \A k \in begun : k <= last
    BY <1>1, <1>3, Greatest
  <1>5. Max(begun) = last /\ last \in 1..Len(table.values)
    <2>1. last \in 1..Len(table.values)
      BY <1>1, <1>2
    <2> HIDE DEF begun
    <2> QED
      BY <1>3, <1>4, <2>1, GreatestIs
  <1>6. On(table, day) \in V
    <2>1. On(table, day) = table.values[Max(begun)]
      BY DEF On, starts
    <2> QED
      BY <1>1, <1>5, <2>1
  <1>7. gaps \in SUBSET Nat /\ gaps # {}
    <2>1. \A i \in begun : day - starts[i] \in Nat
      BY <1>2
    <2>2. day - starts[1] \in gaps
      BY <1>3
    <2> QED
      BY <2>1, <2>2
  <1>8. PICK gap \in gaps : \A k \in gaps : gap <= k
    BY <1>7, Least
  <1>9. PICK i \in begun : gap = day - starts[i]
    BY <1>8
  <1>10. starts[i] \in Range(starts) /\ starts[i] \in Int /\ starts[i] <= day
    BY <1>2, <1>9 DEF Range
  <1>11. ASSUME NEW k \in DOMAIN starts, starts[k] <= day PROVE starts[k] <= starts[i]
    <2>1. day - starts[k] \in gaps
      BY <1>11
    <2>2. gap <= day - starts[k]
      BY <1>8, <2>1
    <2> QED
      BY <1>2, <1>9, <1>10, <2>2
  <1> QED
    BY <1>6, <1>10, <1>11 DEF starts
=============================================================================
