-------------------------- MODULE ExemptionProofs --------------------------
(***************************************************************************)
(* Theorems about Exemption, for any dividends, buys, sales, calendars and *)
(* lags: every rupiah of a dividend is open or taxed until its protection  *)
(* has been held, a protection breaks only when the grace of a shortfall   *)
(* is over, and a buy covers once, the oldest claim first.                 *)
(*                                                                         *)
(* All rest on ClaimsInv, which is inductive. It counts what is open of a  *)
(* dividend, the tax booked on it in units of TaxPart, and the closes of a *)
(* shortfall. What keeps it is that those who share out an amount do so in *)
(* a row: a buy's value over the claims by their age, a shortfall over the *)
(* pieces of the protections by their ends. GivenInRow says once what such *)
(* a sharing gives in all; Kept and the sums of SumProofs do the rest.     *)
(***************************************************************************)
EXTENDS Exemption, SumProofs

\* The less of two amounts.
Lesser(a, b) == IF a <= b THEN a ELSE b

\* The least of two amounts is the lesser.
LEMMA LessOfTwo ==
    ASSUME NEW a \in Int, NEW b \in Int
    PROVE  Min({a, b}) = Lesser(a, b)
  BY DEF Min, Lesser

\* A relation that puts elements in a row.
InARow(S, R) ==
    /\ \A x \in S : <<x, x>> \notin R
    /\ \A x, y, z \in S : <<x, y>> \in R /\ <<y, z>> \in R => <<x, z>> \in R
    /\ \A x, y \in S : x # y => <<x, y>> \in R \/ <<y, x>> \in R

\* In a row there is a last one of any finite number.
LEMMA LastInRow ==
    ASSUME NEW S, IsFiniteSet(S), S # {}, NEW R, InARow(S, R)
    PROVE  \E e \in S : \A x \in S \ {e} : <<x, e>> \in R
  <1> USE DEF InARow
  <1> DEFINE HasLast(T) == \E e \in T : \A x \in T \ {e} : <<x, e>> \in R
             P == {T \in SUBSET S : T = {} \/ HasLast(T)}
  <1>1. {} \in P
    OBVIOUS
  <1>2. ASSUME NEW T \in SUBSET S, NEW x \in S \ T, T \in P PROVE T \union {x} \in P
    <2>1. CASE T = {}
      <3>1. HasLast(T \union {x})
        BY <2>1
      <3> QED
        BY <3>1
    <2>2. CASE T # {}
      <3>1. PICK e \in T : \A y \in T \ {e} : <<y, e>> \in R
        BY <1>2, <2>2
      <3>2. e # x /\ e \in S
        OBVIOUS
      <3>3. CASE <<e, x>> \in R
        <4>1. \A y \in T : <<y, x>> \in R
          BY <3>1, <3>2, <3>3
        <4>2. HasLast(T \union {x})
          BY <4>1
        <4> QED
          BY <4>2
      <3>4. CASE <<x, e>> \in R
        <4>1. HasLast(T \union {x})
          BY <3>1, <3>4
        <4> QED
          BY <4>1
      <3> QED
        BY <3>2, <3>3, <3>4
    <2> QED
      BY <2>1, <2>2
  <1> HIDE DEF P
  <1>3. S \in P
    BY <1>1, <1>2, Subsets
  <1> QED
    BY <1>3 DEF P

\* Each of a row of amounts gives what is still needed when those before it have given.
GivesInARow(S, amount, R, before, needed, given) ==
    /\ needed \in Nat /\ \A x \in S : amount[x] \in Nat
    /\ InARow(S, R)
    /\ \A x \in S : before[x] \subseteq S /\ \A y \in S : y \in before[x] <=> <<y, x>> \in R
    /\ \A x \in S : given[x] = Min({amount[x], Less(needed, SumFunctionOnSet(amount, before[x]))})

\* Together they give what is needed, or all they have.
LEMMA GivenInRow ==
    ASSUME NEW S, IsFiniteSet(S), NEW amount, NEW R, NEW before, NEW needed, NEW given,
           GivesInARow(S, amount, R, before, needed, given)
    PROVE  /\ \A x \in S : given[x] \in Nat /\ given[x] <= amount[x]
           /\ SumFunctionOnSet(amount, S) \in Nat
           /\ SumFunctionOnSet(given, S) = Lesser(needed, SumFunctionOnSet(amount, S))
  <1> USE DEF GivesInARow
  <1> DEFINE Before(x) == before[x]
             Closed(T) == \A x \in T : Before(x) \subseteq T
             Good == {n \in Nat : \A T \in SUBSET S : Cardinality(T) = n /\ Closed(T) =>
                                    SumFunctionOnSet(given, T) = Lesser(needed, SumFunctionOnSet(amount, T))}
  <1>1. ASSUME NEW T \in SUBSET S
        PROVE  IsFiniteSet(T) /\ Cardinality(T) \in Nat /\ SumFunctionOnSet(amount, T) \in Nat
    BY FS_Subset, FS_CardinalityType, SumNat
  <1>2. ASSUME NEW x \in S
        PROVE  /\ given[x] = LET less == Less(needed, SumFunctionOnSet(amount, Before(x)))
                             IN  IF amount[x] <= less THEN amount[x] ELSE less
               /\ given[x] \in Nat /\ given[x] <= amount[x]
    <2> DEFINE less == Less(needed, SumFunctionOnSet(amount, Before(x)))
    <2>1. Before(x) \in SUBSET S
      OBVIOUS
    <2>2. SumFunctionOnSet(amount, Before(x)) \in Nat
      BY <1>1, <2>1
    <2>3. less \in Nat
      BY <2>2 DEF Less
    <2>4. amount[x] \in Nat /\ given[x] = Min({amount[x], less})
      OBVIOUS
    <2> HIDE DEF less
    <2>5. given[x] = IF amount[x] <= less THEN amount[x] ELSE less
      BY <2>3, <2>4, LessOfTwo DEF Lesser
    <2> QED
      BY <2>3, <2>4, <2>5 DEF less
  <1> HIDE DEF Before
  <1>3. 0 \in Good
    <2>1. \A T \in SUBSET S : Cardinality(T) = 0 => T = {}
      BY <1>1, FS_EmptySet
    <2>2. Lesser(needed, 0) = 0
      BY DEF Lesser
    <2> QED
      BY <2>1, <2>2, SumEmpty
  <1>4. ASSUME NEW n \in Nat, n \in Good PROVE n + 1 \in Good
    <2>1. SUFFICES ASSUME NEW T \in SUBSET S, Cardinality(T) = n + 1, Closed(T)
                   PROVE  SumFunctionOnSet(given, T) = Lesser(needed, SumFunctionOnSet(amount, T))
      OBVIOUS
    <2>2. IsFiniteSet(T) /\ T # {}
      BY <1>1, <2>1, OneLess
    <2>3. PICK e \in T : \A x \in T \ {e} : <<x, e>> \in R
      <3>1. InARow(T, R)
        BY DEF InARow
      <3> QED
        BY <2>2, <3>1, LastInRow
    <2> DEFINE rest == T \ {e}
    <2>4. e \in S /\ rest \in SUBSET S /\ Cardinality(rest) = n
      BY <2>1, <2>2, OneLess
    <2>0. /\ \A x \in S : Before(x) \subseteq S /\ \A y \in S : y \in Before(x) <=> <<y, x>> \in R
          /\ \A x \in S : <<x, x>> \notin R
          /\ \A x, y, z \in S : <<x, y>> \in R /\ <<y, z>> \in R => <<x, z>> \in R
      BY DEF Before, InARow
    <2>5. ASSUME NEW x \in rest PROVE Before(x) \subseteq rest
      <3>1. <<x, e>> \in R /\ x \in S /\ e \in S /\ x \in T
        BY <2>3
      <3>2. e \notin Before(x)
        BY <2>0, <3>1
      <3>3. Before(x) \subseteq T
        BY <2>1, <3>1
      <3> QED
        BY <3>2, <3>3
    <2>6. Before(e) = rest
      <3>1. \A x \in rest : x \in Before(e)
        BY <2>0, <2>3, <2>4
      <3>2. e \notin Before(e) /\ Before(e) \subseteq T
        BY <2>0, <2>1, <2>4
      <3> QED
        BY <3>1, <3>2
    <2>7. SumFunctionOnSet(given, T) = given[e] + SumFunctionOnSet(given, rest)
      <3>1. \A x \in T : given[x] \in Int
        BY <1>2
      <3> QED
        BY <2>2, <3>1, SumRemove
    <2>8. SumFunctionOnSet(amount, T) = amount[e] + SumFunctionOnSet(amount, rest)
      <3>1. \A x \in T : amount[x] \in Int
        OBVIOUS
      <3> QED
        BY <2>2, <3>1, SumRemove
    <2> HIDE DEF rest
    <2>9. SumFunctionOnSet(given, rest) = Lesser(needed, SumFunctionOnSet(amount, rest))
      BY <1>4, <2>4, <2>5
    <2>10. /\ SumFunctionOnSet(amount, rest) \in Nat /\ amount[e] \in Nat /\ SumFunctionOnSet(amount, T) \in Nat
           /\ given[e] = LET less == Less(needed, SumFunctionOnSet(amount, rest))
                         IN  IF amount[e] <= less THEN amount[e] ELSE less
      BY <1>1, <1>2, <2>4, <2>6
    <2>11. SumFunctionOnSet(given, rest) = IF needed <= SumFunctionOnSet(amount, rest) THEN needed
                                           ELSE SumFunctionOnSet(amount, rest)
      BY <2>9 DEF Lesser
    <2>12. Lesser(needed, SumFunctionOnSet(amount, T)) = IF needed <= SumFunctionOnSet(amount, T) THEN needed
                                                       ELSE SumFunctionOnSet(amount, T)
      BY DEF Lesser
    <2> QED
      BY <2>7, <2>8, <2>10, <2>11, <2>12 DEF Less
  <1> HIDE DEF Good
  <1>5. Nat \subseteq Good
    BY <1>3, <1>4, Naturals
  <1>6. SumFunctionOnSet(given, S) = Lesser(needed, SumFunctionOnSet(amount, S))
    BY <1>1, <1>5 DEF Good, Before
  <1> QED
    BY <1>1, <1>2, <1>6

-----------------------------------------------------------------------------
(* Lists.                                                                  *)

\* At the k-th place of what is kept is the k-th of the places, in a row.
KeptAt(list, places, kept, at) ==
    /\ at \in [1..Len(kept) -> places]
    /\ \A k, m \in 1..Len(kept) : k < m => at[k] < at[m]
    /\ \A i \in places : \E k \in 1..Len(kept) : at[k] = i
    /\ \A k \in 1..Len(kept) : kept[k] = list[at[k]]

\* What is kept is a list of what was at the places, in their order.
LEMMA KeptIsInOrder ==
    ASSUME NEW V, NEW list \in Seq(V), NEW places \in SUBSET DOMAIN list
    PROVE  LET kept == Kept(list, places)
           IN  kept \in Seq(V) /\ \E at : KeptAt(list, places, kept, at)
  <1> DEFINE n == Len(list)
             Grown(i, q) == IF i \in places THEN Append(q, list[i]) ELSE q
             Is(g) == g = [i \in 0..n |-> IF i = 0 THEN <<>> ELSE Grown(i, g[i - 1])]
             upTo == CHOOSE g : Is(g)
             W == Seq(V)
             none == <<>>
             Soon(i) == {j \in places : j <= i}
             Shown(q, i) == q \in W /\ \E at : KeptAt(list, Soon(i), q, at)
  <1>1. n \in Nat /\ DOMAIN list = 1..n /\ (\A i \in 1..n : list[i] \in V) /\ places \subseteq 1..n
    OBVIOUS
  <1>2. ASSUME NEW i \in 1..n, NEW q \in W PROVE Grown(i, q) \in W
    BY <1>1
  <1>3. ASSUME NEW i \in 1..n, NEW q, Shown(q, i - 1) PROVE Shown(Grown(i, q), i)
    <2>1. PICK at : KeptAt(list, Soon(i - 1), q, at)
      BY <1>3
    <2>2. q \in W /\ Len(q) \in Nat
      BY <1>3
    <2>3. CASE i \notin places
      <3>1. Soon(i) = Soon(i - 1) /\ Grown(i, q) = q
        BY <1>1, <2>3
      <3> HIDE DEF Soon, Grown, W
      <3> QED
        BY <1>3, <3>1
    <2>4. CASE i \in places
      <3> DEFINE r == Append(q, list[i])
                 at2 == [k \in 1..Len(q) + 1 |-> IF k = Len(q) + 1 THEN i ELSE at[k]]
      <3>1. /\ Grown(i, q) = r /\ r \in W /\ Len(r) = Len(q) + 1
            /\ r[Len(q) + 1] = list[i] /\ \A k \in 1..Len(q) : r[k] = q[k]
        BY <1>1, <2>2, <2>4
      <3>2. Soon(i) = Soon(i - 1) \union {i} /\ \A j \in Soon(i - 1) : j \in places /\ j < i
        BY <1>1, <2>4
      <3>3. /\ \A k \in 1..Len(q) : at[k] \in Soon(i - 1) /\ at[k] < i /\ at2[k] = at[k] /\ q[k] = list[at[k]]
            /\ at2[Len(q) + 1] = i
        BY <2>1, <2>2, <3>2 DEF KeptAt
      <3> HIDE DEF r, Soon, Grown, W
      <3>4. at2 \in [1..Len(r) -> Soon(i)]
        <4>1. \A k \in 1..Len(q) + 1 : k \in 1..Len(q) \/ k = Len(q) + 1
          BY <2>2
        <4>2. \A k \in 1..Len(q) + 1 : at2[k] \in Soon(i)
          BY <3>2, <3>3, <4>1
        <4> QED
          BY <3>1, <4>2
      <3>5. \A k \in 1..Len(r) : k \in 1..Len(q) \/ k = Len(q) + 1
        BY <2>2, <3>1
      <3>6. Len(q) + 1 \in 1..Len(r) /\ \A k \in 1..Len(q) : k \in 1..Len(r)
        BY <2>2, <3>1
      <3> HIDE DEF at2
      <3>7. ASSUME NEW k \in 1..Len(r), NEW m \in 1..Len(r), k < m PROVE at2[k] < at2[m]
        <4>1. k \in 1..Len(q)
          BY <2>2, <3>1, <3>7
        <4>2. CASE m \in 1..Len(q)
          BY <2>1, <3>3, <3>7, <4>1, <4>2 DEF KeptAt
        <4>3. CASE m = Len(q) + 1
          BY <3>3, <4>1, <4>3
        <4> QED
          BY <3>5, <4>2, <4>3
      <3>8. ASSUME NEW j \in Soon(i) PROVE \E k \in 1..Len(r) : at2[k] = j
        <4>1. CASE j = i
          BY <3>3, <3>6, <4>1
        <4>2. CASE j \in Soon(i - 1)
          BY <2>1, <3>3, <3>6, <4>2 DEF KeptAt
        <4> QED
          BY <3>2, <4>1, <4>2
      <3>9. \A k \in 1..Len(r) : r[k] = list[at2[k]]
        BY <3>1, <3>3, <3>5
      <3>10. KeptAt(list, Soon(i), r, at2)
        BY <3>4, <3>7, <3>8, <3>9 DEF KeptAt
      <3> QED
        BY <3>1, <3>10
    <2> QED
      BY <2>3, <2>4
  <1>4. Shown(none, 0)
    <2>1. none \in W /\ Len(none) = 0 /\ Soon(0) = {}
      BY <1>1
    <2>2. KeptAt(list, {}, none, none)
      BY <2>1 DEF KeptAt
    <2> HIDE DEF none, Soon
    <2> QED
      BY <2>1, <2>2
  <1> HIDE DEF Grown, W, Shown
  <1>5. \E g : Is(g)
    <2> DEFINE F == [p \in (1..n) \X W |-> Grown(p[1], p[2])]
    <2>1. F \in [(1..n) \X W -> W] /\ none \in W
      BY <1>2 DEF W
    <2>2. \A i \in 1..n, q \in W : F[<<i, q>>] = Grown(i, q)
      OBVIOUS
    <2> HIDE DEF F, n, none
    <2>3. PICK g : Steps(g, n, W, none, F)
      BY <1>1, <2>1, StepByStep
    <2>4. \A i \in 0..n : i # 0 => i \in 1..n /\ g[i - 1] \in W
      BY <1>1, <2>3 DEF Steps
    <2>5. \A i \in 0..n : g[i] = IF i = 0 THEN none ELSE Grown(i, g[i - 1])
      BY <2>2, <2>3, <2>4 DEF Steps
    <2>6. g = [i \in 0..n |-> IF i = 0 THEN none ELSE Grown(i, g[i - 1])]
      BY <2>3, <2>5 DEF Steps
    <2> QED
      BY <2>6 DEF none
  <1>6. Is(upTo)
    <2> HIDE DEF Is
    <2> QED
      BY <1>5
  <1>7. Kept(list, places) = upTo[n]
    BY DEF Kept, Grown
  <1> HIDE DEF upTo
  <1>8. upTo[0] = none /\ \A i \in 1..n : upTo[i] = Grown(i, upTo[i - 1])
    <2> HIDE DEF n
    <2>1. 0 \in 0..n /\ \A i \in 1..n : i \in 0..n /\ i # 0
      BY <1>1
    <2>2. \A i \in 0..n : upTo[i] = IF i = 0 THEN none ELSE Grown(i, upTo[i - 1])
      BY <1>6
    <2> QED
      BY <2>1, <2>2
  <1> HIDE DEF Is, n
  <1> DEFINE Good == {i \in Nat : i <= n => Shown(upTo[i], i)}
  <1>9. 0 \in Good
    BY <1>4, <1>8
  <1>10. ASSUME NEW k \in Nat, k \in Good PROVE k + 1 \in Good
    <2>1. SUFFICES ASSUME k + 1 <= n PROVE Shown(upTo[k + 1], k + 1)
      OBVIOUS
    <2>2. k + 1 \in 1..n /\ (k + 1) - 1 = k /\ Shown(upTo[k], k)
      BY <1>1, <1>10, <2>1
    <2> QED
      BY <1>3, <1>8, <2>2
  <1>11. n \in Good
    <2> HIDE DEF Good
    <2> QED
      BY <1>1, <1>9, <1>10, Naturals
  <1>12. Soon(n) = places
    BY <1>1
  <1> HIDE DEF Soon
  <1>13. Shown(upTo[n], n)
    BY <1>1, <1>11
  <1> QED
    BY <1>7, <1>12, <1>13 DEF Shown, W

\* The places of a list, and what is there.
LEMMA PlacesOf ==
    ASSUME NEW V, NEW list \in Seq(V)
    PROVE  /\ IsFiniteSet(DOMAIN list) /\ DOMAIN list = 1..Len(list) /\ Len(list) \in Nat
           /\ \A i \in DOMAIN list : list[i] \in V
  BY FS_Interval

\* A sum over what is kept is the sum over the list, of what is nothing where nothing is kept.
LEMMA KeptSums ==
    ASSUME NEW V, NEW list \in Seq(V), NEW places \in SUBSET DOMAIN list,
           NEW f, \A i \in DOMAIN list : f[i] \in Int /\ (i \notin places => f[i] = 0),
           NEW g, \A k \in DOMAIN Kept(list, places), i \in places :
                     Kept(list, places)[k] = list[i] => g[k] = f[i]
    PROVE  SumFunctionOnSet(g, DOMAIN Kept(list, places)) = SumFunctionOnSet(f, DOMAIN list)
  <1> DEFINE kept == Kept(list, places)
             all == DOMAIN list
             m == Len(kept)
  <1>1. kept \in Seq(V) /\ \E at : KeptAt(list, places, kept, at)
    BY KeptIsInOrder
  <1>2. all = 1..Len(list) /\ Len(list) \in Nat /\ DOMAIN kept = 1..m /\ m \in Nat
    BY <1>1
  <1> HIDE DEF kept, all
  <1>3. PICK at : KeptAt(list, places, kept, at)
    BY <1>1
  <1> HIDE DEF m
  <1>4. \A k \in 1..m : at[k] \in places /\ kept[k] = list[at[k]]
    BY <1>3 DEF KeptAt, m
  <1>5. \A k \in 1..m : f[at[k]] \in Int /\ g[k] = f[at[k]]
    BY <1>2, <1>4 DEF kept, all
  <1>6. ASSUME NEW k \in 1..m, NEW l \in 1..m, at[k] = at[l] PROVE k = l
    <2>1. at[k] \in Int /\ at[l] \in Int
      BY <1>2, <1>4 DEF all
    <2>2. (k < l => at[k] < at[l]) /\ (l < k => at[l] < at[k])
      BY <1>3 DEF KeptAt, m
    <2> QED
      BY <1>2, <1>6, <2>1, <2>2
  <1>7. \A i \in places : \E k \in 1..m : i = at[k]
    BY <1>3 DEF KeptAt, m
  <1>8. IsFiniteSet(1..m) /\ IsFiniteSet(all)
    BY <1>2, FS_Interval
  <1>9. SumFunctionOnSet(g, 1..m) = SumFunctionOnSet(f, places)
    <2> DEFINE S == 1..m
    <2>1. \A k \in S : at[k] \in places /\ f[at[k]] \in Int /\ g[k] = f[at[k]]
      BY <1>4, <1>5
    <2>2. \A k, l \in S : at[k] = at[l] => k = l
      BY <1>6
    <2>3. IsFiniteSet(S) /\ \A i \in places : \E k \in S : i = at[k]
      BY <1>7, <1>8
    <2> HIDE DEF S
    <2>4. SumFunctionOnSet(g, S) = SumFunctionOnSet(f, places)
      BY <2>1, <2>2, <2>3, SumRenamed
    <2> QED
      BY <2>4 DEF S
  <1>10. SumFunctionOnSet(f, all) = SumFunctionOnSet(f, places) + SumFunctionOnSet(f, all \ places)
    <2>1. places \in SUBSET all /\ \A i \in all : f[i] \in Int
      BY DEF all
    <2> QED
      BY <1>8, <2>1, SumSplit
  <1>11. SumFunctionOnSet(f, all \ places) = 0
    <2>1. IsFiniteSet(all \ places) /\ \A i \in all \ places : f[i] = 0
      BY <1>8, FS_Subset DEF all
    <2> QED
      BY <2>1, SumZero
  <1>12. SumFunctionOnSet(f, places) \in Int
    <2>1. IsFiniteSet(places) /\ \A i \in places : f[i] \in Int
      BY <1>8, FS_Subset DEF all
    <2> QED
      BY <2>1, SumInt
  <1> QED
    BY <1>2, <1>9, <1>10, <1>11, <1>12 DEF kept, all

\* What is kept are elements of the list.
LEMMA KeptArePlaces ==
    ASSUME NEW V, NEW list \in Seq(V), NEW places \in SUBSET DOMAIN list
    PROVE  /\ Kept(list, places) \in Seq(V)
           /\ \A k \in DOMAIN Kept(list, places) : \E i \in places : Kept(list, places)[k] = list[i]
  <1> DEFINE kept == Kept(list, places)
  <1>1. kept \in Seq(V) /\ \E at : KeptAt(list, places, kept, at)
    BY KeptIsInOrder
  <1> HIDE DEF kept
  <1>2. DOMAIN kept = 1..Len(kept)
    BY <1>1
  <1>3. PICK at : KeptAt(list, places, kept, at)
    BY <1>1
  <1>4. \A k \in 1..Len(kept) : at[k] \in places /\ kept[k] = list[at[k]]
    BY <1>3 DEF KeptAt
  <1> QED
    BY <1>1, <1>2, <1>4 DEF kept

\* A protection and a claim, and the amounts of protections.
Protection == [amount : Nat \ {0}, until : Nat]
Claim == [id : Nat, pay : Nat, deadline : Nat, uncovered : Nat, protections : Seq(Protection)]
AmountOf(protections) == [k \in DOMAIN protections |-> protections[k].amount]

\* A claim is what it is made of.
LEMMA ClaimIs ==
    ASSUME NEW c \in Claim
    PROVE  c = [id |-> c.id, pay |-> c.pay, deadline |-> c.deadline,
                uncovered |-> c.uncovered, protections |-> c.protections]
  BY DEF Claim

\* What protections come to.
LEMMA CoveredIs ==
    ASSUME NEW c, c.protections \in Seq(Protection)
    PROVE  /\ Covered(c) = SumFunctionOnSet(AmountOf(c.protections), DOMAIN c.protections)
           /\ Covered(c) \in Nat
           /\ c.protections = <<>> => Covered(c) = 0
  <1> DEFINE amounts == AmountOf(c.protections)
  <1>1. DOMAIN amounts = DOMAIN c.protections /\ IsFiniteSet(DOMAIN c.protections)
    BY PlacesOf DEF AmountOf
  <1>2. \A k \in DOMAIN c.protections : amounts[k] \in Nat
    <2>1. \A k \in DOMAIN c.protections : c.protections[k] \in Protection
      BY PlacesOf
    <2> QED
      BY <2>1 DEF AmountOf, Protection
  <1>3. Covered(c) = SumFunctionOnSet(amounts, DOMAIN c.protections)
    BY <1>1 DEF Covered, Total, AmountOf
  <1> HIDE DEF amounts
  <1>4. SumFunctionOnSet(amounts, DOMAIN c.protections) \in Nat
    BY <1>1, <1>2, SumNat
  <1>5. c.protections = <<>> => DOMAIN c.protections = {}
    OBVIOUS
  <1> QED
    BY <1>3, <1>4, <1>5, SumEmpty DEF amounts

\* What is protected is what each claim has covered.
LEMMA ProtectedIs ==
    ASSUME NEW list \in Seq(Claim)
    PROVE  /\ Protected(list) = SumFunctionOnSet([i \in DOMAIN list |-> Covered(list[i])], DOMAIN list)
           /\ Protected(list) \in Nat
           /\ \A i \in DOMAIN list : list[i] \in Claim /\ Covered(list[i]) \in Nat
  <1> DEFINE covered == [i \in DOMAIN list |-> Covered(list[i])]
  <1>1. DOMAIN covered = DOMAIN list /\ IsFiniteSet(DOMAIN list)
    BY PlacesOf
  <1>2. \A i \in DOMAIN list : list[i] \in Claim /\ list[i].protections \in Seq(Protection)
    <2>1. \A i \in DOMAIN list : list[i] \in Claim
      BY PlacesOf
    <2> QED
      BY <2>1 DEF Claim
  <1>3. \A i \in DOMAIN list : Covered(list[i]) \in Nat
    BY <1>2, CoveredIs
  <1>4. Protected(list) = SumFunctionOnSet(covered, DOMAIN list)
    BY <1>1 DEF Protected, Total
  <1>5. SumFunctionOnSet(covered, DOMAIN list) \in Nat
    <2>1. \A i \in DOMAIN list : covered[i] \in Nat
      BY <1>3
    <2> HIDE DEF covered
    <2> QED
      BY <1>1, <2>1, SumNat
  <1> QED
    BY <1>2, <1>3, <1>4, <1>5

\* A sum for one dividend.
OfDividend(amounts, id, list) == [i \in DOMAIN list |-> IF list[i].id = id THEN amounts[i] ELSE 0]

\* It is a sum over the places, no less than any of them gives.
LEMMA SumForIs ==
    ASSUME NEW list \in Seq(Claim), NEW amounts, \A i \in DOMAIN list : amounts[i] \in Nat, NEW id
    PROVE  /\ SumFor(amounts, id, list) = SumFunctionOnSet(OfDividend(amounts, id, list), DOMAIN list)
           /\ SumFor(amounts, id, list) \in Nat
           /\ \A i \in DOMAIN list : list[i].id = id => amounts[i] <= SumFor(amounts, id, list)
           /\ (\A i \in DOMAIN list : list[i].id = id => amounts[i] = 0) => SumFor(amounts, id, list) = 0
  <1> DEFINE f == OfDividend(amounts, id, list)
  <1>1. DOMAIN f = DOMAIN list /\ IsFiniteSet(DOMAIN list)
    BY PlacesOf DEF OfDividend
  <1>2. \A i \in DOMAIN list : f[i] = (IF list[i].id = id THEN amounts[i] ELSE 0) /\ f[i] \in Nat
    BY DEF OfDividend
  <1>3. SumFor(amounts, id, list) = SumFunctionOnSet(f, DOMAIN list)
    BY <1>1 DEF SumFor, Total, OfDividend
  <1> HIDE DEF f
  <1>4. SumFunctionOnSet(f, DOMAIN list) \in Nat
    BY <1>1, <1>2, SumNat
  <1>5. ASSUME NEW i \in DOMAIN list, list[i].id = id PROVE amounts[i] <= SumFunctionOnSet(f, DOMAIN list)
    <2>1. SumFunctionOnSet(f, DOMAIN list) = f[i] + SumFunctionOnSet(f, DOMAIN list \ {i})
      BY <1>1, <1>2, SumRemove
    <2>2. IsFiniteSet(DOMAIN list \ {i})
      BY <1>1, FS_Subset
    <2>3. SumFunctionOnSet(f, DOMAIN list \ {i}) \in Nat
      BY <1>2, <2>2, SumNat
    <2> QED
      BY <1>2, <1>5, <2>1, <2>3
  <1>6. (\A i \in DOMAIN list : list[i].id = id => amounts[i] = 0) => SumFunctionOnSet(f, DOMAIN list) = 0
    BY <1>1, <1>2, SumZero
  <1> QED
    BY <1>3, <1>4, <1>5, <1>6 DEF f

-----------------------------------------------------------------------------
(* What the close does to claims.                                          *)

\* What the protections kept come to.
LEMMA KeptAmounts ==
    ASSUME NEW V, NEW list \in Seq(V), \A i \in DOMAIN list : list[i].amount \in Nat,
           NEW places \in SUBSET DOMAIN list
    PROVE  LET kept == Kept(list, places)
               f == [i \in DOMAIN list |-> IF i \in places THEN list[i].amount ELSE 0]
           IN  SumFunctionOnSet(AmountOf(kept), DOMAIN kept) = SumFunctionOnSet(f, DOMAIN list)
  <1> DEFINE kept == Kept(list, places)
             f == [i \in DOMAIN list |-> IF i \in places THEN list[i].amount ELSE 0]
             g == AmountOf(kept)
  <1>1. \A i \in DOMAIN list : f[i] \in Int /\ (i \notin places => f[i] = 0)
    OBVIOUS
  <1>2. \A k \in DOMAIN kept, i \in places : kept[k] = list[i] => g[k] = f[i]
    BY DEF AmountOf
  <1> HIDE DEF f, g
  <1> QED
    BY <1>1, <1>2, KeptSums DEF f, g

\* A protection that is over is dropped.
LEMMA UnexpiredIs ==
    ASSUME NEW p \in Seq(Protection), day \in Nat
    PROVE  /\ Unexpired(p) \in Seq(Protection)
           /\ \A k \in DOMAIN Unexpired(p) : \E i \in DOMAIN p : Unexpired(p)[k] = p[i]
           /\ SumFunctionOnSet(AmountOf(Unexpired(p)), DOMAIN Unexpired(p))
                <= SumFunctionOnSet(AmountOf(p), DOMAIN p)
           /\ (\A i \in DOMAIN p : p[i].until >= day) =>
                SumFunctionOnSet(AmountOf(Unexpired(p)), DOMAIN Unexpired(p))
                  = SumFunctionOnSet(AmountOf(p), DOMAIN p)
  <1> DEFINE places == {k \in DOMAIN p : p[k].until >= day}
             f == [i \in DOMAIN p |-> IF i \in places THEN p[i].amount ELSE 0]
             g == AmountOf(p)
             kept == Unexpired(p)
  <1>1. IsFiniteSet(DOMAIN p) /\ \A i \in DOMAIN p : p[i].amount \in Nat
    <2>1. IsFiniteSet(DOMAIN p) /\ \A i \in DOMAIN p : p[i] \in Protection
      BY PlacesOf
    <2> QED
      BY <2>1 DEF Protection
  <1>2. kept = Kept(p, places) /\ places \in SUBSET DOMAIN p
    BY DEF Unexpired
  <1> HIDE DEF kept
  <1>3. kept \in Seq(Protection) /\ \A k \in DOMAIN kept : \E i \in DOMAIN p : kept[k] = p[i]
    <2> HIDE DEF places
    <2> QED
      BY <1>2, KeptArePlaces
  <1>4. SumFunctionOnSet(AmountOf(kept), DOMAIN kept) = SumFunctionOnSet(f, DOMAIN p)
    BY <1>1, <1>2, KeptAmounts
  <1>5. \A i \in DOMAIN p : f[i] \in Int /\ g[i] \in Int /\ f[i] <= g[i]
    BY <1>1 DEF AmountOf
  <1>6. (\A i \in DOMAIN p : p[i].until >= day) => \A i \in DOMAIN p : f[i] = g[i]
    BY DEF AmountOf
  <1> HIDE DEF f, g
  <1>7. SumFunctionOnSet(f, DOMAIN p) <= SumFunctionOnSet(g, DOMAIN p)
    BY <1>1, <1>5, SumAtMost
  <1>8. (\A i \in DOMAIN p : p[i].until >= day) => SumFunctionOnSet(f, DOMAIN p) = SumFunctionOnSet(g, DOMAIN p)
    BY <1>1, <1>5, <1>6, SumSame
  <1> QED
    BY <1>3, <1>4, <1>7, <1>8 DEF g, kept

\* At its deadline a claim loses what it missed, and what is over.
LEMMA DeadlineIs ==
    ASSUME NEW c \in Claim, day \in Nat
    PROVE  LET d == AtTheDeadline(c)
           IN  /\ d \in Claim /\ d.id = c.id /\ d.pay = c.pay /\ d.deadline = c.deadline
               /\ Missed(c) \in Nat /\ Missed(c) <= c.uncovered /\ d.uncovered = c.uncovered - Missed(c)
               /\ \A k \in DOMAIN d.protections : \E i \in DOMAIN c.protections : d.protections[k] = c.protections[i]
               /\ Covered(d) <= Covered(c)
               /\ (\A i \in DOMAIN c.protections : c.protections[i].until >= day) => Covered(d) = Covered(c)
  <1> DEFINE d == AtTheDeadline(c)
             left == Unexpired(c.protections)
  <1>1. c.protections \in Seq(Protection) /\ c.uncovered \in Nat /\ c.deadline \in Nat
    BY DEF Claim
  <1>2. Missed(c) \in Nat /\ Missed(c) <= c.uncovered
    BY <1>1 DEF Missed
  <1>3. left \in Seq(Protection)
    BY <1>1, UnexpiredIs
  <1>4. /\ d = [id |-> c.id, pay |-> c.pay, deadline |-> c.deadline,
                uncovered |-> c.uncovered - Missed(c), protections |-> left]
    <2>1. d = [c EXCEPT !.uncovered = c.uncovered - Missed(c), !.protections = left]
      BY DEF AtTheDeadline
    <2> HIDE DEF d, left
    <2>2. c = [id |-> c.id, pay |-> c.pay, deadline |-> c.deadline,
               uncovered |-> c.uncovered, protections |-> c.protections]
      BY ClaimIs
    <2> DEFINE u == c.uncovered - Missed(c)
    <2>3. d = [c EXCEPT !.uncovered = u, !.protections = left]
      BY <2>1
    <2> HIDE DEF u
    <2>4. d = [id |-> c.id, pay |-> c.pay, deadline |-> c.deadline, uncovered |-> u, protections |-> left]
      BY <2>2, <2>3
    <2> QED
      BY <2>4 DEF u
  <1> HIDE DEF d, left
  <1>5. d \in Claim /\ d.id = c.id /\ d.pay = c.pay /\ d.deadline = c.deadline
    BY <1>1, <1>2, <1>3, <1>4 DEF Claim
  <1>6. d.protections = left /\ d.uncovered = c.uncovered - Missed(c)
    BY <1>4
  <1>7. /\ Covered(d) = SumFunctionOnSet(AmountOf(left), DOMAIN left)
        /\ Covered(c) = SumFunctionOnSet(AmountOf(c.protections), DOMAIN c.protections)
    BY <1>1, <1>3, <1>6, CoveredIs
  <1> QED
    BY <1>1, <1>2, <1>5, <1>6, <1>7, UnexpiredIs DEF left, d

\* The pieces of a list of claims, and the order in which a shortfall takes them.
AmountsAt(list) == [p \in Piece(list) |-> AmountAt(list, p)]
TakenAt(list, shortfall) == [p \in Piece(list) |-> Removed(list, p, shortfall)]
InLine(list) == {pq \in Piece(list) \X Piece(list) : Sooner(list, pq[1], pq[2])}

\* A piece is a place in a claim.
LEMMA PiecesAre ==
    ASSUME NEW list \in Seq(Claim), NEW p \in Piece(list)
    PROVE  /\ p = <<p[1], p[2]>> /\ p[1] \in DOMAIN list /\ p[2] \in DOMAIN list[p[1]].protections
           /\ p[1] \in Nat /\ p[2] \in Nat
           /\ AmountAt(list, p) \in Nat /\ UntilAt(list, p) \in Nat
  <1>1. PICK i \in DOMAIN list : \E k \in DOMAIN list[i].protections : p = <<i, k>>
    BY DEF Piece
  <1>2. PICK k \in DOMAIN list[i].protections : p = <<i, k>>
    BY <1>1
  <1>3. i \in Nat /\ list[i] \in Claim
    BY PlacesOf
  <1>4. list[i].protections \in Seq(Protection)
    BY <1>3 DEF Claim
  <1>5. k \in Nat /\ list[i].protections[k] \in Protection
    BY <1>4, PlacesOf
  <1> QED
    BY <1>2, <1>3, <1>5 DEF AmountAt, UntilAt, Protection

\* Of two pieces one is taken sooner.
LEMMA PiecesInOrder ==
    ASSUME NEW list \in Seq(Claim)
    PROVE  InARow(Piece(list), InLine(list))
  <1>1. \A x, y \in Piece(list) : <<x, y>> \in InLine(list) <=> Sooner(list, x, y)
    BY DEF InLine
  <1>2. \A x \in Piece(list) : /\ x[1] \in Nat /\ x[2] \in Nat /\ UntilAt(list, x) \in Nat
                               /\ x = <<x[1], x[2]>>
    BY PiecesAre
  <1>3. \A x \in Piece(list) : ~ Sooner(list, x, x)
    BY <1>2 DEF Sooner
  <1>4. ASSUME NEW x \in Piece(list), NEW y \in Piece(list), NEW z \in Piece(list),
               Sooner(list, x, y), Sooner(list, y, z)
        PROVE  Sooner(list, x, z)
    BY <1>2, <1>4 DEF Sooner
  <1>5. ASSUME NEW x \in Piece(list), NEW y \in Piece(list), x # y
        PROVE  Sooner(list, x, y) \/ Sooner(list, y, x)
    <2>1. x[1] # y[1] \/ x[2] # y[2]
      BY <1>2, <1>5
    <2> QED
      BY <1>2, <2>1 DEF Sooner
  <1> QED
    BY <1>1, <1>3, <1>4, <1>5 DEF InARow

\* Amounts of the pieces, in a row for each claim.
PieceRows(list, f, row, sums) ==
    /\ \A p \in Piece(list) : f[p] \in Int
    /\ \A i \in DOMAIN list :
         /\ DOMAIN row[i] = DOMAIN list[i].protections /\ sums[i] = Total(row[i])
         /\ \A k \in DOMAIN list[i].protections : row[i][k] = f[<<i, k>>]

\* The sum over the pieces, claim by claim.
LEMMA SumOverPieces ==
    ASSUME NEW list \in Seq(Claim), NEW f, NEW row, NEW sums, PieceRows(list, f, row, sums)
    PROVE  /\ IsFiniteSet(Piece(list))
           /\ SumFunctionOnSet(f, Piece(list)) = SumFunctionOnSet(sums, DOMAIN list)
  <1> USE DEF PieceRows
  <1> DEFINE I == DOMAIN list
             D == [i \in I |-> DOMAIN list[i].protections]
             pairs == Piece(list)
  <1>1. \A p \in pairs : \E i \in I : \E k \in D[i] : p = <<i, k>>
    BY DEF Piece
  <1>2. ASSUME NEW i \in I
        PROVE  /\ IsFiniteSet(D[i]) /\ sums[i] = SumFunctionOnSet(row[i], D[i])
               /\ \A k \in D[i] : <<i, k>> \in pairs /\ f[<<i, k>>] \in Int /\ row[i][k] = f[<<i, k>>]
    <2>1. list[i] \in Claim
      BY PlacesOf
    <2>2. list[i].protections \in Seq(Protection)
      BY <2>1 DEF Claim
    <2>3. D[i] = DOMAIN list[i].protections /\ IsFiniteSet(D[i])
      BY <2>2, PlacesOf
    <2>4. \A k \in D[i] : <<i, k>> \in pairs
      BY DEF Piece
    <2>5. sums[i] = SumFunctionOnSet(row[i], D[i])
      BY <2>3 DEF Total
    <2> QED
      BY <2>3, <2>4, <2>5
  <1>3. IsFiniteSet(I)
    BY PlacesOf
  <1> HIDE DEF I, D, pairs
  <1>4. InRows(f, pairs, I, D, row, sums)
    BY <1>1, <1>2 DEF InRows
  <1>5. IsFiniteSet(pairs) /\ SumFunctionOnSet(f, pairs) = SumFunctionOnSet(sums, I)
    BY <1>3, <1>4, SumOfSums
  <1> QED
    BY <1>5 DEF I, pairs

\* The pieces are finitely many and come to what the claims have covered.
LEMMA PiecesSum ==
    ASSUME NEW list \in Seq(Claim)
    PROVE  /\ IsFiniteSet(Piece(list)) /\ \A x \in Piece(list) : AmountsAt(list)[x] \in Nat
           /\ SumFunctionOnSet(AmountsAt(list), Piece(list))
                = SumFunctionOnSet([i \in DOMAIN list |-> Covered(list[i])], DOMAIN list)
  <1> DEFINE amount == AmountsAt(list)
             covered == [i \in DOMAIN list |-> Covered(list[i])]
             amounts == [i \in DOMAIN list |-> [k \in DOMAIN list[i].protections |-> list[i].protections[k].amount]]
  <1>1. \A x \in Piece(list) : amount[x] \in Nat /\ amount[x] \in Int
    BY PiecesAre DEF AmountsAt
  <1>2. \A i \in DOMAIN list :
               /\ DOMAIN amounts[i] = DOMAIN list[i].protections /\ covered[i] = Total(amounts[i])
               /\ \A k \in DOMAIN list[i].protections : amounts[i][k] = amount[<<i, k>>]
    BY DEF AmountsAt, AmountAt, Piece, Covered
  <1> HIDE DEF amount, amounts, covered
  <1>3. PieceRows(list, amount, amounts, covered)
    BY <1>1, <1>2 DEF PieceRows
  <1>4. /\ IsFiniteSet(Piece(list))
        /\ SumFunctionOnSet(amount, Piece(list)) = SumFunctionOnSet(covered, DOMAIN list)
    BY <1>3, SumOverPieces
  <1> QED
    BY <1>1, <1>4 DEF amount, covered

\* What is taken from a piece is what those taken sooner leave of the shortfall, if it has as much.
LEMMA RemovedIs ==
    ASSUME NEW list \in Seq(Claim), NEW shortfall \in Nat, NEW x \in Piece(list)
    PROVE  Removed(list, x, shortfall)
             = Min({AmountAt(list, x),
                    Less(shortfall, SumFunctionOnSet(AmountsAt(list), {p \in Piece(list) : Sooner(list, p, x)}))})
  <1> DEFINE amount == AmountsAt(list)
             sooner == {p \in Piece(list) : Sooner(list, p, x)}
             f == [p \in sooner |-> AmountAt(list, p)]
  <1>1. Removed(list, x, shortfall) = Min({AmountAt(list, x), Less(shortfall, SumFunctionOnSet(f, sooner))})
    BY DEF Removed
  <1>2. \A p \in sooner : f[p] \in Int /\ f[p] = amount[p]
    <2>1. \A p \in Piece(list) : amount[p] \in Nat /\ amount[p] = AmountAt(list, p)
      BY PiecesSum DEF AmountsAt
    <2> HIDE DEF amount
    <2> QED
      BY <2>1
  <1>3. IsFiniteSet(sooner)
    BY PiecesSum, FS_Subset
  <1> HIDE DEF sooner, f, amount
  <1>4. SumFunctionOnSet(f, sooner) = SumFunctionOnSet(amount, sooner)
    BY <1>2, <1>3, SumSame
  <1> QED
    BY <1>1, <1>4 DEF sooner, amount

\* A piece loses something only when those taken sooner have lost all.
LEMMA SoonerGo ==
    ASSUME NEW list \in Seq(Claim), NEW shortfall \in Nat, NEW p \in Piece(list), NEW q \in Piece(list),
           Sooner(list, q, p), Removed(list, p, shortfall) > 0
    PROVE  Removed(list, q, shortfall) = AmountAt(list, q)
  <1> DEFINE amount == AmountsAt(list)
             S == Piece(list)
             beforeP == {x \in S : Sooner(list, x, p)}
             beforeQ == {x \in S : Sooner(list, x, q)}
             rest == beforeP \ (beforeQ \union {q})
  <1>1. IsFiniteSet(S) /\ \A x \in S : amount[x] \in Nat /\ amount[x] = AmountAt(list, x)
    BY PiecesSum DEF AmountsAt
  <1>2. /\ Removed(list, p, shortfall) = Min({AmountAt(list, p), Less(shortfall, SumFunctionOnSet(amount, beforeP))})
        /\ Removed(list, q, shortfall) = Min({AmountAt(list, q), Less(shortfall, SumFunctionOnSet(amount, beforeQ))})
    BY RemovedIs
  <1>3. q \notin beforeQ /\ q \in beforeP /\ beforeQ \subseteq beforeP
    <2>1. \A x, y \in Piece(list) : <<x, y>> \in InLine(list) <=> Sooner(list, x, y)
      BY DEF InLine
    <2>2. InARow(Piece(list), InLine(list))
      BY PiecesInOrder
    <2> QED
      BY <2>1, <2>2 DEF InARow
  <1> HIDE DEF amount, S, beforeP, beforeQ
  <1>4. beforeP \subseteq S /\ beforeQ \subseteq S
    BY DEF beforeP, beforeQ
  <1>5. \A T \in SUBSET S : IsFiniteSet(T) /\ SumFunctionOnSet(amount, T) \in Nat
    BY <1>1, FS_Subset, SumNat
  <1> DEFINE P == SumFunctionOnSet(amount, beforeP)
             Q == SumFunctionOnSet(amount, beforeQ)
             W == SumFunctionOnSet(amount, beforeQ \union {q})
             R == SumFunctionOnSet(amount, rest)
  <1>6. P \in Nat /\ Q \in Nat /\ R \in Nat
    BY <1>4, <1>5
  <1>7. W = amount[q] + Q
    <2>1. \A x \in beforeQ \union {q} : amount[x] \in Int
      BY <1>1, <1>4 DEF S
    <2>2. IsFiniteSet(beforeQ)
      BY <1>4, <1>5
    <2> QED
      BY <1>3, <2>1, <2>2, SumAdd
  <1>8. P = W + R
    <2>1. /\ IsFiniteSet(beforeP) /\ beforeQ \union {q} \in SUBSET beforeP
          /\ \A x \in beforeP : amount[x] \in Int
      BY <1>1, <1>3, <1>4, <1>5
    <2> QED
      BY <2>1, SumSplit
  <1>9. amount[q] \in Nat /\ amount[q] = AmountAt(list, q) /\ amount[p] \in Nat /\ amount[p] = AmountAt(list, p)
    BY <1>1 DEF S
  <1> HIDE DEF P, Q, W, R
  <1>10. Less(shortfall, P) > 0
    <2>1. Less(shortfall, P) \in Int
      BY <1>6 DEF Less
    <2>2. Removed(list, p, shortfall) = Lesser(amount[p], Less(shortfall, P))
      BY <1>2, <1>9, <2>1, LessOfTwo DEF P
    <2> QED
      BY <1>9, <2>1, <2>2 DEF Lesser
  <1>11. shortfall > P
    BY <1>6, <1>10 DEF Less
  <1>12. Less(shortfall, Q) = shortfall - Q /\ amount[q] <= shortfall - Q
    BY <1>6, <1>7, <1>8, <1>9, <1>11 DEF Less
  <1>13. Removed(list, q, shortfall) = Lesser(amount[q], Less(shortfall, Q))
    <2>1. Less(shortfall, Q) \in Int
      BY <1>6, <1>12
    <2> QED
      BY <1>2, <1>9, <2>1, LessOfTwo DEF Q
  <1> QED
    BY <1>9, <1>12, <1>13 DEF Lesser

\* A shortfall takes from each piece no more than it is, and in all what it is, or all there is.
LEMMA ShortfallIsTaken ==
    ASSUME NEW list \in Seq(Claim), NEW shortfall \in Nat
    PROVE  /\ \A i \in DOMAIN list : \A k \in DOMAIN list[i].protections :
                 /\ Removed(list, <<i, k>>, shortfall) \in Nat
                 /\ Removed(list, <<i, k>>, shortfall) <= list[i].protections[k].amount
           /\ SumFunctionOnSet([i \in DOMAIN list |-> Broken(list, shortfall, i)], DOMAIN list)
                = Lesser(shortfall, Protected(list))
  <1> DEFINE S == Piece(list)
             amount == AmountsAt(list)
             given == TakenAt(list, shortfall)
             R == InLine(list)
             covered == [i \in DOMAIN list |-> Covered(list[i])]
             broken == [i \in DOMAIN list |-> Broken(list, shortfall, i)]
  <1> DEFINE removed == [i \in DOMAIN list |->
                           [k \in DOMAIN list[i].protections |-> Removed(list, <<i, k>>, shortfall)]]
             before == [x \in S |-> {p \in Piece(list) : Sooner(list, p, x)}]
  <1>1. \A x \in S : amount[x] \in Nat
    BY PiecesAre DEF AmountsAt
  <1>3. \A i \in DOMAIN list :
               /\ DOMAIN removed[i] = DOMAIN list[i].protections /\ broken[i] = Total(removed[i])
               /\ \A k \in DOMAIN list[i].protections : removed[i][k] = given[<<i, k>>]
    BY DEF TakenAt, Piece, Broken
  <1>4. \A i \in DOMAIN list : \A k \in DOMAIN list[i].protections :
               <<i, k>> \in S /\ given[<<i, k>>] = Removed(list, <<i, k>>, shortfall)
               /\ amount[<<i, k>>] = list[i].protections[k].amount
    BY DEF Piece, TakenAt, AmountsAt, AmountAt
  <1>5. \A x \in S : before[x] \subseteq S /\ \A y \in S : y \in before[x] <=> <<y, x>> \in R
    BY DEF InLine
  <1>6. InARow(S, R)
    BY PiecesInOrder
  <1>7. IsFiniteSet(S) /\ SumFunctionOnSet(amount, S) = SumFunctionOnSet(covered, DOMAIN list)
    BY PiecesSum
  <1>8. ASSUME NEW x \in S
        PROVE  given[x] = Min({amount[x], Less(shortfall, SumFunctionOnSet(amount, before[x]))})
    BY RemovedIs DEF TakenAt, AmountsAt
  <1> HIDE DEF amount, given, R, S, before, removed, covered, broken
  <1>9. /\ \A x \in S : given[x] \in Nat /\ given[x] <= amount[x]
        /\ SumFunctionOnSet(given, S) = Lesser(shortfall, SumFunctionOnSet(amount, S))
    <2>1. GivesInARow(S, amount, R, before, shortfall, given)
      BY <1>1, <1>5, <1>6, <1>8 DEF GivesInARow
    <2>2. \A x \in S : given[x] \in Nat /\ given[x] <= amount[x]
      BY <1>7, <2>1, GivenInRow
    <2>3. SumFunctionOnSet(given, S) = Lesser(shortfall, SumFunctionOnSet(amount, S))
      BY <1>7, <2>1, GivenInRow
    <2> QED
      BY <2>2, <2>3
  <1>10. SumFunctionOnSet(given, S) = SumFunctionOnSet(broken, DOMAIN list)
    <2>1. \A x \in S : given[x] \in Int
      BY <1>9
    <2>2. PieceRows(list, given, removed, broken)
      BY <1>3, <2>1 DEF PieceRows, S
    <2> QED
      BY <2>2, SumOverPieces DEF S
  <1>11. SumFunctionOnSet(covered, DOMAIN list) = Protected(list)
    BY ProtectedIs DEF covered
  <1>12. \A i \in DOMAIN list : \A k \in DOMAIN list[i].protections :
                 /\ Removed(list, <<i, k>>, shortfall) \in Nat
                 /\ Removed(list, <<i, k>>, shortfall) <= list[i].protections[k].amount
    BY <1>4, <1>9
  <1> QED
    BY <1>7, <1>9, <1>10, <1>11, <1>12 DEF broken

\* A list of what is in a set is a sequence over it.
LEMMA ListOver ==
    ASSUME NEW V, NEW list \in Seq(V), NEW W, \A i \in DOMAIN list : list[i] \in W
    PROVE  list \in Seq(W)
  OBVIOUS

\* What is in a set at every place is a sequence over it.
LEMMA ListOf ==
    ASSUME NEW n, n \in Nat, NEW list, list = [i \in 1..n |-> list[i]], NEW W, \A i \in 1..n : list[i] \in W
    PROVE  list \in Seq(W)
  OBVIOUS

\* What a shortfall leaves of a claim's protections.
LeftOf(list, shortfall, i) ==
    [k \in DOMAIN list[i].protections |->
        [list[i].protections[k] EXCEPT !.amount = @ - Removed(list, <<i, k>>, shortfall)]]
KeptOf(list, shortfall, i) ==
    LET left == LeftOf(list, shortfall, i) IN Kept(left, {k \in DOMAIN left : left[k].amount > 0})

\* What a shortfall leaves of a claim and what it takes are what was protected; what is left ends when it did.
LEMMA BreakLeaves ==
    ASSUME NEW list \in Seq(Claim), NEW shortfall \in Nat, NEW i \in DOMAIN list
    PROVE  LET kept == KeptOf(list, shortfall, i)
           IN  /\ kept \in Seq(Protection)
               /\ \A k \in DOMAIN kept : \E m \in DOMAIN list[i].protections :
                     /\ kept[k].until = list[i].protections[m].until
                     /\ Removed(list, <<i, m>>, shortfall) < list[i].protections[m].amount
               /\ Broken(list, shortfall, i) \in Nat
               /\ SumFunctionOnSet(AmountOf(kept), DOMAIN kept) + Broken(list, shortfall, i) = Covered(list[i])
  <1> DEFINE p == list[i].protections
             left == LeftOf(list, shortfall, i)
             V == [amount : Nat, until : Nat]
             places == {k \in DOMAIN left : left[k].amount > 0}
             kept == Kept(left, places)
             removed == [k \in DOMAIN p |-> Removed(list, <<i, k>>, shortfall)]
             rest == [k \in DOMAIN left |-> IF k \in places THEN left[k].amount ELSE 0]
             amounts == AmountOf(p)
  <1>1. p \in Seq(Protection) /\ IsFiniteSet(DOMAIN p) /\ \A k \in DOMAIN p : p[k] \in Protection
    <2>1. list[i] \in Claim
      BY PlacesOf
    <2>2. p \in Seq(Protection)
      BY <2>1 DEF Claim
    <2> QED
      BY <2>2, PlacesOf
  <1>2. \A k \in DOMAIN p : /\ removed[k] \in Nat /\ removed[k] <= p[k].amount
                            /\ p[k].amount \in Nat /\ p[k].until \in Nat
    BY <1>1, ShortfallIsTaken DEF Protection
  <1>3. /\ DOMAIN left = DOMAIN p
        /\ \A k \in DOMAIN p : left[k] = [amount |-> p[k].amount - removed[k], until |-> p[k].until]
    <2>1. ASSUME NEW k \in DOMAIN p
          PROVE  left[k] = [amount |-> p[k].amount - removed[k], until |-> p[k].until]
      <3>1. p[k] = [amount |-> p[k].amount, until |-> p[k].until]
        BY <1>1 DEF Protection
      <3>2. left[k] = [p[k] EXCEPT !.amount = p[k].amount - removed[k]]
        BY DEF LeftOf
      <3> HIDE DEF p, left, removed
      <3> QED
        BY <3>1, <3>2
    <2>2. DOMAIN left = DOMAIN p
      BY DEF LeftOf
    <2> QED
      BY <2>1, <2>2
  <1>4. Broken(list, shortfall, i) = SumFunctionOnSet(removed, DOMAIN p)
    BY DEF Broken, Total
  <1>5. Covered(list[i]) = SumFunctionOnSet(amounts, DOMAIN p)
    BY <1>1, CoveredIs
  <1>6. KeptOf(list, shortfall, i) = kept
    BY DEF KeptOf
  <1> HIDE DEF left, removed, p
  <1>7. left \in Seq(V) /\ \A k \in DOMAIN left : left[k] \in V /\ left[k].amount \in Nat
    <2>1. ASSUME NEW k \in DOMAIN left PROVE left[k] \in V /\ left[k].amount \in Nat
      <3> DEFINE less == p[k].amount - removed[k]
      <3>1. less \in Nat /\ p[k].until \in Nat /\ left[k] = [amount |-> less, until |-> p[k].until]
        BY <1>2, <1>3
      <3> HIDE DEF less
      <3> QED
        BY <3>1
    <2>2. DOMAIN p = 1..Len(p) /\ Len(p) \in Nat
      BY <1>1, PlacesOf
    <2>3. left = [k \in 1..Len(p) |-> left[k]]
      BY <1>3, <2>2 DEF left, LeftOf, p
    <2> HIDE DEF V
    <2>4. left \in Seq(V)
      BY <1>3, <2>1, <2>2, <2>3
    <2> QED
      BY <2>1, <2>4
  <1>8. \A k \in DOMAIN p : rest[k] = p[k].amount - removed[k] /\ rest[k] \in Int
    <2>1. SUFFICES ASSUME NEW k \in DOMAIN p PROVE rest[k] = p[k].amount - removed[k] /\ rest[k] \in Int
      OBVIOUS
    <2>2. left[k].amount = p[k].amount - removed[k] /\ k \in DOMAIN left
      BY <1>3
    <2> QED
      BY <1>2, <2>2
  <1>9. places \in SUBSET DOMAIN left /\ \A k \in places : left[k].amount > 0
    OBVIOUS
  <1> HIDE DEF places, V
  <1>10. SumFunctionOnSet(AmountOf(kept), DOMAIN kept) = SumFunctionOnSet(rest, DOMAIN left)
    BY <1>7, <1>9, KeptAmounts
  <1>11. kept \in Seq(V) /\ \A k \in DOMAIN kept : \E m \in places : kept[k] = left[m]
    BY <1>7, <1>9, KeptArePlaces
  <1> HIDE DEF kept
  <1>12. \A k \in DOMAIN kept : /\ kept[k] \in Protection
                                /\ \E m \in DOMAIN p : kept[k].until = p[m].until /\ removed[m] < p[m].amount
    <2>1. SUFFICES ASSUME NEW k \in DOMAIN kept
                   PROVE  kept[k] \in Protection /\ \E m \in DOMAIN p : kept[k].until = p[m].until /\ removed[m] < p[m].amount
      OBVIOUS
    <2>2. PICK m \in places : kept[k] = left[m]
      BY <1>11
    <2>3. m \in DOMAIN p /\ left[m].amount > 0 /\ left[m].amount \in Nat
      BY <1>3, <1>7, <1>9
    <2>4. left[m] = [amount |-> left[m].amount, until |-> p[m].until] /\ p[m].until \in Nat
      BY <1>2, <1>3, <2>3
    <2>5. left[m] \in Protection /\ left[m].until = p[m].until
      BY <2>3, <2>4 DEF Protection
    <2>6. removed[m] < p[m].amount
      <3>1. left[m].amount = p[m].amount - removed[m]
        BY <1>3, <2>3
      <3> QED
        BY <1>2, <2>3, <3>1
    <2> QED
      BY <2>2, <2>3, <2>5, <2>6
  <1>13. kept \in Seq(Protection)
    BY <1>11, <1>12, ListOver
  <1>14. \A k \in DOMAIN p : amounts[k] = p[k].amount
    BY DEF AmountOf
  <1> HIDE DEF rest, amounts
  <1>15. SumFunctionOnSet(amounts, DOMAIN p) = SumFunctionOnSet(rest, DOMAIN p) + SumFunctionOnSet(removed, DOMAIN p)
    <2>1. \A k \in DOMAIN p : rest[k] \in Int /\ removed[k] \in Int /\ amounts[k] = rest[k] + removed[k]
      BY <1>2, <1>8, <1>14
    <2> QED
      BY <1>1, <2>1, SumPlus
  <1>16. SumFunctionOnSet(removed, DOMAIN p) \in Nat
    BY <1>1, <1>2, SumNat
  <1>17. \A k \in DOMAIN p : removed[k] = Removed(list, <<i, k>>, shortfall)
    BY DEF removed
  <1> QED
    BY <1>3, <1>4, <1>5, <1>6, <1>10, <1>12, <1>13, <1>15, <1>16, <1>17 DEF p

\* A shortfall changes protections alone, and takes from them what it is, or all there is.
ShortBy(list, shortfall, after) ==
    /\ after \in Seq(Claim) /\ DOMAIN after = DOMAIN list
    /\ \A i \in DOMAIN list :
         /\ after[i].id = list[i].id /\ after[i].pay = list[i].pay /\ after[i].deadline = list[i].deadline
         /\ after[i].uncovered = list[i].uncovered
         /\ \A k \in DOMAIN after[i].protections : \E m \in DOMAIN list[i].protections :
               /\ after[i].protections[k].until = list[i].protections[m].until
               /\ Removed(list, <<i, m>>, shortfall) < list[i].protections[m].amount
         /\ Broken(list, shortfall, i) \in Nat
         /\ Covered(after[i]) + Broken(list, shortfall, i) = Covered(list[i])
    /\ Protected(after) = Protected(list) - Lesser(shortfall, Protected(list))
    /\ shortfall = 0 => \A i \in DOMAIN list : Broken(list, shortfall, i) = 0

\* Break takes a shortfall, from the protections alone.
LEMMA BreakIs ==
    ASSUME NEW list \in Seq(Claim), NEW shortfall \in Nat
    PROVE  ShortBy(list, shortfall, Break(list, shortfall))
  <1> DEFINE after == Break(list, shortfall)
             broken == [i \in DOMAIN list |-> Broken(list, shortfall, i)]
             before == [i \in DOMAIN list |-> Covered(list[i])]
             then == [i \in DOMAIN list |-> Covered(after[i])]
  <1>1. IsFiniteSet(DOMAIN list) /\ DOMAIN list = 1..Len(list) /\ Len(list) \in Nat /\ \A i \in DOMAIN list : list[i] \in Claim
    BY PlacesOf
  <1>2. /\ DOMAIN after = DOMAIN list
        /\ after = [i \in 1..Len(list) |-> after[i]]
        /\ \A i \in DOMAIN list : after[i] = [list[i] EXCEPT !.protections = KeptOf(list, shortfall, i)]
    BY <1>1 DEF Break, KeptOf, LeftOf
  <1> HIDE DEF after
  <1>3. \A i \in DOMAIN list :
          after[i] = [id |-> list[i].id, pay |-> list[i].pay, deadline |-> list[i].deadline,
                      uncovered |-> list[i].uncovered, protections |-> KeptOf(list, shortfall, i)]
    <2>1. SUFFICES ASSUME NEW i \in DOMAIN list
                   PROVE  after[i] = [id |-> list[i].id, pay |-> list[i].pay, deadline |-> list[i].deadline,
                                      uncovered |-> list[i].uncovered, protections |-> KeptOf(list, shortfall, i)]
      OBVIOUS
    <2> DEFINE c == list[i]
               d == after[i]
    <2>2. c = [id |-> c.id, pay |-> c.pay, deadline |-> c.deadline,
               uncovered |-> c.uncovered, protections |-> c.protections]
      BY <1>1, ClaimIs
    <2>3. d = [c EXCEPT !.protections = KeptOf(list, shortfall, i)]
      BY <1>2
    <2> HIDE DEF c, d
    <2>4. d = [id |-> c.id, pay |-> c.pay, deadline |-> c.deadline,
               uncovered |-> c.uncovered, protections |-> KeptOf(list, shortfall, i)]
      BY <2>2, <2>3
    <2> QED
      BY <2>4 DEF c, d
  <1>4. ASSUME NEW i \in DOMAIN list
        PROVE  /\ KeptOf(list, shortfall, i) \in Seq(Protection)
               /\ \A k \in DOMAIN KeptOf(list, shortfall, i) : \E m \in DOMAIN list[i].protections :
                     /\ KeptOf(list, shortfall, i)[k].until = list[i].protections[m].until
                     /\ Removed(list, <<i, m>>, shortfall) < list[i].protections[m].amount
               /\ Broken(list, shortfall, i) \in Nat
               /\ SumFunctionOnSet(AmountOf(KeptOf(list, shortfall, i)), DOMAIN KeptOf(list, shortfall, i))
                     + Broken(list, shortfall, i) = Covered(list[i])
    BY BreakLeaves
  <1>5. ASSUME NEW i \in DOMAIN list
        PROVE  /\ after[i] \in Claim /\ Covered(after[i]) + Broken(list, shortfall, i) = Covered(list[i])
               /\ Covered(after[i]) \in Nat /\ after[i].protections = KeptOf(list, shortfall, i)
               /\ after[i].id = list[i].id /\ after[i].pay = list[i].pay
               /\ after[i].deadline = list[i].deadline /\ after[i].uncovered = list[i].uncovered
    <2> DEFINE left == KeptOf(list, shortfall, i)
    <2>0. after[i] = [id |-> list[i].id, pay |-> list[i].pay, deadline |-> list[i].deadline,
                      uncovered |-> list[i].uncovered, protections |-> left]
      BY <1>3
    <2>4. left \in Seq(Protection)
      BY <1>4
    <2> HIDE DEF left
    <2>1. /\ after[i].protections = left /\ after[i].id = list[i].id /\ after[i].pay = list[i].pay
          /\ after[i].deadline = list[i].deadline /\ after[i].uncovered = list[i].uncovered
      BY <2>0
    <2>2. after[i] \in Claim
      <3>1. /\ list[i].id \in Nat /\ list[i].pay \in Nat
            /\ list[i].deadline \in Nat /\ list[i].uncovered \in Nat
        BY <1>1 DEF Claim
      <3> QED
        BY <2>0, <2>4, <3>1 DEF Claim
    <2>3. Covered(after[i]) = SumFunctionOnSet(AmountOf(left), DOMAIN left) /\ Covered(after[i]) \in Nat
      BY <2>1, <2>4, CoveredIs
    <2> QED
      BY <1>4, <2>1, <2>2, <2>3 DEF left
  <1>6. after \in Seq(Claim)
    <2> DEFINE C == Claim
    <2>1. \A i \in 1..Len(list) : after[i] \in C
      BY <1>1, <1>5
    <2> HIDE DEF C
    <2>2. after \in Seq(C)
      BY <1>1, <1>2, <2>1
    <2> QED
      BY <2>2 DEF C
  <1>7. /\ Protected(list) = SumFunctionOnSet(before, DOMAIN list) /\ Protected(list) \in Nat
        /\ \A i \in DOMAIN list : before[i] \in Nat
    BY ProtectedIs
  <1>8. Protected(after) = SumFunctionOnSet(then, DOMAIN list)
    BY <1>2, <1>6, ProtectedIs
  <1>9. SumFunctionOnSet(broken, DOMAIN list) = Lesser(shortfall, Protected(list))
    BY ShortfallIsTaken
  <1>10. \A i \in DOMAIN list : /\ then[i] \in Int /\ broken[i] \in Nat /\ before[i] = then[i] + broken[i]
                                /\ broken[i] = Broken(list, shortfall, i)
    BY <1>4, <1>5
  <1> HIDE DEF broken, before, then
  <1>11. SumFunctionOnSet(before, DOMAIN list) = SumFunctionOnSet(then, DOMAIN list) + SumFunctionOnSet(broken, DOMAIN list)
    BY <1>1, <1>10, SumPlus
  <1>12. SumFunctionOnSet(then, DOMAIN list) \in Int /\ Lesser(shortfall, Protected(list)) \in Int
    BY <1>1, <1>7, <1>10, SumInt DEF Lesser
  <1>13. Protected(after) = Protected(list) - Lesser(shortfall, Protected(list))
    BY <1>7, <1>8, <1>9, <1>11, <1>12
  <1>14. ASSUME shortfall = 0, NEW i \in DOMAIN list PROVE Broken(list, shortfall, i) = 0
    <2>1. SumFunctionOnSet(broken, DOMAIN list) = 0
      BY <1>7, <1>9, <1>14 DEF Lesser
    <2>2. SumFunctionOnSet(broken, DOMAIN list) = broken[i] + SumFunctionOnSet(broken, DOMAIN list \ {i})
      BY <1>1, <1>10, SumRemove
    <2>3. IsFiniteSet(DOMAIN list \ {i})
      BY <1>1, FS_Subset
    <2>4. SumFunctionOnSet(broken, DOMAIN list \ {i}) \in Nat
      BY <1>10, <2>3, SumNat
    <2> QED
      BY <1>10, <2>1, <2>2, <2>4
  <1>15. \A i \in DOMAIN list : \A k \in DOMAIN after[i].protections : \E m \in DOMAIN list[i].protections :
            /\ after[i].protections[k].until = list[i].protections[m].until
            /\ Removed(list, <<i, m>>, shortfall) < list[i].protections[m].amount
    <2>1. SUFFICES ASSUME NEW i \in DOMAIN list
                   PROVE  \A k \in DOMAIN after[i].protections : \E m \in DOMAIN list[i].protections :
                              /\ after[i].protections[k].until = list[i].protections[m].until
                              /\ Removed(list, <<i, m>>, shortfall) < list[i].protections[m].amount
      OBVIOUS
    <2>2. after[i].protections = KeptOf(list, shortfall, i)
      BY <1>5
    <2> QED
      BY <1>4, <2>2
  <1> QED
    BY <1>2, <1>4, <1>5, <1>6, <1>13, <1>14, <1>15 DEF after, ShortBy

\* A claim that loses something had protected something as long as anything that is left.
LEMMA LatestGo ==
    ASSUME NEW list \in Seq(Claim), NEW shortfall \in Nat, NEW after, ShortBy(list, shortfall, after),
           NEW i \in DOMAIN list, Broken(list, shortfall, i) > 0,
           NEW j \in DOMAIN list, NEW k \in DOMAIN after[j].protections
    PROVE  \E l \in DOMAIN list[i].protections :
               list[i].protections[l].until >= after[j].protections[k].until
  <1>1. PICK m \in DOMAIN list[j].protections :
            /\ after[j].protections[k].until = list[j].protections[m].until
            /\ Removed(list, <<j, m>>, shortfall) < list[j].protections[m].amount
    BY DEF ShortBy
  <1>2. PICK l \in DOMAIN list[i].protections : Removed(list, <<i, l>>, shortfall) > 0
    <2> DEFINE D == DOMAIN list[i].protections
               f == [x \in D |-> Removed(list, <<i, x>>, shortfall)]
    <2>1. SUFFICES ASSUME \A x \in D : ~ (f[x] > 0) PROVE FALSE
      OBVIOUS
    <2>2. \A x \in D : f[x] \in Nat
      BY ShortfallIsTaken
    <2>3. IsFiniteSet(D)
      <3>1. list[i] \in Claim
        BY PlacesOf
      <3>2. list[i].protections \in Seq(Protection)
        BY <3>1 DEF Claim
      <3> QED
        BY <3>2, PlacesOf
    <2>4. Broken(list, shortfall, i) = SumFunctionOnSet(f, D)
      BY DEF Broken, Total
    <2> HIDE DEF f, D
    <2>5. \A x \in D : f[x] = 0
      BY <2>1, <2>2
    <2>6. SumFunctionOnSet(f, D) = 0
      BY <2>3, <2>5, SumZero
    <2> QED
      BY <2>4, <2>6
  <1> DEFINE p == <<i, l>>
             q == <<j, m>>
  <1>3. p \in Piece(list) /\ q \in Piece(list)
    BY DEF Piece
  <1>4. /\ UntilAt(list, p) = list[i].protections[l].until
        /\ UntilAt(list, q) = list[j].protections[m].until
        /\ AmountAt(list, q) = list[j].protections[m].amount
    BY DEF UntilAt, AmountAt
  <1> HIDE DEF p, q
  <1>5. UntilAt(list, p) \in Nat /\ UntilAt(list, q) \in Nat /\ AmountAt(list, q) \in Nat
    BY <1>3, PiecesAre
  <1>6. Removed(list, p, shortfall) > 0 /\ Removed(list, q, shortfall) < AmountAt(list, q)
    BY <1>1, <1>2, <1>4 DEF p, q
  <1>7. ~ Sooner(list, q, p)
    <2>1. Removed(list, q, shortfall) # AmountAt(list, q)
      BY <1>5, <1>6
    <2> QED
      BY <1>3, <1>6, <2>1, SoonerGo
  <1>8. UntilAt(list, p) >= UntilAt(list, q)
    BY <1>5, <1>7 DEF Sooner
  <1> QED
    BY <1>1, <1>4, <1>8

\* What is open of a dividend in a list of claims.
OpenIn(list, id) == SumFor([i \in DOMAIN list |-> list[i].uncovered + Covered(list[i])], id, list)

\* It is a sum of amounts over the places of the list.
LEMMA OpenInIs ==
    ASSUME NEW list \in Seq(Claim), NEW id
    PROVE  LET amounts == [i \in DOMAIN list |-> list[i].uncovered + Covered(list[i])]
           IN  /\ \A i \in DOMAIN list : amounts[i] = list[i].uncovered + Covered(list[i]) /\ amounts[i] \in Nat
               /\ OpenIn(list, id) = SumFunctionOnSet(OfDividend(amounts, id, list), DOMAIN list)
               /\ OpenIn(list, id) \in Nat
  <1> DEFINE amounts == [i \in DOMAIN list |-> list[i].uncovered + Covered(list[i])]
  <1>1. \A i \in DOMAIN list : list[i].uncovered \in Nat /\ Covered(list[i]) \in Nat
    <2>1. \A i \in DOMAIN list : list[i] \in Claim /\ Covered(list[i]) \in Nat
      BY ProtectedIs
    <2> QED
      BY <2>1 DEF Claim
  <1>2. \A i \in DOMAIN list : amounts[i] = list[i].uncovered + Covered(list[i]) /\ amounts[i] \in Nat
    BY <1>1
  <1>3. OpenIn(list, id) = SumFor(amounts, id, list)
    BY DEF OpenIn
  <1> HIDE DEF amounts
  <1>4. /\ SumFor(amounts, id, list) = SumFunctionOnSet(OfDividend(amounts, id, list), DOMAIN list)
        /\ SumFor(amounts, id, list) \in Nat
    BY <1>2, SumForIs
  <1> QED
    BY <1>2, <1>3, <1>4 DEF amounts

\* A claim with nothing left is dropped: nothing changes what is protected, or open of a dividend.
LEMMA StillOpenIs ==
    ASSUME NEW list \in Seq(Claim)
    PROVE  LET after == StillOpen(list)
           IN  /\ after \in Seq(Claim)
               /\ \A k \in DOMAIN after : \E i \in DOMAIN list : after[k] = list[i]
               /\ Protected(after) = Protected(list)
               /\ \A id : OpenIn(after, id) = OpenIn(list, id)
  <1> DEFINE places == {i \in DOMAIN list : list[i].uncovered > 0 \/ list[i].protections # <<>>}
             after == Kept(list, places)
  <1>1. StillOpen(list) = after
    BY DEF StillOpen
  <1>2. places \in SUBSET DOMAIN list
    OBVIOUS
  <1>3. \A i \in DOMAIN list :
          /\ list[i].uncovered \in Nat /\ Covered(list[i]) \in Nat
          /\ i \notin places => list[i].uncovered = 0 /\ Covered(list[i]) = 0
    <2>1. SUFFICES ASSUME NEW i \in DOMAIN list
                   PROVE  /\ list[i].uncovered \in Nat /\ Covered(list[i]) \in Nat
                          /\ i \notin places => list[i].uncovered = 0 /\ Covered(list[i]) = 0
      OBVIOUS
    <2>2. list[i] \in Claim /\ Covered(list[i]) \in Nat
      BY ProtectedIs
    <2>3. list[i].uncovered \in Nat /\ list[i].protections \in Seq(Protection)
      BY <2>2 DEF Claim
    <2>4. list[i].protections = <<>> => Covered(list[i]) = 0
      BY <2>3, CoveredIs
    <2>5. i \notin places => list[i].protections = <<>> /\ ~ (list[i].uncovered > 0)
      OBVIOUS
    <2> QED
      BY <2>2, <2>3, <2>4, <2>5
  <1> HIDE DEF places
  <1>4. after \in Seq(Claim) /\ \A k \in DOMAIN after : \E i \in places : after[k] = list[i]
    BY <1>2, KeptArePlaces
  <1>5. Protected(after) = Protected(list)
    <2> DEFINE f == [i \in DOMAIN list |-> Covered(list[i])]
               g == [i \in DOMAIN after |-> Covered(after[i])]
    <2>1. \A i \in DOMAIN list : f[i] \in Int /\ (i \notin places => f[i] = 0)
      BY <1>3
    <2>2. \A k \in DOMAIN after, i \in places : after[k] = list[i] => g[k] = f[i]
      BY <1>2
    <2>3. Protected(list) = SumFunctionOnSet(f, DOMAIN list)
      BY ProtectedIs
    <2>4. Protected(after) = SumFunctionOnSet(g, DOMAIN after)
      BY <1>4, ProtectedIs
    <2> HIDE DEF f, g
    <2> QED
      BY <1>2, <2>1, <2>2, <2>3, <2>4, KeptSums
  <1>6. ASSUME NEW id PROVE OpenIn(after, id) = OpenIn(list, id)
    <2> DEFINE old == [i \in DOMAIN list |-> list[i].uncovered + Covered(list[i])]
               new == [i \in DOMAIN after |-> after[i].uncovered + Covered(after[i])]
               f == OfDividend(old, id, list)
               g == OfDividend(new, id, after)
    <2>1. \A i \in DOMAIN list : f[i] = IF list[i].id = id THEN list[i].uncovered + Covered(list[i]) ELSE 0
      BY DEF OfDividend
    <2>2. \A k \in DOMAIN after : g[k] = IF after[k].id = id THEN after[k].uncovered + Covered(after[k]) ELSE 0
      BY DEF OfDividend
    <2>3. OpenIn(list, id) = SumFunctionOnSet(f, DOMAIN list)
      BY OpenInIs
    <2>4. OpenIn(after, id) = SumFunctionOnSet(g, DOMAIN after)
      BY <1>4, OpenInIs
    <2> HIDE DEF f, g, after
    <2>5. \A i \in DOMAIN list : f[i] \in Int /\ (i \notin places => f[i] = 0)
      BY <1>3, <2>1
    <2>6. \A k \in DOMAIN after, i \in places : after[k] = list[i] => g[k] = f[i]
      BY <1>2, <2>1, <2>2
    <2>7. SumFunctionOnSet(g, DOMAIN after) = SumFunctionOnSet(f, DOMAIN list)
      BY <1>2, <2>5, <2>6, KeptSums DEF after
    <2> QED
      BY <2>3, <2>4, <2>7
  <1> QED
    BY <1>1, <1>2, <1>4, <1>5, <1>6

-----------------------------------------------------------------------------
(* What a buy covers.                                                      *)

\* The value of a buy goes to what is wanted, claim by claim.
LEMMA ValueIsTaken ==
    ASSUME NEW list \in Seq(Claim), NEW value, value \in Nat
    PROVE  /\ \A i \in DOMAIN list : /\ Wanted(list[i]) \in Nat /\ Wanted(list[i]) <= list[i].uncovered
                                     /\ TakenBy(list, i, value) \in Nat
                                     /\ TakenBy(list, i, value) <= Wanted(list[i])
           /\ SumFunctionOnSet([i \in DOMAIN list |-> TakenBy(list, i, value)], DOMAIN list) <= value
           /\ \A i, j \in DOMAIN list :
                 i < j /\ TakenBy(list, j, value) > 0 => TakenBy(list, i, value) = Wanted(list[i])
  <1> DEFINE S == DOMAIN list
             wanted == [i \in S |-> Wanted(list[i])]
             taken == [i \in S |-> TakenBy(list, i, value)]
             before == [i \in S |-> 1..(i - 1)]
             R == {p \in S \X S : p[1] < p[2]}
  <1>1. IsFiniteSet(S) /\ S = 1..Len(list) /\ Len(list) \in Nat /\ \A i \in S : list[i] \in Claim
    BY PlacesOf
  <1>2. \A i \in S : wanted[i] = Wanted(list[i]) /\ wanted[i] \in Nat /\ wanted[i] <= list[i].uncovered
    BY <1>1 DEF Wanted, Claim
  <1>3. \A i, j \in S : <<i, j>> \in R <=> i < j
    OBVIOUS
  <1>4. InARow(S, R)
    <2>1. \A i \in S : i \in Nat
      BY <1>1
    <2> HIDE DEF R, S
    <2>2. \A x \in S : <<x, x>> \notin R
      BY <1>3, <2>1
    <2>3. \A x, y, z \in S : <<x, y>> \in R /\ <<y, z>> \in R => <<x, z>> \in R
      BY <1>3, <2>1
    <2>4. \A x, y \in S : x # y => <<x, y>> \in R \/ <<y, x>> \in R
      BY <1>3, <2>1
    <2> QED
      BY <2>2, <2>3, <2>4 DEF InARow
  <1>5. ASSUME NEW i \in S
        PROVE  /\ before[i] \subseteq S /\ before[i] = 1..(i - 1) /\ IsFiniteSet(before[i])
               /\ \A j \in S : (j \in before[i] <=> j < i) /\ (j \in before[i] <=> <<j, i>> \in R)
    <2>1. before[i] = 1..(i - 1) /\ i \in 1..Len(list)
      BY <1>1
    <2>2. before[i] \subseteq S
      BY <1>1, <2>1
    <2>3. IsFiniteSet(before[i])
      BY <1>1, <2>2, FS_Subset
    <2>4. \A j \in S : j \in before[i] <=> j < i
      BY <1>1, <2>1
    <2> QED
      BY <1>3, <2>1, <2>2, <2>3, <2>4
  <1>6. ASSUME NEW i \in S
        PROVE  taken[i] = Min({wanted[i], Less(value, SumFunctionOnSet(wanted, before[i]))})
    <2> DEFINE f == [j \in 1..(i - 1) |-> Wanted(list[j])]
    <2>1. taken[i] = Min({Wanted(list[i]), Less(value, SumFunctionOnSet(f, 1..(i - 1)))})
      BY DEF TakenBy, Total
    <2>2. \A j \in before[i] : f[j] \in Int /\ f[j] = wanted[j]
      BY <1>2, <1>5
    <2> HIDE DEF f, wanted, taken
    <2>3. SumFunctionOnSet(f, before[i]) = SumFunctionOnSet(wanted, before[i])
      BY <1>5, <2>2, SumSame
    <2> QED
      BY <1>2, <1>5, <2>1, <2>3
  <1> HIDE DEF S, wanted, before, R
  <1>7. GivesInARow(S, wanted, R, before, value, taken)
    BY <1>2, <1>4, <1>5, <1>6 DEF GivesInARow
  <1>8. ASSUME NEW i \in S PROVE taken[i] = TakenBy(list, i, value)
    OBVIOUS
  <1> HIDE DEF taken
  <1>9. \A i \in S : taken[i] \in Nat /\ taken[i] <= wanted[i]
    BY <1>1, <1>7, GivenInRow
  <1>10. /\ SumFunctionOnSet(wanted, S) \in Nat
         /\ SumFunctionOnSet(taken, S) = Lesser(value, SumFunctionOnSet(wanted, S))
    BY <1>1, <1>7, GivenInRow
  <1>11. SumFunctionOnSet(taken, S) <= value
    BY <1>10 DEF Lesser
  <1>12. ASSUME NEW i \in S, NEW j \in S, i < j, taken[j] > 0 PROVE taken[i] = wanted[i]
    <2>1. \A k \in S : /\ wanted[k] \in Nat /\ SumFunctionOnSet(wanted, before[k]) \in Nat
                       /\ taken[k] = Lesser(wanted[k], Less(value, SumFunctionOnSet(wanted, before[k])))
      <3>1. SUFFICES ASSUME NEW k \in S
                     PROVE  /\ wanted[k] \in Nat /\ SumFunctionOnSet(wanted, before[k]) \in Nat
                            /\ taken[k] = Lesser(wanted[k], Less(value, SumFunctionOnSet(wanted, before[k])))
        OBVIOUS
      <3>2. SumFunctionOnSet(wanted, before[k]) \in Nat
        <4>1. IsFiniteSet(before[k]) /\ \A x \in before[k] : wanted[x] \in Nat
          BY <1>2, <1>5
        <4> QED
          BY <4>1, SumNat
      <3> DEFINE less == Less(value, SumFunctionOnSet(wanted, before[k]))
      <3>3. less \in Nat
        BY <3>2 DEF Less
      <3>4. wanted[k] \in Nat /\ taken[k] = Min({wanted[k], less})
        BY <1>2, <1>6
      <3> HIDE DEF less
      <3>5. Min({wanted[k], less}) = Lesser(wanted[k], less)
        BY <3>3, <3>4, LessOfTwo
      <3> QED
        BY <3>2, <3>4, <3>5 DEF less
    <2>2. SumFunctionOnSet(wanted, before[i]) + wanted[i] <= SumFunctionOnSet(wanted, before[j])
      <3> DEFINE T == before[j]
                 rest == T \ {i}
      <3>1. i \in T /\ IsFiniteSet(T) /\ \A x \in T : wanted[x] \in Int /\ wanted[x] \in Nat
        <4>1. T \subseteq S /\ IsFiniteSet(T)
          BY <1>5
        <4>2. i \in T
          BY <1>5, <1>12
        <4> HIDE DEF T
        <4> QED
          BY <1>2, <4>1, <4>2
      <3>2. SumFunctionOnSet(wanted, T) = wanted[i] + SumFunctionOnSet(wanted, rest)
        BY <3>1, SumRemove
      <3>3. before[i] \in SUBSET rest
        <4>1. \A x \in before[i] : x \in S /\ x < i /\ x \in Int /\ i \in Int /\ j \in Int
          BY <1>1, <1>5
        <4>2. \A x \in before[i] : x < j /\ x # i
          BY <1>12, <4>1
        <4> QED
          BY <1>5, <4>1, <4>2
      <3>4. IsFiniteSet(rest) /\ IsFiniteSet(rest \ before[i])
        BY <3>1, FS_Subset
      <3>5. SumFunctionOnSet(wanted, rest) = SumFunctionOnSet(wanted, before[i]) + SumFunctionOnSet(wanted, rest \ before[i])
        BY <3>1, <3>3, <3>4, SumSplit
      <3>6. SumFunctionOnSet(wanted, rest \ before[i]) \in Nat
        BY <3>1, <3>4, SumNat
      <3>7. SumFunctionOnSet(wanted, before[i]) \in Nat /\ wanted[i] \in Nat
        BY <2>1
      <3> HIDE DEF rest
      <3> QED
        BY <3>2, <3>5, <3>6, <3>7
    <2> QED
      BY <1>12, <2>1, <2>2 DEF Less, Lesser
  <1>13. \A i \in S : /\ Wanted(list[i]) \in Nat /\ Wanted(list[i]) <= list[i].uncovered
                      /\ TakenBy(list, i, value) \in Nat /\ TakenBy(list, i, value) <= Wanted(list[i])
    BY <1>2, <1>8, <1>9
  <1>14. \A i, j \in S : i < j /\ TakenBy(list, j, value) > 0 => TakenBy(list, i, value) = Wanted(list[i])
    BY <1>2, <1>8, <1>12
  <1> QED
    BY <1>11, <1>13, <1>14 DEF S, taken

\* The last day of the first year's protections: none ends before it.
FirstEnd == HoldYears * YearDays

\* A protection ends after the years it is held, its own included.
LEMMA EndsAreLate ==
    ASSUME NEW d \in Nat \ {0}
    PROVE  ProtectionEnd(d) \in Nat /\ FirstEnd \in Nat /\ FirstEnd <= ProtectionEnd(d)
  <1> DEFINE y == Year(d)
  <1>1. YearDays \in Nat \ {0} /\ HoldYears \in Nat \ {0}
    BY ExemptionConstants
  <1>2. y \in Nat
    <2>1. d - 1 \in Nat
      OBVIOUS
    <2> QED
      BY <1>1, <2>1 DEF Year
  <1> HIDE DEF y
  <1>3. ProtectionEnd(d) = (y + HoldYears) * YearDays
    BY DEF ProtectionEnd, y
  <1>4. (y + HoldYears) * YearDays = y * YearDays + HoldYears * YearDays
    BY <1>1, <1>2
  <1>5. y * YearDays \in Nat /\ HoldYears * YearDays \in Nat
    BY <1>1, <1>2
  <1> QED
    BY <1>3, <1>4, <1>5 DEF FirstEnd

\* A protection more.
LEMMA ProtectedMore ==
    ASSUME NEW p, p \in Seq(Protection), NEW x, x \in Protection
    PROVE  LET more == Append(p, x)
           IN  /\ more \in Seq(Protection)
               /\ \A k \in DOMAIN more : more[k] = x \/ \E m \in DOMAIN p : more[k] = p[m]
               /\ SumFunctionOnSet(AmountOf(more), DOMAIN more)
                    = x.amount + SumFunctionOnSet(AmountOf(p), DOMAIN p)
  <1> DEFINE more == Append(p, x)
             n == Len(p) + 1
             f == AmountOf(more)
             g == AmountOf(p)
             S == DOMAIN p
  <1>1. IsFiniteSet(S) /\ S = 1..Len(p) /\ Len(p) \in Nat /\ \A k \in S : p[k] \in Protection
    BY PlacesOf
  <1>2. /\ more \in Seq(Protection) /\ DOMAIN more = 1..n /\ more[n] = x
        /\ \A k \in 1..Len(p) : more[k] = p[k]
    BY <1>1
  <1> HIDE DEF more
  <1>3. DOMAIN more = S \union {n} /\ n \notin S
    BY <1>1, <1>2
  <1>4. f[n] = x.amount /\ \A k \in S : f[k] = p[k].amount /\ g[k] = p[k].amount
    BY <1>1, <1>2, <1>3 DEF AmountOf
  <1>5. x.amount \in Nat /\ \A k \in S : p[k].amount \in Nat
    BY <1>1 DEF Protection
  <1> HIDE DEF f, g, n, S
  <1>6. SumFunctionOnSet(f, S \union {n}) = f[n] + SumFunctionOnSet(f, S)
    <2>1. \A k \in S \union {n} : f[k] \in Int
      BY <1>4, <1>5
    <2> QED
      BY <1>1, <1>3, <2>1, SumAdd
  <1>7. SumFunctionOnSet(f, S) = SumFunctionOnSet(g, S)
    <2>1. \A k \in S : f[k] \in Int /\ f[k] = g[k]
      BY <1>4, <1>5
    <2> QED
      BY <1>1, <2>1, SumSame
  <1>8. \A k \in DOMAIN more : more[k] = x \/ \E m \in S : more[k] = p[m]
    BY <1>1, <1>2, <1>3
  <1> QED
    BY <1>2, <1>3, <1>4, <1>6, <1>7, <1>8 DEF more, f, g, S

\* A buy covers what it takes: it is no longer uncovered but protected, to a late day.
LEMMA CoverIs ==
    ASSUME NEW list \in Seq(Claim), NEW value, value \in Nat, day \in Nat \ {0}
    PROVE  LET after == Cover(list, value)
           IN  /\ after \in Seq(Claim) /\ DOMAIN after = DOMAIN list
               /\ \A i \in DOMAIN list :
                    /\ after[i].id = list[i].id /\ after[i].pay = list[i].pay /\ after[i].deadline = list[i].deadline
                    /\ after[i].uncovered = list[i].uncovered - TakenBy(list, i, value)
                    /\ Covered(after[i]) = Covered(list[i]) + TakenBy(list, i, value)
                    /\ \A k \in DOMAIN after[i].protections :
                          \/ after[i].protections[k].until = ProtectionEnd(day)
                          \/ \E m \in DOMAIN list[i].protections : after[i].protections[k] = list[i].protections[m]
               /\ Protected(after) <= Protected(list) + value
  <1> DEFINE after == Cover(list, value)
             before == [i \in DOMAIN list |-> Covered(list[i])]
             then == [i \in DOMAIN list |-> Covered(after[i])]
             taken == [i \in DOMAIN list |-> TakenBy(list, i, value)]
  <1>1. IsFiniteSet(DOMAIN list) /\ DOMAIN list = 1..Len(list) /\ Len(list) \in Nat /\ \A i \in DOMAIN list : list[i] \in Claim
    BY PlacesOf
  <1>2. /\ DOMAIN after = DOMAIN list
        /\ after = [i \in 1..Len(list) |-> after[i]]
        /\ \A i \in DOMAIN list : after[i] =
             IF TakenBy(list, i, value) = 0 THEN list[i]
             ELSE [list[i] EXCEPT !.uncovered = list[i].uncovered - TakenBy(list, i, value),
                                  !.protections = Append(list[i].protections, [amount |-> TakenBy(list, i, value),
                                                                               until |-> ProtectionEnd(day)])]
    BY <1>1 DEF Cover
  <1> HIDE DEF after
  <1>3. \A i \in DOMAIN list : TakenBy(list, i, value) \in Nat /\ TakenBy(list, i, value) <= list[i].uncovered
    <2>1. SUFFICES ASSUME NEW i \in DOMAIN list
                   PROVE  TakenBy(list, i, value) \in Nat /\ TakenBy(list, i, value) <= list[i].uncovered
      OBVIOUS
    <2>2. /\ Wanted(list[i]) \in Nat /\ Wanted(list[i]) <= list[i].uncovered
          /\ TakenBy(list, i, value) \in Nat /\ TakenBy(list, i, value) <= Wanted(list[i])
      BY ValueIsTaken
    <2>3. list[i].uncovered \in Nat
      BY <1>1 DEF Claim
    <2> QED
      BY <2>2, <2>3
  <1>4. ASSUME NEW i \in DOMAIN list
        PROVE  /\ after[i] \in Claim
               /\ after[i].id = list[i].id /\ after[i].pay = list[i].pay /\ after[i].deadline = list[i].deadline
               /\ after[i].uncovered = list[i].uncovered - TakenBy(list, i, value)
               /\ Covered(after[i]) = Covered(list[i]) + TakenBy(list, i, value)
               /\ \A k \in DOMAIN after[i].protections :
                     \/ after[i].protections[k].until = ProtectionEnd(day)
                     \/ \E m \in DOMAIN list[i].protections : after[i].protections[k] = list[i].protections[m]
    <2> DEFINE c == list[i]
               d == after[i]
               t == TakenBy(list, i, value)
               x == [amount |-> t, until |-> ProtectionEnd(day)]
               more == Append(c.protections, x)
    <2>1. /\ c \in Claim /\ c.id \in Nat /\ c.pay \in Nat /\ c.deadline \in Nat /\ c.uncovered \in Nat
          /\ c.protections \in Seq(Protection)
      BY <1>1 DEF Claim
    <2>2. t \in Nat /\ t <= c.uncovered
      BY <1>3
    <2>3. ProtectionEnd(day) \in Nat
      BY EndsAreLate
    <2>4. Covered(c) = SumFunctionOnSet(AmountOf(c.protections), DOMAIN c.protections) /\ Covered(c) \in Nat
      BY <2>1, CoveredIs
    <2>5. CASE t = 0
      <3>1. d = c
        BY <1>2, <2>5
      <3> HIDE DEF c, d, t
      <3> QED
        BY <2>1, <2>4, <2>5, <3>1 DEF c, d, t
    <2>6. CASE t # 0
      <3>1. x \in Protection /\ x.amount = t /\ x.until = ProtectionEnd(day)
        BY <2>2, <2>3, <2>6 DEF Protection
      <3>2. d = [c EXCEPT !.uncovered = c.uncovered - t, !.protections = more]
        BY <1>2, <2>6
      <3>3. c = [id |-> c.id, pay |-> c.pay, deadline |-> c.deadline,
                 uncovered |-> c.uncovered, protections |-> c.protections]
        BY <2>1, ClaimIs
      <3> HIDE DEF c, d, t, x
      <3>4. /\ more \in Seq(Protection)
            /\ \A k \in DOMAIN more : more[k] = x \/ \E m \in DOMAIN c.protections : more[k] = c.protections[m]
            /\ SumFunctionOnSet(AmountOf(more), DOMAIN more)
                 = x.amount + SumFunctionOnSet(AmountOf(c.protections), DOMAIN c.protections)
        BY <2>1, <3>1, ProtectedMore
      <3> HIDE DEF more
      <3> DEFINE u == c.uncovered - t
      <3>5. u \in Nat
        BY <2>1, <2>2
      <3> HIDE DEF u
      <3>6. d = [id |-> c.id, pay |-> c.pay, deadline |-> c.deadline, uncovered |-> u, protections |-> more]
        BY <3>2, <3>3 DEF u
      <3>7. d \in Claim /\ d.protections = more /\ d.uncovered = u
            /\ d.id = c.id /\ d.pay = c.pay /\ d.deadline = c.deadline
        BY <2>1, <3>4, <3>5, <3>6 DEF Claim
      <3>8. Covered(d) = SumFunctionOnSet(AmountOf(more), DOMAIN more)
        BY <3>4, <3>7, CoveredIs
      <3>9. Covered(d) = Covered(c) + t
        BY <2>2, <2>4, <3>1, <3>4, <3>8
      <3>10. \A k \in DOMAIN d.protections :
                \/ d.protections[k].until = ProtectionEnd(day)
                \/ \E m \in DOMAIN c.protections : d.protections[k] = c.protections[m]
        BY <3>1, <3>4, <3>7
      <3> QED
        BY <3>7, <3>9, <3>10 DEF c, d, t, u
    <2> QED
      BY <2>5, <2>6
  <1>5. after \in Seq(Claim)
    <2> DEFINE C == Claim
    <2>1. \A i \in 1..Len(list) : after[i] \in C
      BY <1>1, <1>4
    <2> HIDE DEF C
    <2> HIDE DEF before, then, taken
    <2> DEFINE n == Len(list)
    <2>2. n \in Nat /\ after = [i \in 1..n |-> after[i]] /\ \A i \in 1..n : after[i] \in C
      BY <1>1, <1>2, <2>1
    <2> HIDE DEF n
    <2>3. after \in Seq(C)
      BY <2>2, ListOf
    <2> QED
      BY <2>3 DEF C
  <1>6. /\ Protected(list) = SumFunctionOnSet(before, DOMAIN list) /\ Protected(list) \in Nat
        /\ \A i \in DOMAIN list : before[i] \in Nat
    BY ProtectedIs
  <1>7. Protected(after) = SumFunctionOnSet(then, DOMAIN list)
    BY <1>2, <1>5, ProtectedIs
  <1>8. SumFunctionOnSet(taken, DOMAIN list) <= value
    BY ValueIsTaken
  <1>9. \A i \in DOMAIN list : taken[i] \in Int /\ before[i] \in Int /\ then[i] = before[i] + taken[i]
    BY <1>3, <1>4, <1>6
  <1> HIDE DEF before, then, taken
  <1>10. SumFunctionOnSet(then, DOMAIN list) = SumFunctionOnSet(before, DOMAIN list) + SumFunctionOnSet(taken, DOMAIN list)
    BY <1>1, <1>9, SumPlus
  <1>11. SumFunctionOnSet(taken, DOMAIN list) \in Int
    BY <1>1, <1>9, SumInt
  <1>12. Protected(after) <= Protected(list) + value
    BY <1>6, <1>7, <1>8, <1>10, <1>11
  <1> QED
    BY <1>2, <1>4, <1>5, <1>12 DEF after

-----------------------------------------------------------------------------
(* What is booked.                                                         *)

\* A dividend's tax is its part, rounded up.
LEMMA TaxIs ==
    ASSUME NEW g, g \in Nat
    PROVE  /\ DividendTax(g) \in Nat
           /\ g <= DividendTax(g) * TaxPart /\ DividendTax(g) * TaxPart <= g + (TaxPart - 1)
           /\ g = 0 => DividendTax(g) = 0
  <1> DEFINE n == g + TaxPart - 1
             q == n \div TaxPart
  <1>1. TaxPart \in Nat \ {0}
    BY ExemptionConstants
  <1>2. n \in Nat
    BY <1>1
  <1> HIDE DEF n
  <1>3. q \in Nat /\ q * TaxPart <= n /\ n < q * TaxPart + TaxPart
    BY <1>1, <1>2
  <1> HIDE DEF q
  <1>4. q * TaxPart \in Nat
    BY <1>1, <1>3
  <1>5. DividendTax(g) = q
    BY DEF DividendTax, q, n
  <1>6. g = 0 => q = 0
    <2>1. q # 0 => q * TaxPart >= TaxPart
      BY <1>1, <1>3
    <2> QED
      BY <1>1, <1>3, <1>4, <2>1 DEF n
  <1> QED
    BY <1>1, <1>3, <1>4, <1>5, <1>6 DEF n

\* Each booking rounds up by less than a unit: the bookings but one, in all.
LEMMA TaxIsBounded ==
    ASSUME NEW gross, NEW part, NEW owed, NEW times, {gross, part, owed, times} \subseteq Nat,
           owed * TaxPart <= part + times * (TaxPart - 1), part <= gross
    PROVE  owed <= DividendTax(gross) + Less(times, 1)
  <1> DEFINE full == DividendTax(gross)
  <1>1. TaxPart \in Nat \ {0}
    BY ExemptionConstants
  <1>2. full \in Nat /\ gross <= full * TaxPart /\ {gross, part, owed, times} \subseteq Nat
    BY TaxIs
  <1> HIDE DEF full
  <1>3. /\ times * (TaxPart - 1) = times * TaxPart - times
        /\ (full + times) * TaxPart = full * TaxPart + times * TaxPart
        /\ times * TaxPart \in Nat /\ full * TaxPart \in Nat /\ owed * TaxPart \in Nat
    BY <1>1, <1>2
  <1>4. owed * TaxPart <= (full + times) * TaxPart - times
    BY <1>2, <1>3
  <1>5. owed <= full + times
    <2>1. owed > full + times => owed * TaxPart >= (full + times) * TaxPart + TaxPart
      <3>1. SUFFICES ASSUME owed > full + times PROVE owed * TaxPart >= (full + times) * TaxPart + TaxPart
        OBVIOUS
      <3> DEFINE d == owed - (full + times) - 1
      <3>2. d \in Nat /\ owed = (full + times) + 1 + d
        BY <1>2, <3>1
      <3> HIDE DEF d
      <3>3. owed * TaxPart = (full + times) * TaxPart + TaxPart + d * TaxPart /\ d * TaxPart \in Nat
        BY <1>1, <1>2, <3>2
      <3> QED
        BY <1>1, <1>2, <1>3, <3>3
    <2> QED
      BY <1>1, <1>2, <1>3, <1>4, <2>1
  <1>6. times # 0 => owed # full + times
    BY <1>2, <1>3, <1>4
  <1> QED
    BY <1>2, <1>5, <1>6 DEF Less, full

\* Tax on a part more, booked when there is such a part.
LEMMA BookedOnce ==
    ASSUME NEW part, part \in Nat
    PROVE  DividendTax(part) \in Nat
           /\ DividendTax(part) * TaxPart <= part + (IF part > 0 THEN 1 ELSE 0) * (TaxPart - 1)
  <1>1. TaxPart \in Nat \ {0}
    BY ExemptionConstants
  <1> QED
    BY <1>1, TaxIs

\* How many of two things hold.
LEMMA CountOfTwo ==
    ASSUME NEW P, P \subseteq 1..2
    PROVE  Cardinality(P) = (IF 1 \in P THEN 1 ELSE 0) + (IF 2 \in P THEN 1 ELSE 0)
  <1>0. 1..2 = {1, 2} /\ P \subseteq {1, 2}
    OBVIOUS
  <1>1. CASE 1 \in P /\ 2 \in P
    <2>0. 2 \notin {1}
      OBVIOUS
    <2>1. P = {1} \union {2}
      BY <1>0, <1>1, Zenon
    <2>2. IsFiniteSet({1}) /\ Cardinality({1}) = 1
      BY FS_Singleton
    <2>3. Cardinality({1} \union {2}) = 1 + 1
      BY <2>0, <2>2, FS_AddElement
    <2> QED
      BY <1>1, <2>1, <2>3
  <1>2. CASE 1 \in P /\ 2 \notin P
    <2>1. P = {1}
      BY <1>0, <1>2
    <2> QED
      BY <1>2, <2>1, FS_Singleton
  <1>3. CASE 1 \notin P /\ 2 \in P
    <2>1. P = {2}
      BY <1>0, <1>3
    <2> QED
      BY <1>3, <2>1, FS_Singleton
  <1>4. CASE 1 \notin P /\ 2 \notin P
    <2>1. P = {}
      BY <1>0, <1>4
    <2> QED
      BY <1>4, <2>1, FS_EmptySet
  <1> QED
    BY <1>1, <1>2, <1>3, <1>4

-----------------------------------------------------------------------------
(* How lists of claims change.                                             *)

\* From each claim something is taken, in one way or another, and at times something else is lost.
Moves(list, after, one, two) ==
    /\ list \in Seq(Claim) /\ after \in Seq(Claim) /\ DOMAIN after = DOMAIN list
    /\ \A i \in DOMAIN list :
          /\ after[i].id = list[i].id /\ one[i] \in Nat /\ two[i] \in Nat
          /\ after[i].uncovered + Covered(after[i]) + one[i] + two[i] <= list[i].uncovered + Covered(list[i])
LosesNothing(list, after, one, two) ==
    \A i \in DOMAIN list :
        after[i].uncovered + Covered(after[i]) + one[i] + two[i] = list[i].uncovered + Covered(list[i])

\* What is taken from the claims of a dividend is what is open of it no longer.
LEMMA OpenMoves ==
    ASSUME NEW list, NEW after, NEW one, NEW two, Moves(list, after, one, two), NEW id
    PROVE  /\ OpenIn(after, id) + SumFor(one, id, list) + SumFor(two, id, list) <= OpenIn(list, id)
           /\ LosesNothing(list, after, one, two)
              => OpenIn(after, id) + SumFor(one, id, list) + SumFor(two, id, list) = OpenIn(list, id)
  <1> USE DEF Moves, LosesNothing
  <1> DEFINE S == DOMAIN list
             was == [i \in DOMAIN list |-> list[i].uncovered + Covered(list[i])]
             is == [i \in DOMAIN after |-> after[i].uncovered + Covered(after[i])]
             f == OfDividend(was, id, list)
             g == OfDividend(is, id, after)
             a == OfDividend(one, id, list)
             b == OfDividend(two, id, list)
             ab == [i \in S |-> a[i] + b[i]]
             gab == [i \in S |-> g[i] + ab[i]]
  <1>1. IsFiniteSet(S)
    BY PlacesOf
  <1>2. /\ \A i \in S : was[i] = list[i].uncovered + Covered(list[i]) /\ was[i] \in Nat
        /\ OpenIn(list, id) = SumFunctionOnSet(f, S)
    BY OpenInIs
  <1>3. /\ \A i \in DOMAIN after : is[i] = after[i].uncovered + Covered(after[i]) /\ is[i] \in Nat
        /\ OpenIn(after, id) = SumFunctionOnSet(g, DOMAIN after)
    BY OpenInIs
  <1> HIDE DEF was, is
  <1>4. /\ SumFor(one, id, list) = SumFunctionOnSet(a, S)
        /\ SumFor(two, id, list) = SumFunctionOnSet(b, S)
    BY SumForIs
  <1>5. \A i \in S : /\ f[i] \in Int /\ g[i] \in Int /\ a[i] \in Int /\ b[i] \in Int
                     /\ list[i].id = id => f[i] = was[i] /\ g[i] = is[i] /\ a[i] = one[i] /\ b[i] = two[i]
                     /\ list[i].id # id => f[i] = 0 /\ g[i] = 0 /\ a[i] = 0 /\ b[i] = 0
    BY <1>2, <1>3 DEF OfDividend
  <1> HIDE DEF f, g, a, b
  <1>6. \A i \in S : ab[i] = a[i] + b[i] /\ ab[i] \in Int /\ gab[i] = g[i] + ab[i] /\ gab[i] \in Int
    BY <1>5
  <1> HIDE DEF ab, gab
  <1>7. SumFunctionOnSet(ab, S) = SumFunctionOnSet(a, S) + SumFunctionOnSet(b, S)
    BY <1>1, <1>5, <1>6, SumPlus
  <1>8. SumFunctionOnSet(gab, S) = SumFunctionOnSet(g, S) + SumFunctionOnSet(ab, S)
    BY <1>1, <1>5, <1>6, SumPlus
  <1>0. ASSUME NEW i \in S
        PROVE  \/ list[i].id # id /\ gab[i] = 0 /\ f[i] = 0
               \/ /\ list[i].id = id /\ gab[i] = after[i].uncovered + Covered(after[i]) + one[i] + two[i]
                  /\ f[i] = list[i].uncovered + Covered(list[i])
    <2>1. /\ was[i] = list[i].uncovered + Covered(list[i]) /\ is[i] = after[i].uncovered + Covered(after[i])
          /\ was[i] \in Nat /\ is[i] \in Nat /\ one[i] \in Nat /\ two[i] \in Nat
      BY <1>2, <1>3
    <2>2. gab[i] = g[i] + (a[i] + b[i])
      BY <1>6
    <2>3. CASE list[i].id = id
      <3>1. f[i] = was[i] /\ g[i] = is[i] /\ a[i] = one[i] /\ b[i] = two[i]
        BY <1>5, <2>3
      <3>2. is[i] + (one[i] + two[i]) = is[i] + one[i] + two[i]
        BY <2>1
      <3> QED
        BY <2>1, <2>2, <2>3, <3>1, <3>2
    <2>4. CASE list[i].id # id
      BY <1>5, <2>2, <2>4
    <2> QED
      BY <2>3, <2>4
  <1>9. \A i \in S : gab[i] \in Int /\ f[i] \in Int /\ gab[i] <= f[i]
    <2>1. \A i \in S : after[i].uncovered + Covered(after[i]) + one[i] + two[i]
                         <= list[i].uncovered + Covered(list[i])
      OBVIOUS
    <2> QED
      BY <1>0, <1>5, <1>6, <2>1
  <1>10. SumFunctionOnSet(gab, S) <= SumFunctionOnSet(f, S)
    BY <1>1, <1>9, SumAtMost
  <1>11. ASSUME \A i \in S : after[i].uncovered + Covered(after[i]) + one[i] + two[i]
                               = list[i].uncovered + Covered(list[i])
         PROVE  SumFunctionOnSet(gab, S) = SumFunctionOnSet(f, S)
    <2>1. \A i \in S : gab[i] \in Int /\ gab[i] = f[i]
      BY <1>0, <1>6, <1>11
    <2> QED
      BY <1>1, <2>1, SumSame
  <1>12. /\ SumFunctionOnSet(a, S) \in Int /\ SumFunctionOnSet(b, S) \in Int /\ SumFunctionOnSet(g, S) \in Int
    BY <1>1, <1>5, SumInt
  <1>13. SumFunctionOnSet(gab, S) = OpenIn(after, id) + SumFor(one, id, list) + SumFor(two, id, list)
    BY <1>3, <1>4, <1>7, <1>8, <1>12
  <1> QED
    BY <1>2, <1>10, <1>11, <1>13

\* A claim more.
LEMMA ClaimMore ==
    ASSUME NEW list \in Seq(Claim), NEW c, c \in Claim
    PROVE  LET more == Append(list, c)
           IN  /\ more \in Seq(Claim) /\ \A i \in DOMAIN more : more[i] = c \/ \E j \in DOMAIN list : more[i] = list[j]
               /\ Protected(more) = Covered(c) + Protected(list)
               /\ \A id : OpenIn(more, id) = (IF c.id = id THEN c.uncovered + Covered(c) ELSE 0) + OpenIn(list, id)
  <1> DEFINE more == Append(list, c)
             n == Len(list) + 1
             S == DOMAIN list
             p == [i \in DOMAIN list |-> Covered(list[i])]
             q == [i \in DOMAIN more |-> Covered(more[i])]
             was == [i \in DOMAIN list |-> list[i].uncovered + Covered(list[i])]
             is == [i \in DOMAIN more |-> more[i].uncovered + Covered(more[i])]
  <1>1. IsFiniteSet(S) /\ S = 1..Len(list) /\ Len(list) \in Nat
    BY PlacesOf
  <1>2. /\ more \in Seq(Claim) /\ DOMAIN more = 1..n /\ more[n] = c
        /\ \A i \in 1..Len(list) : more[i] = list[i]
    BY <1>1
  <1> HIDE DEF more
  <1>3. DOMAIN more = S \union {n} /\ n \notin S /\ \A i \in S : more[i] = list[i]
    BY <1>1, <1>2
  <1> HIDE DEF n, S
  <1>4. /\ Protected(list) = SumFunctionOnSet(p, S) /\ \A i \in S : p[i] = Covered(list[i]) /\ p[i] \in Nat
    BY ProtectedIs DEF S
  <1>5. /\ Protected(more) = SumFunctionOnSet(q, DOMAIN more)
        /\ \A i \in DOMAIN more : q[i] = Covered(more[i]) /\ q[i] \in Nat
    BY <1>2, ProtectedIs
  <1> HIDE DEF p, q
  <1>6. SumFunctionOnSet(q, S \union {n}) = q[n] + SumFunctionOnSet(q, S)
    <2>1. \A i \in S \union {n} : q[i] \in Int
      BY <1>3, <1>5
    <2> QED
      BY <1>1, <1>3, <2>1, SumAdd
  <1>7. SumFunctionOnSet(q, S) = SumFunctionOnSet(p, S)
    <2>1. \A i \in S : q[i] \in Int /\ q[i] = p[i]
      BY <1>3, <1>4, <1>5
    <2> QED
      BY <1>1, <2>1, SumSame
  <1>8. Protected(more) = Covered(c) + Protected(list)
    BY <1>2, <1>3, <1>4, <1>5, <1>6, <1>7
  <1>9. ASSUME NEW id
        PROVE  OpenIn(more, id) = (IF c.id = id THEN c.uncovered + Covered(c) ELSE 0) + OpenIn(list, id)
    <2> DEFINE f == OfDividend(was, id, list)
               g == OfDividend(is, id, more)
    <2>1. /\ \A i \in S : was[i] = list[i].uncovered + Covered(list[i]) /\ was[i] \in Nat
          /\ OpenIn(list, id) = SumFunctionOnSet(f, S)
      BY OpenInIs DEF S
    <2>2. /\ \A i \in DOMAIN more : is[i] = more[i].uncovered + Covered(more[i]) /\ is[i] \in Nat
          /\ OpenIn(more, id) = SumFunctionOnSet(g, DOMAIN more)
      BY <1>2, OpenInIs
    <2> HIDE DEF was, is
    <2>3. /\ \A i \in S : f[i] = IF list[i].id = id THEN was[i] ELSE 0
          /\ \A i \in DOMAIN more : g[i] = IF more[i].id = id THEN is[i] ELSE 0
      BY DEF OfDividend, S
    <2> HIDE DEF f, g
    <2>4. \A i \in DOMAIN more : g[i] \in Int
      BY <2>2, <2>3
    <2>5. SumFunctionOnSet(g, S \union {n}) = g[n] + SumFunctionOnSet(g, S)
      BY <1>1, <1>3, <2>4, SumAdd
    <2>6. SumFunctionOnSet(g, S) = SumFunctionOnSet(f, S)
      <3>1. \A i \in S : g[i] \in Int /\ g[i] = f[i]
        BY <1>3, <2>1, <2>2, <2>3, <2>4
      <3> QED
        BY <1>1, <3>1, SumSame
    <2>7. n \in DOMAIN more
      BY <1>3
    <2>8. g[n] = IF c.id = id THEN c.uncovered + Covered(c) ELSE 0
      BY <1>2, <2>2, <2>3, <2>7
    <2> QED
      BY <1>3, <2>1, <2>2, <2>5, <2>6, <2>8
  <1>10. \A i \in DOMAIN more : more[i] = c \/ \E j \in DOMAIN list : more[i] = list[j]
    BY <1>2, <1>3 DEF S
  <1> QED
    BY <1>2, <1>8, <1>9, <1>10 DEF more

-----------------------------------------------------------------------------
(* The close.                                                              *)

\* What Close computes: the claims at their deadlines and what they missed, and, when the
\* grace is over, what breaks.
Current == [i \in DOMAIN claims |-> AtTheDeadline(claims[i])]
MissedNow == [i \in DOMAIN claims |-> Missed(claims[i])]
FirstShort == Since(Current)
Breaks == FirstShort # 0 /\ day >= SettlementDate(FirstShort)
Lost == IF Breaks THEN Shortfall(Current) ELSE 0
BrokenNow == [i \in DOMAIN Current |-> Broken(Current, Lost, i)]

\* At their deadlines the claims keep their places, and none protects more.
LEMMA CurrentIs ==
    ASSUME claims \in Seq(Claim), day \in Nat
    PROVE  /\ Current \in Seq(Claim) /\ DOMAIN Current = DOMAIN claims
           /\ Protected(claims) \in Nat /\ Protected(Current) \in Nat /\ Protected(Current) <= Protected(claims)
  <1> DEFINE was == [i \in DOMAIN claims |-> Covered(claims[i])]
             is == [i \in DOMAIN Current |-> Covered(Current[i])]
             S == DOMAIN claims
             n == Len(claims)
  <1>1. IsFiniteSet(S) /\ S = 1..n /\ n \in Nat /\ \A i \in S : claims[i] \in Claim
    BY PlacesOf
  <1>2. DOMAIN Current = S /\ \A i \in S : Current[i] = AtTheDeadline(claims[i])
    BY DEF Current
  <1>3. \A i \in S : AtTheDeadline(claims[i]) \in Claim /\ Covered(AtTheDeadline(claims[i])) <= Covered(claims[i])
    BY <1>1, DeadlineIs
  <1>4. Current \in Seq(Claim)
    <2>1. Current = [i \in 1..n |-> Current[i]]
      BY <1>1, <1>2 DEF Current
    <2> DEFINE C == Claim
    <2>2. \A i \in 1..n : Current[i] \in C
      BY <1>1, <1>2, <1>3
    <2> HIDE DEF C, n, was, is, S
    <2>3. Current \in Seq(C)
      BY <1>1, <2>1, <2>2, ListOf
    <2> QED
      BY <2>3 DEF C
  <1>5. /\ Protected(claims) = SumFunctionOnSet(was, S) /\ Protected(claims) \in Nat
        /\ \A i \in S : was[i] = Covered(claims[i]) /\ was[i] \in Nat
    BY ProtectedIs
  <1>6. /\ Protected(Current) = SumFunctionOnSet(is, S) /\ Protected(Current) \in Nat
        /\ \A i \in S : is[i] = Covered(Current[i]) /\ is[i] \in Nat
    BY <1>2, <1>4, ProtectedIs
  <1>7. \A i \in S : is[i] \in Int /\ was[i] \in Int /\ is[i] <= was[i]
    BY <1>2, <1>3, <1>5, <1>6
  <1> HIDE DEF was, is
  <1>8. SumFunctionOnSet(is, S) <= SumFunctionOnSet(was, S)
    BY <1>1, <1>7, SumAtMost
  <1> QED
    BY <1>2, <1>4, <1>5, <1>6, <1>8

\* The shortfall a close finds, and the day it is on record for.
LEMMA FirstIs ==
    ASSUME claims \in Seq(Claim), day \in Nat \ {0}, invested \in Nat, since \in Nat
    PROVE  /\ Shortfall(Current) = Less(Protected(Current), invested)
           /\ Shortfall(Current) \in Nat /\ Lost \in Nat /\ FirstShort \in Nat
           /\ FirstShort = IF Protected(Current) <= invested THEN 0 ELSE IF since = 0 THEN day ELSE since
           /\ Breaks <=> FirstShort # 0 /\ day >= FirstShort + Lag
           /\ Lost = IF Breaks THEN Protected(Current) - invested ELSE 0
  <1>1. Protected(Current) \in Nat
    BY CurrentIs
  <1>2. Shortfall(Current) = Less(Protected(Current), invested)
    BY DEF Shortfall
  <1> DEFINE P == Protected(Current)
  <1>3. Shortfall(Current) = IF P > invested THEN P - invested ELSE 0
    BY <1>2 DEF Less
  <1> HIDE DEF P
  <1>4. FirstShort = IF P <= invested THEN 0 ELSE IF since = 0 THEN day ELSE since
    BY <1>1, <1>3 DEF FirstShort, Since, P
  <1>5. Breaks <=> FirstShort # 0 /\ day >= FirstShort + Lag
    BY DEF Breaks, SettlementDate
  <1>6. FirstShort # 0 => P > invested
    BY <1>1, <1>4 DEF P
  <1>7. Lost = IF Breaks THEN P - invested ELSE 0
    BY <1>3, <1>5, <1>6 DEF Lost
  <1> QED
    BY <1>1, <1>2, <1>3, <1>4, <1>5, <1>6, <1>7 DEF P

\* What a close leaves of the claims, and what it takes from them: with it nothing is lost sight of.
LEMMA SettledIs ==
    ASSUME claims \in Seq(Claim), day \in Nat \ {0}, invested \in Nat, since \in Nat,
           NEW after, after = StillOpen(Break(Current, Lost))
    PROVE  /\ after \in Seq(Claim)
           /\ \A k \in DOMAIN after : \E i \in DOMAIN claims :
                /\ after[k].id = claims[i].id /\ after[k].pay = claims[i].pay /\ after[k].deadline = claims[i].deadline
                /\ \A m \in DOMAIN after[k].protections : \E l \in DOMAIN claims[i].protections :
                      after[k].protections[m].until = claims[i].protections[l].until
           /\ Protected(after) = IF Breaks THEN invested ELSE Protected(Current)
           /\ \A i \in DOMAIN claims : MissedNow[i] \in Nat /\ BrokenNow[i] \in Nat
           /\ ~ Breaks => \A i \in DOMAIN claims : BrokenNow[i] = 0
           /\ \A id : /\ OpenIn(after, id) + SumFor(MissedNow, id, claims) + SumFor(BrokenNow, id, claims) <= OpenIn(claims, id)
                      /\ (\A i \in DOMAIN claims : \A l \in DOMAIN claims[i].protections :
                             claims[i].protections[l].until >= day)
                         => OpenIn(after, id) + SumFor(MissedNow, id, claims) + SumFor(BrokenNow, id, claims) = OpenIn(claims, id)
  <1> DEFINE broken == Break(Current, Lost)
             P == Protected(Current)
  <1>1. Current \in Seq(Claim) /\ DOMAIN Current = DOMAIN claims /\ P \in Nat
    BY CurrentIs
  <1>2. Lost \in Nat /\ Lost = IF Breaks THEN P - invested ELSE 0
    BY FirstIs
  <1>3. /\ broken \in Seq(Claim) /\ DOMAIN broken = DOMAIN claims
        /\ \A i \in DOMAIN claims :
             /\ broken[i].id = Current[i].id /\ broken[i].pay = Current[i].pay
             /\ broken[i].deadline = Current[i].deadline /\ broken[i].uncovered = Current[i].uncovered
             /\ \A k \in DOMAIN broken[i].protections : \E m \in DOMAIN Current[i].protections :
                   broken[i].protections[k].until = Current[i].protections[m].until
             /\ Broken(Current, Lost, i) \in Nat
             /\ Covered(broken[i]) + Broken(Current, Lost, i) = Covered(Current[i])
        /\ Protected(broken) = P - Lesser(Lost, P)
        /\ Lost = 0 => \A i \in DOMAIN claims : Broken(Current, Lost, i) = 0
    <2>1. /\ broken \in Seq(Claim) /\ DOMAIN broken = DOMAIN Current
          /\ \A i \in DOMAIN Current :
               /\ broken[i].id = Current[i].id /\ broken[i].pay = Current[i].pay
               /\ broken[i].deadline = Current[i].deadline /\ broken[i].uncovered = Current[i].uncovered
               /\ \A k \in DOMAIN broken[i].protections : \E m \in DOMAIN Current[i].protections :
                     broken[i].protections[k].until = Current[i].protections[m].until
               /\ Broken(Current, Lost, i) \in Nat
               /\ Covered(broken[i]) + Broken(Current, Lost, i) = Covered(Current[i])
          /\ Protected(broken) = P - Lesser(Lost, P)
          /\ Lost = 0 => \A i \in DOMAIN Current : Broken(Current, Lost, i) = 0
      <3>1. ShortBy(Current, Lost, broken)
        BY <1>1, <1>2, BreakIs
      <3> HIDE DEF broken
      <3> QED
        BY <3>1 DEF ShortBy
    <2> HIDE DEF broken, P
    <2> QED
      BY <1>1, <2>1
  <1>4. \A i \in DOMAIN claims : claims[i] \in Claim
    BY PlacesOf
  <1>5. \A i \in DOMAIN claims : BrokenNow[i] = Broken(Current, Lost, i) /\ MissedNow[i] = Missed(claims[i])
    BY <1>1 DEF BrokenNow, MissedNow
  <1> HIDE DEF broken
  <1>6. /\ after \in Seq(Claim) /\ Protected(after) = Protected(broken)
        /\ \A k \in DOMAIN after : \E i \in DOMAIN claims : after[k] = broken[i]
        /\ \A id : OpenIn(after, id) = OpenIn(broken, id)
    BY <1>3, StillOpenIs DEF broken
  <1>7. Protected(after) = IF Breaks THEN invested ELSE P
    <2>1. Breaks => P > invested
      <3>1. Breaks => FirstShort # 0
        BY DEF Breaks
      <3>2. FirstShort # 0 => ~ (P <= invested)
        BY FirstIs
      <3> QED
        BY <1>1, <3>1, <3>2
    <2> QED
      BY <1>1, <1>2, <1>3, <1>6, <2>1 DEF Lesser
  <1> HIDE DEF P
  <1>8. ASSUME NEW i \in DOMAIN claims
        PROVE  /\ MissedNow[i] \in Nat /\ BrokenNow[i] \in Nat
               /\ broken[i].id = claims[i].id /\ broken[i].pay = claims[i].pay
               /\ broken[i].deadline = claims[i].deadline
               /\ \A m \in DOMAIN broken[i].protections : \E l \in DOMAIN claims[i].protections :
                     broken[i].protections[m].until = claims[i].protections[l].until
               /\ broken[i].uncovered + Covered(broken[i]) + MissedNow[i] + BrokenNow[i]
                    <= claims[i].uncovered + Covered(claims[i])
               /\ (\A l \in DOMAIN claims[i].protections : claims[i].protections[l].until >= day)
                  => broken[i].uncovered + Covered(broken[i]) + MissedNow[i] + BrokenNow[i]
                       = claims[i].uncovered + Covered(claims[i])
    <2> DEFINE c == claims[i]
               d == AtTheDeadline(c)
               b == broken[i]
    <2>1. c \in Claim /\ Current[i] = d
      BY <1>4 DEF Current
    <2>2. /\ d \in Claim /\ d.id = c.id /\ d.pay = c.pay /\ d.deadline = c.deadline
          /\ Missed(c) \in Nat /\ Missed(c) <= c.uncovered /\ d.uncovered = c.uncovered - Missed(c)
          /\ \A k \in DOMAIN d.protections : \E l \in DOMAIN c.protections : d.protections[k] = c.protections[l]
          /\ Covered(d) <= Covered(c)
          /\ (\A l \in DOMAIN c.protections : c.protections[l].until >= day) => Covered(d) = Covered(c)
      <3> HIDE DEF c
      <3> QED
        BY <2>1, DeadlineIs
    <2>3. /\ b.id = d.id /\ b.pay = d.pay /\ b.deadline = d.deadline /\ b.uncovered = d.uncovered
          /\ \A k \in DOMAIN b.protections : \E m \in DOMAIN d.protections :
                b.protections[k].until = d.protections[m].until
          /\ BrokenNow[i] \in Nat /\ Covered(b) + BrokenNow[i] = Covered(d) /\ MissedNow[i] = Missed(c)
      <3> DEFINE e == Current[i]
      <3>1. /\ b.id = e.id /\ b.pay = e.pay /\ b.deadline = e.deadline /\ b.uncovered = e.uncovered
            /\ \A k \in DOMAIN b.protections : \E m \in DOMAIN e.protections :
                  b.protections[k].until = e.protections[m].until
            /\ Broken(Current, Lost, i) \in Nat /\ Covered(b) + Broken(Current, Lost, i) = Covered(e)
        BY <1>3
      <3>2. BrokenNow[i] = Broken(Current, Lost, i) /\ MissedNow[i] = Missed(c)
        BY <1>5
      <3>3. e = d
        BY <2>1
      <3> HIDE DEF b, d, e
      <3> QED
        BY <3>1, <3>2, <3>3
    <2>4. c.uncovered \in Nat /\ Covered(c) \in Nat /\ Covered(d) \in Nat /\ Covered(b) \in Nat
      <3>1. c.protections \in Seq(Protection) /\ d.protections \in Seq(Protection) /\ c.uncovered \in Nat
        BY <2>1, <2>2 DEF Claim
      <3>2. b \in Claim
        BY <1>3, PlacesOf
      <3>3. b.protections \in Seq(Protection)
        BY <3>2 DEF Claim
      <3> QED
        BY <3>1, <3>3, CoveredIs
    <2> DEFINE m == MissedNow[i]
               r == BrokenNow[i]
    <2> HIDE DEF b, d, c, m, r
    <2>5. \A k \in DOMAIN b.protections : \E l \in DOMAIN c.protections :
             b.protections[k].until = c.protections[l].until
      BY <2>2, <2>3
    <2>0. m = Missed(c) /\ r \in Nat /\ Covered(b) + r = Covered(d) /\ b.uncovered = d.uncovered
      BY <2>3 DEF m, r
    <2>6. /\ m \in Nat /\ r \in Nat
          /\ b.uncovered + Covered(b) + m + r <= c.uncovered + Covered(c)
          /\ Covered(d) = Covered(c) => b.uncovered + Covered(b) + m + r = c.uncovered + Covered(c)
      BY <2>0, <2>2, <2>4
    <2>7. b.id = c.id /\ b.pay = c.pay /\ b.deadline = c.deadline
      BY <2>2, <2>3
    <2>8. (\A l \in DOMAIN c.protections : c.protections[l].until >= day) => Covered(d) = Covered(c)
      BY <2>2
    <2> QED
      BY <2>5, <2>6, <2>7, <2>8 DEF b, c, m, r
  <1>9. ASSUME NEW k \in DOMAIN after
        PROVE  \E i \in DOMAIN claims :
                 /\ after[k].id = claims[i].id /\ after[k].pay = claims[i].pay /\ after[k].deadline = claims[i].deadline
                 /\ \A m \in DOMAIN after[k].protections : \E l \in DOMAIN claims[i].protections :
                       after[k].protections[m].until = claims[i].protections[l].until
    <2>1. PICK i \in DOMAIN claims : after[k] = broken[i]
      BY <1>6
    <2> QED
      BY <1>8, <2>1
  <1>10. ~ Breaks => \A i \in DOMAIN claims : BrokenNow[i] = 0
    BY <1>2, <1>3, <1>5
  <1>11. ASSUME NEW id
         PROVE  /\ OpenIn(after, id) + SumFor(MissedNow, id, claims) + SumFor(BrokenNow, id, claims) <= OpenIn(claims, id)
                /\ (\A i \in DOMAIN claims : \A l \in DOMAIN claims[i].protections :
                       claims[i].protections[l].until >= day)
                   => OpenIn(after, id) + SumFor(MissedNow, id, claims) + SumFor(BrokenNow, id, claims) = OpenIn(claims, id)
    <2>1. DOMAIN broken = DOMAIN claims /\ broken \in Seq(Claim) /\ OpenIn(after, id) = OpenIn(broken, id)
      BY <1>3, <1>6
    <2>2. \A i \in DOMAIN claims :
              /\ broken[i].id = claims[i].id /\ MissedNow[i] \in Nat /\ BrokenNow[i] \in Nat
              /\ broken[i].uncovered + Covered(broken[i]) + MissedNow[i] + BrokenNow[i]
                   <= claims[i].uncovered + Covered(claims[i])
      BY <1>8
    <2>3. (\A i \in DOMAIN claims : \A l \in DOMAIN claims[i].protections : claims[i].protections[l].until >= day)
          => \A i \in DOMAIN claims : broken[i].uncovered + Covered(broken[i]) + MissedNow[i] + BrokenNow[i]
                                       = claims[i].uncovered + Covered(claims[i])
      BY <1>8
    <2>4. Moves(claims, broken, MissedNow, BrokenNow)
      BY <2>1, <2>2 DEF Moves
    <2>5. (\A i \in DOMAIN claims : \A l \in DOMAIN claims[i].protections : claims[i].protections[l].until >= day)
          => LosesNothing(claims, broken, MissedNow, BrokenNow)
      BY <2>3 DEF LosesNothing
    <2> QED
      BY <2>1, <2>4, <2>5, OpenMoves
  <1> QED
    BY <1>6, <1>7, <1>8, <1>9, <1>10, <1>11 DEF P

-----------------------------------------------------------------------------
(* What every step keeps.                                                  *)

Types ==
    /\ day \in Nat \ {0} /\ traded \in BOOLEAN /\ invested \in Nat
    /\ claims \in Seq(Claim)
    /\ since \in Nat /\ short \in Nat
    /\ paid \in Seq(Nat \ {0})
    /\ taxed \in Seq(Nat) /\ tax \in Seq(Nat) /\ bookings \in Seq(Nat)
    /\ Len(taxed) = Len(paid) /\ Len(tax) = Len(paid) /\ Len(bookings) = Len(paid)

\* Every claim is of a dividend paid, by its deadline, and no protection ends in the first years.
ClaimsAreOfDividends ==
    \A i \in DOMAIN claims :
        /\ claims[i].id \in DOMAIN paid /\ claims[i].pay <= claims[i].deadline
        /\ \A k \in DOMAIN claims[i].protections : claims[i].protections[k].until >= FirstEnd

\* What is open of a dividend and what is taxed are no more than it, and all of it at first.
Accounted ==
    \A id \in DOMAIN paid :
        /\ OpenIn(claims, id) + taxed[id] <= paid[id]
        /\ day <= FirstEnd + 1 => OpenIn(claims, id) + taxed[id] = paid[id]

\* Each booking rounds its tax up by less than a unit.
RoundedByBooking ==
    \A id \in DOMAIN paid :
        /\ tax[id] * TaxPart <= taxed[id] + bookings[id] * (TaxPart - 1)
        /\ taxed[id] = 0 => tax[id] = 0

\* The closes of a shortfall are counted from the day it is on record for.
GraceCounted ==
    /\ since # 0 => since <= day /\ short = day - since /\ short <= Lag
    /\ since = 0 => short = 0
    /\ ~traded /\ day > 1 => (since # 0 <=> Protected(claims) > invested)

ClaimsInv == Types /\ ClaimsAreOfDividends /\ Accounted /\ RoundedByBooking /\ GraceCounted

\* The days of the calendar are days.
LEMMA DeadlinesAreDays ==
    ASSUME NEW d \in Nat \ {0}
    PROVE  Deadline(d) \in Nat
  <1> DEFINE y == Year(d)
  <1>1. YearDays \in Nat \ {0} /\ GraceDays \in Nat
    BY ExemptionConstants
  <1>2. y \in Nat
    <2>1. d - 1 \in Nat
      OBVIOUS
    <2> QED
      BY <1>1, <2>1 DEF Year
  <1> HIDE DEF y
  <1>3. (y + 1) * YearDays \in Nat
    BY <1>1, <1>2
  <1> QED
    BY <1>1, <1>3 DEF Deadline, y

\* At the start there is nothing.
LEMMA ClaimsStart ==
    ASSUME Init
    PROVE  ClaimsInv
  <1> USE DEF Init
  <1>1. claims \in Seq(Claim) /\ DOMAIN claims = {} /\ DOMAIN paid = {}
    OBVIOUS
  <1>2. Types
    <2>1. paid \in Seq(Nat \ {0}) /\ taxed \in Seq(Nat) /\ tax \in Seq(Nat) /\ bookings \in Seq(Nat)
      OBVIOUS
    <2>2. Len(taxed) = Len(paid) /\ Len(tax) = Len(paid) /\ Len(bookings) = Len(paid)
      OBVIOUS
    <2>3. traded \in BOOLEAN
      OBVIOUS
    <2>4. day \in Nat \ {0} /\ invested \in Nat /\ since \in Nat /\ short \in Nat
      OBVIOUS
    <2> HIDE DEF Init
    <2> QED
      BY <1>1, <2>1, <2>2, <2>3, <2>4 DEF Types
  <1> QED
    BY <1>1, <1>2 DEF ClaimsInv, ClaimsAreOfDividends, Accounted, RoundedByBooking, GraceCounted

\* A sale changes what is invested alone, on a day of trades.
LEMMA SellsKeep ==
    ASSUME ClaimsInv, NEW cost \in 1..MaxInvested, Sell(cost)
    PROVE  ClaimsInv'
  <1> USE DEF ClaimsInv, Sell, history
  <1>1. invested' \in Nat
    BY DEF Types
  <1>2. Types'
    BY <1>1 DEF Types
  <1>3. ClaimsAreOfDividends'
    BY DEF ClaimsAreOfDividends
  <1>4. Accounted'
    BY DEF Accounted
  <1>5. RoundedByBooking'
    BY DEF RoundedByBooking
  <1>6. GraceCounted'
    BY DEF GraceCounted
  <1> QED
    BY <1>2, <1>3, <1>4, <1>5, <1>6

\* A buy moves what is uncovered to what is protected.
LEMMA BuysKeep ==
    ASSUME ClaimsInv, NEW value \in Buys, Buy(value)
    PROVE  ClaimsInv'
  <1> USE DEF ClaimsInv, Buy, history
  <1>1. value \in Nat /\ Fee \in Nat
    BY ExemptionConstants
  <1>2. day \in Nat \ {0} /\ claims \in Seq(Claim) /\ invested \in Nat
    BY DEF Types
  <1>3. claims' = Cover(claims, value)
    OBVIOUS
  <1> DEFINE after == Cover(claims, value)
  <1>4. /\ after \in Seq(Claim) /\ DOMAIN after = DOMAIN claims
        /\ \A i \in DOMAIN claims :
             /\ after[i].id = claims[i].id /\ after[i].pay = claims[i].pay /\ after[i].deadline = claims[i].deadline
             /\ after[i].uncovered = claims[i].uncovered - TakenBy(claims, i, value)
             /\ Covered(after[i]) = Covered(claims[i]) + TakenBy(claims, i, value)
             /\ \A k \in DOMAIN after[i].protections :
                   \/ after[i].protections[k].until = ProtectionEnd(day)
                   \/ \E m \in DOMAIN claims[i].protections : after[i].protections[k] = claims[i].protections[m]
    BY <1>1, <1>2, CoverIs
  <1> HIDE DEF after
  <1>5. Types'
    BY <1>1, <1>2, <1>3, <1>4 DEF Types, after
  <1>6. ClaimsAreOfDividends'
    <2>1. FirstEnd <= ProtectionEnd(day) /\ FirstEnd \in Nat /\ ProtectionEnd(day) \in Nat
      BY <1>2, EndsAreLate
    <2>2. SUFFICES ASSUME NEW i \in DOMAIN claims
                   PROVE  /\ after[i].id \in DOMAIN paid /\ after[i].pay <= after[i].deadline
                          /\ \A k \in DOMAIN after[i].protections : after[i].protections[k].until >= FirstEnd
      BY <1>3, <1>4 DEF ClaimsAreOfDividends, after
    <2>3. /\ claims[i].id \in DOMAIN paid /\ claims[i].pay <= claims[i].deadline
          /\ \A k \in DOMAIN claims[i].protections : claims[i].protections[k].until >= FirstEnd
      BY DEF ClaimsAreOfDividends
    <2>4. \A k \in DOMAIN after[i].protections : after[i].protections[k].until >= FirstEnd
      <3>1. SUFFICES ASSUME NEW k \in DOMAIN after[i].protections
                     PROVE  after[i].protections[k].until >= FirstEnd
        OBVIOUS
      <3>2. \/ after[i].protections[k].until = ProtectionEnd(day)
            \/ \E m \in DOMAIN claims[i].protections : after[i].protections[k] = claims[i].protections[m]
        BY <1>4
      <3> QED
        BY <2>1, <2>3, <3>2
    <2> QED
      BY <1>4, <2>3, <2>4
  <1>7. \A id : OpenIn(after, id) = OpenIn(claims, id)
    <2> DEFINE none == [i \in DOMAIN claims |-> 0]
    <2>1. \A i \in DOMAIN claims : none[i] = 0
      OBVIOUS
    <2> HIDE DEF none
    <2>2. \A id : SumFor(none, id, claims) = 0
      BY <1>2, <2>1, SumForIs
    <2>3. \A i \in DOMAIN claims : after[i].uncovered + Covered(after[i]) + none[i] + none[i]
                                    = claims[i].uncovered + Covered(claims[i])
      <3>1. SUFFICES ASSUME NEW i \in DOMAIN claims
                     PROVE  after[i].uncovered + Covered(after[i]) + none[i] + none[i]
                              = claims[i].uncovered + Covered(claims[i])
        OBVIOUS
      <3> DEFINE t == TakenBy(claims, i, value)
                 c == claims[i]
      <3>2. t \in Nat
        BY <1>1, <1>2, ValueIsTaken
      <3>3. c \in Claim /\ Covered(c) \in Nat
        BY <1>2, ProtectedIs
      <3>4. c.uncovered \in Nat
        BY <3>3 DEF Claim
      <3>5. after[i].uncovered = c.uncovered - t /\ Covered(after[i]) = Covered(c) + t
        BY <1>4
      <3> HIDE DEF t, c
      <3>6. after[i].uncovered + Covered(after[i]) + none[i] + none[i] = c.uncovered + Covered(c)
        BY <2>1, <3>2, <3>3, <3>4, <3>5
      <3> QED
        BY <3>6 DEF c
    <2>4. LosesNothing(claims, after, none, none)
      BY <2>3 DEF LosesNothing
    <2>5. \A i \in DOMAIN claims : claims[i].uncovered + Covered(claims[i]) \in Nat
      BY <1>2, OpenInIs
    <2>6. Moves(claims, after, none, none)
      BY <1>2, <1>4, <2>1, <2>3, <2>5 DEF Moves
    <2>7. \A id : OpenIn(after, id) + SumFor(none, id, claims) + SumFor(none, id, claims) = OpenIn(claims, id)
      BY <2>4, <2>6, OpenMoves
    <2>8. \A id : OpenIn(after, id) \in Nat
      BY <1>4, OpenInIs
    <2> QED
      BY <2>2, <2>7, <2>8
  <1>8. Accounted'
    BY <1>3, <1>7 DEF Accounted, after
  <1>9. RoundedByBooking'
    BY DEF RoundedByBooking
  <1>10. GraceCounted'
    BY DEF GraceCounted
  <1> QED
    BY <1>5, <1>6, <1>8, <1>9, <1>10

\* A dividend paid is a claim on all of it, or it is taxed whole.
LEMMA PaysKeep ==
    ASSUME ClaimsInv, NEW gross \in Dividends, Pay(gross)
    PROVE  ClaimsInv'
  <1> USE DEF ClaimsInv
  <1> DEFINE deadline == Deadline(day - PayLag)
             claimed == deadline >= day
             new == Len(paid) + 1
             c == [id |-> new, pay |-> day, deadline |-> deadline, uncovered |-> gross, protections |-> <<>>]
  <1>1. gross \in Nat \ {0}
    BY ExemptionConstants
  <1>2. /\ day \in Nat \ {0} /\ claims \in Seq(Claim) /\ paid \in Seq(Nat \ {0})
        /\ taxed \in Seq(Nat) /\ tax \in Seq(Nat) /\ bookings \in Seq(Nat)
        /\ Len(taxed) = Len(paid) /\ Len(tax) = Len(paid) /\ Len(bookings) = Len(paid)
        /\ traded \in BOOLEAN /\ invested \in Nat /\ since \in Nat /\ short \in Nat
    BY DEF Types
  <1>3. /\ claims' = IF claimed THEN Append(claims, c) ELSE claims
        /\ paid' = Append(paid, gross)
        /\ taxed' = Append(taxed, IF claimed THEN 0 ELSE gross)
        /\ tax' = Append(tax, IF claimed THEN 0 ELSE DividendTax(gross))
        /\ bookings' = Append(bookings, IF claimed THEN 0 ELSE 1)
        /\ UNCHANGED <<day, traded, invested, since, short>> /\ day > PayLag
    BY DEF Pay
  <1>4. deadline \in Nat
    <2>1. PayLag \in Nat
      BY ExemptionConstants
    <2>2. day - PayLag \in Nat \ {0}
      BY <1>2, <1>3, <2>1
    <2> QED
      BY <2>2, DeadlinesAreDays
  <1>5. /\ DividendTax(gross) \in Nat /\ TaxPart \in Nat \ {0}
        /\ DividendTax(gross) * TaxPart <= gross + (TaxPart - 1)
    BY <1>1, TaxIs, ExemptionConstants
  <1>6. /\ c.id = new /\ c.pay = day /\ c.deadline = deadline /\ c.uncovered = gross /\ c.protections = <<>>
        /\ new \in Nat
    BY <1>2
  <1>7. c \in Claim /\ Covered(c) = 0
    <2>1. c.protections \in Seq(Protection)
      BY <1>6
    <2>2. c \in Claim
      BY <1>1, <1>2, <1>4, <1>6, <2>1 DEF Claim
    <2> HIDE DEF c
    <2> QED
      BY <1>6, <2>1, <2>2, CoveredIs
  <1> HIDE DEF deadline, c
  <1>8. LET more == Append(claims, c)
        IN  /\ more \in Seq(Claim) /\ \A i \in DOMAIN more : more[i] = c \/ \E j \in DOMAIN claims : more[i] = claims[j]
            /\ Protected(more) = Covered(c) + Protected(claims)
            /\ \A id : OpenIn(more, id) = (IF c.id = id THEN c.uncovered + Covered(c) ELSE 0) + OpenIn(claims, id)
    BY <1>2, <1>7, ClaimMore
  <1>9. Protected(claims) \in Nat /\ \A id : OpenIn(claims, id) \in Nat
    BY <1>2, ProtectedIs, OpenInIs
  <1>10. /\ claims' \in Seq(Claim)
         /\ Protected(claims') = Protected(claims)
         /\ \A id : OpenIn(claims', id) = (IF claimed /\ id = new THEN gross ELSE 0) + OpenIn(claims, id)
         /\ \A i \in DOMAIN claims' : (claimed /\ claims'[i] = c) \/ \E j \in DOMAIN claims : claims'[i] = claims[j]
    <2>1. CASE claimed
      <3>1. claims' = Append(claims, c)
        BY <1>3, <2>1
      <3> QED
        BY <1>1, <1>6, <1>7, <1>8, <1>9, <2>1, <3>1
    <2>2. CASE ~ claimed
      <3>1. claims' = claims
        BY <1>3, <2>2
      <3> QED
        BY <1>2, <1>9, <2>2, <3>1
    <2> QED
      BY <2>1, <2>2
  <1>11. /\ DOMAIN paid' = DOMAIN paid \union {new} /\ DOMAIN paid = 1..Len(paid) /\ new \notin DOMAIN paid
         /\ DOMAIN taxed = DOMAIN paid /\ DOMAIN tax = DOMAIN paid /\ DOMAIN bookings = DOMAIN paid
    BY <1>2, <1>3
  <1> DEFINE part == IF claimed THEN 0 ELSE gross
             owed == IF claimed THEN 0 ELSE DividendTax(gross)
             times == IF claimed THEN 0 ELSE 1
  <1>12. part \in Nat /\ owed \in Nat /\ times \in Nat
    BY <1>1, <1>5
  <1>13. /\ paid'[new] = gross /\ taxed'[new] = part /\ tax'[new] = owed /\ bookings'[new] = times
         /\ \A id \in DOMAIN paid : /\ paid'[id] = paid[id] /\ taxed'[id] = taxed[id]
                                    /\ tax'[id] = tax[id] /\ bookings'[id] = bookings[id]
    BY <1>2, <1>3, <1>11, <1>12
  <1>14. Types'
    <2>1. /\ paid' \in Seq(Nat \ {0}) /\ Len(paid') = Len(paid) + 1
          /\ taxed' \in Seq(Nat) /\ Len(taxed') = Len(taxed) + 1
          /\ tax' \in Seq(Nat) /\ Len(tax') = Len(tax) + 1
          /\ bookings' \in Seq(Nat) /\ Len(bookings') = Len(bookings) + 1
      BY <1>1, <1>2, <1>3, <1>12
    <2> QED
      BY <1>2, <1>3, <1>10, <2>1 DEF Types
  <1>15. ClaimsAreOfDividends'
    <2>1. SUFFICES ASSUME NEW i \in DOMAIN claims'
                   PROVE  /\ claims'[i].id \in DOMAIN paid' /\ claims'[i].pay <= claims'[i].deadline
                          /\ \A k \in DOMAIN claims'[i].protections : claims'[i].protections[k].until >= FirstEnd
      BY DEF ClaimsAreOfDividends, FirstEnd
    <2>2. CASE claimed /\ claims'[i] = c
      <3>1. DOMAIN c.protections = {}
        BY <1>6
      <3> QED
        BY <1>2, <1>4, <1>6, <1>11, <2>2, <3>1
    <2>3. CASE \E j \in DOMAIN claims : claims'[i] = claims[j]
      BY <1>11, <2>3 DEF ClaimsAreOfDividends
    <2> QED
      BY <1>10, <2>2, <2>3
  <1>16. OpenIn(claims, new) = 0
    <2>1. \A i \in DOMAIN claims : claims[i].id # new
      BY <1>11 DEF ClaimsAreOfDividends
    <2> DEFINE amounts == [i \in DOMAIN claims |-> claims[i].uncovered + Covered(claims[i])]
    <2>2. \A i \in DOMAIN claims : amounts[i] \in Nat
      BY <1>2, OpenInIs
    <2>3. OpenIn(claims, new) = SumFor(amounts, new, claims)
      BY DEF OpenIn
    <2> HIDE DEF amounts, new
    <2>4. SumFor(amounts, new, claims) = 0
      BY <1>2, <2>1, <2>2, SumForIs
    <2> QED
      BY <2>3, <2>4
  <1>17. Accounted'
    <2>1. SUFFICES ASSUME NEW id \in DOMAIN paid'
                   PROVE  /\ OpenIn(claims', id) + taxed'[id] <= paid'[id]
                          /\ day <= FirstEnd + 1 => OpenIn(claims', id) + taxed'[id] = paid'[id]
      BY <1>3 DEF Accounted, FirstEnd
    <2> HIDE DEF new
    <2>2. CASE id = new
      <3>1. OpenIn(claims', id) = IF claimed THEN gross ELSE 0
        BY <1>1, <1>10, <1>16, <2>2
      <3> QED
        BY <1>1, <1>13, <2>2, <3>1
    <2>3. CASE id \in DOMAIN paid
      <3>1. OpenIn(claims', id) = OpenIn(claims, id)
        BY <1>9, <1>10, <1>11, <2>3
      <3> QED
        BY <1>13, <2>3, <3>1 DEF Accounted
    <2> QED
      BY <1>11, <2>1, <2>2, <2>3
  <1>18. RoundedByBooking'
    <2>1. SUFFICES ASSUME NEW id \in DOMAIN paid'
                   PROVE  /\ tax'[id] * TaxPart <= taxed'[id] + bookings'[id] * (TaxPart - 1)
                          /\ taxed'[id] = 0 => tax'[id] = 0
      BY DEF RoundedByBooking
    <2> HIDE DEF new
    <2>2. CASE id = new
      BY <1>1, <1>5, <1>13, <2>2
    <2>3. CASE id \in DOMAIN paid
      BY <1>13, <2>3 DEF RoundedByBooking
    <2> QED
      BY <1>11, <2>1, <2>2, <2>3
  <1>19. GraceCounted'
    BY <1>3, <1>10 DEF GraceCounted
  <1> QED
    BY <1>14, <1>15, <1>17, <1>18, <1>19

\* What a close books.
LEMMA ClosesBook ==
    ASSUME ClaimsInv, Close, NEW id \in DOMAIN paid
    PROVE  LET missed == SumFor(MissedNow, id, claims)
               broken == SumFor(BrokenNow, id, claims)
           IN  /\ missed \in Nat /\ broken \in Nat
               /\ taxed'[id] = taxed[id] + missed + broken
               /\ tax'[id] = tax[id] + DividendTax(missed) + DividendTax(broken)
               /\ bookings'[id] = bookings[id] + (IF missed > 0 THEN 1 ELSE 0) + (IF broken > 0 THEN 1 ELSE 0)
  <1> DEFINE missed == SumFor(MissedNow, id, claims)
             broken == SumFor(BrokenNow, id, claims)
             amounts == <<MissedNow, BrokenNow>>
             P == {k \in 1..2 : SumFor(amounts[k], id, claims) > 0}
  <1>1. Booked(amounts, claims)
    BY DEF Close, Current, FirstShort, Breaks, Lost, MissedNow, BrokenNow
  <1>2. amounts[1] = MissedNow /\ amounts[2] = BrokenNow
    OBVIOUS
  <1>3. /\ claims \in Seq(Claim) /\ day \in Nat \ {0} /\ invested \in Nat /\ since \in Nat
        /\ taxed \in Seq(Nat) /\ tax \in Seq(Nat) /\ bookings \in Seq(Nat)
        /\ DOMAIN taxed = DOMAIN paid /\ DOMAIN tax = DOMAIN paid /\ DOMAIN bookings = DOMAIN paid
    BY DEF ClaimsInv, Types
  <1>4. \A i \in DOMAIN claims : MissedNow[i] \in Nat /\ BrokenNow[i] \in Nat
    BY <1>3, SettledIs
  <1> HIDE DEF amounts
  <1>5. missed \in Nat /\ broken \in Nat
    BY <1>3, <1>4, SumForIs
  <1>6. /\ taxed'[id] = taxed[id] + missed + broken
        /\ tax'[id] = tax[id] + DividendTax(missed) + DividendTax(broken)
        /\ bookings'[id] = bookings[id] + Cardinality(P)
    BY <1>1, <1>2, <1>3 DEF Booked
  <1>7. (1 \in P <=> missed > 0) /\ (2 \in P <=> broken > 0) /\ P \subseteq 1..2
    BY <1>2
  <1> HIDE DEF P, missed, broken
  <1>8. Cardinality(P) = (IF missed > 0 THEN 1 ELSE 0) + (IF broken > 0 THEN 1 ELSE 0)
    BY <1>7, CountOfTwo
  <1>9. bookings[id] \in Nat
    BY <1>3, PlacesOf
  <1> QED
    BY <1>5, <1>6, <1>8, <1>9 DEF missed, broken

\* A close, in terms of what it computes.
LEMMA ClosesAre ==
    ASSUME ClaimsInv, Close
    PROVE  /\ day' = day + 1 /\ traded' = FALSE /\ invested' = invested /\ paid' = paid
           /\ since' = IF Breaks THEN 0 ELSE FirstShort
           /\ claims' = StillOpen(Break(Current, Lost))
           /\ short' = IF Protected(claims') > invested THEN short + 1 ELSE 0
           /\ taxed' = [id \in DOMAIN paid |-> taxed'[id]]
           /\ tax' = [id \in DOMAIN paid |-> tax'[id]]
           /\ bookings' = [id \in DOMAIN paid |-> bookings'[id]]
  <1>1. /\ day' = day + 1 /\ traded' = FALSE /\ invested' = invested /\ paid' = paid
        /\ since' = IF Breaks THEN 0 ELSE FirstShort
        /\ claims' = StillOpen(Break(Current, Lost))
        /\ short' = IF Shortfall(claims') > 0 THEN short + 1 ELSE 0
        /\ Booked(<<MissedNow, BrokenNow>>, claims)
    BY DEF Close, Current, FirstShort, Breaks, Lost, MissedNow, BrokenNow
  <1>2. DOMAIN taxed = DOMAIN paid /\ DOMAIN tax = DOMAIN paid /\ DOMAIN bookings = DOMAIN paid
    BY DEF ClaimsInv, Types
  <1>3. /\ taxed' = [id \in DOMAIN paid |-> taxed'[id]]
        /\ tax' = [id \in DOMAIN paid |-> tax'[id]]
        /\ bookings' = [id \in DOMAIN paid |-> bookings'[id]]
    BY <1>1, <1>2 DEF Booked
  <1>4. claims \in Seq(Claim) /\ day \in Nat \ {0} /\ invested \in Nat /\ since \in Nat
    BY DEF ClaimsInv, Types
  <1>5. claims' \in Seq(Claim)
    BY <1>1, <1>4, SettledIs
  <1>6. Protected(claims') \in Nat
    BY <1>5, ProtectedIs
  <1>7. Shortfall(claims') > 0 <=> Protected(claims') > invested
    BY <1>4, <1>6 DEF Shortfall, Less
  <1> QED
    BY <1>1, <1>3, <1>7

\* What a close takes from the claims of a dividend is what it taxes of it, and what ends when
\* the protections do; it counts a shortfall or ends it.
LEMMA ClosesKeep ==
    ASSUME ClaimsInv, Close
    PROVE  ClaimsInv'
  <1> USE DEF ClaimsInv
  <1> DEFINE after == StillOpen(Break(Current, Lost))
             n == Len(paid)
  <1>1. /\ day \in Nat \ {0} /\ claims \in Seq(Claim) /\ invested \in Nat /\ since \in Nat /\ short \in Nat
        /\ paid \in Seq(Nat \ {0}) /\ n \in Nat /\ DOMAIN paid = 1..n
        /\ taxed \in Seq(Nat) /\ tax \in Seq(Nat) /\ bookings \in Seq(Nat)
        /\ DOMAIN taxed = 1..n /\ DOMAIN tax = 1..n /\ DOMAIN bookings = 1..n
    BY DEF Types
  <1>2. /\ day' = day + 1 /\ traded' = FALSE /\ invested' = invested /\ paid' = paid
        /\ since' = IF Breaks THEN 0 ELSE FirstShort
        /\ claims' = after
        /\ short' = IF Protected(claims') > invested THEN short + 1 ELSE 0
        /\ taxed' = [id \in DOMAIN paid |-> taxed'[id]]
        /\ tax' = [id \in DOMAIN paid |-> tax'[id]]
        /\ bookings' = [id \in DOMAIN paid |-> bookings'[id]]
    BY ClosesAre
  <1>3. /\ after \in Seq(Claim)
        /\ \A k \in DOMAIN after : \E i \in DOMAIN claims :
             /\ after[k].id = claims[i].id /\ after[k].pay = claims[i].pay /\ after[k].deadline = claims[i].deadline
             /\ \A m \in DOMAIN after[k].protections : \E l \in DOMAIN claims[i].protections :
                   after[k].protections[m].until = claims[i].protections[l].until
        /\ Protected(after) = IF Breaks THEN invested ELSE Protected(Current)
        /\ \A id : /\ OpenIn(after, id) + SumFor(MissedNow, id, claims) + SumFor(BrokenNow, id, claims) <= OpenIn(claims, id)
                   /\ (\A i \in DOMAIN claims : \A l \in DOMAIN claims[i].protections :
                          claims[i].protections[l].until >= day)
                      => OpenIn(after, id) + SumFor(MissedNow, id, claims) + SumFor(BrokenNow, id, claims) = OpenIn(claims, id)
    BY <1>1, SettledIs
  <1>4. ASSUME NEW id \in DOMAIN paid
        PROVE  LET missed == SumFor(MissedNow, id, claims)
                   broken == SumFor(BrokenNow, id, claims)
               IN  /\ missed \in Nat /\ broken \in Nat
                   /\ taxed'[id] = taxed[id] + missed + broken
                   /\ tax'[id] = tax[id] + DividendTax(missed) + DividendTax(broken)
                   /\ bookings'[id] = bookings[id] + (IF missed > 0 THEN 1 ELSE 0) + (IF broken > 0 THEN 1 ELSE 0)
    BY ClosesBook
  <1>5. ASSUME NEW id \in DOMAIN paid
        PROVE  taxed[id] \in Nat /\ tax[id] \in Nat /\ bookings[id] \in Nat
               /\ paid[id] \in Nat /\ OpenIn(claims, id) \in Nat /\ OpenIn(after, id) \in Nat
    BY <1>1, <1>3, PlacesOf, OpenInIs
  <1> HIDE DEF after
  <1>6. Types'
    <2>1. \A id \in DOMAIN paid : taxed'[id] \in Nat /\ tax'[id] \in Nat /\ bookings'[id] \in Nat
      <3>1. SUFFICES ASSUME NEW id \in DOMAIN paid
                     PROVE  taxed'[id] \in Nat /\ tax'[id] \in Nat /\ bookings'[id] \in Nat
        OBVIOUS
      <3> DEFINE missed == SumFor(MissedNow, id, claims)
                 broken == SumFor(BrokenNow, id, claims)
      <3>2. /\ missed \in Nat /\ broken \in Nat
            /\ taxed'[id] = taxed[id] + missed + broken
            /\ tax'[id] = tax[id] + DividendTax(missed) + DividendTax(broken)
            /\ bookings'[id] = bookings[id] + (IF missed > 0 THEN 1 ELSE 0) + (IF broken > 0 THEN 1 ELSE 0)
        BY <1>4
      <3> HIDE DEF missed, broken
      <3>3. DividendTax(missed) \in Nat /\ DividendTax(broken) \in Nat
        BY <3>2, TaxIs
      <3> QED
        BY <1>5, <3>2, <3>3
    <2>2. taxed' \in Seq(Nat) /\ tax' \in Seq(Nat) /\ bookings' \in Seq(Nat)
      <3> DEFINE a == taxed'
                 b == tax'
                 c == bookings'
      <3>1. /\ a = [id \in 1..n |-> a[id]] /\ b = [id \in 1..n |-> b[id]] /\ c = [id \in 1..n |-> c[id]]
            /\ \A id \in 1..n : a[id] \in Nat /\ b[id] \in Nat /\ c[id] \in Nat
        BY <1>1, <1>2, <2>1
      <3> HIDE DEF a, b, c, n
      <3>2. a \in Seq(Nat) /\ b \in Seq(Nat) /\ c \in Seq(Nat)
        BY <1>1, <3>1, ListOf
      <3> QED
        BY <3>2 DEF a, b, c
    <2>3. DOMAIN taxed' = 1..n /\ DOMAIN tax' = 1..n /\ DOMAIN bookings' = 1..n
      BY <1>1, <1>2
    <2>4. Len(taxed') = n /\ Len(tax') = n /\ Len(bookings') = n
      BY <1>1, <2>2, <2>3
    <2>5. FirstShort \in Nat
      BY <1>1, FirstIs
    <2>6. since' \in Nat /\ short' \in Nat /\ day' \in Nat \ {0}
      BY <1>1, <1>2, <2>5
    <2>7. traded' \in BOOLEAN
      BY <1>2
    <2> QED
      BY <1>1, <1>2, <1>3, <2>2, <2>4, <2>6, <2>7 DEF Types
  <1>7. ClaimsAreOfDividends'
    <2>1. SUFFICES ASSUME NEW k \in DOMAIN after
                   PROVE  /\ after[k].id \in DOMAIN paid /\ after[k].pay <= after[k].deadline
                          /\ \A m \in DOMAIN after[k].protections : after[k].protections[m].until >= FirstEnd
      BY <1>2 DEF ClaimsAreOfDividends
    <2>2. PICK i \in DOMAIN claims :
            /\ after[k].id = claims[i].id /\ after[k].pay = claims[i].pay /\ after[k].deadline = claims[i].deadline
            /\ \A m \in DOMAIN after[k].protections : \E l \in DOMAIN claims[i].protections :
                  after[k].protections[m].until = claims[i].protections[l].until
      BY <1>3
    <2> QED
      BY <2>2 DEF ClaimsAreOfDividends
  <1>8. Accounted'
    <2>1. SUFFICES ASSUME NEW id \in DOMAIN paid
                   PROVE  /\ OpenIn(after, id) + taxed'[id] <= paid[id]
                          /\ day + 1 <= FirstEnd + 1 => OpenIn(after, id) + taxed'[id] = paid[id]
      BY <1>2 DEF Accounted, FirstEnd
    <2> DEFINE missed == SumFor(MissedNow, id, claims)
               broken == SumFor(BrokenNow, id, claims)
    <2>2. missed \in Nat /\ broken \in Nat /\ taxed'[id] = taxed[id] + missed + broken
      BY <1>4
    <2>3. /\ OpenIn(after, id) + missed + broken <= OpenIn(claims, id)
          /\ (\A i \in DOMAIN claims : \A l \in DOMAIN claims[i].protections : claims[i].protections[l].until >= day)
             => OpenIn(after, id) + missed + broken = OpenIn(claims, id)
      BY <1>3
    <2> HIDE DEF missed, broken
    <2>4. /\ OpenIn(claims, id) + taxed[id] <= paid[id]
          /\ day <= FirstEnd + 1 => OpenIn(claims, id) + taxed[id] = paid[id]
      BY DEF Accounted
    <2>5. FirstEnd \in Nat
      BY <1>1, EndsAreLate
    <2>6. day <= FirstEnd => \A i \in DOMAIN claims : \A l \in DOMAIN claims[i].protections :
                               claims[i].protections[l].until >= day
      <3>1. SUFFICES ASSUME day <= FirstEnd, NEW i \in DOMAIN claims, NEW l \in DOMAIN claims[i].protections
                     PROVE  claims[i].protections[l].until >= day
        OBVIOUS
      <3>2. claims[i].protections[l].until >= FirstEnd
        BY DEF ClaimsAreOfDividends
      <3>3. claims[i] \in Claim
        BY <1>1, PlacesOf
      <3>4. claims[i].protections \in Seq(Protection)
        BY <3>3 DEF Claim
      <3>5. claims[i].protections[l] \in Protection
        BY <3>4, PlacesOf
      <3> DEFINE until == claims[i].protections[l].until
      <3>6. until \in Nat /\ until >= FirstEnd
        BY <3>2, <3>5 DEF Protection
      <3> HIDE DEF ClaimsInv, until
      <3>7. until >= day
        BY <1>1, <2>5, <3>1, <3>6
      <3> QED
        BY <3>7 DEF until
    <2> HIDE DEF ClaimsInv
    <2>7. OpenIn(after, id) + taxed'[id] <= paid[id]
      BY <1>5, <2>2, <2>3, <2>4
    <2>8. ASSUME day + 1 <= FirstEnd + 1 PROVE OpenIn(after, id) + taxed'[id] = paid[id]
      <3>1. day <= FirstEnd /\ day <= FirstEnd + 1
        BY <1>1, <2>5, <2>8
      <3> QED
        BY <1>5, <2>2, <2>3, <2>4, <2>6, <3>1
    <2> QED
      BY <2>7, <2>8
  <1>9. RoundedByBooking'
    <2>1. SUFFICES ASSUME NEW id \in DOMAIN paid
                   PROVE  /\ tax'[id] * TaxPart <= taxed'[id] + bookings'[id] * (TaxPart - 1)
                          /\ taxed'[id] = 0 => tax'[id] = 0
      BY <1>2 DEF RoundedByBooking
    <2> DEFINE missed == SumFor(MissedNow, id, claims)
               broken == SumFor(BrokenNow, id, claims)
               m == IF missed > 0 THEN 1 ELSE 0
               b == IF broken > 0 THEN 1 ELSE 0
               T == TaxPart - 1
    <2>2. /\ missed \in Nat /\ broken \in Nat
          /\ taxed'[id] = taxed[id] + missed + broken
          /\ tax'[id] = tax[id] + DividendTax(missed) + DividendTax(broken)
          /\ bookings'[id] = bookings[id] + m + b
      BY <1>4
    <2> HIDE DEF missed, broken
    <2>3. TaxPart \in Nat \ {0} /\ T \in Nat /\ m \in Nat /\ b \in Nat
      BY ExemptionConstants
    <2>4. /\ DividendTax(missed) \in Nat /\ DividendTax(missed) * TaxPart <= missed + m * T
          /\ DividendTax(broken) \in Nat /\ DividendTax(broken) * TaxPart <= broken + b * T
      BY <2>2, BookedOnce
    <2>5. missed = 0 => DividendTax(missed) = 0
      BY <2>2, TaxIs
    <2>6. broken = 0 => DividendTax(broken) = 0
      BY <2>2, TaxIs
    <2>7. /\ tax[id] * TaxPart <= taxed[id] + bookings[id] * T
          /\ taxed[id] = 0 => tax[id] = 0
      BY DEF RoundedByBooking
    <2> HIDE DEF m, b, T
    <2>8. taxed[id] \in Nat /\ tax[id] \in Nat /\ bookings[id] \in Nat
      BY <1>5
    <2> HIDE DEF ClaimsInv
    <2>9. ASSUME taxed'[id] = 0 PROVE tax'[id] = 0
      <3>1. taxed[id] = 0 /\ missed = 0 /\ broken = 0
        BY <2>2, <2>8, <2>9
      <3>2. tax[id] = 0 /\ DividendTax(missed) = 0 /\ DividendTax(broken) = 0
        BY <2>5, <2>6, <2>7, <3>1
      <3> QED
        BY <2>2, <3>2
    <2>10. /\ tax'[id] * TaxPart = tax[id] * TaxPart + DividendTax(missed) * TaxPart + DividendTax(broken) * TaxPart
           /\ bookings'[id] * T = bookings[id] * T + m * T + b * T
      BY <2>2, <2>3, <2>4, <2>8
    <2>11. /\ tax[id] * TaxPart \in Nat /\ DividendTax(missed) * TaxPart \in Nat /\ DividendTax(broken) * TaxPart \in Nat
           /\ bookings[id] * T \in Nat /\ m * T \in Nat /\ b * T \in Nat
      BY <2>3, <2>4, <2>8
    <2>12. tax'[id] * TaxPart <= taxed'[id] + bookings'[id] * T
      BY <2>2, <2>4, <2>7, <2>8, <2>10, <2>11
    <2> QED
      BY <2>9, <2>12 DEF T
  <1>10. GraceCounted'
    <2> DEFINE P == Protected(Current)
    <2>1. P \in Nat
      BY <1>1, CurrentIs
    <2>2. /\ FirstShort = IF P <= invested THEN 0 ELSE IF since = 0 THEN day ELSE since
          /\ Breaks <=> FirstShort # 0 /\ day >= FirstShort + Lag
      BY <1>1, FirstIs
    <2>3. Lag \in Nat \ {0}
      BY ExemptionConstants
    <2>4. /\ since # 0 => since <= day /\ short = day - since /\ short <= Lag
          /\ since = 0 => short = 0
      BY DEF GraceCounted
    <2> HIDE DEF P
    <2>5. Protected(claims') = IF Breaks THEN invested ELSE P
      BY <1>2, <1>3 DEF P
    <2>6. CASE Breaks
      <3>1. since' = 0 /\ short' = 0 /\ Protected(claims') = invested
        BY <1>1, <1>2, <2>5, <2>6
      <3> QED
        BY <1>1, <1>2, <3>1 DEF GraceCounted
    <2>7. CASE ~ Breaks
      <3>1. since' = FirstShort /\ Protected(claims') = P /\ short' = IF P > invested THEN short + 1 ELSE 0
        BY <1>2, <2>5, <2>7
      <3>2. CASE P <= invested
        <4>1. since' = 0 /\ short' = 0
          BY <1>1, <2>1, <2>2, <3>1, <3>2
        <4> QED
          BY <1>1, <1>2, <2>1, <3>1, <3>2, <4>1 DEF GraceCounted
      <3>3. CASE P > invested
        <4>1. since' = (IF since = 0 THEN day ELSE since) /\ since' # 0 /\ short' = short + 1 /\ day < since' + Lag
          BY <1>1, <2>1, <2>2, <2>3, <2>7, <3>1, <3>3
        <4>2. since' <= day + 1 /\ short' = day + 1 - since' /\ short' <= Lag
          BY <1>1, <2>3, <2>4, <4>1
        <4> QED
          BY <1>1, <1>2, <2>1, <3>1, <3>3, <4>1, <4>2 DEF GraceCounted
      <3> QED
        BY <1>1, <2>1, <3>2, <3>3
    <2> QED
      BY <2>6, <2>7
  <1> QED
    BY <1>6, <1>7, <1>8, <1>9, <1>10

-----------------------------------------------------------------------------
(* What a close takes of a dividend, part by part.                         *)

\* What the protections of a claim that have not ended come to is what its deadline leaves.
LEMMA LastingIs ==
    ASSUME NEW c \in Claim, day \in Nat
    PROVE  Lasting(c) = Covered(AtTheDeadline(c)) /\ Lasting(c) \in Nat /\ Lasting(c) <= Covered(c)
  <1> DEFINE p == c.protections
             places == {k \in DOMAIN p : p[k].until >= day}
             f == [k \in DOMAIN p |-> IF k \in places THEN p[k].amount ELSE 0]
             left == Unexpired(p)
             d == AtTheDeadline(c)
  <1>1. p \in Seq(Protection)
    BY DEF Claim
  <1>2. \A k \in DOMAIN p : p[k].amount \in Nat
    <2>1. \A k \in DOMAIN p : p[k] \in Protection
      BY <1>1, PlacesOf
    <2> QED
      BY <2>1 DEF Protection
  <1>3. left = Kept(p, places) /\ places \in SUBSET DOMAIN p
    BY DEF Unexpired
  <1>4. Lasting(c) = SumFunctionOnSet(f, DOMAIN p)
    <2>1. f = [k \in DOMAIN p |-> IF p[k].until >= day THEN p[k].amount ELSE 0] /\ DOMAIN f = DOMAIN p
      OBVIOUS
    <2> QED
      BY <2>1 DEF Lasting, Total
  <1>5. d.protections = left /\ d \in Claim /\ Covered(d) <= Covered(c)
    <2>1. d \in Claim /\ Covered(d) <= Covered(c)
      BY DeadlineIs
    <2>2. c = [id |-> c.id, pay |-> c.pay, deadline |-> c.deadline,
               uncovered |-> c.uncovered, protections |-> c.protections]
      BY ClaimIs
    <2>3. d = [c EXCEPT !.uncovered = c.uncovered - Missed(c), !.protections = left]
      BY DEF AtTheDeadline
    <2> HIDE DEF d, left, p
    <2>4. d.protections = left
      BY <2>2, <2>3
    <2> QED
      BY <2>1, <2>4
  <1> HIDE DEF left
  <1>6. left \in Seq(Protection)
    BY <1>5 DEF Claim
  <1>7. SumFunctionOnSet(AmountOf(left), DOMAIN left) = SumFunctionOnSet(f, DOMAIN p)
    BY <1>1, <1>2, <1>3, KeptAmounts
  <1>8. Covered(d) = SumFunctionOnSet(AmountOf(left), DOMAIN left) /\ Covered(d) \in Nat
    BY <1>5, <1>6, CoveredIs
  <1> HIDE DEF d, f
  <1> QED
    BY <1>4, <1>5, <1>7, <1>8 DEF d

\* What is taken from each claim is taken from its dividend.
LEMMA PartMoves ==
    ASSUME NEW list \in Seq(Claim), NEW after \in Seq(Claim), DOMAIN after = DOMAIN list, NEW id,
           NEW was, NEW is, NEW gone,
           \A i \in DOMAIN list : /\ after[i].id = list[i].id /\ is[i] \in Nat /\ gone[i] \in Nat
                                  /\ was[i] = is[i] + gone[i]
    PROVE  SumFor(was, id, list) = SumFor(is, id, after) + SumFor(gone, id, list)
  <1> DEFINE S == DOMAIN list
             f == OfDividend(was, id, list)
             g == OfDividend(is, id, after)
             h == OfDividend(gone, id, list)
  <1>1. IsFiniteSet(S)
    BY PlacesOf
  <1>2. \A i \in S : was[i] \in Nat
    OBVIOUS
  <1>3. /\ SumFor(was, id, list) = SumFunctionOnSet(f, S)
        /\ SumFor(gone, id, list) = SumFunctionOnSet(h, S)
    BY <1>2, SumForIs
  <1>4. \A i \in DOMAIN after : is[i] \in Nat
    OBVIOUS
  <1>5. SumFor(is, id, after) = SumFunctionOnSet(g, S)
    BY <1>4, SumForIs
  <1>6. \A i \in S : /\ f[i] = (IF list[i].id = id THEN was[i] ELSE 0)
                     /\ g[i] = (IF list[i].id = id THEN is[i] ELSE 0)
                     /\ h[i] = (IF list[i].id = id THEN gone[i] ELSE 0)
    BY DEF OfDividend
  <1> HIDE DEF f, g, h
  <1>7. \A i \in S : g[i] \in Int /\ h[i] \in Int /\ f[i] = g[i] + h[i]
    BY <1>2, <1>6
  <1>8. SumFunctionOnSet(f, S) = SumFunctionOnSet(g, S) + SumFunctionOnSet(h, S)
    BY <1>1, <1>7, SumPlus
  <1> QED
    BY <1>3, <1>5, <1>8

\* Nothing of a dividend goes with the claims that have nothing left.
LEMMA PartKept ==
    ASSUME NEW list \in Seq(Claim), NEW id, NEW f, NEW g,
           \A i \in DOMAIN list :
               f[i] \in Nat /\ (list[i].uncovered = 0 /\ list[i].protections = <<>> => f[i] = 0),
           \A k \in DOMAIN StillOpen(list), i \in DOMAIN list :
               StillOpen(list)[k] = list[i] => g[k] = f[i]
    PROVE  SumFor(g, id, StillOpen(list)) = SumFor(f, id, list)
  <1> DEFINE places == {i \in DOMAIN list : list[i].uncovered > 0 \/ list[i].protections # <<>>}
             after == StillOpen(list)
             u == OfDividend(f, id, list)
             v == OfDividend(g, id, after)
  <1>1. after = Kept(list, places) /\ places \in SUBSET DOMAIN list
    BY DEF StillOpen
  <1>2. after \in Seq(Claim) /\ \A k \in DOMAIN after : \E i \in DOMAIN list : after[k] = list[i]
    BY StillOpenIs
  <1>3. \A i \in DOMAIN list : i \notin places => f[i] = 0
    <2>1. SUFFICES ASSUME NEW i \in DOMAIN list, i \notin places PROVE f[i] = 0
      OBVIOUS
    <2>2. list[i] \in Claim
      BY PlacesOf
    <2>3. list[i].uncovered \in Nat
      BY <2>2 DEF Claim
    <2> QED
      BY <2>1, <2>3
  <1>4. /\ \A i \in DOMAIN list : u[i] = IF list[i].id = id THEN f[i] ELSE 0
        /\ \A k \in DOMAIN after : v[k] = IF after[k].id = id THEN g[k] ELSE 0
    BY DEF OfDividend
  <1>5. SumFor(f, id, list) = SumFunctionOnSet(u, DOMAIN list)
    BY SumForIs
  <1> HIDE DEF after, places
  <1>6. \A k \in DOMAIN after, i \in DOMAIN list : after[k] = list[i] => g[k] = f[i]
    BY DEF after
  <1>7. \A k \in DOMAIN after : g[k] \in Nat
    BY <1>2, <1>6
  <1>8. SumFor(g, id, after) = SumFunctionOnSet(v, DOMAIN after)
    BY <1>2, <1>7, SumForIs
  <1> HIDE DEF u, v
  <1>9. \A i \in DOMAIN list : u[i] \in Int /\ (i \notin places => u[i] = 0)
    BY <1>3, <1>4
  <1>10. \A k \in DOMAIN Kept(list, places), i \in places : Kept(list, places)[k] = list[i] => v[k] = u[i]
    BY <1>1, <1>4, <1>6
  <1>11. SumFunctionOnSet(v, DOMAIN Kept(list, places)) = SumFunctionOnSet(u, DOMAIN list)
    BY <1>1, <1>9, <1>10, KeptSums
  <1> QED
    BY <1>1, <1>5, <1>8, <1>11 DEF after

\* What a close makes of each claim, before those with nothing left are dropped.
Settled(after) ==
    /\ after \in Seq(Claim) /\ DOMAIN after = DOMAIN claims
    /\ \A i \in DOMAIN claims :
         /\ after[i].id = claims[i].id /\ after[i].deadline = claims[i].deadline
         /\ MissedNow[i] \in Nat /\ BrokenNow[i] \in Nat
         /\ after[i].uncovered \in Nat /\ Covered(after[i]) \in Nat
         /\ claims[i].uncovered = after[i].uncovered + MissedNow[i]
         /\ claims[i].deadline < day => after[i].uncovered = 0
         /\ Lasting(claims[i]) = Covered(after[i]) + BrokenNow[i]
         /\ BrokenNow[i] > 0 =>
              \A j \in DOMAIN claims : \A k \in DOMAIN after[j].protections :
                  \E l \in DOMAIN claims[i].protections :
                      claims[i].protections[l].until >= after[j].protections[k].until

\* It takes what was missed from what is uncovered, and what breaks from what has not ended.
LEMMA SettledEach ==
    ASSUME claims \in Seq(Claim), day \in Nat \ {0}, invested \in Nat, since \in Nat
    PROVE  Settled(Break(Current, Lost))
  <1> DEFINE after == Break(Current, Lost)
  <1>1. Current \in Seq(Claim) /\ DOMAIN Current = DOMAIN claims /\ Lost \in Nat
    BY CurrentIs, FirstIs
  <1>2. ShortBy(Current, Lost, after)
    BY <1>1, BreakIs
  <1> HIDE DEF after
  <1>3. after \in Seq(Claim) /\ DOMAIN after = DOMAIN claims
    BY <1>1, <1>2 DEF ShortBy
  <1>4. ASSUME NEW i \in DOMAIN claims
        PROVE  /\ after[i].id = claims[i].id /\ after[i].deadline = claims[i].deadline
               /\ MissedNow[i] \in Nat /\ BrokenNow[i] \in Nat
               /\ after[i].uncovered \in Nat /\ Covered(after[i]) \in Nat
               /\ claims[i].uncovered = after[i].uncovered + MissedNow[i]
               /\ claims[i].deadline < day => after[i].uncovered = 0
               /\ Lasting(claims[i]) = Covered(after[i]) + BrokenNow[i]
    <2> DEFINE c == claims[i]
               d == AtTheDeadline(c)
               b == after[i]
    <2>1. c \in Claim /\ Current[i] = d /\ b \in Claim
      BY <1>3, PlacesOf DEF Current
    <2>2. /\ d.id = c.id /\ d.deadline = c.deadline
          /\ Missed(c) \in Nat /\ Missed(c) <= c.uncovered /\ d.uncovered = c.uncovered - Missed(c)
      BY <2>1, DeadlineIs
    <2>3. Lasting(c) = Covered(d)
      BY <2>1, LastingIs
    <2>4. /\ b.id = d.id /\ b.deadline = d.deadline /\ b.uncovered = d.uncovered
          /\ Broken(Current, Lost, i) \in Nat /\ Covered(b) + Broken(Current, Lost, i) = Covered(d)
      BY <1>1, <1>2, <2>1 DEF ShortBy
    <2>5. MissedNow[i] = Missed(c) /\ BrokenNow[i] = Broken(Current, Lost, i)
      BY <1>1 DEF MissedNow, BrokenNow
    <2>6. c.uncovered \in Nat /\ c.deadline \in Nat /\ b.uncovered \in Nat /\ b.protections \in Seq(Protection)
      BY <2>1 DEF Claim
    <2>7. Covered(b) \in Nat
      BY <2>6, CoveredIs
    <2>8. c.deadline < day => Missed(c) = c.uncovered
      BY <2>6 DEF Missed
    <2> HIDE DEF b, c, d
    <2>9. /\ b.id = c.id /\ b.deadline = c.deadline /\ c.uncovered = b.uncovered + MissedNow[i]
          /\ c.deadline < day => b.uncovered = 0
          /\ Lasting(c) = Covered(b) + BrokenNow[i]
      BY <2>2, <2>3, <2>4, <2>5, <2>6, <2>7, <2>8
    <2> QED
      BY <2>2, <2>4, <2>5, <2>6, <2>7, <2>9 DEF b, c
  <1>5. ASSUME NEW i \in DOMAIN claims, BrokenNow[i] > 0,
               NEW j \in DOMAIN claims, NEW k \in DOMAIN after[j].protections
        PROVE  \E l \in DOMAIN claims[i].protections :
                   claims[i].protections[l].until >= after[j].protections[k].until
    <2>1. Broken(Current, Lost, i) > 0
      BY <1>1, <1>5 DEF BrokenNow
    <2>2. PICK l \in DOMAIN Current[i].protections : Current[i].protections[l].until >= after[j].protections[k].until
      BY <1>1, <1>2, <1>5, <2>1, LatestGo
    <2>3. claims[i] \in Claim /\ Current[i] = AtTheDeadline(claims[i])
      BY PlacesOf DEF Current
    <2>4. PICK m \in DOMAIN claims[i].protections : Current[i].protections[l] = claims[i].protections[m]
      BY <2>3, DeadlineIs
    <2> QED
      BY <2>2, <2>4
  <1> QED
    BY <1>3, <1>4, <1>5 DEF Settled, after

\* A close takes from each part of a dividend what it books for it.
LEMMA ClosesTake ==
    ASSUME ClaimsInv, Close, NEW id
    PROVE  /\ LastingPart(id) = ProtectedPart(id)' + SumFor(BrokenNow, id, claims)
           /\ UncoveredPart(id) = UncoveredPart(id)' + SumFor(MissedNow, id, claims)
           /\ LastingPart(id) \in Nat /\ UncoveredPart(id) \in Nat
           /\ ProtectedPart(id)' \in Nat /\ UncoveredPart(id)' \in Nat
  <1> DEFINE after == Break(Current, Lost)
             lasting == [i \in DOMAIN claims |-> Lasting(claims[i])]
             uncovered == [i \in DOMAIN claims |-> claims[i].uncovered]
             covered == [i \in DOMAIN after |-> Covered(after[i])]
             open == [i \in DOMAIN after |-> after[i].uncovered]
             coveredLeft == [i \in DOMAIN claims' |-> Covered(claims'[i])]
             openLeft == [i \in DOMAIN claims' |-> claims'[i].uncovered]
  <1>1. claims \in Seq(Claim) /\ day \in Nat \ {0} /\ invested \in Nat /\ since \in Nat
    BY DEF ClaimsInv, Types
  <1>2. Settled(after)
    BY <1>1, SettledEach
  <1>3. claims' = StillOpen(after) /\ claims' \in Seq(Claim)
    BY <1>1, ClosesAre, SettledIs
  <1>4. /\ LastingPart(id) = SumFor(lasting, id, claims) /\ UncoveredPart(id) = SumFor(uncovered, id, claims)
        /\ ProtectedPart(id)' = SumFor(coveredLeft, id, claims') /\ UncoveredPart(id)' = SumFor(openLeft, id, claims')
    BY DEF LastingPart, UncoveredPart, ProtectedPart
  <1> HIDE DEF after
  <1>5. after \in Seq(Claim) /\ DOMAIN after = DOMAIN claims
    BY <1>2 DEF Settled
  <1>6. \A i \in DOMAIN claims :
          /\ after[i].id = claims[i].id /\ MissedNow[i] \in Nat /\ BrokenNow[i] \in Nat
          /\ covered[i] \in Nat /\ open[i] \in Nat
          /\ uncovered[i] = open[i] + MissedNow[i] /\ lasting[i] = covered[i] + BrokenNow[i]
    BY <1>2, <1>5 DEF Settled
  <1>7. \A i \in DOMAIN after :
          /\ covered[i] \in Nat /\ open[i] \in Nat
          /\ after[i].uncovered = 0 /\ after[i].protections = <<>> => open[i] = 0 /\ covered[i] = 0
    <2>1. SUFFICES ASSUME NEW i \in DOMAIN after
                   PROVE  after[i].protections = <<>> => covered[i] = 0
      BY <1>5, <1>6
    <2>2. after[i].protections = <<>> => after[i].protections \in Seq(Protection)
      OBVIOUS
    <2> QED
      BY <2>2, CoveredIs
  <1>8. \A k \in DOMAIN StillOpen(after), i \in DOMAIN after :
          StillOpen(after)[k] = after[i] => coveredLeft[k] = covered[i] /\ openLeft[k] = open[i]
    BY <1>3
  <1> HIDE DEF lasting, uncovered, covered, open, coveredLeft, openLeft
  <1>9. SumFor(lasting, id, claims) = SumFor(covered, id, after) + SumFor(BrokenNow, id, claims)
    BY <1>1, <1>5, <1>6, PartMoves
  <1>10. SumFor(uncovered, id, claims) = SumFor(open, id, after) + SumFor(MissedNow, id, claims)
    BY <1>1, <1>5, <1>6, PartMoves
  <1>11. SumFor(coveredLeft, id, StillOpen(after)) = SumFor(covered, id, after)
    BY <1>5, <1>7, <1>8, PartKept
  <1>12. SumFor(openLeft, id, StillOpen(after)) = SumFor(open, id, after)
    BY <1>5, <1>7, <1>8, PartKept
  <1>13. /\ SumFor(covered, id, after) \in Nat /\ SumFor(open, id, after) \in Nat
    BY <1>5, <1>7, SumForIs
  <1>14. /\ SumFor(BrokenNow, id, claims) \in Nat /\ SumFor(MissedNow, id, claims) \in Nat
    BY <1>1, <1>6, SumForIs
  <1> QED
    BY <1>3, <1>4, <1>9, <1>10, <1>11, <1>12, <1>13, <1>14

\* Where claims only come and only protect more, nothing that has not ended is lost.
LEMMA NothingIsLost ==
    ASSUME claims \in Seq(Claim), day \in Nat, NEW after \in Seq(Claim), DOMAIN claims \subseteq DOMAIN after, NEW id,
           \A i \in DOMAIN claims : after[i].id = claims[i].id /\ Covered(claims[i]) <= Covered(after[i])
    PROVE  /\ LastingPart(id) \in Nat /\ SumFor([i \in DOMAIN after |-> Covered(after[i])], id, after) \in Nat
           /\ LastingPart(id) <= SumFor([i \in DOMAIN after |-> Covered(after[i])], id, after)
  <1> DEFINE S == DOMAIN claims
             T == DOMAIN after
             lasting == [i \in DOMAIN claims |-> Lasting(claims[i])]
             covered == [i \in DOMAIN after |-> Covered(after[i])]
             u == OfDividend(lasting, id, claims)
             v == OfDividend(covered, id, after)
  <1>1. IsFiniteSet(S) /\ IsFiniteSet(T)
    BY PlacesOf
  <1>2. \A i \in S : Lasting(claims[i]) \in Nat /\ Lasting(claims[i]) <= Covered(claims[i]) /\ Covered(claims[i]) \in Nat
    <2>1. \A i \in S : claims[i] \in Claim /\ Covered(claims[i]) \in Nat
      BY ProtectedIs
    <2> QED
      BY <2>1, LastingIs
  <1>3. \A i \in T : Covered(after[i]) \in Nat
    BY ProtectedIs
  <1>4. /\ \A i \in S : lasting[i] = Lasting(claims[i]) /\ lasting[i] \in Nat
        /\ \A i \in T : covered[i] = Covered(after[i]) /\ covered[i] \in Nat
    BY <1>2, <1>3
  <1>5. LastingPart(id) = SumFor(lasting, id, claims)
    BY DEF LastingPart
  <1> HIDE DEF lasting, covered
  <1>6. /\ SumFor(lasting, id, claims) = SumFunctionOnSet(u, S) /\ SumFor(lasting, id, claims) \in Nat
        /\ SumFor(covered, id, after) = SumFunctionOnSet(v, T) /\ SumFor(covered, id, after) \in Nat
    BY <1>4, SumForIs
  <1>7. /\ \A i \in S : u[i] = (IF claims[i].id = id THEN lasting[i] ELSE 0)
        /\ \A i \in T : v[i] = (IF after[i].id = id THEN covered[i] ELSE 0) /\ v[i] \in Nat
    BY <1>4 DEF OfDividend
  <1> HIDE DEF u, v
  <1>8. \A i \in S : u[i] \in Int /\ v[i] \in Int /\ u[i] <= v[i]
    <2>1. \A i \in S : i \in T /\ lasting[i] <= covered[i]
      BY <1>2, <1>3, <1>4
    <2> QED
      BY <1>4, <1>7, <2>1
  <1>9. SumFunctionOnSet(u, S) <= SumFunctionOnSet(v, S)
    BY <1>1, <1>8, SumAtMost
  <1>10. SumFunctionOnSet(v, T) = SumFunctionOnSet(v, S) + SumFunctionOnSet(v, T \ S)
    <2>1. S \in SUBSET T /\ \A i \in T : v[i] \in Int
      BY <1>7
    <2> QED
      BY <1>1, <2>1, SumSplit
  <1>11. SumFunctionOnSet(v, S) \in Nat /\ SumFunctionOnSet(v, T \ S) \in Nat
    <2>1. IsFiniteSet(T \ S) /\ (\A i \in S : v[i] \in Nat) /\ \A i \in T \ S : v[i] \in Nat
      BY <1>1, <1>7, FS_Subset
    <2> QED
      BY <1>1, <2>1, SumNat
  <1>12. SumFor(lasting, id, claims) <= SumFor(covered, id, after)
    BY <1>6, <1>9, <1>10, <1>11
  <1> QED
    BY <1>5, <1>6, <1>12 DEF covered

\* A dividend paid, a buy and a sale end no protection and tax no dividend paid before.
LEMMA TradesTakeNothing ==
    ASSUME ClaimsInv, NEW id \in DOMAIN paid,
           \/ \E gross \in Dividends : Pay(gross)
           \/ \E value \in Buys : Buy(value)
           \/ \E cost \in 1..MaxInvested : Sell(cost)
    PROVE  /\ day' = day /\ taxed'[id] = taxed[id]
           /\ LastingPart(id) \in Nat /\ ProtectedPart(id)' \in Nat /\ LastingPart(id) <= ProtectedPart(id)'
  <1>1. /\ claims \in Seq(Claim) /\ day \in Nat \ {0} /\ paid \in Seq(Nat \ {0})
        /\ taxed \in Seq(Nat) /\ DOMAIN taxed = DOMAIN paid
    BY DEF ClaimsInv, Types
  <1>2. \A i \in DOMAIN claims : Covered(claims[i]) \in Nat
    BY <1>1, ProtectedIs
  <1>3. SUFFICES /\ day' = day /\ taxed'[id] = taxed[id]
                 /\ claims' \in Seq(Claim) /\ DOMAIN claims \subseteq DOMAIN claims'
                 /\ \A i \in DOMAIN claims : claims'[i].id = claims[i].id /\ Covered(claims[i]) <= Covered(claims'[i])
    <2>1. ProtectedPart(id)' = SumFor([i \in DOMAIN claims' |-> Covered(claims'[i])], id, claims')
      BY DEF ProtectedPart
    <2> QED
      BY <1>1, <2>1, NothingIsLost
  <1>4. ASSUME NEW gross \in Dividends, Pay(gross)
        PROVE  /\ day' = day /\ taxed'[id] = taxed[id]
               /\ claims' \in Seq(Claim) /\ DOMAIN claims \subseteq DOMAIN claims'
               /\ \A i \in DOMAIN claims : claims'[i].id = claims[i].id /\ Covered(claims[i]) <= Covered(claims'[i])
    <2>1. ClaimsInv'
      BY <1>4, PaysKeep
    <2>2. claims' \in Seq(Claim)
      BY <2>1 DEF ClaimsInv, Types
    <2>3. \E x : taxed' = Append(taxed, x)
      BY <1>4 DEF Pay
    <2>4. claims' = claims \/ \E c : claims' = Append(claims, c)
      BY <1>4 DEF Pay
    <2>5. DOMAIN claims \subseteq DOMAIN claims' /\ \A i \in DOMAIN claims : claims'[i] = claims[i]
      <3>1. ASSUME NEW c, claims' = Append(claims, c)
            PROVE  DOMAIN claims \subseteq DOMAIN claims' /\ \A i \in DOMAIN claims : claims'[i] = claims[i]
        BY <1>1, <3>1
      <3> QED
        BY <2>4, <3>1
    <2>6. day' = day
      BY <1>4 DEF Pay
    <2> QED
      BY <1>1, <1>2, <2>2, <2>3, <2>5, <2>6
  <1>5. ASSUME NEW value \in Buys, Buy(value)
        PROVE  /\ day' = day /\ taxed'[id] = taxed[id]
               /\ claims' \in Seq(Claim) /\ DOMAIN claims \subseteq DOMAIN claims'
               /\ \A i \in DOMAIN claims : claims'[i].id = claims[i].id /\ Covered(claims[i]) <= Covered(claims'[i])
    <2>1. day' = day /\ taxed' = taxed /\ claims' = Cover(claims, value) /\ value \in Nat
      BY <1>5, ExemptionConstants DEF Buy, history
    <2> DEFINE after == Cover(claims, value)
    <2>2. /\ after \in Seq(Claim) /\ DOMAIN after = DOMAIN claims
          /\ \A i \in DOMAIN claims :
               /\ after[i].id = claims[i].id /\ after[i].pay = claims[i].pay /\ after[i].deadline = claims[i].deadline
               /\ after[i].uncovered = claims[i].uncovered - TakenBy(claims, i, value)
               /\ Covered(after[i]) = Covered(claims[i]) + TakenBy(claims, i, value)
               /\ \A k \in DOMAIN after[i].protections :
                     \/ after[i].protections[k].until = ProtectionEnd(day)
                     \/ \E m \in DOMAIN claims[i].protections : after[i].protections[k] = claims[i].protections[m]
      BY <1>1, <2>1, CoverIs
    <2>3. \A i \in DOMAIN claims : TakenBy(claims, i, value) \in Nat
      BY <1>1, <2>1, ValueIsTaken
    <2> HIDE DEF after
    <2>4. \A i \in DOMAIN claims : Covered(claims[i]) <= Covered(after[i])
      BY <1>2, <2>2, <2>3
    <2> QED
      BY <2>1, <2>2, <2>4 DEF after
  <1>6. ASSUME NEW cost \in 1..MaxInvested, Sell(cost)
        PROVE  /\ day' = day /\ taxed'[id] = taxed[id]
               /\ claims' \in Seq(Claim) /\ DOMAIN claims \subseteq DOMAIN claims'
               /\ \A i \in DOMAIN claims : claims'[i].id = claims[i].id /\ Covered(claims[i]) <= Covered(claims'[i])
    <2>1. day' = day /\ taxed' = taxed /\ claims' = claims
      BY <1>6 DEF Sell, history
    <2> QED
      BY <1>1, <1>2, <2>1
  <1> QED
    BY <1>4, <1>5, <1>6

-----------------------------------------------------------------------------
(* The theorems.                                                           *)

\* Every step keeps the invariant.
LEMMA ClaimsStep ==
    ASSUME ClaimsInv, [Next]_vars
    PROVE  ClaimsInv'
  <1>1. CASE \E gross \in Dividends : Pay(gross)
    BY <1>1, PaysKeep
  <1>2. CASE \E value \in Buys : Buy(value)
    BY <1>2, BuysKeep
  <1>3. CASE \E cost \in 1..MaxInvested : Sell(cost)
    BY <1>3, SellsKeep
  <1>4. CASE Close
    BY <1>4, ClosesKeep
  <1>5. CASE UNCHANGED vars
    <2> USE <1>5 DEF vars
    <2>1. Types'
      BY DEF ClaimsInv, Types
    <2>2. ClaimsAreOfDividends'
      BY DEF ClaimsInv, ClaimsAreOfDividends
    <2>3. Accounted'
      BY DEF ClaimsInv, Accounted
    <2>4. RoundedByBooking'
      BY DEF ClaimsInv, RoundedByBooking
    <2>5. GraceCounted'
      BY DEF ClaimsInv, GraceCounted
    <2> QED
      BY <2>1, <2>2, <2>3, <2>4, <2>5 DEF ClaimsInv
  <1> QED
    BY <1>1, <1>2, <1>3, <1>4, <1>5 DEF Next

\* The claims, the tax booked and the days of a shortfall agree at every step.
THEOREM ClaimsAreSound == Spec => []ClaimsInv
  <1>1. Init => ClaimsInv
    BY ClaimsStart
  <1>2. ClaimsInv /\ [Next]_vars => ClaimsInv'
    BY ClaimsStep
  <1> QED
    BY <1>1, <1>2, PTL DEF Spec

\* What of a dividend is open and what is taxed never exceed it, and are all of it until the
\* first protections end; its tax is the full tax and a unit for every extra booking, at most.
THEOREM DividendsAreAccountedFor == Spec => []GrossIsAccountedFor
  <1>1. ClaimsInv => GrossIsAccountedFor
    <2> USE DEF ClaimsInv
    <2>1. SUFFICES ASSUME ClaimsInv, NEW id \in DOMAIN paid
                   PROVE  /\ \A i \in ClaimOf(id) : IsClaim(claims[i], paid[id])
                          /\ OpenPart(id) + taxed[id] <= paid[id]
                          /\ day <= HoldYears * YearDays + 1 => OpenPart(id) + taxed[id] = paid[id]
                          /\ tax[id] <= DividendTax(paid[id]) + Less(bookings[id], 1)
                          /\ taxed[id] = 0 => tax[id] = 0
      BY DEF GrossIsAccountedFor
    <2>2. /\ claims \in Seq(Claim)
          /\ paid[id] \in Nat \ {0} /\ taxed[id] \in Nat /\ tax[id] \in Nat /\ bookings[id] \in Nat
      <3>1. /\ claims \in Seq(Claim) /\ paid \in Seq(Nat \ {0})
            /\ taxed \in Seq(Nat) /\ tax \in Seq(Nat) /\ bookings \in Seq(Nat)
            /\ DOMAIN taxed = DOMAIN paid /\ DOMAIN tax = DOMAIN paid /\ DOMAIN bookings = DOMAIN paid
        BY <2>1 DEF Types
      <3> QED
        BY <3>1, PlacesOf
    <2>3. OpenPart(id) = OpenIn(claims, id) /\ OpenIn(claims, id) \in Nat
      BY <2>2, OpenInIs DEF OpenPart, OpenIn
    <2>4. /\ OpenIn(claims, id) + taxed[id] <= paid[id]
          /\ day <= FirstEnd + 1 => OpenIn(claims, id) + taxed[id] = paid[id]
      BY <2>1 DEF Accounted
    <2>5. tax[id] * TaxPart <= taxed[id] + bookings[id] * (TaxPart - 1) /\ (taxed[id] = 0 => tax[id] = 0)
      BY <2>1 DEF RoundedByBooking
    <2>6. tax[id] <= DividendTax(paid[id]) + Less(bookings[id], 1)
      <3>1. taxed[id] <= paid[id]
        BY <2>2, <2>3, <2>4
      <3>2. {paid[id], taxed[id], tax[id], bookings[id]} \subseteq Nat
        BY <2>2
      <3> QED
        BY <2>5, <3>1, <3>2, TaxIsBounded
    <2>7. ASSUME NEW i \in ClaimOf(id) PROVE IsClaim(claims[i], paid[id])
      <3> DEFINE c == claims[i]
                 amounts == [j \in DOMAIN claims |-> claims[j].uncovered + Covered(claims[j])]
      <3>1. i \in DOMAIN claims /\ c.id = id
        BY DEF ClaimOf
      <3>2. c \in Claim
        BY <2>2, <3>1, PlacesOf
      <3>3. c.uncovered \in Nat /\ c.protections \in Seq(Protection)
        BY <3>2 DEF Claim
      <3>4. \A k \in DOMAIN c.protections : IsProtection(c.protections[k])
        <4>1. \A k \in DOMAIN c.protections : c.protections[k] \in Protection
          BY <3>3, PlacesOf
        <4> QED
          BY <4>1 DEF Protection, IsProtection
      <3>5. c.pay <= c.deadline
        BY <2>1, <3>1 DEF ClaimsAreOfDividends
      <3>6. c.uncovered + Covered(c) <= OpenIn(claims, id)
        <4>1. \A j \in DOMAIN claims : amounts[j] \in Nat
          BY <2>2, OpenInIs
        <4>2. OpenIn(claims, id) = SumFor(amounts, id, claims) /\ amounts[i] = c.uncovered + Covered(c)
          BY <3>1 DEF OpenIn
        <4> HIDE DEF amounts
        <4>3. amounts[i] <= SumFor(amounts, id, claims)
          BY <2>2, <3>1, <4>1, SumForIs
        <4> QED
          BY <4>2, <4>3
      <3>7. Covered(c) \in Nat
        BY <3>3, CoveredIs
      <3> HIDE DEF c, ClaimsInv
      <3>8. c.uncovered + Covered(c) <= paid[id] /\ paid[id] > 0 /\ c.uncovered >= 0
        BY <2>2, <2>3, <2>4, <3>3, <3>6, <3>7
      <3> QED
        BY <3>4, <3>5, <3>8 DEF IsClaim, c
    <2> QED
      BY <2>3, <2>4, <2>5, <2>6, <2>7 DEF FirstEnd
  <1> QED
    BY <1>1, ClaimsAreSound, PTL

\* What is protected is invested, but for a shortfall that has lasted less than a settlement
\* cycle of closes: the day it began is on record.
THEOREM ShortfallsAreYoung == Spec => []ProtectedIsInvested
  <1>1. ClaimsInv => ProtectedIsInvested
    <2>1. ASSUME ClaimsInv PROVE short <= Lag
      <3>1. since \in Nat /\ short \in Nat /\ Lag \in Nat
        BY <2>1, ExemptionConstants DEF ClaimsInv, Types
      <3> QED
        BY <2>1, <3>1 DEF ClaimsInv, GraceCounted
    <2> QED
      BY <2>1 DEF ProtectedIsInvested, ClaimsInv, GraceCounted
  <1> QED
    BY <1>1, ClaimsAreSound, PTL

\* A protection is lost before its end only at the close that ends the grace of a shortfall on
\* record, and no more than the shortfall requires, the latest first; a close taxes that and what
\* missed its deadline, of which it leaves nothing uncovered, and nothing that was held to its end.
THEOREM OnlyShortfallsBreak == Spec => BreaksOnlyAShortfall
  <1> DEFINE lost(id) == LastingPart(id) - ProtectedPart(id)'
             missed(id) == UncoveredPart(id) - UncoveredPart(id)'
             Latest(id) == \A j \in DOMAIN claims' : \A left \in Range(claims'[j].protections) :
                               \E i \in ClaimOf(id) : \E p \in Range(claims[i].protections) :
                                   p.until >= left.until
             Breaking(id) == /\ since # 0 /\ day >= SettlementDate(since)
                             /\ Protected(claims') >= invested'
                             /\ Latest(id)
             Taxing(id) == taxed'[id] - taxed[id] = IF day' = day THEN 0 ELSE lost(id) + missed(id)
             Behind == \A j \in DOMAIN claims' : claims'[j].deadline < day => claims'[j].uncovered = 0
  <1>1. ASSUME ClaimsInv, Next
        PROVE  /\ \A id \in DOMAIN paid : (lost(id) > 0 => Breaking(id)) /\ Taxing(id)
               /\ day' > day => Behind
    <2>1. /\ claims \in Seq(Claim) /\ day \in Nat \ {0} /\ invested \in Nat /\ since \in Nat
          /\ \A id \in DOMAIN paid : taxed[id] \in Nat
      <3>1. taxed \in Seq(Nat) /\ DOMAIN taxed = DOMAIN paid
        BY <1>1 DEF ClaimsInv, Types
      <3> QED
        BY <1>1, <3>1, PlacesOf DEF ClaimsInv, Types
    <2>2. CASE Close
      <3> DEFINE after == Break(Current, Lost)
      <3>1. /\ day' = day + 1 /\ invested' = invested
            /\ claims' = StillOpen(after) /\ claims' \in Seq(Claim)
            /\ Protected(claims') = IF Breaks THEN invested ELSE Protected(Current)
        BY <1>1, <2>1, <2>2, ClosesAre, SettledIs
      <3>2. Settled(after)
        BY <2>1, SettledEach
      <3> HIDE DEF after
      <3>3. \A k \in DOMAIN claims' : \E i \in DOMAIN claims : claims'[k] = after[i]
        BY <3>1, <3>2, StillOpenIs DEF Settled
      <3>4. Behind
        <4>1. SUFFICES ASSUME NEW k \in DOMAIN claims', claims'[k].deadline < day
                       PROVE  claims'[k].uncovered = 0
          OBVIOUS
        <4>2. PICK i \in DOMAIN claims : claims'[k] = after[i]
          BY <3>3
        <4> QED
          BY <3>2, <4>1, <4>2 DEF Settled
      <3>5. ASSUME NEW id \in DOMAIN paid, lost(id) > 0 PROVE Breaking(id)
        <4>1. PICK i \in DOMAIN claims : claims[i].id = id /\ BrokenNow[i] > 0
          <5> DEFINE broken == SumFor(BrokenNow, id, claims)
          <5>1. lost(id) = broken
            <6>1. \A i \in DOMAIN claims : BrokenNow[i] \in Nat
              BY <3>2 DEF Settled
            <6>2. broken \in Nat
              BY <2>1, <6>1, SumForIs
            <6>3. LastingPart(id) = ProtectedPart(id)' + broken /\ ProtectedPart(id)' \in Nat
              BY <1>1, <2>2, ClosesTake
            <6> HIDE DEF broken
            <6> QED
              BY <6>2, <6>3
          <5>2. SUFFICES ASSUME \A i \in DOMAIN claims : claims[i].id = id => ~ (BrokenNow[i] > 0)
                         PROVE  broken = 0
            BY <3>5, <5>1
          <5>3. \A i \in DOMAIN claims : BrokenNow[i] \in Nat /\ (claims[i].id = id => BrokenNow[i] = 0)
            BY <3>2, <5>2 DEF Settled
          <5> QED
            BY <2>1, <5>3, SumForIs
        <4>2. Breaks
          BY <2>1, <4>1, SettledIs
        <4>3. /\ FirstShort = IF Protected(Current) <= invested THEN 0 ELSE IF since = 0 THEN day ELSE since
              /\ FirstShort # 0 /\ day >= FirstShort + Lag
          BY <2>1, <4>2, FirstIs
        <4>4. Lag \in Nat \ {0}
          BY ExemptionConstants
        <4>5. FirstShort = since /\ since # 0
          BY <2>1, <4>3, <4>4
        <4>6. Latest(id)
          <5>1. SUFFICES ASSUME NEW k \in DOMAIN claims', NEW m \in DOMAIN claims'[k].protections
                         PROVE  \E l \in DOMAIN claims[i].protections :
                                    claims[i].protections[l].until >= claims'[k].protections[m].until
            BY <4>1 DEF ClaimOf, Range
          <5>2. PICK j \in DOMAIN claims : claims'[k] = after[j]
            BY <3>3
          <5> QED
            BY <3>2, <4>1, <5>1, <5>2 DEF Settled
        <4> HIDE DEF Latest
        <4> QED
          BY <2>1, <3>1, <4>2, <4>3, <4>5, <4>6 DEF SettlementDate
      <3>6. ASSUME NEW id \in DOMAIN paid PROVE Taxing(id)
        <4> DEFINE m == SumFor(MissedNow, id, claims)
                   b == SumFor(BrokenNow, id, claims)
        <4>1. m \in Nat /\ b \in Nat /\ taxed'[id] = taxed[id] + m + b
          BY <1>1, <2>2, ClosesBook
        <4>2. /\ LastingPart(id) = ProtectedPart(id)' + b /\ UncoveredPart(id) = UncoveredPart(id)' + m
              /\ ProtectedPart(id)' \in Nat /\ UncoveredPart(id)' \in Nat
          BY <1>1, <2>2, ClosesTake
        <4>3. taxed[id] \in Nat /\ day' # day
          BY <2>1, <3>1
        <4> HIDE DEF m, b
        <4>4. lost(id) + missed(id) = m + b /\ taxed'[id] - taxed[id] = m + b
          BY <4>1, <4>2, <4>3
        <4> QED
          BY <4>3, <4>4
      <3> HIDE DEF lost, Breaking, Taxing, Behind
      <3> QED
        BY <3>4, <3>5, <3>6
    <2>3. CASE ~ Close
      <3>1. \/ \E gross \in Dividends : Pay(gross)
            \/ \E value \in Buys : Buy(value)
            \/ \E cost \in 1..MaxInvested : Sell(cost)
        BY <1>1, <2>3 DEF Next
      <3>2. day' = day
        BY <3>1 DEF Pay, Buy, Sell
      <3>3. ASSUME NEW id \in DOMAIN paid PROVE ~ (lost(id) > 0) /\ Taxing(id)
        <4>1. /\ taxed'[id] = taxed[id]
              /\ LastingPart(id) \in Nat /\ ProtectedPart(id)' \in Nat /\ LastingPart(id) <= ProtectedPart(id)'
          BY <1>1, <3>1, TradesTakeNothing
        <4>2. ~ (lost(id) > 0)
          BY <4>1
        <4>3. taxed'[id] - taxed[id] = 0
          BY <2>1, <4>1
        <4> QED
          BY <3>2, <4>2, <4>3
      <3>4. ~ (day' > day)
        BY <2>1, <3>2
      <3> HIDE DEF lost, Breaking, Taxing, Behind
      <3> QED
        BY <3>3, <3>4
    <2> QED
      BY <2>2, <2>3
  <1> DEFINE Broke ==
       /\ \A id \in DOMAIN paid :
            LET gone == LastingPart(id) - ProtectedPart(id)'
                late == UncoveredPart(id) - UncoveredPart(id)'
            IN  /\ gone > 0 =>
                     /\ since # 0 /\ day >= SettlementDate(since)
                     /\ Protected(claims') >= invested'
                     /\ \A j \in DOMAIN claims' : \A left \in Range(claims'[j].protections) :
                          \E i \in ClaimOf(id) : \E p \in Range(claims[i].protections) :
                              p.until >= left.until
                /\ taxed'[id] - taxed[id] = IF day' = day THEN 0 ELSE gone + late
       /\ day' > day => \A j \in DOMAIN claims' :
                          claims'[j].deadline < day => claims'[j].uncovered = 0
  <1>2. ASSUME ClaimsInv, Next PROVE Broke
    BY <1>1, <1>2
  <1>3. BreaksOnlyAShortfall <=> [][Broke]_vars
    BY DEF BreaksOnlyAShortfall
  <1> HIDE DEF Broke
  <1>4. ClaimsInv /\ [Next]_vars => [Broke]_vars
    BY <1>2
  <1> QED
    BY <1>3, <1>4, ClaimsAreSound, PTL DEF Spec

\* A dividend paid protects nothing yet.
LEMMA PayProtectsNothing ==
    ASSUME ClaimsInv, NEW gross \in Dividends, Pay(gross)
    PROVE  Protected(claims') = Protected(claims)
  <1> DEFINE c == [id |-> Len(paid) + 1, pay |-> day, deadline |-> Deadline(day - PayLag),
                   uncovered |-> gross, protections |-> <<>>]
  <1>1. claims' = claims \/ claims' = Append(claims, c)
    BY DEF Pay
  <1>2. /\ claims \in Seq(Claim) /\ day \in Nat \ {0} /\ paid \in Seq(Nat \ {0})
        /\ gross \in Nat /\ PayLag \in Nat /\ day > PayLag
    BY ExemptionConstants DEF ClaimsInv, Types, Pay
  <1>3. Deadline(day - PayLag) \in Nat
    <2>1. day - PayLag \in Nat \ {0}
      BY <1>2
    <2> QED
      BY <2>1, DeadlinesAreDays
  <1>4. c.protections = <<>> /\ c.protections \in Seq(Protection)
    OBVIOUS
  <1>5. c \in Claim
    BY <1>2, <1>3 DEF Claim
  <1> HIDE DEF c
  <1>6. Covered(c) = 0
    BY <1>4, CoveredIs
  <1>7. Protected(Append(claims, c)) = Covered(c) + Protected(claims) /\ Protected(claims) \in Nat
    BY <1>2, <1>5, ClaimMore, ProtectedIs
  <1>8. CASE claims' = Append(claims, c)
    <2>1. Protected(claims') = Protected(Append(claims, c))
      BY <1>8
    <2> QED
      BY <1>6, <1>7, <2>1
  <1> QED
    BY <1>1, <1>8

\* A buy protects no more than it adds to what is invested, and covers a claim only when every
\* older one that it may cover is covered in full.
THEOREM BuysCoverInOrder == Spec => BuysCoverOnceOldestFirst
  <1> DEFINE more == Protected(claims') - Protected(claims)
             Covers == more > 0 =>
                /\ more <= invested' - invested
                /\ \A i, j \in DOMAIN claims :
                     i < j /\ claims'[j].uncovered < claims[j].uncovered /\ Wanted(claims[i]) > 0
                         => claims'[i].uncovered = 0
  <1>1. ASSUME ClaimsInv, [Next]_vars PROVE [Covers]_vars
    <2>1. SUFFICES ASSUME Next, more > 0
                   PROVE  /\ more <= invested' - invested
                          /\ \A i, j \in DOMAIN claims :
                               i < j /\ claims'[j].uncovered < claims[j].uncovered /\ Wanted(claims[i]) > 0
                                   => claims'[i].uncovered = 0
      BY <1>1
    <2>2. claims \in Seq(Claim) /\ day \in Nat \ {0} /\ invested \in Nat /\ since \in Nat
      BY <1>1 DEF ClaimsInv, Types
    <2>3. Protected(claims) \in Nat
      BY <2>2, ProtectedIs
    <2>4. PICK value \in Buys : Buy(value)
      <3>1. ASSUME Protected(claims') <= Protected(claims), Protected(claims') \in Nat PROVE FALSE
        BY <2>1, <2>3, <3>1
      <3>2. ASSUME NEW gross \in Dividends, Pay(gross)
            PROVE  Protected(claims') <= Protected(claims) /\ Protected(claims') \in Nat
        BY <1>1, <2>3, <3>2, PayProtectsNothing
      <3>3. ASSUME NEW cost \in 1..MaxInvested, Sell(cost)
            PROVE  Protected(claims') <= Protected(claims) /\ Protected(claims') \in Nat
        BY <2>3, <3>3 DEF Sell
      <3>4. ASSUME Close
            PROVE  Protected(claims') <= Protected(claims) /\ Protected(claims') \in Nat
        <4>1. /\ Protected(Current) \in Nat /\ Protected(Current) <= Protected(claims)
          BY <2>2, CurrentIs
        <4>2. claims' = StillOpen(Break(Current, Lost))
          BY <1>1, <3>4, ClosesAre
        <4>3. Protected(claims') = IF Breaks THEN invested ELSE Protected(Current)
          BY <2>2, <4>2, SettledIs
        <4>4. Breaks => invested < Protected(Current)
          <5>1. Breaks => FirstShort # 0
            BY DEF Breaks
          <5>2. FirstShort # 0 => ~ (Protected(Current) <= invested)
            BY <2>2, FirstIs
          <5> QED
            BY <2>2, <4>1, <5>1, <5>2
        <4> QED
          BY <2>2, <2>3, <4>1, <4>3, <4>4
      <3> QED
        BY <2>1, <3>1, <3>2, <3>3, <3>4 DEF Next
    <2>5. value \in Nat /\ Fee \in Nat
      BY ExemptionConstants
    <2>6. claims' = Cover(claims, value) /\ invested' = invested + value + Fee
      BY <2>4 DEF Buy
    <2>7. /\ Protected(claims') <= Protected(claims) + value /\ claims' \in Seq(Claim)
          /\ \A i \in DOMAIN claims : claims'[i].uncovered = claims[i].uncovered - TakenBy(claims, i, value)
      BY <2>2, <2>5, <2>6, CoverIs
    <2>8. more <= invested' - invested
      <3>1. Protected(claims') \in Nat
        BY <2>7, ProtectedIs
      <3> QED
        BY <2>2, <2>3, <2>5, <2>6, <2>7, <3>1
    <2>9. ASSUME NEW i \in DOMAIN claims, NEW j \in DOMAIN claims, i < j,
                 claims'[j].uncovered < claims[j].uncovered, Wanted(claims[i]) > 0
          PROVE  claims'[i].uncovered = 0
      <3>1. /\ TakenBy(claims, j, value) \in Nat /\ TakenBy(claims, i, value) \in Nat
            /\ TakenBy(claims, j, value) > 0 => TakenBy(claims, i, value) = Wanted(claims[i])
        BY <2>2, <2>5, <2>9, ValueIsTaken
      <3>2. claims[i].uncovered \in Nat /\ claims[j].uncovered \in Nat
        <4>1. claims[i] \in Claim /\ claims[j] \in Claim
          BY <2>2, PlacesOf
        <4> QED
          BY <4>1 DEF Claim
      <3>3. TakenBy(claims, j, value) > 0
        BY <2>7, <2>9, <3>1, <3>2
      <3>4. Wanted(claims[i]) = claims[i].uncovered
        BY <2>9 DEF Wanted
      <3> QED
        BY <2>7, <3>1, <3>2, <3>3, <3>4
    <2> QED
      BY <2>8, <2>9
  <1>2. BuysCoverOnceOldestFirst <=> [][Covers]_vars
    BY DEF BuysCoverOnceOldestFirst
  <1> HIDE DEF Covers
  <1>3. ClaimsInv /\ [Next]_vars => [Covers]_vars
    BY <1>1
  <1> QED
    BY <1>2, <1>3, ClaimsAreSound, PTL DEF Spec
=============================================================================
